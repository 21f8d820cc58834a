---------------------------- MODULE AppServerProofs ----------------------------
(***************************************************************************)
(* Proofs about the app-server and the desktop: the sessions' types, their *)
(* mutual exclusion under sessionMu and the invariants that rest on it,    *)
(* for any bounds; and that each of the two clients keeps the promise of   *)
(* Calls and forgets no call, for any number of calls and connections.     *)
(***************************************************************************)
EXTENDS Sessions, RpcClient, DesktopIPC, FiniteSetTheorems, TLAPS

-----------------------------------------------------------------------------
(* Sessions                                                                *)

\* sessionMu is held exactly by the actor that is in the critical section.
LockInv == \A a \in Actors : pc[a] \in InLock <=> mu = a

\* A published channel is that of the current generation.
EventsInv == events # NoLoop => events = gen

\* What is inductive about clients: numbers are used once, and what was
\* swapped out waits for its closer only while that closer holds the lock.
ClientsInv ==
  /\ \A c \in Clients : c > made => proc[c] = "none"
  /\ CurrentClients \subseteq 0..made
  /\ doomed \subseteq 0..made
  /\ doomed # {} => mu \in Actors /\ pc[mu] \in {"closeLive", "closePoll"}
  /\ doomed \cap CurrentClients \subseteq {NoClient}

ReaderInv == TypeOK /\ LockInv /\ EventsInv /\ LiveHasReader
ProcessInv == TypeOK /\ LockInv /\ ClientsInv /\ ProcessesAccounted

USE BoundsAssumption DEF Roles, Actors, NoClient, NoLoop, NoActor, Clients, Loops, InLock, Places, ProcStates, Requesters

(***************************************************************************)
(* The record of a repair request keeps its type.                          *)
(***************************************************************************)
LEMMA RepairTypes ==
  ASSUME TypeOK, RequestRepair \/ UNCHANGED <<repairReq, owed, asks>>
  PROVE  repairReq' \in BOOLEAN /\ owed' \in BOOLEAN /\ asks' \in Nat
<1>1. repairReq \in BOOLEAN /\ owed \in BOOLEAN /\ asks \in Nat BY DEF TypeOK
<1>2. CASE UNCHANGED <<repairReq, owed, asks>> BY <1>1, <1>2
<1>3. CASE RequestRepair
  <2>1. repairReq' = TRUE /\ owed' = TRUE BY <1>3 DEF RequestRepair
  <2>2. asks' \in Nat
    <3>1. CASE repairReq BY <1>1, <1>3, <3>1 DEF RequestRepair
    <3>2. CASE ~repairReq BY <1>1, <1>3, <3>2 DEF RequestRepair
    <3> QED BY <3>1, <3>2
  <2> QED BY <2>1, <2>2
<1> QED BY <1>2, <1>3

(***************************************************************************)
(* Swapping both clients preserves the types of the fields it sets.        *)
(***************************************************************************)
LEMMA SwapTypes ==
  ASSUME TypeOK, NEW a \in Actors, NEW next \in {"closeLive", "closePoll"}, Swap(a, next)
  PROVE  /\ client' \in [Roles -> Clients \cup {NoClient}] /\ connected' \in [Roles -> BOOLEAN]
         /\ events' \in Loops \cup {NoLoop} /\ gen' \in Nat
         /\ proc' \in [Clients -> ProcStates] /\ made' \in 2..MaxClients
         /\ doomed' \subseteq Clients \cup {NoClient}
         /\ pc' \in [Actors -> Places]
<1> USE DEF Swap, TypeOK, Disconnected, SwappedOut, CurrentClients, Goto
<1>1. made + 1 \in Clients /\ made + 2 \in Clients /\ made' \in 2..MaxClients OBVIOUS
<1>2. client' \in [Roles -> Clients \cup {NoClient}] BY <1>1
<1>3. proc' \in [Clients -> ProcStates] BY <1>1
<1>4. doomed' \subseteq Clients \cup {NoClient} OBVIOUS
<1> QED BY <1>1, <1>2, <1>3, <1>4

LEMMA TypeInit == Init => TypeOK
<1> SUFFICES ASSUME Init PROVE TypeOK OBVIOUS
<1>1. 1 \in Clients /\ 2 \in Clients OBVIOUS
<1>2. client \in [Roles -> Clients \cup {NoClient}] BY <1>1 DEF Init
<1>3. connected \in [Roles -> BOOLEAN] /\ loopInbox \in [Loops -> BOOLEAN] BY Zenon DEF Init
<1>4. proc \in [Clients -> ProcStates] BY DEF Init
<1>5. loopState \in [Loops -> {"none", "unspawned", "running", "exited"}] BY DEF Init
<1>6. loopClient \in [Loops -> Clients \cup {NoClient}] BY DEF Init
<1>7. pc \in [Actors -> Places] BY DEF Init
<1>8. flight \in [Requesters -> Clients \cup {NoClient}] BY DEF Init
<1>9. doomed \subseteq Clients \cup {NoClient} /\ made \in 2..MaxClients /\ mu \in Actors \cup {NoActor} BY DEF Init
<1>10. events \in Loops \cup {NoLoop} /\ gen \in Nat /\ listen \in {"proxy", "stdio"} BY DEF Init
<1>11. /\ repairing \in {"no", "first", "force"} /\ lifecycle \in {"up", "cancelled", "down"}
       /\ asks \in Nat /\ deaths \in Nat /\ fails \in Nat
  BY DEF Init
<1>12. repairReq \in BOOLEAN /\ owed \in BOOLEAN BY DEF Init
<1> QED BY <1>2, <1>3, <1>4, <1>5, <1>6, <1>7, <1>8, <1>9, <1>10, <1>11, <1>12 DEF TypeOK

(***************************************************************************)
(* Every step keeps every variable in its type.                            *)
(***************************************************************************)
LEMMA TypeNext == TypeOK /\ [Next]_vars => TypeOK'
<1> SUFFICES ASSUME TypeOK, [Next]_vars PROVE TypeOK' OBVIOUS
<1> USE DEF svars, lvars, avars, bvars, Goto
<1>1. ASSUME NEW a \in Actors, Acquire(a) PROVE TypeOK' BY <1>1 DEF Acquire, TypeOK
<1>2. ASSUME NEW a \in Actors, StartLive(a) PROVE TypeOK'
  <2>1. proc' \in [Clients -> ProcStates] BY <1>2 DEF StartLive, TypeOK
  <2> QED BY <1>2, <2>1 DEF StartLive, TypeOK
<1>3. ASSUME NEW a \in Actors, NEW role \in Roles, StartFails(a, role) PROVE TypeOK'
  <2>1. CASE listen = "proxy"
    <3>1. Swap(a, IF role = "live" THEN "closeLive" ELSE "closePoll") BY <1>3, <2>1 DEF StartFails
    <3>2. fails' \in Nat /\ listen' = "stdio" /\ UNCHANGED <<lvars, mu, asks, deaths, repairing, repairReq, flight, lifecycle, owed>>
      BY <1>3, <2>1 DEF StartFails, TypeOK
    <3> QED BY <3>1, <3>2, SwapTypes DEF TypeOK
  <2>2. CASE listen # "proxy"
    <3>1. Goto(a, IF role = "live" THEN "startPoll" ELSE "release") BY <1>3, <2>2 DEF StartFails
    <3>2. pc' \in [Actors -> Places]
      BY <3>1 DEF TypeOK
    <3>3. fails' \in Nat BY <1>3 DEF StartFails, TypeOK
    <3>4. UNCHANGED <<client, connected, events, gen, listen, made, proc, doomed, lvars, mu, asks, deaths, repairing,
                      repairReq, flight, lifecycle, owed>>
      BY <1>3, <2>2 DEF StartFails
    <3> QED BY <3>2, <3>3, <3>4 DEF TypeOK
  <2> QED BY <2>1, <2>2
<1>4. ASSUME NEW a \in Actors, Subscribe(a) PROVE TypeOK'
  <2>1. gen + 1 \in Loops BY <1>4 DEF Subscribe, TypeOK
  <2> QED BY <1>4, <2>1 DEF Subscribe, TypeOK
<1>5. ASSUME NEW a \in Actors, SpawnLoop(a) PROVE TypeOK' BY <1>5 DEF SpawnLoop, TypeOK
<1>6. ASSUME NEW a \in Actors, StartPoll(a) PROVE TypeOK'
  <2>1. connected' \in [Roles -> BOOLEAN] 
    <3>1. connected' = connected \/ connected' = [connected EXCEPT !["poll"] = TRUE] BY <1>6 DEF StartPoll
    <3>2. connected \in [Roles -> BOOLEAN] BY DEF TypeOK
    <3> QED BY <3>1, <3>2, Zenon
  <2>2. proc' \in [Clients -> ProcStates] BY <1>6 DEF StartPoll, TypeOK
  <2>3. pc' \in [Actors -> Places]
    BY <1>6 DEF StartPoll, TypeOK
  <2> QED BY <1>6, <2>1, <2>2, <2>3 DEF StartPoll, TypeOK
<1>7. ASSUME NEW a \in Actors, CloseOld(a) PROVE TypeOK' BY <1>7 DEF CloseOld, TypeOK
<1>8. ASSUME NEW a \in Actors, Release(a) PROVE TypeOK' BY <1>8 DEF Release, TypeOK, Unlocked
<1>9. ASSUME NEW a \in Actors, Bootstrap(a) PROVE TypeOK'
  <2>1. repairReq' \in BOOLEAN /\ owed' \in BOOLEAN /\ asks' \in Nat BY <1>9, RepairTypes DEF Bootstrap
  <2> QED BY <1>9, <2>1 DEF Bootstrap, TypeOK
<1>10. CASE ControlTick BY <1>10 DEF ControlTick, TypeOK
<1>11. CASE Rebuild BY <1>11, SwapTypes DEF Rebuild, TypeOK
<1>12. ASSUME NEW ok \in BOOLEAN, Health(ok) PROVE TypeOK'
  <2>1. fails' \in Nat BY <1>12 DEF Health, TypeOK
  <2> QED BY <1>12, <2>1 DEF Health, TypeOK
<1>13. CASE ClearRequest BY <1>13 DEF ClearRequest, TypeOK
<1>14. CASE ControlExit BY <1>14 DEF ControlExit, TypeOK
<1>15. ASSUME NEW k \in Loops, LoopEvent(k) PROVE TypeOK'
  <2>1. repairReq' \in BOOLEAN /\ owed' \in BOOLEAN /\ asks' \in Nat BY <1>15, RepairTypes DEF LoopEvent
  <2> QED BY <1>15, <2>1 DEF LoopEvent, TypeOK
<1>16. ASSUME NEW k \in Loops, LoopCancelled(k) PROVE TypeOK' BY <1>16 DEF LoopCancelled, TypeOK
<1>17. ASSUME NEW q \in Requesters, CallBegin(q) PROVE TypeOK' BY <1>17 DEF CallBegin, TypeOK
<1>18. ASSUME NEW q \in Requesters, CallEnd(q) PROVE TypeOK'
  <2>1. repairReq' \in BOOLEAN /\ owed' \in BOOLEAN /\ asks' \in Nat BY <1>18, RepairTypes DEF CallEnd
  <2> QED BY <1>18, <2>1 DEF CallEnd, TypeOK
<1>19. CASE ChatRepair
  <2>1. repairReq' \in BOOLEAN /\ owed' \in BOOLEAN /\ asks' \in Nat BY <1>19, RepairTypes DEF ChatRepair
  <2> QED BY <1>19, <2>1 DEF ChatRepair, TypeOK
<1>20. ASSUME NEW c \in Clients, Die(c) PROVE TypeOK'
  <2>1. loopInbox' \in [Loops -> BOOLEAN] BY <1>20, Zenon DEF Die, TypeOK
  <2>2. proc' \in [Clients -> ProcStates] BY <1>20 DEF Die, TypeOK
  <2> QED BY <1>20, <2>1, <2>2 DEF Die, TypeOK
<1>21. CASE Cancel BY <1>21 DEF Cancel, TypeOK
<1>22. CASE CloseService BY <1>22 DEF CloseService, TypeOK
<1>23. CASE UNCHANGED vars BY <1>23 DEF vars, TypeOK
<1> QED
  BY <1>1, <1>2, <1>3, <1>4, <1>5, <1>6, <1>7, <1>8, <1>9, <1>10, <1>11, <1>12, <1>13, <1>14, <1>15,
     <1>16, <1>17, <1>18, <1>19, <1>20, <1>21, <1>22, <1>23
  DEF Next, ActorStep, ControlStep, LoopStep, StartLiveFails, StartPollFails, Terminated

(***************************************************************************)
(* The variables of the session component stay in their types.             *)
(***************************************************************************)
THEOREM TypeCorrect == Spec => []TypeOK
BY TypeInit, TypeNext, PTL DEF Spec

LEMMA LockNext == TypeOK /\ LockInv /\ [Next]_vars => LockInv'
<1> SUFFICES ASSUME TypeOK, LockInv, [Next]_vars PROVE LockInv' OBVIOUS
<1> USE DEF LockInv, Goto, avars
<1>0. mu \in Actors \cup {NoActor} /\ pc \in [Actors -> Places] BY DEF TypeOK
<1>1. ASSUME NEW a \in Actors, Acquire(a) PROVE LockInv' BY <1>0, <1>1 DEF Acquire
<1>2. ASSUME NEW a \in Actors, StartLive(a) PROVE LockInv' BY <1>0, <1>2 DEF StartLive
<1>3. ASSUME NEW a \in Actors, NEW role \in Roles, StartFails(a, role) PROVE LockInv'
  <2>1. mu' = mu /\ mu = a BY <1>3 DEF StartFails
  <2>2. \E l \in InLock : Goto(a, l) BY <1>3 DEF StartFails, Swap
  <2> QED BY <1>0, <2>1, <2>2
<1>4. ASSUME NEW a \in Actors, Subscribe(a) PROVE LockInv' BY <1>0, <1>4 DEF Subscribe
<1>5. ASSUME NEW a \in Actors, SpawnLoop(a) PROVE LockInv' BY <1>0, <1>5 DEF SpawnLoop
<1>6. ASSUME NEW a \in Actors, StartPoll(a) PROVE LockInv' BY <1>0, <1>6 DEF StartPoll
<1>7. ASSUME NEW a \in Actors, CloseOld(a) PROVE LockInv' BY <1>0, <1>7 DEF CloseOld
<1>8. ASSUME NEW a \in Actors, Release(a) PROVE LockInv' BY <1>0, <1>8 DEF Release, Unlocked
<1>9. ASSUME NEW a \in Actors, Bootstrap(a) PROVE LockInv' BY <1>0, <1>9 DEF Bootstrap
<1>10. CASE ControlTick BY <1>0, <1>10 DEF ControlTick
<1>11. CASE Rebuild
  <2>1. mu = NoActor /\ mu' = "control" /\ pc' = [pc EXCEPT !["control"] = "closeLive"] BY <1>11 DEF Rebuild, Swap
  <2> QED BY <1>0, <2>1
<1>12. ASSUME NEW ok \in BOOLEAN, Health(ok) PROVE LockInv' BY <1>0, <1>12 DEF Health
<1>13. CASE ClearRequest BY <1>0, <1>13 DEF ClearRequest
<1>14. CASE ControlExit BY <1>0, <1>14 DEF ControlExit
<1>15. CASE UNCHANGED <<mu, pc>> BY <1>15
<1> QED
  BY <1>1, <1>2, <1>3, <1>4, <1>5, <1>6, <1>7, <1>8, <1>9, <1>10, <1>11, <1>12, <1>13, <1>14, <1>15
  DEF Next, ActorStep, ControlStep, LoopStep, StartLiveFails, StartPollFails, Terminated, vars,
      LoopEvent, LoopCancelled, CallBegin, CallEnd, ChatRepair, Die, Cancel, CloseService

LEMMA EventsNext == TypeOK /\ EventsInv /\ [Next]_vars => EventsInv'
<1> SUFFICES ASSUME TypeOK, EventsInv, [Next]_vars PROVE EventsInv' OBVIOUS
<1> USE DEF EventsInv, svars
<1>1. ASSUME NEW a \in Actors, NEW l, Swap(a, l) PROVE EventsInv' BY <1>1 DEF Swap
<1>2. ASSUME NEW a \in Actors, Subscribe(a) PROVE EventsInv' BY <1>2 DEF Subscribe
<1>3. ASSUME NEW k \in Loops, LoopCancelled(k) PROVE EventsInv' BY <1>3 DEF LoopCancelled
<1>4. CASE CloseService BY <1>4 DEF CloseService
<1>5. CASE UNCHANGED <<events, gen>> BY <1>5
<1>6. ASSUME NEW a \in Actors, ActorStep(a) PROVE EventsInv'
  BY <1>1, <1>2, <1>5, <1>6
  DEF ActorStep, Acquire, StartLive, StartLiveFails, StartPollFails, StartFails, SpawnLoop, StartPoll, CloseOld,
      Release, Bootstrap
<1>7. CASE ControlStep
  BY <1>1, <1>5, <1>7 DEF ControlStep, ControlTick, Rebuild, Health, ClearRequest, ControlExit
<1>8. ASSUME NEW k \in Loops, LoopStep(k) PROVE EventsInv' BY <1>3, <1>5, <1>8 DEF LoopStep, LoopEvent
<1> QED
  BY <1>4, <1>5, <1>6, <1>7, <1>8 DEF Next, Terminated, vars, CallBegin, CallEnd, ChatRepair, Die, Cancel

(***************************************************************************)
(* Every step keeps a reader behind a connected live session.  Only five   *)
(* kinds of step matter: publishing the channel, spawning its reader, a    *)
(* swap, a reader that returns, and the lock changing hands.               *)
(***************************************************************************)
LEMMA ReaderNext == ReaderInv /\ [Next]_vars => LiveHasReader'
<1> SUFFICES ASSUME ReaderInv, [Next]_vars PROVE LiveHasReader' OBVIOUS
<1> USE DEF ReaderInv, LiveHasReader, svars, lvars, avars, Goto
<1>0. /\ mu \in Actors \cup {NoActor} /\ pc \in [Actors -> Places]
      /\ connected \in [Roles -> BOOLEAN] /\ gen \in Nat /\ events \in Loops \cup {NoLoop}
      /\ loopState \in [Loops -> {"none", "unspawned", "running", "exited"}]
      /\ loopClient \in [Loops -> Clients \cup {NoClient}]
  BY DEF TypeOK
<1>1. ASSUME NEW a \in Actors, NEW l, Swap(a, l) PROVE LiveHasReader' BY <1>1 DEF Swap, Disconnected
<1>2. ASSUME NEW a \in Actors, Subscribe(a) PROVE LiveHasReader'
  <2>1. mu = a BY <1>0, <1>2 DEF Subscribe, LockInv
  <2>2. gen + 1 \in Loops BY <1>0, <1>2 DEF Subscribe, TypeOK
  <2> QED BY <1>0, <1>2, <2>1, <2>2 DEF Subscribe
<1>3. ASSUME NEW a \in Actors, SpawnLoop(a) PROVE LiveHasReader' BY <1>0, <1>3 DEF SpawnLoop
<1>4. ASSUME NEW k \in Loops, LoopEvent(k) PROVE LiveHasReader'
  BY <1>0, <1>4 DEF LoopEvent, CurrentLoop
<1>5. ASSUME NEW k \in Loops, LoopCancelled(k) PROVE LiveHasReader'
  BY <1>0, <1>5 DEF LoopCancelled, CurrentLoop
<1>6. CASE CloseService BY <1>6 DEF CloseService
<1>7. ASSUME NEW a \in Actors, Acquire(a) PROVE LiveHasReader' BY <1>0, <1>7 DEF Acquire
<1>8. ASSUME NEW a \in Actors, Release(a) PROVE LiveHasReader' BY <1>0, <1>8 DEF Release, LockInv
<1>9. ASSUME NEW a \in Actors, NEW l, pc[a] # "spawn", Goto(a, l), UNCHANGED <<client, events, gen, lvars, mu>>,
             connected'["live"] = connected["live"]
      PROVE  LiveHasReader'
  BY <1>0, <1>9
<1>10. CASE UNCHANGED <<svars, loopState, loopClient, avars>> BY <1>10
<1>11. ASSUME NEW a \in Actors, ActorStep(a) PROVE LiveHasReader'
  <2>1. CASE StartLive(a) BY <1>9, <2>1 DEF StartLive
  <2>2. ASSUME NEW role \in Roles, StartFails(a, role), pc[a] \in {"startLive", "startPoll"} PROVE LiveHasReader'
    BY <1>1, <1>9, <2>2 DEF StartFails
  <2>3. CASE StartPoll(a)
    <3>1. connected'["live"] = connected["live"] BY <1>0, <2>3 DEF StartPoll
    <3> QED BY <1>9, <2>3, <3>1 DEF StartPoll
  <2>4. CASE CloseOld(a) BY <1>9, <2>4 DEF CloseOld
  <2>5. CASE Bootstrap(a) BY <1>9, <2>5 DEF Bootstrap
  <2> QED BY <1>2, <1>3, <1>7, <1>8, <1>11, <2>1, <2>2, <2>3, <2>4, <2>5 DEF ActorStep, StartLiveFails, StartPollFails
<1>12. CASE ControlStep
  <2>1. CASE Rebuild BY <1>1, <2>1 DEF Rebuild
  <2>2. CASE ControlTick \/ ClearRequest \/ ControlExit BY <1>9, <2>2 DEF ControlTick, ClearRequest, ControlExit
  <2>3. ASSUME NEW ok \in BOOLEAN, Health(ok) PROVE LiveHasReader' BY <1>9, <2>3 DEF Health
  <2> QED BY <1>12, <2>1, <2>2, <2>3 DEF ControlStep
<1>13. ASSUME NEW k \in Loops, LoopStep(k) PROVE LiveHasReader' BY <1>4, <1>5, <1>13 DEF LoopStep
<1> QED
  BY <1>6, <1>10, <1>11, <1>12, <1>13 DEF Next, Terminated, vars, CallBegin, CallEnd, ChatRepair, Die, Cancel

(***************************************************************************)
(* A connected live session always has its own event loop behind it.       *)
(***************************************************************************)
THEOREM LiveAlwaysRead == Spec => []LiveHasReader
<1>1. Init => ReaderInv
  <2> SUFFICES ASSUME Init PROVE ReaderInv OBVIOUS
  <2>1. TypeOK BY TypeInit
  <2>2. LockInv BY DEF Init, LockInv
  <2>3. EventsInv /\ LiveHasReader BY DEF Init, EventsInv, LiveHasReader
  <2> QED BY <2>1, <2>2, <2>3 DEF ReaderInv
<1>2. ReaderInv /\ [Next]_vars => ReaderInv' BY TypeNext, LockNext, EventsNext, ReaderNext DEF ReaderInv
<1>3. ReaderInv => LiveHasReader BY DEF ReaderInv
<1> QED BY <1>1, <1>2, <1>3, PTL DEF Spec

(***************************************************************************)
(* A step that touches neither the clients nor the lock keeps both halves. *)
(***************************************************************************)
LEMMA ProcessFrame ==
  ASSUME ProcessInv, UNCHANGED <<client, proc, made, doomed, mu>>,
         UNCHANGED pc \/ \E a \in Actors, l \in Places : pc[a] \notin {"closeLive", "closePoll"} /\ Goto(a, l)
  PROVE  ClientsInv' /\ ProcessesAccounted'
BY DEF ProcessInv, ClientsInv, ProcessesAccounted, CurrentClients, Started, Goto, TypeOK

(***************************************************************************)
(* A swap hands the old clients to their closer and publishes fresh ones.  *)
(***************************************************************************)
LEMMA ProcessSwap ==
  ASSUME ProcessInv, NEW a \in Actors, NEW l \in {"closeLive", "closePoll"}, Swap(a, l), mu' = a, doomed = {}
  PROVE  ClientsInv' /\ ProcessesAccounted'
<1> USE DEF ProcessInv, ClientsInv, CurrentClients
<1>0. made \in Nat /\ made >= 2 /\ made + 2 <= MaxClients /\ pc \in [Actors -> Places] /\ proc \in [Clients -> ProcStates]
  BY DEF Swap, TypeOK
<1>1. client' = [r \in Roles |-> IF r = "live" THEN made + 1 ELSE made + 2] /\ made' = made + 2 BY DEF Swap
<1>2. CurrentClients' = {made + 1, made + 2} BY <1>1
<1>3. /\ \A c \in Clients : c \notin {made + 1, made + 2} => proc'[c] = proc[c]
      /\ proc'[made + 1] = "new" /\ proc'[made + 2] = "new"
  BY <1>0 DEF Swap
<1>4. doomed' = CurrentClients BY DEF Swap, SwappedOut
<1>5. doomed' \subseteq 0..made BY <1>4
<1>6. pc'[a] = l BY <1>0 DEF Swap, Goto
<1>7. ClientsInv'
  <2>1. \A c \in Clients : c > made' => proc'[c] = "none" BY <1>0, <1>1, <1>3
  <2>2. CurrentClients' \subseteq 0..made' /\ doomed' \subseteq 0..made' BY <1>0, <1>1, <1>2, <1>5
  <2>3. doomed' \cap CurrentClients' \subseteq {NoClient} BY <1>0, <1>2, <1>5
  <2> QED BY <2>1, <2>2, <2>3, <1>6
<1>8. \A c \in Clients : Started(c)' => c \in CurrentClients' \cup doomed'
  BY <1>3, <1>4 DEF ProcessesAccounted, Started
<1>9. \A c \in CurrentClients' \ {NoClient} : proc'[c] \in {"new", "running", "dead"} BY <1>2, <1>3
<1> QED BY <1>7, <1>8, <1>9 DEF ProcessesAccounted

LEMMA ProcessNext == ProcessInv /\ [Next]_vars => ClientsInv' /\ ProcessesAccounted'
<1> SUFFICES ASSUME ProcessInv, [Next]_vars PROVE ClientsInv' /\ ProcessesAccounted' OBVIOUS
<1> USE DEF svars, lvars, avars
<1>0. /\ mu \in Actors \cup {NoActor} /\ pc \in [Actors -> Places] /\ proc \in [Clients -> ProcStates]
      /\ client \in [Roles -> Clients \cup {NoClient}] /\ made \in 2..MaxClients
  BY DEF ProcessInv, TypeOK
<1>1. ASSUME NEW a \in Actors, NEW role \in Roles, StartFails(a, role), pc[a] \in {"startLive", "startPoll"}
      PROVE  ClientsInv' /\ ProcessesAccounted'
  <2>1. doomed = {} BY <1>1 DEF StartFails, ProcessInv, ClientsInv
  <2>2. CASE listen = "proxy"
    <3>1. Swap(a, IF role = "live" THEN "closeLive" ELSE "closePoll") /\ mu' = a BY <1>1, <2>2 DEF StartFails
    <3> QED BY <2>1, <3>1, ProcessSwap
  <2>3. CASE listen # "proxy"
    <3>1. \E l \in Places : Goto(a, l) BY <1>1, <2>3 DEF StartFails
    <3> QED BY <1>1, <2>3, <3>1, ProcessFrame DEF StartFails
  <2> QED BY <2>2, <2>3
<1>2. CASE Rebuild
  <2>1. doomed = {} BY <1>2 DEF Rebuild, ProcessInv, ClientsInv
  <2> QED BY <1>2, <2>1, ProcessSwap DEF Rebuild
\* A client of the lock holder is started.
<1>3. ASSUME NEW c \in CurrentClients \ {NoClient}, proc' = [proc EXCEPT ![c] = "running"],
             NEW a \in Actors, NEW l \in Places, pc[a] \notin {"closeLive", "closePoll"}, Goto(a, l),
             UNCHANGED <<client, made, doomed, mu>>
      PROVE  ClientsInv' /\ ProcessesAccounted'
  <2>1. c \in Clients /\ c <= made BY <1>0, <1>3 DEF ProcessInv, ClientsInv
  <2>2. ClientsInv' BY <1>0, <1>3, <2>1 DEF ProcessInv, ClientsInv, CurrentClients, Goto
  <2>3. ProcessesAccounted' BY <1>0, <1>3, <2>1 DEF ProcessInv, ProcessesAccounted, CurrentClients, Started
  <2> QED BY <2>2, <2>3
<1>4. ASSUME NEW a \in Actors, StartLive(a) PROVE ClientsInv' /\ ProcessesAccounted'
  <2>1. CASE client["live"] = NoClient \/ connected["live"] \/ Started(client["live"])
    BY <1>4, <2>1, ProcessFrame DEF StartLive
  <2>2. CASE ~(client["live"] = NoClient \/ connected["live"] \/ Started(client["live"]))
    <3>1. client["live"] \in CurrentClients \ {NoClient} BY <2>2 DEF CurrentClients
    <3> QED BY <1>3, <1>4, <2>2, <3>1 DEF StartLive
  <2> QED BY <2>1, <2>2
<1>5. ASSUME NEW a \in Actors, StartPoll(a) PROVE ClientsInv' /\ ProcessesAccounted'
  <2>1. CASE client["poll"] = NoClient \/ connected["poll"] \/ Started(client["poll"])
    BY <1>5, <2>1, ProcessFrame DEF StartPoll
  <2>2. CASE ~(client["poll"] = NoClient \/ connected["poll"] \/ Started(client["poll"]))
    <3>1. client["poll"] \in CurrentClients \ {NoClient} BY <2>2 DEF CurrentClients
    <3> QED BY <1>3, <1>5, <2>2, <3>1 DEF StartPoll
  <2> QED BY <2>1, <2>2
<1>6. ASSUME NEW a \in Actors, CloseOld(a) PROVE ClientsInv' /\ ProcessesAccounted'
  <2>1. doomed' = {} /\ UNCHANGED <<client, made>> BY <1>6 DEF CloseOld
  <2>2. \A c \in Clients : proc'[c] = IF c \in doomed /\ Started(c) THEN "closed" ELSE proc[c] BY <1>6 DEF CloseOld
  <2>3. ClientsInv' BY <1>0, <2>1, <2>2 DEF ProcessInv, ClientsInv, CurrentClients, Started
  <2>4. ProcessesAccounted' BY <1>0, <2>1, <2>2 DEF ProcessInv, ClientsInv, ProcessesAccounted, CurrentClients, Started
  <2> QED BY <2>3, <2>4
<1>7. CASE CloseService
  <2>1. doomed = {} /\ doomed' = {} /\ made' = made /\ mu' = mu BY <1>7 DEF CloseService, ProcessInv, ClientsInv
  <2>2. \A c \in Clients : proc'[c] = IF c \in CurrentClients /\ Started(c) THEN "closed" ELSE proc[c] BY <1>7 DEF CloseService
  <2>3. CurrentClients' = {NoClient} BY <1>7 DEF CloseService, CurrentClients
  <2>4. ClientsInv' BY <1>0, <2>1, <2>2, <2>3 DEF ProcessInv, ClientsInv, Started
  <2>5. ProcessesAccounted' BY <1>0, <2>1, <2>2, <2>3 DEF ProcessInv, ProcessesAccounted, Started
  <2> QED BY <2>4, <2>5
<1>8. ASSUME NEW d \in Clients, Die(d) PROVE ClientsInv' /\ ProcessesAccounted'
  <2>1. UNCHANGED <<client, made, doomed, mu, pc>> /\ proc[d] = "running" /\ proc' = [proc EXCEPT ![d] = "dead"] BY <1>8 DEF Die
  <2>2. ClientsInv' BY <1>0, <2>1 DEF ProcessInv, ClientsInv, CurrentClients
  <2>3. ProcessesAccounted' BY <1>0, <2>1 DEF ProcessInv, ProcessesAccounted, CurrentClients, Started
  <2> QED BY <2>2, <2>3
<1>9. ASSUME NEW a \in Actors, Acquire(a) PROVE ClientsInv' /\ ProcessesAccounted'
  BY <1>0, <1>9 DEF Acquire, ProcessInv, ClientsInv, ProcessesAccounted, CurrentClients, Started, Goto
<1>10. ASSUME NEW a \in Actors, Release(a) PROVE ClientsInv' /\ ProcessesAccounted'
  <2>1. mu = a BY <1>10 DEF Release, ProcessInv, LockInv
  <2>2. doomed = {} BY <1>10, <2>1 DEF Release, ProcessInv, ClientsInv
  <2> QED BY <1>0, <1>10, <2>2 DEF Release, ProcessInv, ClientsInv, ProcessesAccounted, CurrentClients, Started
<1>11. ASSUME NEW a \in Actors, Subscribe(a) \/ SpawnLoop(a) \/ Bootstrap(a) PROVE ClientsInv' /\ ProcessesAccounted'
  BY <1>11, ProcessFrame DEF Subscribe, SpawnLoop, Bootstrap
<1>12. CASE ControlTick \/ ClearRequest \/ ControlExit \/ \E ok \in BOOLEAN : Health(ok)
  BY <1>12, ProcessFrame DEF ControlTick, ClearRequest, ControlExit, Health
<1>13. CASE UNCHANGED <<client, proc, made, doomed, mu, pc>> BY <1>13, ProcessFrame
<1> QED
  BY <1>1, <1>2, <1>4, <1>5, <1>6, <1>7, <1>8, <1>9, <1>10, <1>11, <1>12, <1>13
  DEF Next, ActorStep, ControlStep, LoopStep, StartLiveFails, StartPollFails, Terminated, vars,
      LoopEvent, LoopCancelled, CallBegin, CallEnd, ChatRepair, Cancel

(***************************************************************************)
(* No app-server process is ever orphaned and no closed client published.  *)
(***************************************************************************)
THEOREM NoOrphanProcess == Spec => []ProcessesAccounted
<1>1. Init => ProcessInv
  <2> SUFFICES ASSUME Init PROVE ProcessInv OBVIOUS
  <2>1. TypeOK BY TypeInit
  <2>2. LockInv BY DEF Init, LockInv
  <2>3. CurrentClients = {1, 2} BY DEF Init, CurrentClients
  <2>4. ClientsInv BY <2>3 DEF Init, ClientsInv
  <2>5. ProcessesAccounted BY <2>3 DEF Init, ProcessesAccounted, Started
  <2> QED BY <2>1, <2>2, <2>4, <2>5 DEF ProcessInv
<1>2. ProcessInv /\ [Next]_vars => ProcessInv' BY TypeNext, LockNext, ProcessNext DEF ProcessInv
<1>3. ProcessInv => ProcessesAccounted BY DEF ProcessInv
<1> QED BY <1>1, <1>2, <1>3, PTL DEF Spec

(***************************************************************************)
(* Each way to lose a live connection belongs to one of three owners.      *)
(***************************************************************************)
OwnersStep ==
  connected["live"] /\ ~connected'["live"] =>
    \/ mu' \in Actors /\ doomed' = CurrentClients
    \/ lifecycle' = "down"
    \/ loopState[gen] = "running" /\ loopState'[gen] = "exited"

LEMMA OwnersNext == TypeOK /\ LockInv /\ [Next]_vars => OwnersStep
<1> SUFFICES ASSUME TypeOK, LockInv, [Next]_vars PROVE OwnersStep OBVIOUS
<1> USE DEF svars, lvars, avars
<1>0. /\ connected \in [Roles -> BOOLEAN] /\ gen \in Nat
      /\ loopState \in [Loops -> {"none", "unspawned", "running", "exited"}]
  BY DEF TypeOK
<1>1. ASSUME connected'["live"] = connected["live"] PROVE OwnersStep BY <1>1 DEF OwnersStep
<1>2. ASSUME NEW a \in Actors, NEW l, Swap(a, l), mu' = a PROVE OwnersStep
  BY <1>2 DEF OwnersStep, Swap, SwappedOut
<1>3. ASSUME NEW a \in Actors, NEW role \in Roles, StartFails(a, role) PROVE OwnersStep
  <2>1. mu' = a BY <1>3 DEF StartFails
  <2> QED BY <1>1, <1>2, <1>3, <2>1 DEF StartFails
<1>4. ASSUME NEW a \in Actors, ActorStep(a) PROVE OwnersStep
  <2>1. CASE Acquire(a) \/ StartLive(a) \/ SpawnLoop(a) \/ CloseOld(a) \/ Release(a) \/ Bootstrap(a)
    BY <1>1, <2>1 DEF Acquire, StartLive, SpawnLoop, CloseOld, Release, Bootstrap
  <2>2. CASE Subscribe(a) BY <1>0, <2>2 DEF Subscribe, OwnersStep
  <2>3. CASE StartPoll(a) BY <1>0, <1>1, <2>3 DEF StartPoll
  <2>4. CASE StartLiveFails(a) \/ StartPollFails(a) BY <1>3, <2>4 DEF StartLiveFails, StartPollFails
  <2> QED BY <1>4, <2>1, <2>2, <2>3, <2>4 DEF ActorStep
<1>5. CASE ControlStep
  <2>1. CASE Rebuild BY <1>2, <2>1 DEF Rebuild
  <2>2. CASE ControlTick \/ ClearRequest \/ ControlExit BY <1>1, <2>2 DEF ControlTick, ClearRequest, ControlExit
  <2>3. ASSUME NEW ok \in BOOLEAN, Health(ok) PROVE OwnersStep BY <1>1, <2>3 DEF Health
  <2> QED BY <1>5, <2>1, <2>2, <2>3 DEF ControlStep
<1>6. ASSUME NEW k \in Loops, LoopStep(k) PROVE OwnersStep
  <2>1. CASE LoopEvent(k) BY <1>1, <2>1 DEF LoopEvent
  <2>2. CASE LoopCancelled(k) /\ CurrentLoop(k)
    <3>1. gen = k BY <2>2 DEF CurrentLoop
    <3>2. loopState[k] = "running" /\ loopState'[k] = "exited" BY <1>0, <2>2 DEF LoopCancelled
    <3> QED BY <3>1, <3>2 DEF OwnersStep
  <2>3. CASE LoopCancelled(k) /\ ~CurrentLoop(k) BY <1>1, <2>3 DEF LoopCancelled
  <2> QED BY <1>6, <2>1, <2>2, <2>3 DEF LoopStep
<1>7. CASE CloseService BY <1>7 DEF CloseService, OwnersStep
<1>8. ASSUME UNCHANGED svars PROVE OwnersStep BY <1>1, <1>8
<1> QED
  BY <1>4, <1>5, <1>6, <1>7, <1>8 DEF Next, Terminated, vars, CallBegin, CallEnd, ChatRepair, Die, Cancel

(***************************************************************************)
(* A live connection is only given up by a rebuild or fallback that holds  *)
(* sessionMu, by Close, or by the event loop of that very connection.      *)
(***************************************************************************)
THEOREM OnlyOwnersGiveUp == Spec => GivenUpByOwner
<1>1. Init => TypeOK /\ LockInv
  <2> SUFFICES ASSUME Init PROVE TypeOK /\ LockInv OBVIOUS
  <2>1. TypeOK BY TypeInit
  <2>2. LockInv BY DEF Init, LockInv
  <2> QED BY <2>1, <2>2
<1>2. TypeOK /\ LockInv /\ [Next]_vars => TypeOK' /\ LockInv' BY TypeNext, LockNext
<1>3. TypeOK /\ LockInv /\ [Next]_vars => [OwnersStep]_vars BY OwnersNext
<1> QED BY <1>1, <1>2, <1>3, PTL DEF Spec, GivenUpByOwner, OwnersStep

-----------------------------------------------------------------------------
(* The app-server client                                                   *)

\* The table has an entry of every call that is not answered, until Close takes the table over.
TableOfPending ==
  /\ ~Serving => table = {}
  /\ phase \notin {"closing", "failing"} => leaving = {}
  /\ \A r \in Requests : req[r] \in {"write", "wait"} /\ reply[r] = "none" => r \in table \cup leaving
\* A call whose entry is there has no answer yet.
EntryUnanswered ==
  \A r \in table : reply[r] = "none" /\ (req[r] \in {"write", "wait"} \/ (req[r] = "error" /\ r \in failed))
\* A request gets to the child once, by the call that wrote it.
WrittenOnce ==
  /\ \A r \in Requests : req[r] = "new" => r \notin table \cup leaving /\ reply[r] = "none"
  /\ \A r \in Requests : req[r] \in {"new", "write"} => r \notin stdin \cup taken
  /\ stdin \cap taken = {}
\* A result is an answer of the child.
ResultIsTaken == \A r \in Requests : reply[r] = "result" => r \in taken
RpcInv ==
  /\ RpcTypeOK /\ IsFiniteSet(stdin)
  /\ TableOfPending /\ EntryUnanswered /\ WrittenOnce /\ ResultIsTaken

LEMMA RpcInvInit == RpcInit => RpcInv
<1> SUFFICES ASSUME RpcInit PROVE RpcInv OBVIOUS
<1>1. IsFiniteSet(stdin) /\ Cardinality(stdin) <= Slots BY FS_EmptySet, RpcAssumption DEF RpcInit
<1>2. RpcTypeOK BY <1>1 DEF RpcInit, RpcTypeOK
<1> QED BY <1>1, <1>2 DEF RpcInit, RpcInv, TableOfPending, EntryUnanswered, WrittenOnce, ResultIsTaken, Serving

\* The pipe holds no more than its room.
LEMMA PipeStep ==
  ASSUME RpcInv, [RpcNext]_rpcVars
  PROVE  IsFiniteSet(stdin') /\ Cardinality(stdin') <= Slots
<1> USE DEF RpcInv, RpcTypeOK
<1>1. Slots \in Nat /\ IsFiniteSet(stdin) /\ Cardinality(stdin) \in Nat /\ Cardinality(stdin) <= Slots
  BY RpcAssumption, FS_CardinalityType
<1>2. ASSUME NEW r \in Requests, Write(r) PROVE IsFiniteSet(stdin') /\ Cardinality(stdin') <= Slots
  <2>1. stdin' = stdin \cup {r} /\ Cardinality(stdin) < Slots BY <1>1, <1>2 DEF Write, CanWrite, Full
  <2>2. IsFiniteSet(stdin') /\ (Cardinality(stdin') = Cardinality(stdin) \/ Cardinality(stdin') = Cardinality(stdin) + 1)
    BY <1>1, <2>1, FS_AddElement
  <2> QED BY <1>1, <2>1, <2>2
<1>3. ASSUME NEW r \in Requests, Take(r) PROVE IsFiniteSet(stdin') /\ Cardinality(stdin') <= Slots
  <2>1. stdin' = stdin \ {r} /\ r \in stdin BY <1>3 DEF Take
  <2>2. IsFiniteSet(stdin') /\ Cardinality(stdin') = Cardinality(stdin) - 1 BY <1>1, <2>1, FS_RemoveElement
  <2> QED BY <1>1, <2>2
<1>4. CASE UNCHANGED stdin BY <1>1, <1>4
<1> QED
  BY <1>2, <1>3, <1>4
  DEF RpcNext, rpcVars, Call, CloseSteps, Register, WriteFails, Receive, Timeout, Dispatch, Fails, StartDone, CloseBegins,
      CloseStdin, FailPending, Kill

\* Every step keeps the variables in their types.
LEMMA RpcTypeStep == RpcInv /\ [RpcNext]_rpcVars => RpcTypeOK'
<1> SUFFICES ASSUME RpcInv, [RpcNext]_rpcVars PROVE RpcTypeOK' OBVIOUS
<1> USE DEF RpcInv, RpcTypeOK, To
<1>0. Cardinality(stdin') <= Slots BY PipeStep
<1>1. ASSUME NEW r \in Requests, Register(r) PROVE RpcTypeOK' BY <1>0, <1>1 DEF Register
<1>2. ASSUME NEW r \in Requests, Write(r) PROVE RpcTypeOK' BY <1>0, <1>2 DEF Write
<1>3. ASSUME NEW r \in Requests, WriteFails(r) PROVE RpcTypeOK' BY <1>0, <1>3 DEF WriteFails
<1>4. ASSUME NEW r \in Requests, Receive(r) PROVE RpcTypeOK' BY <1>0, <1>4 DEF Receive
<1>5. ASSUME NEW r \in Requests, Timeout(r) PROVE RpcTypeOK' BY <1>0, <1>5 DEF Timeout, TimesOut
<1>6. ASSUME NEW r \in Requests, Take(r) PROVE RpcTypeOK' BY <1>0, <1>6 DEF Take
<1>7. ASSUME NEW r \in Requests, Dispatch(r) PROVE RpcTypeOK' BY <1>0, <1>7 DEF Dispatch
<1>8. CASE Fails BY <1>0, <1>8 DEF Fails
<1>9. CASE StartDone BY <1>0, <1>9 DEF StartDone
<1>10. CASE CloseBegins BY <1>0, <1>10 DEF CloseBegins
<1>11. CASE CloseStdin BY <1>0, <1>11 DEF CloseStdin
<1>12. CASE FailPending BY <1>0, <1>12 DEF FailPending, AtClose
<1>13. CASE Kill BY <1>0, <1>13 DEF Kill
<1>14. CASE UNCHANGED rpcVars BY <1>0, <1>14 DEF rpcVars
<1> QED
  BY <1>1, <1>2, <1>3, <1>4, <1>5, <1>6, <1>7, <1>8, <1>9, <1>10, <1>11, <1>12, <1>13, <1>14
  DEF RpcNext, Call, CloseSteps

\* The parts about the table and the answers.
TableInv == TableOfPending /\ EntryUnanswered /\ WrittenOnce /\ ResultIsTaken
LEMMA TableStep == RpcInv /\ [RpcNext]_rpcVars => TableInv'
<1> SUFFICES ASSUME RpcInv, [RpcNext]_rpcVars PROVE TableInv' OBVIOUS
<1> USE DEF RpcInv, RpcTypeOK, TableInv, TableOfPending, EntryUnanswered, WrittenOnce, ResultIsTaken, Serving, To
<1>1. ASSUME NEW r \in Requests, Register(r) PROVE TableInv' BY <1>1 DEF Register
<1>2. ASSUME NEW r \in Requests, Write(r) PROVE TableInv' BY <1>2 DEF Write
<1>3. ASSUME NEW r \in Requests, WriteFails(r) PROVE TableInv' BY <1>3 DEF WriteFails
<1>4. ASSUME NEW r \in Requests, Receive(r) PROVE TableInv' BY <1>4 DEF Receive
<1>5. ASSUME NEW r \in Requests, Timeout(r) PROVE TableInv' BY <1>5 DEF Timeout, TimesOut
<1>6. ASSUME NEW r \in Requests, Take(r) PROVE TableInv' BY <1>6 DEF Take
<1>7. ASSUME NEW r \in Requests, Dispatch(r) PROVE TableInv' BY <1>7 DEF Dispatch
<1>8. CASE Fails BY <1>8 DEF Fails
<1>9. CASE StartDone BY <1>9 DEF StartDone
<1>10. CASE CloseBegins BY <1>10 DEF CloseBegins
<1>11. CASE CloseStdin BY <1>11 DEF CloseStdin
<1>12. CASE FailPending BY <1>12 DEF FailPending, AtClose
<1>13. CASE Kill BY <1>13 DEF Kill
<1>14. CASE UNCHANGED rpcVars BY <1>14 DEF rpcVars
<1> QED
  BY <1>1, <1>2, <1>3, <1>4, <1>5, <1>6, <1>7, <1>8, <1>9, <1>10, <1>11, <1>12, <1>13, <1>14
  DEF RpcNext, Call, CloseSteps

LEMMA RpcInvStep == RpcInv /\ [RpcNext]_rpcVars => RpcInv'
BY RpcTypeStep, TableStep, PipeStep DEF RpcInv, TableInv

LEMMA RpcInvariant == RpcSpec => []RpcInv
<1>1. RpcInit => RpcInv BY RpcInvInit
<1>2. RpcInv /\ [RpcNext]_rpcVars => RpcInv' BY RpcInvStep
<1> QED BY <1>1, <1>2, PTL DEF RpcSpec

(***************************************************************************)
(* No entry outlives its call, and a closed client leaves no call to its   *)
(* timer (Request, handlePayload and closeRunning of client.go).           *)
(***************************************************************************)
THEOREM RpcTableSettled == RpcSpec => [](RpcTypeOK /\ TableSettled)
<1>1. RpcInv => RpcTypeOK /\ TableSettled
  BY DEF RpcInv, RpcTypeOK, TableOfPending, EntryUnanswered, TableSettled, EntriesOwned, ClosedSettlesCalls, Ended, Serving
<1> QED BY <1>1, RpcInvariant, PTL

(***************************************************************************)
(* Each step of the client is one the caller of Calls may see, or none:    *)
(* a call ends once, and returns a result only if the child has taken the  *)
(* request.                                                                *)
(***************************************************************************)
LEMMA RpcRefines ==
  ASSUME RpcInv, [RpcNext]_rpcVars
  PROVE  [Promise!Next]_<<[r \in Requests |-> AsCall(r)], taken>>
<1> DEFINE as == [r \in Requests |-> AsCall(r)]
<1> USE DEF RpcInv, RpcTypeOK, To, AsCall
<1>1. ASSUME NEW r \in Requests, Register(r) PROVE Promise!Begin(r) \/ Promise!GiveUp(r)
  BY <1>1 DEF Register, Promise!Begin, Promise!GiveUp
<1>2. ASSUME NEW r \in Requests, Write(r) PROVE UNCHANGED <<as, taken>> BY <1>2 DEF Write
<1>3. ASSUME NEW r \in Requests, WriteFails(r) PROVE Promise!GiveUp(r) BY <1>3 DEF WriteFails, Promise!GiveUp
<1>4. ASSUME NEW r \in Requests, Receive(r) PROVE Promise!Return(r) \/ Promise!GiveUp(r)
  BY <1>4 DEF Receive, ResultIsTaken, Promise!Return, Promise!GiveUp
<1>5. ASSUME NEW r \in Requests, Timeout(r) PROVE Promise!GiveUp(r) BY <1>5 DEF Timeout, TimesOut, Promise!GiveUp
<1>6. ASSUME NEW r \in Requests, Take(r) PROVE Promise!Hear(r) BY <1>6 DEF Take, WrittenOnce, Promise!Hear
<1>7. CASE UNCHANGED <<req, taken>> BY <1>7
<1> QED
  BY <1>1, <1>2, <1>3, <1>4, <1>5, <1>6, <1>7
  DEF RpcNext, rpcVars, Call, CloseSteps, Dispatch, Fails, StartDone, CloseBegins, CloseStdin, FailPending, Kill, Promise!Next

THEOREM RpcImplementsCalls == RpcSpec => RequestKeepsPromise
<1>1. RpcInit => Promise!Init BY DEF RpcInit, Promise!Init, AsCall
<1>2. RpcInv /\ [RpcNext]_rpcVars => [Promise!Next]_<<[r \in Requests |-> AsCall(r)], taken>> BY RpcRefines
<1> QED BY <1>1, <1>2, RpcInvariant, PTL DEF RpcSpec, RequestKeepsPromise, Promise!Spec

-----------------------------------------------------------------------------
(* The desktop client                                                      *)

\* An open connection has its reader; one whose reader has stopped is shut.
ReaderOfLink ==
  \A k \in Conns : /\ link[k] = "open" => reader[k] = "run"
                   /\ reader[k] \in {"clear", "done"} => link[k] = "shut"
\* Exactly the requests without an answer are in the table.
PendingIsUnanswered ==
  \A u \in Users : user[u].at \in {"write", "wait"} => (answer[u] = "none" <=> Mine(u) \in pending)
\* Nobody waits without an answer on a connection whose reader is gone.
WaitHasReader ==
  \A u \in Users : At(u, "wait") => /\ user[u].on \in Conns
                                    /\ answer[u] = "none" => reader[user[u].on] = "run"
\* A result of a call is the desktop's, or a broadcast it waited for.
ResultIsServed ==
  /\ \A m \in back : m[3] = "call" => m[2] \in served
  /\ \A u \in Users : user[u].at \in {"write", "wait"} /\ user[u].kind = "call" /\ answer[u] = "result" =>
                        u \in served \cup Following
\* What the desktop gets was sent by somebody who began.
SentHasBegun == \A m \in sent : user[m[2]].at # "new"
IpcInv ==
  /\ IpcTypeOK /\ ReaderOfLink /\ PendingIsUnanswered /\ WaitHasReader
  /\ ResultIsServed /\ SentHasBegun /\ OpenIsCurrent

\* The record of a caller.
UserRecords ==
  [at : {"new", "ready", "register", "write", "wait", "undo", "unset", "result", "error"},
   kind : Kinds, own : 0..MaxConns, on : 0..MaxConns]

LEMMA IpcInvInit == IpcInit => IpcInv
<1> SUFFICES ASSUME IpcInit PROVE IpcInv OBVIOUS
<1>1. user \in [Users -> UserRecords] BY IpcAssumption DEF IpcInit, UserRecords, Kinds
<1>2. \A u \in Users : user[u].at = "new" BY DEF IpcInit
<1>3. /\ link \in [Conns -> {"unused", "open", "shut"}] /\ reader \in [Conns -> {"none", "run", "clear", "done"}]
      /\ answer \in [Users -> {"none", "result", "error"}]
  BY DEF IpcInit
<1>4. current \in 0..MaxConns /\ drops \in 0..MaxDrops /\ stray \in Nat BY IpcAssumption DEF IpcInit
<1>5. known \in BOOLEAN BY Zenon DEF IpcInit
<1>6. pending = {} /\ sent = {} /\ back = {} /\ served = {} BY DEF IpcInit
<1>7. IpcTypeOK BY <1>1, <1>3, <1>4, <1>5, <1>6 DEF IpcTypeOK, UserRecords
<1> QED
  BY <1>2, <1>7
  DEF IpcInit, IpcInv, ReaderOfLink, PendingIsUnanswered, WaitHasReader, ResultIsServed, SentHasBegun, OpenIsCurrent, Conns, At

\* What a step of a caller does to its record.
LEMMA ChangedUser ==
  ASSUME IpcTypeOK, NEW u \in Users, NEW rec \in UserRecords, user' = [user EXCEPT ![u] = rec]
  PROVE  user' \in [Users -> UserRecords] /\ user'[u] = rec /\ \A v \in Users \ {u} : user'[v] = user[v]
BY DEF IpcTypeOK, UserRecords

LEMMA GoesTo ==
  ASSUME IpcTypeOK, NEW u \in Users,
         NEW where \in {"new", "ready", "register", "write", "wait", "undo", "unset", "result", "error"}, Go(u, where)
  PROVE  /\ user' \in [Users -> UserRecords] /\ \A v \in Users \ {u} : user'[v] = user[v]
         /\ user'[u].at = where /\ user'[u].kind = user[u].kind
<1>1. user[u] \in UserRecords BY DEF IpcTypeOK, UserRecords
<1>2. [user[u] EXCEPT !.at = where] \in UserRecords BY <1>1 DEF UserRecords
<1>3. user' = [user EXCEPT ![u] = [user[u] EXCEPT !.at = where]] BY DEF Go
<1> QED BY <1>1, <1>2, <1>3, ChangedUser DEF UserRecords

\* Every step keeps the variables in their types.
LEMMA IpcTypeStep == IpcInv /\ [IpcNext]_ipcVars => IpcTypeOK'
<1> SUFFICES ASSUME IpcInv, [IpcNext]_ipcVars PROVE IpcTypeOK' OBVIOUS
<1> USE IpcAssumption DEF IpcInv
<1>0. user \in [Users -> UserRecords] BY DEF IpcTypeOK, UserRecords
<1>1. ASSUME NEW u \in Users, Connected(u) PROVE IpcTypeOK'
  <2>1. [user[u] EXCEPT !.at = "register", !.kind = NextKind] \in UserRecords BY <1>0 DEF UserRecords, Kinds, NextKind
  <2>2. user' = [user EXCEPT ![u] = [user[u] EXCEPT !.at = "register", !.kind = NextKind]] BY <1>1 DEF Connected
  <2>3. user' \in [Users -> UserRecords] /\ \A v \in Users \ {u} : user'[v] = user[v] BY <2>1, <2>2, ChangedUser
  <2> QED BY <1>1, <2>3 DEF Connected, IpcTypeOK, At, UserRecords
<1>2. ASSUME NEW u \in Users, Dial(u) PROVE IpcTypeOK' BY <1>2 DEF Dial, IpcTypeOK, At, Conns, Kinds
<1>3. ASSUME NEW u \in Users, DialFails(u) PROVE IpcTypeOK'
  <2>1. user' \in [Users -> UserRecords] /\ \A v \in Users \ {u} : user'[v] = user[v] BY <1>3, GoesTo DEF DialFails
  <2> QED BY <1>3, <2>1 DEF DialFails, IpcTypeOK, At, UserRecords
<1>4. ASSUME NEW u \in Users, Enter(u) PROVE IpcTypeOK'
  <2>1. /\ user' \in [Users -> UserRecords] /\ \A v \in Users \ {u} : user'[v] = user[v]
        /\ user'[u].at = "write" /\ user'[u].kind = user[u].kind
    BY <1>4, GoesTo DEF Enter
  <2>2. user[u].kind \in Kinds BY <1>0 DEF UserRecords
  <2>3. /\ pending' \subseteq Users \X Kinds
        /\ \A q \in pending' : user'[q[1]].at \in {"write", "wait"} /\ q[2] = user'[q[1]].kind
    BY <1>4, <2>1, <2>2 DEF Enter, IpcTypeOK, Mine
  <2>4. answer' \in [Users -> {"none", "result", "error"}] BY <1>4 DEF Enter, IpcTypeOK
  <2> QED BY <1>4, <2>1, <2>3, <2>4 DEF Enter, IpcTypeOK, UserRecords
<1>5. ASSUME NEW u \in Users, Send(u) PROVE IpcTypeOK'
  <2>1. current \in Conns BY <1>5 DEF Send, Usable, IpcTypeOK, Conns
  <2>2. [user[u] EXCEPT !.at = "wait", !.on = current] \in UserRecords
    <3>1. current \in 0..MaxConns BY DEF IpcTypeOK
    <3>2. user[u] \in UserRecords BY <1>0
    <3> QED BY <3>1, <3>2 DEF UserRecords
  <2>3. user' = [user EXCEPT ![u] = [user[u] EXCEPT !.at = "wait", !.on = current]] BY <1>5 DEF Send
  <2>4. user' \in [Users -> UserRecords] /\ \A v \in Users \ {u} : user'[v] = user[v] BY <2>2, <2>3, ChangedUser
  <2>5. user'[u].at = "wait" /\ user'[u].kind = user[u].kind BY <1>0, <2>2, <2>3, ChangedUser DEF UserRecords
  <2>6. sent' \subseteq Messages BY <1>0, <1>5, <2>1 DEF Send, IpcTypeOK, Messages, UserRecords
  <2> QED BY <1>5, <2>4, <2>5, <2>6 DEF Send, IpcTypeOK, UserRecords
<1>6. ASSUME NEW u \in Users, SendFails(u) PROVE IpcTypeOK'
  <2>1. \E where \in {"undo", "error"} : Go(u, where) BY <1>6 DEF SendFails
  <2>2. user' \in [Users -> UserRecords] /\ \A v \in Users \ {u} : user'[v] = user[v] BY <2>1, GoesTo
  <2>3. Usable => current \in Conns BY DEF Usable, IpcTypeOK, Conns
  <2>4. sent' \subseteq Messages BY <1>0, <1>6, <2>3 DEF SendFails, IpcTypeOK, Messages, UserRecords
  <2>5. /\ answer' \in [Users -> {"none", "result", "error"}] /\ pending' \subseteq pending \ {Mine(u)}
        /\ current' \in 0..MaxConns /\ link' \in [Conns -> {"unused", "open", "shut"}]
    BY <1>6 DEF SendFails, CloseCurrent, IpcTypeOK
  <2>6. \A q \in pending' : q[1] # u BY <2>5 DEF IpcTypeOK, Mine
  <2> QED BY <1>6, <2>2, <2>4, <2>5, <2>6 DEF SendFails, IpcTypeOK, UserRecords
<1>7. ASSUME NEW u \in Users, Answered(u) PROVE IpcTypeOK'
  <2>1. AfterAnswer(u, answer[u]) \in {"undo", "error", "result", "ready"} BY DEF AfterAnswer
  <2>2. user' \in [Users -> UserRecords] /\ \A v \in Users \ {u} : user'[v] = user[v] BY <1>7, <2>1, GoesTo DEF Answered
  <2>3. \A q \in pending : q[1] # u BY <1>7 DEF Answered, PendingIsUnanswered, IpcTypeOK, At, Mine
  <2>4. known' \in BOOLEAN BY <1>7 DEF Answered
  <2> QED BY <1>7, <2>2, <2>3, <2>4 DEF Answered, IpcTypeOK, UserRecords
<1>8. ASSUME NEW u \in Users, Expire(u) PROVE IpcTypeOK'
  <2>1. \E where \in {"undo", "error"} : Go(u, where) BY <1>8 DEF Expire
  <2>2. user' \in [Users -> UserRecords] /\ \A v \in Users \ {u} : user'[v] = user[v] BY <2>1, GoesTo
  <2>3. pending' \subseteq pending /\ \A q \in pending' : q[1] # u BY <1>8 DEF Expire, IpcTypeOK, Mine
  <2> QED BY <1>8, <2>2, <2>3 DEF Expire, IpcTypeOK, UserRecords
<1>9. ASSUME NEW u \in Users, Undo(u) PROVE IpcTypeOK'
  <2>1. user' \in [Users -> UserRecords] /\ \A v \in Users \ {u} : user'[v] = user[v] BY <1>9, GoesTo DEF Undo
  <2> QED BY <1>9, <2>1 DEF Undo, IpcTypeOK, UserRecords, At
<1>10. ASSUME NEW u \in Users, Unset(u) PROVE IpcTypeOK'
  <2>1. user' \in [Users -> UserRecords] /\ \A v \in Users \ {u} : user'[v] = user[v] BY <1>10, GoesTo DEF Unset
  <2> QED BY <1>10, <2>1 DEF Unset, IpcTypeOK, UserRecords, At
<1>11. CASE Serve BY <1>11 DEF Serve, IpcTypeOK, Messages
<1>12. ASSUME NEW k \in Conns, Drop(k) PROVE IpcTypeOK' BY <1>12 DEF Drop, IpcTypeOK
<1>13. ASSUME NEW k \in Conns, Read(k) PROVE IpcTypeOK' BY <1>13 DEF Read, Reading, IpcTypeOK
<1>14. ASSUME NEW k \in Conns, Broadcast(k) PROVE IpcTypeOK' BY <1>14 DEF Broadcast, Reading, IpcTypeOK
<1>15. ASSUME NEW k \in Conns, ReadFails(k) PROVE IpcTypeOK' BY <1>15 DEF ReadFails, Reading, FailAll, Failed, IpcTypeOK
<1>16. ASSUME NEW k \in Conns, ClearConn(k) PROVE IpcTypeOK' BY <1>16 DEF ClearConn, Unconnected, IpcTypeOK
<1>17. CASE UNCHANGED ipcVars BY <1>17 DEF ipcVars, IpcTypeOK
<1> QED
  BY <1>1, <1>2, <1>3, <1>4, <1>5, <1>6, <1>7, <1>8, <1>9, <1>10, <1>11, <1>12, <1>13, <1>14, <1>15, <1>16, <1>17
  DEF IpcNext, CallStep, ConnStep

\* A connection and its reader.
LinkInv == ReaderOfLink /\ OpenIsCurrent
LEMMA LinkStep == IpcInv /\ [IpcNext]_ipcVars => LinkInv'
<1> SUFFICES ASSUME IpcInv, [IpcNext]_ipcVars PROVE LinkInv' OBVIOUS
<1> USE IpcAssumption DEF IpcInv, LinkInv, IpcTypeOK, ReaderOfLink, OpenIsCurrent, Conns, Go
<1>1. ASSUME NEW u \in Users, Connected(u) PROVE LinkInv' BY <1>1 DEF Connected, NextKind
<1>2. ASSUME NEW u \in Users, Dial(u) PROVE LinkInv' BY <1>2 DEF Dial
<1>3. ASSUME NEW u \in Users, DialFails(u) PROVE LinkInv' BY <1>3 DEF DialFails
<1>4. ASSUME NEW u \in Users, Enter(u) PROVE LinkInv' BY <1>4 DEF Enter
<1>5. ASSUME NEW u \in Users, Send(u) PROVE LinkInv' BY <1>5 DEF Send, Usable
<1>6. ASSUME NEW u \in Users, SendFails(u) PROVE LinkInv'
  <2>1. UNCHANGED <<reader, stray>> BY <1>6 DEF SendFails
  <2>2. \/ UNCHANGED <<link, current>>
        \/ current # 0 /\ link' = [link EXCEPT ![current] = "shut"] /\ current' = 0
    BY <1>6 DEF SendFails, CloseCurrent
  <2>3. CASE UNCHANGED <<link, current>> BY <2>1, <2>3
  <2>4. CASE current # 0 /\ link' = [link EXCEPT ![current] = "shut"] /\ current' = 0 BY <2>1, <2>4
  <2> QED BY <2>2, <2>3, <2>4
<1>7. ASSUME NEW u \in Users, Answered(u) PROVE LinkInv' BY <1>7 DEF Answered, AfterAnswer
<1>8. ASSUME NEW u \in Users, Expire(u) PROVE LinkInv' BY <1>8 DEF Expire
<1>9. ASSUME NEW u \in Users, Undo(u) PROVE LinkInv' BY <1>9 DEF Undo
<1>10. ASSUME NEW u \in Users, Unset(u) PROVE LinkInv' BY <1>10 DEF Unset
<1>11. CASE Serve BY <1>11 DEF Serve
<1>12. ASSUME NEW k \in Conns, Drop(k) PROVE LinkInv' BY <1>12 DEF Drop
<1>13. ASSUME NEW k \in Conns, Read(k) PROVE LinkInv' BY <1>13 DEF Read, Reading
<1>14. ASSUME NEW k \in Conns, Broadcast(k) PROVE LinkInv' BY <1>14 DEF Broadcast, Reading
<1>15. ASSUME NEW k \in Conns, ReadFails(k) PROVE LinkInv' BY <1>15 DEF ReadFails, Reading, FailAll, Failed
<1>16. ASSUME NEW k \in Conns, ClearConn(k) PROVE LinkInv' BY <1>16 DEF ClearConn, Unconnected
<1>17. CASE UNCHANGED ipcVars BY <1>17 DEF ipcVars
<1> QED
  BY <1>1, <1>2, <1>3, <1>4, <1>5, <1>6, <1>7, <1>8, <1>9, <1>10, <1>11, <1>12, <1>13, <1>14, <1>15, <1>16, <1>17
  DEF IpcNext, CallStep, ConnStep

\* The table and those who wait.
WaitInv == PendingIsUnanswered /\ WaitHasReader
LEMMA WaitStep == IpcInv /\ [IpcNext]_ipcVars => WaitInv'
<1> SUFFICES ASSUME IpcInv, [IpcNext]_ipcVars PROVE WaitInv' OBVIOUS
<1> USE IpcAssumption DEF IpcInv, WaitInv, IpcTypeOK, ReaderOfLink, PendingIsUnanswered, WaitHasReader, Conns, Kinds, Messages, At, Go, Mine
<1>1. ASSUME NEW u \in Users, Connected(u) PROVE WaitInv' BY <1>1 DEF Connected, NextKind
<1>2. ASSUME NEW u \in Users, Dial(u) PROVE WaitInv' BY <1>2 DEF Dial
<1>3. ASSUME NEW u \in Users, DialFails(u) PROVE WaitInv' BY <1>3 DEF DialFails
<1>4. ASSUME NEW u \in Users, Enter(u) PROVE WaitInv' BY <1>4 DEF Enter
<1>5. ASSUME NEW u \in Users, Send(u) PROVE WaitInv' BY <1>5 DEF Send, Usable
<1>6. ASSUME NEW u \in Users, SendFails(u) PROVE WaitInv'
  <2>1. \E where \in {"undo", "error"} : Go(u, where) BY <1>6 DEF SendFails
  <2>2. /\ user'[u].at \notin {"write", "wait"}
        /\ \A v \in Users \ {u} : user'[v] = user[v] /\ Mine(v)' = Mine(v)
    BY <2>1, GoesTo
  <2>3. ASSUME NEW v \in Users \ {u}, user[v].at \in {"write", "wait"}
        PROVE  answer'[v] = "none" <=> Mine(v) \in pending'
    <3>1. CASE UNCHANGED answer /\ pending' = pending \ {Mine(u)} BY <2>3, <3>1
    <3>2. CASE /\ pending' = {}
               /\ answer' = [w \in Users |-> IF \E q \in pending \ {Mine(u)} : q[1] = w THEN "error" ELSE answer[w]]
      <4>1. Mine(v) \in pending => Mine(v) \in pending \ {Mine(u)} /\ Mine(v)[1] = v OBVIOUS
      <4> QED BY <2>3, <3>2, <4>1
    <3> QED BY <1>6, <3>1, <3>2 DEF SendFails, CloseCurrent
  <2>4. \A v \in Users : answer'[v] = "none" => answer[v] = "none" BY <1>6 DEF SendFails, CloseCurrent
  <2>5. UNCHANGED reader BY <1>6 DEF SendFails
  <2>6. PendingIsUnanswered'
    <3>1. \A v \in Users \ {u} : user'[v].at \in {"write", "wait"} => (answer'[v] = "none" <=> Mine(v)' \in pending')
      BY <2>2, <2>3
    <3> QED BY <2>2, <3>1
  <2>7. WaitHasReader' BY <2>2, <2>4, <2>5
  <2> QED BY <2>6, <2>7
<1>7. ASSUME NEW u \in Users, Answered(u) PROVE WaitInv' BY <1>7 DEF Answered, AfterAnswer
<1>8. ASSUME NEW u \in Users, Expire(u) PROVE WaitInv' BY <1>8 DEF Expire
<1>9. ASSUME NEW u \in Users, Undo(u) PROVE WaitInv' BY <1>9 DEF Undo
<1>10. ASSUME NEW u \in Users, Unset(u) PROVE WaitInv' BY <1>10 DEF Unset
<1>11. CASE Serve BY <1>11 DEF Serve
<1>12. ASSUME NEW k \in Conns, Drop(k) PROVE WaitInv' BY <1>12 DEF Drop
<1>13. ASSUME NEW k \in Conns, Read(k) PROVE WaitInv' BY <1>13 DEF Read, Reading
<1>14. ASSUME NEW k \in Conns, Broadcast(k) PROVE WaitInv' BY <1>14 DEF Broadcast, Reading
<1>15. ASSUME NEW k \in Conns, ReadFails(k) PROVE WaitInv'
  <2>1. UNCHANGED user /\ pending' = {} BY <1>15 DEF ReadFails, FailAll, Failed
  <2>2. ASSUME NEW v \in Users, user[v].at \in {"write", "wait"} PROVE answer'[v] # "none"
    <3>1. answer'[v] = IF \E q \in pending : q[1] = v THEN "error" ELSE answer[v] BY <1>15 DEF ReadFails, FailAll, Failed
    <3>2. Mine(v) \in pending => \E q \in pending : q[1] = v BY Zenon
    <3> QED BY <2>2, <3>1, <3>2
  <2> QED BY <2>1, <2>2
<1>16. ASSUME NEW k \in Conns, ClearConn(k) PROVE WaitInv' BY <1>16 DEF ClearConn, Unconnected
<1>17. CASE UNCHANGED ipcVars BY <1>17 DEF ipcVars
<1> QED
  BY <1>1, <1>2, <1>3, <1>4, <1>5, <1>6, <1>7, <1>8, <1>9, <1>10, <1>11, <1>12, <1>13, <1>14, <1>15, <1>16, <1>17
  DEF IpcNext, CallStep, ConnStep

\* What was sent, and what a result rests on.
PeerInv == ResultIsServed /\ SentHasBegun
LEMMA PeerStep == IpcInv /\ [IpcNext]_ipcVars => PeerInv'
<1> SUFFICES ASSUME IpcInv, [IpcNext]_ipcVars PROVE PeerInv' OBVIOUS
<1> USE IpcAssumption DEF IpcInv, PeerInv, IpcTypeOK, PendingIsUnanswered, ResultIsServed, SentHasBegun, Kinds, Messages, At, Go, Mine
<1>1. ASSUME NEW u \in Users, Connected(u) PROVE PeerInv' BY <1>1 DEF Connected, NextKind
<1>2. ASSUME NEW u \in Users, Dial(u) PROVE PeerInv' BY <1>2 DEF Dial
<1>3. ASSUME NEW u \in Users, DialFails(u) PROVE PeerInv' BY <1>3 DEF DialFails
<1>4. ASSUME NEW u \in Users, Enter(u) PROVE PeerInv' BY <1>4 DEF Enter
<1>5. ASSUME NEW u \in Users, Send(u) PROVE PeerInv' BY <1>5 DEF Send, Usable
<1>6. ASSUME NEW u \in Users, SendFails(u) PROVE PeerInv'
  <2>1. \E where \in {"undo", "error"} : Go(u, where) BY <1>6 DEF SendFails
  <2>2. user'[u].at \in {"undo", "error"} /\ \A v \in Users \ {u} : user'[v] = user[v] BY <2>1, GoesTo
  <2>3. \A v \in Users : answer'[v] = "result" => answer[v] = "result" BY <1>6 DEF SendFails, CloseCurrent
  <2>4. UNCHANGED <<back, served>> BY <1>6 DEF SendFails
  <2>5. ResultIsServed' BY <2>2, <2>3, <2>4
  <2>6. sent' \subseteq sent \cup {<<current, u, user[u].kind>>} BY <1>6 DEF SendFails
  <2>7. SentHasBegun' BY <2>2, <2>6
  <2> QED BY <2>5, <2>7
<1>7. ASSUME NEW u \in Users, Answered(u) PROVE PeerInv' BY <1>7 DEF Answered, AfterAnswer
<1>8. ASSUME NEW u \in Users, Expire(u) PROVE PeerInv' BY <1>8 DEF Expire
<1>9. ASSUME NEW u \in Users, Undo(u) PROVE PeerInv' BY <1>9 DEF Undo
<1>10. ASSUME NEW u \in Users, Unset(u) PROVE PeerInv' BY <1>10 DEF Unset
<1>11. CASE Serve BY <1>11 DEF Serve
<1>12. ASSUME NEW k \in Conns, Drop(k) PROVE PeerInv' BY <1>12 DEF Drop
<1>13. ASSUME NEW k \in Conns, Read(k) PROVE PeerInv' BY <1>13 DEF Read, Reading
<1>14. ASSUME NEW k \in Conns, Broadcast(k) PROVE PeerInv' BY <1>14 DEF Broadcast, Reading
<1>15. ASSUME NEW k \in Conns, ReadFails(k) PROVE PeerInv' BY <1>15 DEF ReadFails, Reading, FailAll, Failed
<1>16. ASSUME NEW k \in Conns, ClearConn(k) PROVE PeerInv' BY <1>16 DEF ClearConn, Unconnected
<1>17. CASE UNCHANGED ipcVars BY <1>17 DEF ipcVars
<1> QED
  BY <1>1, <1>2, <1>3, <1>4, <1>5, <1>6, <1>7, <1>8, <1>9, <1>10, <1>11, <1>12, <1>13, <1>14, <1>15, <1>16, <1>17
  DEF IpcNext, CallStep, ConnStep

LEMMA IpcInvStep == IpcInv /\ [IpcNext]_ipcVars => IpcInv'
BY IpcTypeStep, LinkStep, WaitStep, PeerStep DEF IpcInv, LinkInv, WaitInv, PeerInv

LEMMA IpcInvariant == IpcSpec => []IpcInv
<1>1. IpcInit => IpcInv BY IpcInvInit
<1>2. IpcInv /\ [IpcNext]_ipcVars => IpcInv' BY IpcInvStep
<1> QED BY <1>1, <1>2, PTL DEF IpcSpec

(***************************************************************************)
(* A caller that waits is in the table or has its answer, and never waits  *)
(* on a connection whose reader is gone; no socket but the current one is  *)
(* open, unless an initialize failed (request, readLoop, failAll and       *)
(* ensureConnected of desktopipc/client.go).                               *)
(***************************************************************************)
THEOREM IpcNobodyForgotten == IpcSpec => [](IpcTypeOK /\ NobodyForgotten)
<1>1. IpcInv => IpcTypeOK /\ NobodyForgotten
  BY DEF IpcInv, PendingIsUnanswered, WaitHasReader, NobodyForgotten, NoneStranded, At
<1> QED BY <1>1, IpcInvariant, PTL

(***************************************************************************)
(* Each step is one the caller of Calls may see, or none: the handshake,   *)
(* discovery and failed connections are inside one wait, and a result      *)
(* comes from the desktop that took the call or from a broadcast of the    *)
(* history it asked for.                                                   *)
(***************************************************************************)
LEMMA IpcRefines ==
  ASSUME IpcInv, [IpcNext]_ipcVars
  PROVE  [IpcPromise!Next]_<<[u \in Users |-> AsIpcCall(u)], served>>
<1> DEFINE as == [u \in Users |-> AsIpcCall(u)]
           others(u) == \A v \in Users \ {u} : user'[v] = user[v]
<1> USE DEF IpcInv
<1>0. user \in [Users -> UserRecords] BY DEF IpcTypeOK, UserRecords
<1>1. ASSUME NEW u \in Users, Connected(u) \/ Dial(u) PROVE IpcPromise!Begin(u) \/ UNCHANGED <<as, served>>
  <2>1. user'[u].at = "register" /\ others(u) /\ UNCHANGED served
    <3>1. CASE Connected(u) BY <1>0, <3>1 DEF Connected, UserRecords
    <3>2. CASE Dial(u) BY <1>0, <3>2 DEF Dial
    <3> QED BY <1>1, <3>1, <3>2
  <2>2. user[u].at \in {"new", "ready"} BY <1>1 DEF Connected, Dial, At
  <2>3. as' = [as EXCEPT ![u] = "waiting"] BY <2>1, <2>2 DEF AsIpcCall
  <2>4. as[u] = IF user[u].at = "new" THEN "new" ELSE "waiting" BY <2>2 DEF AsIpcCall
  <2> QED BY <2>1, <2>2, <2>3, <2>4 DEF IpcPromise!Begin
<1>2. ASSUME NEW u \in Users, NEW where \in {"write", "undo", "unset", "wait", "register", "ready"}, Go(u, where),
             user[u].at \notin {"new", "result", "error"}
      PROVE  UNCHANGED as
  BY <1>2, GoesTo DEF AsIpcCall
<1>3. ASSUME NEW u \in Users, Go(u, "error"), user[u].at \notin {"result", "error"}, UNCHANGED served
      PROVE  IpcPromise!GiveUp(u)
  <2>1. user'[u].at = "error" /\ others(u) BY <1>3, GoesTo
  <2>2. as' = [as EXCEPT ![u] = "error"] BY <2>1 DEF AsIpcCall
  <2>3. as[u] \in {"new", "waiting"} BY <1>3 DEF AsIpcCall
  <2> QED BY <1>3, <2>2, <2>3 DEF IpcPromise!GiveUp
<1>4. ASSUME NEW u \in Users, Send(u) PROVE UNCHANGED <<as, served>>
  <2>1. user'[u].at = "wait" /\ others(u) /\ UNCHANGED served BY <1>0, <1>4 DEF Send
  <2> QED BY <1>4, <2>1 DEF Send, At, AsIpcCall
<1>5. ASSUME NEW u \in Users, Answered(u) PROVE [IpcPromise!Next]_<<as, served>>
  <2>1. At(u, "wait") /\ Go(u, AfterAnswer(u, answer[u])) /\ UNCHANGED served /\ answer[u] \in {"error", "result"}
    BY <1>5 DEF Answered, IpcTypeOK
  <2>2. CASE AfterAnswer(u, answer[u]) \in {"undo", "ready"} BY <1>2, <2>1, <2>2 DEF At
  <2>3. CASE AfterAnswer(u, answer[u]) = "error" BY <1>3, <2>1, <2>3 DEF At, IpcPromise!Next
  <2>4. CASE AfterAnswer(u, answer[u]) = "result"
    <3>1. user[u].kind = "call" /\ answer[u] = "result" BY <2>1, <2>4 DEF AfterAnswer
    <3>2. u \in served \cup Following BY <2>1, <3>1 DEF ResultIsServed, At
    <3>3. user'[u].at = "result" /\ others(u) BY <2>1, <2>4, GoesTo
    <3>4. as' = [as EXCEPT ![u] = "result"] BY <3>3 DEF AsIpcCall
    <3>5. as[u] = "waiting" BY <2>1 DEF AsIpcCall, At
    <3> QED BY <2>1, <3>2, <3>4, <3>5 DEF IpcPromise!Return, IpcPromise!Next
  <2> QED BY <2>1, <2>2, <2>3, <2>4 DEF AfterAnswer
<1>6. CASE Serve
  <2>1. PICK m \in sent : served' = IF m[3] = "call" THEN served \cup {m[2]} ELSE served BY <1>6 DEF Serve
  <2>2. m[2] \in Users /\ user[m[2]].at # "new" BY <2>1 DEF SentHasBegun, IpcTypeOK, Messages
  <2>3. UNCHANGED as BY <1>6 DEF Serve, AsIpcCall
  <2>4. as[m[2]] # "new" BY <2>2 DEF AsIpcCall
  <2> QED BY <2>1, <2>2, <2>3, <2>4 DEF IpcPromise!Hear, IpcPromise!Next
<1>7. CASE UNCHANGED <<user, served>> BY <1>7 DEF AsIpcCall
<1>8. ASSUME NEW u \in Users, DialFails(u) \/ Enter(u) \/ SendFails(u) \/ Expire(u) \/ Undo(u) \/ Unset(u)
      PROVE  [IpcPromise!Next]_<<as, served>>
  <2>1. UNCHANGED served BY <1>8 DEF DialFails, Enter, SendFails, Expire, Undo, Unset
  <2>2. user[u].at \notin {"result", "error"} BY <1>8 DEF DialFails, Enter, SendFails, Expire, Undo, Unset, At
  <2>3. Go(u, "error") \/ (user[u].at # "new" /\ \E where \in {"write", "undo", "unset"} : Go(u, where))
    BY <1>8 DEF DialFails, Enter, SendFails, Expire, Undo, Unset, At
  <2> QED BY <1>2, <1>3, <2>1, <2>2, <2>3 DEF IpcPromise!Next
<1>9. CASE UNCHANGED ipcVars BY <1>7, <1>9 DEF ipcVars
<1>10. ASSUME NEW k \in Conns, ConnStep(k) PROVE UNCHANGED <<user, served>>
  BY <1>10 DEF ConnStep, Drop, Read, Broadcast, ReadFails, ClearConn
<1> QED
  BY <1>1, <1>4, <1>5, <1>6, <1>7, <1>8, <1>9, <1>10 DEF IpcNext, CallStep, IpcPromise!Next

THEOREM IpcImplementsCalls == IpcSpec => IpcKeepsPromise
<1>1. IpcInit => IpcPromise!Init BY DEF IpcInit, IpcPromise!Init, AsIpcCall
<1>2. IpcInv /\ [IpcNext]_ipcVars => [IpcPromise!Next]_<<[u \in Users |-> AsIpcCall(u)], served>> BY IpcRefines
<1> QED BY <1>1, <1>2, IpcInvariant, PTL DEF IpcSpec, IpcKeepsPromise, IpcPromise!Spec

=============================================================================
