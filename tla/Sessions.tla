------------------------------ MODULE Sessions ------------------------------
(***************************************************************************)
(* The app-server sessions of the daemon (internal/daemon/service.go): one *)
(* "live" client whose events a goroutine consumes and one "poll" client,  *)
(* created, connected, replaced and closed by the startup goroutine, the   *)
(* control loop, the proxy-to-stdio fallback and Service.Close.            *)
(*                                                                         *)
(* sessionMu serialises the slow paths (process start, rebuild); s.mu only *)
(* guards the fields, so every s.mu section is one step here and whatever  *)
(* the code does between two sections is a step of its own.  A client is   *)
(* the number the factory call gave it.  An event loop is named by the     *)
(* live generation it was started with; its channel belongs to it alone.   *)
(***************************************************************************)
EXTENDS Naturals, FiniteSets

CONSTANTS
  MaxClients,   \* bound: clients the two factories may make
  MaxGen,       \* bound: live generations
  MaxAsks,      \* bound: repair requests written into an empty slot
  MaxDeaths,    \* bound: app-server processes that exit by themselves
  MaxFails      \* bound: Start calls and health checks that fail

ASSUME BoundsAssumption ==
  /\ MaxClients \in Nat /\ MaxClients >= 2
  /\ MaxGen \in Nat /\ MaxAsks \in Nat /\ MaxDeaths \in Nat /\ MaxFails \in Nat

TickRoom == 6   \* bound: generations a turn of the control loop may need after a cancel
NoClient == 0
NoLoop == 0
NoActor == "none"
Clients == 1..MaxClients
Loops == 1..MaxGen
Roles == {"live", "poll"}
Actors == {"startup", "control"}    \* the holders of sessionMu besides Close
Requesters == {"poller"}            \* goroutines that call a session they read earlier

VARIABLES
  client,      \* role -> the client in s.live / s.poll
  connected,   \* role -> s.liveConnected / s.pollConnected
  events,      \* s.liveEvents: the loop whose channel it is
  gen,         \* s.liveGeneration
  proc,        \* client -> its app-server process
  made,        \* clients made so far
  listen,      \* s.appServerListen
  loopState, loopClient, loopInbox, \* the event loops: goroutine, client, a transport event waits
  mu,          \* holder of sessionMu
  pc,          \* actor -> where it is
  doomed,      \* clients swapped out by the holder and not closed yet
  repairing,   \* the control loop's repair: "no", "first" or "force"
  repairReq,   \* control.repair_request is not empty
  flight,      \* requester -> the client its running call uses
  lifecycle,   \* "up", "cancelled" (Close waits for the goroutines), "down"
  asks, deaths, fails, \* spent of the bounds
  owed         \* history: a repair was requested and no rebuild began since

svars == <<client, connected, events, gen, listen>>
lvars == <<loopState, loopClient, loopInbox>>
avars == <<mu, pc, doomed, repairing>>
bvars == <<asks, deaths, fails>>
vars == <<svars, lvars, avars, bvars, proc, made, repairReq, flight, lifecycle, owed>>

ProcStates == {"none", "new", "running", "dead", "closed"}
Init ==
  /\ client = [r \in Roles |-> IF r = "live" THEN 1 ELSE 2]
  /\ connected = [r \in Roles |-> FALSE]
  /\ events = NoLoop /\ gen = 0
  /\ proc = [c \in Clients |-> IF c \in {1, 2} THEN "new" ELSE "none"]
  /\ made = 2
  /\ listen \in {"proxy", "stdio"}
  /\ loopState = [k \in Loops |-> "none"]
  /\ loopClient = [k \in Loops |-> NoClient]
  /\ loopInbox = [k \in Loops |-> FALSE]
  /\ mu = NoActor
  /\ pc = [a \in Actors |-> IF a = "startup" THEN "want" ELSE "idle"]
  /\ doomed = {} /\ repairing = "no" /\ repairReq = FALSE
  /\ flight = [q \in Requesters |-> NoClient]
  /\ lifecycle = "up"
  /\ asks = 0 /\ deaths = 0 /\ fails = 0 /\ owed = FALSE

Started(c) == proc[c] \in {"running", "dead"}   \* Client.started: a process that exited leaves it set
CurrentClients == {client[r] : r \in Roles}

\* Mutants of the helpers below (see PROJECT.json).
CurrentLoop_Any(k) == TRUE
CtxDone_Ignored(k) == FALSE
Disconnected_Kept == connected
SwappedOut_LiveOnly == {client["live"]}
Unlocked_Forgotten == mu

\* liveEventLoopCurrent, and the same test in the deferred function.
CurrentLoop(k) == client["live"] = loopClient[k] /\ events = k /\ gen = k
CtxDone(k) == lifecycle = "cancelled"
Disconnected == [r \in Roles |-> FALSE]
SwappedOut == CurrentClients
Unlocked == NoActor
InLock == {"startLive", "subscribe", "spawn", "startPoll", "closeLive", "closePoll", "release"}
Places == InLock \cup {"want", "idle", "rebuild", "bootstrap", "health", "clear", "exited"}
Goto(a, l) == pc' = [pc EXCEPT ![a] = l]

\* RequestRepair: the single control.repair_request slot is overwritten.
RequestRepair ==
  /\ repairReq' = TRUE /\ owed' = TRUE
  /\ IF repairReq THEN UNCHANGED asks ELSE asks < MaxAsks /\ asks' = asks + 1

----------------------------------------------------------------------------
\* sessionMu and its holders

Acquire(a) ==
  /\ pc[a] = "want" /\ mu = NoActor
  /\ mu' = a /\ Goto(a, "startLive")
  /\ UNCHANGED <<svars, lvars, bvars, doomed, repairing, proc, made, repairReq, flight, lifecycle, owed>>

\* Both factories are called; the old clients are left to the caller to close.
\* An s.mu section of fallbackProxyAppServerToStdioLocked and of rebuildAppServerSessions.
Swap(a, next) ==
  /\ made + 2 <= MaxClients /\ gen < MaxGen
  /\ client' = [r \in Roles |-> IF r = "live" THEN made + 1 ELSE made + 2]
  /\ made' = made + 2
  /\ connected' = Disconnected
  /\ events' = NoLoop /\ gen' = gen + 1
  /\ proc' = [proc EXCEPT ![made + 1] = "new", ![made + 2] = "new"]
  /\ doomed' = SwappedOut
  /\ Goto(a, next)

\* Client.Start fails: a proxy listener falls back to stdio once, with new clients.
StartFails(a, role) ==
  /\ mu = a /\ client[role] # NoClient /\ ~connected[role] /\ proc[client[role]] = "new"
  /\ fails < MaxFails /\ fails' = fails + 1
  /\ IF listen = "proxy"
     THEN /\ listen' = "stdio"
          /\ Swap(a, IF role = "live" THEN "closeLive" ELSE "closePoll")
     ELSE /\ Goto(a, IF role = "live" THEN "startPoll" ELSE "release")
          /\ UNCHANGED <<client, connected, events, gen, listen, made, proc, doomed>>
  /\ UNCHANGED <<lvars, mu, asks, deaths, repairing, repairReq, flight, lifecycle, owed>>

\* ensureLiveSessionLocked up to a successful Start; Start on a started client returns at once.
StartLive(a) ==
  /\ pc[a] = "startLive"
  /\ IF client["live"] = NoClient \/ connected["live"]
     THEN Goto(a, "startPoll") /\ UNCHANGED proc
     ELSE /\ Goto(a, "subscribe")
          /\ proc' = IF Started(client["live"]) THEN proc
                     ELSE [proc EXCEPT ![client["live"]] = "running"]
  /\ UNCHANGED <<svars, lvars, bvars, mu, doomed, repairing, made, repairReq, flight, lifecycle, owed>>

\* client.Subscribe() and the s.mu section that publishes the new channel.
Subscribe(a) ==
  /\ pc[a] = "subscribe" /\ gen < MaxGen
  /\ gen' = gen + 1 /\ events' = gen + 1
  /\ connected' = [connected EXCEPT !["live"] = TRUE]
  /\ loopState' = [loopState EXCEPT ![gen + 1] = "unspawned"]
  /\ loopClient' = [loopClient EXCEPT ![gen + 1] = client["live"]]
  /\ Goto(a, "spawn")
  /\ UNCHANGED <<client, listen, loopInbox, bvars, mu, doomed, repairing, proc, made, repairReq, flight, lifecycle, owed>>

SpawnLoop(a) ==
  /\ pc[a] = "spawn"
  /\ loopState' = [loopState EXCEPT ![gen] = "running"]
  /\ Goto(a, "startPoll")
  /\ UNCHANGED <<svars, loopClient, loopInbox, bvars, mu, doomed, repairing, proc, made, repairReq, flight, lifecycle, owed>>

StartPoll(a) ==
  /\ pc[a] = "startPoll"
  /\ IF client["poll"] = NoClient \/ connected["poll"]
     THEN UNCHANGED <<connected, proc>>
     ELSE /\ connected' = [connected EXCEPT !["poll"] = TRUE]
          /\ proc' = IF Started(client["poll"]) THEN proc
                     ELSE [proc EXCEPT ![client["poll"]] = "running"]
  /\ Goto(a, "release")
  /\ UNCHANGED <<client, events, gen, listen, lvars, bvars, mu, doomed, repairing, made, repairReq, flight, lifecycle, owed>>

\* The start attempts of the two roles that fail.
StartLiveFails(a) == pc[a] = "startLive" /\ StartFails(a, "live")
StartPollFails(a) == pc[a] = "startPoll" /\ StartFails(a, "poll")

\* The old clients are closed outside s.mu, still under sessionMu.
CloseOld(a) ==
  /\ pc[a] \in {"closeLive", "closePoll"}
  /\ proc' = [c \in Clients |-> IF c \in doomed /\ Started(c) THEN "closed" ELSE proc[c]]
  /\ doomed' = {}
  /\ Goto(a, IF pc[a] = "closeLive" THEN "startLive" ELSE "startPoll")
  /\ UNCHANGED <<svars, lvars, bvars, mu, repairing, made, repairReq, flight, lifecycle, owed>>

\* sessionMu is released; the startup goroutine and a repair go on to the bootstrap.
Release(a) ==
  /\ pc[a] = "release" /\ mu' = Unlocked
  /\ Goto(a, IF a = "startup" \/ repairing # "no" THEN "bootstrap" ELSE "idle")
  /\ UNCHANGED <<svars, lvars, bvars, doomed, repairing, proc, made, repairReq, flight, lifecycle, owed>>

\* bootstrapTrackedState without the lock; a failing ThreadList requests a repair.
Bootstrap(a) ==
  /\ pc[a] = "bootstrap"
  /\ Goto(a, IF a = "startup" THEN "exited" ELSE "health")
  /\ \/ UNCHANGED <<repairReq, owed, asks>>
     \/ \E r \in Roles : connected[r] /\ client[r] # NoClient /\ proc[client[r]] # "running" /\ RequestRepair
  /\ UNCHANGED <<svars, lvars, deaths, fails, mu, doomed, repairing, proc, made, flight, lifecycle>>

----------------------------------------------------------------------------
\* The control loop: one turn of controlLoop, repairSessions, checkAppServerHealth

ControlTick ==
  /\ pc["control"] = "idle"
  /\ lifecycle = "up" \/ gen + TickRoom <= MaxGen   \* after a cancel select may still pick the ticker
  /\ IF repairReq THEN repairing' = "first" /\ Goto("control", "rebuild")
                  ELSE repairing' = "no" /\ Goto("control", "want")
  /\ UNCHANGED <<svars, lvars, bvars, mu, doomed, proc, made, repairReq, flight, lifecycle, owed>>

Rebuild ==
  /\ pc["control"] = "rebuild" /\ mu = NoActor
  /\ mu' = "control" /\ owed' = FALSE
  /\ Swap("control", "closeLive")
  /\ UNCHANGED <<listen, lvars, bvars, repairing, repairReq, flight, lifecycle>>

HealthClient ==
  IF connected["poll"] THEN client["poll"] ELSE IF connected["live"] THEN client["live"] ELSE NoClient
HealthOK == HealthClient # NoClient /\ proc[HealthClient] = "running"

Health(ok) ==
  /\ pc["control"] = "health"
  /\ IF ok THEN HealthOK /\ UNCHANGED fails
     ELSE IF HealthOK THEN fails < MaxFails /\ fails' = fails + 1
     ELSE UNCHANGED fails
  /\ IF ok \/ repairing = "force"
     THEN Goto("control", "clear") /\ UNCHANGED repairing
     ELSE Goto("control", "rebuild") /\ repairing' = "force"
  /\ UNCHANGED <<svars, lvars, asks, deaths, mu, doomed, proc, made, repairReq, flight, lifecycle, owed>>

\* SetState("control.repair_request", ""), whatever the slot holds by now.
ClearRequest ==
  /\ pc["control"] = "clear"
  /\ repairReq' = FALSE /\ repairing' = "no" /\ Goto("control", "idle")
  /\ UNCHANGED <<svars, lvars, bvars, mu, doomed, proc, made, flight, lifecycle, owed>>

ControlExit ==
  /\ pc["control"] = "idle" /\ lifecycle = "cancelled"
  /\ Goto("control", "exited")
  /\ UNCHANGED <<svars, lvars, bvars, mu, doomed, repairing, proc, made, repairReq, flight, lifecycle, owed>>

----------------------------------------------------------------------------
\* liveEventLoop

\* A transport event: a loop that is not current returns, a current one requests a repair.
LoopEvent(k) ==
  /\ loopState[k] = "running" /\ loopInbox[k]
  /\ loopInbox' = [loopInbox EXCEPT ![k] = FALSE]
  /\ IF CurrentLoop(k)
     THEN /\ IF lifecycle = "up" THEN RequestRepair ELSE UNCHANGED <<repairReq, owed, asks>>
          /\ UNCHANGED loopState
     ELSE /\ loopState' = [loopState EXCEPT ![k] = "exited"]
          /\ UNCHANGED <<repairReq, owed, asks>>
  /\ UNCHANGED <<svars, loopClient, avars, deaths, fails, proc, made, flight, lifecycle>>

\* ctx.Done: the deferred s.mu section; only the current loop clears the connection.
LoopCancelled(k) ==
  /\ loopState[k] = "running" /\ CtxDone(k)
  /\ IF CurrentLoop(k)
     THEN /\ connected' = [connected EXCEPT !["live"] = FALSE]
          /\ events' = NoLoop
     ELSE UNCHANGED <<connected, events>>
  /\ loopState' = [loopState EXCEPT ![k] = "exited"]
  /\ UNCHANGED <<client, gen, listen, loopClient, loopInbox, avars, bvars, proc, made, repairReq, flight, lifecycle, owed>>

----------------------------------------------------------------------------
\* Everyone else

\* A goroutine reads a connected session under s.mu, then calls it without the lock.
CallBegin(q) ==
  /\ flight[q] = NoClient /\ lifecycle = "up"
  /\ \E r \in Roles : connected[r] /\ client[r] # NoClient /\ flight' = [flight EXCEPT ![q] = client[r]]
  /\ UNCHANGED <<svars, lvars, avars, bvars, proc, made, repairReq, lifecycle, owed>>

\* The call returns; on a client that was closed or died it fails and noteSessionError asks for a repair.
CallEnd(q) ==
  /\ flight[q] # NoClient
  /\ flight' = [flight EXCEPT ![q] = NoClient]
  /\ IF proc[flight[q]] = "running" \/ lifecycle # "up"
     THEN UNCHANGED <<repairReq, owed, asks>> ELSE RequestRepair
  /\ UNCHANGED <<svars, lvars, avars, deaths, fails, proc, made, lifecycle>>

ChatRepair ==
  /\ lifecycle = "up" /\ RequestRepair
  /\ UNCHANGED <<svars, lvars, avars, deaths, fails, proc, made, flight, lifecycle>>

\* An app-server process exits; Client.broadcast drops the event when a subscriber's channel is full.
Die(c) ==
  /\ proc[c] = "running" /\ deaths < MaxDeaths
  /\ proc' = [proc EXCEPT ![c] = "dead"] /\ deaths' = deaths + 1
  /\ \/ UNCHANGED loopInbox
     \/ loopInbox' = [k \in Loops |-> loopInbox[k] \/ (loopClient[k] = c /\ loopState[k] \in {"unspawned", "running"})]
  /\ UNCHANGED <<svars, loopState, loopClient, avars, asks, fails, made, repairReq, flight, lifecycle, owed>>

\* Service.Close: cancel, wait for every goroutine, then drop and close the sessions.
Cancel ==
  /\ lifecycle = "up" /\ lifecycle' = "cancelled"
  /\ UNCHANGED <<svars, lvars, avars, bvars, proc, made, repairReq, flight, owed>>

AllExited ==
  /\ \A a \in Actors : pc[a] = "exited"
  /\ \A k \in Loops : loopState[k] \in {"none", "exited"}
  /\ \A q \in Requesters : flight[q] = NoClient

CloseService ==
  /\ lifecycle = "cancelled" /\ AllExited /\ mu = NoActor
  /\ lifecycle' = "down"
  /\ proc' = [c \in Clients |-> IF c \in CurrentClients /\ Started(c) THEN "closed" ELSE proc[c]]
  /\ client' = [r \in Roles |-> NoClient] /\ connected' = [r \in Roles |-> FALSE]
  /\ events' = NoLoop /\ gen' = gen + 1
  /\ UNCHANGED <<listen, lvars, avars, bvars, made, repairReq, flight, owed>>

Terminated == lifecycle = "down" /\ UNCHANGED vars

----------------------------------------------------------------------------
ActorStep(a) ==
  \/ Acquire(a) \/ StartLive(a) \/ StartLiveFails(a) \/ Subscribe(a) \/ SpawnLoop(a)
  \/ StartPoll(a) \/ StartPollFails(a) \/ CloseOld(a) \/ Release(a) \/ Bootstrap(a)
ControlStep ==
  \/ ControlTick \/ Rebuild \/ (\E ok \in BOOLEAN : Health(ok)) \/ ClearRequest \/ ControlExit
LoopStep(k) == LoopEvent(k) \/ LoopCancelled(k)

Next ==
  \/ \E a \in Actors : ActorStep(a)
  \/ ControlStep
  \/ \E k \in Loops : LoopStep(k)
  \/ \E q \in Requesters : CallBegin(q) \/ CallEnd(q)
  \/ ChatRepair
  \/ \E c \in Clients : Die(c)
  \/ Cancel \/ CloseService \/ Terminated

\* Goroutines that can run do run; after a cancel every select sees ctx.Done sooner or later.
Fairness ==
  /\ \A a \in Actors : WF_vars(ActorStep(a))
  /\ WF_vars(ControlStep) /\ SF_vars(ControlExit)
  /\ \A k \in Loops : WF_vars(LoopStep(k))
  /\ \A q \in Requesters : WF_vars(CallEnd(q))
  /\ WF_vars(CloseService)

Spec == Init /\ [][Next]_vars
FairSpec == Spec /\ Fairness

----------------------------------------------------------------------------
\* Properties

TypeOK ==
  /\ client \in [Roles -> Clients \cup {NoClient}]
  /\ connected \in [Roles -> BOOLEAN]
  /\ events \in Loops \cup {NoLoop} /\ gen \in Nat
  /\ proc \in [Clients -> ProcStates]
  /\ made \in 2..MaxClients
  /\ listen \in {"proxy", "stdio"}
  /\ loopState \in [Loops -> {"none", "unspawned", "running", "exited"}]
  /\ loopClient \in [Loops -> Clients \cup {NoClient}]
  /\ loopInbox \in [Loops -> BOOLEAN]
  /\ mu \in Actors \cup {NoActor}
  /\ pc \in [Actors -> Places]
  /\ doomed \subseteq Clients \cup {NoClient}
  /\ repairing \in {"no", "first", "force"}
  /\ repairReq \in BOOLEAN /\ owed \in BOOLEAN
  /\ flight \in [Requesters -> Clients \cup {NoClient}]
  /\ lifecycle \in {"up", "cancelled", "down"}
  /\ asks \in Nat /\ deaths \in Nat /\ fails \in Nat

(***************************************************************************)
(* While s.liveConnected is set, the channel in s.liveEvents belongs to    *)
(* the current client and the current generation, and a goroutine reads it *)
(* (or the holder of sessionMu is about to spawn it): no event of a        *)
(* connected session, approval requests included, goes unread.             *)
(***************************************************************************)
LiveHasReader ==
  connected["live"] =>
    /\ events # NoLoop /\ events = gen /\ loopClient[gen] = client["live"]
    /\ \/ loopState[gen] = "running"
       \/ loopState[gen] = "unspawned" /\ mu \in Actors /\ pc[mu] = "spawn"

(***************************************************************************)
(* Rebuilds, fallbacks and Close leave no app-server process behind: one   *)
(* that was started is that of a current client or is about to be closed   *)
(* by the holder of sessionMu; and a closed client is never published.     *)
(***************************************************************************)
ProcessesAccounted ==
  /\ \A c \in Clients : Started(c) => c \in CurrentClients \cup doomed
  /\ \A c \in CurrentClients \ {NoClient} : proc[c] \in {"new", "running", "dead"}

(***************************************************************************)
(* A live connection is only given up by a rebuild or fallback that holds  *)
(* sessionMu, by Close, or by the event loop of that very connection: a    *)
(* stale loop never disturbs its successor.                                *)
(***************************************************************************)
GivenUpByOwner ==
  [][ connected["live"] /\ ~connected'["live"] =>
        \/ mu' \in Actors /\ doomed' = CurrentClients
        \/ lifecycle' = "down"
        \/ loopState[gen] = "running" /\ loopState'[gen] = "exited" ]_vars

(***************************************************************************)
(* If the faults stop (their number is bounded) and nobody closes the      *)
(* service, both sessions end up connected to a started client for good:   *)
(* no interleaving of startup, repair and fallback leaves one behind.      *)
(***************************************************************************)
SessionsComeBack ==
  <>[](lifecycle = "up") =>
    <>[](\A r \in Roles : connected[r] /\ client[r] # NoClient /\ Started(client[r]))

(***************************************************************************)
(* Close returns, whatever the control loop was doing when it was called,  *)
(* and no app-server process outlives it.                                  *)
(***************************************************************************)
CloseReturns ==
  lifecycle = "cancelled" ~> (lifecycle = "down" /\ \A c \in Clients : ~Started(c))

(***************************************************************************)
(* The answer to /repair, "App-server sessions will be recreated": until a *)
(* rebuild begins, the request stays recorded.                             *)
(***************************************************************************)
RequestedRepairIsKept == owed => repairReq
=============================================================================
