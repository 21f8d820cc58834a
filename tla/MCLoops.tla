-------------------------------- MODULE MCLoops --------------------------------
(***************************************************************************)
(* What goes on in the background and shares no state: the gate on the     *)
(* reads that say a turn was interrupted, the polling of a thread, the     *)
(* updater, the delivery queue.  Each behaviour is one of one of them      *)
(* (which); the others stay where they start.                              *)
(***************************************************************************)
EXTENDS TerminalGate, Polling, Updater, Outbox

CONSTANTS r1, loop, cli, i1, i2

\* Three parts and one, and a release that adds a part.
MCReleases == <<<<1, 2>>, <<1, 2, 1>>, <<2>>>>

VARIABLE which
loopVars == <<vars, pollVars, updVars, outVars, which>>

LoopInit ==
  /\ Init /\ PollInit /\ UpdInit /\ OutInit /\ which \in {"gate", "polling", "updater", "outbox"}
  /\ which # "polling" => online = TRUE
  /\ which # "outbox" => status = [i \in Items |-> "processing"]
Gate(step) == which = "gate" /\ step /\ UNCHANGED <<pollVars, updVars, outVars, which>>
Pol(step) == which = "polling" /\ step /\ UNCHANGED <<vars, updVars, outVars, which>>
Upd(step) == which = "updater" /\ step /\ UNCHANGED <<vars, pollVars, outVars, which>>
Out(step) == which = "outbox" /\ step /\ UNCHANGED <<vars, pollVars, updVars, which>>
LoopNext == Gate(Next) \/ Pol(PollNext) \/ Upd(UpdNext) \/ Out(OutNext)

\* The clock runs, the readers read, the catalog pass and the loops go round, and what a goroutine
\* has begun it goes on with.  Nothing makes Codex change, a user press a button, or a loop fail.
Fairness ==
  /\ WF_loopVars(Gate(Tick)) /\ WF_loopVars(Gate(GrowOld)) /\ \A r \in Readers : WF_loopVars(Gate(ReaderStep(r)))
  /\ WF_loopVars(Pol(CatalogPass)) /\ WF_loopVars(Pol(Due)) /\ WF_loopVars(Pol(Quiet))
  /\ WF_loopVars(Pol(PollLoop)) /\ WF_loopVars(Pol(LiveLoop))
  /\ \A u \in Updaters : WF_loopVars(Upd(UpdStep(u)))
  /\ WF_loopVars(Upd(Exit))

LoopSpec == LoopInit /\ [][LoopNext]_loopVars /\ Fairness
=============================================================================
