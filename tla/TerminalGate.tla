------------------------------ MODULE TerminalGate ------------------------------
(***************************************************************************)
(* When a turn that reads as interrupted is taken to be over               *)
(* (internal/daemon/terminal_gate.go and its callers pollTracked and       *)
(* refreshThreadForOperation).                                             *)
(*                                                                         *)
(* thread/read may report "interrupted" for a turn that is still running.  *)
(* The gate keeps a record with a deadline for such a turn and accepts the *)
(* interruption when the deadline has passed, when the user asked for it   *)
(* from the chat, when there is an answer, or when it accepted one before. *)
(* The loops, the hot poll and the buttons are readers; each takes several *)
(* reads and writes of the store, with no lock.  The turn is one started   *)
(* from a chat message.  Deadlines are ticks left: Tick takes one from the *)
(* record and from the copies the readers hold.                            *)
(***************************************************************************)
EXTENDS Integers

CONSTANTS
  Readers,        \* the goroutines that read the thread
  Kinds,          \* what an interruption without an answer may look like: empty, partial
  Grace,          \* ticks of the grace period
  MaxCrashes      \* bound

ASSUME GateAssumption ==
  /\ Kinds \subseteq {"empty", "partial"} /\ Kinds # {}
  /\ Grace \in Nat \ {0} /\ MaxCrashes \in Nat

NoDefer == -1
Deadlines == NoDefer..Grace
Views == {"running", "empty", "partial", "final", "completed"}

VARIABLES
  turn,      \* the turn as it is
  recent,    \* it started less than five minutes ago
  recorded,  \* the turn history database has it
  defer,     \* turn_terminal.defer_empty_interrupted.*: ticks left
  explicit,  \* turn_terminal.explicit_interrupt.* is set
  logged,    \* the end of the turn was logged
  snap,      \* the thread's snapshot: what it shows, last_seen_turn_status is terminal
  shown,     \* cards at the end of the turn: the answer, the notice that there is none
  reader,    \* reader -> where it is, what it read, the decision, the record to save
  stop,      \* the press of Stop in the chat
  calm,      \* history: ticks since a read last saw the turn run, up to Grace
  expired,   \* history: an interruption was accepted because its deadline had passed
  crashes

truth == <<turn, recent, recorded>>
keys == <<defer, explicit, logged>>
hist == <<calm, expired>>
vars == <<truth, keys, snap, shown, reader, stop, hist, crashes>>

Points == {"idle", "reconcile", "flags", "load", "write", "mark", "clear",
           "reload", "rewrite", "progress", "store", "sync"}
Whys == {"pass", "recover", "accept", "expired", "defer"}
Snaps == [view : Views, over : BOOLEAN]
States == [at : Points, obs : Views, log : BOOLEAN, asked : BOOLEAN, done : BOOLEAN,
           why : Whys, rec : Deadlines, old : Snaps]
Fresh == [view |-> "running", over |-> FALSE]
Idle == [at |-> "idle", obs |-> "running", log |-> FALSE, asked |-> FALSE, done |-> FALSE,
         why |-> "pass", rec |-> NoDefer, old |-> Fresh]
Init ==
  /\ turn = "running" /\ recent = TRUE /\ recorded = FALSE
  /\ defer = NoDefer /\ explicit = FALSE /\ logged = FALSE
  /\ snap = Fresh /\ shown = {} /\ reader = [r \in Readers |-> Idle] /\ stop = "none"
  /\ calm = 0 /\ expired = FALSE /\ crashes = 0

Interrupted(v) == v \in {"empty", "partial", "final"}
Terminal(v) == v # "running"
At(r, where) == reader[r].at = where
Goto(r, where) == reader' = [reader EXCEPT ![r].at = where]
Done(r) == reader' = [reader EXCEPT ![r] = Idle]

(***************************************************************************)
(* Mutants (see PROJECT.json).                                             *)
(***************************************************************************)
Clears_NotOnRecovery(q) == q.why \in {"accept", "expired"}
CardFor_NoticeForAll(v) == IF Terminal(v) THEN {"notice"} ELSE {}
Press_MarksFirst == /\ stop = "none" /\ ~snap.over /\ stop' = "call" /\ explicit' = TRUE
                    /\ UNCHANGED <<truth, defer, logged, snap, shown, reader, hist, crashes>>

(***************************************************************************)
(* The rules of the code.                                                  *)
(***************************************************************************)
Left(d) == IF d > 0 THEN d - 1 ELSE d
\* decideChatOriginEmptyInterruptedTerminal, with the record d it loaded
Decision(obs, asked, done, d) ==
  IF ~Interrupted(obs) THEN IF d # NoDefer THEN "recover" ELSE "pass"
  ELSE IF asked \/ done \/ obs = "final" THEN "accept"
  ELSE IF d = 0 THEN "expired" ELSE "defer"
Clears(q) == q.why \in {"recover", "accept", "expired"}
\* maybeRenderFinalCard: the card it sends for a snapshot with this view
CardFor(v) == IF v \in {"empty", "partial"} THEN {"notice"}
              ELSE IF v \in {"final", "completed"} THEN {"answer"} ELSE {}
\* What thread/read may report, and what the history database says of the turn.
Reads == IF turn = "running" THEN {"running"} \cup Kinds
         ELSE IF turn = "stopped" THEN Kinds ELSE {"completed", "final"}
Results == IF recorded THEN {"none", turn} ELSE {"none"}
\* reconcileTurnResult, ApplyTurnResult
Reconciled(obs, result) ==
  IF result = "none" THEN IF Interrupted(obs) /\ recent THEN {"running"} ELSE {obs}
  ELSE IF result = "stopped" THEN IF obs \in Kinds THEN {obs} ELSE Kinds
  ELSE IF result = "ended" THEN {"completed"} ELSE {"running"}

(***************************************************************************)
(* The turn and time.                                                      *)
(***************************************************************************)
Ends == \* it completes, or is stopped on the desktop
  /\ turn = "running" /\ turn' \in {"ended", "stopped"}
  /\ UNCHANGED <<recent, recorded, keys, snap, shown, reader, stop, hist, crashes>>

Record ==
  /\ ~recorded /\ recorded' = TRUE
  /\ UNCHANGED <<turn, recent, keys, snap, shown, reader, stop, hist, crashes>>

GrowOld ==
  /\ recent /\ recent' = FALSE
  /\ UNCHANGED <<turn, recorded, keys, snap, shown, reader, stop, hist, crashes>>

Tick ==
  /\ defer' = Left(defer) /\ reader' = [r \in Readers |-> [reader[r] EXCEPT !.rec = Left(@)]]
  /\ calm' = IF calm < Grace THEN calm + 1 ELSE Grace
  /\ UNCHANGED <<truth, explicit, logged, snap, shown, stop, expired, crashes>>

(***************************************************************************)
(* Stop in the chat: interruptTurn.  The key is written when TurnInterrupt *)
(* has returned; its reply may be lost.                                    *)
(***************************************************************************)
Press == /\ stop = "none" /\ ~snap.over /\ stop' = "call"
         /\ UNCHANGED <<truth, keys, snap, shown, reader, hist, crashes>>

Interrupt ==
  /\ stop = "call" /\ turn = "running" /\ turn' = "stopped" /\ stop' \in {"mark", "spent"}
  /\ UNCHANGED <<recent, recorded, keys, snap, shown, reader, hist, crashes>>

InterruptFails ==
  /\ stop = "call" /\ stop' = "spent"
  /\ UNCHANGED <<truth, keys, snap, shown, reader, hist, crashes>>

MarkExplicit ==
  /\ stop = "mark" /\ stop' = "spent" /\ explicit' = TRUE
  /\ UNCHANGED <<truth, defer, logged, snap, shown, reader, hist, crashes>>

(***************************************************************************)
(* A reader.                                                               *)
(***************************************************************************)
Read(r) ==
  /\ At(r, "idle")
  /\ \E obs \in Reads : reader' = [reader EXCEPT ![r] = [Idle EXCEPT !.at = "reconcile", !.obs = obs]]
  /\ UNCHANGED <<truth, keys, snap, shown, stop, hist, crashes>>

Reconcile(r) ==
  /\ At(r, "reconcile")
  /\ \E result \in Results : \E obs \in Reconciled(reader[r].obs, result) :
       /\ reader' = [reader EXCEPT ![r].at = "flags", ![r].obs = obs]
       /\ calm' = IF Interrupted(obs) THEN calm ELSE 0
  /\ UNCHANGED <<truth, keys, snap, shown, stop, expired, crashes>>

\* The gate first reads the explicit and logged keys, then the record.
Flags(r) ==
  /\ At(r, "flags")
  /\ reader' = [reader EXCEPT ![r].at = "load", ![r].asked = explicit, ![r].done = logged]
  /\ UNCHANGED <<truth, keys, snap, shown, stop, hist, crashes>>

AfterDecision(log, why) ==
  IF why # "pass" THEN "write" ELSE IF log THEN "mark" ELSE "store"
Load(r) ==
  LET q == reader[r]
      why == Decision(q.obs, q.asked, q.done, defer)
  IN /\ At(r, "load")
     /\ reader' = [reader EXCEPT ![r].at = AfterDecision(q.log, why), ![r].why = why,
                     ![r].rec = IF why # "defer" THEN NoDefer ELSE IF defer = NoDefer THEN Grace ELSE defer,
                     ![r].asked = FALSE, ![r].done = FALSE]
     /\ expired' = (expired \/ why = "expired")
     /\ UNCHANGED <<truth, keys, snap, shown, stop, calm, crashes>>

\* The record is cleared or saved.
AfterWrite(q) ==
  IF q.why = "defer" THEN IF q.log THEN "sync" ELSE "reload"
  ELSE IF q.why = "expired" \/ q.log THEN "mark" ELSE "store"
Write(r) ==
  LET q == reader[r] IN
  /\ At(r, "write")
  /\ defer' = IF q.why = "defer" THEN q.rec ELSE IF Clears(q) THEN NoDefer ELSE defer
  /\ reader' = [reader EXCEPT ![r].at = AfterWrite(q), ![r].rec = NoDefer]
  /\ UNCHANGED <<truth, explicit, logged, snap, shown, stop, hist, crashes>>

\* The logged key: in the gate after an expiry; in maybeLogChatOriginTerminal
\* unless it is set already, and then the record is cleared once more.
MarkLogged(r) ==
  LET q == reader[r] IN
  /\ At(r, "mark") /\ logged' = TRUE
  /\ Goto(r, IF ~q.log THEN "store" ELSE IF logged THEN "sync" ELSE "clear")
  /\ UNCHANGED <<truth, defer, explicit, snap, shown, stop, hist, crashes>>

ClearAgain(r) ==
  /\ At(r, "clear") /\ defer' = NoDefer /\ Goto(r, "sync")
  /\ UNCHANGED <<truth, explicit, logged, snap, shown, stop, hist, crashes>>

\* Deferred: the snapshot row is read and written back with a new poll time;
\* an interruption with progress in it is stored as well.
Reload(r) ==
  /\ At(r, "reload") /\ reader' = [reader EXCEPT ![r].at = "rewrite", ![r].old = snap]
  /\ UNCHANGED <<truth, keys, snap, shown, stop, hist, crashes>>

Rewrite(r) ==
  LET q == reader[r] IN
  /\ At(r, "rewrite") /\ snap' = q.old
  /\ \E next \in IF q.obs = "partial" THEN {"progress"} ELSE {"sync", "idle"} :
       reader' = [reader EXCEPT ![r] = IF next = "idle" THEN Idle ELSE [q EXCEPT !.at = next, !.old = Fresh]]
  /\ UNCHANGED <<truth, keys, shown, stop, hist, crashes>>

StoreProgress(r) ==
  /\ At(r, "progress") /\ snap' = [view |-> reader[r].obs, over |-> FALSE] /\ Goto(r, "sync")
  /\ UNCHANGED <<truth, keys, shown, stop, hist, crashes>>

\* Accepted: the snapshot is stored; an end is decided on once more for the log.
Store(r) ==
  LET q == reader[r] IN
  /\ At(r, "store") /\ snap' = [view |-> q.obs, over |-> Terminal(q.obs)]
  /\ reader' = [reader EXCEPT ![r].at = IF Terminal(q.obs) THEN "flags" ELSE "sync", ![r].log = Terminal(q.obs)]
  /\ UNCHANGED <<truth, keys, shown, stop, hist, crashes>>

Sync(r) ==
  /\ At(r, "sync") /\ shown' = shown \cup CardFor(snap.view) /\ Done(r)
  /\ UNCHANGED <<truth, keys, snap, stop, hist, crashes>>

Crash ==
  /\ crashes < MaxCrashes /\ crashes' = crashes + 1
  /\ reader' = [r \in Readers |-> Idle] /\ stop' = IF stop = "none" THEN "none" ELSE "spent"
  /\ UNCHANGED <<truth, keys, snap, shown, hist>>

ReaderStep(r) ==
  \/ Read(r) \/ Reconcile(r) \/ Flags(r) \/ Load(r) \/ Write(r) \/ MarkLogged(r) \/ ClearAgain(r)
  \/ Reload(r) \/ Rewrite(r) \/ StoreProgress(r) \/ Store(r) \/ Sync(r)
StopStep == Press \/ Interrupt \/ InterruptFails \/ MarkExplicit
Next == Ends \/ Record \/ GrowOld \/ Tick \/ StopStep \/ Crash \/ \E r \in Readers : ReaderStep(r)

Spec == Init /\ [][Next]_vars
\* A thread with a running panel, or changed since it was read, is polled at
\* every tick of its loop; clocks advance.
FairSpec == Spec /\ WF_vars(Tick) /\ WF_vars(GrowOld) /\ \A r \in Readers : WF_vars(ReaderStep(r))

(***************************************************************************)
(* Properties.                                                             *)
(***************************************************************************)
\* Every variable has its type.
TypeOK ==
  /\ turn \in {"running", "stopped", "ended"} /\ recent \in BOOLEAN /\ recorded \in BOOLEAN
  /\ defer \in Deadlines /\ explicit \in BOOLEAN /\ logged \in BOOLEAN
  /\ snap \in Snaps /\ shown \subseteq {"answer", "notice"}
  /\ reader \in [Readers -> States] /\ stop \in {"none", "call", "mark", "spent"}
  /\ calm \in 0..Grace /\ expired \in BOOLEAN /\ crashes \in 0..MaxCrashes

\* An interruption is stored as the end of the turn only when it was one, or
\* when a whole grace period was granted: not because Stop was pressed and did
\* not reach Codex, nor because a deferred one was stored or written back.
AcceptedEndIsReal == snap.over /\ Interrupted(snap.view) => turn # "running" \/ expired

\* An interruption is accepted for its deadline only when no read within the
\* last grace period saw the turn run (one reader, no crash).
ExpiresInTime(r) == (At(r, "load") /\ reader'[r].why = "expired" /\ reader'[r].at = "write") => calm = Grace
GraceServed == [][crashes = 0 => \A r \in Readers : ExpiresInTime(r)]_vars

\* A stopped turn is shown as such in the end, with or without the key that
\* says the user asked for it.
StopShown == turn = "stopped" ~> "notice" \in shown

\* The answer of a turn that ended is shown, whatever interruptions were read
\* and deferred before.
AnswerShown == turn = "ended" ~> "answer" \in shown

\* However a turn ends, the chat gets to see it.
EndShown == StopShown /\ AnswerShown
=================================================================================
