------------------------------- MODULE PanelSync -------------------------------
(***************************************************************************)
(* The cards of one thread in its topic: syncThreadPanelToTargetWithPending *)
(* and the Refresh button (internal/daemon/panels.go, details.go).          *)
(*                                                                         *)
(* The live and poll loops read the thread, store the snapshot, load it    *)
(* again and only then take panelMu; a chat message that started a turn    *)
(* and the Refresh button do the same in goroutines of their own, and the  *)
(* button writes the cards without the lock.  A view is what a snapshot    *)
(* says of the thread: latest turn, its status, and the turns whose answer *)
(* is in it.  A fingerprint is the turn and which final card it is.        *)
(***************************************************************************)
EXTENDS Naturals

CONSTANTS
  Loops, Chats, Buttons,  \* the goroutines that sync the thread, by what starts them
  Nobody,                 \* holder of the free panelMu
  MaxTurns, MaxFaults, MaxCrashes, MaxPresses  \* bounds

ASSUME PanelAssumption ==
  /\ Loops \cap Chats = {} /\ (Loops \cup Chats) \cap Buttons = {}
  /\ Nobody \notin Loops \cup Chats \cup Buttons
  /\ MaxTurns \in Nat \ {0} /\ MaxFaults \in Nat /\ MaxCrashes \in Nat /\ MaxPresses \in Nat

Procs == Loops \cup Chats \cup Buttons
Turns == 1..MaxTurns
Views == [turn : Turns, status : {"inProgress", "completed"}, texts : SUBSET Turns]
Text(t) == <<t, "text">>       \* the card with the answer
Gap(t) == <<t, "incomplete">>  \* the card that says there is none
Finals == Turns \X {"text", "incomplete"}
NoFinal == <<0, "none">>
\* A row of thread_panels: turn, status, last_final_notice_fp, whether
\* last_final_card_hash is set, and the turn of its user card (0: none).
Rows == [turn : 0..MaxTurns, status : {"none", "inProgress", "completed"},
         fp : Finals \cup {NoFinal}, carded : BOOLEAN, user : 0..MaxTurns]
NoRow == [turn |-> 0, status |-> "none", fp |-> NoFinal, carded |-> FALSE, user |-> 0]

VARIABLES
  codex,      \* the thread as Codex has it
  fromChat,   \* turns a chat message started
  marked,     \* turn_origin.chat.<thread>.<turn> is set
  snap,       \* thread_snapshots
  row,        \* the current row of thread_panels
  card,       \* what its card shows in the chat: turn and status
  routes,     \* message_routes with a final card's fingerprint
  userRoutes, \* turns whose user card has a route
  lock,       \* holder of panelMu
  p,          \* goroutine -> where it is, its view, its copy of the row (and whether that
              \* row is still current), forceNew, the turn it started, the card it sends
  finals, progress, notices,  \* history: cards sent, counted up to 2
  faults, crashes, presses    \* spent of the bounds

thread == <<codex, fromChat, marked>>
stored == <<snap, row, routes, userRoutes>>
sent == <<finals, progress, notices>>
spent == <<faults, crashes, presses>>
vars == <<thread, stored, card, lock, p, sent, spent>>

Points == {"idle", "mark", "read", "store", "seed", "load", "choose", "press", "lock",
           "ensure", "note", "cards", "create", "resend", "renote", "recards", "recreate",
           "update", "upnote", "reupdate", "reupnote", "final", "send", "record"}
Outside == {"idle", "mark", "read", "store", "seed", "load", "choose", "press", "lock"}
States == [at : Points, view : Views, mem : Rows, cur : BOOLEAN, force : BOOLEAN,
           own : 0..MaxTurns, fin : Finals \cup {NoFinal}]
Start == [turn |-> 1, status |-> "inProgress", texts |-> {}]
Idle == [at |-> "idle", view |-> Start, mem |-> NoRow, cur |-> FALSE, force |-> FALSE,
         own |-> 0, fin |-> NoFinal]
Init ==
  /\ codex = Start /\ fromChat = {} /\ marked = {}
  /\ snap = Start /\ row = NoRow /\ card = [turn |-> 0, status |-> "none"]
  /\ routes = {} /\ userRoutes = {}
  /\ lock = Nobody /\ p = [s \in Procs |-> Idle]
  /\ finals = [f \in Finals |-> 0] /\ progress = [t \in Turns |-> 0] /\ notices = [t \in Turns |-> 0]
  /\ faults = 0 /\ crashes = 0 /\ presses = 0

More(n) == IF n < 2 THEN n + 1 ELSE 2
Ended(v) == v.status = "completed"
Answered(v) == Ended(v) /\ v.turn \in v.texts
Shown(r) == [turn |-> r.turn, status |-> r.status]
Goto(s, where) == p' = [p EXCEPT ![s].at = where]

(***************************************************************************)
(* Mutants of the helpers below (see PROJECT.json).                        *)
(***************************************************************************)
Recorded_RowOnly(r, f) == r.carded /\ r.fp = f
Recorded_AnyCard(r, f) == r.carded \/ f \in routes
Superseded_Never(r, v) == FALSE
Settled_SameTurn(r, v) == Answered(v) /\ r.turn = v.turn /\ r.carded
LegacyReplay_Running(r, v) == Answered(v) /\ r.turn = v.turn /\ r.fp = NoFinal

(***************************************************************************)
(* The rules of the code.                                                  *)
(***************************************************************************)
\* finalCardAlreadyRecorded
Recorded(r, f) == (r.carded /\ r.fp = f) \/ f \in routes
\* repairSupersededFinalCard: the row of an ended turn that never got its final card.
Superseded(r, v) == r.turn # v.turn /\ Ended(r) /\ ~r.carded /\ r.turn \in v.texts
\* panelNeedsRefresh
NeedsRow(r, v) == r.turn = 0 \/ (r.turn # v.turn /\ Ended(r))
\* The early return: the answer of this view is out.
Settled(r, v) == Answered(v) /\ r.fp = Text(v.turn) /\ Recorded(r, Text(v.turn))
\* isLegacyTerminalReplay
LegacyReplay(r, v) == Answered(v) /\ r.turn = v.turn /\ Ended(r) /\ r.user = 0 /\ r.fp = NoFinal
\* shouldSendUserRequestNotice and its guards
NeedsUserCard(r, t) == t # r.user /\ t \notin marked /\ t \notin userRoutes
RowAfterUpdate(r, v) == [r EXCEPT !.turn = v.turn, !.status = v.status]
RowAfterFinal(r, f) == [r EXCEPT !.turn = f[1], !.status = "completed", !.fp = f, !.carded = TRUE]

(***************************************************************************)
(* Codex.  An answer may show up in the thread after its turn has ended.   *)
(***************************************************************************)
NextTurn == /\ Ended(codex) /\ codex.turn < MaxTurns
            /\ codex' = [codex EXCEPT !.turn = @ + 1, !.status = "inProgress"]

UserTurn == NextTurn /\ UNCHANGED <<fromChat, marked, stored, card, lock, p, sent, spent>>

TurnEnds ==
  /\ codex.status = "inProgress"
  /\ \E texts \in {codex.texts, codex.texts \cup {codex.turn}} :
       codex' = [codex EXCEPT !.status = "completed", !.texts = texts]
  /\ UNCHANGED <<fromChat, marked, stored, card, lock, p, sent, spent>>

AnswerAppears ==
  /\ Ended(codex) /\ codex' = [codex EXCEPT !.texts = @ \cup {codex.turn}]
  /\ codex' # codex
  /\ UNCHANGED <<fromChat, marked, stored, card, lock, p, sent, spent>>

(***************************************************************************)
(* What makes a goroutine sync the thread.                                 *)
(***************************************************************************)
\* A live event or the poll tick: the thread is read.
Poll(s) ==
  /\ s \in Loops /\ p[s].at = "idle"
  /\ p' = [p EXCEPT ![s] = [Idle EXCEPT !.at = "store", !.view = codex]]
  /\ UNCHANGED <<thread, stored, card, lock, sent, spent>>

\* turn/start for a chat message; the reply is handled in Mark.
ChatTurn(s) ==
  /\ s \in Chats /\ p[s].at = "idle" /\ NextTurn
  /\ fromChat' = fromChat \cup {codex'.turn}
  /\ p' = [p EXCEPT ![s] = [Idle EXCEPT !.at = "mark", !.own = codex'.turn, !.force = TRUE]]
  /\ UNCHANGED <<marked, stored, card, lock, sent, spent>>

Mark(s) ==
  /\ p[s].at = "mark" /\ marked' = marked \cup {p[s].own} /\ Goto(s, "read")
  /\ UNCHANGED <<codex, fromChat, stored, card, lock, sent, spent>>

Press(s) ==
  /\ s \in Buttons /\ p[s].at = "idle" /\ presses < MaxPresses /\ row # NoRow
  /\ presses' = presses + 1 /\ Goto(s, "read")
  /\ UNCHANGED <<thread, stored, card, lock, sent, faults, crashes>>

Read(s) ==
  /\ p[s].at = "read"
  /\ p' = [p EXCEPT ![s].at = "store", ![s].view = codex]
  /\ UNCHANGED <<thread, stored, card, lock, sent, spent>>

Store(s) ==
  /\ p[s].at = "store" /\ snap' = p[s].view
  /\ Goto(s, IF p[s].own # 0 THEN "seed" ELSE "load")
  /\ UNCHANGED <<thread, row, routes, userRoutes, card, lock, sent, spent>>

\* ensureStartedTurnSnapshot
Seed(s) ==
  /\ p[s].at = "seed" /\ Goto(s, "load")
  /\ snap' = IF snap.turn = p[s].own THEN snap
             ELSE [snap EXCEPT !.turn = p[s].own, !.status = "inProgress"]
  /\ UNCHANGED <<thread, row, routes, userRoutes, card, lock, sent, spent>>

\* loadThreadPanelSnapshot, before the lock
Load(s) ==
  /\ p[s].at = "load"
  /\ p' = [p EXCEPT ![s].view = snap,
                    ![s].at = IF s \in Buttons /\ ~p[s].force THEN "choose" ELSE "lock"]
  /\ UNCHANGED <<thread, stored, card, lock, sent, spent>>

(***************************************************************************)
(* The Refresh button: another turn than the row's is synced like any      *)
(* other, the row's own turn is redrawn at once, without panelMu.          *)
(***************************************************************************)
Choose(s) ==
  /\ p[s].at = "choose"
  /\ p' = IF row.turn = p[s].view.turn
          THEN [p EXCEPT ![s].at = "press", ![s].mem = row, ![s].cur = TRUE]
          ELSE [p EXCEPT ![s].at = "load", ![s].force = TRUE]
  /\ UNCHANGED <<thread, stored, card, lock, sent, spent>>

\* resendMissingLatestTurnCards forgets what has no route, and redraws.
Redraw(s) ==
  LET v == p[s].view
      noUser == v.turn \notin userRoutes
      noFinal == Answered(v) /\ Text(v.turn) \notin routes
      mem == [p[s].mem EXCEPT !.user = IF noUser THEN 0 ELSE @, !.fp = IF noFinal THEN NoFinal ELSE @]
  IN /\ p[s].at = "press"
     /\ row' = IF noUser /\ p[s].cur THEN [row EXCEPT !.user = 0] ELSE row
     /\ p' = [p EXCEPT ![s].mem = mem, ![s].at = "update"]
     /\ UNCHANGED <<thread, snap, routes, userRoutes, card, lock, sent, spent>>

(***************************************************************************)
(* Under panelMu.                                                          *)
(***************************************************************************)
Done(s) == /\ p' = [p EXCEPT ![s] = Idle]
           /\ lock' = IF lock = s THEN Nobody ELSE lock

\* The lock, and the repair of the row this view leaves behind.
Lock(s) ==
  /\ p[s].at = "lock" /\ lock = Nobody /\ lock' = s
  /\ p' = IF Superseded(row, p[s].view) /\ ~Recorded(row, Text(row.turn))
          THEN [p EXCEPT ![s].at = "send", ![s].fin = Text(row.turn), ![s].mem = row, ![s].cur = TRUE]
          ELSE [p EXCEPT ![s].at = "ensure"]
  /\ UNCHANGED <<thread, stored, card, sent, spent>>

Replaces(s) == NeedsRow(row, p[s].view) \/ (p[s].force /\ row.turn # p[s].view.turn)

\* createCurrentPanel: the user card, unless it is out ...
Creates(s) == p[s].at = "resend" \/ (p[s].at = "ensure" /\ Replaces(s))
SendNotice(s) ==
  LET t == p[s].view.turn
      user == NeedsUserCard(NoRow, t)
      mem == [NoRow EXCEPT !.turn = t, !.status = p[s].view.status, !.user = IF t \in marked THEN 0 ELSE t]
  IN /\ Creates(s)
     /\ notices' = IF user THEN [notices EXCEPT ![t] = More(@)] ELSE notices
     /\ p' = [p EXCEPT ![s].mem = mem,
                       ![s].at = IF @ = "resend" THEN IF user THEN "renote" ELSE "recards"
                                 ELSE IF user THEN "note" ELSE "cards"]
     /\ UNCHANGED <<thread, stored, card, lock, finals, progress, spent>>

\* ... and its route ...
RouteNotice(s) ==
  /\ p[s].at \in {"note", "renote"} /\ Goto(s, IF p[s].at = "note" THEN "cards" ELSE "recards")
  /\ userRoutes' = userRoutes \cup {p[s].view.turn}
  /\ UNCHANGED <<thread, snap, row, routes, card, lock, sent, spent>>

\* ... the progress card ...
SendCards(s) ==
  /\ p[s].at \in {"cards", "recards"} /\ Goto(s, IF p[s].at = "cards" THEN "create" ELSE "recreate")
  /\ progress' = [progress EXCEPT ![p[s].view.turn] = More(@)]
  /\ UNCHANGED <<thread, stored, card, lock, finals, notices, spent>>

\* ... and then the row.
CreateRow(s) ==
  /\ p[s].at \in {"create", "recreate"}
  /\ row' = p[s].mem /\ card' = Shown(p[s].mem)
  /\ p' = [q \in Procs |->
             IF q = s THEN [p[s] EXCEPT !.cur = TRUE, !.at = IF @ = "create" THEN "update" ELSE "reupdate"]
             ELSE [p[q] EXCEPT !.cur = FALSE]]
  /\ UNCHANGED <<thread, snap, routes, userRoutes, lock, sent, spent>>

\* The row stays; most syncs end here.
KeepRow(s) ==
  LET v == p[s].view IN
  /\ p[s].at = "ensure" /\ ~Replaces(s)
  /\ IF Settled(row, v) \/ (LegacyReplay(row, v) /\ Recorded(row, Text(v.turn)))
     THEN Done(s)
     ELSE /\ p' = [p EXCEPT ![s].mem = row, ![s].cur = TRUE,
                            ![s].at = IF LegacyReplay(row, v) THEN "final" ELSE "update"]
          /\ UNCHANGED lock
  /\ UNCHANGED <<thread, stored, card, sent, spent>>

\* updateCurrentPanel, also called by the button: a turn without its user card gets
\* one; a row that has a user card keeps it, and the card is rewritten for the turn ...
UpdateNotice(s) ==
  LET v == p[s].view IN
  /\ p[s].at \in {"update", "reupdate"} /\ NeedsUserCard(p[s].mem, v.turn)
  /\ Goto(s, IF p[s].at = "update" THEN "upnote" ELSE "reupnote")
  /\ notices' = IF p[s].mem.user = 0 THEN [notices EXCEPT ![v.turn] = More(@)] ELSE notices
  /\ UNCHANGED <<thread, stored, card, lock, finals, progress, spent>>

\* ... its route and the row's user card are recorded ...
RecordNotice(s) ==
  LET t == p[s].view.turn IN
  /\ p[s].at \in {"upnote", "reupnote"} /\ userRoutes' = userRoutes \cup {t}
  /\ p' = [p EXCEPT ![s].mem.user = t, ![s].at = IF @ = "upnote" THEN "update" ELSE "reupdate"]
  /\ row' = IF p[s].cur THEN [row EXCEPT !.user = t] ELSE row
  /\ UNCHANGED <<thread, snap, routes, card, lock, sent, spent>>

\* ... and the progress card and the row follow the view.
Update(s) ==
  LET v == p[s].view
      mem == p[s].mem
      owner == IF v.turn \in userRoutes /\ v.turn \notin marked THEN v.turn ELSE mem.user
  IN /\ p[s].at \in {"update", "reupdate"} /\ ~NeedsUserCard(mem, v.turn)
     /\ card' = IF p[s].cur /\ Shown(mem) # [turn |-> v.turn, status |-> v.status]
                THEN [turn |-> v.turn, status |-> v.status] ELSE card
     /\ row' = IF ~p[s].cur THEN row
               ELSE [RowAfterUpdate(row, v) EXCEPT !.fp = mem.fp, !.user = IF owner # mem.user THEN owner ELSE @]
     /\ p' = [p EXCEPT ![s].mem = [RowAfterUpdate(mem, v) EXCEPT !.user = owner], ![s].at = "final"]
     /\ UNCHANGED <<thread, snap, routes, userRoutes, lock, sent, spent>>

\* maybeRenderFinalCard, up to its check.  A turn that has just completed without
\* an answer is given three seconds.
Decide(s) ==
  LET v == p[s].view
      f == IF Answered(v) THEN Text(v.turn) ELSE Gap(v.turn)
  IN /\ p[s].at = "final"
     /\ \/ /\ ~Ended(v) \/ Recorded(p[s].mem, f) \/ ~Answered(v)
           /\ Done(s)
        \/ /\ Ended(v) /\ ~Recorded(p[s].mem, f)
           /\ p' = [p EXCEPT ![s].at = "send", ![s].fin = f] /\ UNCHANGED lock
     /\ UNCHANGED <<thread, stored, card, sent, spent>>

\* The final card is sent ...
SendFinal(s) ==
  /\ p[s].at = "send" /\ Goto(s, "record")
  /\ finals' = [finals EXCEPT ![p[s].fin] = More(@)]
  /\ UNCHANGED <<thread, stored, card, lock, progress, notices, spent>>

\* ... and then its route and the row are written; a repair goes on with the sync.
RecordFinal(s) ==
  LET f == p[s].fin IN
  /\ p[s].at = "record"
  /\ routes' = routes \cup {f}
  /\ row' = IF p[s].cur THEN RowAfterFinal(row, f) ELSE row
  /\ IF f[1] # p[s].view.turn
     THEN p' = [p EXCEPT ![s].at = "ensure", ![s].fin = NoFinal] /\ UNCHANGED lock
     ELSE Done(s)
  /\ UNCHANGED <<thread, snap, userRoutes, card, sent, spent>>

(***************************************************************************)
(* A Feishu call fails: a sync that cannot edit its card sends a new one,  *)
(* anything else gives up; so does the user card of an answered turn.      *)
(***************************************************************************)
AfterFailure(s) == IF p[s].at = "update" /\ lock = s THEN "resend" ELSE "idle"

Fault(s) ==
  /\ faults < MaxFaults /\ faults' = faults + 1
  /\ p[s].at \in {"update", "cards", "recards", "reupdate", "send"} \/ Creates(s)
  /\ \/ AfterFailure(s) # "idle" /\ Goto(s, AfterFailure(s)) /\ UNCHANGED lock
     \/ /\ AfterFailure(s) = "idle" \/ (Answered(p[s].view) /\ NeedsUserCard(p[s].mem, p[s].view.turn))
        /\ Done(s)
  /\ UNCHANGED <<thread, stored, card, sent, crashes, presses>>

Crash ==
  /\ crashes < MaxCrashes /\ crashes' = crashes + 1
  /\ p' = [s \in Procs |-> Idle] /\ lock' = Nobody
  /\ UNCHANGED <<thread, stored, card, sent, faults, presses>>

Step(s) == \/ Mark(s) \/ Read(s) \/ Store(s) \/ Seed(s) \/ Load(s) \/ Choose(s) \/ Redraw(s)
           \/ SendNotice(s) \/ RouteNotice(s) \/ SendCards(s) \/ CreateRow(s) \/ KeepRow(s)
           \/ UpdateNotice(s) \/ RecordNotice(s) \/ Update(s) \/ Decide(s) \/ SendFinal(s) \/ RecordFinal(s)

Next == \/ UserTurn \/ TurnEnds \/ AnswerAppears \/ Crash
        \/ \E s \in Procs : Poll(s) \/ ChatTurn(s) \/ Press(s) \/ Lock(s) \/ Step(s) \/ Fault(s)

Spec == Init /\ [][Next]_vars

(***************************************************************************)
(* The loops keep ticking and Go's mutex does not starve a waiter.         *)
(***************************************************************************)
Fairness == /\ \A s \in Procs : WF_vars(Step(s)) /\ SF_vars(Lock(s))
            /\ \A s \in Loops : WF_vars(Poll(s))
FairSpec == Spec /\ Fairness

(***************************************************************************)
(* Properties.                                                             *)
(***************************************************************************)
Quiet == \A s \in Procs : p[s].at = "idle"

\* Every value is one the code can hold, and whoever is past the lock holds it.
TypeOK ==
  /\ codex \in Views /\ snap \in Views /\ row \in Rows /\ card \in [turn : 0..MaxTurns, status : {"none", "inProgress", "completed"}]
  /\ fromChat \subseteq Turns /\ marked \subseteq fromChat
  /\ routes \subseteq Finals /\ userRoutes \subseteq Turns /\ lock \in Procs \cup {Nobody}
  /\ p \in [Procs -> States]
  /\ \A s \in Procs : p[s].at \in {"ensure", "note", "cards", "create", "resend", "renote", "recards", "recreate", "reupdate",
                              "reupnote"} => lock = s
  /\ lock # Nobody => p[lock].at \notin Outside
  /\ finals \in [Finals -> 0..2] /\ progress \in [Turns -> 0..2] /\ notices \in [Turns -> 0..2]

\* A final card is sent once, however many loops see the turn end and whatever they have
\* stored over each other (panelMu, finalCardAlreadyRecorded), unless the program stopped
\* before it was recorded or Refresh was pressed, which writes cards without panelMu.
FinalOnce == \A f \in Finals : finals[f] > 1 => crashes + presses > 0

\* The user card of a turn is sent once, by whichever sync comes first (panelMu,
\* FindMessageRouteByEvent before each send), with the same two exceptions.
NoticeOnce == \A t \in Turns : notices[t] > 1 => crashes + presses > 0

\* The chat gets each card once.
SentOnce == FinalOnce /\ NoticeOnce

\* One goroutine read the thread so far: what it draws is what it stored last.
Sole == (\A r, s \in Loops : r = s) /\ fromChat = {} /\ presses = 0

\* A single reader sends a turn's progress card once, unless a call failed or the program
\* stopped (panelNeedsRefresh).
ProgressOnce == Sole => \A t \in Turns : progress[t] > 1 => faults + crashes > 0

\* Once a turn's final card is out and nothing is being synced, its card is not running.
CardAfterFinal == Sole /\ Quiet /\ row.fp # NoFinal /\ row.fp[1] = row.turn => card.status # "inProgress"

\* What a single reader draws is drawn once and ends as it should.
SoleReaderDraws == ProgressOnce /\ CardAfterFinal

\* A sync or a press that ends by itself, early or not, leaves the answer of its view in
\* the chat.
AnswerIsOut ==
  \A s \in Procs : /\ p[s].at \in {"ensure", "final", "record"} /\ p'[s].at = "idle"
                   /\ faults' = faults /\ crashes' = crashes /\ Answered(p[s].view)
                   => Text(p[s].view.turn) \in routes'
SyncShowsAnswer == [][AnswerIsOut]_vars

\* A row is not replaced before the answer of its turn is out, when the turn was seen to
\* end without one and the new view has it (repairSupersededFinalCard), unless Refresh was
\* pressed, which redraws the row without panelMu.
SupersededShown ==
  [][presses = 0 => \A s \in Procs :
                       /\ p[s].at \in {"create", "recreate"} /\ row' = p[s].mem /\ row'.turn # row.turn
                       /\ row.turn \in p[s].view.texts /\ Ended(row) /\ ~row.carded
                       => Text(row.turn) \in routes]_vars

\* The answer of the last turn gets to the chat (the loops keep syncing the thread).
LastAnswerShown == (codex.turn = MaxTurns /\ Answered(codex)) ~> (Text(MaxTurns) \in routes)
=============================================================================
