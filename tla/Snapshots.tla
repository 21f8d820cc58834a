------------------------------ MODULE Snapshots -------------------------------
(***************************************************************************)
(* The snapshot of a thread (internal/appserver/normalize.go, live_event.go*)
(* and state_history.go; applyLiveToolSnapshot and its helpers, pollTracked*)
(* and handleLiveEvent in internal/daemon/service.go): Codex writes items, *)
(* the poll loop and the live loop read the thread, fold it and store the  *)
(* result in one row, and the live loop puts tool events on top.           *)
(*                                                                         *)
(* No loop holds a lock: the row a read is put into is not the row there   *)
(* was when the read was made, and a tool event is put on a row read       *)
(* before.  Approvals and the gate on interrupted turns are in Approvals   *)
(* and TerminalGate.                                                       *)
(***************************************************************************)
EXTENDS Naturals, Sequences, Lists

CONSTANTS
  Modes,             \* how the thread is observed, those to try (see Follows)
  Bare,              \* thread/read answers turns without items, as recent builds do
  MaxTurns, MaxItems \* bounds: turns, items of a turn after the user's

ASSUME SnapshotsAssumption ==
  /\ Modes \subseteq {"followed", "watched", "polled"} /\ Bare \in BOOLEAN
  /\ MaxTurns \in Nat \ {0, 1} /\ MaxItems \in Nat

Loops == {"poll", "live"}
NoItem == 0

VARIABLES
  mode,    \* of Modes
  turns,   \* Codex: sequence of [items, status]
  hist,    \* the turns as the history database has them, which lags
  events,  \* the live channel: tool events [turn, tool, done]
  row,     \* the stored snapshot
  shown,   \* what the panel shows
  loop     \* Loops -> [at, event, before, read, prev, alone]
snapVars == <<mode, turns, hist, events, row, shown, loop>>
codex == <<mode, turns, hist, events>>

\* A chat follows the thread and its turns come from there; otherwise the chat is told of changes,
\* with or without live events from the app-server.
Follows == mode = "followed"

\* ThreadReadSnapshot and the columns of thread_snapshots; turn 0 is no snapshot.
Blank == [turn |-> 0, status |-> "none", tool |-> NoItem, done |-> FALSE, live |-> FALSE, by |-> "read",
          final |-> NoItem, details |-> <<>>, completion |-> <<>>]
Resting == [at |-> "idle", event |-> <<>>, before |-> Blank, read |-> Blank, prev |-> Blank, alone |-> TRUE]
\* An answered turn the panel shows already (the first read of a thread is only a baseline); where
\* live events arrive, the next turn has used a tool and the loops are behind.
Item(n, k, kind) == [turn |-> n, item |-> k, kind |-> kind, done |-> kind # "tool"]
Used(n) == <<[turn |-> n, tool |-> 2, done |-> FALSE], [turn |-> n, tool |-> 2, done |-> TRUE]>>
SnapInit ==
  LET said == <<Item(1, 1, "user"), Item(1, 2, "final")>>
      ended == [items |-> said, status |-> "completed"]
      used == <<Item(2, 1, "user"), [Item(2, 2, "tool") EXCEPT !.done = TRUE]>>
      busy == [items |-> IF Follows THEN used ELSE Append(used, Item(2, 3, "say")), status |-> "inProgress"]
  IN
  /\ mode \in Modes
  /\ turns = IF mode = "polled" THEN <<ended>> ELSE <<ended, busy>>
  /\ events = IF mode = "polled" THEN <<>> ELSE Used(2)
  /\ hist = <<ended>>
  /\ row = [Blank EXCEPT !.turn = 1, !.status = "completed", !.final = 2, !.details = said,
                         !.completion = <<1, "completed">>]
  /\ shown = row /\ loop = [l \in Loops |-> Resting]

(***************************************************************************)
(* Codex.                                                                  *)
(***************************************************************************)
Latest == Len(turns)
Running == Latest > 0 /\ turns[Latest].status = "inProgress"
Items(n) == turns[n].items
OpenTools(n) == {k \in DOMAIN Items(n) : Items(n)[k].kind = "tool" /\ ~Items(n)[k].done}
Added(n, kind) == [turns EXCEPT ![n].items = Append(@, Item(n, Len(@) + 1, kind))]
StartTurn ==
  /\ ~Running /\ Latest < MaxTurns
  /\ turns' = Append(turns, [items |-> <<Item(Latest + 1, 1, "user")>>, status |-> "inProgress"])
  /\ UNCHANGED <<mode, hist, events, row, shown, loop>>
Say ==
  /\ Running /\ Len(Items(Latest)) <= MaxItems /\ turns' = Added(Latest, "say")
  /\ UNCHANGED <<mode, hist, events, row, shown, loop>>
StartTool ==
  /\ Running /\ Len(Items(Latest)) <= MaxItems /\ OpenTools(Latest) = {}
  /\ turns' = Added(Latest, "tool")
  /\ events' = Append(events, [turn |-> Latest, tool |-> Len(Items(Latest)) + 1, done |-> FALSE])
  /\ UNCHANGED <<mode, hist, row, shown, loop>>
FinishTool ==
  /\ Running
  /\ \E k \in OpenTools(Latest) :
       /\ turns' = [turns EXCEPT ![Latest].items[k].done = TRUE]
       /\ events' = Append(events, [turn |-> Latest, tool |-> k, done |-> TRUE])
  /\ UNCHANGED <<mode, hist, row, shown, loop>>
\* With an answer, without one, or interrupted.
EndTurn ==
  /\ Running
  /\ \/ /\ OpenTools(Latest) = {}
        /\ \/ turns' = [Added(Latest, "final") EXCEPT ![Latest].status = "completed"]
           \/ turns' = [turns EXCEPT ![Latest].status = "completed"]
     \/ turns' = [turns EXCEPT ![Latest].status = "interrupted"]
  /\ UNCHANGED <<mode, hist, events, row, shown, loop>>
\* The projection into the database follows.
Project ==
  /\ Latest > 0 /\ hist' = turns
  /\ UNCHANGED <<mode, turns, events, row, shown, loop>>
\* The connection is lost and with it the events on it (Sessions).
Disconnect ==
  /\ events # <<>> /\ events' = <<>> /\ UNCHANGED <<mode, turns, hist, row, shown, loop>>

(***************************************************************************)
(* Reading a thread.                                                       *)
(***************************************************************************)
\* Mutants (see PROJECT.json).
OfTurn_Any(current, n) == TRUE

\* readTurnItemsFromRollout.  In the file a task_started line opens a turn; its messages follow
\* without the turn's id and its finished items with it.
OfTurn(current, n) == current \in {0, n}
RolloutItems(n) ==
  LET In(m, it) == IF it.kind = "tool" THEN m = n /\ it.done ELSE OfTurn(m, n)
      Of(m) == Chosen(Items(m), {k \in DOMAIN Items(m) : In(m, Items(m)[k])})
      upTo[m \in 0..Latest] == IF m = 0 THEN <<>> ELSE upTo[m - 1] \o Of(m)
  IN upTo[Latest]
Spoken(items) == {k \in DOMAIN items : items[k].kind \in {"say", "final"}}
LastOf(set) == IF set = {} THEN NoItem ELSE CHOOSE k \in set : \A o \in set : o <= k
\* markFinalAgentItem: the last message of a completed turn is its answer if none is marked.
Marked(items, status) ==
  IF status = "completed" /\ Spoken(items) # {} /\ \A k \in Spoken(items) : items[k].kind # "final"
  THEN [items EXCEPT ![LastOf(Spoken(items))].kind = "final"] ELSE items
\* HydrateThreadReadItems: the database, else the rollout file.
HistoryItems(n) == IF n \in DOMAIN hist THEN hist[n].items ELSE <<>>
Hydrated(n) ==
  IF ~Bare THEN Items(n)
  ELSE Marked(IF HistoryItems(n) # <<>> THEN HistoryItems(n) ELSE RolloutItems(n), turns[n].status)

Terminal(status) == status \in {"completed", "interrupted"}
Tools(items) == {k \in DOMAIN items : items[k].kind = "tool"}
Finals(items) == {k \in DOMAIN items : items[k].kind = "final"}
IdOf(items, k) == IF k = NoItem THEN NoItem ELSE items[k].item
\* SnapshotFromThreadRead, normalizeFinalizedTurn
Fold(n, status, items) ==
  LET tool == LastOf(Tools(items)) final == LastOf(Finals(items)) IN
  [Blank EXCEPT !.turn = n, !.details = items,
                !.status = IF final # NoItem /\ ~Terminal(status) THEN "completed" ELSE status,
                !.tool = IdOf(items, tool), !.done = tool # NoItem /\ items[tool].done,
                !.final = IdOf(items, final)]
\* reconcileTurnResult: what the database says of the turn wins.
Reconciled(snap) ==
  IF snap.turn \notin DOMAIN hist
  THEN IF snap.status # "interrupted" THEN snap ELSE [snap EXCEPT !.status = "inProgress", !.final = NoItem]
  ELSE LET stored == hist[snap.turn] IN
       [snap EXCEPT !.status = stored.status,
                    !.final = IF stored.status = "inProgress" THEN NoItem
                              ELSE IdOf(stored.items, LastOf(Finals(stored.items)))]

(***************************************************************************)
(* The row.                                                                *)
(***************************************************************************)
\* latestToolDetailIndex
Place(items, n, tool) ==
  LastOf({k \in DOMAIN items : items[k].kind = "tool" /\ items[k].turn = n /\ items[k].item = tool})
\* upsertLiveToolDetails
Upserted(items, new) ==
  Chosen(items, {i \in DOMAIN items : \A k \in DOMAIN new :
                   <<new[k].turn, new[k].item>> # <<items[i].turn, items[i].item>>}) \o new
\* shouldPreserveChatOriginLiveCurrentTool
KeepsTool(cur, prev) ==
  \/ cur.tool = NoItem
  \/ cur.tool = prev.tool /\ ~cur.done
  \/ /\ cur.tool # prev.tool /\ Place(prev.details, prev.turn, cur.tool) # NoItem
     /\ Place(prev.details, prev.turn, cur.tool) < Place(prev.details, prev.turn, prev.tool)
\* preserveChatOriginLiveCurrentTool: the tool of a live event outlives a read that lags.
Preserved(cur, prev) ==
  IF /\ Follows /\ ~Terminal(cur.status) /\ cur.turn = prev.turn
     /\ prev.live /\ ~prev.done /\ ~Terminal(prev.status) /\ KeepsTool(cur, prev)
  THEN [cur EXCEPT !.tool = prev.tool, !.done = prev.done, !.live = prev.live, !.by = prev.by,
                   !.details = Upserted(@, Chosen(prev.details, Tools(prev.details)))]
  ELSE cur
\* CompactSnapshot
Compact(prev, cur) ==
  [cur EXCEPT !.completion = IF Terminal(cur.status) THEN <<cur.turn, cur.status>> ELSE prev.completion]

ProgressFP(snap) == IF snap.tool = NoItem THEN <<>> ELSE <<snap.by, snap.turn, snap.tool, snap.done>>
FinalFP(snap) == IF snap.final = NoItem THEN <<>> ELSE <<snap.turn, snap.final>>
Completes_Answered(prev, cur) == cur.final # NoItem
\* DiffSnapshot's turn_completed
Completes(prev, cur) == Terminal(cur.status) /\ prev.completion # <<cur.turn, cur.status>>
\* interruptedVisibleStateChanged
InterruptedDiffers(prev, cur) ==
  /\ cur.status = "interrupted" /\ cur.final = NoItem
  /\ <<prev.status, ProgressFP(prev), prev.details>> # <<cur.status, ProgressFP(cur), cur.details>>
\* snapshotHasPassiveChange, DiffSnapshot
Changed(prev, cur) ==
  IF prev.turn = 0 THEN cur.status = "inProgress"
  ELSE \/ cur.turn # prev.turn
       \/ ProgressFP(cur) # <<>> /\ ProgressFP(cur) # ProgressFP(prev)
       \/ FinalFP(cur) # <<>> /\ FinalFP(cur) # FinalFP(prev)
       \/ Completes(prev, cur) \/ InterruptedDiffers(prev, cur)

(***************************************************************************)
(* The loops.                                                              *)
(***************************************************************************)
At(l, place) == loop[l].at = place
Step(l, place) == loop' = [loop EXCEPT ![l].at = place]

\* handleLiveEvent; an event of a thread that neither looks active nor has to catch up is dropped.
Take ==
  /\ At("live", "idle") /\ mode # "polled" /\ events # <<>> /\ events' = Tail(events)
  /\ \/ loop' = [loop EXCEPT !["live"] = [Resting EXCEPT !.at = "read", !.event = <<Head(events)>>,
                                                        !.before = IF Follows THEN Blank ELSE row]]
     \/ row.status # "inProgress" /\ UNCHANGED loop
  /\ UNCHANGED <<mode, turns, hist, row, shown>>
ReadThread(l) ==
  /\ At(l, IF l = "poll" THEN "idle" ELSE "read") /\ Latest > 0
  /\ \E items \in {Hydrated(Latest)} :
       loop' = [loop EXCEPT ![l].at = "store", ![l].read = Fold(Latest, turns[Latest].status, items)]
  /\ UNCHANGED <<codex, row, shown>>
\* The poll loop syncs a thread that is followed, and one that has changed in what the chat sees.
Store(l) ==
  /\ At(l, "store")
  /\ \E cur \in {Preserved(Reconciled(loop[l].read), row)} :
     /\ row' = Compact(row, cur)
     /\ loop' = [k \in Loops |->
                   IF k # l THEN [loop[k] EXCEPT !.alone = ~At(k, "put")]
                   ELSE IF l = "live" THEN [loop[l] EXCEPT !.at = "tool", !.read = Blank]
                   ELSE IF Follows \/ Changed(row, cur) THEN [Resting EXCEPT !.at = "sync"]
                   ELSE Resting]
  /\ UNCHANGED <<codex, shown>>

\* applyLiveToolSnapshot
LookTool ==
  /\ At("live", "tool") /\ loop' = [loop EXCEPT !["live"] = [@ EXCEPT !.at = "put", !.prev = row, !.alone = TRUE]]
  /\ UNCHANGED <<codex, row, shown>>
OtherTurn(cur, e) == cur.turn # e.turn /\ cur.turn # 0 /\ (~Terminal(cur.status) \/ e.turn < cur.turn)
Older(cur, e) ==
  /\ Place(cur.details, e.turn, e.tool) # NoItem
  /\ Place(cur.details, e.turn, e.tool) < Place(cur.details, cur.turn, cur.tool)
Stale_OtherTurn(cur, e) == OtherTurn(cur, e) \/ (cur.turn = e.turn /\ Terminal(cur.status) /\ cur.final # NoItem)
Stale(cur, e) ==
  \/ OtherTurn(cur, e)
  \/ /\ cur.turn = e.turn
     /\ \/ Terminal(cur.status) /\ cur.final # NoItem
        \/ Older(cur, e)
        \/ cur.tool = e.tool /\ cur.done /\ ~e.done
WithTool(cur, e) ==
  [cur EXCEPT !.turn = e.turn, !.status = "inProgress", !.tool = e.tool, !.done = e.done, !.live = ~e.done,
              !.by = "live", !.details = Upserted(@, <<[Item(e.turn, e.tool, "tool") EXCEPT !.done = e.done]>>)]
PutTool ==
  /\ At("live", "put")
  /\ LET cur == loop["live"].prev e == Head(loop["live"].event) IN
     IF Stale(cur, e)
     THEN UNCHANGED row /\ Step("live", "compare")
     ELSE /\ row' = Compact(cur, WithTool(cur, e))
          /\ Step("live", "compare")
  /\ UNCHANGED <<codex, shown>>
LiveCompares ==
  /\ At("live", "compare")
  /\ loop' = [loop EXCEPT !["live"] =
       IF Follows \/ Changed(@.before, row) THEN [Resting EXCEPT !.at = "sync"] ELSE Resting]
  /\ UNCHANGED <<codex, row, shown>>
\* syncThreadPanel loads the row again.
Sync(l) ==
  /\ At(l, "sync") /\ shown' = row /\ loop' = [loop EXCEPT ![l] = Resting]
  /\ UNCHANGED <<codex, row>>

CodexStep == StartTurn \/ Say \/ StartTool \/ FinishTool \/ EndTurn
LoopStep(l) == ReadThread(l) \/ Store(l) \/ Sync(l)
SnapNext ==
  \/ CodexStep \/ Project \/ Disconnect
  \/ LoopStep("poll")
  \/ Take \/ LoopStep("live") \/ LookTool \/ PutTool \/ LiveCompares
SnapSpec == SnapInit /\ [][SnapNext]_snapVars

(***************************************************************************)
(* Properties.                                                             *)
(***************************************************************************)
\* What a read makes of a thread holds items of its turn only, in the order they were written and
\* each once, though the database lags and the rollout file is read for all turns
\* (readTurnItemsFromRollout).
ReadsItsTurn ==
  \A l \in Loops :
    At(l, "store") =>
      LET items == loop[l].read.details IN
      \A j, k \in DOMAIN items : items[j].turn = loop[l].read.turn /\ (j < k => items[j].item < items[k].item)

\* The answer a read puts into the row is the last thing said in a turn that has completed
\* (markFinalAgentItem, ApplyTurnResult).
FinalIsFinal ==
  [][\A l \in Loops : (Store(l) /\ row'.final # NoItem) =>
       LET said == Items(row'.turn) IN
       turns[row'.turn].status = "completed" /\ row'.final = IdOf(said, LastOf(Spoken(said)))]_snapVars

\* The details of the row list an item once, whatever reads and events were merged
\* (upsertLiveToolDetails).
ListedOnce ==
  \A j, k \in DOMAIN row.details :
    (row.details[j].turn = row.details[k].turn /\ row.details[j].item = row.details[k].item) => j = k

\* What is read and what is stored lists the items of one turn, each once.
ItemsInOrder == ReadsItsTurn /\ ListedOnce

\* An event that comes late undoes nothing: unless the other loop wrote the row while it was
\* applied, a finished tool does not run again, an earlier tool does not replace a later one and
\* an answered turn is not reopened (applyLiveToolSnapshot).
LateEventHarmless ==
  [][(PutTool /\ loop["live"].alone /\ row'.turn = row.turn) =>
       /\ row'.tool >= row.tool /\ (row'.tool = row.tool /\ row.done => row'.done)
       /\ row.final # NoItem /\ Terminal(row.status) => row' = row]_snapVars

\* No write makes the row say what is not so.
RowIsRight == FinalIsFinal /\ LateEventHarmless

\* When Codex has ended its last turn the row ends by holding how: no stale read, late event or
\* tool kept from one stays (reconcileTurnResult, preserveChatOriginLiveCurrentTool).
Ended == Latest = MaxTurns /\ ~Running
Visible(snap) == <<snap.turn, snap.status, snap.final, snap.tool, snap.done>>
EndIsHeld == <>[](Ended => Visible(row) = Visible(Fold(Latest, turns[Latest].status, Items(Latest))))

\* And the panel ends by showing it, in a chat that follows the thread and, where no live
\* event interferes, in one that is only told of changes (snapshotHasPassiveChange).
EndIsShown ==
  <>[](Ended /\ mode # "watched" =>
         /\ shown.turn = row.turn /\ shown.status = row.status
         /\ row.final \in {NoItem, shown.final})

\* So the chat sees how the last turn ended.
EndReachesPanel == EndIsHeld /\ EndIsShown
=============================================================================
