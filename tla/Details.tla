------------------------------- MODULE Details -------------------------------
(***************************************************************************)
(* The cards of a thread's turns (daemon/details.go, daemon/panels.go):    *)
(* the log card with the newest entries of a turn, the final card, and the *)
(* details view a reader opens on the final card, pages through, and       *)
(* leaves again.  A press is answered from the stored row of the thread,   *)
(* which keeps the latest turn whole and older turns cut down, and the     *)
(* card is edited later: two presses may be answered at once.              *)
(*                                                                         *)
(* An item of a turn is its kind; what a text says is left out, only       *)
(* whether one entry alone is too long for a log card ("longsay").         *)
(***************************************************************************)
EXTENDS Integers, FiniteSets, SequencesExt, Lists

CONSTANTS
  Scenes,     \* what Codex does: whether thread/read comes without items, as in
              \* recent versions, the kinds of items the thread has, and the bounds
              \* on its turns and on the items of all turns, the answers aside
  PageSize,   \* detailsPageSize (4)
  Kept,       \* maxCompactSnapshotTurns (6)
  KeptItems,  \* maxCompactSnapshotItems (80)
  MaxLog,     \* summaryLogMaxItems (30)
  Limit,      \* summaryLogLimit, in entries' worth of text
  MaxPresses, \* bound: presses in flight
  MaxOpen     \* bound: cards whose details are open

ASSUME DetailsAssumption ==
  /\ Scenes \subseteq [bare : BOOLEAN, kinds : SUBSET {"say", "longsay", "plan", "tool", "compact"},
                      turns : Nat, items : Nat]
  /\ {PageSize, Kept, KeptItems, MaxLog, Limit, MaxPresses, MaxOpen} \subseteq Nat \ {0}

VARIABLES
  scene,    \* the one of Scenes
  turns,    \* Codex: the turns of the thread, each with its items and status
  row,      \* the stored row: the latest turn whole, the kept turns cut down
  panels,   \* thread_panels of the chat, with the log card and the final card of each
  presses,  \* callbacks on their way to the service
  outbox,   \* edits of final cards and files, rendered and not sent to Feishu yet
  planOff   \* thread_collaboration_override

detailVars == <<scene, turns, row, panels, presses, outbox, planOff>>

Larger(x, y) == IF x < y THEN y ELSE x
Smaller(x, y) == IF x < y THEN x ELSE y
Clamp(x, low, high) == Larger(low, Smaller(x, high))

-----------------------------------------------------------------------------
(* The items of a turn and the sections of its details                     *)

Agent == {"say", "longsay"}
Positions(items, kinds) == {k \in DOMAIN items : items[k] \in kinds}
\* A tool call belongs to the commentary, or the plan, it follows.
CommentaryIndex(items, k) == Cardinality({j \in Positions(items, Agent \cup {"plan"}) : j <= k})
ToolsAt(items, index) == {k \in Positions(items, {"tool"}) : CommentaryIndex(items, k) = index}

\* A turn without commentary shows its last three agent messages instead.
Commentaries(items) ==
  LET said == Positions(items, Agent)
      spoken == Positions(items, Agent \cup {"plan", "final"})
  IN IF said # {} THEN Chosen([i \in 1..Len(items) |-> i], {CommentaryIndex(items, k) : k \in said})
     ELSE [i \in 1..Smaller(3, Cardinality(spoken)) |-> i]
Sections(items) ==
  (IF ToolsAt(items, 0) # {} THEN <<0>> ELSE <<>>) \o Commentaries(items)

Pages(count) == (count + PageSize - 1) \div PageSize

FirstWithTools(items, page) ==
  LET sections == Sections(items)
      count == Len(sections)
      start == Clamp(page, 0, Larger(0, Pages(count) - 1)) * PageSize + 1
      with == {i \in start..Smaller(start + PageSize - 1, count) : ToolsAt(items, sections[i]) # {}}
  IN IF count = 0 THEN 1
     ELSE IF with # {} THEN CHOOSE i \in with : \A j \in with : i <= j
     ELSE Clamp(start, 1, count)

-----------------------------------------------------------------------------
(* The log card                                                            *)

Logged == Agent \cup {"tool", "compact"}
Cost(kind) == IF kind = "longsay" THEN Limit + 1 ELSE 1
\* What the entries `some` cost together.
Length(items, some) == Cardinality(some) + Limit * Cardinality({k \in some : items[k] = "longsay"})
\* Compactions are entries of the log and are not counted.
LogCount(items) == Cardinality(Positions(items, Logged \ {"compact"}))

\* What the log shows of the entries `some`: an entry too long by itself is skipped.
LogText(items, some) ==
  LET shown == {k \in some : Cost(items[k]) <= Limit}
      omits == \/ LogCount(items) > Cardinality(shown)
               \/ \E k \in Positions(items, Logged) : \A j \in shown : k < j
  IN [shown |-> shown,
      told  |-> shown # {} /\ omits,
      size  |-> IF shown = {} THEN 0
                ELSE Length(items, shown) + (IF LogCount(items) > 0 THEN 1 ELSE 0) + (IF omits THEN 1 ELSE 0)]

\* The newest entries, as many as fit.
LogShown(items) ==
  LET entries == Positions(items, Logged)
      Newest(k) == {j \in entries : j >= k}
      texts == {LogText(items, Newest(k)) : k \in {j \in entries : Cardinality(Newest(j)) <= MaxLog}}
      fit == {text \in texts : text.size <= Limit}
  IN IF fit = {} THEN [shown |-> {}, told |-> entries # {}, size |-> 0]
     ELSE CHOOSE text \in fit : \A other \in fit : other.shown \subseteq text.shown

Truncated_ByCount(items) == LogCount(items) > MaxLog
Truncated(items) ==
  \/ LogCount(items) > MaxLog
  \/ Length(items, Positions(items, Logged)) > Limit

\* An interrupted turn without an answer is shown as running.
DisplayEnded(turn) == turn.status = "completed" \/ (turn.status = "interrupted" /\ Positions(turn.items, {"final"}) # {})

DrawLog(turn) ==
  LET log == LogShown(turn.items)
  IN [hides |-> Positions(turn.items, Logged \ {"compact"}) \ log.shown # {},
      told  |-> log.told,
      ended |-> DisplayEnded(turn),
      file  |-> Truncated(turn.items) /\ DisplayEnded(turn)]

-----------------------------------------------------------------------------
(* What the service knows of the turns                                     *)

Terminal(turn) == turn.status # "active"
LastItems_First(items) == SubSeq(items, 1, Smaller(KeptItems, Len(items)))
LastItems(items) == SubSeq(items, Larger(1, Len(items) - KeptItems + 1), Len(items))

\* Without items, only those of the latest turn come from the history database;
\* there the last message of a completed turn is its answer.
Marked(turn) ==
  LET said == Positions(turn.items, Agent)
  IN IF turn.status = "completed" /\ Positions(turn.items, {"final"}) = {} /\ said # {}
     THEN [turn EXCEPT !.items[CHOOSE k \in said : \A j \in said : j <= k] = "final"] ELSE turn
Hydrated(ts) ==
  IF ~scene.bare THEN ts
  ELSE [n \in DOMAIN ts |-> IF n = Len(ts) THEN Marked(ts[n]) ELSE [ts[n] EXCEPT !.items = <<>>]]

Compact(ts) ==
  [n \in {m \in DOMAIN ts : m > Len(ts) - Kept} |-> [ts[n] EXCEPT !.items = LastItems(@)]]
NoRow == [latest |-> 0, turn |-> [items |-> <<>>, status |-> ""], older |-> <<>>]
Read(ts) == [latest |-> Len(ts), turn |-> ts[Len(ts)], older |-> Compact(ts)]

\* The turn a panel is about, of the row `r`: at most one.
Shown(r, n) ==
  IF r.latest = n THEN {[n |-> n, turn |-> r.turn]}
  ELSE {[n |-> m, turn |-> r.older[m]] : m \in DOMAIN r.older \cap {n}}

-----------------------------------------------------------------------------
(* Cards                                                                   *)

Answered(turn) == Terminal(turn) /\ Positions(turn.items, {"final"}) # {}
NoCard == [kind |-> "none"]
FinalCard(n, turn, incomplete) ==
  [kind |-> "final", n |-> n, answer |-> Answered(turn), incomplete |-> incomplete,
   planLike |-> Positions(turn.items, {"plan"}) # {} /\ ~planOff]
DetailsCard(n, turn, view) ==
  [kind |-> "details", n |-> n, sections |-> Len(Sections(turn.items)), view |-> view]

Opened == [page |-> 0, tool |-> FALSE, index |-> 0]
Button(p, act, view) == [panel |-> p, n |-> panels[p].card.n, act |-> act, view |-> view]
\* The buttons of a panel's cards.
CardButtons(p) ==
  LET card == panels[p].card
      of(acts, view) == {Button(p, act, view) : act \in acts}
  IN (CASE card.kind = "none" -> {}
        [] card.kind = "final" ->
             of({"details_open"} \cup (IF card.planLike THEN {"turn_off_plan"} ELSE {}), Opened)
        [] card.kind = "details" ->
             of({"details_prev", "details_next", "details_back", "details_tool_toggle"}
                \cup (IF card.view.tool THEN {"details_tools_file"} ELSE {}), card.view))
     \cup (IF panels[p].log.file THEN {[panel |-> p, n |-> panels[p].n, act |-> "full_log_file", view |-> Opened]} ELSE {})

\* The view after a press of `act`, of a turn with these items.
Moved(act, view, items) ==
  LET count == Len(Sections(items))
      by == IF act = "details_next" THEN 1 ELSE -1
  IN CASE act = "details_open" -> Opened
       [] act \in {"details_prev", "details_next"} /\ view.tool ->
            [view EXCEPT !.index = Clamp(@ + by, 1, Larger(1, count))]
       [] act \in {"details_prev", "details_next"} /\ ~view.tool ->
            [view EXCEPT !.page = Clamp(@ + by, 0, Larger(0, Pages(count) - 1))]
       [] act = "details_tool_toggle" ->
            [view EXCEPT !.tool = ~@,
                         !.index = IF ~view.tool /\ @ = 0 THEN FirstWithTools(items, view.page) ELSE @]
NewView(act, view, items) ==
  LET moved == Moved(act, view, items)
      count == Len(Sections(items))
  IN [moved EXCEPT !.page = Clamp(@, 0, Larger(0, Pages(count) - 1)),
                   !.index = IF moved.tool THEN Clamp(@, 1, Larger(1, count)) ELSE @]

-----------------------------------------------------------------------------
(* Codex and the polls                                                     *)

\* The items of a turn are all there when it is first read: that they come one
\* by one is the subject of Snapshots.
Begun(used) == {[items |-> items, status |-> "active"] : items \in SeqOf(scene.kinds, scene.items - used)}
Made == MapThenSumSet(LAMBDA n : Len(turns[n].items), DOMAIN turns)
Now == turns[Len(turns)]

DetailsInit ==
  /\ scene \in Scenes
  /\ \E turn \in Begun(0) : turns = <<turn>>
  /\ row = NoRow /\ panels = <<>> /\ presses = {} /\ outbox = {} /\ planOff = FALSE

EndTurn ==
  /\ Now.status = "active"
  /\ \E answer \in {<<>>, <<"final">>}, status \in {"completed", "interrupted"} :
       /\ answer # <<>> => status = "completed"
       /\ turns' = [turns EXCEPT ![Len(turns)] = [items |-> @.items \o answer, status |-> status]]
  /\ UNCHANGED <<scene, row, panels, presses, outbox, planOff>>
\* A turn started from Feishu uses up the override.
StartTurn ==
  /\ Now.status # "active" /\ Len(turns) < scene.turns
  /\ \E turn \in Begun(Made) : turns' = Append(turns, turn)
  /\ planOff' \in {planOff, FALSE}
  /\ UNCHANGED <<scene, row, panels, presses, outbox>>

\* The final card of a turn that ended before its card went out.
Superseded(ps, r) ==
  LET p == Len(ps)
  IN IF ps = <<>> THEN ps
     ELSE IF ps[p].n # r.latest /\ ps[p].ended /\ ps[p].card.kind = "none"
          THEN LET found == {s \in Shown(r, ps[p].n) : Answered(s.turn)}
               IN [ps EXCEPT ![p].card = IF found = {} THEN @ ELSE LET s == CHOOSE x \in found : TRUE IN FinalCard(s.n, s.turn, FALSE)]
          ELSE ps
\* The panel of the latest turn, a new one when the last one's turn has ended.
Drawn(ps, r) ==
  LET new == ps = <<>> \/ (ps[Len(ps)].n # r.latest /\ ps[Len(ps)].ended)
      card == IF new THEN NoCard ELSE ps[Len(ps)].card
      panel == [n |-> r.latest, ended |-> Terminal(r.turn), log |-> DrawLog(r.turn), card |-> card]
  IN IF new THEN Append(ps, panel) ELSE [ps EXCEPT ![Len(ps)] = panel]
WithFinal(ps, r) ==
  LET p == Len(ps)
  IN IF Terminal(r.turn) /\ ps[p].card.kind = "none"
     THEN [ps EXCEPT ![p].card = FinalCard(r.latest, r.turn, ~Answered(r.turn))] ELSE ps

\* A poll stores the row and syncs the panel; a failing send ends the sync where it is.
Poll(upTo) ==
  /\ row' = Read(Hydrated(turns))
  /\ LET repaired == Superseded(panels, row')
         drawn == Drawn(repaired, row')
     IN panels' = CASE upTo = "row" -> panels
                    [] upTo = "log" -> drawn
                    [] upTo = "card" -> WithFinal(drawn, row')
  /\ UNCHANGED <<scene, turns, presses, outbox, planOff>>

-----------------------------------------------------------------------------
(* Presses                                                                 *)

PressButton(p) ==
  /\ Cardinality(presses) + Cardinality(outbox) < MaxPresses
  /\ \E b \in CardButtons(p) :
       /\ b.act = "details_open" => Cardinality({q \in DOMAIN panels : panels[q].card.kind = "details"}) < MaxOpen
       /\ presses' = presses \cup {b}
  /\ UNCHANGED <<scene, turns, row, panels, outbox, planOff>>

Guarded(b) == panels[b.panel].n = b.n

Answer(b) ==
  /\ b.act \in {"details_open", "details_prev", "details_next", "details_tool_toggle", "details_back"}
  /\ presses' = presses \ {b}
  /\ outbox' = outbox \cup
       {[kind |-> "edit", panel |-> b.panel,
         card |-> IF b.act = "details_back" THEN FinalCard(s.n, s.turn, FALSE)
                   ELSE DetailsCard(s.n, s.turn, NewView(b.act, b.view, s.turn.items))]
        : s \in {x \in Shown(row, panels[b.panel].n) : Guarded(b)}}
  /\ UNCHANGED <<scene, turns, row, panels, planOff>>

TurnOffPlan(b) ==
  /\ b.act = "turn_off_plan"
  /\ presses' = presses \ {b}
  /\ LET shown == {x \in Shown(row, panels[b.panel].n) : Guarded(b)}
     IN /\ planOff' = (planOff \/ shown # {})
        /\ outbox' = outbox \cup
             {[kind |-> "edit", panel |-> b.panel, card |-> [FinalCard(s.n, s.turn, FALSE) EXCEPT !.planLike = FALSE]] : s \in shown}
  /\ UNCHANGED <<scene, turns, row, panels>>

\* The tools of the section the card names, if it has any.
SendToolsFile(b) ==
  /\ b.act = "details_tools_file"
  /\ presses' = presses \ {b}
  /\ LET Index(items) == IF b.view.index = 0 THEN 1 ELSE b.view.index
         HasText(items) == Index(items) <= Len(Sections(items))
     IN outbox' = outbox \cup {[kind |-> "tools", n |-> b.n, of |-> s.n] :
                              s \in {x \in Shown(row, panels[b.panel].n) : Guarded(b) /\ HasText(x.turn.items)}}
  /\ UNCHANGED <<scene, turns, row, panels, planOff>>

\* The whole log is that of the latest turn, whichever card it was asked from.
SendFullLog(b) ==
  /\ b.act = "full_log_file"
  /\ presses' = presses \ {b}
  /\ outbox' = outbox \cup (IF DisplayEnded(row.turn) THEN {[kind |-> "log", n |-> b.n, of |-> row.latest]} ELSE {})
  /\ UNCHANGED <<scene, turns, row, panels, planOff>>

Deliver(e) ==
  /\ outbox' = outbox \ {e}
  /\ panels' = IF e.kind = "edit" THEN [panels EXCEPT ![e.panel].card = e.card] ELSE panels
  /\ UNCHANGED <<scene, turns, row, presses, planOff>>

DetailsNext ==
  \/ EndTurn \/ StartTurn
  \/ \E upTo \in {"row", "log", "card"} : Poll(upTo)
  \/ \E p \in DOMAIN panels : PressButton(p)
  \/ \E b \in presses : Answer(b) \/ TurnOffPlan(b) \/ SendToolsFile(b) \/ SendFullLog(b)
  \/ \E e \in outbox : Deliver(e)

DetailsSpec == DetailsInit /\ [][DetailsNext]_detailVars

-----------------------------------------------------------------------------
(* Properties                                                              *)

\* Every tool call of a turn without plans is in one section of its details,
\* those before the first commentary included.
EveryToolListed ==
  \A n \in 1..row.latest : \A s \in Shown(row, n) :
    LET items == s.turn.items
        sections == Sections(items)
    IN Positions(items, {"plan"}) = {} =>
         \A k \in Positions(items, {"tool"}) :
           Cardinality({i \in DOMAIN sections : k \in ToolsAt(items, sections[i])}) = 1

\* What the log card of an ended turn leaves out it says it leaves out, or it
\* offers the whole log as a file.
HiddenIsTold ==
  \A p \in DOMAIN panels : LET log == panels[p].log IN log.hides /\ log.ended => log.told \/ log.file

\* Nothing of a turn is lost between the log card and the details.
NothingLost == EveryToolListed /\ HiddenIsTold

\* A card goes on showing the turn it was sent for (snapshotForPanelTurn).
KeepsItsTurn(p) == panels[p].card.kind # "none" => panels'[p].card.n = panels[p].card.n
\* A final card that comes back after a press shows the answer of its turn.
AnswerBack(p) ==
  panels[p].card.kind = "details" /\ panels'[p].card.kind = "final" /\ Answered(turns[panels[p].n])
    => panels'[p].card.answer
\* Whatever is pressed, and whatever turns came after, a card keeps its turn; Back and Turn off
\* Plan bring back the answer of it, while thread/read brings the items of every turn.
WholeAnswerStays ==
  [][\A p \in DOMAIN panels : KeepsItsTurn(p) /\ (scene.bare \/ AnswerBack(p))]_detailVars
=============================================================================
