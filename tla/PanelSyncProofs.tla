---------------------------- MODULE PanelSyncProofs ----------------------------
(***************************************************************************)
(* PanelSync for every set of goroutines and every bound: its types, that a *)
(* sync which ends leaves the answer of its view in the chat, that panelMu  *)
(* keeps final cards single when nothing writes cards without it, that a    *)
(* row is not replaced before its answer is out, and that a single reader   *)
(* draws each card once and none as running after its final card.           *)
(***************************************************************************)
EXTENDS PanelSync, TLAPS

Cards == [turn : 0..MaxTurns, status : {"none", "inProgress", "completed"}]
\* Every variable has its type.
Places == p \in [Procs -> States]
Typed ==
  /\ codex \in Views /\ snap \in Views /\ row \in Rows /\ card \in Cards
  /\ fromChat \subseteq Turns /\ marked \subseteq fromChat
  /\ routes \subseteq Finals /\ userRoutes \subseteq Turns /\ lock \in Procs \cup {Nobody}
  /\ finals \in [Finals -> 0..2] /\ progress \in [Turns -> 0..2] /\ notices \in [Turns -> 0..2]
  /\ crashes \in Nat /\ presses \in Nat

Inside == {"ensure", "note", "cards", "create", "resend", "renote", "recards", "recreate", "reupdate", "reupnote"}
\* panelMu: whoever is at a step only a sync takes holds it, and its holder is in the sync.
Held == /\ \A s \in Procs : p[s].at \in Inside => lock = s
        /\ lock # Nobody => p[lock].at \notin Outside

\* What a goroutine carries into the steps that use it.
Carried ==
  \A s \in Procs :
    /\ p[s].at = "mark" => p[s].own \in fromChat
    /\ p[s].at = "seed" => p[s].own # 0
    /\ p[s].at \in {"send", "record"} =>
         /\ p[s].fin \in Finals
         /\ p[s].fin[1] # p[s].view.turn => lock = s
         /\ p[s].fin[1] = p[s].view.turn /\ Answered(p[s].view) => p[s].fin = Text(p[s].view.turn)

\* A row names only final cards that have a route, and so does every copy of one.
Filed == /\ row.fp \in routes \cup {NoFinal}
         /\ \A s \in Procs : p[s].mem.fp \in routes \cup {NoFinal}

\* Inductive for Next.
Inv == Places /\ Typed /\ Held /\ Carried /\ Filed

\* Before the first press of Refresh whoever is past the lock holds it.
Alone == \A s \in Procs : /\ s \in Buttons => p[s].at = "idle"
                          /\ p[s].at \notin {"choose", "press"}
                          /\ p[s].at \notin Outside => lock = s
\* What is about to be sent has no route yet.
Unsent == \A s \in Procs : p[s].at = "send" => p[s].fin \notin routes
Recording(f) == \E s \in Procs : p[s].at = "record" /\ p[s].fin = f
\* A card is counted once its send is done, and then is being recorded or has its route.
Counted == crashes = 0 => \A f \in Finals : /\ finals[f] <= 1
                                            /\ finals[f] # 0 => f \in routes \/ Recording(f)
\* The same of user cards.
Notes == {"note", "renote", "upnote", "reupnote"}
Noting(t) == \E s \in Procs : p[s].at \in Notes /\ p[s].view.turn = t
Noticed == crashes = 0 => \A t \in Turns : /\ notices[t] <= 1
                                           /\ notices[t] # 0 => t \in userRoutes \/ Noting(t)
\* With Inv, inductive; it implies SentOnce.
OnceInv == presses = 0 => Alone /\ Unsent /\ Counted /\ Noticed

\* The steps that send user and progress cards.
CardStep(s) == SendNotice(s) \/ RouteNotice(s) \/ SendCards(s) \/ UpdateNotice(s) \/ RecordNotice(s)

(***************************************************************************)
(* Facts about the values.                                                 *)
(***************************************************************************)
\* A turn is a number the rows can hold, and not the 0 that stands for none.
LEMMA TurnRange == Turns \subseteq 0..MaxTurns /\ 0 \notin Turns
BY PanelAssumption DEF Turns

\* The fields of a view, and the edits Codex makes to it.
LEMMA ViewFacts ==
  ASSUME NEW v \in Views
  PROVE  /\ v.turn \in Turns /\ v.texts \subseteq Turns /\ v.status \in {"inProgress", "completed"}
         /\ \A t \in Turns : [v EXCEPT !.turn = t, !.status = "inProgress"] \in Views
         /\ \A T \in SUBSET Turns : [v EXCEPT !.status = "completed", !.texts = T] \in Views
         /\ \A T \in SUBSET Turns : [v EXCEPT !.texts = T] \in Views
BY DEF Views

\* updateCurrentPanel's edit of a row keeps its type and its fingerprint.
LEMMA UpdatedRow ==
  ASSUME NEW r \in Rows, NEW v \in Views
  PROVE  RowAfterUpdate(r, v) \in Rows /\ RowAfterUpdate(r, v).fp = r.fp
<1>1. v.turn \in Turns /\ v.status \in {"inProgress", "completed"} BY ViewFacts
<1>2. v.turn \in 0..MaxTurns BY <1>1, TurnRange
<1> QED BY <1>1, <1>2 DEF RowAfterUpdate, Rows

\* The fields of a row.
LEMMA RowParts ==
  ASSUME NEW r \in Rows
  PROVE  r.turn \in 0..MaxTurns /\ r.user \in 0..MaxTurns /\ r.fp \in Finals \cup {NoFinal}
BY DEF Rows

\* Editing a row's user card or fingerprint keeps its type.
LEMMA RowEdits ==
  ASSUME NEW r \in Rows, NEW u \in 0..MaxTurns, NEW f \in Finals \cup {NoFinal}
  PROVE  /\ [r EXCEPT !.user = u] \in Rows /\ [r EXCEPT !.user = u].fp = r.fp
         /\ [r EXCEPT !.user = u, !.fp = f] \in Rows /\ [r EXCEPT !.user = u, !.fp = f].fp = f
         /\ [r EXCEPT !.fp = f, !.user = u] \in Rows /\ [r EXCEPT !.fp = f, !.user = u].fp = f
BY DEF Rows

\* Fingerprints name their turn, none is NoFinal, and recording one gives a row that has it.
LEMMA FinalFacts ==
  /\ \A t \in Turns : Text(t) \in Finals /\ Gap(t) \in Finals /\ Text(t)[1] = t /\ Gap(t)[1] = t
  /\ \A f \in Finals : f[1] \in Turns /\ f # NoFinal
  /\ \A r \in Rows, f \in Finals : RowAfterFinal(r, f) \in Rows /\ RowAfterFinal(r, f).fp = f
<1> USE PanelAssumption DEF Finals, NoFinal, Text, Gap, Turns
<1>1. \A t \in Turns : Text(t) \in Finals /\ Gap(t) \in Finals /\ Text(t)[1] = t /\ Gap(t)[1] = t OBVIOUS
<1>2. \A f \in Finals : f[1] \in Turns /\ f # NoFinal OBVIOUS
<1>3. \A r \in Rows, f \in Finals : RowAfterFinal(r, f) \in Rows /\ RowAfterFinal(r, f).fp = f
  <2> SUFFICES ASSUME NEW r \in Rows, NEW f \in Finals
               PROVE RowAfterFinal(r, f) \in Rows /\ RowAfterFinal(r, f).fp = f OBVIOUS
  <2>1. f[1] \in 0..MaxTurns /\ f \in Finals \cup {NoFinal} BY <1>2
  <2> QED BY <2>1 DEF Rows, RowAfterFinal
<1> QED BY <1>1, <1>2, <1>3

\* The initial values have their types.
LEMMA Starts == Start \in Views /\ NoRow \in Rows /\ NoRow.fp = NoFinal /\ Idle \in States /\ Idle.at = "idle" /\ Idle.mem = NoRow
<1> USE PanelAssumption DEF Turns
<1>1. Start \in Views BY DEF Start, Views
<1>2. NoRow \in Rows /\ NoRow.fp = NoFinal BY DEF NoRow, Rows
<1>3. Idle \in States /\ Idle.at = "idle" /\ Idle.mem = NoRow BY <1>1, <1>2 DEF Idle, States, Points
<1> QED BY <1>1, <1>2, <1>3

\* The turn that starts next is a turn.
LEMMA TurnTypes ==
  ASSUME codex \in Views, NextTurn
  PROVE  codex' \in Views /\ codex'.turn \in Turns
<1>1. codex.turn + 1 \in Turns
  <2>1. codex.turn \in Turns BY ViewFacts
  <2>2. codex.turn < MaxTurns BY DEF NextTurn
  <2> QED BY <2>1, <2>2, PanelAssumption DEF Turns
<1>2. codex' = [codex EXCEPT !.turn = codex.turn + 1, !.status = "inProgress"] BY DEF NextTurn
<1>3. codex' \in Views BY <1>1, <1>2, ViewFacts
<1> QED BY <1>3, ViewFacts

\* The fields of what a goroutine holds.
LEMMA Fields ==
  ASSUME Places, NEW s \in Procs
  PROVE  /\ p[s].view \in Views /\ p[s].mem \in Rows /\ p[s].own \in 0..MaxTurns
         /\ p[s].at \in Points /\ p[s].fin \in Finals \cup {NoFinal}
BY DEF Places, States

\* A step of one goroutine to a state of the right type.
LEMMA Moves ==
  ASSUME Places, NEW s \in Procs, NEW r \in States, p' = [p EXCEPT ![s] = r]
  PROVE  Places' /\ p'[s] = r /\ \A q \in Procs : q # s => p'[q] = p[q]
BY DEF Places

\* The edits the actions make to what a goroutine holds.
LEMMA StateFacts ==
  ASSUME NEW r \in States
  PROVE  /\ \A w \in Points : [r EXCEPT !.at = w] \in States
         /\ \A w \in Points, v \in Views : [r EXCEPT !.at = w, !.view = v] \in States
         /\ \A w \in Points, v \in Views : [r EXCEPT !.view = v, !.at = w] \in States
         /\ \A w \in Points, m \in Rows : [r EXCEPT !.at = w, !.mem = m, !.cur = TRUE] \in States
         /\ \A w \in Points, m \in Rows : [r EXCEPT !.mem = m, !.cur = TRUE, !.at = w] \in States
         /\ \A w \in Points, m \in Rows : [r EXCEPT !.mem = m, !.at = w] \in States
         /\ \A w \in Points, f \in Finals \cup {NoFinal} : [r EXCEPT !.at = w, !.fin = f] \in States
         /\ \A w \in Points, f \in Finals, m \in Rows : [r EXCEPT !.at = w, !.fin = f, !.mem = m, !.cur = TRUE] \in States
         /\ \A w \in Points : [r EXCEPT !.at = w, !.force = TRUE] \in States
         /\ \A w \in Points : [r EXCEPT !.cur = TRUE, !.at = w] \in States
         /\ [r EXCEPT !.cur = FALSE] \in States
BY DEF States

LEMMA RowPlaced ==
  ASSUME NEW r \in States, NEW m \in Rows, NEW w \in Points
  PROVE  [r EXCEPT !.mem = m, !.at = w] \in States
BY DEF States

(***************************************************************************)
(* What the actions that rewrite a row leave in it.                        *)
(***************************************************************************)
\* Redraw: the copy forgets its fingerprint or keeps it, the row keeps its own.
LEMMA RedrawnRow ==
  ASSUME Places, Typed, NEW s \in Procs, Redraw(s)
  PROVE  \E m \in Rows : /\ p' = [p EXCEPT ![s].mem = m, ![s].at = "update"]
                         /\ m.fp \in {NoFinal, p[s].mem.fp}
                         /\ row' \in Rows /\ row'.fp = row.fp
<1> DEFINE noUser == p[s].view.turn \notin userRoutes
           noFinal == Answered(p[s].view) /\ Text(p[s].view.turn) \notin routes
           user == IF noUser THEN 0 ELSE p[s].mem.user
           fp == IF noFinal THEN NoFinal ELSE p[s].mem.fp
           m == [p[s].mem EXCEPT !.user = user, !.fp = fp]
<1>1. p[s].mem \in Rows /\ row \in Rows BY Fields DEF Typed
<1>2. user \in 0..MaxTurns /\ fp \in Finals \cup {NoFinal} /\ 0 \in 0..MaxTurns BY <1>1, RowParts, PanelAssumption
<1>3. m \in Rows /\ m.fp = fp
  <2> HIDE DEF user, fp
  <2> QED BY <1>1, <1>2 DEF Rows
<1>4. p' = [p EXCEPT ![s].mem = m, ![s].at = "update"] BY <1>1 DEF Redraw, Rows
<1>5. row' \in Rows /\ row'.fp = row.fp BY <1>1, <1>2, RowEdits DEF Redraw
<1> QED BY <1>3, <1>4, <1>5

\* CardStep: the copy is a new row without a final card, or keeps its fingerprint; who is at a
\* step only a sync takes holds the lock.
CardMove(s, m, w) ==
  /\ p' = [p EXCEPT ![s] = [p[s] EXCEPT !.mem = m, !.at = w]]
  /\ m.fp \in {NoFinal, p[s].mem.fp} /\ w \notin Outside \cup {"ensure", "resend", "final", "send", "record"}
  /\ w \in Inside => lock = s
  /\ p[s].at \notin Outside \cup {"final", "send", "record"}
  /\ row' \in Rows /\ row'.fp = row.fp
  /\ UNCHANGED <<thread, snap, routes, card, lock, finals, spent>>
LEMMA CardMoves ==
  ASSUME Places, Typed, Held, NEW s \in Procs, CardStep(s)
  PROVE  \E m \in Rows, w \in Points : CardMove(s, m, w)
<1> USE DEF CardMove, Points, Outside, Inside, stored, sent, Goto
<1>0. p[s] \in States /\ p[s].mem \in Rows /\ row \in Rows /\ p[s].view.turn \in 0..MaxTurns /\ 0 \in 0..MaxTurns
  <2>1. p[s] \in States /\ p[s].mem \in Rows /\ row \in Rows BY Fields DEF Places, Typed
  <2>2. p[s].view.turn \in Turns BY Fields, ViewFacts
  <2>3. 0 \in 0..MaxTurns BY PanelAssumption
  <2> QED BY <2>1, <2>2, <2>3, TurnRange
<1>b. \A w \in Points : [p[s] EXCEPT !.at = w] = [p[s] EXCEPT !.mem = p[s].mem, !.at = w] BY <1>0 DEF States
<1>1. CASE SendNotice(s)
  <2> DEFINE v == p[s].view
             u == IF v.turn \in marked THEN 0 ELSE v.turn
             m == [NoRow EXCEPT !.turn = v.turn, !.status = v.status, !.user = u]
             user == NeedsUserCard(NoRow, v.turn)
             w == IF p[s].at = "resend" THEN IF user THEN "renote" ELSE "recards" ELSE IF user THEN "note" ELSE "cards"
  <2>1. v.turn \in 0..MaxTurns /\ v.status \in {"inProgress", "completed"} /\ u \in 0..MaxTurns
    BY <1>0, Fields, ViewFacts
  <2>2. m \in Rows /\ m.fp = NoFinal
    <3>1. NoRow \in Rows /\ NoRow.fp = NoFinal BY Starts
    <3> HIDE DEF v, u
    <3> QED BY <2>1, <3>1 DEF Rows
  <2>3. p' = [p EXCEPT ![s] = [p[s] EXCEPT !.mem = m, !.at = w]]
    <3>1. p' = [p EXCEPT ![s].mem = m, ![s].at = w] BY <1>0, <1>1 DEF SendNotice, Places, States
    <3> HIDE DEF m, w
    <3> QED BY <3>1 DEF Places
  <2>4. w \in {"note", "renote", "cards", "recards"} OBVIOUS
  <2>5. p[s].at \in {"ensure", "resend"} /\ lock = s BY <1>1 DEF SendNotice, Creates, Held
  <2>6. UNCHANGED <<thread, snap, row, routes, card, lock, finals, spent>> BY <1>1 DEF SendNotice
  <2> HIDE DEF m, w
  <2> QED BY <1>0, <2>2, <2>3, <2>4, <2>5, <2>6
<1>2. CASE RouteNotice(s) \/ SendCards(s) \/ UpdateNotice(s)
  <2>1. PICK w \in {"cards", "recards", "create", "recreate", "upnote", "reupnote"} :
          /\ p' = [p EXCEPT ![s].at = w] /\ (w = "upnote" \/ lock = s)
          /\ p[s].at \in {"note", "renote", "cards", "recards", "update", "reupdate"}
    BY <1>2 DEF RouteNotice, SendCards, UpdateNotice, Held
  <2>2. p' = [p EXCEPT ![s] = [p[s] EXCEPT !.mem = p[s].mem, !.at = w]] BY <1>b, <2>1
  <2>3. UNCHANGED <<thread, snap, row, routes, card, lock, finals, spent>>
    BY <1>2 DEF RouteNotice, SendCards, UpdateNotice
  <2> QED BY <1>0, <2>1, <2>2, <2>3
<1>3. CASE RecordNotice(s)
  <2> DEFINE t == p[s].view.turn
             m == [p[s].mem EXCEPT !.user = t]
             w == IF p[s].at = "upnote" THEN "update" ELSE "reupdate"
  <2>1. m \in Rows /\ m.fp = p[s].mem.fp BY <1>0, RowEdits, RowParts DEF Rows
  <2>2. p' = [p EXCEPT ![s] = [p[s] EXCEPT !.mem = m, !.at = w]]
    <3>1. p' = [p EXCEPT ![s].mem.user = t, ![s].at = w] BY <1>0, <1>3 DEF RecordNotice, Places, States
    <3> HIDE DEF t, w
    <3> QED BY <3>1 DEF Places
  <2>3. row' \in Rows /\ row'.fp = row.fp BY <1>0, <1>3, RowEdits, RowParts DEF RecordNotice, Rows
  <2>4. UNCHANGED <<thread, snap, routes, card, lock, finals, spent>> BY <1>3 DEF RecordNotice
  <2>5. p[s].at \in {"upnote", "reupnote"} /\ (p[s].at = "reupnote" => lock = s) BY <1>3 DEF RecordNotice, Held
  <2> HIDE DEF m
  <2> QED BY <2>1, <2>2, <2>3, <2>4, <2>5
<1> QED BY <1>1, <1>2, <1>3 DEF CardStep

\* Update: copy and row keep a fingerprint one of them had.
LEMMA KeptRow ==
  ASSUME Places, Typed, NEW s \in Procs, Update(s)
  PROVE  \E m \in Rows : /\ p' = [p EXCEPT ![s].mem = m, ![s].at = "final"]
                         /\ m.fp = p[s].mem.fp
                         /\ row' \in Rows /\ row'.fp \in {row.fp, m.fp}
<1> DEFINE v == p[s].view
           owner == IF v.turn \in userRoutes /\ v.turn \notin marked THEN v.turn ELSE p[s].mem.user
           m == [RowAfterUpdate(p[s].mem, v) EXCEPT !.user = owner]
           kept == IF owner # p[s].mem.user THEN owner ELSE RowAfterUpdate(row, v).user
           r == [RowAfterUpdate(row, v) EXCEPT !.fp = p[s].mem.fp, !.user = kept]
<1>1. p[s].mem \in Rows /\ row \in Rows /\ v \in Views BY Fields DEF Typed
<1>2. owner \in 0..MaxTurns BY <1>1, RowParts, ViewFacts, TurnRange
<1>3. m \in Rows /\ m.fp = p[s].mem.fp
  <2>1. RowAfterUpdate(p[s].mem, v) \in Rows /\ RowAfterUpdate(p[s].mem, v).fp = p[s].mem.fp BY <1>1, UpdatedRow
  <2>2. NoFinal \in Finals \cup {NoFinal} OBVIOUS
  <2> HIDE DEF owner, v
  <2> QED BY <1>2, <2>1, <2>2, RowEdits
<1>4. kept \in 0..MaxTurns BY <1>1, <1>2, UpdatedRow, RowParts
<1>5. r \in Rows /\ r.fp = p[s].mem.fp
  <2>1. RowAfterUpdate(row, v) \in Rows /\ p[s].mem.fp \in Finals \cup {NoFinal} BY <1>1, UpdatedRow, RowParts
  <2> HIDE DEF kept, v
  <2> QED BY <1>4, <2>1 DEF Rows
<1>6. p' = [p EXCEPT ![s].mem = m, ![s].at = "final"] BY DEF Update
<1>7. row' = row \/ row' = r
  <2>1. CASE ~p[s].cur BY <2>1 DEF Update
  <2>2. CASE p[s].cur
    <3>1. row' = [RowAfterUpdate(row, v) EXCEPT !.fp = p[s].mem.fp, !.user = IF owner # p[s].mem.user THEN owner ELSE @]
      BY <2>2 DEF Update
    <3>2. RowAfterUpdate(row, v) \in Rows BY <1>1, UpdatedRow
    <3> QED BY <3>1, <3>2 DEF Rows
  <2> QED BY <2>1, <2>2
<1> QED BY <1>1, <1>3, <1>5, <1>6, <1>7

(***************************************************************************)
(* Inv is inductive: one lemma per conjunct, one step per action.          *)
(***************************************************************************)
\* Every step keeps the type of p.
LEMMA PlacesStep == Inv /\ [Next]_vars => Places'
<1> SUFFICES ASSUME Inv, [Next]_vars PROVE Places' OBVIOUS
<1> USE DEF Inv, Goto, Points
<1>a. \A s \in Procs : p[s] \in States BY DEF Places
<1>b. Idle \in States /\ NoRow \in Rows BY Starts
<1>c. codex \in Views /\ snap \in Views /\ row \in Rows BY DEF Typed
<1>1. CASE UserTurn BY <1>1 DEF UserTurn, Places
<1>2. CASE TurnEnds BY <1>2 DEF TurnEnds, Places
<1>3. CASE AnswerAppears BY <1>3 DEF AnswerAppears, Places
<1>4. CASE Crash BY <1>4, <1>b DEF Crash, Places
<1>5. ASSUME NEW s \in Procs, Poll(s) PROVE Places'
  <2>1. [Idle EXCEPT !.at = "store", !.view = codex] \in States BY <1>b, <1>c, StateFacts, Zenon
  <2> QED BY <2>1, <1>5, Moves DEF Poll
<1>6. ASSUME NEW s \in Procs, ChatTurn(s) PROVE Places'
  <2>1. codex'.turn \in Turns BY <1>6, <1>c, TurnTypes DEF ChatTurn
  <2>2. codex'.turn \in 0..MaxTurns BY <2>1, TurnRange
  <2>3. [Idle EXCEPT !.at = "mark", !.own = codex'.turn, !.force = TRUE] \in States BY <2>2, <1>b DEF States
  <2> QED BY <2>3, <1>6, Moves DEF ChatTurn
<1>7. ASSUME NEW s \in Procs, Press(s) PROVE Places'
  <2>1. [p[s] EXCEPT !.at = "read"] \in States BY <1>a, StateFacts, Zenon
  <2> QED BY <2>1, <1>7, Moves DEF Press
<1>8. ASSUME NEW s \in Procs, Lock(s) PROVE Places'
  <2>1. Text(row.turn) \in Finals \/ ~Superseded(row, p[s].view)
    <3>1. Superseded(row, p[s].view) => row.turn \in p[s].view.texts BY DEF Superseded
    <3>2. p[s].view.texts \subseteq Turns BY Fields, ViewFacts
    <3> QED BY <3>1, <3>2, FinalFacts
  <2>2. CASE Superseded(row, p[s].view) /\ ~Recorded(row, Text(row.turn))
    <3>1. [p[s] EXCEPT !.at = "send", !.fin = Text(row.turn), !.mem = row, !.cur = TRUE] \in States
      BY <2>1, <2>2, <1>a, <1>c, StateFacts, Zenon
    <3>2. p' = [p EXCEPT ![s] = [p[s] EXCEPT !.at = "send", !.fin = Text(row.turn), !.mem = row, !.cur = TRUE]]
      BY <2>2, <1>8 DEF Lock, Places
    <3> QED BY <3>1, <3>2, Moves
  <2>3. CASE ~(Superseded(row, p[s].view) /\ ~Recorded(row, Text(row.turn)))
    <3>1. [p[s] EXCEPT !.at = "ensure"] \in States BY <1>a, StateFacts, Zenon
    <3>2. p' = [p EXCEPT ![s] = [p[s] EXCEPT !.at = "ensure"]] BY <2>3, <1>8 DEF Lock
    <3> QED BY <3>1, <3>2, Moves
  <2> QED BY <2>2, <2>3
<1>9. ASSUME NEW s \in Procs, Mark(s) PROVE Places'
  <2>1. [p[s] EXCEPT !.at = "read"] \in States BY <1>a, StateFacts, Zenon
  <2> QED BY <2>1, <1>9, Moves DEF Mark
<1>10. ASSUME NEW s \in Procs, Read(s) PROVE Places'
  <2>1. [p[s] EXCEPT !.at = "store", !.view = codex] \in States BY <1>a, <1>c, StateFacts, Zenon
  <2>2. p' = [p EXCEPT ![s] = [p[s] EXCEPT !.at = "store", !.view = codex]] BY <1>10 DEF Read, Places
  <2> QED BY <2>1, <2>2, Moves
<1>11. ASSUME NEW s \in Procs, Store(s) PROVE Places'
  <2>1. [p[s] EXCEPT !.at = IF p[s].own # 0 THEN "seed" ELSE "load"] \in States BY <1>a, StateFacts, Zenon
  <2> QED BY <2>1, <1>11, Moves DEF Store
<1>12. ASSUME NEW s \in Procs, Seed(s) PROVE Places'
  <2>1. [p[s] EXCEPT !.at = "load"] \in States BY <1>a, StateFacts, Zenon
  <2> QED BY <2>1, <1>12, Moves DEF Seed
<1>13. ASSUME NEW s \in Procs, Load(s) PROVE Places'
  <2> DEFINE w == IF s \in Buttons /\ ~p[s].force THEN "choose" ELSE "lock"
  <2>1. [p[s] EXCEPT !.view = snap, !.at = w] \in States BY <1>a, <1>c, StateFacts, Zenon
  <2>2. p' = [p EXCEPT ![s] = [p[s] EXCEPT !.view = snap, !.at = w]] BY <1>13 DEF Load, Places
  <2> QED BY <2>1, <2>2, Moves
<1>14. ASSUME NEW s \in Procs, Choose(s) PROVE Places'
  <2>1. CASE row.turn = p[s].view.turn
    <3>1. [p[s] EXCEPT !.at = "press", !.mem = row, !.cur = TRUE] \in States BY <1>a, <1>c, StateFacts, Zenon
    <3>2. p' = [p EXCEPT ![s] = [p[s] EXCEPT !.at = "press", !.mem = row, !.cur = TRUE]] BY <2>1, <1>14 DEF Choose, Places
    <3> QED BY <3>1, <3>2, Moves
  <2>2. CASE row.turn # p[s].view.turn
    <3>1. [p[s] EXCEPT !.at = "load", !.force = TRUE] \in States BY <1>a, StateFacts, Zenon
    <3>2. p' = [p EXCEPT ![s] = [p[s] EXCEPT !.at = "load", !.force = TRUE]] BY <2>2, <1>14 DEF Choose, Places
    <3> QED BY <3>1, <3>2, Moves
  <2> QED BY <2>1, <2>2
<1>15. ASSUME NEW s \in Procs, Redraw(s) PROVE Places'
  <2>1. PICK m \in Rows : p' = [p EXCEPT ![s].mem = m, ![s].at = "update"] BY <1>15, RedrawnRow
  <2>2. [p[s] EXCEPT !.mem = m, !.at = "update"] \in States BY <1>a, StateFacts, Zenon
  <2>3. p' = [p EXCEPT ![s] = [p[s] EXCEPT !.mem = m, !.at = "update"]] BY <2>1 DEF Places
  <2> QED BY <2>2, <2>3, Moves
<1>16. ASSUME NEW s \in Procs, CardStep(s) PROVE Places'
  <2>1. PICK m \in Rows, w \in Points : CardMove(s, m, w) BY <1>16, CardMoves
  <2>2. [p[s] EXCEPT !.mem = m, !.at = w] \in States BY <1>a, RowPlaced
  <2> QED BY <2>1, <2>2, Moves DEF CardMove
<1>17. ASSUME NEW s \in Procs, CreateRow(s) PROVE Places'
  <2>1. \A q \in Procs : [p[q] EXCEPT !.cur = FALSE] \in States BY <1>a, StateFacts, Zenon
  <2>2. [p[s] EXCEPT !.cur = TRUE, !.at = IF @ = "create" THEN "update" ELSE "reupdate"] \in States
    <3>1. \A w \in Points : [p[s] EXCEPT !.cur = TRUE, !.at = w] \in States BY <1>a, StateFacts, Zenon
    <3>2. [p[s] EXCEPT !.cur = TRUE, !.at = IF @ = "create" THEN "update" ELSE "reupdate"]
          = [p[s] EXCEPT !.cur = TRUE, !.at = IF p[s].at = "create" THEN "update" ELSE "reupdate"]
      BY <1>a DEF States
    <3> QED BY <3>1, <3>2
  <2> QED BY <2>1, <2>2, <1>17 DEF CreateRow, Places
<1>18. ASSUME NEW s \in Procs, KeepRow(s) PROVE Places'
  <2>1. CASE p' = [p EXCEPT ![s] = Idle] BY <2>1, <1>b, Moves
  <2>2. CASE p' = [p EXCEPT ![s].mem = row, ![s].cur = TRUE, ![s].at = IF LegacyReplay(row, p[s].view) THEN "final" ELSE "update"]
    <3> DEFINE w == IF LegacyReplay(row, p[s].view) THEN "final" ELSE "update"
    <3>1. [p[s] EXCEPT !.mem = row, !.cur = TRUE, !.at = w] \in States BY <1>a, <1>c, StateFacts, Zenon
    <3>2. p' = [p EXCEPT ![s] = [p[s] EXCEPT !.mem = row, !.cur = TRUE, !.at = w]] BY <2>2 DEF Places
    <3> QED BY <3>1, <3>2, Moves
  <2> QED BY <2>1, <2>2, <1>18 DEF KeepRow, Done
<1>19. ASSUME NEW s \in Procs, Update(s) PROVE Places'
  <2>1. PICK m \in Rows : p' = [p EXCEPT ![s].mem = m, ![s].at = "final"] BY <1>19, KeptRow
  <2>2. [p[s] EXCEPT !.mem = m, !.at = "final"] \in States BY <1>a, StateFacts, Zenon
  <2>3. p' = [p EXCEPT ![s] = [p[s] EXCEPT !.mem = m, !.at = "final"]] BY <2>1 DEF Places
  <2> QED BY <2>2, <2>3, Moves
<1>20. ASSUME NEW s \in Procs, Decide(s) PROVE Places'
  <2> DEFINE f == IF Answered(p[s].view) THEN Text(p[s].view.turn) ELSE Gap(p[s].view.turn)
  <2>1. CASE p' = [p EXCEPT ![s] = Idle] BY <2>1, <1>b, Moves
  <2>2. CASE p' = [p EXCEPT ![s].at = "send", ![s].fin = f]
    <3>1. f \in Finals BY Fields, ViewFacts, FinalFacts
    <3>2. [p[s] EXCEPT !.at = "send", !.fin = f] \in States BY <3>1, <1>a, StateFacts, Zenon
    <3>3. p' = [p EXCEPT ![s] = [p[s] EXCEPT !.at = "send", !.fin = f]] BY <2>2 DEF Places
    <3> QED BY <3>2, <3>3, Moves
  <2> QED BY <2>1, <2>2, <1>20 DEF Decide, Done
<1>21. ASSUME NEW s \in Procs, SendFinal(s) PROVE Places'
  <2>1. [p[s] EXCEPT !.at = "record"] \in States BY <1>a, StateFacts, Zenon
  <2> QED BY <2>1, <1>21, Moves DEF SendFinal
<1>22. ASSUME NEW s \in Procs, RecordFinal(s) PROVE Places'
  <2>1. CASE p' = [p EXCEPT ![s] = Idle] BY <2>1, <1>b, Moves
  <2>2. CASE p' = [p EXCEPT ![s].at = "ensure", ![s].fin = NoFinal]
    <3>1. [p[s] EXCEPT !.at = "ensure", !.fin = NoFinal] \in States BY <1>a, StateFacts, Zenon
    <3>2. p' = [p EXCEPT ![s] = [p[s] EXCEPT !.at = "ensure", !.fin = NoFinal]] BY <2>2 DEF Places
    <3> QED BY <3>1, <3>2, Moves
  <2> QED BY <2>1, <2>2, <1>22 DEF RecordFinal, Done
<1>23. ASSUME NEW s \in Procs, Fault(s) PROVE Places'
  <2>1. [p[s] EXCEPT !.at = "resend"] \in States /\ [p[s] EXCEPT !.at = "idle"] \in States BY <1>a, StateFacts, Zenon
  <2>2. AfterFailure(s) \in {"resend", "idle"} BY DEF AfterFailure
  <2>3. CASE p' = [p EXCEPT ![s] = Idle] BY <2>3, <1>b, Moves
  <2>4. CASE p' = [p EXCEPT ![s].at = AfterFailure(s)] BY <2>1, <2>2, <2>4, Moves
  <2> QED BY <2>3, <2>4, <1>23 DEF Fault, Done
<1>24. CASE UNCHANGED vars BY <1>24 DEF vars, Places
<1> QED BY <1>1, <1>2, <1>3, <1>4, <1>5, <1>6, <1>7, <1>8, <1>9, <1>10, <1>11, <1>12, <1>13, <1>14, <1>15,
           <1>16, <1>17, <1>18, <1>19, <1>20, <1>21, <1>22, <1>23, <1>24 DEF Next, Step, CardStep

\* Every step keeps the types of the other variables.
LEMMA TypedStep == Inv /\ [Next]_vars => Typed'
<1> SUFFICES ASSUME Inv, [Next]_vars PROVE Typed' OBVIOUS
<1> USE DEF Inv, Typed, thread, stored, sent, spent, vars
<1>a. \A n \in 0..2 : More(n) \in 0..2 BY DEF More
<1>1. CASE UserTurn BY <1>1, TurnTypes DEF UserTurn
<1>2. CASE TurnEnds
  <2>1. codex' \in Views
    <3>1. PICK texts \in {codex.texts, codex.texts \cup {codex.turn}} : codex' = [codex EXCEPT !.status = "completed", !.texts = texts]
      BY <1>2 DEF TurnEnds
    <3>2. texts \subseteq Turns BY <3>1, ViewFacts
    <3> QED BY <3>1, <3>2 DEF Views
  <2> QED BY <1>2, <2>1 DEF TurnEnds
<1>3. CASE AnswerAppears
  <2>1. codex' \in Views
    <3>1. codex' = [codex EXCEPT !.texts = codex.texts \cup {codex.turn}] BY <1>3 DEF AnswerAppears
    <3>2. codex.texts \cup {codex.turn} \subseteq Turns BY ViewFacts
    <3> QED BY <3>1, <3>2 DEF Views
  <2> QED BY <1>3, <2>1 DEF AnswerAppears
<1>4. CASE Crash BY <1>4 DEF Crash
<1>5. ASSUME NEW s \in Procs, Poll(s) PROVE Typed' BY <1>5 DEF Poll
<1>6. ASSUME NEW s \in Procs, ChatTurn(s) PROVE Typed' BY <1>6, TurnTypes DEF ChatTurn
<1>7. ASSUME NEW s \in Procs, Press(s) PROVE Typed' BY <1>7 DEF Press
<1>8. ASSUME NEW s \in Procs, Lock(s) PROVE Typed' BY <1>8 DEF Lock
<1>9. ASSUME NEW s \in Procs, Mark(s) PROVE Typed' BY <1>9 DEF Mark, Carried
<1>10. ASSUME NEW s \in Procs, Read(s) PROVE Typed' BY <1>10 DEF Read
<1>11. ASSUME NEW s \in Procs, Store(s) PROVE Typed' BY <1>11, Fields DEF Store
<1>12. ASSUME NEW s \in Procs, Seed(s) PROVE Typed'
  <2>1. snap' \in Views
    <3>1. p[s].own \in Turns BY <1>12, Fields, PanelAssumption DEF Seed, Carried, Turns
    <3>2. CASE snap.turn = p[s].own BY <3>2, <1>12 DEF Seed
    <3>3. CASE snap.turn # p[s].own
      <4>1. snap' = [snap EXCEPT !.turn = p[s].own, !.status = "inProgress"] BY <3>3, <1>12 DEF Seed
      <4> QED BY <3>1, <4>1 DEF Views
    <3> QED BY <3>2, <3>3
  <2> QED BY <1>12, <2>1 DEF Seed
<1>13. ASSUME NEW s \in Procs, Load(s) PROVE Typed' BY <1>13 DEF Load
<1>14. ASSUME NEW s \in Procs, Choose(s) PROVE Typed' BY <1>14 DEF Choose
<1>15. ASSUME NEW s \in Procs, Redraw(s) PROVE Typed'
  <2>1. row' \in Rows BY <1>15, RedrawnRow
  <2> QED BY <1>15, <2>1 DEF Redraw
<1>16. ASSUME NEW s \in Procs, CardStep(s) PROVE Typed'
  <2>1. p[s].view.turn \in Turns BY Fields, ViewFacts
  <2>2. progress' \in [Turns -> 0..2]
    BY <1>16, <1>a DEF CardStep, SendNotice, RouteNotice, SendCards, UpdateNotice, RecordNotice
  <2>3. userRoutes' \subseteq userRoutes \cup {p[s].view.turn}
    BY <1>16 DEF CardStep, SendNotice, RouteNotice, SendCards, UpdateNotice, RecordNotice
  <2>4. notices' = notices \/ notices' = [notices EXCEPT ![p[s].view.turn] = More(@)]
    BY <1>16 DEF CardStep, SendNotice, RouteNotice, SendCards, UpdateNotice, RecordNotice
  <2>5. notices' \in [Turns -> 0..2] BY <1>a, <2>1, <2>4
  <2>6. PICK m \in Rows, w \in Points : CardMove(s, m, w) BY <1>16, CardMoves
  <2> QED BY <2>1, <2>2, <2>3, <2>5, <2>6 DEF CardMove
<1>17. ASSUME NEW s \in Procs, CreateRow(s) PROVE Typed'
  <2>1. row' \in Rows /\ card' \in Cards
    <3>1. p[s].mem \in Rows BY Fields
    <3> QED BY <3>1, <1>17 DEF CreateRow, Shown, Cards, Rows
  <2> QED BY <1>17, <2>1 DEF CreateRow
<1>18. ASSUME NEW s \in Procs, KeepRow(s) PROVE Typed' BY <1>18 DEF KeepRow, Done
<1>19. ASSUME NEW s \in Procs, Update(s) PROVE Typed'
  <2>1. row' \in Rows BY <1>19, KeptRow
  <2>2. p[s].view.turn \in Turns /\ p[s].view.status \in {"inProgress", "completed"} BY Fields, ViewFacts
  <2>3. card' \in Cards
    <3>1. [turn |-> p[s].view.turn, status |-> p[s].view.status] \in Cards BY <2>2, TurnRange DEF Cards
    <3> QED BY <3>1, <1>19 DEF Update
  <2> QED BY <1>19, <2>1, <2>3 DEF Update
<1>20. ASSUME NEW s \in Procs, Decide(s) PROVE Typed' BY <1>20 DEF Decide, Done
<1>21. ASSUME NEW s \in Procs, SendFinal(s) PROVE Typed'
  <2>1. finals' \in [Finals -> 0..2] BY <1>21, <1>a DEF SendFinal
  <2> QED BY <1>21, <2>1 DEF SendFinal
<1>22. ASSUME NEW s \in Procs, RecordFinal(s) PROVE Typed'
  <2>1. p[s].fin \in Finals BY <1>22 DEF RecordFinal, Carried
  <2>2. row' \in Rows BY <1>22, <2>1, FinalFacts DEF RecordFinal
  <2>3. lock' \in Procs \cup {Nobody} BY <1>22 DEF RecordFinal, Done
  <2> QED BY <1>22, <2>1, <2>2, <2>3 DEF RecordFinal
<1>23. ASSUME NEW s \in Procs, Fault(s) PROVE Typed' BY <1>23 DEF Fault, Done
<1>24. CASE UNCHANGED vars BY <1>24
<1> QED BY <1>1, <1>2, <1>3, <1>4, <1>5, <1>6, <1>7, <1>8, <1>9, <1>10, <1>11, <1>12, <1>13, <1>14, <1>15,
           <1>16, <1>17, <1>18, <1>19, <1>20, <1>21, <1>22, <1>23, <1>24 DEF Next, Step, CardStep

\* Every step keeps panelMu with the goroutine that is in the sync.
LEMMA HeldStep == Inv /\ [Next]_vars => Held'
<1> SUFFICES ASSUME Inv, [Next]_vars PROVE Held' OBVIOUS
<1> USE DEF Inv, Places, Typed, Held, Carried, Inside, Outside, States, thread, stored, sent, spent, vars, Goto
<1>1. CASE UserTurn BY <1>1, Starts, PanelAssumption DEF UserTurn, NextTurn
<1>2. CASE TurnEnds BY <1>2, Starts, PanelAssumption DEF TurnEnds
<1>3. CASE AnswerAppears BY <1>3, Starts, PanelAssumption DEF AnswerAppears
<1>4. CASE Crash BY <1>4, Starts, PanelAssumption DEF Crash
<1>5. ASSUME NEW s \in Procs, Poll(s) PROVE Held' BY <1>5, Starts, PanelAssumption DEF Poll
<1>6. ASSUME NEW s \in Procs, ChatTurn(s) PROVE Held' BY <1>6, Starts, PanelAssumption DEF ChatTurn, NextTurn
<1>7. ASSUME NEW s \in Procs, Press(s) PROVE Held' BY <1>7, Starts, PanelAssumption DEF Press
<1>8. ASSUME NEW s \in Procs, Lock(s) PROVE Held'
  <2>1. lock' = s /\ lock = Nobody /\ Nobody \notin Procs BY <1>8, PanelAssumption DEF Lock, Procs
  <2>2. p'[s].at \in {"send", "ensure"} BY <1>8 DEF Lock
  <2>3. \A q \in Procs : q # s => p'[q] = p[q] BY <1>8 DEF Lock
  <2> QED BY <2>1, <2>2, <2>3
<1>9. ASSUME NEW s \in Procs, Mark(s) PROVE Held' BY <1>9, Starts, PanelAssumption DEF Mark
<1>10. ASSUME NEW s \in Procs, Read(s) PROVE Held' BY <1>10, Starts, PanelAssumption DEF Read
<1>11. ASSUME NEW s \in Procs, Store(s) PROVE Held' BY <1>11, Starts, PanelAssumption DEF Store
<1>12. ASSUME NEW s \in Procs, Seed(s) PROVE Held' BY <1>12, Starts, PanelAssumption DEF Seed
<1>13. ASSUME NEW s \in Procs, Load(s) PROVE Held' BY <1>13, Starts, PanelAssumption DEF Load
<1>14. ASSUME NEW s \in Procs, Choose(s) PROVE Held'
  <2>1. CASE row.turn = p[s].view.turn BY <2>1, <1>14, Starts, PanelAssumption DEF Choose
  <2>2. CASE ~(row.turn = p[s].view.turn) BY <2>2, <1>14, Starts, PanelAssumption DEF Choose
  <2> QED BY <2>1, <2>2
<1>15. ASSUME NEW s \in Procs, Redraw(s) PROVE Held'
  <2>1. p'[s].at \in {"update"} /\ lock' = lock /\ \A q \in Procs : q # s => p'[q] = p[q] BY <1>15 DEF Redraw
  <2>2. \A q \in Procs : p'[q].at \in Inside => lock = q
    <3>1. p'[s].at \in Inside => lock = s BY <1>15, <2>1 DEF Redraw
    <3> QED BY <2>1, <3>1
  <2> QED BY <2>1, <2>2, PanelAssumption DEF Procs
<1>16. ASSUME NEW s \in Procs, CardStep(s) PROVE Held'
  <2>1. PICK m \in Rows, w \in Points : CardMove(s, m, w) BY <1>16, CardMoves
  <2>2. p'[s].at = w /\ \A q \in Procs : q # s => p'[q] = p[q] BY <2>1 DEF CardMove
  <2> QED BY <2>1, <2>2, PanelAssumption DEF Procs, CardMove
<1>17. ASSUME NEW s \in Procs, CreateRow(s) PROVE Held' BY <1>17, Starts, PanelAssumption DEF CreateRow
<1>18. ASSUME NEW s \in Procs, KeepRow(s) PROVE Held'
  <2>1. CASE Settled(row, p[s].view) \/ (LegacyReplay(row, p[s].view) /\ Recorded(row, Text(p[s].view.turn))) BY <2>1, <1>18, Starts, PanelAssumption DEF KeepRow, Done
  <2>2. CASE ~(Settled(row, p[s].view) \/ (LegacyReplay(row, p[s].view) /\ Recorded(row, Text(p[s].view.turn)))) BY <2>2, <1>18, Starts, PanelAssumption DEF KeepRow, Done
  <2> QED BY <2>1, <2>2
<1>19. ASSUME NEW s \in Procs, Update(s) PROVE Held'
  <2>1. p'[s].at \in {"final"} /\ lock' = lock /\ \A q \in Procs : q # s => p'[q] = p[q] BY <1>19 DEF Update
  <2>2. \A q \in Procs : p'[q].at \in Inside => lock = q
    <3>1. p'[s].at \in Inside => lock = s BY <1>19, <2>1 DEF Update
    <3> QED BY <2>1, <3>1
  <2> QED BY <2>1, <2>2, PanelAssumption DEF Procs
<1>20. ASSUME NEW s \in Procs, Decide(s) PROVE Held' BY <1>20, Starts, PanelAssumption DEF Decide, Done
<1>21. ASSUME NEW s \in Procs, SendFinal(s) PROVE Held' BY <1>21, Starts, PanelAssumption DEF SendFinal, More
<1>22. ASSUME NEW s \in Procs, RecordFinal(s) PROVE Held'
  <2>1. CASE p[s].fin[1] # p[s].view.turn BY <2>1, <1>22, Starts, PanelAssumption DEF RecordFinal, Done
  <2>2. CASE ~(p[s].fin[1] # p[s].view.turn) BY <2>2, <1>22, Starts, PanelAssumption DEF RecordFinal, Done
  <2> QED BY <2>1, <2>2
<1>23. ASSUME NEW s \in Procs, Fault(s) PROVE Held' BY <1>23, Starts, PanelAssumption DEF Fault, Done, AfterFailure
<1>24. CASE UNCHANGED vars BY <1>24
<1> QED BY <1>1, <1>2, <1>3, <1>4, <1>5, <1>6, <1>7, <1>8, <1>9, <1>10, <1>11, <1>12, <1>13, <1>14, <1>15, <1>16, <1>17, <1>18, <1>19, <1>20, <1>21, <1>22, <1>23, <1>24 DEF Next, Step, CardStep

\* Every step leaves each goroutine with what its next step uses.
LEMMA CarriedStep == Inv /\ [Next]_vars => Carried'
<1> SUFFICES ASSUME Inv, [Next]_vars PROVE Carried' OBVIOUS
<1> USE DEF Inv, Typed, Held, Places, States, Carried, Inside, Outside, Answered, Ended, thread, stored, sent, spent, vars, Goto
<1>1. CASE UserTurn BY <1>1, Starts DEF UserTurn, NextTurn
<1>2. CASE TurnEnds BY <1>2, Starts DEF TurnEnds
<1>3. CASE AnswerAppears BY <1>3, Starts DEF AnswerAppears
<1>4. CASE Crash BY <1>4, Starts DEF Crash
<1>5. ASSUME NEW s \in Procs, Poll(s) PROVE Carried' BY <1>5, Starts DEF Poll
<1>6. ASSUME NEW s \in Procs, ChatTurn(s) PROVE Carried' BY <1>6, Starts DEF ChatTurn, NextTurn
<1>7. ASSUME NEW s \in Procs, Press(s) PROVE Carried' BY <1>7, Starts DEF Press
<1>8. ASSUME NEW s \in Procs, Lock(s) PROVE Carried'
  <2>1. lock' = s /\ lock = Nobody /\ Nobody \notin Procs /\ fromChat' = fromChat BY <1>8, PanelAssumption DEF Lock, Procs
  <2>2. \A q \in Procs : q # s => p'[q] = p[q] BY <1>8 DEF Lock
  <2>3. CASE Superseded(row, p[s].view) /\ ~Recorded(row, Text(row.turn))
    <3>1. row.turn \in Turns /\ row.turn # p[s].view.turn BY <2>3, Fields, ViewFacts DEF Superseded
    <3>2. p'[s].at = "send" /\ p'[s].fin = Text(row.turn) /\ p'[s].view = p[s].view BY <2>3, <1>8 DEF Lock
    <3>3. Text(row.turn) \in Finals /\ Text(row.turn)[1] = row.turn BY <3>1, FinalFacts
    <3> QED BY <2>1, <2>2, <3>1, <3>2, <3>3
  <2>4. CASE ~(Superseded(row, p[s].view) /\ ~Recorded(row, Text(row.turn)))
    <3>1. p'[s].at = "ensure" BY <2>4, <1>8 DEF Lock
    <3> QED BY <2>1, <2>2, <3>1
  <2> QED BY <2>3, <2>4
<1>9. ASSUME NEW s \in Procs, Mark(s) PROVE Carried' BY <1>9, Starts DEF Mark
<1>10. ASSUME NEW s \in Procs, Read(s) PROVE Carried' BY <1>10, Starts DEF Read
<1>11. ASSUME NEW s \in Procs, Store(s) PROVE Carried' BY <1>11, Starts DEF Store
<1>12. ASSUME NEW s \in Procs, Seed(s) PROVE Carried' BY <1>12, Starts DEF Seed
<1>13. ASSUME NEW s \in Procs, Load(s) PROVE Carried' BY <1>13, Starts DEF Load
<1>14. ASSUME NEW s \in Procs, Choose(s) PROVE Carried'
  <2>1. CASE row.turn = p[s].view.turn BY <2>1, <1>14, Starts DEF Choose
  <2>2. CASE ~(row.turn = p[s].view.turn) BY <2>2, <1>14, Starts DEF Choose
  <2> QED BY <2>1, <2>2
<1>15. ASSUME NEW s \in Procs, Redraw(s) PROVE Carried'
  <2>0. PICK m \in Rows : p' = [p EXCEPT ![s].mem = m, ![s].at = "update"] BY <1>15, RedrawnRow
  <2>1. p'[s].at \in {"update"} /\ \A q \in Procs : q # s => p'[q] = p[q] BY <2>0 DEF Places, States
  <2>2. lock' = lock /\ fromChat' = fromChat BY <1>15 DEF Redraw
  <2> QED BY <2>1, <2>2
<1>16. ASSUME NEW s \in Procs, CardStep(s) PROVE Carried'
  <2>1. PICK m \in Rows, w \in Points : CardMove(s, m, w) BY <1>16, CardMoves
  <2>2. p'[s].at = w /\ \A q \in Procs : q # s => p'[q] = p[q] BY <2>1 DEF CardMove
  <2> QED BY <2>1, <2>2 DEF CardMove
<1>17. ASSUME NEW s \in Procs, CreateRow(s) PROVE Carried' BY <1>17, Starts DEF CreateRow
<1>18. ASSUME NEW s \in Procs, KeepRow(s) PROVE Carried'
  <2>1. CASE Settled(row, p[s].view) \/ (LegacyReplay(row, p[s].view) /\ Recorded(row, Text(p[s].view.turn))) BY <2>1, <1>18, Starts DEF KeepRow, Done
  <2>2. CASE ~(Settled(row, p[s].view) \/ (LegacyReplay(row, p[s].view) /\ Recorded(row, Text(p[s].view.turn)))) BY <2>2, <1>18, Starts DEF KeepRow, Done
  <2> QED BY <2>1, <2>2
<1>19. ASSUME NEW s \in Procs, Update(s) PROVE Carried'
  <2>1. p'[s].at \in {"final"} /\ \A q \in Procs : q # s => p'[q] = p[q] BY <1>19 DEF Update
  <2>2. lock' = lock /\ fromChat' = fromChat BY <1>19 DEF Update
  <2> QED BY <2>1, <2>2
<1>20. ASSUME NEW s \in Procs, Decide(s) PROVE Carried'
  <2> DEFINE f == IF Answered(p[s].view) THEN Text(p[s].view.turn) ELSE Gap(p[s].view.turn)
  <2>1. CASE Done(s) BY <2>1, <1>20, Starts DEF Decide, Done
  <2>2. CASE p' = [p EXCEPT ![s].at = "send", ![s].fin = f] /\ UNCHANGED lock
    <3>1. f \in Finals /\ f[1] = p[s].view.turn /\ (Answered(p[s].view) => f = Text(p[s].view.turn))
      BY Fields, ViewFacts, FinalFacts
    <3>2. p'[s].at = "send" /\ p'[s].fin = f /\ p'[s].view = p[s].view BY <2>2
    <3>3. \A q \in Procs : q # s => p'[q] = p[q] BY <2>2
    <3> HIDE DEF f
    <3> QED BY <2>2, <3>1, <3>2, <3>3, <1>20 DEF Decide
  <2> QED BY <2>1, <2>2, <1>20 DEF Decide
<1>21. ASSUME NEW s \in Procs, SendFinal(s) PROVE Carried' BY <1>21, Starts DEF SendFinal, More
<1>22. ASSUME NEW s \in Procs, RecordFinal(s) PROVE Carried'
  <2>1. CASE p[s].fin[1] # p[s].view.turn BY <2>1, <1>22, Starts DEF RecordFinal, Done
  <2>2. CASE ~(p[s].fin[1] # p[s].view.turn) BY <2>2, <1>22, Starts DEF RecordFinal, Done
  <2> QED BY <2>1, <2>2
<1>23. ASSUME NEW s \in Procs, Fault(s) PROVE Carried' BY <1>23, Starts DEF Fault, Done, AfterFailure
<1>24. CASE UNCHANGED vars BY <1>24
<1> QED BY <1>1, <1>2, <1>3, <1>4, <1>5, <1>6, <1>7, <1>8, <1>9, <1>10, <1>11, <1>12, <1>13, <1>14, <1>15, <1>16, <1>17, <1>18, <1>19, <1>20, <1>21, <1>22, <1>23, <1>24 DEF Next, Step, CardStep

\* Every step keeps fingerprints in rows and copies among those with a route.
LEMMA FiledStep == Inv /\ [Next]_vars => Filed'
<1> SUFFICES ASSUME Inv, [Next]_vars PROVE Filed' OBVIOUS
<1> USE DEF Inv, Typed, Places, States, Filed, thread, stored, sent, spent, vars, Goto
<1>1. CASE UserTurn BY <1>1 DEF UserTurn, NextTurn
<1>2. CASE TurnEnds BY <1>2 DEF TurnEnds
<1>3. CASE AnswerAppears BY <1>3 DEF AnswerAppears
<1>4. CASE Crash BY <1>4, Starts DEF Crash
<1>5. ASSUME NEW s \in Procs, Poll(s) PROVE Filed' BY <1>5, Starts DEF Poll
<1>6. ASSUME NEW s \in Procs, ChatTurn(s) PROVE Filed' BY <1>6, Starts DEF ChatTurn, NextTurn
<1>7. ASSUME NEW s \in Procs, Press(s) PROVE Filed' BY <1>7 DEF Press
<1>8. ASSUME NEW s \in Procs, Lock(s) PROVE Filed' BY <1>8 DEF Lock, Superseded, Recorded
<1>9. ASSUME NEW s \in Procs, Mark(s) PROVE Filed' BY <1>9 DEF Mark
<1>10. ASSUME NEW s \in Procs, Read(s) PROVE Filed' BY <1>10 DEF Read
<1>11. ASSUME NEW s \in Procs, Store(s) PROVE Filed' BY <1>11 DEF Store
<1>12. ASSUME NEW s \in Procs, Seed(s) PROVE Filed' BY <1>12 DEF Seed
<1>13. ASSUME NEW s \in Procs, Load(s) PROVE Filed' BY <1>13 DEF Load
<1>14. ASSUME NEW s \in Procs, Choose(s) PROVE Filed'
  <2>1. CASE row.turn = p[s].view.turn BY <2>1, <1>14 DEF Choose
  <2>2. CASE ~(row.turn = p[s].view.turn) BY <2>2, <1>14 DEF Choose
  <2> QED BY <2>1, <2>2
<1>15. ASSUME NEW s \in Procs, Redraw(s) PROVE Filed'
  <2>1. PICK m \in Rows : /\ p' = [p EXCEPT ![s].mem = m, ![s].at = "update"] /\ m.fp \in {NoFinal, p[s].mem.fp}
                          /\ row' \in Rows /\ row'.fp = row.fp
    BY <1>15, RedrawnRow
  <2>2. p'[s].mem = m /\ \A q \in Procs : q # s => p'[q] = p[q] BY <2>1
  <2> QED BY <2>1, <2>2, <1>15 DEF Redraw
<1>16. ASSUME NEW s \in Procs, CardStep(s) PROVE Filed'
  <2>1. PICK m \in Rows, w \in Points : CardMove(s, m, w) BY <1>16, CardMoves
  <2>2. p'[s].mem = m /\ \A q \in Procs : q # s => p'[q] = p[q] BY <2>1 DEF CardMove
  <2> QED BY <2>1, <2>2 DEF CardMove
<1>17. ASSUME NEW s \in Procs, CreateRow(s) PROVE Filed' BY <1>17 DEF CreateRow
<1>18. ASSUME NEW s \in Procs, KeepRow(s) PROVE Filed'
  <2>1. \A q \in Procs : p'[q].mem \in {p[q].mem, row, NoRow}
    <3>1. CASE p' = [p EXCEPT ![s] = Idle] BY <3>1, Starts
    <3>2. CASE p' = [p EXCEPT ![s].mem = row, ![s].cur = TRUE, ![s].at = IF LegacyReplay(row, p[s].view) THEN "final" ELSE "update"]
      BY <3>2
    <3> QED BY <3>1, <3>2, <1>18 DEF KeepRow, Done
  <2>2. NoRow.fp = NoFinal BY Starts
  <2> QED BY <2>1, <2>2, <1>18 DEF KeepRow
<1>19. ASSUME NEW s \in Procs, Update(s) PROVE Filed'
  <2>1. PICK m \in Rows : /\ p' = [p EXCEPT ![s].mem = m, ![s].at = "final"] /\ m.fp = p[s].mem.fp
                          /\ row' \in Rows /\ row'.fp \in {row.fp, m.fp}
    BY <1>19, KeptRow
  <2>2. p'[s].mem = m /\ \A q \in Procs : q # s => p'[q] = p[q] BY <2>1
  <2> QED BY <2>1, <2>2, <1>19 DEF Update
<1>20. ASSUME NEW s \in Procs, Decide(s) PROVE Filed'
  <2>1. \A q \in Procs : p'[q].mem \in {p[q].mem, NoRow}
    <3>1. CASE p' = [p EXCEPT ![s] = Idle] BY <3>1, Starts
    <3>2. CASE \E f : p' = [p EXCEPT ![s].at = "send", ![s].fin = f] BY <3>2
    <3> QED BY <3>1, <3>2, <1>20 DEF Decide, Done
  <2>2. NoRow.fp = NoFinal BY Starts
  <2> QED BY <2>1, <2>2, <1>20 DEF Decide
<1>21. ASSUME NEW s \in Procs, SendFinal(s) PROVE Filed' BY <1>21 DEF SendFinal, More
<1>22. ASSUME NEW s \in Procs, RecordFinal(s) PROVE Filed'
  <2>1. \A q \in Procs : p'[q].mem \in {p[q].mem, NoRow}
    <3>1. CASE p' = [p EXCEPT ![s] = Idle] BY <3>1, Starts
    <3>2. CASE p' = [p EXCEPT ![s].at = "ensure", ![s].fin = NoFinal] BY <3>2
    <3> QED BY <3>1, <3>2, <1>22 DEF RecordFinal, Done
  <2>2. NoRow.fp = NoFinal BY Starts
  <2>3. row'.fp \in {row.fp, p[s].fin}
    <3>1. p[s].fin \in Finals BY <1>22 DEF RecordFinal, Carried
    <3> QED BY <3>1, <1>22, FinalFacts DEF RecordFinal
  <2>4. routes' = routes \cup {p[s].fin} BY <1>22 DEF RecordFinal
  <2> QED BY <2>1, <2>2, <2>3, <2>4
<1>23. ASSUME NEW s \in Procs, Fault(s) PROVE Filed'
  <2>1. \A q \in Procs : p'[q].mem \in {p[q].mem, NoRow}
    <3>1. CASE p' = [p EXCEPT ![s] = Idle] BY <3>1, Starts
    <3>2. CASE p' = [p EXCEPT ![s].at = AfterFailure(s)] BY <3>2
    <3> QED BY <3>1, <3>2, <1>23 DEF Fault, Done
  <2>2. NoRow.fp = NoFinal BY Starts
  <2> QED BY <2>1, <2>2, <1>23 DEF Fault
<1>24. CASE UNCHANGED vars BY <1>24
<1> QED BY <1>1, <1>2, <1>3, <1>4, <1>5, <1>6, <1>7, <1>8, <1>9, <1>10, <1>11, <1>12, <1>13, <1>14, <1>15, <1>16, <1>17, <1>18, <1>19, <1>20, <1>21, <1>22, <1>23, <1>24 DEF Next, Step, CardStep

\* Inv holds initially.
LEMMA InvInit == Init => Inv
<1> SUFFICES ASSUME Init PROVE Inv OBVIOUS
<1> USE DEF Init
<1>1. Start \in Views /\ NoRow \in Rows /\ NoRow.fp = NoFinal /\ Idle \in States /\ Idle.at = "idle" /\ Idle.mem = NoRow
  BY Starts
<1>2. Places BY <1>1 DEF Places
<1>3. Typed
  <2>1. card \in Cards BY PanelAssumption DEF Cards
  <2>2. finals \in [Finals -> 0..2] /\ progress \in [Turns -> 0..2] /\ notices \in [Turns -> 0..2] OBVIOUS
  <2> QED BY <1>1, <2>1, <2>2 DEF Typed
<1>4. Held BY <1>1 DEF Held, Inside
<1>5. Carried BY <1>1 DEF Carried
<1>6. Filed BY <1>1 DEF Filed
<1> QED BY <1>2, <1>3, <1>4, <1>5, <1>6 DEF Inv

\* Inv is inductive.
LEMMA InvStep == Inv /\ [Next]_vars => Inv'
BY PlacesStep, TypedStep, HeldStep, CarriedStep, FiledStep DEF Inv

\* Inv holds in every reachable state.
LEMMA InvAlways == Spec => []Inv
BY InvInit, InvStep, PTL DEF Spec

\* Every variable of syncThreadPanelToTargetWithPending's state keeps its type, whoever is at a
\* step only a sync takes holds panelMu, and its holder is in the sync.
THEOREM TypeCorrect == Spec => []TypeOK
<1>1. Inv => TypeOK BY DEF Inv, TypeOK, Places, Typed, Held, Inside, Cards
<1> QED BY <1>1, InvAlways, PTL

(***************************************************************************)
(* What the invariant gives.                                               *)
(***************************************************************************)
\* finalCardAlreadyRecorded is right for a row whose fingerprint has a route: it says yes exactly
\* when the card has a route.
LEMMA RecordedIsRouted ==
  ASSUME NEW r \in Rows, NEW f \in Finals, r.fp \in routes \cup {NoFinal}
  PROVE  Recorded(r, f) <=> f \in routes
BY FinalFacts DEF Recorded

\* The steps by which a sync ends by itself leave the answer of its view with a route.
LEMMA EndedSyncs ==
  Inv /\ [Next]_vars =>
    \A s \in Procs : /\ p[s].at \in {"ensure", "final", "record"} /\ p'[s].at = "idle"
                     /\ faults' = faults /\ crashes' = crashes /\ Answered(p[s].view)
                     => Text(p[s].view.turn) \in routes'
<1> SUFFICES ASSUME Inv, [Next]_vars, NEW s \in Procs, p[s].at \in {"ensure", "final", "record"}, p'[s].at = "idle",
                    faults' = faults, crashes' = crashes, Answered(p[s].view)
             PROVE  Text(p[s].view.turn) \in routes'
  OBVIOUS
<1> DEFINE f == Text(p[s].view.turn)
<1>1. f \in Finals /\ row \in Rows /\ p[s].mem \in Rows BY Fields, ViewFacts, FinalFacts DEF Inv, Typed
<1>2. /\ Recorded(row, f) <=> f \in routes
      /\ Recorded(p[s].mem, f) <=> f \in routes
  BY <1>1, RecordedIsRouted DEF Inv, Filed
<1>3. KeepRow(s) \/ Decide(s) \/ RecordFinal(s)
  <2>1. CASE UNCHANGED vars BY <2>1 DEF vars
  <2>2. CASE UserTurn \/ TurnEnds \/ AnswerAppears BY <2>2 DEF UserTurn, TurnEnds, AnswerAppears
  <2>3. CASE Crash BY <2>3, PanelAssumption DEF Crash
  <2>4. ASSUME NEW q \in Procs, Fault(q) PROVE FALSE BY <2>4, PanelAssumption DEF Fault
  <2>5. ASSUME NEW q \in Procs, Poll(q) \/ ChatTurn(q) \/ Press(q) \/ Lock(q) PROVE FALSE
    BY <2>5 DEF Poll, ChatTurn, Press, Lock, Inv, Places, States, Goto
  <2>6. ASSUME NEW q \in Procs, Mark(q) \/ Read(q) \/ Store(q) \/ Seed(q) \/ Load(q) \/ Choose(q) \/ Redraw(q) PROVE FALSE
    BY <2>6 DEF Mark, Read, Store, Seed, Load, Choose, Redraw, Inv, Places, States, Goto
  <2>9. ASSUME NEW q \in Procs, CardStep(q) PROVE FALSE
    <3>1. PICK m \in Rows, w \in Points : CardMove(q, m, w) BY <2>9, CardMoves DEF Inv
    <3> QED BY <3>1 DEF CardMove, Inv, Places, States, Outside
  <2>7. ASSUME NEW q \in Procs, CreateRow(q) \/ Update(q) \/ SendFinal(q) PROVE FALSE
    BY <2>7 DEF CreateRow, Update, SendFinal, Inv, Places, States, Goto
  <2>8. ASSUME NEW q \in Procs, KeepRow(q) \/ Decide(q) \/ RecordFinal(q) PROVE q = s
    BY <2>8 DEF KeepRow, Decide, RecordFinal, Done, Inv, Places, States, Goto
  <2> QED BY <2>1, <2>2, <2>3, <2>4, <2>5, <2>6, <2>7, <2>8, <2>9 DEF Next, Step, CardStep
<1>4. CASE KeepRow(s)
  <2>1. Settled(row, p[s].view) \/ Recorded(row, f)
    BY <1>4, <1>3 DEF KeepRow, Inv, Places, States
  <2> QED BY <2>1, <1>2, <1>4 DEF KeepRow, Settled, stored
<1>5. CASE Decide(s)
  <2>1. Recorded(p[s].mem, f) BY <1>5 DEF Decide, Answered, Inv, Places, States
  <2> QED BY <2>1, <1>2, <1>5 DEF Decide, stored
<1>6. CASE RecordFinal(s)
  <2>1. p[s].fin[1] = p[s].view.turn BY <1>6 DEF RecordFinal, Inv, Places, States
  <2>2. p[s].fin = f BY <2>1, <1>6 DEF Inv, Carried, RecordFinal
  <2> QED BY <2>2, <1>6 DEF RecordFinal
<1> QED BY <1>3, <1>4, <1>5, <1>6

\* A sync or a press that ends by itself, by any of the early returns, leaves the answer of its
\* view with a message route: finalCardAlreadyRecorded never says yes of a card that was not sent.
THEOREM SyncsShowAnswers == Spec => SyncShowsAnswer
<1>1. Inv /\ [Next]_vars => AnswerIsOut BY EndedSyncs DEF AnswerIsOut
<1> QED BY <1>1, InvAlways, PTL DEF Spec, SyncShowsAnswer

(***************************************************************************)
(* Final cards before Refresh is pressed.                                  *)
(***************************************************************************)
\* Presses are counted up: as long as there are none there were none.
LEMMA PressesStep == Inv /\ [Next]_vars /\ presses' = 0 => presses = 0
<1> SUFFICES ASSUME Inv, [Next]_vars, presses' = 0 PROVE presses = 0 OBVIOUS
<1> USE DEF thread, stored, sent, spent, vars, Goto
<1>1. presses \in Nat BY DEF Inv, Typed
<1>2. ASSUME NEW s \in Procs, Press(s) PROVE FALSE BY <1>1, <1>2 DEF Press
<1>3. CASE UserTurn \/ TurnEnds \/ AnswerAppears \/ Crash \/ UNCHANGED vars
  BY <1>3 DEF UserTurn, TurnEnds, AnswerAppears, Crash
<1>4. ASSUME NEW s \in Procs, Poll(s) \/ ChatTurn(s) \/ Lock(s) \/ Fault(s) PROVE presses = 0
  BY <1>4 DEF Poll, ChatTurn, Lock, Fault
<1>5. ASSUME NEW s \in Procs, Step(s) PROVE presses = 0
  BY <1>5 DEF Step, Mark, Read, Store, Seed, Load, Choose, Redraw, SendNotice, RouteNotice, SendCards, UpdateNotice,
           RecordNotice, CreateRow, KeepRow, Update, Decide, SendFinal, RecordFinal
<1> QED BY <1>2, <1>3, <1>4, <1>5 DEF Next

\* Before the first press every step keeps panelMu with the one who is past it.
LEMMA AloneStep == Inv /\ Alone /\ presses' = 0 /\ [Next]_vars => Alone'
<1> SUFFICES ASSUME Inv, Alone, presses' = 0, [Next]_vars PROVE Alone' OBVIOUS
<1> USE DEF Alone, Outside, thread, stored, sent, spent, vars, Goto
<1>a. p \in [Procs -> States] /\ Nobody \notin Procs BY PanelAssumption DEF Inv, Places, Procs
<1>b. Idle.at = "idle" BY Starts
<1>c. \A q \in Procs : p[q].at # "choose" /\ p[q].at # "press" OBVIOUS
<1>d. ASSUME NEW s \in Procs, Press(s) PROVE FALSE
  <2>1. presses \in Nat BY DEF Inv, Typed
  <2> QED BY <2>1, <1>d DEF Press
<1>e. ASSUME NEW s \in Procs, Poll(s) \/ ChatTurn(s) \/ p[s].at # "idle" PROVE s \notin Buttons
  BY <1>e, PanelAssumption DEF Poll, ChatTurn
<1>1. CASE UserTurn \/ TurnEnds \/ AnswerAppears \/ UNCHANGED vars BY <1>1 DEF UserTurn, TurnEnds, AnswerAppears
<1>2. CASE Crash BY <1>2, <1>b DEF Crash
<1>3. ASSUME NEW s \in Procs, Poll(s) \/ ChatTurn(s) \/ Mark(s) \/ Read(s) \/ Store(s) \/ Seed(s) \/ Load(s)
      PROVE  Alone'
  <2>1. \A q \in Procs : q # s => p'[q] = p[q]
    <3>1. CASE Poll(s) BY <3>1, <1>a DEF Poll
    <3>2. CASE ChatTurn(s)
      <4>1. \E r : p' = [p EXCEPT ![s] = r] BY <3>2 DEF ChatTurn
      <4> QED BY <4>1, <1>a
    <3>3. CASE Mark(s) \/ Read(s) \/ Store(s) \/ Seed(s) \/ Load(s)
      BY <3>3, <1>a DEF Mark, Read, Store, Seed, Load
    <3> QED BY <1>3, <3>1, <3>2, <3>3
  <2>2. lock' = lock BY <1>3 DEF Poll, ChatTurn, Mark, Read, Store, Seed, Load
  <2>4. s \notin Buttons BY <1>3, <1>e DEF Mark, Read, Store, Seed, Load
  <2>3. p'[s].at \in {"store", "mark", "read", "seed", "load", "lock"}
    <3>1. CASE Poll(s) BY <3>1, <1>a, Starts DEF Poll, States
    <3>4. CASE ChatTurn(s) BY <3>4, <1>a, Starts DEF ChatTurn, States
    <3>2. CASE Mark(s) \/ Read(s) \/ Store(s) \/ Seed(s) BY <3>2, <1>a DEF Mark, Read, Store, Seed, States
    <3>3. CASE Load(s) BY <3>3, <2>4, <1>a DEF Load, States
    <3> QED BY <1>3, <3>1, <3>2, <3>3, <3>4
  <2> QED BY <2>1, <2>2, <2>3, <2>4
<1>4. ASSUME NEW s \in Procs, Choose(s) PROVE FALSE
  <2>1. p[s].at = "choose" BY <1>4 DEF Choose
  <2> QED BY <1>c, <2>1
<1>5. ASSUME NEW s \in Procs, Redraw(s) PROVE FALSE
  <2>1. p[s].at = "press" BY <1>5 DEF Redraw
  <2> QED BY <1>c, <2>1
<1>6. ASSUME NEW s \in Procs, Lock(s) PROVE Alone'
  <2>1. lock' = s /\ lock = Nobody /\ \A q \in Procs : q # s => p'[q] = p[q] BY <1>6, <1>a DEF Lock
  <2>2. p'[s].at \in {"send", "ensure"} /\ s \notin Buttons BY <1>6, <1>a, <1>e DEF Lock, States
  <2> QED BY <2>1, <2>2, <1>a
<1>7. ASSUME NEW s \in Procs, CreateRow(s) \/ Update(s) \/ SendFinal(s) PROVE Alone'
  <2>1. lock = s /\ lock' = s BY <1>7 DEF CreateRow, Update, SendFinal
  <2>2. \A q \in Procs : q # s => p'[q].at = p[q].at
    BY <1>7, <1>a DEF CreateRow, Update, SendFinal, States
  <2>3. p'[s].at \notin {"choose", "press"}
    <3>2. CASE CreateRow(s)
      <4>1. p'[s] = [p[s] EXCEPT !.cur = TRUE, !.at = IF p[s].at = "create" THEN "update" ELSE "reupdate"]
        BY <3>2, <1>a DEF CreateRow, States
      <4> QED BY <4>1, <1>a DEF States
    <3>3. CASE Update(s) BY <3>3, <1>a DEF Update, States
    <3>4. CASE SendFinal(s) BY <3>4, <1>a DEF SendFinal, States
    <3> QED BY <1>7, <3>2, <3>3, <3>4
  <2>4. s \notin Buttons BY <1>7, <1>e DEF CreateRow, Update, SendFinal
  <2> QED BY <2>1, <2>2, <2>3, <2>4
<1>11. ASSUME NEW s \in Procs, CardStep(s) PROVE Alone'
  <2>1. PICK m \in Rows, w \in Points : CardMove(s, m, w) BY <1>11, CardMoves DEF Inv
  <2>2. p'[s].at = w /\ \A q \in Procs : q # s => p'[q] = p[q] BY <1>a, <2>1 DEF CardMove, States
  <2>3. s \notin Buttons BY <2>1, <1>e DEF CardMove
  <2> QED BY <2>1, <2>2, <2>3 DEF CardMove
<1>8. ASSUME NEW s \in Procs, Done(s) PROVE Alone' BY <1>8, <1>a, <1>b DEF Done
<1>9. ASSUME NEW s \in Procs, KeepRow(s) \/ Decide(s) \/ RecordFinal(s) PROVE Alone'
  <2>1. CASE Done(s) BY <2>1, <1>8
  <2>3. s \notin Buttons BY <1>9, <1>e DEF KeepRow, Decide, RecordFinal
  <2>2. CASE ~Done(s) BY <2>2, <2>3, <1>9, <1>a DEF KeepRow, Decide, RecordFinal, States
  <2> QED BY <2>1, <2>2
<1>10. ASSUME NEW s \in Procs, Fault(s) PROVE Alone'
  <2>1. CASE Done(s) BY <2>1, <1>8
  <2>3. s \notin Buttons BY <1>10, <1>e DEF Fault, Creates
  <2>2. CASE ~Done(s) BY <2>2, <2>3, <1>10, <1>a DEF Fault, AfterFailure, States
  <2> QED BY <2>1, <2>2
<1> QED BY <1>1, <1>2, <1>d, <1>3, <1>4, <1>5, <1>6, <1>7, <1>9, <1>10, <1>11 DEF Next, Step, CardStep

\* Every step keeps what is about to be sent without a route, if only the lock's holder is past it.
LEMMA UnsentStep == Inv /\ Alone /\ Unsent /\ [Next]_vars => Unsent'
<1> SUFFICES ASSUME Inv, Alone, Unsent, [Next]_vars PROVE Unsent' OBVIOUS
<1> USE DEF Unsent, thread, stored, sent, spent, vars, Goto
<1>a. p \in [Procs -> States] BY DEF Inv, Places
<1>b. Idle.at = "idle" BY Starts
<1>1. CASE UserTurn \/ TurnEnds \/ AnswerAppears \/ UNCHANGED vars BY <1>1 DEF UserTurn, TurnEnds, AnswerAppears
<1>2. CASE Crash BY <1>2, <1>b DEF Crash
<1>3. ASSUME NEW s \in Procs, Poll(s) \/ ChatTurn(s) \/ Press(s) \/ Mark(s) \/ Read(s) \/ Store(s) \/ Seed(s) \/ Load(s)
      PROVE  Unsent'
  <2>1. \A q \in Procs : q # s => p'[q] = p[q]
    <3>1. CASE Poll(s) BY <3>1, <1>a DEF Poll
    <3>2. CASE ChatTurn(s)
      <4>1. \E r : p' = [p EXCEPT ![s] = r] BY <3>2 DEF ChatTurn
      <4> QED BY <4>1, <1>a
    <3>3. CASE Press(s) \/ Mark(s) \/ Read(s) \/ Store(s) \/ Seed(s) \/ Load(s)
      BY <3>3, <1>a DEF Press, Mark, Read, Store, Seed, Load
    <3> QED BY <1>3, <3>1, <3>2, <3>3
  <2>2. routes' = routes BY <1>3 DEF Poll, ChatTurn, Press, Mark, Read, Store, Seed, Load
  <2>3. p'[s].at # "send"
    <3>1. CASE Poll(s) BY <3>1, <1>a, Starts DEF Poll, States
    <3>4. CASE ChatTurn(s) BY <3>4, <1>a, Starts DEF ChatTurn, States
    <3>5. CASE Press(s) BY <3>5, <1>a DEF Press, States
    <3>2. CASE Mark(s) \/ Read(s) \/ Store(s) \/ Seed(s) BY <3>2, <1>a DEF Mark, Read, Store, Seed, States
    <3>3. CASE Load(s) BY <3>3, <1>a DEF Load, States
    <3> QED BY <1>3, <3>1, <3>2, <3>3, <3>4, <3>5
  <2> QED BY <2>1, <2>2, <2>3
<1>4. ASSUME NEW s \in Procs, Choose(s) \/ Redraw(s) PROVE Unsent'
  BY <1>4, <1>a DEF Choose, Redraw, States
<1>5. ASSUME NEW s \in Procs, CreateRow(s) \/ Update(s) \/ SendFinal(s) PROVE Unsent'
  <2>1. routes' = routes BY <1>5 DEF CreateRow, Update, SendFinal
  <2>2. \A q \in Procs : p'[q].at # "send" \/ (p'[q].at = p[q].at /\ p'[q].fin = p[q].fin)
    <3>2. CASE CreateRow(s) BY <3>2, <1>a DEF CreateRow, States
    <3>3. CASE Update(s) BY <3>3, <1>a DEF Update, States
    <3>4. CASE SendFinal(s) BY <3>4, <1>a DEF SendFinal, States
    <3> QED BY <1>5, <3>2, <3>3, <3>4
  <2> QED BY <2>1, <2>2
<1>12. ASSUME NEW s \in Procs, CardStep(s) PROVE Unsent'
  <2>1. PICK m \in Rows, w \in Points : CardMove(s, m, w) BY <1>12, CardMoves DEF Inv
  <2>2. p'[s].at = w /\ \A q \in Procs : q # s => p'[q] = p[q] BY <1>a, <2>1 DEF CardMove, States
  <2> QED BY <2>1, <2>2 DEF CardMove
<1>6. ASSUME NEW s \in Procs, Done(s), routes' = routes PROVE Unsent' BY <1>6, <1>a, <1>b DEF Done
<1>7. ASSUME NEW s \in Procs, Fault(s) PROVE Unsent'
  <2>1. CASE Done(s) BY <2>1, <1>6, <1>7 DEF Fault
  <2>2. CASE ~Done(s) BY <2>2, <1>7, <1>a DEF Fault, AfterFailure, States
  <2> QED BY <2>1, <2>2
<1>8. ASSUME NEW s \in Procs, KeepRow(s) PROVE Unsent'
  <2>1. CASE Done(s) BY <2>1, <1>6, <1>8 DEF KeepRow
  <2>2. CASE ~Done(s) BY <2>2, <1>8, <1>a DEF KeepRow, States
  <2> QED BY <2>1, <2>2
<1>9. ASSUME NEW s \in Procs, Lock(s) PROVE Unsent'
  <2>1. CASE Superseded(row, p[s].view) /\ ~Recorded(row, Text(row.turn))
    <3>1. Text(row.turn) \notin routes BY <2>1 DEF Recorded
    <3>2. p'[s].fin = Text(row.turn) /\ \A q \in Procs : q # s => p'[q] = p[q] BY <2>1, <1>9, <1>a DEF Lock, States
    <3>3. routes' = routes BY <1>9 DEF Lock
    <3> QED BY <3>1, <3>2, <3>3
  <2>2. CASE ~(Superseded(row, p[s].view) /\ ~Recorded(row, Text(row.turn))) BY <2>2, <1>9, <1>a DEF Lock, States
  <2> QED BY <2>1, <2>2
<1>10. ASSUME NEW s \in Procs, Decide(s) PROVE Unsent'
  <2> DEFINE f == IF Answered(p[s].view) THEN Text(p[s].view.turn) ELSE Gap(p[s].view.turn)
  <2>1. CASE Done(s) BY <2>1, <1>6, <1>10 DEF Decide
  <2>2. CASE p' = [p EXCEPT ![s].at = "send", ![s].fin = f] /\ ~Recorded(p[s].mem, f)
    <3>1. f \notin routes BY <2>2 DEF Recorded
    <3>2. p'[s].fin = f /\ \A q \in Procs : q # s => p'[q] = p[q] BY <2>2, <1>a DEF States
    <3> HIDE DEF f
    <3> QED BY <3>1, <3>2, <1>10 DEF Decide
  <2> QED BY <2>1, <2>2, <1>10 DEF Decide
<1>11. ASSUME NEW s \in Procs, RecordFinal(s) PROVE Unsent'
  <2>1. lock = s /\ \A q \in Procs : q # s => p[q].at # "send" BY <1>11 DEF Alone, Outside, RecordFinal
  <2>2. p'[s].at # "send" /\ \A q \in Procs : q # s => p'[q] = p[q]
    <3>1. CASE Done(s) BY <3>1, <1>a, <1>b DEF Done
    <3>2. CASE ~Done(s) BY <3>2, <1>11, <1>a DEF RecordFinal, States
    <3> QED BY <3>1, <3>2
  <2> QED BY <2>1, <2>2
<1> QED BY <1>1, <1>2, <1>3, <1>4, <1>5, <1>7, <1>8, <1>9, <1>10, <1>11, <1>12 DEF Next, Step, CardStep

\* Every step but a crash keeps the count of each card at one.
LEMMA CountedStep == Inv /\ Alone /\ Unsent /\ Counted /\ [Next]_vars => Counted'
<1> SUFFICES ASSUME Inv, Alone, Unsent, Counted, [Next]_vars, crashes' = 0, NEW f \in Finals
             PROVE  finals'[f] <= 1 /\ (finals'[f] # 0 => f \in routes' \/ Recording(f)')
  BY DEF Counted
<1> USE DEF thread, stored, sent, spent, vars, Goto
<1>a. p \in [Procs -> States] /\ crashes \in Nat BY DEF Inv, Places, Typed
<1>b. CASE finals' = finals /\ routes' = routes /\ crashes' = crashes /\ \A s \in Procs : p[s].at = "record" => p'[s] = p[s]
  <2>1. Recording(f) => Recording(f)' BY <1>b DEF Recording
  <2> QED BY <2>1, <1>b DEF Counted
<1>1. CASE UserTurn \/ TurnEnds \/ AnswerAppears \/ UNCHANGED vars BY <1>1, <1>b DEF UserTurn, TurnEnds, AnswerAppears
<1>2. CASE Crash BY <1>2, <1>a, PanelAssumption DEF Crash
<1>3. ASSUME NEW s \in Procs, Poll(s) \/ ChatTurn(s) \/ Press(s) \/ Mark(s) \/ Read(s) \/ Store(s) \/ Seed(s) \/ Load(s)
      PROVE  finals'[f] <= 1 /\ (finals'[f] # 0 => f \in routes' \/ Recording(f)')
  BY <1>3, <1>b, <1>a DEF Poll, ChatTurn, Press, Mark, Read, Store, Seed, Load
<1>4. ASSUME NEW s \in Procs, Choose(s) \/ Redraw(s) \/ Lock(s) \/ Update(s)
      PROVE  finals'[f] <= 1 /\ (finals'[f] # 0 => f \in routes' \/ Recording(f)')
  BY <1>4, <1>b, <1>a DEF Choose, Redraw, Lock, Update
<1>5. ASSUME NEW s \in Procs, KeepRow(s) \/ Decide(s) \/ Fault(s)
      PROVE  finals'[f] <= 1 /\ (finals'[f] # 0 => f \in routes' \/ Recording(f)')
  <2>1. p[s].at # "record" BY <1>5 DEF KeepRow, Decide, Fault, Creates
  <2>2. \A q \in Procs : q # s => p'[q] = p[q] BY <1>5, <1>a DEF KeepRow, Decide, Fault, Done
  <2> QED BY <2>1, <2>2, <1>5, <1>b DEF KeepRow, Decide, Fault
<1>6. ASSUME NEW s \in Procs, CreateRow(s)
      PROVE  finals'[f] <= 1 /\ (finals'[f] # 0 => f \in routes' \/ Recording(f)')
  <2>1. \A q \in Procs : p[q].at = "record" => q = s BY <1>6, PanelAssumption DEF Alone, Outside, CreateRow
  <2> QED BY <2>1, <1>6, <1>b DEF CreateRow
<1>7. ASSUME NEW s \in Procs, SendFinal(s)
      PROVE  finals'[f] <= 1 /\ (finals'[f] # 0 => f \in routes' \/ Recording(f)')
  <2>1. lock = s /\ \A q \in Procs : p[q].at # "record" BY <1>7 DEF Alone, Outside, SendFinal
  <2>2. finals[f] <= 1 /\ (finals[f] # 0 => f \in routes) /\ finals \in [Finals -> 0..2]
    BY <2>1, <1>7 DEF Counted, Recording, SendFinal, Inv, Typed
  <2>3. CASE f = p[s].fin
    <3>1. f \notin routes BY <2>3, <1>7 DEF Unsent, SendFinal
    <3>2. finals[f] = 0 BY <3>1, <2>2
    <3>3. finals'[f] = 1 BY <2>2, <2>3, <3>2, <1>7 DEF SendFinal, More
    <3>4. p'[s].at = "record" /\ p'[s].fin = f BY <2>3, <1>7, <1>a DEF SendFinal, States
    <3> QED BY <3>3, <3>4 DEF Recording
  <2>4. CASE f # p[s].fin
    <3>1. finals'[f] = finals[f] BY <2>2, <2>4, <1>7 DEF SendFinal
    <3> QED BY <3>1, <2>2, <1>7 DEF SendFinal
  <2> QED BY <2>3, <2>4
<1>8. ASSUME NEW s \in Procs, RecordFinal(s)
      PROVE  finals'[f] <= 1 /\ (finals'[f] # 0 => f \in routes' \/ Recording(f)')
  <2>1. \A q \in Procs : p[q].at = "record" => q = s BY <1>8 DEF Alone, Outside, RecordFinal
  <2>2. Recording(f) => f = p[s].fin BY <2>1 DEF Recording
  <2> QED BY <2>2, <1>8 DEF RecordFinal, Counted
<1>9. ASSUME NEW s \in Procs, CardStep(s)
      PROVE  finals'[f] <= 1 /\ (finals'[f] # 0 => f \in routes' \/ Recording(f)')
  <2>1. PICK m \in Rows, w \in Points : CardMove(s, m, w) BY <1>9, CardMoves DEF Inv
  <2>2. \A q \in Procs : p[q].at = "record" => p'[q] = p[q] BY <1>a, <2>1 DEF CardMove
  <2> QED BY <1>b, <2>1, <2>2 DEF CardMove
<1> QED BY <1>1, <1>2, <1>3, <1>4, <1>5, <1>6, <1>7, <1>8, <1>9 DEF Next, Step, CardStep

\* Every step but a crash keeps the count of each user card at one.
LEMMA NoticedStep == Inv /\ Alone /\ Noticed /\ [Next]_vars => Noticed'
<1> SUFFICES ASSUME Inv, Alone, Noticed, [Next]_vars, crashes' = 0, NEW t \in Turns
             PROVE  notices'[t] <= 1 /\ (notices'[t] # 0 => t \in userRoutes' \/ Noting(t)')
  BY DEF Noticed
<1> USE DEF thread, stored, sent, spent, vars, Goto
<1>a. p \in [Procs -> States] /\ crashes \in Nat /\ notices \in [Turns -> 0..2] BY DEF Inv, Places, Typed
<1>b. ASSUME notices' = notices, userRoutes' = userRoutes, crashes' = crashes,
             \A s \in Procs : p[s].at \in Notes => p'[s].at = p[s].at /\ p'[s].view = p[s].view
      PROVE  notices'[t] <= 1 /\ (notices'[t] # 0 => t \in userRoutes' \/ Noting(t)')
  <2>1. Noting(t) => Noting(t)' BY <1>b DEF Noting
  <2> QED BY <2>1, <1>b DEF Noticed
<1>c. \A s, q \in Procs : p[s].at \notin Outside /\ p[q].at \in Notes => q = s BY DEF Alone, Outside, Notes
<1>1. CASE UserTurn \/ TurnEnds \/ AnswerAppears \/ UNCHANGED vars BY <1>1, <1>b DEF UserTurn, TurnEnds, AnswerAppears
<1>2. CASE Crash BY <1>2, <1>a, PanelAssumption DEF Crash
<1>3. ASSUME NEW s \in Procs, Poll(s) \/ ChatTurn(s) \/ Press(s) \/ Mark(s) \/ Read(s) \/ Store(s) \/ Seed(s) \/ Load(s)
      PROVE  notices'[t] <= 1 /\ (notices'[t] # 0 => t \in userRoutes' \/ Noting(t)')
  <2>1. p[s].at \notin Notes /\ UNCHANGED <<notices, userRoutes, crashes>>
    BY <1>3 DEF Poll, ChatTurn, Press, Mark, Read, Store, Seed, Load, Notes
  <2>2. \A q \in Procs : q # s => p'[q] = p[q]
    BY <1>3, <1>a DEF Poll, ChatTurn, Press, Mark, Read, Store, Seed, Load
  <2> QED BY <1>b, <2>1, <2>2
<1>4. ASSUME NEW s \in Procs, Choose(s) \/ Redraw(s) \/ Lock(s) \/ Update(s) \/ KeepRow(s) \/ Decide(s) \/ Fault(s)
                              \/ SendFinal(s) \/ RecordFinal(s)
      PROVE  notices'[t] <= 1 /\ (notices'[t] # 0 => t \in userRoutes' \/ Noting(t)')
  <2>1. p[s].at \notin Notes /\ UNCHANGED <<notices, userRoutes, crashes>>
    BY <1>4 DEF Choose, Redraw, Lock, Update, KeepRow, Decide, Fault, SendFinal, RecordFinal, Creates, Notes
  <2>2. \A q \in Procs : q # s => p'[q] = p[q]
    BY <1>4, <1>a DEF Choose, Redraw, Lock, Update, KeepRow, Decide, Fault, SendFinal, RecordFinal, Done
  <2> QED BY <1>b, <2>1, <2>2
<1>5. ASSUME NEW s \in Procs, CreateRow(s)
      PROVE  notices'[t] <= 1 /\ (notices'[t] # 0 => t \in userRoutes' \/ Noting(t)')
  <2>1. \A q \in Procs : p[q].at \notin Notes BY <1>5, <1>c DEF CreateRow, Outside, Notes
  <2> QED BY <1>b, <1>5, <2>1 DEF CreateRow
<1>6. ASSUME NEW s \in Procs, SendNotice(s) \/ UpdateNotice(s)
      PROVE  notices'[t] <= 1 /\ (notices'[t] # 0 => t \in userRoutes' \/ Noting(t)')
  <2>1. p[s].at \in {"ensure", "resend", "update", "reupdate"} BY <1>6 DEF SendNotice, UpdateNotice, Creates
  <2>2. \A q \in Procs : p[q].at \notin Notes BY <1>c, <2>1 DEF Outside, Notes
  <2>3. UNCHANGED <<userRoutes, crashes>> BY <1>6 DEF SendNotice, UpdateNotice
  <2>4. CASE notices' = notices BY <1>b, <2>2, <2>3, <2>4
  <2>5. CASE notices' # notices
    <3>1. notices' = [notices EXCEPT ![p[s].view.turn] = More(@)] /\ p[s].view.turn \notin userRoutes
      BY <1>6, <2>5 DEF SendNotice, UpdateNotice, NeedsUserCard
    <3>2. p'[s].at \in Notes /\ p'[s].view = p[s].view
      <4>1. CASE SendNotice(s) BY <4>1, <1>a, <2>5 DEF SendNotice, Notes, States
      <4>2. CASE UpdateNotice(s) BY <4>2, <1>a DEF UpdateNotice, Notes, States
      <4> QED BY <1>6, <4>1, <4>2
    <3>3. \A u \in Turns : notices[u] <= 1 /\ (notices[u] # 0 => u \in userRoutes) BY <2>2, <2>3 DEF Noticed, Noting
    <3>4. CASE t = p[s].view.turn
      <4>1. notices[t] = 0 BY <3>1, <3>3, <3>4, <1>a
      <4>2. notices'[t] = 1 BY <3>1, <3>4, <4>1, <1>a DEF More
      <4> QED BY <3>2, <3>4, <4>2 DEF Noting
    <3>5. CASE t # p[s].view.turn
      <4>1. notices'[t] = notices[t] BY <3>1, <3>5, <1>a
      <4> QED BY <3>3, <4>1, <2>3
    <3> QED BY <3>4, <3>5
  <2> QED BY <2>4, <2>5
<1>7. ASSUME NEW s \in Procs, RouteNotice(s) \/ RecordNotice(s)
      PROVE  notices'[t] <= 1 /\ (notices'[t] # 0 => t \in userRoutes' \/ Noting(t)')
  <2>1. userRoutes' = userRoutes \cup {p[s].view.turn} /\ notices' = notices /\ crashes' = crashes /\ p[s].at \in Notes
    BY <1>7 DEF RouteNotice, RecordNotice, Notes
  <2>2. Noting(t) => t = p[s].view.turn BY <1>c, <2>1 DEF Noting, Outside, Notes
  <2> QED BY <2>1, <2>2 DEF Noticed
<1>8. ASSUME NEW s \in Procs, SendCards(s)
      PROVE  notices'[t] <= 1 /\ (notices'[t] # 0 => t \in userRoutes' \/ Noting(t)')
  <2>1. p[s].at \notin Notes /\ UNCHANGED <<notices, userRoutes, crashes>> /\ \A q \in Procs : q # s => p'[q] = p[q]
    BY <1>8, <1>a DEF SendCards, Notes
  <2> QED BY <1>b, <2>1
<1> QED BY <1>1, <1>2, <1>3, <1>4, <1>5, <1>6, <1>7, <1>8 DEF Next, Step


\* OnceInv holds initially.
LEMMA OnceInit == Init => OnceInv
<1> SUFFICES ASSUME Init PROVE OnceInv OBVIOUS
<1>1. \A s \in Procs : p[s].at = "idle" BY Starts DEF Init
<1>2. finals = [f \in Finals |-> 0] /\ notices = [t \in Turns |-> 0] BY DEF Init
<1> QED BY <1>1, <1>2 DEF OnceInv, Alone, Unsent, Counted, Noticed, Outside

\* panelMu with finalCardAlreadyRecorded sends a final card once for any number of loops and chat
\* messages, whatever views they hold, and with FindMessageRouteByEvent a user card, unless the
\* program stopped or something wrote cards without the lock, as the Refresh button does.
THEOREM CardsSentOnce == Spec => []SentOnce
<1>1. Init => Inv /\ OnceInv BY InvInit, OnceInit
<1>2. Inv /\ OnceInv /\ [Next]_vars => Inv' /\ OnceInv'
  <2> SUFFICES ASSUME Inv, OnceInv, [Next]_vars PROVE Inv' /\ OnceInv' OBVIOUS
  <2>1. Inv' BY InvStep
  <2>2. ASSUME presses' = 0 PROVE (Alone /\ Unsent /\ Counted /\ Noticed)'
    <3>1. Alone /\ Unsent /\ Counted /\ Noticed BY <2>2, PressesStep DEF OnceInv
    <3> QED BY <3>1, <2>2, AloneStep, UnsentStep, CountedStep, NoticedStep
  <2> QED BY <2>1, <2>2 DEF OnceInv
<1>3. Inv /\ OnceInv => SentOnce
  <2> SUFFICES ASSUME Inv, OnceInv PROVE FinalOnce /\ NoticeOnce BY DEF SentOnce
  <2>1. crashes \in Nat /\ presses \in Nat BY DEF Inv, Typed
  <2>2. presses = 0 /\ crashes = 0 => /\ \A f \in Finals : finals[f] <= 1
                                     /\ \A t \in Turns : notices[t] <= 1
    BY DEF OnceInv, Counted, Noticed
  <2>3. FinalOnce
    <3> SUFFICES ASSUME NEW f \in Finals, finals[f] > 1 PROVE crashes + presses > 0 BY DEF FinalOnce
    <3>1. finals[f] \in 0..2 BY DEF Inv, Typed
    <3> QED BY <2>1, <2>2, <3>1
  <2>4. NoticeOnce
    <3> SUFFICES ASSUME NEW t \in Turns, notices[t] > 1 PROVE crashes + presses > 0 BY DEF NoticeOnce
    <3>1. notices[t] \in 0..2 BY DEF Inv, Typed
    <3> QED BY <2>1, <2>2, <3>1
  <2> QED BY <2>3, <2>4
<1> QED BY <1>1, <1>2, <1>3, PTL DEF Spec

-----------------------------------------------------------------------------
(* What is drawn: the cards of a row, and whose row is replaced when.      *)

\* Writing a new row, and editing the row.
Made == {"note", "cards", "create", "renote", "recards", "recreate"}
Edited == {"update", "upnote", "reupdate", "reupnote", "final"}
Sent == {"send", "record"}
\* What a goroutine q past the lock knows of the row r and the routes.
Drawn(q, r, out) ==
  /\ q.at \in Made => q.mem.turn = q.view.turn /\ q.mem.status = q.view.status /\ q.mem.fp = NoFinal
  /\ q.at \in Edited => q.cur /\ q.mem.turn = r.turn /\ q.mem.status = r.status /\ q.mem.fp = r.fp
  /\ q.at = "final" /\ Ended(q.view) => r.turn = q.view.turn /\ Ended(r)
  /\ q.at \in Sent => q.fin[1] = r.turn /\ Ended(r) /\ (q.fin[1] # q.view.turn => q.fin = Text(r.turn))
  /\ q.at \notin Outside \cup Sent => (Superseded(r, q.view) => Text(r.turn) \in out)
\* The card shows what the row says.
DrawnNow == card = Shown(row) /\ \A s \in Procs : Drawn(p[s], row, routes)
DrawnInv == presses = 0 => DrawnNow

\* Turn a or an earlier look at it is what b is, or was before.
Behind(a, b) == a.turn < b.turn \/ (a.turn = b.turn /\ (Ended(a) => Ended(b)))
\* The one reader: what it stores is newer than what is there, and what it draws is what it stored.
Follows(q, old, new) ==
  /\ q.own = 0 /\ ~q.force /\ q.at \notin {"mark", "read", "seed", "choose", "press"}
  /\ q.at = "store" => Behind(old, q.view) /\ Behind(q.view, new)
  /\ q.at \notin {"idle", "store", "load"} => q.view = old
FiledEnded(r) == r.fp # NoFinal => r.fp[1] < r.turn \/ (r.fp[1] = r.turn /\ Ended(r))
SoleNow ==
  /\ \A s \in Chats : p[s].at = "idle"
  /\ \A s \in Loops : Follows(p[s], snap, codex)
  /\ Behind(row, snap) /\ Behind(snap, codex) /\ FiledEnded(row)
SoleInv == Sole => SoleNow
\* Without failures its progress cards are those of the turns up to the row's.
Making == {"note", "cards", "create"}
Remaking == {"resend", "renote", "recards", "recreate"}
Unfailed == Sole /\ faults = 0 /\ crashes = 0
ProgressNow ==
  /\ \A s \in Loops : p[s].at \notin Remaking /\ (p[s].at \in Making => row.turn < p[s].view.turn)
  /\ \A t \in Turns : /\ progress[t] <= 1
                      /\ progress[t] # 0 => t <= row.turn \/ \E s \in Loops : p[s].at = "create" /\ p[s].view.turn = t
ProgressInv == Unfailed => ProgressNow

LEMMA OutsideDrawn == ASSUME NEW q, q.at \in Outside, NEW r, NEW out PROVE Drawn(q, r, out)
BY DEF Drawn, Outside, Made, Edited, Sent

\* What is true of the one who holds the lock is all there is to show: the others are not past it.
LEMMA DrawnByOne ==
  ASSUME Alone', NEW s \in Procs, lock' \in {s, Nobody}, card' = Shown(row'), Drawn(p'[s], row', routes')
  PROVE  DrawnNow'
<1>1. ASSUME NEW q \in Procs, q # s PROVE Drawn(p'[q], row', routes')
  <2>1. lock' # q BY <1>1, PanelAssumption DEF Procs
  <2>2. p'[q].at \in Outside BY <2>1 DEF Alone
  <2> QED BY <2>2, OutsideDrawn
<1> QED BY <1>1 DEF DrawnNow

\* Only the turn, the status and whether it has its final card matter of a row.
LEMMA SupersededFields ==
  ASSUME NEW r \in Rows, NEW m \in Rows, NEW v \in Views, m.turn = r.turn, m.status = r.status, m.carded = r.carded
  PROVE  Superseded(m, v) <=> Superseded(r, v)
BY DEF Superseded, Ended

\* Reads and what Codex and the chat do leave rows, cards and whoever is past the lock alone.
LEMMA DrawnOutside ==
  ASSUME Inv, DrawnNow, NEW s \in Procs,
         Poll(s) \/ ChatTurn(s) \/ Press(s) \/ Mark(s) \/ Read(s) \/ Store(s) \/ Seed(s) \/ Load(s)
  PROVE  DrawnNow'
<1> USE DEF thread, stored, sent, spent, Goto, Outside
<1>a. p \in [Procs -> States] BY DEF Inv, Places
<1>1. \A q \in Procs : q # s => p'[q] = p[q]
  <2>1. CASE Poll(s) BY <2>1, <1>a DEF Poll
  <2>2. CASE ChatTurn(s)
    <3>1. \E r : p' = [p EXCEPT ![s] = r] BY <2>2 DEF ChatTurn
    <3> QED BY <3>1, <1>a
  <2>3. CASE Press(s) \/ Mark(s) \/ Read(s) \/ Store(s) \/ Seed(s) \/ Load(s)
    BY <2>3, <1>a DEF Press, Mark, Read, Store, Seed, Load
  <2> QED BY <2>1, <2>2, <2>3
<1>2. UNCHANGED <<row, routes, card>> BY DEF Poll, ChatTurn, Press, Mark, Read, Store, Seed, Load
<1>3. p'[s].at \in Outside
  <2>1. CASE Poll(s) BY <2>1, <1>a, Starts DEF Poll, States
  <2>2. CASE ChatTurn(s) BY <2>2, <1>a, Starts DEF ChatTurn, States
  <2>3. CASE Press(s) BY <2>3, <1>a DEF Press, States
  <2>4. CASE Mark(s) \/ Read(s) \/ Store(s) \/ Seed(s) BY <2>4, <1>a DEF Mark, Read, Store, Seed, States
  <2>5. CASE Load(s) BY <2>5, <1>a DEF Load, States
  <2> QED BY <2>1, <2>2, <2>3, <2>4, <2>5
<1>4. Drawn(p'[s], row', routes') BY <1>3, OutsideDrawn
<1>5. \A q \in Procs : Drawn(p'[q], row', routes') BY <1>1, <1>2, <1>4 DEF DrawnNow
<1> QED BY <1>2, <1>5 DEF DrawnNow, Shown

\* The lock: a row that is left behind without its answer gets its answer first.
LEMMA DrawnLock ==
  ASSUME Inv, DrawnNow, Alone', NEW s \in Procs, Lock(s)
  PROVE  DrawnNow'
<1> USE DEF stored, sent, spent, thread
<1>a. p[s] \in States /\ row \in Rows /\ p[s].view \in Views BY Fields DEF Inv, Places, Typed
<1>0. lock' = s /\ UNCHANGED <<row, routes, card>> BY DEF Lock
<1>1. CASE Superseded(row, p[s].view) /\ ~Recorded(row, Text(row.turn))
  <2>1. p' = [p EXCEPT ![s] = [p[s] EXCEPT !.at = "send", !.fin = Text(row.turn), !.mem = row, !.cur = TRUE]]
    BY <1>1, <1>a DEF Lock, Inv, Places, States
  <2>2. p'[s].at = "send" /\ p'[s].fin = Text(row.turn) BY <2>1, <1>a DEF Inv, Places, States
  <2>3. Ended(row) /\ Text(row.turn)[1] = row.turn BY <1>1 DEF Superseded, Text
  <2>4. Drawn(p'[s], row, routes) BY <2>2, <2>3 DEF Drawn, Made, Edited, Sent, Outside
  <2> QED BY <1>0, <2>4, DrawnByOne DEF DrawnNow, Shown
<1>2. CASE ~(Superseded(row, p[s].view) /\ ~Recorded(row, Text(row.turn)))
  <2>1. p'[s].at = "ensure" /\ p'[s].view = p[s].view BY <1>2, <1>a DEF Lock, Inv, Places, States
  <2>2. Superseded(row, p[s].view) => Text(row.turn) \in routes BY <1>2 DEF Recorded, Superseded
  <2>3. Drawn(p'[s], row, routes) BY <2>1, <2>2 DEF Drawn, Made, Edited, Sent, Outside
  <2> QED BY <1>0, <2>3, DrawnByOne DEF DrawnNow, Shown
<1> QED BY <1>1, <1>2

\* The steps that send the cards of a new row and of one that is edited.
LEMMA DrawnCards ==
  ASSUME Inv, DrawnNow, Alone', NEW s \in Procs, CardStep(s), lock = s
  PROVE  DrawnNow'
<1> USE DEF stored, sent, spent, thread, Goto
<1>a. /\ p[s] \in States /\ row \in Rows /\ p[s].view \in Views /\ p[s].mem \in Rows /\ p \in [Procs -> States]
      /\ Drawn(p[s], row, routes) /\ card = Shown(row)
  BY Fields DEF Inv, Places, Typed, DrawnNow
<1>0. lock' = s /\ card' = card
  BY DEF CardStep, SendNotice, RouteNotice, SendCards, UpdateNotice, RecordNotice
<1>1. CASE SendNotice(s)
  <2> DEFINE t == p[s].view.turn
             m == [NoRow EXCEPT !.turn = t, !.status = p[s].view.status, !.user = IF t \in marked THEN 0 ELSE t]
             w == IF p[s].at = "resend" THEN IF NeedsUserCard(NoRow, t) THEN "renote" ELSE "recards"
                  ELSE IF NeedsUserCard(NoRow, t) THEN "note" ELSE "cards"
  <2>1. m.turn = t /\ m.status = p[s].view.status /\ m.fp = NoFinal BY DEF NoRow
  <2>2. w \in Made
    BY DEF Made
  <2>3. p'[s].at = w /\ p'[s].mem = m /\ p'[s].view = p[s].view
    <3>1. p' = [p EXCEPT ![s].mem = m, ![s].at = w] BY <1>1 DEF SendNotice
    <3> HIDE DEF m, w
    <3> QED BY <3>1, <1>a DEF States
  <2>4. p[s].at \in {"ensure", "resend"} BY <1>1 DEF SendNotice, Creates
  <2>5. Superseded(row, p[s].view) => Text(row.turn) \in routes BY <2>4, <1>a DEF Drawn, Outside, Sent
  <2>6. UNCHANGED <<row, routes>> BY <1>1 DEF SendNotice
  <2> HIDE DEF m, w
  <2>7. Drawn(p'[s], row', routes')
    BY <2>1, <2>2, <2>3, <2>5, <2>6 DEF Drawn, Made, Edited, Sent, Outside
  <2> QED BY <1>0, <1>a, <2>6, <2>7, DrawnByOne DEF Shown
<1>2. CASE RouteNotice(s) \/ SendCards(s)
  <2>1. /\ p[s].at \in {"note", "renote", "cards", "recards"} /\ row' = row /\ routes' = routes
        /\ \E w \in {"cards", "recards", "create", "recreate"} : p' = [p EXCEPT ![s].at = w]
    BY <1>2 DEF RouteNotice, SendCards
  <2>2. p'[s].at \in {"cards", "recards", "create", "recreate"} /\ p'[s].view = p[s].view /\ p'[s].mem = p[s].mem
    BY <2>1, <1>a DEF States
  <2>3. Drawn(p'[s], row', routes')
    BY <2>1, <2>2, <1>a DEF Drawn, Made, Edited, Sent, Outside
  <2> QED BY <1>0, <1>a, <2>1, <2>3, DrawnByOne DEF Shown
<1>3. CASE UpdateNotice(s)
  <2>1. /\ p[s].at \in {"update", "reupdate"} /\ row' = row /\ routes' = routes
        /\ \E w \in {"upnote", "reupnote"} : p' = [p EXCEPT ![s].at = w]
    BY <1>3 DEF UpdateNotice
  <2>2. /\ p'[s].at \in {"upnote", "reupnote"} /\ p'[s].view = p[s].view /\ p'[s].mem = p[s].mem
        /\ p'[s].cur = p[s].cur
    BY <2>1, <1>a DEF States
  <2>3. Drawn(p'[s], row', routes')
    BY <2>1, <2>2, <1>a DEF Drawn, Made, Edited, Sent, Outside
  <2> QED BY <1>0, <1>a, <2>1, <2>3, DrawnByOne DEF Shown
<1>4. CASE RecordNotice(s)
  <2> DEFINE t == p[s].view.turn
             m == [p[s].mem EXCEPT !.user = t]
             w == IF p[s].at = "upnote" THEN "update" ELSE "reupdate"
  <2>0. t \in 0..MaxTurns BY <1>a, ViewFacts, TurnRange
  <2>1. p[s].at \in {"upnote", "reupnote"} /\ routes' = routes BY <1>4 DEF RecordNotice
  <2>2. m.turn = p[s].mem.turn /\ m.status = p[s].mem.status /\ m.fp = p[s].mem.fp BY <1>a DEF Rows
  <2>3. p'[s].at = w /\ p'[s].mem = m /\ p'[s].view = p[s].view /\ p'[s].cur = p[s].cur
    <3>1. p' = [p EXCEPT ![s] = [p[s] EXCEPT !.mem = m, !.at = w]]
      <4>1. p' = [p EXCEPT ![s].mem.user = t, ![s].at = w] BY <1>4, <1>a DEF RecordNotice, States
      <4> HIDE DEF t, w
      <4> QED BY <4>1, <1>a DEF States
    <3> HIDE DEF m, w
    <3> QED BY <3>1, <1>a DEF States
  <2>4. row' \in Rows /\ row'.turn = row.turn /\ row'.status = row.status /\ row'.fp = row.fp /\ row'.carded = row.carded
    BY <1>4, <1>a, <2>0 DEF RecordNotice, Rows
  <2>5. Superseded(row', p[s].view) <=> Superseded(row, p[s].view) BY <2>4, <1>a, SupersededFields
  <2>6. w \in {"update", "reupdate"} OBVIOUS
  <2> HIDE DEF m, w
  <2>7. Drawn(p'[s], row', routes')
    BY <2>1, <2>2, <2>3, <2>4, <2>5, <2>6, <1>a DEF Drawn, Made, Edited, Sent, Outside
  <2> QED BY <1>0, <1>a, <2>4, <2>7, DrawnByOne DEF Shown
<1> QED BY <1>1, <1>2, <1>3, <1>4 DEF CardStep

\* A new row is of the turn it is made for, and an edited one becomes what was seen.
LEMMA DrawnRow ==
  ASSUME Inv, DrawnNow, Alone', NEW s \in Procs, CreateRow(s) \/ Update(s), lock = s
  PROVE  DrawnNow'
<1> USE DEF stored, sent, spent, thread
<1>a. /\ p[s] \in States /\ row \in Rows /\ p[s].view \in Views /\ p[s].mem \in Rows /\ p \in [Procs -> States]
      /\ Drawn(p[s], row, routes) /\ card = Shown(row)
  BY Fields DEF Inv, Places, Typed, DrawnNow
<1>0. lock' = s /\ routes' = routes BY DEF CreateRow, Update
<1>1. CASE CreateRow(s)
  <2>1. row' = p[s].mem /\ card' = Shown(row') /\ p[s].at \in {"create", "recreate"} BY <1>1 DEF CreateRow
  <2>2. /\ p'[s].cur /\ p'[s].mem = p[s].mem /\ p'[s].view = p[s].view
        /\ p'[s].at \in {"update", "reupdate"}
    <3>1. p'[s] = [p[s] EXCEPT !.cur = TRUE, !.at = IF p[s].at = "create" THEN "update" ELSE "reupdate"]
      BY <1>1, <1>a DEF CreateRow, States
    <3> QED BY <3>1, <1>a DEF States
  <2>3. ~Superseded(row', p[s].view) BY <2>1, <1>a DEF Superseded, Drawn, Made
  <2>4. Drawn(p'[s], row', routes') BY <2>1, <2>2, <2>3 DEF Drawn, Made, Edited, Sent, Outside
  <2> QED BY <1>0, <2>1, <2>4, DrawnByOne
<1>2. CASE Update(s)
  <2> DEFINE v == p[s].view
             m == p[s].mem
             u == IF v.turn \in userRoutes /\ v.turn \notin marked THEN v.turn ELSE m.user
             n == [RowAfterUpdate(m, v) EXCEPT !.user = u]
  <2>0. u \in 0..MaxTurns /\ v.turn \in 0..MaxTurns /\ v.status \in {"inProgress", "completed"}
    BY <1>a, ViewFacts, TurnRange, RowParts
  <2>1. p[s].at \in {"update", "reupdate"} BY <1>2 DEF Update
  <2>2. p[s].cur /\ m.turn = row.turn /\ m.status = row.status /\ m.fp = row.fp BY <2>1, <1>a DEF Drawn, Edited
  <2>3. row' = [RowAfterUpdate(row, v) EXCEPT !.fp = m.fp, !.user = IF u # m.user THEN u ELSE @]
    BY <1>2, <2>2 DEF Update
  <2>4. row'.turn = v.turn /\ row'.status = v.status /\ row'.fp = m.fp BY <2>3, <1>a DEF RowAfterUpdate, Rows
  <2>5. n.turn = v.turn /\ n.status = v.status /\ n.fp = m.fp BY <1>a DEF RowAfterUpdate, Rows
  <2>6. p'[s].at = "final" /\ p'[s].mem = n /\ p'[s].view = v /\ p'[s].cur
    <3>1. p' = [p EXCEPT ![s].mem = n, ![s].at = "final"] BY <1>2 DEF Update
    <3> HIDE DEF n
    <3> QED BY <3>1, <2>2, <1>a DEF States
  <2>7. card' = Shown(row')
    <3>1. CASE Shown(m) # [turn |-> v.turn, status |-> v.status]
      BY <3>1, <1>2, <2>2, <2>4 DEF Update, Shown
    <3>2. CASE Shown(m) = [turn |-> v.turn, status |-> v.status]
      <4>1. card' = card BY <3>2, <1>2 DEF Update
      <4>2. Shown(m) = Shown(row) /\ Shown(row') = [turn |-> v.turn, status |-> v.status] BY <2>2, <2>4 DEF Shown
      <4> QED BY <4>1, <4>2, <3>2, <1>a
    <3> QED BY <3>1, <3>2
  <2>8. ~Superseded(row', v) BY <2>4 DEF Superseded
  <2>9. Ended(v) => Ended(row') BY <2>4 DEF Ended
  <2> HIDE DEF n
  <2>10. Drawn(p'[s], row', routes')
    BY <2>4, <2>5, <2>6, <2>8, <2>9 DEF Drawn, Made, Edited, Sent, Outside
  <2> QED BY <1>0, <2>7, <2>10, DrawnByOne
<1> QED BY <1>1, <1>2

\* A sync ends, or goes on without touching the row.
LEMMA DrawnEnd ==
  ASSUME Inv, DrawnNow, Alone', NEW s \in Procs, Done(s), lock = s, UNCHANGED <<row, routes, card>>
  PROVE  DrawnNow'
<1>1. p'[s] = Idle /\ lock' = Nobody BY DEF Done, Inv, Places
<1>2. Drawn(p'[s], row', routes') BY <1>1, Starts, OutsideDrawn DEF Outside
<1> QED BY <1>1, <1>2, DrawnByOne DEF DrawnNow, Shown

LEMMA DrawnKeep ==
  ASSUME Inv, DrawnNow, Alone', NEW s \in Procs, KeepRow(s) \/ Decide(s) \/ SendFinal(s), lock = s
  PROVE  DrawnNow'
<1> USE DEF stored, sent, spent, thread
<1>a. /\ p[s] \in States /\ row \in Rows /\ p[s].view \in Views /\ p[s].mem \in Rows /\ p \in [Procs -> States]
      /\ Drawn(p[s], row, routes) /\ card = Shown(row)
  BY Fields DEF Inv, Places, Typed, DrawnNow
<1>0. UNCHANGED <<row, routes, card>> BY DEF KeepRow, Decide, SendFinal
<1>1. CASE Done(s) BY <1>0, <1>1, DrawnEnd
<1>2. CASE KeepRow(s) /\ ~Done(s)
  <2> DEFINE w == IF LegacyReplay(row, p[s].view) THEN "final" ELSE "update"
  <2>1. p[s].at = "ensure" /\ lock' = s BY <1>2 DEF KeepRow
  <2>2. p'[s].mem = row /\ p'[s].cur /\ p'[s].view = p[s].view /\ p'[s].at = w
    <3>1. p' = [p EXCEPT ![s].mem = row, ![s].cur = TRUE, ![s].at = w] BY <1>2 DEF KeepRow
    <3> HIDE DEF w
    <3> QED BY <3>1, <1>a DEF States
  <2>3. w = "final" => row.turn = p[s].view.turn /\ Ended(row) BY DEF LegacyReplay
  <2>4. w \in {"final", "update"} OBVIOUS
  <2>5. Superseded(row, p[s].view) => Text(row.turn) \in routes BY <2>1, <1>a DEF Drawn, Outside, Sent
  <2> HIDE DEF w
  <2>6. Drawn(p'[s], row, routes) BY <2>2, <2>3, <2>4, <2>5 DEF Drawn, Made, Edited, Sent, Outside
  <2> QED BY <1>0, <1>a, <2>1, <2>6, DrawnByOne DEF Shown
<1>3. CASE Decide(s) /\ ~Done(s)
  <2> DEFINE v == p[s].view
             f == IF Answered(v) THEN Text(v.turn) ELSE Gap(v.turn)
  <2>1. p[s].at = "final" /\ lock' = s /\ Ended(v) BY <1>3 DEF Decide
  <2>2. p' = [p EXCEPT ![s].at = "send", ![s].fin = f] BY <1>3 DEF Decide
  <2>3. row.turn = v.turn /\ Ended(row) BY <2>1, <1>a DEF Drawn
  <2>4. f[1] = v.turn BY DEF Text, Gap
  <2> HIDE DEF f
  <2>5. p'[s].at = "send" /\ p'[s].fin = f /\ p'[s].view = v BY <2>2, <1>a DEF States
  <2>6. Drawn(p'[s], row, routes) BY <2>3, <2>4, <2>5 DEF Drawn, Made, Edited, Sent, Outside
  <2> QED BY <1>0, <1>a, <2>1, <2>6, DrawnByOne DEF Shown
<1>4. CASE SendFinal(s)
  <2>1. p[s].at = "send" /\ lock' = s BY <1>4 DEF SendFinal
  <2>2. p'[s].at = "record" /\ p'[s].fin = p[s].fin /\ p'[s].view = p[s].view
    BY <1>4, <1>a DEF SendFinal, Goto, States
  <2>3. Drawn(p'[s], row, routes) BY <1>a, <2>1, <2>2 DEF Drawn, Made, Edited, Sent, Outside
  <2> QED BY <1>0, <1>a, <2>1, <2>3, DrawnByOne DEF Shown
<1> QED BY <1>1, <1>2, <1>3, <1>4

LEMMA DrawnRecord ==
  ASSUME Inv, DrawnNow, Alone', NEW s \in Procs, RecordFinal(s), lock = s
  PROVE  DrawnNow'
<1> USE DEF stored, sent, spent, thread
<1> DEFINE f == p[s].fin
<1>a. /\ p[s] \in States /\ row \in Rows /\ p[s].view \in Views /\ p \in [Procs -> States]
      /\ Drawn(p[s], row, routes) /\ card = Shown(row) /\ p[s].at = "record"
  BY Fields DEF Inv, Places, Typed, DrawnNow, RecordFinal
<1>1. f[1] = row.turn /\ Ended(row) /\ (f[1] # p[s].view.turn => f = Text(row.turn)) BY <1>a DEF Drawn, Sent
<1>2. routes' = routes \cup {f} /\ card' = card /\ row' \in {row, RowAfterFinal(row, f)} BY DEF RecordFinal
<1>3. row'.turn = row.turn /\ row'.status = row.status BY <1>1, <1>2, <1>a DEF RowAfterFinal, Rows, Ended
<1>4. card' = Shown(row') BY <1>2, <1>3, <1>a DEF Shown
<1>5. CASE f[1] = p[s].view.turn
  <2>1. p'[s] = Idle /\ lock' = Nobody BY <1>5, <1>a DEF RecordFinal, Done
  <2>2. Drawn(p'[s], row', routes') BY <2>1, Starts, OutsideDrawn DEF Outside
  <2> QED BY <1>4, <2>1, <2>2, DrawnByOne
<1>6. CASE f[1] # p[s].view.turn
  <2>1. lock' = s /\ p'[s].at = "ensure" BY <1>6, <1>a DEF RecordFinal, States
  <2>2. Text(row'.turn) \in routes' BY <1>1, <1>2, <1>3, <1>6
  <2>3. Drawn(p'[s], row', routes') BY <2>1, <2>2 DEF Drawn, Made, Edited, Sent, Outside
  <2> QED BY <1>4, <2>1, <2>3, DrawnByOne
<1> QED BY <1>5, <1>6

LEMMA DrawnFault ==
  ASSUME Inv, DrawnNow, Alone', NEW s \in Procs, Fault(s), lock = s
  PROVE  DrawnNow'
<1> USE DEF stored, sent, spent, thread, Goto
<1>a. /\ p[s] \in States /\ p \in [Procs -> States] /\ Drawn(p[s], row, routes) /\ card = Shown(row)
  BY Fields DEF Inv, Places, Typed, DrawnNow
<1>0. UNCHANGED <<row, routes, card>> BY DEF Fault
<1>1. CASE Done(s) BY <1>0, <1>1, DrawnEnd
<1>2. CASE ~Done(s)
  <2>1. AfterFailure(s) # "idle" /\ p' = [p EXCEPT ![s].at = AfterFailure(s)] /\ lock' = s BY <1>2 DEF Fault
  <2>2. p[s].at = "update" /\ AfterFailure(s) = "resend" BY <2>1 DEF AfterFailure
  <2>3. p'[s].at = "resend" /\ p'[s].view = p[s].view BY <2>1, <2>2, <1>a DEF States
  <2>4. Drawn(p'[s], row, routes) BY <1>a, <2>2, <2>3 DEF Drawn, Made, Edited, Sent, Outside
  <2> QED BY <1>0, <1>a, <2>1, <2>4, DrawnByOne DEF Shown
<1> QED BY <1>1, <1>2

\* Until Refresh is pressed every step keeps the cards what the rows say.
LEMMA DrawnStep == Inv /\ Alone /\ DrawnNow /\ presses' = 0 /\ [Next]_vars => DrawnNow'
<1> SUFFICES ASSUME Inv, Alone, DrawnNow, presses' = 0, [Next]_vars PROVE DrawnNow' OBVIOUS
<1> USE DEF thread, stored, sent, spent, vars
<1>0. Alone' BY AloneStep
<1>1. CASE UserTurn \/ TurnEnds \/ AnswerAppears \/ UNCHANGED vars
  BY <1>1 DEF UserTurn, TurnEnds, AnswerAppears, DrawnNow, Shown
<1>2. CASE Crash
  <2>1. \A s \in Procs : Drawn(p'[s], row, routes) BY <1>2, Starts, OutsideDrawn DEF Crash, Outside
  <2> QED BY <1>2, <2>1 DEF Crash, DrawnNow, Shown
<1>3. ASSUME NEW s \in Procs, Choose(s) \/ Redraw(s) PROVE DrawnNow'
  BY <1>3 DEF Choose, Redraw, Alone
<1>4. ASSUME NEW s \in Procs, p[s].at \notin Outside PROVE lock = s BY <1>4 DEF Alone
<1>5. ASSUME NEW s \in Procs, CardStep(s) PROVE DrawnNow'
  <2>1. p[s].at \notin Outside
    BY <1>5 DEF CardStep, SendNotice, Creates, RouteNotice, SendCards, UpdateNotice, RecordNotice, Outside
  <2> QED BY <1>0, <1>4, <1>5, <2>1, DrawnCards
<1>6. ASSUME NEW s \in Procs,
             CreateRow(s) \/ Update(s) \/ KeepRow(s) \/ Decide(s) \/ SendFinal(s) \/ RecordFinal(s) \/ Fault(s)
      PROVE  DrawnNow'
  <2>1. p[s].at \notin Outside
    BY <1>6 DEF CreateRow, Update, KeepRow, Decide, SendFinal, RecordFinal, Fault, Creates, Outside
  <2>2. lock = s BY <1>4, <2>1
  <2> QED BY <1>0, <1>6, <2>2, DrawnRow, DrawnKeep, DrawnRecord, DrawnFault
<1>7. ASSUME NEW s \in Procs, Lock(s) PROVE DrawnNow' BY <1>0, <1>7, DrawnLock
<1> QED BY <1>1, <1>2, <1>3, <1>5, <1>6, <1>7, DrawnOutside DEF Next, Step, CardStep

LEMMA DrawnInit == Init => DrawnInv
<1> SUFFICES ASSUME Init PROVE DrawnNow BY DEF DrawnInv, DrawnNow
<1>1. \A s \in Procs : p[s] = Idle /\ Idle.at \in Outside BY Starts DEF Init, Outside
<1> QED BY <1>1, OutsideDrawn DEF Init, DrawnNow, Shown, NoRow

\* The cards and the rows, for the rest of the proofs.
LEMMA DrawnAlways == Spec => [](Inv /\ OnceInv /\ DrawnInv)
<1>1. Init => Inv /\ OnceInv /\ DrawnInv BY InvInit, OnceInit, DrawnInit
<1>2. Inv /\ OnceInv /\ DrawnInv /\ [Next]_vars => (Inv /\ OnceInv /\ DrawnInv)'
  <2> SUFFICES ASSUME Inv, OnceInv, DrawnInv, [Next]_vars PROVE Inv' /\ OnceInv' /\ DrawnInv' OBVIOUS
  <2>1. Inv' BY InvStep
  <2>2. ASSUME presses' = 0 PROVE presses = 0 BY <2>2, PressesStep
  <2>3. OnceInv' BY <2>2, AloneStep, UnsentStep, CountedStep, NoticedStep DEF OnceInv
  <2>4. DrawnInv' BY <2>2, DrawnStep DEF DrawnInv, DrawnNow, OnceInv
  <2> QED BY <2>1, <2>3, <2>4
<1> QED BY <1>1, <1>2, PTL DEF Spec

\* For any loops, chat messages, failures and crashes: the row of a turn that ended without its
\* answer gets the answer, once a view has it, before the row is replaced (repairSupersededFinalCard).
THEOREM SupersededAreShown == Spec => SupersededShown
<1> DEFINE Shows ==
      presses = 0 => \A s \in Procs :
                       /\ p[s].at \in {"create", "recreate"} /\ row' = p[s].mem /\ row'.turn # row.turn
                       /\ row.turn \in p[s].view.texts /\ Ended(row) /\ ~row.carded
                       => Text(row.turn) \in routes
<1>1. DrawnInv => Shows
  <2> SUFFICES ASSUME DrawnInv, presses = 0, NEW s \in Procs, p[s].at \in {"create", "recreate"}, row' = p[s].mem,
                      row'.turn # row.turn, row.turn \in p[s].view.texts, Ended(row), ~row.carded
               PROVE  Text(row.turn) \in routes OBVIOUS
  <2>1. Drawn(p[s], row, routes) BY DEF DrawnInv, DrawnNow
  <2>2. row'.turn = p[s].view.turn BY <2>1 DEF Drawn, Made
  <2>3. Superseded(row, p[s].view) BY <2>2 DEF Superseded
  <2> QED BY <2>1, <2>3 DEF Drawn, Outside, Sent
<1>2. DrawnInv /\ [Next]_vars => [Shows]_vars BY <1>1
<1>3. Spec => []DrawnInv BY DrawnAlways, PTL
<1>4. Spec => [][Shows]_vars BY <1>2, <1>3, PTL DEF Spec
<1> QED BY <1>4 DEF SupersededShown

(***************************************************************************)
(* A single reader.                                                        *)
(***************************************************************************)
\* Turns and their ends only come later.
LEMMA BehindFacts ==
  ASSUME NEW a, NEW b, NEW c, a.turn \in Nat, b.turn \in Nat, c.turn \in Nat
  PROVE  /\ Behind(a, a)
         /\ Behind(a, b) /\ Behind(b, c) => Behind(a, c)
         /\ b.turn = c.turn /\ (Ended(b) => Ended(c)) => (Behind(a, b) => Behind(a, c)) /\ Behind(b, c)
         /\ a.turn = b.turn /\ a.status = b.status => (Behind(a, c) <=> Behind(b, c))
BY DEF Behind, Ended

LEMMA NaturalTurns ==
  ASSUME Inv
  PROVE  /\ row.turn \in Nat /\ snap.turn \in Nat /\ codex.turn \in Nat
         /\ \A s \in Procs : p[s].view.turn \in Nat
<1>1. Turns \subseteq Nat /\ 0..MaxTurns \subseteq Nat BY PanelAssumption DEF Turns
<1>2. row.turn \in 0..MaxTurns BY RowParts DEF Inv, Typed
<1>3. snap.turn \in Turns /\ codex.turn \in Turns BY ViewFacts DEF Inv, Typed
<1>4. \A s \in Procs : p[s].view.turn \in Turns BY Fields, ViewFacts DEF Inv
<1> QED BY <1>1, <1>2, <1>3, <1>4

\* There was a single reader before, if there is one after a step.
LEMMA SoleBefore == Inv /\ [Next]_vars /\ Sole' => Sole
<1> SUFFICES ASSUME Inv, [Next]_vars, Sole' PROVE Sole OBVIOUS
<1> USE DEF thread, stored, sent, spent, vars
<1>1. presses = 0 BY PressesStep DEF Sole
<1>2. fromChat \subseteq fromChat'
  <2>1. CASE UserTurn \/ TurnEnds \/ AnswerAppears \/ Crash \/ UNCHANGED vars
    BY <2>1 DEF UserTurn, TurnEnds, AnswerAppears, Crash
  <2>2. ASSUME NEW s \in Procs, Poll(s) \/ ChatTurn(s) \/ Press(s) \/ Lock(s) \/ Fault(s) PROVE fromChat \subseteq fromChat'
    BY <2>2 DEF Poll, ChatTurn, Press, Lock, Fault
  <2>3. ASSUME NEW s \in Procs, Step(s) PROVE fromChat \subseteq fromChat'
    BY <2>3 DEF Step, Mark, Read, Store, Seed, Load, Choose, Redraw, SendNotice, RouteNotice, SendCards, UpdateNotice,
             RecordNotice, CreateRow, KeepRow, Update, Decide, SendFinal, RecordFinal
  <2> QED BY <2>1, <2>2, <2>3 DEF Next
<1> QED BY <1>1, <1>2 DEF Sole

\* Whoever does anything is the reader.
LEMMA ReaderMoves ==
  ASSUME Alone, Sole, SoleNow, NEW s \in Procs, p[s].at # "idle"
  PROVE  s \in Loops /\ Follows(p[s], snap, codex) /\ \A r \in Loops : r = s
BY DEF Alone, Sole, SoleNow, Procs

\* A step of the reader that goes on with the view it has, or ends.
Goes(s) ==
  /\ \A q \in Procs : q # s => p'[q].at = p[q].at
  /\ \/ p'[s] = Idle
     \/ /\ p'[s].view = p[s].view /\ p'[s].own = p[s].own /\ p'[s].force = p[s].force
        /\ p'[s].at \notin {"mark", "read", "store", "seed", "load", "choose", "press"}
LEMMA SoleGoes ==
  ASSUME Alone, Sole, SoleNow, NEW s \in Procs, Goes(s), UNCHANGED <<snap, codex>>,
         p[s].at \notin {"idle", "store", "load"}, Behind(row', snap), FiledEnded(row')
  PROVE  SoleNow'
<1>1. s \in Loops /\ Follows(p[s], snap, codex) /\ \A r \in Loops : r = s BY ReaderMoves
<1>2. Follows(p'[s], snap', codex')
  <2>1. CASE p'[s] = Idle BY <2>1 DEF Follows, Idle
  <2>2. CASE p'[s] # Idle BY <2>2, <1>1 DEF Follows, Goes
  <2> QED BY <2>1, <2>2
<1>3. \A r \in Loops : Follows(p'[r], snap', codex') BY <1>1, <1>2
<1>4. \A c \in Chats : p'[c].at = "idle" BY <1>1 DEF Goes, SoleNow, Procs
<1> QED BY <1>3, <1>4 DEF SoleNow, Behind, Ended

\* What Codex does, and reading and storing it.
LEMMA SoleReads ==
  ASSUME Inv, Alone, Sole, Sole', SoleNow, NEW s \in Procs,
         Poll(s) \/ ChatTurn(s) \/ Press(s) \/ Mark(s) \/ Read(s) \/ Store(s) \/ Seed(s) \/ Load(s) \/ Choose(s) \/ Redraw(s)
  PROVE  SoleNow'
<1> USE DEF thread, stored, sent, spent, Goto
<1>a. p \in [Procs -> States] BY DEF Inv, Places
<1>b. Loops \cap Chats = {} BY PanelAssumption
<1>1. CASE Poll(s)
  <2>1. s \in Loops /\ UNCHANGED <<snap, codex, row>> /\ \A r \in Loops : r = s BY <1>1 DEF Poll, Sole
  <2>2. p' = [p EXCEPT ![s] = [Idle EXCEPT !.at = "store", !.view = codex]] BY <1>1 DEF Poll
  <2>3. p'[s].at = "store" /\ p'[s].view = codex /\ p'[s].own = 0 /\ ~p'[s].force
    BY <2>2, <1>a DEF Idle
  <2>4. Behind(codex, codex) BY DEF Behind
  <2>5. Follows(p'[s], snap', codex') BY <2>1, <2>3, <2>4 DEF Follows, SoleNow
  <2>6. \A c \in Chats : p'[c] = p[c] BY <2>1, <2>2, <1>a, <1>b DEF Procs
  <2> QED BY <2>1, <2>5, <2>6 DEF SoleNow, Behind, Ended, FiledEnded
<1>2. CASE ChatTurn(s) BY <1>2 DEF ChatTurn, Sole
<1>3. CASE Press(s)
  <2>1. presses' = 0 /\ presses = 0 /\ presses' = presses + 1 BY <1>3 DEF Press, Sole
  <2> QED BY <2>1
<1>4. CASE Mark(s) \/ Read(s) \/ Seed(s) \/ Choose(s) \/ Redraw(s)
  <2>1. p[s].at \in {"mark", "read", "seed", "choose", "press"} BY <1>4 DEF Mark, Read, Seed, Choose, Redraw
  <2>2. Follows(p[s], snap, codex) BY <2>1, ReaderMoves
  <2> QED BY <2>1, <2>2 DEF Follows
<1>5. CASE Store(s) \/ Load(s)
  <2>1. p[s].at \in {"store", "load"} BY <1>5 DEF Store, Load
  <2>2. s \in Loops /\ Follows(p[s], snap, codex) /\ \A r \in Loops : r = s BY <2>1, ReaderMoves
  <2>3. s \notin Buttons /\ s \notin Chats BY <2>2, PanelAssumption
  <2>4. UNCHANGED <<codex, row>> /\ \A c \in Chats : p'[c] = p[c]
    BY <1>5, <2>3, <1>a DEF Store, Load, Procs
  <2>5. CASE Store(s)
    <3>1. snap' = p[s].view /\ p'[s] = [p[s] EXCEPT !.at = "load"] BY <2>2, <2>5, <1>a DEF Store, Follows
    <3>2. Behind(snap, snap') /\ Behind(snap', codex) BY <2>1, <2>2, <2>5, <3>1 DEF Follows, Store
    <3>3. Behind(row, snap') BY <3>1, <3>2, NaturalTurns, BehindFacts DEF SoleNow
    <3>4. Follows(p'[s], snap', codex') BY <2>2, <3>1, <1>a DEF Follows, States
    <3> QED BY <2>2, <2>4, <3>2, <3>3, <3>4 DEF SoleNow, FiledEnded, Ended
  <2>6. CASE Load(s)
    <3>1. snap' = snap /\ p' = [p EXCEPT ![s].view = snap, ![s].at = "lock"] BY <2>3, <2>6 DEF Load
    <3>2. p'[s].at = "lock" /\ p'[s].view = snap /\ p'[s].own = p[s].own /\ p'[s].force = p[s].force
      BY <3>1, <1>a DEF States
    <3>3. Follows(p'[s], snap', codex') BY <2>2, <3>1, <3>2 DEF Follows
    <3> QED BY <2>2, <2>4, <3>1, <3>3 DEF SoleNow, FiledEnded, Ended
  <2> QED BY <1>5, <2>5, <2>6
<1> QED BY <1>1, <1>2, <1>3, <1>4, <1>5

LEMMA SoleCodex ==
  ASSUME Inv, SoleNow, UserTurn \/ TurnEnds \/ AnswerAppears
  PROVE  SoleNow'
<1> USE DEF thread, stored, sent, spent
<1>0. UNCHANGED <<snap, row, p>> BY DEF UserTurn, TurnEnds, AnswerAppears
<1>1. codex \in Views /\ codex.turn \in Nat /\ codex'.turn \in Nat
  <2>1. codex \in Views BY DEF Inv, Typed
  <2>2. codex.turn \in Nat BY NaturalTurns
  <2>3. codex'.turn \in {codex.turn, codex.turn + 1}
    BY <2>1 DEF UserTurn, NextTurn, TurnEnds, AnswerAppears, Views
  <2> QED BY <2>1, <2>2, <2>3
<1>2. Behind(codex, codex')
  <2>1. CASE UserTurn
    <3>1. codex'.turn = codex.turn + 1 BY <2>1, <1>1 DEF UserTurn, NextTurn, Views
    <3> QED BY <3>1, <1>1 DEF Behind
  <2>2. CASE TurnEnds
    <3>1. codex'.turn = codex.turn /\ Ended(codex') BY <2>2, <1>1 DEF TurnEnds, Views, Ended
    <3> QED BY <3>1 DEF Behind
  <2>3. CASE AnswerAppears
    <3>1. codex'.turn = codex.turn /\ Ended(codex') BY <2>3, <1>1 DEF AnswerAppears, Views, Ended
    <3> QED BY <3>1 DEF Behind
  <2> QED BY <2>1, <2>2, <2>3
<1>3. Behind(snap, codex') BY <1>1, <1>2, NaturalTurns, BehindFacts DEF SoleNow
<1>4. ASSUME NEW s \in Loops PROVE Follows(p[s], snap, codex')
  <2>1. s \in Procs /\ Follows(p[s], snap, codex) BY DEF SoleNow, Procs
  <2>2. p[s].view.turn \in Nat BY <2>1, NaturalTurns
  <2>3. Behind(p[s].view, codex) => Behind(p[s].view, codex') BY <1>1, <1>2, <2>2, BehindFacts
  <2> QED BY <2>1, <2>3 DEF Follows
<1> QED BY <1>0, <1>3, <1>4 DEF SoleNow, FiledEnded, Behind, Ended

\* The steps under the lock: the row follows what was stored.
LEMMA RowFollows ==
  ASSUME Inv, Alone, DrawnNow, Sole, SoleNow, NEW s \in Procs,
         CardStep(s) \/ CreateRow(s) \/ Update(s) \/ RecordFinal(s), p[s].at \notin Outside
  PROVE  Behind(row', snap) /\ FiledEnded(row')
<1> USE DEF stored, sent, spent, thread
<1>a. /\ p[s] \in States /\ row \in Rows /\ p[s].view \in Views /\ p[s].mem \in Rows /\ p \in [Procs -> States]
      /\ Drawn(p[s], row, routes) /\ Behind(row, snap) /\ FiledEnded(row)
  BY Fields DEF Inv, Places, Typed, DrawnNow, SoleNow
<1>b. p[s].view = snap
  <2>1. Follows(p[s], snap, codex) BY ReaderMoves DEF Outside
  <2> QED BY <2>1 DEF Follows, Outside
<1>c. row.turn \in Nat /\ snap.turn \in Nat BY NaturalTurns
<1>1. CASE CardStep(s)
  <2>1. row'.turn = row.turn /\ row'.status = row.status /\ row'.fp = row.fp
    BY <1>1, <1>a DEF CardStep, SendNotice, RouteNotice, SendCards, UpdateNotice, RecordNotice, Rows
  <2> QED BY <2>1, <1>a DEF Behind, Ended, FiledEnded
<1>2. CASE CreateRow(s)
  <2>1. row' = p[s].mem /\ p[s].at \in Made BY <1>2 DEF CreateRow, Made
  <2>2. row'.turn = snap.turn /\ row'.status = snap.status /\ row'.fp = NoFinal BY <2>1, <1>a, <1>b DEF Drawn
  <2> QED BY <2>2 DEF Behind, Ended, FiledEnded
<1>3. CASE Update(s)
  <2>1. p[s].at \in Edited BY <1>3 DEF Update, Edited
  <2>2. p[s].cur /\ p[s].mem.fp = row.fp BY <2>1, <1>a DEF Drawn
  <2>3. row'.turn = snap.turn /\ row'.status = snap.status /\ row'.fp = row.fp
    <3> DEFINE u == IF p[s].view.turn \in userRoutes /\ p[s].view.turn \notin marked THEN p[s].view.turn ELSE p[s].mem.user
    <3>1. row' = [RowAfterUpdate(row, p[s].view) EXCEPT !.fp = p[s].mem.fp, !.user = IF u # p[s].mem.user THEN u ELSE @]
      BY <1>3, <2>2 DEF Update
    <3> HIDE DEF u
    <3> QED BY <3>1, <2>2, <1>a, <1>b DEF RowAfterUpdate, Rows
  <2>4. row.fp # NoFinal => row.fp[1] \in Nat
    <3>1. row.fp \in Finals \cup {NoFinal} BY <1>a, RowParts
    <3> QED BY <3>1, FinalFacts, PanelAssumption DEF Turns
  <2>5. FiledEnded(row')
    <3> SUFFICES ASSUME row.fp # NoFinal
                 PROVE  row.fp[1] < snap.turn \/ (row.fp[1] = snap.turn /\ Ended(snap))
      BY <2>3 DEF FiledEnded, Ended
    <3> QED BY <2>4, <1>a, <1>c DEF FiledEnded, Behind
  <2> QED BY <2>3, <2>5 DEF Behind, Ended
<1>4. CASE RecordFinal(s)
  <2>1. p[s].fin[1] = row.turn /\ Ended(row) BY <1>4, <1>a DEF RecordFinal, Drawn, Sent
  <2>2. row' \in {row, RowAfterFinal(row, p[s].fin)} BY <1>4 DEF RecordFinal
  <2>3. CASE row' = row BY <2>3, <1>a
  <2>4. CASE row' = RowAfterFinal(row, p[s].fin)
    <3>1. row'.turn = row.turn /\ Ended(row') /\ row'.fp[1] = row'.turn BY <2>1, <2>4, <1>a DEF RowAfterFinal, Rows, Ended
    <3> QED BY <2>1, <3>1, <1>a DEF Behind, FiledEnded
  <2> QED BY <2>2, <2>3, <2>4
<1> QED BY <1>1, <1>2, <1>3, <1>4

LEMMA UnderTheLock ==
  ASSUME Inv, NEW s \in Procs,
         \/ Lock(s) \/ CardStep(s) \/ CreateRow(s) \/ KeepRow(s) \/ Update(s)
         \/ Decide(s) \/ SendFinal(s) \/ RecordFinal(s) \/ Fault(s)
  PROVE  Goes(s) /\ UNCHANGED <<snap, codex>> /\ p[s].at \notin {"idle", "store", "load"}
<1> USE DEF thread, stored, sent, spent, Goto
<1>a. p \in [Procs -> States] /\ p[s] \in States BY DEF Inv, Places
<1>0. /\ UNCHANGED <<snap, codex>>
      /\ p[s].at \notin {"idle", "store", "load"}
  BY DEF Lock, CardStep, SendNotice, Creates, RouteNotice, SendCards, UpdateNotice, RecordNotice, CreateRow, KeepRow,
         Update, Decide, SendFinal, RecordFinal, Fault
<1>1. CASE Done(s) BY <1>0, <1>1, <1>a DEF Done, Goes
<1>2. CASE CardStep(s)
  <2>1. PICK m \in Rows, w \in Points : CardMove(s, m, w) BY <1>2, CardMoves DEF Inv
  <2>2. p'[s] = [p[s] EXCEPT !.mem = m, !.at = w] /\ w \notin Outside /\ \A q \in Procs : q # s => p'[q] = p[q]
    BY <2>1, <1>a DEF CardMove
  <2> QED BY <1>0, <2>2, <1>a DEF Goes, States, Outside
<1>3. CASE CreateRow(s)
  <2>1. p'[s] = [p[s] EXCEPT !.cur = TRUE, !.at = IF p[s].at = "create" THEN "update" ELSE "reupdate"]
    BY <1>3, <1>a DEF CreateRow
  <2>2. \A q \in Procs : q # s => p'[q].at = p[q].at BY <1>3, <1>a DEF CreateRow, States
  <2> QED BY <1>0, <2>1, <2>2, <1>a DEF Goes, States
<1>4. CASE Lock(s) BY <1>0, <1>4, <1>a DEF Lock, Goes, States
<1>5. CASE KeepRow(s) /\ ~Done(s) BY <1>0, <1>5, <1>a DEF KeepRow, Goes, States
<1>6. CASE Update(s)
  <2>1. \E m : p' = [p EXCEPT ![s].mem = m, ![s].at = "final"] BY <1>6 DEF Update
  <2> QED BY <1>0, <2>1, <1>a DEF Goes, States
<1>7. CASE Decide(s) /\ ~Done(s)
  <2>1. \E f : p' = [p EXCEPT ![s].at = "send", ![s].fin = f] BY <1>7 DEF Decide
  <2> QED BY <1>0, <2>1, <1>a DEF Goes, States
<1>8. CASE SendFinal(s) BY <1>0, <1>8, <1>a DEF SendFinal, Goes, States
<1>9. CASE RecordFinal(s) /\ ~Done(s) BY <1>0, <1>9, <1>a DEF RecordFinal, Goes, States
<1>10. CASE Fault(s) /\ ~Done(s)
  <2>1. p' = [p EXCEPT ![s].at = "resend"] BY <1>10 DEF Fault, AfterFailure
  <2> QED BY <1>0, <2>1, <1>a DEF Goes, States
<1> QED BY <1>1, <1>2, <1>3, <1>4, <1>5, <1>6, <1>7, <1>8, <1>9, <1>10

\* A single reader goes on following the thread.
LEMMA SoleStep == Inv /\ Alone /\ DrawnNow /\ Sole /\ Sole' /\ SoleNow /\ [Next]_vars => SoleNow'
<1> SUFFICES ASSUME Inv, Alone, DrawnNow, Sole, Sole', SoleNow, [Next]_vars PROVE SoleNow' OBVIOUS
<1> USE DEF thread, stored, sent, spent, vars
<1>1. CASE UNCHANGED vars BY <1>1 DEF SoleNow, FiledEnded, Behind, Ended
<1>2. CASE Crash
  <2>1. Follows(Idle, snap, codex) BY DEF Follows, Idle
  <2> QED BY <1>2, <2>1, Starts DEF Crash, SoleNow, FiledEnded, Behind, Ended, Procs
<1>3. ASSUME NEW s \in Procs,
             CardStep(s) \/ CreateRow(s) \/ Update(s) \/ RecordFinal(s)
      PROVE  SoleNow'
  <2>1. p[s].at \notin Outside
    BY <1>3 DEF CardStep, SendNotice, Creates, RouteNotice, SendCards, UpdateNotice, RecordNotice, CreateRow, Update,
             RecordFinal, Outside
  <2> QED BY <1>3, <2>1, RowFollows, UnderTheLock, SoleGoes
<1>4. ASSUME NEW s \in Procs, Lock(s) \/ KeepRow(s) \/ Decide(s) \/ SendFinal(s) \/ Fault(s) PROVE SoleNow'
  <2>1. row' = row BY <1>4 DEF Lock, KeepRow, Decide, SendFinal, Fault
  <2>2. Behind(row', snap) /\ FiledEnded(row') BY <2>1 DEF SoleNow
  <2> QED BY <1>4, <2>2, UnderTheLock, SoleGoes
<1> QED BY <1>1, <1>2, <1>3, <1>4, SoleReads, SoleCodex DEF Next, Step, CardStep

\* The bound on failures counts them.
LEMMA FaultsStep == faults \in Nat /\ [Next]_vars => faults' \in Nat /\ faults' >= faults
<1> SUFFICES ASSUME faults \in Nat, [Next]_vars PROVE faults' \in Nat /\ faults' >= faults OBVIOUS
<1> USE DEF thread, stored, sent, spent, vars
<1>1. ASSUME NEW s \in Procs, Fault(s) PROVE faults' = faults + 1 BY <1>1 DEF Fault
<1>2. CASE UserTurn \/ TurnEnds \/ AnswerAppears \/ Crash \/ UNCHANGED vars
  BY <1>2 DEF UserTurn, TurnEnds, AnswerAppears, Crash
<1>3. ASSUME NEW s \in Procs, Poll(s) \/ ChatTurn(s) \/ Press(s) \/ Lock(s) PROVE faults' = faults
  BY <1>3 DEF Poll, ChatTurn, Press, Lock
<1>4. ASSUME NEW s \in Procs, Step(s) PROVE faults' = faults
  BY <1>4 DEF Step, Mark, Read, Store, Seed, Load, Choose, Redraw, SendNotice, RouteNotice, SendCards, UpdateNotice,
           RecordNotice, CreateRow, KeepRow, Update, Decide, SendFinal, RecordFinal
<1> QED BY <1>1, <1>2, <1>3, <1>4 DEF Next
\* The program stops only in a crash.
LEMMA CrashesStep == Inv /\ [Next]_vars => crashes' >= crashes
<1> SUFFICES ASSUME Inv, [Next]_vars PROVE crashes' >= crashes OBVIOUS
<1> USE DEF thread, stored, sent, spent, vars
<1>0. crashes \in Nat BY DEF Inv, Typed
<1>1. CASE Crash BY <1>0, <1>1 DEF Crash
<1>2. CASE UserTurn \/ TurnEnds \/ AnswerAppears \/ UNCHANGED vars
  BY <1>0, <1>2 DEF UserTurn, TurnEnds, AnswerAppears
<1>3. ASSUME NEW s \in Procs, Poll(s) \/ ChatTurn(s) \/ Press(s) \/ Lock(s) \/ Fault(s) PROVE crashes' = crashes
  BY <1>3 DEF Poll, ChatTurn, Press, Lock, Fault
<1>4. ASSUME NEW s \in Procs, Step(s) PROVE crashes' = crashes
  BY <1>4 DEF Step, Mark, Read, Store, Seed, Load, Choose, Redraw, SendNotice, RouteNotice, SendCards, UpdateNotice,
           RecordNotice, CreateRow, KeepRow, Update, Decide, SendFinal, RecordFinal
<1> QED BY <1>0, <1>1, <1>2, <1>3, <1>4 DEF Next

\* No card is sent, and the row's turn is not an earlier one.
LEMMA ProgressQuiet ==
  ASSUME Inv, Inv', ProgressNow, progress' = progress, row'.turn >= row.turn,
         \A s \in Loops : p'[s].at \notin Making \cup Remaking,
         \A s \in Loops : p[s].at = "create" => row'.turn = p[s].view.turn
  PROVE  ProgressNow'
<1>1. row.turn \in Nat /\ row'.turn \in Nat /\ \A t \in Turns : t \in Nat
  <2>1. row.turn \in 0..MaxTurns /\ row'.turn \in 0..MaxTurns BY RowParts DEF Inv, Typed
  <2> QED BY <2>1, PanelAssumption DEF Turns
<1>2. ASSUME NEW t \in Turns, progress[t] # 0 PROVE t <= row'.turn
  <2>1. CASE t <= row.turn BY <1>1, <2>1
  <2>2. CASE \E s \in Loops : p[s].at = "create" /\ p[s].view.turn = t BY <1>1, <2>2
  <2> QED BY <1>2, <2>1, <2>2 DEF ProgressNow
<1> QED BY <1>2 DEF ProgressNow

LEMMA ProgressCards ==
  ASSUME Inv, Alone, DrawnNow, Sole, SoleNow, ProgressNow, NEW s \in Procs, CardStep(s)
  PROVE  ProgressNow'
<1> USE DEF thread, stored, sent, spent, Goto, Making, Remaking
<1>a. p \in [Procs -> States] /\ p[s] \in States /\ row \in Rows BY DEF Inv, Places, Typed
<1>b. p[s].at \notin Outside
  BY DEF CardStep, SendNotice, Creates, RouteNotice, SendCards, UpdateNotice, RecordNotice, Outside
<1>c. s \in Loops /\ Follows(p[s], snap, codex) /\ \A r \in Loops : r = s BY <1>b, ReaderMoves DEF Outside
<1>d. p[s].view = snap /\ ~p[s].force BY <1>b, <1>c DEF Follows, Outside
<1>e. row'.turn = row.turn
  BY <1>a DEF CardStep, SendNotice, RouteNotice, SendCards, UpdateNotice, RecordNotice, Rows
<1>f. row.turn \in Nat /\ snap.turn \in Nat /\ \A t \in Turns : t \in Nat BY NaturalTurns, PanelAssumption DEF Turns
<1>g. p'[s].view = p[s].view /\ p'[s].at \notin Outside
  <2>1. PICK m \in Rows, w \in Points : CardMove(s, m, w) BY CardMoves DEF Inv
  <2> QED BY <2>1, <1>a DEF CardMove, States
<1>1. CASE SendNotice(s)
  <2>1. p[s].at = "ensure" /\ Replaces(s)
    BY <1>1, <1>c DEF SendNotice, Creates, ProgressNow
  <2>2. row.turn < snap.turn
    <3>1. row.turn = 0 \/ row.turn # snap.turn BY <2>1, <1>d DEF Replaces, NeedsRow
    <3>2. snap.turn # 0
      <4>1. snap.turn \in Turns BY ViewFacts DEF Inv, Typed
      <4> QED BY <4>1, PanelAssumption DEF Turns
    <3> QED BY <3>1, <3>2, <1>f DEF SoleNow, Behind
  <2>3. p'[s].at \in {"note", "cards"}
    <3> DEFINE t == p[s].view.turn
               m == [NoRow EXCEPT !.turn = t, !.status = p[s].view.status, !.user = IF t \in marked THEN 0 ELSE t]
    <3>1. \E w \in {"note", "cards"} : p' = [p EXCEPT ![s].mem = m, ![s].at = w] BY <1>1, <2>1 DEF SendNotice
    <3> HIDE DEF m
    <3> QED BY <3>1, <1>a DEF States
  <2>4. progress' = progress /\ row' = row BY <1>1 DEF SendNotice
  <2> QED BY <1>c, <1>d, <1>g, <2>1, <2>2, <2>3, <2>4 DEF ProgressNow
<1>2. CASE RouteNotice(s)
  <2>1. p[s].at = "note" BY <1>2, <1>c DEF RouteNotice, ProgressNow
  <2>2. p'[s].at = "cards" /\ progress' = progress BY <1>2, <2>1, <1>a DEF RouteNotice, States
  <2> QED BY <1>c, <1>e, <1>g, <2>1, <2>2 DEF ProgressNow
<1>3. CASE SendCards(s)
  <2> DEFINE n == p[s].view.turn
  <2>1. p[s].at = "cards" /\ row.turn < n BY <1>3, <1>c DEF SendCards, ProgressNow
  <2>2. p'[s].at = "create" BY <1>3, <2>1, <1>a DEF SendCards, States
  <2>3. n \in Turns BY Fields, ViewFacts DEF Inv
  <2>4. progress[n] = 0
    <3>1. ~(n <= row.turn) BY <2>1, <2>3, <1>f
    <3>2. ~\E r \in Loops : p[r].at = "create" /\ p[r].view.turn = n BY <1>c, <2>1
    <3> QED BY <2>3, <3>1, <3>2 DEF ProgressNow
  <2>5. progress' = [progress EXCEPT ![n] = 1]
    BY <1>3, <2>4 DEF SendCards, More
  <2>6. progress \in [Turns -> 0..2] BY DEF Inv, Typed
  <2>7. \A t \in Turns : t # n => progress'[t] = progress[t] BY <2>5, <2>6
  <2>8. progress'[n] = 1 BY <2>3, <2>5, <2>6
  <2>9. \A t \in Turns : ~\E r \in Loops : p[r].at = "create" /\ p[r].view.turn = t BY <1>c, <2>1
  <2>10. ASSUME NEW t \in Turns
         PROVE  /\ progress'[t] <= 1
                /\ progress'[t] # 0 => t <= row'.turn \/ \E r \in Loops : p'[r].at = "create" /\ p'[r].view.turn = t
    <3>1. CASE t = n BY <3>1, <1>c, <1>g, <2>2, <2>8
    <3>2. CASE t # n BY <3>2, <1>e, <2>7, <2>9 DEF ProgressNow
    <3> QED BY <3>1, <3>2
  <2>11. row'.turn < p'[s].view.turn BY <1>e, <1>g, <2>1
  <2> HIDE DEF n
  <2> QED BY <1>c, <2>2, <2>10, <2>11 DEF ProgressNow
<1>4. CASE UpdateNotice(s) \/ RecordNotice(s)
  <2>1. p[s].at \in {"update", "reupdate", "upnote", "reupnote"} /\ progress' = progress
    BY <1>4 DEF UpdateNotice, RecordNotice
  <2>2. p'[s].at \in {"update", "reupdate", "upnote", "reupnote"}
    <3>1. CASE UpdateNotice(s) BY <3>1, <1>a DEF UpdateNotice, States
    <3>2. CASE RecordNotice(s)
      <4>1. \E w \in {"update", "reupdate"} : p' = [p EXCEPT ![s].mem.user = p[s].view.turn, ![s].at = w]
        BY <3>2 DEF RecordNotice
      <4> QED BY <4>1, <1>a DEF States
    <3> QED BY <1>4, <3>1, <3>2
  <2> QED BY <1>c, <1>e, <2>1, <2>2 DEF ProgressNow
<1> QED BY <1>1, <1>2, <1>3, <1>4 DEF CardStep

\* Where a step leads that sends no card.
LEMMA ProgressPlaces ==
  ASSUME Inv, NEW s \in Procs, faults' = faults, crashes' = crashes,
         \/ Poll(s) \/ Store(s) \/ Load(s) \/ Lock(s) \/ CreateRow(s) \/ KeepRow(s) \/ Update(s)
         \/ Decide(s) \/ SendFinal(s) \/ RecordFinal(s)
  PROVE  /\ p'[s].at \notin Making \cup Remaking /\ \A q \in Procs : q # s => p'[q].at = p[q].at
         /\ progress' = progress
         /\ p[s].at = "create" => CreateRow(s)
<1> USE DEF thread, stored, sent, spent, Goto, Making, Remaking
<1>a. p \in [Procs -> States] /\ p[s] \in States BY DEF Inv, Places
<1>0. progress' = progress /\ (p[s].at = "create" => CreateRow(s))
  BY DEF Poll, Store, Load, Lock, CreateRow, KeepRow, Update, Decide, SendFinal, RecordFinal
<1>1. CASE Poll(s) BY <1>0, <1>1, <1>a, Starts DEF Poll, States
<1>2. CASE Store(s) BY <1>0, <1>2, <1>a DEF Store, States
<1>3. CASE Load(s) BY <1>0, <1>3, <1>a DEF Load, States
<1>4. CASE Done(s) BY <1>0, <1>4, <1>a, Starts DEF Done
<1>5. CASE CreateRow(s)
  <2>1. p'[s] = [p[s] EXCEPT !.cur = TRUE, !.at = IF p[s].at = "create" THEN "update" ELSE "reupdate"]
    BY <1>5, <1>a DEF CreateRow
  <2>2. \A q \in Procs : q # s => p'[q].at = p[q].at BY <1>5, <1>a DEF CreateRow, States
  <2> QED BY <1>0, <2>1, <2>2, <1>a DEF States
<1>6. CASE (Lock(s) \/ KeepRow(s) \/ Update(s) \/ Decide(s) \/ SendFinal(s) \/ RecordFinal(s)) /\ ~Done(s)
  <2>1. CASE Lock(s) BY <1>0, <2>1, <1>a DEF Lock, States
  <2>2. CASE KeepRow(s) BY <1>0, <1>6, <2>2, <1>a DEF KeepRow, States
  <2>3. CASE Update(s)
    <3>1. \E m : p' = [p EXCEPT ![s].mem = m, ![s].at = "final"] BY <2>3 DEF Update
    <3> QED BY <1>0, <3>1, <1>a DEF States
  <2>4. CASE Decide(s)
    <3>1. \E f : p' = [p EXCEPT ![s].at = "send", ![s].fin = f] BY <1>6, <2>4 DEF Decide
    <3> QED BY <1>0, <3>1, <1>a DEF States
  <2>5. CASE SendFinal(s) BY <1>0, <2>5, <1>a DEF SendFinal, States
  <2>6. CASE RecordFinal(s) BY <1>0, <1>6, <2>6, <1>a DEF RecordFinal, States
  <2> QED BY <1>6, <2>1, <2>2, <2>3, <2>4, <2>5, <2>6
<1> QED BY <1>1, <1>2, <1>3, <1>4, <1>5, <1>6

\* Without failures every step of a single reader keeps them.
LEMMA ProgressStep ==
  ASSUME Inv, Alone, DrawnNow, Sole, Sole', SoleNow, ProgressNow, [Next]_vars, faults' = faults, crashes' = crashes,
         faults \in Nat
  PROVE  ProgressNow'
<1> USE DEF thread, stored, sent, spent, vars, Goto
<1>a. Inv' /\ p \in [Procs -> States] BY InvStep DEF Inv, Places
<1>b. row.turn \in Nat /\ snap.turn \in Nat /\ row.turn <= snap.turn
  <2>1. row.turn \in Nat /\ snap.turn \in Nat BY NaturalTurns
  <2> QED BY <2>1 DEF SoleNow, Behind
<1>1. CASE UserTurn \/ TurnEnds \/ AnswerAppears \/ UNCHANGED vars
  BY <1>1 DEF UserTurn, TurnEnds, AnswerAppears, ProgressNow
<1>2. CASE Crash
  <2>1. crashes \in Nat /\ crashes' = crashes + 1 BY <1>2 DEF Crash, Inv, Typed
  <2> QED BY <2>1
<1>3. ASSUME NEW s \in Procs, Fault(s) PROVE FALSE BY <1>3 DEF Fault
<1>4. ASSUME NEW s \in Procs, ChatTurn(s) \/ Press(s) PROVE FALSE
  <2>1. presses' = 0 /\ presses = 0 /\ fromChat' = {} BY DEF Sole
  <2> QED BY <1>4, <2>1 DEF ChatTurn, Press
<1>5. ASSUME NEW s \in Procs, Mark(s) \/ Read(s) \/ Seed(s) \/ Choose(s) \/ Redraw(s) PROVE FALSE
  <2>1. p[s].at \in {"mark", "read", "seed", "choose", "press"} BY <1>5 DEF Mark, Read, Seed, Choose, Redraw
  <2>2. Follows(p[s], snap, codex) BY <2>1, ReaderMoves
  <2> QED BY <2>1, <2>2 DEF Follows
<1>6. ASSUME NEW s \in Procs,
             \/ Poll(s) \/ Store(s) \/ Load(s) \/ Lock(s) \/ CreateRow(s) \/ KeepRow(s) \/ Update(s)
             \/ Decide(s) \/ SendFinal(s) \/ RecordFinal(s)
      PROVE  ProgressNow'
  <2>1. s \in Loops /\ \A r \in Loops : r = s
    <3>1. CASE Poll(s) BY <3>1 DEF Poll, Sole
    <3>2. CASE p[s].at # "idle" BY <3>2, ReaderMoves
    <3> QED BY <1>6, <3>1, <3>2 DEF Store, Load, Lock, CreateRow, KeepRow, Update, Decide, SendFinal, RecordFinal
  <2>2. progress' = progress /\ p'[s].at \notin Making \cup Remaking /\ (p[s].at = "create" => CreateRow(s))
    BY <1>6, ProgressPlaces
  <2>3. row'.turn >= row.turn /\ (CreateRow(s) => row'.turn = p[s].view.turn)
    <3>1. CASE Poll(s) \/ Store(s) \/ Load(s) \/ Lock(s) \/ KeepRow(s) \/ Decide(s) \/ SendFinal(s)
      <4>1. row' = row BY <3>1 DEF Poll, Store, Load, Lock, KeepRow, Decide, SendFinal
      <4>2. ~CreateRow(s) BY <3>1 DEF CreateRow, Poll, Store, Load, Lock, KeepRow, Decide, SendFinal
      <4> QED BY <1>b, <4>1, <4>2
    <3>2. CASE CreateRow(s) \/ Update(s)
      <4>1. p[s].at \in Made \cup Edited /\ p[s].at \notin Outside BY <3>2 DEF CreateRow, Update, Made, Edited, Outside
      <4>2. Drawn(p[s], row, routes) BY DEF DrawnNow
      <4>3. p[s].view = snap BY <4>1, <2>1, ReaderMoves DEF Follows, Outside
      <4>4. CreateRow(s) => row'.turn = snap.turn BY <4>2, <4>3 DEF CreateRow, Drawn, Made
      <4>5. Update(s) => row'.turn = snap.turn
        <5> SUFFICES ASSUME Update(s) PROVE row'.turn = snap.turn OBVIOUS
        <5>1. p[s].cur BY <4>2 DEF Update, Drawn, Edited
        <5>2. row \in Rows BY DEF Inv, Typed
        <5>3. \E f, u : row' = [RowAfterUpdate(row, p[s].view) EXCEPT !.fp = f, !.user = u]
          <6> DEFINE u == IF p[s].view.turn \in userRoutes /\ p[s].view.turn \notin marked THEN p[s].view.turn ELSE p[s].mem.user
          <6>1. row' = [RowAfterUpdate(row, p[s].view) EXCEPT !.fp = p[s].mem.fp, !.user = IF u # p[s].mem.user THEN u ELSE @]
            BY <5>1 DEF Update
          <6>2. row' = [RowAfterUpdate(row, p[s].view) EXCEPT !.fp = p[s].mem.fp,
                          !.user = IF u # p[s].mem.user THEN u ELSE RowAfterUpdate(row, p[s].view).user]
            BY <6>1
          <6> QED BY <6>2
        <5> QED BY <5>2, <5>3, <4>3 DEF RowAfterUpdate, Rows
      <4> QED BY <3>2, <1>b, <4>3, <4>4, <4>5
    <3>3. CASE RecordFinal(s)
      <4>1. p[s].at = "record" /\ row' \in {row, RowAfterFinal(row, p[s].fin)} /\ ~CreateRow(s)
        BY <3>3 DEF RecordFinal, CreateRow
      <4>2. p[s].fin[1] = row.turn BY <4>1 DEF DrawnNow, Drawn, Sent
      <4>3. row \in Rows BY DEF Inv, Typed
      <4>4. row'.turn = row.turn BY <4>1, <4>2, <4>3 DEF RowAfterFinal, Rows
      <4> QED BY <1>b, <4>1, <4>4
    <3> QED BY <1>6, <3>1, <3>2, <3>3
  <2> QED BY <1>a, <2>1, <2>2, <2>3, ProgressQuiet
<1>7. ASSUME NEW s \in Procs, CardStep(s) PROVE ProgressNow' BY <1>7, ProgressCards
<1> QED BY <1>1, <1>2, <1>3, <1>4, <1>5, <1>6, <1>7 DEF Next, Step, CardStep

\* Everything the single reader's promise rests on.
ReaderInv == Inv /\ OnceInv /\ DrawnInv /\ faults \in Nat /\ SoleInv /\ ProgressInv

LEMMA ReaderInit == Init => ReaderInv
<1> SUFFICES ASSUME Init PROVE ReaderInv OBVIOUS
<1>1. Inv /\ OnceInv /\ DrawnInv BY InvInit, OnceInit, DrawnInit
<1>2. \A s \in Procs : p[s] = Idle BY DEF Init
<1>3. faults = 0 /\ snap = Start /\ codex = Start /\ row = NoRow /\ progress = [t \in Turns |-> 0] BY DEF Init
<1>4. SoleNow
  <2>1. Follows(Idle, Start, Start) BY DEF Follows, Idle
  <2>2. Behind(NoRow, Start) /\ Behind(Start, Start) /\ FiledEnded(NoRow)
    BY DEF Behind, FiledEnded, NoRow, Start, Ended
  <2> QED BY <1>2, <1>3, <2>1, <2>2, Starts DEF SoleNow, Procs
<1>5. ProgressNow BY <1>2, <1>3, Starts DEF ProgressNow, Making, Remaking, Procs
<1> QED BY <1>1, <1>3, <1>4, <1>5 DEF ReaderInv, SoleInv, ProgressInv

LEMMA ReaderStep == ReaderInv /\ [Next]_vars => ReaderInv'
<1> SUFFICES ASSUME ReaderInv, [Next]_vars PROVE ReaderInv' OBVIOUS
<1>a. Inv /\ OnceInv /\ DrawnInv /\ faults \in Nat /\ SoleInv /\ ProgressInv BY DEF ReaderInv
<1>1. Inv' BY <1>a, InvStep
<1>2. ASSUME presses' = 0 PROVE presses = 0 BY <1>a, <1>2, PressesStep
<1>3. OnceInv' BY <1>a, <1>2, AloneStep, UnsentStep, CountedStep, NoticedStep DEF OnceInv
<1>4. DrawnInv' BY <1>a, <1>2, DrawnStep DEF DrawnInv, OnceInv
<1>5. faults' \in Nat /\ faults' >= faults /\ crashes' >= crashes BY <1>a, FaultsStep, CrashesStep
<1>6. ASSUME Sole' PROVE Sole /\ SoleNow /\ Alone /\ DrawnNow
  <2>1. Sole BY <1>a, <1>6, SoleBefore
  <2>2. presses = 0 BY <2>1 DEF Sole
  <2> QED BY <1>a, <2>1, <2>2 DEF SoleInv, OnceInv, DrawnInv
<1>7. SoleInv' BY <1>a, <1>6, SoleStep DEF SoleInv
<1>8. ASSUME Unfailed' PROVE ProgressNow'
  <2>1. Sole' /\ faults' = 0 /\ crashes' = 0 BY <1>8 DEF Unfailed
  <2>2. crashes \in Nat BY <1>a DEF Inv, Typed
  <2>3. faults = 0 /\ crashes = 0 BY <1>a, <1>5, <2>1, <2>2
  <2>4. ProgressNow BY <1>a, <1>6, <2>1, <2>3 DEF ProgressInv, Unfailed
  <2> QED BY <1>a, <1>6, <2>1, <2>3, <2>4, ProgressStep
<1> QED BY <1>1, <1>3, <1>4, <1>5, <1>7, <1>8 DEF ReaderInv, ProgressInv

\* A thread only one loop reads, and no chat message or button besides: for any number of turns
\* the progress card of each is sent once unless a call failed or the program stopped, and once
\* the final card of a turn is out and nothing is being synced, its card does not show it running.
THEOREM SoleReaderDrawsOnce == Spec => []SoleReaderDraws
<1>1. ReaderInv => SoleReaderDraws
  <2> SUFFICES ASSUME Inv, DrawnInv, SoleInv, ProgressInv, faults \in Nat PROVE ProgressOnce /\ CardAfterFinal
    BY DEF ReaderInv, SoleReaderDraws
  <2>1. ProgressOnce
    <3> SUFFICES ASSUME Sole, NEW t \in Turns, progress[t] > 1 PROVE faults + crashes > 0 BY DEF ProgressOnce
    <3>1. progress[t] \in 0..2 /\ crashes \in Nat BY DEF Inv, Typed
    <3>2. CASE faults = 0 /\ crashes = 0 BY <3>1, <3>2 DEF ProgressInv, Unfailed, ProgressNow
    <3> QED BY <3>1, <3>2
  <2>2. CardAfterFinal
    <3> SUFFICES ASSUME Sole, row.fp # NoFinal, row.fp[1] = row.turn PROVE card.status # "inProgress"
      BY DEF CardAfterFinal
    <3>1. card = Shown(row) BY DEF Sole, DrawnInv, DrawnNow
    <3>2. row.turn \in Nat BY NaturalTurns
    <3>3. Ended(row) BY <3>2 DEF SoleInv, SoleNow, FiledEnded
    <3> QED BY <3>1, <3>3 DEF Shown, Ended
  <2> QED BY <2>1, <2>2
<1> QED BY <1>1, ReaderInit, ReaderStep, PTL DEF Spec
=============================================================================
