---------------------------- MODULE MessagesProofs ----------------------------
(***************************************************************************)
(* Proofs about a message.  In the chat: a number stands for one message,  *)
(* and a message is acted upon once and gets to its thread, in three       *)
(* invariants, each proved with the help of the one before.  On its way    *)
(* into the thread: its text gets there at most once and starts no turn    *)
(* beside another.  For any messages, deliveries, clashes of numbers, lost *)
(* replies, failed calls and crashes.                                      *)
(***************************************************************************)
EXTENDS TurnInput, Inbox, TLAPS

-----------------------------------------------------------------------------
(* The text of a message (TurnInput)                                       *)

DesktopStages == {"history", "desktopSteer", "desktopStart"}
Cascade == {"armed", "route", "retarget", "noActive", "decide"}
Working == DesktopStages \cup {"resume"} \cup Cascade
Threads == [active : BOOLEAN, turn : 0..MaxTurns]
HStates == [at : Stages, thread : Threads, route : 0..MaxTurns, err : Errors, found : 0..MaxTurns]

\* A message is claimed by one delivery, which tells the outcome and is done.
OneDelivery ==
  /\ \A x \in Handlers : h[x].at # "idle" => claimed[MsgOf[x]] /\ outcome[MsgOf[x]] = "none"
  /\ \A x, y \in Handlers : h[x].at # "idle" /\ h[y].at # "idle" /\ MsgOf[x] = MsgOf[y] => x = y
\* A copy is accepted at the end of the cascade, or its reply was lost.
CopiesCounted ==
  /\ \A m \in Messages : /\ ~claimed[m] => delivered[m] = 0 /\ lost[m] = 0 /\ outcome[m] = "none"
                         /\ delivered[m] = lost[m] \/ delivered[m] = lost[m] + 1
                         /\ outcome[m] = "sent" => delivered[m] = lost[m] + 1
                         /\ outcome[m] = "notSent" => delivered[m] = lost[m]
  /\ \A x \in Handlers : /\ h[x].at \in Working => delivered[MsgOf[x]] = lost[MsgOf[x]]
                         /\ h[x].at = "accepted" => delivered[MsgOf[x]] = lost[MsgOf[x]] + 1
\* While one handler is at work and nobody else starts a turn, what it saw of an idle thread stays true.
SeesIdle(x) ==
  /\ h[x].at \in Cascade => h[x].thread.active \/ current = NoTurn
  /\ h[x].at # "accepted" /\ h[x].err = "noActive" => current = NoTurn
Undisturbed ==
  ~desktop /\ alone /\ fails = 0 =>
    /\ \A x, y \in Handlers : h[x].at # "idle" /\ h[y].at # "idle" => x = y
    /\ \A x \in Handlers : h[x].at \notin DesktopStages /\ (h[x].at # "idle" => SeesIdle(x))
    /\ ~parallel
InputInv == TypeOK /\ OneDelivery /\ CopiesCounted /\ Undisturbed

LEMMA Stays ==
  /\ Working \subseteq Stages /\ "accepted" \in Stages /\ "idle" \in Stages
  /\ "idle" \notin Working /\ "accepted" \notin Working
  /\ 0 \in 0..MaxTurns /\ NoThread \in Threads /\ Idle \in HStates /\ Idle.at = "idle"
<1>1. 0 \in 0..MaxTurns BY InputAssumption
<1> QED BY <1>1 DEF Working, Stages, DesktopStages, Cascade, Threads, NoThread, NoTurn, Idle, HStates, Errors

\* What the handlers see are views of the thread.
LEMMA Views ==
  ASSUME TypeOK
  PROVE  /\ StoredViews \subseteq Threads /\ ReadViews \subseteq StoredViews
         /\ \A v \in ReadViews : v.active \/ current = NoTurn
<1>1. turns \in 0..MaxTurns /\ MaxTurns \in Nat BY InputAssumption DEF TypeOK
<1>2. 0..turns \subseteq 0..MaxTurns BY <1>1
<1>3. \A v \in ActiveViews : v \in Threads /\ v.active
  <2>1. ASSUME NEW v \in ActiveViews PROVE v \in Threads /\ v.active
    <3>1. PICK t \in 0..turns : v = [active |-> TRUE, turn |-> t] BY DEF ActiveViews
    <3> QED BY <1>2, <3>1 DEF Threads
  <2> QED BY <2>1
<1> QED BY <1>3, Stays DEF StoredViews, ReadViews

\* Handler x goes to stage l, with view v of the thread and error e; the others stay.
Moved(x, l, v, e) ==
  /\ h' \in [Handlers -> HStates] /\ h'[x].at = l /\ h'[x].thread = v /\ h'[x].err = e
  /\ \A y \in Handlers \ {x} : h'[y] = h[y]

LEMMA Fields ==
  ASSUME TypeOK, NEW x \in Handlers
  PROVE  /\ h[x] \in HStates /\ h[x].at \in Stages /\ h[x].thread \in Threads /\ h[x].err \in Errors
         /\ h[x].found \in 0..MaxTurns /\ h[x].route \in 0..MaxTurns
BY DEF TypeOK, HStates, Threads

LEMMA Moves ==
  ASSUME TypeOK, NEW x \in Handlers, NEW l \in Stages, Goto(x, l)
  PROVE  Moved(x, l, h[x].thread, h[x].err)
<1> DEFINE r == [h[x] EXCEPT !.at = l]
<1>1. r \in HStates /\ r.at = l /\ r.thread = h[x].thread /\ r.err = h[x].err BY Fields DEF HStates
<1>2. h' = [h EXCEPT ![x] = r] BY DEF Goto
<1>3. h \in [Handlers -> HStates] BY DEF TypeOK, HStates, Threads
<1> QED BY <1>1, <1>2, <1>3 DEF Moved

LEMMA MovesSeeing ==
  ASSUME TypeOK, NEW x \in Handlers, NEW l \in Stages, NEW v \in Threads, h' = [h EXCEPT ![x].at = l, ![x].thread = v]
  PROVE  Moved(x, l, v, h[x].err)
<1> DEFINE r == [h[x] EXCEPT !.at = l, !.thread = v]
<1>1. r \in HStates /\ r.at = l /\ r.thread = v /\ r.err = h[x].err BY Fields DEF HStates
<1>2. h' = [h EXCEPT ![x] = r] OBVIOUS
<1>3. h \in [Handlers -> HStates] BY DEF TypeOK, HStates, Threads
<1> QED BY <1>1, <1>2, <1>3 DEF Moved

LEMMA MovesFailing ==
  ASSUME TypeOK, NEW x \in Handlers, NEW l \in Stages, NEW e \in Errors, NEW f \in 0..MaxTurns,
         h' = [h EXCEPT ![x].at = l, ![x].err = e] \/ h' = [h EXCEPT ![x].at = l, ![x].err = e, ![x].found = f]
  PROVE  Moved(x, l, h[x].thread, e)
<1> DEFINE q == [h[x] EXCEPT !.at = l, !.err = e]
           r == [h[x] EXCEPT !.at = l, !.err = e, !.found = f]
<1>1. /\ q \in HStates /\ q.at = l /\ q.thread = h[x].thread /\ q.err = e
      /\ r \in HStates /\ r.at = l /\ r.thread = h[x].thread /\ r.err = e
  BY Fields DEF HStates
<1>2. h' = [h EXCEPT ![x] = q] \/ h' = [h EXCEPT ![x] = r] OBVIOUS
<1>3. h \in [Handlers -> HStates] BY DEF TypeOK, HStates, Threads
<1> QED BY <1>1, <1>2, <1>3 DEF Moved

LEMMA MovesIdle ==
  ASSUME TypeOK, NEW x \in Handlers, h' = [h EXCEPT ![x] = Idle]
  PROVE  Moved(x, "idle", Idle.thread, Idle.err)
<1>1. h \in [Handlers -> HStates] BY DEF TypeOK, HStates, Threads
<1> QED BY <1>1, Stays DEF Moved

\* The variables of Codex and the bounds in their types.
Rest ==
  /\ current \in 0..MaxTurns /\ turns \in 0..MaxTurns /\ armed \in 0..MaxTurns
  /\ desktop \in Desktop /\ parallel \in BOOLEAN /\ alone \in BOOLEAN
  /\ userTurns \in 0..MaxUserTurns /\ losses \in 0..MaxLost /\ fails \in 0..MaxFails /\ crashes \in 0..MaxCrashes

\* What one call of a handler may come to: neither or both of an accepted copy and a lost reply
\* while it works on, an accepted copy, or a failure told.
Even(x) == \/ UNCHANGED <<delivered, lost>>
           \/ Deliver(x) /\ lost' = [lost EXCEPT ![MsgOf[x]] = @ + 1]
StartsOnIdle(x) ==
  \/ UNCHANGED <<current, parallel>>
  \/ /\ parallel' = (parallel \/ current # NoTurn)
     /\ h[x].at = "desktopStart" \/ (h[x].at = "decide" /\ ~Rejects(x))
WorksOn(x) ==
  /\ h'[x].at \in Working /\ Even(x) /\ UNCHANGED outcome
  /\ h[x].at \notin DesktopStages =>
       /\ h'[x].at \in Cascade /\ UNCHANGED <<current, parallel>>
       /\ fails' = 0 =>
            h'[x].thread.active \/ current = NoTurn \/ (h[x].at \in Cascade /\ h'[x].thread = h[x].thread)
       /\ h'[x].err = "noActive" => current = NoTurn \/ h[x].err = "noActive"
Accepts(x) == h'[x].at = "accepted" /\ Deliver(x) /\ UNCHANGED <<lost, outcome>> /\ StartsOnIdle(x)
Fails(x) == /\ h'[x].at = "idle" /\ Even(x) /\ outcome' = [outcome EXCEPT ![MsgOf[x]] = "notSent"]
            /\ StartsOnIdle(x)
Call(x) ==
  /\ h[x].at \in Working /\ h' \in [Handlers -> HStates] /\ \A y \in Handlers \ {x} : h'[y] = h[y]
  /\ Rest' /\ fails' >= fails /\ UNCHANGED <<claimed, desktop, alone>>
  /\ WorksOn(x) \/ Accepts(x) \/ Fails(x)

\* A bound that is spent stays in its range, and a new turn is one.
LEMMA Spends ==
  ASSUME TypeOK, NEW x \in Handlers
  PROVE  /\ Rest /\ fails \in Nat
         /\ Fail => fails' \in 0..MaxFails /\ fails' > fails /\ fails' # 0
         /\ LoseReply(x) => losses' \in 0..MaxLost
         /\ NewTurn => current' \in 0..MaxTurns /\ turns' \in 0..MaxTurns /\ parallel' \in BOOLEAN
         /\ NoTurn \in 0..MaxTurns
<1>1. Rest /\ fails \in Nat BY InputAssumption DEF TypeOK, Rest
<1>2. Fail => fails' \in 0..MaxFails /\ fails' > fails /\ fails' # 0
  BY <1>1, InputAssumption DEF Fail, Rest
<1>3. LoseReply(x) => losses' \in 0..MaxLost BY <1>1, InputAssumption DEF LoseReply, Rest
<1>4. NewTurn => current' \in 0..MaxTurns /\ turns' \in 0..MaxTurns
  BY <1>1, InputAssumption DEF NewTurn, Rest
<1>5. NewTurn => parallel' \in BOOLEAN BY <1>1 DEF NewTurn, Rest
<1> QED BY <1>1, <1>2, <1>3, <1>4, <1>5, Stays DEF NoTurn

\* Where a step leaves the handler decides which of the three it is.
LEMMA Ends ==
  ASSUME TypeOK, NEW x \in Handlers, Tell(x, "notSent"), Even(x), StartsOnIdle(x)
  PROVE  Fails(x) /\ h' \in [Handlers -> HStates] /\ \A y \in Handlers \ {x} : h'[y] = h[y]
<1>1. Moved(x, "idle", Idle.thread, Idle.err) BY MovesIdle DEF Tell
<1> QED BY <1>1 DEF Moved, Fails, Tell

LEMMA AtDesktop ==
  ASSUME TypeOK, NEW x \in Handlers, NEW l \in Working, NEW v \in Threads, NEW e \in Errors,
         h[x].at \in DesktopStages, Moved(x, l, v, e), Even(x), UNCHANGED outcome
  PROVE  WorksOn(x) /\ h' \in [Handlers -> HStates] /\ \A y \in Handlers \ {x} : h'[y] = h[y]
BY DEF WorksOn, Moved

\* A call of the desktop that fails sends the handler to the app-server or ends it.
LEMMA Unavailable ==
  ASSUME TypeOK, NEW x \in Handlers, h[x].at \in DesktopStages, DesktopUnavailable(x), Even(x), StartsOnIdle(x)
  PROVE  (WorksOn(x) \/ Fails(x)) /\ h' \in [Handlers -> HStates] /\ \A y \in Handlers \ {x} : h'[y] = h[y]
<1>1. CASE Goto(x, "resume") /\ UNCHANGED outcome
  <2>1. Moved(x, "resume", h[x].thread, h[x].err) BY <1>1, Moves DEF Stages
  <2> QED BY <1>1, <2>1, AtDesktop, Fields DEF Working
<1>2. CASE Tell(x, "notSent") BY <1>2, Ends
<1> QED BY <1>1, <1>2 DEF DesktopUnavailable

LEMMA SteerFails ==
  ASSUME TypeOK, NEW x \in Handlers, h[x].at \in DesktopStages, SteerFailed(x), Even(x), UNCHANGED <<current, parallel>>
  PROVE  (WorksOn(x) \/ Fails(x)) /\ h' \in [Handlers -> HStates] /\ \A y \in Handlers \ {x} : h'[y] = h[y]
<1>0. StartsOnIdle(x) BY DEF StartsOnIdle
<1>1. CASE DesktopUnavailable(x) BY <1>0, <1>1, Unavailable
<1>2. CASE Tell(x, "notSent") BY <1>0, <1>2, Ends
<1>3. CASE Goto(x, "desktopStart") /\ UNCHANGED outcome
  <2>1. Moved(x, "desktopStart", h[x].thread, h[x].err) BY <1>3, Moves DEF Stages
  <2> QED BY <1>3, <2>1, AtDesktop, Fields DEF Working, DesktopStages
<1> QED BY <1>1, <1>2, <1>3 DEF SteerFailed

LEMMA LoadHistoryCall == ASSUME TypeOK, NEW x \in Handlers, LoadHistory(x) PROVE Call(x)
<1>1. /\ h[x].at \in DesktopStages /\ h[x].at \in Working /\ Even(x) /\ StartsOnIdle(x)
      /\ UNCHANGED <<desktop, alone, claimed, current, turns, armed, parallel, userTurns, losses, crashes>>
  BY DEF LoadHistory, DesktopStages, Working, Even, StartsOnIdle, cvars
<1>2. CASE Goto(x, "desktopSteer") /\ UNCHANGED <<outcome, fails>>
  <2>1. Moved(x, "desktopSteer", h[x].thread, h[x].err) BY <1>2, Moves DEF Stages
  <2>2. WorksOn(x) /\ h' \in [Handlers -> HStates] /\ \A y \in Handlers \ {x} : h'[y] = h[y]
    BY <1>1, <1>2, <2>1, AtDesktop, Fields DEF Working, DesktopStages
  <2> QED BY <1>1, <1>2, <2>2, Spends DEF Call, Rest
<1>3. CASE Fail /\ DesktopUnavailable(x)
  BY <1>1, <1>3, Unavailable, Spends DEF Call, Rest
<1> QED BY <1>2, <1>3 DEF LoadHistory

LEMMA DesktopSteerCall == ASSUME TypeOK, NEW x \in Handlers, DesktopSteer(x) PROVE Call(x)
<1>1. /\ h[x].at \in DesktopStages /\ h[x].at \in Working /\ StartsOnIdle(x)
      /\ UNCHANGED <<desktop, alone, claimed, current, turns, parallel>>
  BY DEF DesktopSteer, DesktopStages, Working, StartsOnIdle, cvars
<1> DEFINE t == h[x].thread
           steers == armed # NoTurn \/ h[x].route # NoTurn \/ (t.active /\ t.turn # NoTurn)
           Same == h' \in [Handlers -> HStates] /\ \A y \in Handlers \ {x} : h'[y] = h[y]
<1>2. CASE Goto(x, "desktopStart") /\ UNCHANGED <<armed, tally, bvars>>
  <2>1. Moved(x, "desktopStart", h[x].thread, h[x].err) BY <1>2, Moves DEF Stages
  <2>2. Even(x) /\ UNCHANGED <<armed, outcome, userTurns, losses, fails, crashes>> BY <1>2 DEF Even, tally, bvars
  <2>3. WorksOn(x) /\ Same BY <1>1, <2>1, <2>2, AtDesktop, Fields DEF Working, DesktopStages
  <2> QED BY <1>1, <2>2, <2>3, Spends DEF Call, Rest
<1>3. CASE Deliver(x) /\ armed' = NoTurn /\ Goto(x, "accepted") /\ UNCHANGED <<lost, outcome, bvars>>
  <2>1. Moved(x, "accepted", h[x].thread, h[x].err) BY <1>3, Moves DEF Stages
  <2>2. UNCHANGED <<userTurns, losses, fails, crashes>> BY <1>3 DEF bvars
  <2> QED BY <1>1, <1>3, <2>1, <2>2, Spends DEF Call, Rest, Accepts, Moved
<1>4. CASE Deliver(x) /\ LoseReply(x) /\ SteerFailed(x) /\ UNCHANGED <<armed, userTurns, fails, crashes>>
  <2>1. Even(x) BY <1>4 DEF Even, LoseReply
  <2>2. (WorksOn(x) \/ Fails(x)) /\ Same BY <1>1, <1>4, <2>1, SteerFails
  <2> QED BY <1>1, <1>4, <2>2, Spends DEF Call, Rest
<1>5. CASE /\ h' = [h EXCEPT ![x].at = "desktopStart", ![x].thread = NoThread]
           /\ armed' \in {armed, NoTurn} /\ UNCHANGED <<tally, bvars>>
  <2>1. Moved(x, "desktopStart", NoThread, h[x].err) BY <1>5, MovesSeeing, Stays DEF Stages
  <2>2. Even(x) /\ UNCHANGED <<outcome, userTurns, losses, fails, crashes>> BY <1>5 DEF Even, tally, bvars
  <2>3. WorksOn(x) /\ Same BY <1>1, <2>1, <2>2, AtDesktop, Fields, Stays DEF Working, DesktopStages
  <2> QED BY <1>1, <1>5, <2>2, <2>3, Spends DEF Call, Rest
<1>6. CASE Tell(x, "notSent") /\ UNCHANGED <<armed, delivered, lost, bvars>>
  <2>1. Even(x) /\ UNCHANGED <<userTurns, losses, fails, crashes>> BY <1>6 DEF Even, bvars
  <2>2. Fails(x) /\ Same BY <1>1, <1>6, <2>1, Ends
  <2> QED BY <1>1, <1>6, <2>1, <2>2, Spends DEF Call, Rest
<1>7. CASE Fail /\ SteerFailed(x) /\ UNCHANGED <<armed, delivered, lost, userTurns, losses, crashes>>
  <2>1. Even(x) BY <1>7 DEF Even
  <2>2. (WorksOn(x) \/ Fails(x)) /\ Same BY <1>1, <1>7, <2>1, SteerFails
  <2> QED BY <1>1, <1>7, <2>2, Spends DEF Call, Rest
<1> QED BY <1>2, <1>3, <1>4, <1>5, <1>6, <1>7 DEF DesktopSteer

LEMMA DesktopStartCall == ASSUME TypeOK, NEW x \in Handlers, DesktopStart(x) PROVE Call(x)
<1>1. /\ h[x].at = "desktopStart" /\ h[x].at \in DesktopStages /\ h[x].at \in Working
      /\ UNCHANGED <<desktop, alone, claimed>>
  BY DEF DesktopStart, DesktopStages, Working
<1> DEFINE Same == h' \in [Handlers -> HStates] /\ \A y \in Handlers \ {x} : h'[y] = h[y]
<1>2. CASE NewTurn /\ Deliver(x) /\ armed' = NoTurn /\ Goto(x, "accepted") /\ UNCHANGED <<lost, outcome, bvars>>
  <2>1. Moved(x, "accepted", h[x].thread, h[x].err) BY <1>2, Moves DEF Stages
  <2>2. StartsOnIdle(x) /\ UNCHANGED <<userTurns, losses, fails, crashes>>
    BY <1>1, <1>2 DEF bvars, StartsOnIdle, NewTurn
  <2> QED BY <1>1, <1>2, <2>1, <2>2, Spends DEF Call, Rest, Accepts, Moved
<1>3. CASE NewTurn /\ Deliver(x) /\ LoseReply(x) /\ DesktopUnavailable(x) /\ UNCHANGED <<armed, userTurns, fails, crashes>>
  <2>1. Even(x) /\ StartsOnIdle(x) BY <1>1, <1>3 DEF Even, LoseReply, StartsOnIdle, NewTurn
  <2>2. (WorksOn(x) \/ Fails(x)) /\ Same BY <1>1, <1>3, <2>1, Unavailable
  <2> QED BY <1>1, <1>3, <2>2, Spends DEF Call, Rest
<1>4. CASE /\ Fail /\ (DesktopUnavailable(x) \/ Tell(x, "notSent"))
           /\ UNCHANGED <<cvars, parallel, armed, delivered, lost, userTurns, losses, crashes>>
  <2>1. Even(x) /\ StartsOnIdle(x) /\ UNCHANGED <<current, turns>> BY <1>4 DEF Even, StartsOnIdle, cvars
  <2>2. (WorksOn(x) \/ Fails(x)) /\ Same BY <1>1, <1>4, <2>1, Unavailable, Ends
  <2> QED BY <1>1, <1>4, <2>1, <2>2, Spends DEF Call, Rest
<1> QED BY <1>2, <1>3, <1>4 DEF DesktopStart

\* On the app-server path a handler goes on to the cascade with what it saw, or with the error of a steer.
LEMMA InCascade ==
  ASSUME TypeOK, NEW x \in Handlers, NEW l \in Cascade, NEW v \in Threads, NEW e \in Errors,
         Moved(x, l, v, e), Even(x), UNCHANGED <<outcome, current, parallel>>,
         fails' = 0 => v.active \/ current = NoTurn \/ (h[x].at \in Cascade /\ v = h[x].thread),
         e = "noActive" => current = NoTurn \/ h[x].err = "noActive"
  PROVE  WorksOn(x) /\ h' \in [Handlers -> HStates] /\ \A y \in Handlers \ {x} : h'[y] = h[y]
<1>1. h'[x].at = l /\ h'[x].thread = v /\ h'[x].err = e /\ l \in Working BY DEF Moved, Working
<1>2. fails' = 0 => h'[x].thread.active \/ current = NoTurn \/ (h[x].at \in Cascade /\ h'[x].thread = h[x].thread)
  BY <1>1
<1>3. h'[x].err = "noActive" => current = NoTurn \/ h[x].err = "noActive" BY <1>1
<1>4. WorksOn(x) BY <1>1, <1>2, <1>3 DEF WorksOn
<1> QED BY <1>4 DEF Moved

LEMMA RefreshedCall ==
  ASSUME TypeOK, NEW x \in Handlers, NEW l \in Cascade, Refreshed(x, l), Even(x), UNCHANGED <<outcome, current, parallel>>
  PROVE  /\ WorksOn(x) /\ h' \in [Handlers -> HStates] /\ \A y \in Handlers \ {x} : h'[y] = h[y]
         /\ fails' >= fails /\ fails' \in 0..MaxFails
<1>0. l \in Stages BY Stays DEF Working
<1>1. ASSUME NEW v \in ReadViews, h' = [h EXCEPT ![x].at = l, ![x].thread = v], UNCHANGED fails
      PROVE  WorksOn(x) /\ h' \in [Handlers -> HStates] /\ \A y \in Handlers \ {x} : h'[y] = h[y]
  <2>1. v \in Threads /\ (v.active \/ current = NoTurn) BY Views
  <2>2. Moved(x, l, v, h[x].err) BY <1>0, <1>1, <2>1, MovesSeeing
  <2> QED BY <2>1, <2>2, InCascade, Fields
<1>2. CASE Fail /\ Goto(x, l)
  <2>1. Moved(x, l, h[x].thread, h[x].err) BY <1>0, <1>2, Moves
  <2>2. fails' # 0 BY <1>2, Spends
  <2> QED BY <1>2, <2>1, <2>2, InCascade, Fields, Spends
<1> QED BY <1>1, <1>2, Spends DEF Refreshed, Rest

LEMMA ResumeCall == ASSUME TypeOK, NEW x \in Handlers, Resume(x) PROVE Call(x)
<1>1. /\ h[x].at = "resume" /\ h[x].at \in Working /\ Even(x) /\ StartsOnIdle(x) /\ "armed" \in Cascade
      /\ UNCHANGED <<desktop, alone, claimed, current, turns, armed, parallel, userTurns, losses, crashes>>
  BY DEF Resume, Working, Even, StartsOnIdle, cvars, Cascade
<1>2. CASE Refreshed(x, "armed") /\ UNCHANGED outcome
  BY <1>1, <1>2, RefreshedCall, Spends DEF Call, Rest
<1>3. CASE Fail /\ Tell(x, "notSent") BY <1>1, <1>3, Ends, Spends DEF Call, Rest
<1> QED BY <1>2, <1>3 DEF Resume

LEMMA SteerCall ==
  ASSUME TypeOK, NEW x \in Handlers, h[x].at \in {"armed", "route", "retarget"},
         UNCHANGED <<desktop, alone, claimed, current, turns, outcome, parallel>>,
         \/ \E t \in 0..MaxTurns, clears \in BOOLEAN : Steer(x, t, clears)
         \/ Goto(x, NextStage(x)) /\ UNCHANGED <<armed, delivered, lost, bvars>>
  PROVE  Call(x)
<1>1. /\ h[x].at \in Cascade /\ h[x].at \in Working /\ StartsOnIdle(x)
      /\ NextStage(x) \in Cascade /\ NextStage(x) \in Stages
  BY DEF Cascade, Working, StartsOnIdle, NextStage, Stages
<1> DEFINE Same == h' \in [Handlers -> HStates] /\ \A y \in Handlers \ {x} : h'[y] = h[y]
<1>2. CASE Goto(x, NextStage(x)) /\ UNCHANGED <<armed, delivered, lost, bvars>>
  <2>1. Moved(x, NextStage(x), h[x].thread, h[x].err) BY <1>1, <1>2, Moves
  <2>2. Even(x) /\ UNCHANGED <<userTurns, losses, fails, crashes>> BY <1>2 DEF Even, bvars
  <2>3. WorksOn(x) /\ Same BY <1>1, <2>1, <2>2, InCascade, Fields
  <2> QED BY <1>1, <1>2, <2>2, <2>3, Spends DEF Call, Rest
<1>3. ASSUME NEW t \in 0..MaxTurns, NEW clears \in BOOLEAN, Steer(x, t, clears) PROVE Call(x)
  <2>1. CASE /\ Deliver(x) /\ armed' = IF clears THEN NoTurn ELSE armed
             /\ Goto(x, "accepted") /\ UNCHANGED <<lost, bvars>>
    <3>1. Moved(x, "accepted", h[x].thread, h[x].err) BY <2>1, Moves DEF Stages
    <3>2. UNCHANGED <<userTurns, losses, fails, crashes>> /\ armed' \in {NoTurn, armed} BY <2>1 DEF bvars
    <3> QED BY <1>1, <2>1, <3>1, <3>2, Spends DEF Call, Rest, Accepts, Moved
  <2>2. CASE /\ Deliver(x) /\ LoseReply(x) /\ h' = [h EXCEPT ![x].at = NextStage(x), ![x].err = "other"]
             /\ UNCHANGED <<armed, userTurns, fails, crashes>>
    <3>1. Moved(x, NextStage(x), h[x].thread, "other") BY <1>1, <2>2, MovesFailing, Stays DEF Errors
    <3>2. Even(x) BY <2>2 DEF Even, LoseReply
    <3>3. WorksOn(x) /\ Same BY <1>1, <3>1, <3>2, InCascade, Fields DEF Errors
    <3> QED BY <1>1, <2>2, <3>3, Spends DEF Call, Rest
  <2>3. CASE /\ h' = [h EXCEPT ![x].at = NextStage(x),
                   ![x].err = IF current = NoTurn THEN "noActive" ELSE IF current # t THEN "mismatch" ELSE "busy",
                   ![x].found = current]
             /\ UNCHANGED <<armed, delivered, lost, bvars>>
    <3> DEFINE e == IF current = NoTurn THEN "noActive" ELSE IF current # t THEN "mismatch" ELSE "busy"
    <3>0. e \in Errors /\ (e = "noActive" => current = NoTurn) BY DEF Errors
    <3> HIDE DEF e
    <3>1. current \in 0..MaxTurns /\ h' = [h EXCEPT ![x].at = NextStage(x), ![x].err = e, ![x].found = current]
      BY <2>3 DEF TypeOK, e
    <3>2. Moved(x, NextStage(x), h[x].thread, e) BY <1>1, <3>0, <3>1, MovesFailing
    <3>3. Even(x) /\ UNCHANGED <<userTurns, losses, fails, crashes>> BY <2>3 DEF Even, bvars
    <3>4. WorksOn(x) /\ Same BY <1>1, <3>0, <3>2, <3>3, InCascade, Fields
    <3> QED BY <1>1, <2>3, <3>3, <3>4, Spends DEF Call, Rest
  <2>4. CASE /\ Fail /\ h' = [h EXCEPT ![x].at = NextStage(x), ![x].err = "other"]
             /\ UNCHANGED <<armed, delivered, lost, userTurns, losses, crashes>>
    <3>1. Moved(x, NextStage(x), h[x].thread, "other") BY <1>1, <2>4, MovesFailing, Stays DEF Errors
    <3>2. Even(x) BY <2>4 DEF Even
    <3>3. WorksOn(x) /\ Same BY <1>1, <3>1, <3>2, InCascade, Fields DEF Errors
    <3> QED BY <1>1, <2>4, <3>3, Spends DEF Call, Rest
  <2> QED BY <1>3, <2>1, <2>2, <2>3, <2>4 DEF Steer, AfterAccept
<1> QED BY <1>2, <1>3

LEMMA SteersCall ==
  ASSUME TypeOK, NEW x \in Handlers, SteerArmed(x) \/ SteerTurn(x) \/ Retarget(x)
  PROVE  Call(x)
<1>1. /\ h[x].at \in {"armed", "route", "retarget"}
      /\ UNCHANGED <<desktop, alone, claimed, current, turns, outcome, parallel>>
  BY DEF SteerArmed, SteerTurn, Retarget, cvars
<1>2. armed \in 0..MaxTurns /\ h[x].route \in 0..MaxTurns /\ h[x].thread.turn \in 0..MaxTurns /\ h[x].found \in 0..MaxTurns
  BY Fields DEF TypeOK, Threads
<1>3. \/ \E t \in 0..MaxTurns, clears \in BOOLEAN : Steer(x, t, clears)
      \/ Goto(x, NextStage(x)) /\ UNCHANGED <<armed, delivered, lost, bvars>>
  <2>1. CASE SteerArmed(x) BY <1>2, <2>1 DEF SteerArmed
  <2>2. CASE SteerTurn(x)
    <3> DEFINE t == h[x].thread
               expected == IF h[x].route # NoTurn THEN h[x].route ELSE IF t.active THEN t.turn ELSE NoTurn
    <3>1. Steer(x, expected, FALSE) \/ (Goto(x, NextStage(x)) /\ UNCHANGED <<armed, delivered, lost, bvars>>)
      BY <2>2 DEF SteerTurn
    <3>2. expected \in 0..MaxTurns BY <1>2, Spends
    <3> HIDE DEF expected
    <3> QED BY <3>1, <3>2
  <2>3. CASE Retarget(x) BY <1>2, <2>3 DEF Retarget
  <2> QED BY <2>1, <2>2, <2>3
<1> QED BY <1>1, <1>3, SteerCall

LEMMA RefreshNoActiveCall == ASSUME TypeOK, NEW x \in Handlers, RefreshNoActive(x) PROVE Call(x)
<1>1. /\ h[x].at \in Working /\ h[x].at \in Cascade /\ Even(x) /\ "decide" \in Cascade /\ "decide" \in Stages
      /\ UNCHANGED <<desktop, alone, claimed, current, turns, armed, parallel, outcome, userTurns, losses, crashes>>
  BY DEF RefreshNoActive, Working, Even, cvars, tally, Cascade, Stages
<1>2. CASE Refreshed(x, "decide") BY <1>1, <1>2, RefreshedCall, Spends DEF Call, Rest
<1>3. CASE Goto(x, "decide") /\ UNCHANGED fails
  <2>1. Moved(x, "decide", h[x].thread, h[x].err) BY <1>1, <1>3, Moves
  <2>2. WorksOn(x) /\ h' \in [Handlers -> HStates] /\ \A y \in Handlers \ {x} : h'[y] = h[y]
    BY <1>1, <2>1, InCascade, Fields
  <2> QED BY <1>1, <1>3, <2>2, Spends DEF Call, Rest
<1> QED BY <1>2, <1>3 DEF RefreshNoActive

LEMMA DecideCall == ASSUME TypeOK, NEW x \in Handlers, Reject(x) \/ TurnStart(x) PROVE Call(x)
<1>0. h[x].at = "decide" /\ h[x].at \in Working /\ UNCHANGED <<desktop, alone, claimed>>
  BY DEF Reject, TurnStart, Working, Cascade
<1> DEFINE Same == h' \in [Handlers -> HStates] /\ \A y \in Handlers \ {x} : h'[y] = h[y]
<1>1. CASE Reject(x)
  <2>1. /\ Even(x) /\ StartsOnIdle(x) /\ Tell(x, "notSent")
        /\ UNCHANGED <<current, turns, armed, parallel, userTurns, losses, fails, crashes>>
    BY <1>1 DEF Reject, Even, StartsOnIdle, cvars, bvars
  <2> QED BY <1>0, <2>1, Ends, Spends DEF Call, Rest
<1>2. CASE ~Rejects(x) /\ NewTurn /\ Deliver(x) /\ armed' = NoTurn /\ Goto(x, "accepted") /\ UNCHANGED <<lost, outcome, bvars>>
  <2>1. Moved(x, "accepted", h[x].thread, h[x].err) BY <1>2, Moves DEF Stages
  <2>2. StartsOnIdle(x) /\ UNCHANGED <<userTurns, losses, fails, crashes>>
    BY <1>0, <1>2 DEF bvars, StartsOnIdle, NewTurn
  <2> QED BY <1>0, <1>2, <2>1, <2>2, Spends DEF Call, Rest, Accepts, Moved
<1>3. CASE ~Rejects(x) /\ NewTurn /\ Deliver(x) /\ LoseReply(x) /\ Tell(x, "notSent") /\ UNCHANGED <<armed, userTurns, fails, crashes>>
  <2>1. Even(x) /\ StartsOnIdle(x) BY <1>0, <1>3 DEF Even, LoseReply, StartsOnIdle, NewTurn
  <2>2. Fails(x) /\ Same BY <1>3, <2>1, Ends
  <2> QED BY <1>0, <1>3, <2>2, Spends DEF Call, Rest
<1>4. CASE /\ Fail /\ Tell(x, "notSent")
           /\ UNCHANGED <<cvars, parallel, armed, delivered, lost, userTurns, losses, crashes>>
  <2>1. Even(x) /\ StartsOnIdle(x) /\ UNCHANGED <<current, turns>> BY <1>4 DEF Even, StartsOnIdle, cvars
  <2>2. Fails(x) /\ Same BY <1>4, <2>1, Ends
  <2> QED BY <1>0, <1>4, <2>1, <2>2, Spends DEF Call, Rest
<1> QED BY <1>1, <1>2, <1>3, <1>4 DEF TurnStart

\* Every step of a handler that works is such a call.
LEMMA WorkingSteps ==
  ASSUME TypeOK, NEW x \in Handlers, Step(x)
  PROVE  Call(x) \/ Receive(x) \/ Finish(x)
BY LoadHistoryCall, DesktopSteerCall, DesktopStartCall, ResumeCall, SteersCall, RefreshNoActiveCall, DecideCall DEF Step

\* The copies and the outcome of one message change, those of the others stay.
LEMMA Counts ==
  ASSUME TypeOK, NEW x \in Handlers
  PROVE  /\ MsgOf[x] \in Messages /\ delivered[MsgOf[x]] \in Nat /\ lost[MsgOf[x]] \in Nat
         /\ Deliver(x) => /\ delivered' \in [Messages -> Nat] /\ delivered'[MsgOf[x]] = delivered[MsgOf[x]] + 1
                          /\ \A m \in Messages \ {MsgOf[x]} : delivered'[m] = delivered[m]
         /\ Even(x) => /\ delivered' \in [Messages -> Nat] /\ lost' \in [Messages -> Nat]
                       /\ \/ delivered'[MsgOf[x]] = delivered[MsgOf[x]] /\ lost'[MsgOf[x]] = lost[MsgOf[x]]
                          \/ delivered'[MsgOf[x]] = delivered[MsgOf[x]] + 1 /\ lost'[MsgOf[x]] = lost[MsgOf[x]] + 1
                       /\ \A m \in Messages \ {MsgOf[x]} : delivered'[m] = delivered[m] /\ lost'[m] = lost[m]
<1>1. /\ MsgOf[x] \in Messages /\ delivered[MsgOf[x]] \in Nat /\ lost[MsgOf[x]] \in Nat
      /\ delivered \in [Messages -> Nat] /\ lost \in [Messages -> Nat]
  BY InputAssumption DEF TypeOK
<1>2. Deliver(x) => /\ delivered' \in [Messages -> Nat] /\ delivered'[MsgOf[x]] = delivered[MsgOf[x]] + 1
                    /\ \A m \in Messages \ {MsgOf[x]} : delivered'[m] = delivered[m]
  BY <1>1 DEF Deliver
<1> QED BY <1>1, <1>2 DEF Even

LEMMA CallSafe == ASSUME InputInv, NEW x \in Handlers, Call(x) PROVE InputInv'
<1> USE DEF InputInv
<1> DEFINE M == MsgOf[x]
<1>1. /\ h[x].at \in Working /\ h[x].at # "idle" /\ claimed[M] /\ outcome[M] = "none"
      /\ delivered[M] = lost[M] /\ M \in Messages /\ delivered[M] \in Nat
  BY Counts, Stays DEF Call, OneDelivery, CopiesCounted
<1>2. /\ h' \in [Handlers -> HStates] /\ \A y \in Handlers \ {x} : h'[y] = h[y]
      /\ Rest' /\ UNCHANGED <<claimed, desktop, alone>>
  BY DEF Call
<1>3. \A y \in Handlers \ {x} : h[y].at # "idle" => MsgOf[y] # M
  BY <1>1 DEF OneDelivery
<1>4. WorksOn(x) \/ Accepts(x) \/ Fails(x) BY DEF Call
<1>5. TypeOK'
  <2>1. delivered' \in [Messages -> Nat] /\ lost' \in [Messages -> Nat] /\ outcome' \in [Messages -> {"none", "sent", "notSent"}]
    BY <1>4, Counts DEF WorksOn, Accepts, Fails, TypeOK
  <2> QED BY <1>2, <2>1 DEF TypeOK, Rest, HStates, Threads
<1>6. OneDelivery'
  <2>1. h'[x].at # "idle" => outcome' = outcome BY <1>4 DEF WorksOn, Accepts, Fails
  <2>2. \A m \in Messages \ {M} : outcome'[m] = outcome[m]
    BY <1>4 DEF WorksOn, Accepts, Fails, TypeOK
  <2>3. \A y \in Handlers : h'[y].at # "idle" => h[y].at # "idle" BY <1>1, <1>2
  <2>4. \A y \in Handlers : MsgOf[y] \in Messages BY InputAssumption
  <2>5. ASSUME NEW y \in Handlers, h'[y].at # "idle" PROVE claimed'[MsgOf[y]] /\ outcome'[MsgOf[y]] = "none"
    BY <1>1, <1>2, <1>3, <2>1, <2>2, <2>3, <2>4, <2>5 DEF OneDelivery
  <2> QED BY <2>3, <2>5 DEF OneDelivery
<1>7. CopiesCounted'
  <2>1. CASE WorksOn(x) \/ Fails(x)
    <3>1. Even(x) /\ h'[x].at # "accepted" BY <2>1, Stays DEF WorksOn, Fails
    <3>2. \A m \in Messages \ {M} : outcome'[m] = outcome[m] BY <2>1 DEF WorksOn, Fails, TypeOK
    <3>0. outcome' \in [Messages -> {"none", "sent", "notSent"}] /\ outcome'[M] \in {"none", "notSent"}
      BY <1>1, <2>1 DEF WorksOn, Fails, TypeOK
    <3>3. delivered'[M] = lost'[M] /\ \A m \in Messages \ {M} : delivered'[m] = delivered[m] /\ lost'[m] = lost[m]
      BY <1>1, <3>1, Counts
    <3>4. \A y \in Handlers : MsgOf[y] \in Messages BY InputAssumption
    <3>5. \A m \in Messages : /\ ~claimed'[m] => delivered'[m] = 0 /\ lost'[m] = 0 /\ outcome'[m] = "none"
                              /\ delivered'[m] = lost'[m] \/ delivered'[m] = lost'[m] + 1
                              /\ outcome'[m] = "sent" => delivered'[m] = lost'[m] + 1
                              /\ outcome'[m] = "notSent" => delivered'[m] = lost'[m]
      BY <1>1, <1>2, <3>0, <3>2, <3>3 DEF CopiesCounted
    <3>6. \A y \in Handlers : /\ h'[y].at \in Working => delivered'[MsgOf[y]] = lost'[MsgOf[y]]
                              /\ h'[y].at = "accepted" => delivered'[MsgOf[y]] = lost'[MsgOf[y]] + 1
      BY <1>1, <1>2, <1>3, <3>1, <3>3, <3>4, Stays DEF CopiesCounted
    <3> QED BY <3>5, <3>6 DEF CopiesCounted
  <2>2. CASE Accepts(x)
    <3>1. Deliver(x) /\ h'[x].at = "accepted" /\ UNCHANGED <<lost, outcome>> BY <2>2 DEF Accepts
    <3>2. delivered'[M] = lost[M] + 1 /\ \A m \in Messages \ {M} : delivered'[m] = delivered[m]
      BY <1>1, <3>1, Counts
    <3>3. \A y \in Handlers : MsgOf[y] \in Messages BY InputAssumption
    <3>4. \A m \in Messages : /\ ~claimed'[m] => delivered'[m] = 0 /\ lost'[m] = 0 /\ outcome'[m] = "none"
                              /\ delivered'[m] = lost'[m] \/ delivered'[m] = lost'[m] + 1
                              /\ outcome'[m] = "sent" => delivered'[m] = lost'[m] + 1
                              /\ outcome'[m] = "notSent" => delivered'[m] = lost'[m]
      BY <1>1, <1>2, <3>1, <3>2 DEF CopiesCounted
    <3>5. \A y \in Handlers : /\ h'[y].at \in Working => delivered'[MsgOf[y]] = lost'[MsgOf[y]]
                              /\ h'[y].at = "accepted" => delivered'[MsgOf[y]] = lost'[MsgOf[y]] + 1
      BY <1>1, <1>2, <1>3, <3>1, <3>2, <3>3, Stays DEF CopiesCounted
    <3> QED BY <3>4, <3>5 DEF CopiesCounted
  <2> QED BY <1>4, <2>1, <2>2
<1>8. Undisturbed'
  <2> SUFFICES ASSUME ~desktop, alone, fails' = 0
               PROVE  /\ \A y, z \in Handlers : h'[y].at # "idle" /\ h'[z].at # "idle" => y = z
                      /\ \A y \in Handlers : h'[y].at \notin DesktopStages /\ (h'[y].at # "idle" => SeesIdle(y)')
                      /\ ~parallel'
    BY <1>2 DEF Undisturbed
  <2>1. fails = 0 BY Spends DEF Call, TypeOK
  <2>2. /\ \A y, z \in Handlers : h[y].at # "idle" /\ h[z].at # "idle" => y = z
        /\ \A y \in Handlers : h[y].at \notin DesktopStages /\ (h[y].at # "idle" => SeesIdle(y))
        /\ ~parallel
    BY <2>1 DEF Undisturbed
  <2>3. \A y \in Handlers \ {x} : h'[y].at = "idle" BY <1>1, <1>2, <2>2
  <2>4. "idle" \notin DesktopStages /\ "accepted" \notin DesktopStages /\ Cascade \cap DesktopStages = {}
        /\ "idle" \notin Cascade /\ "accepted" \notin Cascade
    BY DEF DesktopStages, Cascade
  <2>5. h[x].at \notin DesktopStages /\ SeesIdle(x) /\ h[x].at # "accepted" BY <1>1, <2>2, Stays
  <2>6. CASE WorksOn(x)
    <3>1. /\ h'[x].at \in Cascade /\ current' = current /\ parallel' = parallel
          /\ h'[x].thread.active \/ current = NoTurn \/ (h[x].at \in Cascade /\ h'[x].thread = h[x].thread)
          /\ h'[x].err = "noActive" => current = NoTurn \/ h[x].err = "noActive"
      BY <2>5, <2>6 DEF WorksOn
    <3>2. SeesIdle(x)' BY <2>5, <3>1 DEF SeesIdle
    <3> QED BY <2>2, <2>3, <2>4, <3>1, <3>2
  <2>7. CASE Accepts(x) \/ Fails(x)
    <3>1. h'[x].at \in {"accepted", "idle"} /\ StartsOnIdle(x) BY <2>7 DEF Accepts, Fails
    <3>2. SeesIdle(x)' \/ h'[x].at = "idle" BY <2>4, <3>1 DEF SeesIdle
    <3>3. parallel' = parallel
      <4>1. CASE UNCHANGED <<current, parallel>> BY <4>1
      <4>2. CASE parallel' = (parallel \/ current # NoTurn) /\ h[x].at = "decide" /\ ~Rejects(x)
        <5>1. current = NoTurn BY <2>5, <4>2 DEF SeesIdle, Rejects, Cascade
        <5>2. parallel \in BOOLEAN /\ ~parallel BY <2>2 DEF TypeOK
        <5>3. parallel' = FALSE BY <4>2, <5>1, <5>2, Zenon
        <5> QED BY <5>2, <5>3, Zenon
      <4> QED BY <2>5, <3>1, <4>1, <4>2 DEF StartsOnIdle, DesktopStages
    <3> QED BY <2>2, <2>3, <2>4, <3>1, <3>2, <3>3
  <2> QED BY <1>4, <2>6, <2>7
<1> QED BY <1>5, <1>6, <1>7, <1>8

LEMMA ReceiveSafe == ASSUME InputInv, NEW x \in Handlers, Receive(x) PROVE InputInv'
<1> USE DEF InputInv
<1> DEFINE M == MsgOf[x]
<1>1. /\ h[x].at = "idle" /\ ~claimed[M] /\ claimed' = [claimed EXCEPT ![M] = TRUE] /\ alone' = (alone /\ Quiet)
      /\ UNCHANGED <<desktop, current, turns, armed, delivered, lost, outcome, parallel, userTurns, losses, fails, crashes>>
  BY DEF Receive, Unclaimed, cvars, tally, bvars
<1>2. PICK t \in StoredViews, r \in 0..turns :
        h' = [h EXCEPT ![x] = [at |-> IF desktop THEN "history" ELSE "resume", thread |-> t, route |-> r, err |-> "none", found |-> NoTurn]]
  BY DEF Receive
<1> DEFINE l == IF desktop THEN "history" ELSE "resume"
           new == [at |-> l, thread |-> t, route |-> r, err |-> "none", found |-> NoTurn]
<1>3. /\ new \in HStates /\ new.at = l /\ new.err = "none" /\ l \in Working /\ l # "idle" /\ l # "accepted"
      /\ (~desktop => l = "resume")
  <2>1. t \in Threads /\ r \in 0..MaxTurns /\ NoTurn \in 0..MaxTurns
    BY Views, Spends, InputAssumption DEF TypeOK
  <2> QED BY <2>1 DEF HStates, Stages, Errors, Working, DesktopStages
<1>4. h \in [Handlers -> HStates] BY DEF TypeOK, HStates, Threads
<1>5. /\ h' \in [Handlers -> HStates] /\ h'[x].at = l /\ h'[x].err = "none" /\ \A y \in Handlers \ {x} : h'[y] = h[y]
  BY <1>2, <1>3, <1>4
<1> HIDE DEF l, new
<1>6. /\ \A y \in Handlers : MsgOf[y] \in Messages
      /\ claimed' \in [Messages -> BOOLEAN] /\ claimed'[M] /\ \A m \in Messages \ {M} : claimed'[m] = claimed[m]
  BY <1>1, InputAssumption DEF TypeOK
<1>7. /\ delivered[M] = 0 /\ lost[M] = 0 /\ outcome[M] = "none"
      /\ \A y \in Handlers : h[y].at # "idle" => MsgOf[y] # M
  BY <1>1, <1>6 DEF CopiesCounted, OneDelivery
<1>8. TypeOK'
  <2>1. alone' \in BOOLEAN BY <1>1 DEF TypeOK
  <2> QED BY <1>1, <1>5, <1>6, <2>1 DEF TypeOK, HStates, Threads
<1>9. OneDelivery'
  <2>1. ASSUME NEW y \in Handlers, h'[y].at # "idle" PROVE claimed'[MsgOf[y]] /\ outcome'[MsgOf[y]] = "none"
    <3>1. CASE y = x BY <1>1, <1>6, <1>7, <3>1
    <3>2. CASE y # x
      <4>1. claimed[MsgOf[y]] /\ outcome[MsgOf[y]] = "none" BY <1>5, <2>1, <3>2 DEF OneDelivery
      <4> QED BY <1>1, <1>6, <4>1
    <3> QED BY <3>1, <3>2
  <2>2. ASSUME NEW y \in Handlers, NEW z \in Handlers, h'[y].at # "idle", h'[z].at # "idle", MsgOf[y] = MsgOf[z]
        PROVE  y = z
    BY <1>5, <1>7, <2>2 DEF OneDelivery
  <2> QED BY <2>1, <2>2 DEF OneDelivery
<1>10. CopiesCounted'
  <2>1. ASSUME NEW m \in Messages
        PROVE  /\ ~claimed'[m] => delivered'[m] = 0 /\ lost'[m] = 0 /\ outcome'[m] = "none"
               /\ delivered'[m] = lost'[m] \/ delivered'[m] = lost'[m] + 1
               /\ outcome'[m] = "sent" => delivered'[m] = lost'[m] + 1
               /\ outcome'[m] = "notSent" => delivered'[m] = lost'[m]
    BY <1>1, <1>6, <1>7 DEF CopiesCounted
  <2>2. ASSUME NEW y \in Handlers
        PROVE  /\ h'[y].at \in Working => delivered'[MsgOf[y]] = lost'[MsgOf[y]]
               /\ h'[y].at = "accepted" => delivered'[MsgOf[y]] = lost'[MsgOf[y]] + 1
    BY <1>1, <1>3, <1>5, <1>7 DEF CopiesCounted
  <2> QED BY <2>1, <2>2 DEF CopiesCounted
<1>11. Undisturbed'
  <2> SUFFICES ASSUME ~desktop, alone', fails = 0
               PROVE  /\ \A y, z \in Handlers : h'[y].at # "idle" /\ h'[z].at # "idle" => y = z
                      /\ \A y \in Handlers : h'[y].at \notin DesktopStages /\ (h'[y].at # "idle" => SeesIdle(y)')
                      /\ ~parallel'
    BY <1>1 DEF Undisturbed
  <2>1. alone /\ \A y \in Handlers : h[y].at = "idle" BY <1>1 DEF Quiet, TypeOK
  <2>2. ~parallel' BY <1>1, <2>1 DEF Undisturbed
  <2>3. h'[x].at = "resume" /\ \A y \in Handlers \ {x} : h'[y].at = "idle" BY <1>3, <1>5, <2>1
  <2>4. SeesIdle(x)' BY <1>5, <2>3 DEF SeesIdle, Cascade
  <2> QED BY <2>2, <2>3, <2>4 DEF DesktopStages
<1> QED BY <1>8, <1>9, <1>10, <1>11

LEMMA FinishSafe == ASSUME InputInv, NEW x \in Handlers, Finish(x) PROVE InputInv'
<1> USE DEF InputInv
<1> DEFINE M == MsgOf[x]
<1>1. /\ h[x].at = "accepted" /\ h' = [h EXCEPT ![x] = Idle] /\ outcome' = [outcome EXCEPT ![M] = "sent"]
      /\ UNCHANGED <<desktop, alone, claimed, current, turns, armed, delivered, lost, parallel, userTurns, losses, fails, crashes>>
  BY DEF Finish, Tell, cvars, bvars
<1>2. /\ h' \in [Handlers -> HStates] /\ h'[x].at = "idle" /\ \A y \in Handlers \ {x} : h'[y] = h[y]
  BY <1>1, MovesIdle DEF Moved
<1>3. /\ \A y \in Handlers : MsgOf[y] \in Messages
      /\ outcome' \in [Messages -> {"none", "sent", "notSent"}] /\ \A m \in Messages \ {M} : outcome'[m] = outcome[m]
  BY <1>1, InputAssumption DEF TypeOK
<1>4. /\ claimed[M] /\ \A y \in Handlers \ {x} : h[y].at # "idle" => MsgOf[y] # M
      /\ outcome'[M] = "sent" /\ delivered[M] = lost[M] + 1
  BY <1>1, InputAssumption DEF OneDelivery, CopiesCounted, TypeOK
<1>5. TypeOK' BY <1>1, <1>2, <1>3 DEF TypeOK, HStates, Threads
<1>6. OneDelivery'
  <2>1. ASSUME NEW y \in Handlers, h'[y].at # "idle" PROVE claimed'[MsgOf[y]] /\ outcome'[MsgOf[y]] = "none"
    BY <1>1, <1>2, <1>3, <1>4, <2>1 DEF OneDelivery
  <2>2. ASSUME NEW y \in Handlers, NEW z \in Handlers, h'[y].at # "idle", h'[z].at # "idle", MsgOf[y] = MsgOf[z]
        PROVE  y = z
    BY <1>2, <2>2 DEF OneDelivery
  <2> QED BY <2>1, <2>2 DEF OneDelivery
<1>7. CopiesCounted'
  <2>1. ASSUME NEW m \in Messages
        PROVE  /\ ~claimed'[m] => delivered'[m] = 0 /\ lost'[m] = 0 /\ outcome'[m] = "none"
               /\ delivered'[m] = lost'[m] \/ delivered'[m] = lost'[m] + 1
               /\ outcome'[m] = "sent" => delivered'[m] = lost'[m] + 1
               /\ outcome'[m] = "notSent" => delivered'[m] = lost'[m]
    BY <1>1, <1>3, <1>4 DEF CopiesCounted
  <2>2. ASSUME NEW y \in Handlers
        PROVE  /\ h'[y].at \in Working => delivered'[MsgOf[y]] = lost'[MsgOf[y]]
               /\ h'[y].at = "accepted" => delivered'[MsgOf[y]] = lost'[MsgOf[y]] + 1
    BY <1>1, <1>2, Stays DEF CopiesCounted
  <2> QED BY <2>1, <2>2 DEF CopiesCounted
<1>8. Undisturbed'
  <2>1. "idle" \notin DesktopStages BY DEF DesktopStages
  <2>2. \A y \in Handlers : h'[y].at # "idle" => h'[y] = h[y] /\ (SeesIdle(y) => SeesIdle(y)')
    BY <1>1, <1>2 DEF SeesIdle
  <2> QED BY <1>1, <1>2, <2>1, <2>2 DEF Undisturbed
<1> QED BY <1>5, <1>6, <1>7, <1>8

LEMMA EnvironmentSafe == InputInv /\ (Environment \/ UNCHANGED vars) => InputInv'
<1> SUFFICES ASSUME InputInv, Environment \/ UNCHANGED vars PROVE InputInv' OBVIOUS
<1> USE DEF InputInv
<1>0. "idle" \notin DesktopStages /\ NoTurn \in 0..MaxTurns BY Spends, Stays DEF DesktopStages, NoTurn
<1>1. ASSUME UNCHANGED <<h, claimed, delivered, lost, outcome>>
      PROVE  OneDelivery' /\ CopiesCounted'
  BY <1>1 DEF OneDelivery, CopiesCounted
<1>2. CASE TurnEnds \/ Arm \/ ArmExpires \/ UNCHANGED vars
  <2>1. /\ current' \in {current, NoTurn} /\ armed' \in {armed, current, NoTurn}
        /\ UNCHANGED <<desktop, alone, claimed, h, turns, delivered, lost, outcome, parallel, userTurns, losses, fails, crashes>>
    BY <1>2 DEF TurnEnds, Arm, ArmExpires, vars, cvars, tally, bvars
  <2>2. TypeOK' BY <1>0, <2>1 DEF TypeOK
  <2>3. \A x \in Handlers : SeesIdle(x) => SeesIdle(x)' BY <2>1 DEF SeesIdle
  <2>4. Undisturbed' BY <2>1, <2>3 DEF Undisturbed
  <2> QED BY <1>1, <2>1, <2>2, <2>4
<1>3. CASE UserTurn
  <2>1. /\ alone' = (alone /\ Quiet) /\ turns < MaxTurns /\ turns' = turns + 1 /\ current' = turns + 1
        /\ userTurns < MaxUserTurns /\ userTurns' = userTurns + 1
        /\ UNCHANGED <<desktop, claimed, h, armed, delivered, lost, outcome, parallel, losses, fails, crashes>>
    BY <1>3 DEF UserTurn, tally
  <2>2. alone' \in BOOLEAN BY <2>1 DEF TypeOK
  <2>3. turns' \in 0..MaxTurns /\ current' \in 0..MaxTurns /\ userTurns' \in 0..MaxUserTurns
    BY <2>1, InputAssumption DEF TypeOK
  <2>4. TypeOK' BY <2>1, <2>2, <2>3 DEF TypeOK
  <2>5. Undisturbed'
    <3>1. ASSUME alone' PROVE alone /\ \A x \in Handlers : h'[x].at = "idle" BY <2>1, <3>1 DEF Quiet, TypeOK
    <3> QED BY <1>0, <2>1, <3>1 DEF Undisturbed
  <2> QED BY <1>1, <2>1, <2>4, <2>5
<1>4. CASE Crash
  <2>1. /\ h' = [x \in Handlers |-> Idle] /\ crashes' = crashes + 1 /\ crashes < MaxCrashes
        /\ UNCHANGED <<desktop, alone, claimed, current, turns, armed, delivered, lost, outcome, parallel, userTurns, losses, fails>>
    BY <1>4 DEF Crash, cvars, tally
  <2>2. \A x \in Handlers : h'[x].at = "idle" BY <2>1, Stays
  <2>3. TypeOK'
    <3>1. crashes' \in 0..MaxCrashes BY <2>1, InputAssumption DEF TypeOK
    <3>2. h' \in [Handlers -> HStates] BY <2>1, Stays
    <3> QED BY <2>1, <3>1, <3>2 DEF TypeOK, HStates, Threads
  <2>4. OneDelivery' BY <2>2 DEF OneDelivery
  <2>5. CopiesCounted' BY <2>1, <2>2, Stays DEF CopiesCounted
  <2>6. Undisturbed' BY <1>0, <2>1, <2>2 DEF Undisturbed
  <2> QED BY <2>3, <2>4, <2>5, <2>6
<1> QED BY <1>2, <1>3, <1>4 DEF Environment

LEMMA InputInvInit == Init => InputInv
<1> SUFFICES ASSUME Init PROVE InputInv OBVIOUS
<1>1. \A x \in Handlers : h[x] = Idle /\ h[x].at = "idle" BY Stays DEF Init
<1>2. h \in [Handlers -> HStates] BY Stays DEF Init
<1>3. 0 \in 0..MaxUserTurns /\ 0 \in 0..MaxLost /\ 0 \in 0..MaxFails /\ 0 \in 0..MaxCrashes /\ NoTurn \in 0..MaxTurns
  BY InputAssumption DEF NoTurn
<1>4. TypeOK BY <1>2, <1>3, Stays DEF Init, TypeOK, HStates, Threads
<1> QED BY <1>1, <1>4, Stays DEF Init, InputInv, OneDelivery, CopiesCounted, Undisturbed, DesktopStages

LEMMA InputInvariant == Spec => []InputInv
<1>1. InputInv /\ [Next]_vars => InputInv'
  <2> SUFFICES ASSUME InputInv, [Next]_vars PROVE InputInv' OBVIOUS
  <2>1. ASSUME NEW x \in Handlers, Step(x) PROVE InputInv'
    <3>1. Call(x) \/ Receive(x) \/ Finish(x) BY <2>1, WorkingSteps DEF InputInv
    <3> QED BY <3>1, CallSafe, ReceiveSafe, FinishSafe
  <2> QED BY <2>1, EnvironmentSafe DEF Next
<1> QED BY <1>1, InputInvInit, PTL DEF Spec

\* However often Feishu delivers a message, whatever calls fail and whatever replies are lost, Codex
\* accepts one copy more than the replies that were lost at most, and the chat is told what happened
\* (handleMessageEvent, sendInputToThreadTurnFromSource, maybeSendFeishuInputViaDesktop).
THEOREM CopiesNeverDoubled == Spec => []CopiesAccounted
<1>1. InputInv => CopiesAccounted
  <2> SUFFICES ASSUME InputInv, NEW m \in Messages
               PROVE  /\ delivered[m] <= 1 + lost[m]
                      /\ outcome[m] = "sent" => delivered[m] = 1 + lost[m]
                      /\ outcome[m] = "notSent" => delivered[m] = lost[m]
    BY DEF CopiesAccounted
  <2> QED BY DEF InputInv, CopiesCounted, TypeOK
<1> QED BY <1>1, InputInvariant, PTL

\* On the app-server path nothing a handler saw, of the thread or in the errors of its steers, makes it
\* start a turn beside an active one, as long as no call failed and nobody else started one meanwhile.
THEOREM NoParallelCascade == Spec => []CascadeNeverParallel
<1>1. InputInv => CascadeNeverParallel
  BY DEF InputInv, Undisturbed, CascadeNeverParallel, NoParallelTurn
<1> QED BY <1>1, InputInvariant, PTL

-----------------------------------------------------------------------------
(* Numbers                                                                 *)

\* Messages share no number and keep the one they have, which is one of their own attempts.
Distinct == /\ \A i, j \in Names : number[i] # NoNumber /\ number[i] = number[j] => i = j
            /\ \A i \in Names : number[i] # NoNumber => \E k \in DOMAIN Hash[i] : number[i] = Hash[i][k]
            /\ \A n \in Numbers : owner[n] # Nobody => number[owner[n]] = n
\* The attempts a goroutine has behind it failed on numbers of other messages.
Fits(w) ==
  /\ job[w].at \in {"look", "insert", "map"} => job[w].name \in Names
  /\ At(w, "look") => job[w].try = 1
  /\ At(w, "insert") => /\ job[w].try \in DOMAIN Hash[job[w].name]
                        /\ \A k \in 1..(job[w].try - 1) :
                             \E j \in Names \ {job[w].name} : number[j] = Hash[job[w].name][k]
  /\ At(w, "map") => job[w].got # NoNumber /\ number[job[w].name] = job[w].got
  /\ job[w].at \in {"reply", "claim", "act"} => job[w].mail \in Mails
NumbersInv == InboxTypes /\ Distinct /\ \A w \in Workers : Fits(w)

LEMMA Sorts ==
  /\ NoNumber \notin Numbers /\ Nobody \notin Names /\ Nobody \notin Owners /\ Nobody \notin Mails /\ Nobody \notin Posts
  /\ RootIds \subseteq Names /\ Posts \subseteq Names /\ Mails \subseteq Names
  /\ Posts \subseteq Workers /\ Deliverers \subseteq Workers
  /\ Resting \in JobStates /\ Resting.at = "idle" /\ Unposted \in Routes
BY InboxAssumption, NobodyAssumption DEF Numbers, NoNumber, Names, Workers, Resting, JobStates, Places, Unposted, Routes

\* A message has a first attempt, its attempts are numbers, and one of them nobody else wants.
LEMMA Attempts ==
  ASSUME NEW i \in Names
  PROVE  /\ Len(Hash[i]) \in Nat /\ DOMAIN Hash[i] = 1..Len(Hash[i]) /\ 1 \in DOMAIN Hash[i]
         /\ \A k \in DOMAIN Hash[i] : Hash[i][k] \in Numbers
         /\ \E k \in DOMAIN Hash[i] : \A j \in Names \ {i} : \A l \in DOMAIN Hash[j] : Hash[j][l] # Hash[i][k]
<1>1. Hash[i] \in Seq(Nat \ {0}) BY InboxAssumption
<1>2. Len(Hash[i]) \in Nat /\ DOMAIN Hash[i] = 1..Len(Hash[i]) BY <1>1
<1>3. \E k \in DOMAIN Hash[i] : \A j \in Names \ {i} : \A l \in DOMAIN Hash[j] : Hash[j][l] # Hash[i][k]
  BY InboxAssumption
<1>4. 1 \in DOMAIN Hash[i] BY <1>2, <1>3
<1>5. \A k \in DOMAIN Hash[i] : Hash[i][k] \in Numbers BY DEF Numbers
<1> QED BY <1>2, <1>3, <1>4, <1>5

\* Goroutine w goes to place a, with mail m, message i, attempt k and number n; the others stay.
Becomes(w, a, m, i, k, n) ==
  /\ job' \in [Workers -> JobStates]
  /\ job'[w].at = a /\ job'[w].mail = m /\ job'[w].name = i /\ job'[w].try = k /\ job'[w].got = n
  /\ \A v \in Workers \ {w} : job'[v] = job[v]

LEMMA JobFields ==
  ASSUME InboxTypes, NEW w \in Workers
  PROVE  /\ job[w] \in JobStates /\ job[w].at \in Places /\ job[w].mail \in Mails \cup {Nobody}
         /\ job[w].name \in Names \cup {Nobody} /\ job[w].try \in Nat /\ job[w].got \in Numbers \cup {NoNumber}
BY DEF InboxTypes, JobStates

LEMMA Goes ==
  ASSUME InboxTypes, NEW w \in Workers, NEW a \in Places, Go(w, a)
  PROVE  Becomes(w, a, job[w].mail, job[w].name, job[w].try, job[w].got)
<1> DEFINE r == [job[w] EXCEPT !.at = a]
<1>1. /\ r \in JobStates /\ r.at = a /\ r.mail = job[w].mail /\ r.name = job[w].name /\ r.try = job[w].try
      /\ r.got = job[w].got
  BY JobFields DEF JobStates
<1>2. job' = [job EXCEPT ![w] = r] BY DEF Go
<1>3. job \in [Workers -> JobStates] BY DEF InboxTypes
<1> QED BY <1>1, <1>2, <1>3 DEF Becomes

LEMMA GoesKnowing ==
  ASSUME InboxTypes, NEW w \in Workers, NEW a \in Places, NEW n \in Numbers \cup {NoNumber},
         job' = [job EXCEPT ![w].got = n, ![w].at = a]
  PROVE  Becomes(w, a, job[w].mail, job[w].name, job[w].try, n)
<1> DEFINE r == [job[w] EXCEPT !.got = n, !.at = a]
<1>1. /\ r \in JobStates /\ r.at = a /\ r.mail = job[w].mail /\ r.name = job[w].name /\ r.try = job[w].try /\ r.got = n
  BY JobFields DEF JobStates
<1>2. job' = [job EXCEPT ![w] = r] OBVIOUS
<1>3. job \in [Workers -> JobStates] BY DEF InboxTypes
<1> QED BY <1>1, <1>2, <1>3 DEF Becomes

LEMMA GoesOn ==
  ASSUME InboxTypes, NEW w \in Workers, job' = [job EXCEPT ![w].try = @ + 1]
  PROVE  Becomes(w, job[w].at, job[w].mail, job[w].name, job[w].try + 1, job[w].got)
<1> DEFINE r == [job[w] EXCEPT !.try = job[w].try + 1]
<1>1. /\ r \in JobStates /\ r.at = job[w].at /\ r.mail = job[w].mail /\ r.name = job[w].name
      /\ r.try = job[w].try + 1 /\ r.got = job[w].got
  BY JobFields DEF JobStates
<1>2. job' = [job EXCEPT ![w] = r] OBVIOUS
<1>3. job \in [Workers -> JobStates] BY DEF InboxTypes
<1> QED BY <1>1, <1>2, <1>3 DEF Becomes

LEMMA GoesLooking ==
  ASSUME InboxTypes, NEW w \in Workers, NEW i \in Names, job' = [job EXCEPT ![w].name = i, ![w].try = 1, ![w].at = "look"]
  PROVE  Becomes(w, "look", job[w].mail, i, 1, job[w].got)
<1> DEFINE r == [job[w] EXCEPT !.name = i, !.try = 1, !.at = "look"]
<1>1. /\ r \in JobStates /\ r.at = "look" /\ r.mail = job[w].mail /\ r.name = i /\ r.try = 1 /\ r.got = job[w].got
  BY JobFields DEF JobStates, Places
<1>2. job' = [job EXCEPT ![w] = r] OBVIOUS
<1>3. job \in [Workers -> JobStates] BY DEF InboxTypes
<1> QED BY <1>1, <1>2, <1>3 DEF Becomes

LEMMA Begins ==
  ASSUME InboxTypes, NEW w \in Workers, NEW m \in Mails \cup {Nobody}, NEW i \in Names,
         \/ job' = [job EXCEPT ![w] = [Resting EXCEPT !.at = "look", !.mail = m, !.name = i]]
         \/ m = Nobody /\ job' = [job EXCEPT ![w] = [Resting EXCEPT !.at = "look", !.name = i]]
  PROVE  Becomes(w, "look", m, i, 1, NoNumber)
<1> DEFINE r == [at |-> "look", mail |-> m, name |-> i, try |-> 1, got |-> NoNumber]
<1>1. r \in JobStates BY DEF JobStates, Places
<1>2. job' = [job EXCEPT ![w] = r] BY DEF Resting
<1>3. job \in [Workers -> JobStates] BY DEF InboxTypes
<1> QED BY <1>1, <1>2, <1>3 DEF Becomes

LEMMA Quits ==
  ASSUME InboxTypes, NEW w \in Workers, Quit(w)
  PROVE  Becomes(w, "idle", Nobody, Nobody, 1, NoNumber)
<1>1. job \in [Workers -> JobStates] BY DEF InboxTypes
<1> QED BY <1>1, Sorts DEF Quit, Becomes, Resting

\* What a goroutine does with a number.
LEMMA Knows ==
  ASSUME InboxTypes, NEW w \in Workers, NEW n \in Numbers, Known(w, n)
  PROVE  \/ /\ job[w].mail \in Mails /\ job[w].name # job[w].mail
            /\ Becomes(w, "claim", job[w].mail, job[w].name, job[w].try, n)
         \/ /\ job[w].mail = Nobody \/ job[w].name = job[w].mail
            /\ Becomes(w, "map", job[w].mail, job[w].name, job[w].try, n)
<1>1. CASE job[w].mail # Nobody /\ job[w].name # job[w].mail
  <2>1. job' = [job EXCEPT ![w].got = n, ![w].at = "claim"] BY <1>1 DEF Known
  <2> QED BY <1>1, <2>1, GoesKnowing, JobFields DEF Places
<1>2. CASE ~(job[w].mail # Nobody /\ job[w].name # job[w].mail)
  <2>1. job' = [job EXCEPT ![w].got = n, ![w].at = "map"] BY <1>2 DEF Known
  <2> QED BY <1>2, <2>1, GoesKnowing DEF Places
<1> QED BY <1>1, <1>2
\* The tables of a goroutine's step: only job changes, or the spent bounds with it.
TablesStay == UNCHANGED <<group, topical, post, mail, number, owner, routes, panel, claims, acted>>

\* Numbers only grow, so what the attempts of the others found stays true.
LEMMA OthersFit ==
  ASSUME NumbersInv, NEW w \in Workers, \A v \in Workers \ {w} : job'[v] = job[v],
         \A i \in Names : number[i] # NoNumber => number'[i] = number[i],
         \A i \in Names : number[i] = NoNumber => number'[i] \in Numbers \cup {NoNumber}
  PROVE  \A v \in Workers \ {w} : Fits(v)'
<1> SUFFICES ASSUME NEW v \in Workers \ {w} PROVE Fits(v)' OBVIOUS
<1>1. Fits(v) /\ job'[v] = job[v] BY DEF NumbersInv
<1>2. ASSUME At(v, "insert") PROVE \A k \in 1..(job[v].try - 1) : \E j \in Names \ {job[v].name} : number'[j] = Hash[job[v].name][k]
  <2>1. ASSUME NEW k \in 1..(job[v].try - 1)
        PROVE  \E j \in Names \ {job[v].name} : number'[j] = Hash[job[v].name][k]
    <3>1. PICK j \in Names \ {job[v].name} : number[j] = Hash[job[v].name][k] BY <1>1, <1>2, <2>1 DEF Fits
    <3>2. job[v].name \in Names /\ job[v].try \in DOMAIN Hash[job[v].name] BY <1>1, <1>2 DEF Fits, At
    <3>3. k \in DOMAIN Hash[job[v].name] BY <2>1, <3>2, Attempts
    <3>4. number[j] \in Numbers BY <3>1, <3>2, <3>3, Attempts
    <3>5. number[j] # NoNumber BY <3>4, Sorts
    <3> QED BY <3>1, <3>5
  <2> QED BY <2>1
<1>3. At(v, "map") => job[v].got # NoNumber /\ number'[job[v].name] = job[v].got
  <2>1. At(v, "map") => job[v].name \in Names BY <1>1 DEF Fits, At
  <2> QED BY <1>1, <2>1 DEF Fits
<1> QED BY <1>1, <1>2, <1>3 DEF Fits, At

\* A step that changes the place of one goroutine and nothing it wrote.
LEMMA JobSafe ==
  ASSUME NumbersInv, NEW w \in Workers, job' \in [Workers -> JobStates], \A v \in Workers \ {w} : job'[v] = job[v],
         Fits(w)', UNCHANGED <<number, owner>>, InboxTypes'
  PROVE  NumbersInv'
<1>1. \A v \in Workers \ {w} : Fits(v)' BY OthersFit DEF NumbersInv, InboxTypes
<1>2. Distinct' BY DEF NumbersInv, Distinct
<1> QED BY <1>1, <1>2 DEF NumbersInv

LEMMA TypesStay ==
  ASSUME InboxTypes, job' \in [Workers -> JobStates], TablesStay, UNCHANGED inboxSpent
  PROVE  InboxTypes'
BY DEF InboxTypes, TablesStay

LEMMA LookUpSafe == ASSUME NumbersInv, NEW w \in Workers, LookUp(w) PROVE NumbersInv'
<1> USE DEF NumbersInv
<1>1. At(w, "look") /\ TablesStay /\ UNCHANGED inboxSpent BY DEF LookUp, TablesStay
<1>2. Fits(w) /\ job[w].name \in Names /\ job[w].try = 1 BY <1>1 DEF Fits, At
<1> DEFINE i == job[w].name
<1>3. number[i] \in Numbers \cup {NoNumber} BY <1>2 DEF InboxTypes
<1>4. CASE number[i] # NoNumber
  <2>1. Known(w, number[i]) BY <1>4 DEF LookUp
  <2>2. CASE /\ job[w].mail \in Mails
             /\ Becomes(w, "claim", job[w].mail, job[w].name, job[w].try, number[i])
    <3>1. Fits(w)' BY <2>2 DEF Becomes, Fits, At
    <3> QED BY <1>1, <2>2, <3>1, JobSafe, TypesStay DEF Becomes, TablesStay
  <2>3. CASE Becomes(w, "map", job[w].mail, job[w].name, job[w].try, number[i])
    <3>1. Fits(w)' BY <1>1, <1>2, <1>4, <2>3 DEF Becomes, Fits, At, TablesStay
    <3> QED BY <1>1, <2>3, <3>1, JobSafe, TypesStay DEF Becomes, TablesStay
  <2> QED BY <1>3, <1>4, <2>1, <2>2, <2>3, Knows
<1>5. CASE number[i] = NoNumber
  <2>1. Becomes(w, "insert", job[w].mail, i, 1, job[w].got) BY <1>2, <1>5, Goes DEF LookUp, Places
  <2>2. 1 \in DOMAIN Hash[i] BY <1>2, Attempts
  <2>3. Fits(w)' BY <1>2, <2>1, <2>2 DEF Becomes, Fits, At
  <2> QED BY <1>1, <2>1, <2>3, JobSafe, TypesStay DEF Becomes, TablesStay
<1> QED BY <1>4, <1>5

\* An attempt that fails is not the last one: that one no other message takes.
LEMMA NextAttempt ==
  ASSUME NumbersInv, NEW w \in Workers, At(w, "insert"),
         \E j \in Names \ {job[w].name} : number[j] = Hash[job[w].name][job[w].try]
  PROVE  /\ job[w].try + 1 \in DOMAIN Hash[job[w].name]
         /\ \A k \in 1..job[w].try : \E j \in Names \ {job[w].name} : number[j] = Hash[job[w].name][k]
<1> DEFINE i == job[w].name
           t == job[w].try
<1>1. /\ i \in Names /\ t \in DOMAIN Hash[i]
      /\ \A k \in 1..(t - 1) : \E j \in Names \ {i} : number[j] = Hash[i][k]
  BY DEF NumbersInv, Fits, At
<1>2. Len(Hash[i]) \in Nat /\ DOMAIN Hash[i] = 1..Len(Hash[i]) BY <1>1, Attempts
<1>3. \A k \in 1..t : \E j \in Names \ {i} : number[j] = Hash[i][k]
  <2>1. \A k \in 1..t : k \in 1..(t - 1) \/ k = t BY <1>1, <1>2
  <2> QED BY <1>1, <2>1
<1>4. PICK u \in DOMAIN Hash[i] : \A j \in Names \ {i} : \A l \in DOMAIN Hash[j] : Hash[j][l] # Hash[i][u]
  BY <1>1, Attempts
<1>5. u \notin 1..t
  <2> SUFFICES ASSUME u \in 1..t PROVE FALSE OBVIOUS
  <2>1. PICK j \in Names \ {i} : number[j] = Hash[i][u] BY <1>3
  <2>2. number[j] # NoNumber BY <1>1, <1>4, <2>1, Attempts, Sorts
  <2>3. PICK l \in DOMAIN Hash[j] : number[j] = Hash[j][l] BY <2>2 DEF NumbersInv, Distinct
  <2> QED BY <1>4, <2>1, <2>3
<1>6. t + 1 \in 1..Len(Hash[i]) BY <1>1, <1>2, <1>4, <1>5
<1> QED BY <1>2, <1>3, <1>6

LEMMA InsertSafe == ASSUME NumbersInv, NEW w \in Workers, Insert(w) PROVE NumbersInv'
<1> USE DEF NumbersInv
<1> DEFINE i == job[w].name
           n == Hash[i][job[w].try]
<1>1. /\ At(w, "insert")
      /\ UNCHANGED <<group, topical, post, mail, owner, routes, panel, claims, acted, inboxSpent>>
  BY DEF Insert
<1>2. Fits(w) /\ i \in Names /\ job[w].try \in DOMAIN Hash[i] BY <1>1 DEF Fits, At
<1>3. n \in Numbers /\ n # NoNumber BY <1>2, Attempts, Sorts
<1>4. ASSUME Known(w, n), number'[i] = n PROVE job' \in [Workers -> JobStates] /\ Fits(w)' /\ \A v \in Workers \ {w} : job'[v] = job[v]
  <2>1. CASE /\ job[w].mail \in Mails
             /\ Becomes(w, "claim", job[w].mail, i, job[w].try, n)
    BY <2>1 DEF Becomes, Fits, At
  <2>2. CASE Becomes(w, "map", job[w].mail, i, job[w].try, n)
    BY <1>2, <1>3, <1>4, <2>2 DEF Becomes, Fits, At
  <2> QED BY <1>3, <1>4, <2>1, <2>2, Knows
<1>5. CASE number[i] = NoNumber /\ (\A j \in Names : number[j] # n) /\ number' = [number EXCEPT ![i] = n] /\ Known(w, n)
  <2>1. /\ number' \in [Names -> Numbers \cup {NoNumber}] /\ number'[i] = n
        /\ \A j \in Names \ {i} : number'[j] = number[j]
    BY <1>2, <1>3, <1>5 DEF InboxTypes
  <2>2. InboxTypes' BY <1>1, <1>4, <1>5, <2>1 DEF InboxTypes
  <2>3. \A v \in Workers : Fits(v)' BY <1>2, <1>3, <1>4, <1>5, <2>1, OthersFit
  <2>4. Distinct'
    <3>1. ASSUME NEW j \in Names, NEW k \in Names, number'[j] # NoNumber, number'[j] = number'[k] PROVE j = k
      BY <1>5, <2>1, <3>1 DEF Distinct
    <3>2. ASSUME NEW j \in Names, number'[j] # NoNumber PROVE \E k \in DOMAIN Hash[j] : number'[j] = Hash[j][k]
      BY <1>2, <2>1, <3>2 DEF Distinct
    <3>3. ASSUME NEW o \in Numbers, owner[o] # Nobody PROVE number'[owner[o]] = o
      <4>1. owner[o] \in Names /\ number[owner[o]] = o BY <3>3 DEF Distinct, InboxTypes
      <4> QED BY <1>5, <2>1, <4>1, Sorts
    <3> QED BY <1>1, <3>1, <3>2, <3>3 DEF Distinct
  <2> QED BY <2>2, <2>3, <2>4
<1>6. CASE number[i] = n /\ Known(w, n) /\ UNCHANGED number
  <2>1. InboxTypes' BY <1>1, <1>4, <1>6 DEF InboxTypes
  <2> QED BY <1>1, <1>4, <1>6, <2>1, JobSafe
<1>7. CASE /\ \E j \in Names \ {i} : number[j] = n
           /\ job' = [job EXCEPT ![w].try = @ + 1] /\ UNCHANGED number
  <2>1. Becomes(w, "insert", job[w].mail, i, job[w].try + 1, job[w].got) BY <1>1, <1>7, GoesOn DEF At
  <2>2. /\ job[w].try + 1 \in DOMAIN Hash[i] /\ job[w].try + 1 - 1 = job[w].try
        /\ \A k \in 1..job[w].try : \E j \in Names \ {i} : number[j] = Hash[i][k]
    BY <1>1, <1>7, NextAttempt, JobFields
  <2>3. job'[w].try - 1 = job[w].try
    <3>1. job'[w].try = job[w].try + 1 /\ job[w].try \in Nat BY <2>1, JobFields DEF Becomes
    <3> QED BY <3>1
  <2>4. Fits(w)' BY <1>2, <1>7, <2>1, <2>2, <2>3 DEF Becomes, Fits, At
  <2>5. InboxTypes' BY <1>1, <1>7, <2>1 DEF InboxTypes, Becomes
  <2> QED BY <1>1, <1>7, <2>1, <2>4, <2>5, JobSafe DEF Becomes
<1> QED BY <1>5, <1>6, <1>7 DEF Insert, Taken

\* A step that writes neither numbers nor messages' rows.
LEMMA OtherTables ==
  ASSUME NumbersInv, NEW w \in Workers, job' \in [Workers -> JobStates], \A v \in Workers \ {w} : job'[v] = job[v],
         Fits(w)', UNCHANGED <<group, topical, number, owner>>,
         panel' \in Owners \cup {Nobody}, claims' \subseteq Mails,
         post' \in [Posts -> Routes], mail' \in [Mails -> MailStates], routes' \in [Numbers -> Routes],
         acted' \in [Mails -> Seq(Outcomes)],
         inboxSpent' \in [deliveries : 0..MaxDeliveries, mishaps : 0..MaxMishaps]
  PROVE  NumbersInv'
<1>1. InboxTypes' BY DEF NumbersInv, InboxTypes
<1> QED BY <1>1, JobSafe

LEMMA Bounds ==
  ASSUME InboxTypes
  PROVE  /\ Delivery => inboxSpent' \in [deliveries : 0..MaxDeliveries, mishaps : 0..MaxMishaps]
         /\ Mishap => inboxSpent' \in [deliveries : 0..MaxDeliveries, mishaps : 0..MaxMishaps]
         /\ inboxSpent \in [deliveries : 0..MaxDeliveries, mishaps : 0..MaxMishaps]
<1>1. MaxDeliveries \in Nat /\ MaxMishaps \in Nat BY InboxAssumption
<1>2. /\ inboxSpent \in [deliveries : 0..MaxDeliveries, mishaps : 0..MaxMishaps]
      /\ inboxSpent.deliveries \in 0..MaxDeliveries /\ inboxSpent.mishaps \in 0..MaxMishaps
  BY DEF InboxTypes
<1>3. ASSUME Delivery PROVE inboxSpent' \in [deliveries : 0..MaxDeliveries, mishaps : 0..MaxMishaps]
  <2>1. inboxSpent.deliveries + 1 \in 0..MaxDeliveries BY <1>1, <1>2, <1>3 DEF Delivery
  <2>2. inboxSpent' = [inboxSpent EXCEPT !.deliveries = inboxSpent.deliveries + 1] BY <1>3 DEF Delivery
  <2> QED BY <1>2, <2>1, <2>2
<1>4. ASSUME Mishap PROVE inboxSpent' \in [deliveries : 0..MaxDeliveries, mishaps : 0..MaxMishaps]
  <2>1. inboxSpent.mishaps + 1 \in 0..MaxMishaps BY <1>1, <1>2, <1>4 DEF Mishap
  <2>2. inboxSpent' = [inboxSpent EXCEPT !.mishaps = inboxSpent.mishaps + 1] BY <1>4 DEF Mishap
  <2> QED BY <1>2, <2>1, <2>2
<1> QED BY <1>2, <1>3, <1>4

LEMMA MapSafe == ASSUME NumbersInv, NEW w \in Workers, Map(w) PROVE NumbersInv'
<1> USE DEF NumbersInv
<1>1. /\ At(w, "map") /\ owner' = [owner EXCEPT ![job[w].got] = job[w].name]
      /\ UNCHANGED <<group, topical, post, mail, number, routes, panel, claims, acted, inboxSpent>>
  BY DEF Map
<1>2. /\ Fits(w) /\ job[w].name \in Names /\ job[w].got \in Numbers /\ number[job[w].name] = job[w].got
  BY <1>1, JobFields DEF Fits, At
<1>3. job' \in [Workers -> JobStates] /\ Fits(w)' /\ \A v \in Workers \ {w} : job'[v] = job[v]
  <2>1. ASSUME NEW a \in {"panel", "route"}, Go(w, a) PROVE Becomes(w, a, job[w].mail, job[w].name, job[w].try, job[w].got)
    BY <2>1, Goes DEF Places
  <2>2. CASE Go(w, "panel") \/ Go(w, "route") BY <2>1, <2>2 DEF Becomes, Fits, At
  <2>3. CASE job[w].mail # Nobody /\ Go(w, "reply")
    <3>1. Becomes(w, "reply", job[w].mail, job[w].name, job[w].try, job[w].got) BY <2>3, Goes DEF Places
    <3> QED BY <2>3, <3>1, JobFields DEF Becomes, Fits, At
  <2>4. CASE Quit(w) BY <2>4, Quits DEF Becomes, Fits, At
  <2> QED BY <2>2, <2>3, <2>4 DEF Map
<1>4. /\ owner' \in [Numbers -> Names \cup {Nobody}] /\ owner'[job[w].got] = job[w].name
      /\ \A n \in Numbers \ {job[w].got} : owner'[n] = owner[n]
  BY <1>1, <1>2 DEF InboxTypes
<1>5. InboxTypes' BY <1>1, <1>3, <1>4 DEF InboxTypes
<1>6. \A v \in Workers : Fits(v)' BY <1>1, <1>3, OthersFit DEF InboxTypes
<1>7. Distinct' BY <1>1, <1>2, <1>4 DEF Distinct
<1> QED BY <1>5, <1>6, <1>7

LEMMA PostSafe == ASSUME NumbersInv, NEW c \in Posts, Post(c) PROVE NumbersInv'
<1> USE DEF NumbersInv
<1>1. /\ UNCHANGED <<group, topical, mail, number, owner, routes, panel, claims, acted>>
      /\ \E a \in BOOLEAN : post' = [post EXCEPT ![c] = [thread |-> Subject[c], asks |-> a]]
  BY DEF Post
<1>2. c \in Workers /\ c \in Names BY Sorts
<1>3. post' \in [Posts -> Routes]
  <2>1. Subject[c] \in Owners BY InboxAssumption
  <2> QED BY <1>1, <2>1 DEF InboxTypes, Routes
<1>4. job' \in [Workers -> JobStates] /\ Fits(c)' /\ \A v \in Workers \ {c} : job'[v] = job[v]
  <2>1. CASE job' = [job EXCEPT ![c] = [Resting EXCEPT !.at = "look", !.name = c]]
    <3>1. Becomes(c, "look", Nobody, c, 1, NoNumber) BY <1>2, <2>1, Begins
    <3> QED BY <1>2, <3>1 DEF Becomes, Fits, At
  <2>2. CASE UNCHANGED job BY <1>1, <1>2, <2>2 DEF InboxTypes, Fits, At
  <2> QED BY <2>1, <2>2 DEF Post
<1>5. inboxSpent' \in [deliveries : 0..MaxDeliveries, mishaps : 0..MaxMishaps] BY Bounds DEF Post
<1> QED BY <1>1, <1>2, <1>3, <1>4, <1>5, OtherTables DEF InboxTypes

LEMMA CardRowsSafe == ASSUME NumbersInv, NEW c \in Posts, StorePanel(c) \/ StoreRoute(c) PROVE NumbersInv'
<1> USE DEF NumbersInv
<1>1. c \in Workers /\ post[c] \in Routes BY Sorts DEF InboxTypes
<1>2. CASE StorePanel(c)
  <2>1. Becomes(c, "route", job[c].mail, job[c].name, job[c].try, job[c].got)
    BY <1>1, <1>2, Goes DEF StorePanel, Places
  <2>2. panel' \in Owners \cup {Nobody} BY <1>1, <1>2 DEF StorePanel, Routes
  <2>3. Fits(c)' BY <2>1 DEF Becomes, Fits, At
  <2> QED BY <1>1, <1>2, <2>1, <2>2, <2>3, OtherTables DEF StorePanel, Becomes, InboxTypes
<1>3. CASE StoreRoute(c)
  <2>1. Becomes(c, "idle", Nobody, Nobody, 1, NoNumber) BY <1>1, <1>3, Quits DEF StoreRoute
  <2>2. routes' \in [Numbers -> Routes] BY <1>1, <1>3 DEF StoreRoute, InboxTypes
  <2>3. Fits(c)' BY <2>1 DEF Becomes, Fits, At
  <2> QED BY <1>1, <1>3, <2>1, <2>2, <2>3, OtherTables DEF StoreRoute, Becomes, InboxTypes
<1> QED BY <1>2, <1>3

LEMMA DeliverySafe == ASSUME NumbersInv, NEW x \in Deliverers, Press(x) \/ HandleEvent(x) PROVE NumbersInv'
<1> USE DEF NumbersInv
<1>1. x \in Workers /\ TablesStay /\ Delivery BY Sorts DEF Press, HandleEvent, TablesStay
<1>2. \E m \in Mails \cup {Nobody}, i \in Names : Becomes(x, "look", m, i, 1, NoNumber)
  <2>1. CASE Press(x) BY <1>1, <2>1, Begins, Sorts DEF Press
  <2>2. CASE HandleEvent(x) BY <1>1, <2>2, Begins, Sorts DEF HandleEvent
  <2> QED BY <2>1, <2>2
<1>3. Fits(x)' BY <1>2 DEF Becomes, Fits, At
<1>4. inboxSpent' \in [deliveries : 0..MaxDeliveries, mishaps : 0..MaxMishaps] BY <1>1, Bounds
<1> QED BY <1>1, <1>2, <1>3, <1>4, OtherTables DEF TablesStay, Becomes, InboxTypes

LEMMA ReplySafe == ASSUME NumbersInv, NEW x \in Deliverers, Reply(x) PROVE NumbersInv'
<1> USE DEF NumbersInv
<1>1. x \in Workers /\ At(x, "reply") /\ TablesStay /\ UNCHANGED inboxSpent BY Sorts DEF Reply, TablesStay
<1>2. job[x].mail \in Mails BY <1>1 DEF Fits, At
<1> DEFINE i == ReplyRow(job[x].mail)
<1>3. i \in Names \cup {Nobody} BY <1>2 DEF ReplyRow, InboxTypes, MailStates
<1>4. job' \in [Workers -> JobStates] /\ Fits(x)' /\ \A v \in Workers \ {x} : job'[v] = job[v]
  <2>1. CASE \E n \in Numbers \cup {NoNumber} : job' = [job EXCEPT ![x].got = n, ![x].at = "claim"]
    <3>1. PICK n \in Numbers \cup {NoNumber} : Becomes(x, "claim", job[x].mail, job[x].name, job[x].try, n)
      BY <1>1, <2>1, GoesKnowing DEF Places
    <3> QED BY <1>2, <3>1 DEF Becomes, Fits, At
  <2>2. CASE i # Nobody /\ job' = [job EXCEPT ![x].name = i, ![x].try = 1, ![x].at = "look"]
    <3>1. Becomes(x, "look", job[x].mail, i, 1, job[x].got) BY <1>1, <1>3, <2>2, GoesLooking
    <3> QED BY <1>3, <2>2, <3>1 DEF Becomes, Fits, At
  <2> QED BY <2>1, <2>2 DEF Reply
<1> QED BY <1>1, <1>4, JobSafe, TypesStay DEF TablesStay

LEMMA ClaimSafe == ASSUME NumbersInv, NEW x \in Deliverers, Claim(x) PROVE NumbersInv'
<1> USE DEF NumbersInv
<1>1. /\ x \in Workers /\ At(x, "claim") /\ claims' = claims \cup {job[x].mail} /\ (Quit(x) \/ Go(x, "act"))
      /\ UNCHANGED <<group, topical, post, mail, number, owner, routes, panel, acted, inboxSpent>>
  BY Sorts DEF Claim
<1>2. job[x].mail \in Mails BY <1>1 DEF Fits, At
<1>3. job' \in [Workers -> JobStates] /\ Fits(x)' /\ \A v \in Workers \ {x} : job'[v] = job[v]
  <2>1. CASE Quit(x) BY <1>1, <2>1, Quits DEF Becomes, Fits, At
  <2>2. CASE Go(x, "act")
    <3>1. Becomes(x, "act", job[x].mail, job[x].name, job[x].try, job[x].got) BY <1>1, <2>2, Goes DEF Places
    <3> QED BY <1>2, <3>1 DEF Becomes, Fits, At
  <2> QED BY <1>1, <2>1, <2>2
<1>4. claims' \subseteq Mails BY <1>1, <1>2 DEF InboxTypes
<1> QED BY <1>1, <1>3, <1>4, OtherTables DEF InboxTypes

\* The outcome of a message: a thread only if the text, the route or the panel says one.
LEMMA OutcomeTypes == ASSUME NumbersInv, NEW x \in Workers, At(x, "act") PROVE Outcome(x) \in Outcomes
<1> USE DEF NumbersInv
<1>1. job[x].mail \in Mails /\ job[x].got \in Numbers \cup {NoNumber} BY JobFields DEF Fits, At
<1>2. Decision(x).thread \in Owners \cup {Nobody}
  <2>1. job[x].got # NoNumber => routes[job[x].got].thread \in Owners \cup {Nobody} BY <1>1 DEF InboxTypes, Routes
  <2> QED BY <2>1 DEF Decision, PanelFor, InboxTypes
<1>3. mail[job[x].mail].head \in Owners \cup {Nobody} BY <1>1 DEF InboxTypes, MailStates
<1> QED BY <1>2, <1>3 DEF Outcome, Outcomes

\* What is done with a message is one more entry of its history, or nothing.
LEMMA ActDoes ==
  ASSUME NumbersInv, NEW x \in Deliverers, Act(x)
  PROVE  /\ x \in Workers /\ At(x, "act") /\ job[x].mail \in Mails /\ Outcome(x) \in Outcomes
         /\ Becomes(x, "idle", Nobody, Nobody, 1, NoNumber)
         /\ acted' = [acted EXCEPT ![job[x].mail] = Append(@, Outcome(x))] \/ acted' = acted
         /\ claims' = claims /\ UNCHANGED <<group, topical, post, mail, number, owner, routes, panel>>
         /\ inboxSpent' \in [deliveries : 0..MaxDeliveries, mishaps : 0..MaxMishaps]
<1> USE DEF NumbersInv
<1>1. x \in Workers /\ At(x, "act") /\ Quit(x) BY Sorts DEF Act
<1>2. job[x].mail \in Mails BY <1>1 DEF Fits, At
<1>3. acted' = [acted EXCEPT ![job[x].mail] = Append(@, Outcome(x))] \/ acted' = acted BY DEF Act, Done
<1>4. claims' = claims /\ UNCHANGED <<group, topical, post, mail, number, owner, routes, panel>>
  BY DEF Act, AfterFailure
<1>5. inboxSpent' \in [deliveries : 0..MaxDeliveries, mishaps : 0..MaxMishaps] BY Bounds DEF Act
<1> QED BY <1>1, <1>2, <1>3, <1>4, <1>5, OutcomeTypes, Quits

LEMMA ActSafe == ASSUME NumbersInv, NEW x \in Deliverers, Act(x) PROVE NumbersInv'
<1> USE DEF NumbersInv
<1>1. /\ x \in Workers /\ Becomes(x, "idle", Nobody, Nobody, 1, NoNumber) /\ claims' = claims
      /\ UNCHANGED <<group, topical, post, mail, number, owner, routes, panel>>
      /\ inboxSpent' \in [deliveries : 0..MaxDeliveries, mishaps : 0..MaxMishaps]
  BY ActDoes
<1>2. acted' \in [Mails -> Seq(Outcomes)]
  <2>1. acted \in [Mails -> Seq(Outcomes)] BY DEF InboxTypes
  <2>2. Append(acted[job[x].mail], Outcome(x)) \in Seq(Outcomes) BY <2>1, ActDoes
  <2> QED BY <2>1, <2>2, ActDoes
<1>3. Fits(x)' BY <1>1 DEF Becomes, Fits, At
<1> QED BY <1>1, <1>2, <1>3, OtherTables DEF Becomes, InboxTypes

\* The new row of a mail; its conversation hangs on a message.
LEMMA RootsAreNames == ASSUME InboxTypes, NEW i \in Names PROVE RootOf(i) \in Names
<1>1. CASE i \in Posts /\ post[i].thread \in topical
  <2>1. RootOf(i) = Root[post[i].thread] /\ post[i].thread \in Owners BY <1>1 DEF RootOf, InboxTypes
  <2> QED BY <2>1 DEF Names, RootIds
<1>2. CASE i \in Mails /\ mail[i].root # Nobody /\ ~(i \in Posts /\ post[i].thread \in topical)
  <2>1. mail[i].root \in Names BY <1>2 DEF InboxTypes, MailStates
  <2> QED BY <1>2, <2>1 DEF RootOf
<1> QED BY <1>1, <1>2 DEF RootOf

LEMMA ShownAreNames == ASSUME InboxTypes PROVE Shown \subseteq Names
BY Sorts DEF Shown, Rooted, InboxTypes, Names, RootIds

LEMMA WriteDoes ==
  ASSUME InboxTypes, NEW m \in Mails, Write(m)
  PROVE  /\ mail[m] = Unwritten /\ mail' \in [Mails -> MailStates] /\ \A o \in Mails \ {m} : mail'[o] = mail[o]
         /\ \E i \in Shown \cup {Nobody} :
              /\ mail'[m].to = i /\ mail'[m].root = (IF i = Nobody THEN i ELSE RootOf(i)) /\ mail'[m].kind \in MailKinds
              /\ mail'[m].told => i \in Posts /\ Recorded(i)
         /\ UNCHANGED <<group, topical, post, number, owner, routes, panel, claims, job, acted, inboxSpent>>
<1>1. PICK k \in MailKinds, i \in Shown \cup {Nobody}, t \in Owners \cup {Nobody} :
        mail' = [mail EXCEPT ![m] = [kind |-> k, head |-> t, to |-> i, root |-> IF i = Nobody THEN i ELSE RootOf(i),
                                     told |-> i \in Posts /\ Recorded(i)]]
  BY DEF Write
<1> DEFINE r == [kind |-> k, head |-> t, to |-> i, root |-> IF i = Nobody THEN i ELSE RootOf(i),
                 told |-> i \in Posts /\ Recorded(i)]
<1>2. (i \in Posts /\ Recorded(i)) \in BOOLEAN BY DEF Recorded
<1>3. r \in MailStates BY <1>2, RootsAreNames, ShownAreNames DEF MailStates
<1>4. mail \in [Mails -> MailStates] /\ mail' = [mail EXCEPT ![m] = r] BY <1>1 DEF InboxTypes
<1>5. mail'[m] = r /\ mail' \in [Mails -> MailStates] /\ \A o \in Mails \ {m} : mail'[o] = mail[o] BY <1>3, <1>4
<1>6. mail[m] = Unwritten /\ UNCHANGED <<group, topical, post, number, owner, routes, panel, claims, job, acted, inboxSpent>>
  BY DEF Write
<1>7. /\ r.to = i /\ r.root = (IF i = Nobody THEN i ELSE RootOf(i)) /\ r.kind \in MailKinds
      /\ r.told => i \in Posts /\ Recorded(i)
  OBVIOUS
<1> HIDE DEF r
<1> QED BY <1>5, <1>6, <1>7

LEMMA WriteSafe == ASSUME NumbersInv, NEW m \in Mails, Write(m) PROVE NumbersInv'
<1> USE DEF NumbersInv
<1>1. /\ UNCHANGED <<group, topical, post, number, owner, routes, panel, claims, job, acted, inboxSpent>>
      /\ mail' \in [Mails -> MailStates]
  BY WriteDoes
<1>2. InboxTypes' BY <1>1 DEF InboxTypes
<1>3. \A w \in Workers : Fits(w)' BY <1>1 DEF Fits, At
<1> QED BY <1>1, <1>2, <1>3 DEF Distinct

LEMMA RestartSafe == NumbersInv /\ Restart => NumbersInv'
<1> SUFFICES ASSUME NumbersInv, Restart PROVE NumbersInv' OBVIOUS
<1> USE DEF NumbersInv
<1>1. /\ job' = [w \in Workers |-> Resting] /\ Mishap
      /\ UNCHANGED <<group, topical, post, mail, number, owner, routes, panel, claims, acted>>
  BY DEF Restart
<1>2. InboxTypes' BY <1>1, Bounds, Sorts DEF InboxTypes
<1>3. \A w \in Workers : Fits(w)' BY <1>1, Sorts DEF Fits, At
<1> QED BY <1>1, <1>2, <1>3 DEF Distinct

\* At first the roots of the topics have their numbers, rows and routes.
LEMMA AtFirst ==
  ASSUME InboxInit
  PROVE  /\ \A i \in Rooted : i \in RootIds /\ number[i] = Hash[i][1] /\ number[i] \in Numbers
         /\ \A i \in Names \ Rooted : number[i] = NoNumber
         /\ \A n \in Numbers : owner[n] # Nobody => owner[n] \in Rooted /\ number[owner[n]] = n
         /\ \A i \in Rooted : owner[number[i]] = i
         /\ \A t \in topical : RootedAs(Root[t]) = t /\ Root[t] \in Rooted
         /\ topical \subseteq Owners
<1>1. topical \subseteq Owners BY DEF InboxInit
<1>2. Rooted \subseteq RootIds /\ Rooted \subseteq Names BY <1>1 DEF Rooted, RootIds, Names
<1>3. \A i \in Names : number[i] = IF i \in Rooted THEN Hash[i][1] ELSE NoNumber BY DEF InboxInit
<1>4. \A i \in Rooted : number[i] = Hash[i][1] /\ number[i] \in Numbers BY <1>2, <1>3, Attempts
<1>5. \A i, j \in Rooted : number[i] = number[j] => i = j BY <1>2, <1>4, InboxAssumption
<1>6. \A n \in Numbers : owner[n] = IF \E i \in Rooted : number[i] = n THEN CHOOSE i \in Rooted : number[i] = n ELSE Nobody
  BY DEF InboxInit
<1>7. ASSUME NEW n \in Numbers, owner[n] # Nobody PROVE owner[n] \in Rooted /\ number[owner[n]] = n
  BY <1>6, <1>7
<1>8. ASSUME NEW i \in Rooted PROVE owner[number[i]] = i
  <2>1. owner[number[i]] \in Rooted /\ number[owner[number[i]]] = number[i] BY <1>4, <1>6
  <2> QED BY <1>5, <2>1
<1>9. ASSUME NEW t \in topical PROVE RootedAs(Root[t]) = t /\ Root[t] \in Rooted
  <2>1. RootedAs(Root[t]) \in topical /\ Root[RootedAs(Root[t])] = Root[t] BY DEF RootedAs
  <2> QED BY <1>1, <2>1, InboxAssumption DEF Rooted
<1> QED BY <1>1, <1>2, <1>3, <1>4, <1>7, <1>8, <1>9

LEMMA NumbersInit == InboxInit => NumbersInv
<1> SUFFICES ASSUME InboxInit PROVE NumbersInv OBVIOUS
<1>1. \A w \in Workers : job[w] = Resting BY DEF InboxInit
<1>2. \A w \in Workers : Fits(w) BY <1>1, Sorts DEF Fits, At
<1>3. Rooted \subseteq Names BY AtFirst, Sorts
<1>4. Distinct
  <2>1. ASSUME NEW i \in Names, NEW j \in Names, number[i] # NoNumber, number[i] = number[j] PROVE i = j
    BY <2>1, AtFirst, InboxAssumption
  <2>2. ASSUME NEW i \in Names, number[i] # NoNumber PROVE \E k \in DOMAIN Hash[i] : number[i] = Hash[i][k]
    BY <2>2, AtFirst, Attempts
  <2> QED BY <2>1, <2>2, AtFirst DEF Distinct
<1>5. InboxTypes
  <2>1. number \in [Names -> Numbers \cup {NoNumber}]
    <3>1. \A i \in Names : number[i] \in Numbers \cup {NoNumber} BY AtFirst
    <3> QED BY <3>1 DEF InboxInit
  <2>2. owner \in [Numbers -> Names \cup {Nobody}]
    <3>1. \A n \in Numbers : owner[n] \in Names \cup {Nobody} BY <1>3, AtFirst
    <3> QED BY <3>1 DEF InboxInit
  <2>3. routes \in [Numbers -> Routes]
    <3>1. \A n \in Numbers : owner[n] # Nobody => RootedAs(owner[n]) \in Owners BY AtFirst DEF Rooted
    <3> QED BY <3>1, Sorts DEF InboxInit, Routes, NoRoute
  <2>4. job \in [Workers -> JobStates] /\ acted \in [Mails -> Seq(Outcomes)] /\ post \in [Posts -> Routes]
    BY Sorts DEF InboxInit
  <2>5. mail \in [Mails -> MailStates]
    <3>1. Unwritten \in MailStates BY DEF Unwritten, MailStates
    <3> QED BY <3>1 DEF InboxInit
  <2>6. inboxSpent \in [deliveries : 0..MaxDeliveries, mishaps : 0..MaxMishaps]
    BY InboxAssumption DEF InboxInit
  <2>7. group \in BOOLEAN /\ topical \subseteq Owners /\ panel \in Owners \cup {Nobody} /\ claims \subseteq Mails
    BY DEF InboxInit
  <2> QED BY <2>1, <2>2, <2>3, <2>4, <2>5, <2>6, <2>7 DEF InboxTypes
<1> QED BY <1>2, <1>4, <1>5 DEF NumbersInv

LEMMA NumbersInvariant == InboxSpec => []NumbersInv
<1>1. NumbersInv /\ [InboxNext]_inboxVars => NumbersInv'
  <2> SUFFICES ASSUME NumbersInv, [InboxNext]_inboxVars PROVE NumbersInv' OBVIOUS
  <2>1. ASSUME NEW m \in Mails, Write(m) PROVE NumbersInv' BY <2>1, WriteSafe
  <2>2. ASSUME NEW w \in Workers, LookUp(w) \/ Insert(w) \/ Map(w) PROVE NumbersInv'
    BY <2>2, LookUpSafe, InsertSafe, MapSafe
  <2>3. ASSUME NEW c \in Posts, Post(c) \/ StorePanel(c) \/ StoreRoute(c) PROVE NumbersInv'
    BY <2>3, PostSafe, CardRowsSafe
  <2>4. ASSUME NEW x \in Deliverers, Press(x) \/ HandleEvent(x) \/ Reply(x) \/ Claim(x) \/ Act(x) PROVE NumbersInv'
    BY <2>4, DeliverySafe, ReplySafe, ClaimSafe, ActSafe
  <2>5. CASE Restart BY <2>5, RestartSafe
  <2>6. CASE UNCHANGED inboxVars
    BY <2>6 DEF inboxVars, NumbersInv, InboxTypes, Distinct, Fits, At
  <2> QED BY <2>1, <2>2, <2>3, <2>4, <2>5, <2>6 DEF InboxNext
<1> QED BY <1>1, NumbersInit, PTL DEF InboxSpec

\* Every variable keeps its type, and the attempts of no insert run out.
THEOREM InboxTyped == InboxSpec => []InboxTypeOK
<1>1. NumbersInv => InboxTypeOK BY DEF NumbersInv, InboxTypeOK, Fits
<1> QED BY <1>1, NumbersInvariant, PTL

\* A number stands for one message, whoever races for it: what the tables say of it and what a
\* goroutine holds for it agree (ResolveExternalID, PutFeishuMessageMap).
THEOREM NumbersAgree == InboxSpec => []NumberIsOne
<1>1. NumbersInv => NumberIsOne BY DEF NumbersInv, NumberIsOne, Distinct, Fits
<1> QED BY <1>1, NumbersInvariant, PTL

-----------------------------------------------------------------------------
(* Handling                                                                *)

\* A mail nobody claimed was not acted upon; the one goroutine that claimed it acts once.
ActsOnce ==
  /\ \A m \in Mails : m \notin claims => acted[m] = <<>>
  /\ \A w \in Workers : At(w, "act") => job[w].mail \in claims /\ acted[job[w].mail] = <<>>
  /\ \A v, w \in Workers : At(v, "act") /\ At(w, "act") /\ job[v].mail = job[w].mail => v = w
  /\ HandledOnce

\* A step of a goroutine that leaves the claims and what was done, and begins nothing itself.
LEMMA NotActing ==
  ASSUME NumbersInv, ActsOnce, UNCHANGED <<claims, acted>>,
         \A v \in Workers : At(v, "act")' => job'[v] = job[v]
  PROVE  ActsOnce'
<1>1. \A v \in Workers : At(v, "act")' => At(v, "act") /\ job'[v] = job[v] BY DEF At
<1>2. HandledOnce' BY DEF ActsOnce, HandledOnce
<1>3. \A m \in Mails : m \notin claims' => acted'[m] = <<>> BY DEF ActsOnce
<1>4. \A w \in Workers : At(w, "act")' => job'[w].mail \in claims' /\ acted'[job'[w].mail] = <<>>
  BY <1>1 DEF ActsOnce
<1>5. \A v, w \in Workers : At(v, "act")' /\ At(w, "act")' /\ job'[v].mail = job'[w].mail => v = w
  BY <1>1 DEF ActsOnce
<1> QED BY <1>2, <1>3, <1>4, <1>5 DEF ActsOnce

\* Where the steps that resolve a number, record a card or take a delivery lead.
LEMMA Leads ==
  ASSUME NumbersInv,
         \/ \E w \in Workers : LookUp(w) \/ Insert(w) \/ Map(w)
         \/ \E c \in Posts : Post(c) \/ StorePanel(c) \/ StoreRoute(c)
         \/ \E x \in Deliverers : Press(x) \/ HandleEvent(x) \/ Reply(x)
  PROVE  UNCHANGED <<claims, acted>> /\ \A v \in Workers : At(v, "act")' => job'[v] = job[v]
<1> USE DEF NumbersInv
<1>0. Posts \subseteq Workers /\ Deliverers \subseteq Workers BY Sorts
<1>1. ASSUME NEW w \in Workers, LookUp(w)
      PROVE  UNCHANGED <<claims, acted>> /\ \A v \in Workers : At(v, "act")' => job'[v] = job[v]
  <2>1. At(w, "look") /\ job[w].name \in Names BY <1>1 DEF LookUp, Fits, At
  <2>2. CASE Go(w, "insert") BY <1>1, <2>2, Goes DEF LookUp, Becomes, At, Places
  <2>3. CASE number[job[w].name] # NoNumber /\ Known(w, number[job[w].name])
    <3>1. number[job[w].name] \in Numbers BY <2>1, <2>3 DEF InboxTypes
    <3> QED BY <1>1, <2>3, <3>1, Knows DEF LookUp, Becomes, At
  <2> QED BY <1>1, <2>2, <2>3 DEF LookUp
<1>2. ASSUME NEW w \in Workers, Insert(w)
      PROVE  UNCHANGED <<claims, acted>> /\ \A v \in Workers : At(v, "act")' => job'[v] = job[v]
  <2> DEFINE n == Hash[job[w].name][job[w].try]
  <2>1. At(w, "insert") /\ n \in Numbers BY <1>2, Attempts DEF Insert, Fits, At
  <2>2. CASE Known(w, n) BY <1>2, <2>1, <2>2, Knows DEF Insert, Becomes, At
  <2>3. CASE job' = [job EXCEPT ![w].try = @ + 1] BY <1>2, <2>1, <2>3, GoesOn DEF Insert, Becomes, At
  <2> QED BY <1>2, <2>2, <2>3 DEF Insert
<1>3. ASSUME NEW w \in Workers, Map(w)
      PROVE  UNCHANGED <<claims, acted>> /\ \A v \in Workers : At(v, "act")' => job'[v] = job[v]
  <2>1. CASE Quit(w) BY <1>3, <2>1, Quits DEF Map, Becomes, At
  <2>2. CASE \E a \in {"panel", "route", "reply"} : Go(w, a)
    <3>1. PICK a \in {"panel", "route", "reply"} : Go(w, a) BY <2>2
    <3>2. Becomes(w, a, job[w].mail, job[w].name, job[w].try, job[w].got) BY <3>1, Goes DEF Places
    <3> QED BY <1>3, <3>2 DEF Map, Becomes, At
  <2> QED BY <1>3, <2>1, <2>2 DEF Map
<1>4. ASSUME NEW c \in Posts, Post(c)
      PROVE  UNCHANGED <<claims, acted>> /\ \A v \in Workers : At(v, "act")' => job'[v] = job[v]
  <2>1. CASE UNCHANGED job BY <1>4, <2>1 DEF Post
  <2>2. CASE job' = [job EXCEPT ![c] = [Resting EXCEPT !.at = "look", !.name = c]]
    <3>1. Becomes(c, "look", Nobody, c, 1, NoNumber) BY <1>0, <2>2, Begins, Sorts
    <3> QED BY <1>4, <3>1 DEF Post, Becomes, At
  <2> QED BY <1>4, <2>1, <2>2 DEF Post
<1>5. ASSUME NEW c \in Posts, StorePanel(c) \/ StoreRoute(c)
      PROVE  UNCHANGED <<claims, acted>> /\ \A v \in Workers : At(v, "act")' => job'[v] = job[v]
  <2>1. CASE StorePanel(c)
    <3>1. Becomes(c, "route", job[c].mail, job[c].name, job[c].try, job[c].got)
      BY <1>0, <2>1, Goes DEF StorePanel, Places
    <3> QED BY <2>1, <3>1 DEF StorePanel, Becomes, At
  <2>2. CASE StoreRoute(c) BY <1>0, <2>2, Quits DEF StoreRoute, Becomes, At
  <2> QED BY <1>5, <2>1, <2>2
<1>6. ASSUME NEW x \in Deliverers, Press(x) \/ HandleEvent(x)
      PROVE  UNCHANGED <<claims, acted>> /\ \A v \in Workers : At(v, "act")' => job'[v] = job[v]
  <2>1. \E m \in Mails \cup {Nobody}, i \in Names : Becomes(x, "look", m, i, 1, NoNumber)
    <3>1. CASE Press(x) BY <1>0, <3>1, Begins, Sorts DEF Press
    <3>2. CASE HandleEvent(x) BY <1>0, <3>2, Begins, Sorts DEF HandleEvent
    <3> QED BY <1>6, <3>1, <3>2
  <2> QED BY <1>6, <2>1 DEF Press, HandleEvent, Becomes, At
<1>7. ASSUME NEW x \in Deliverers, Reply(x)
      PROVE  UNCHANGED <<claims, acted>> /\ \A v \in Workers : At(v, "act")' => job'[v] = job[v]
  <2> DEFINE i == ReplyRow(job[x].mail)
  <2>1. x \in Workers /\ At(x, "reply") BY <1>0, <1>7 DEF Reply
  <2>2. i \in Names \cup {Nobody} BY <2>1 DEF Fits, At, ReplyRow, InboxTypes, MailStates
  <2>3. CASE \E n \in Numbers \cup {NoNumber} : job' = [job EXCEPT ![x].got = n, ![x].at = "claim"]
    <3>1. PICK n \in Numbers \cup {NoNumber} : Becomes(x, "claim", job[x].mail, job[x].name, job[x].try, n)
      BY <2>1, <2>3, GoesKnowing DEF Places
    <3> QED BY <1>7, <3>1 DEF Reply, Becomes, At
  <2>4. CASE i # Nobody /\ job' = [job EXCEPT ![x].name = i, ![x].try = 1, ![x].at = "look"]
    <3>1. Becomes(x, "look", job[x].mail, i, 1, job[x].got) BY <2>1, <2>2, <2>4, GoesLooking
    <3> QED BY <1>7, <3>1 DEF Reply, Becomes, At
  <2> QED BY <1>7, <2>3, <2>4 DEF Reply
<1> QED BY <1>1, <1>2, <1>3, <1>4, <1>5, <1>6, <1>7

\* The first goroutine that claims a mail acts upon it; the others drop it.
LEMMA ClaimActsOnce == ASSUME NumbersInv, ActsOnce, NEW x \in Deliverers, Claim(x) PROVE ActsOnce'
<1> USE DEF NumbersInv
<1> DEFINE m == job[x].mail
<1>1. /\ x \in Workers /\ At(x, "claim") /\ claims' = claims \cup {m} /\ acted' = acted
      /\ Quit(x) \/ (m \notin claims /\ Go(x, "act"))
  BY Sorts DEF Claim
<1>2. m \in Mails BY <1>1 DEF Fits, At
<1>3. /\ HandledOnce'
      /\ \A o \in Mails : o \notin claims' => acted'[o] = <<>>
  BY <1>1 DEF ActsOnce, HandledOnce
<1>4. \A v \in Workers \ {x} : job'[v] = job[v]
  <2>1. CASE Quit(x) BY <1>1, <2>1, Quits DEF Becomes
  <2>2. CASE Go(x, "act") BY <1>1, <2>2, Goes DEF Becomes, Places
  <2> QED BY <1>1, <2>1, <2>2
<1>5. CASE Quit(x)
  <2>1. ~At(x, "act")' BY <1>1, <1>5, Quits DEF Becomes, At
  <2> QED BY <1>1, <1>3, <1>4, <2>1 DEF ActsOnce, At
<1>6. CASE m \notin claims /\ Go(x, "act")
  <2>1. job'[x].mail = m BY <1>1, <1>6, Goes DEF Becomes, Places
  <2>2. acted'[m] = <<>> /\ m \in claims' BY <1>1, <1>2, <1>6 DEF ActsOnce
  <2>3. \A v \in Workers \ {x} : At(v, "act")' => At(v, "act") /\ job'[v].mail \in claims /\ acted[job'[v].mail] = <<>>
    BY <1>4 DEF ActsOnce, At
  <2>4. \A v \in Workers \ {x} : At(v, "act")' => job'[v].mail # m BY <1>6, <2>3
  <2>5. \A w \in Workers : At(w, "act")' => job'[w].mail \in claims' /\ acted'[job'[w].mail] = <<>>
    BY <1>1, <2>1, <2>2, <2>3
  <2>6. \A v, w \in Workers : At(v, "act")' /\ At(w, "act")' /\ job'[v].mail = job'[w].mail => v = w
    <3> SUFFICES ASSUME NEW v \in Workers, NEW w \in Workers, At(v, "act")', At(w, "act")', job'[v].mail = job'[w].mail
                 PROVE  v = w
      OBVIOUS
    <3>1. CASE v # x /\ w # x BY <1>4, <3>1 DEF ActsOnce, At
    <3>2. CASE v = x \/ w = x BY <2>1, <2>4, <3>2
    <3> QED BY <3>1, <3>2
  <2> QED BY <1>3, <2>5, <2>6 DEF ActsOnce
<1> QED BY <1>1, <1>5, <1>6

LEMMA ActActsOnce == ASSUME NumbersInv, ActsOnce, NEW x \in Deliverers, Act(x) PROVE ActsOnce'
<1> DEFINE m == job[x].mail
<1>1. /\ x \in Workers /\ At(x, "act") /\ m \in Mails /\ claims' = claims
      /\ Becomes(x, "idle", Nobody, Nobody, 1, NoNumber)
      /\ acted' = [acted EXCEPT ![m] = Append(@, Outcome(x))] \/ acted' = acted
  BY ActDoes
<1>2. m \in claims /\ acted[m] = <<>> BY <1>1 DEF ActsOnce
<1>3. \A v \in Workers : At(v, "act")' => v # x /\ At(v, "act") /\ job'[v] = job[v] /\ job[v].mail # m
  BY <1>1 DEF Becomes, At, ActsOnce
<1>4. /\ \A o \in Mails \ {m} : acted'[o] = acted[o]
      /\ acted'[m] = <<>> \/ acted'[m] = Append(<<>>, Outcome(x))
  BY <1>1, <1>2 DEF NumbersInv, InboxTypes
<1>5. Len(acted'[m]) <= 1
  <2>1. <<>> \in Seq(Outcomes) /\ Outcome(x) \in Outcomes BY ActDoes
  <2>2. Len(Append(<<>>, Outcome(x))) = Len(<<>>) + 1 /\ Len(<<>>) = 0 BY <2>1
  <2>3. CASE acted'[m] = <<>> BY <2>2, <2>3
  <2>4. CASE acted'[m] = Append(<<>>, Outcome(x)) BY <2>2, <2>4
  <2> QED BY <1>4, <2>3, <2>4
<1>6. HandledOnce' BY <1>4, <1>5 DEF ActsOnce, HandledOnce
<1>7. \A o \in Mails : o \notin claims' => acted'[o] = <<>> BY <1>1, <1>2, <1>4 DEF ActsOnce
<1>8. \A w \in Workers : At(w, "act")' => job'[w].mail \in claims' /\ acted'[job'[w].mail] = <<>>
  <2> SUFFICES ASSUME NEW w \in Workers, At(w, "act")' PROVE job'[w].mail \in claims' /\ acted'[job'[w].mail] = <<>>
    OBVIOUS
  <2>1. At(w, "act") /\ job'[w] = job[w] /\ job[w].mail # m BY <1>3
  <2>2. job[w].mail \in Mails BY <2>1 DEF NumbersInv, Fits, At
  <2> QED BY <1>1, <1>4, <2>1, <2>2 DEF ActsOnce
<1>9. \A v, w \in Workers : At(v, "act")' /\ At(w, "act")' /\ job'[v].mail = job'[w].mail => v = w
  BY <1>3 DEF ActsOnce
<1> QED BY <1>6, <1>7, <1>8, <1>9 DEF ActsOnce

LEMMA ActsOnceInvariant == InboxSpec => []ActsOnce
<1>1. InboxInit => ActsOnce
  BY Sorts DEF InboxInit, ActsOnce, HandledOnce, At
<1>2. NumbersInv /\ ActsOnce /\ [InboxNext]_inboxVars => ActsOnce'
  <2> SUFFICES ASSUME NumbersInv, ActsOnce, [InboxNext]_inboxVars PROVE ActsOnce' OBVIOUS
  <2>1. ASSUME NEW m \in Mails, Write(m) PROVE ActsOnce' BY <2>1, NotActing DEF Write
  <2>2. CASE \/ \E w \in Workers : LookUp(w) \/ Insert(w) \/ Map(w)
             \/ \E c \in Posts : Post(c) \/ StorePanel(c) \/ StoreRoute(c)
             \/ \E x \in Deliverers : Press(x) \/ HandleEvent(x) \/ Reply(x)
    BY <2>2, Leads, NotActing
  <2>3. ASSUME NEW x \in Deliverers, Claim(x) \/ Act(x) PROVE ActsOnce' BY <2>3, ClaimActsOnce, ActActsOnce
  <2>4. CASE Restart
    <3>1. UNCHANGED <<claims, acted>> /\ \A v \in Workers : ~At(v, "act")' BY <2>4, Sorts DEF Restart, At
    <3> QED BY <3>1, NotActing
  <2>5. CASE UNCHANGED inboxVars BY <2>5, NotActing DEF inboxVars
  <2> QED BY <2>1, <2>2, <2>3, <2>4, <2>5 DEF InboxNext
<1> QED BY <1>1, <1>2, NumbersInvariant, PTL DEF InboxSpec

\* However often a message is delivered and whatever fails, it is acted upon at most once: the claim
\* that SetStateIfAbsent stores is there before, and stays after a failure (handleMessageEvent).
THEOREM ActsAtMostOnce == InboxSpec => []HandledOnce
<1>1. ActsOnce => HandledOnce BY DEF ActsOnce
<1> QED BY <1>1, ActsOnceInvariant, PTL

-----------------------------------------------------------------------------
(* Reaching the thread                                                     *)

Posted(c) == post[c] # Unposted
Written(m) == mail[m] # Unwritten
\* A route is the one of its card or of the topic its message is the root of; the root of a topic has one.
Routed ==
  /\ \A c \in Posts : Posted(c) => post[c].thread = Subject[c]
  /\ \A n \in Numbers : \/ routes[n] = NoRoute
                        \/ \E c \in Posts : Posted(c) /\ number[c] = n /\ routes[n] = post[c]
                        \/ \E t \in topical : number[Root[t]] = n /\ routes[n] = [thread |-> t, asks |-> FALSE]
  /\ \A t \in topical : number[Root[t]] # NoNumber /\ routes[number[Root[t]]] = [thread |-> t, asks |-> FALSE]
\* A mail answers a message that was there before it.
Fixed(m) ==
  Written(m) =>
    /\ mail[m].to \in Shown \cup {Nobody} /\ mail[m].to # m
    /\ mail[m].root = (IF mail[m].to = Nobody THEN Nobody ELSE RootOf(mail[m].to))
    /\ mail[m].root \in Shown \cup {Nobody}
    /\ mail[m].told => mail[m].to \in Posts /\ Recorded(mail[m].to)
\* The goroutine that posts a card records that card.
Posting(c) ==
  /\ At(c, "idle") \/ (Posted(c) /\ job[c].mail = Nobody /\ job[c].name = c)
  /\ job[c].at \notin {"reply", "claim", "act"}
  /\ job[c].at \in {"panel", "route"} => job[c].got # NoNumber /\ job[c].got = number[c]
\* The goroutine that handles a mail gets to the row of what it answers.
Carries(x) ==
  /\ job[x].at \notin {"panel", "route"}
  /\ job[x].mail # Nobody =>
       /\ Written(job[x].mail)
       /\ At(x, "map") => job[x].name = job[x].mail
       /\ job[x].at \in {"look", "insert"} => job[x].name \in {job[x].mail, ReplyRow(job[x].mail)}
       /\ job[x].at \in {"claim", "act"} =>
            job[x].got = (IF ReplyRow(job[x].mail) = Nobody THEN NoNumber ELSE number[ReplyRow(job[x].mail)])
       /\ job[x].at \in {"claim", "act"} /\ ReplyRow(job[x].mail) # Nobody => job[x].got # NoNumber
ReachInv ==
  /\ Routed /\ \A m \in Mails : Fixed(m) /\ (~Written(m) => acted[m] = <<>>)
  /\ \A c \in Posts : Posting(c)
  /\ \A x \in Deliverers : Carries(x)
  /\ ReachesItsThread

\* Cards that are shown, mails that are written and numbers that are given stay as they are.
Steady ==
  /\ topical' = topical
  /\ \A c \in Posts : Posted(c) => post'[c] = post[c]
  /\ \A m \in Mails : Written(m) => mail'[m] = mail[m]
  /\ \A i \in Names : number[i] # NoNumber => number'[i] = number[i]

LEMMA StepsSteady == ASSUME NumbersInv, [InboxNext]_inboxVars PROVE Steady
<1> USE DEF NumbersInv
<1>1. ASSUME NEW m \in Mails, Write(m) PROVE Steady BY <1>1, WriteDoes DEF Steady, Written
<1>2. ASSUME NEW w \in Workers, Insert(w) PROVE Steady
  <2>1. /\ UNCHANGED <<topical, post, mail>>
        /\ number' = number \/ (number[job[w].name] = NoNumber /\ \E n \in Numbers : number' = [number EXCEPT ![job[w].name] = n])
    <3>1. At(w, "insert") => Hash[job[w].name][job[w].try] \in Numbers BY Attempts DEF Fits, At
    <3> QED BY <1>2, <3>1 DEF Insert
  <2> QED BY <2>1 DEF Steady, InboxTypes
<1>3. ASSUME NEW c \in Posts, Post(c) PROVE Steady BY <1>3 DEF Post, Steady, Posted, InboxTypes
<1>4. ASSUME UNCHANGED <<topical, post, mail, number>> PROVE Steady BY <1>4 DEF Steady
<1>5. ASSUME NEW w \in Workers, LookUp(w) \/ Map(w) PROVE Steady BY <1>4, <1>5 DEF LookUp, Map
<1>6. ASSUME NEW c \in Posts, StorePanel(c) \/ StoreRoute(c) PROVE Steady BY <1>4, <1>6 DEF StorePanel, StoreRoute
<1>7. ASSUME NEW x \in Deliverers, Press(x) \/ HandleEvent(x) \/ Reply(x) \/ Claim(x) \/ Act(x) PROVE Steady
  BY <1>4, <1>7 DEF Press, HandleEvent, Reply, Claim, Act
<1>8. CASE Restart BY <1>4, <1>8 DEF Restart
<1>9. CASE UNCHANGED inboxVars BY <1>4, <1>9 DEF inboxVars
<1> QED BY <1>1, <1>2, <1>3, <1>5, <1>6, <1>7, <1>8, <1>9 DEF InboxNext

\* The roots of topics are neither cards nor mails, and hang on themselves.
LEMMA RootsOfTopics ==
  ASSUME InboxTypes
  PROVE  /\ \A i \in Rooted : /\ i \in Names /\ i \notin Posts /\ i \notin Mails /\ RootOf(i) = i
                              /\ RootedAs(i) \in topical /\ RootedAs(i) \in Owners /\ Root[RootedAs(i)] = i
         /\ \A t \in topical : t \in Owners /\ Root[t] \in Rooted
<1>1. topical \subseteq Owners BY DEF InboxTypes
<1>2. \A t \in topical : t \in Owners /\ Root[t] \in Rooted BY <1>1 DEF Rooted
<1>3. Rooted \subseteq RootIds BY <1>1 DEF Rooted, RootIds
<1>4. ASSUME NEW i \in Rooted
      PROVE  /\ i \in Names /\ i \notin Posts /\ i \notin Mails /\ RootOf(i) = i
             /\ RootedAs(i) \in topical /\ RootedAs(i) \in Owners /\ Root[RootedAs(i)] = i
  <2>1. i \in Names /\ i \notin Posts /\ i \notin Mails BY <1>3, InboxAssumption DEF Names
  <2>2. RootedAs(i) \in topical /\ Root[RootedAs(i)] = i BY DEF RootedAs, Rooted
  <2> QED BY <1>1, <2>1, <2>2 DEF RootOf
<1> QED BY <1>2, <1>4

\* What a shown message hangs on is shown.
LEMMA RootsAreShown ==
  ASSUME InboxTypes, \A m \in Mails : Fixed(m), NEW i \in Shown
  PROVE  RootOf(i) \in Shown
<1>1. CASE i \in Posts /\ post[i].thread \in topical
  <2>1. RootOf(i) \in Rooted BY <1>1, RootsOfTopics DEF RootOf
  <2> QED BY <2>1 DEF Shown
<1>2. CASE ~(i \in Posts /\ post[i].thread \in topical) /\ i \in Mails /\ mail[i].root # Nobody
  <2>1. i \notin Posts /\ i \notin Rooted BY <1>2, RootsOfTopics, InboxAssumption
  <2>2. Written(i) BY <2>1 DEF Shown, Written
  <2>3. RootOf(i) = mail[i].root BY <1>2 DEF RootOf
  <2>4. mail[i].root \in Shown BY <1>2, <2>2 DEF Fixed
  <2> QED BY <2>3, <2>4
<1>3. CASE ~(i \in Posts /\ post[i].thread \in topical) /\ ~(i \in Mails /\ mail[i].root # Nobody)
  BY <1>3 DEF RootOf
<1> QED BY <1>1, <1>2, <1>3

\* What is shown stays shown, hangs on the same message and is about the same thread.
LEMMA Lasting ==
  ASSUME InboxTypes, InboxTypes', Steady, \A m \in Mails : Fixed(m)
  PROVE  /\ Rooted' = Rooted /\ Shown \subseteq Shown' /\ \A i \in Rooted : RootedAs(i)' = RootedAs(i)
         /\ \A c \in Posts : Posted(c) => Posted(c)'
         /\ \A m \in Mails : Written(m) => Written(m)'
         /\ \A i \in Shown : RootOf(i)' = RootOf(i) /\ About(i)' = About(i)
<1>1. topical' = topical /\ Rooted' = Rooted BY DEF Steady, Rooted
<1>2. \A i \in Rooted : RootedAs(i)' = RootedAs(i) BY <1>1 DEF RootedAs
<1>3. /\ \A c \in Posts : Posted(c) => Posted(c)' /\ post'[c] = post[c]
      /\ \A m \in Mails : Written(m) => Written(m)' /\ mail'[m] = mail[m]
  BY DEF Steady, Posted, Written
<1>4. Shown \subseteq Shown' BY <1>1, <1>3 DEF Shown, Posted, Written
<1>5. ASSUME NEW i \in Shown PROVE RootOf(i)' = RootOf(i)
  <2>1. CASE i \in Rooted
    <3>1. i \notin Posts /\ i \notin Mails BY <2>1, RootsOfTopics
    <3> QED BY <3>1 DEF RootOf
  <2>2. CASE i \in Posts /\ Posted(i)
    <3>1. post'[i] = post[i] /\ i \notin Mails BY <1>3, <2>2, InboxAssumption
    <3> QED BY <1>1, <3>1 DEF RootOf
  <2>3. CASE i \in Mails /\ Written(i)
    <3>1. mail'[i] = mail[i] /\ i \notin Posts BY <1>3, <2>3, InboxAssumption
    <3> QED BY <3>1 DEF RootOf
  <2> QED BY <2>1, <2>2, <2>3 DEF Shown, Posted, Written
<1>6. ASSUME NEW i \in Shown PROVE About(i)' = About(i)
  <2>1. RootOf(i) \in Shown /\ RootOf(i)' = RootOf(i) BY <1>5, RootsAreShown
  <2>2. CASE RootOf(i) \in Rooted
    <3>1. About(i) = RootedAs(RootOf(i)) BY <2>2 DEF About
    <3>2. About(i)' = RootedAs(RootOf(i))' BY <1>1, <2>1, <2>2 DEF About
    <3>3. RootedAs(RootOf(i))' = RootedAs(RootOf(i)) BY <1>1, <2>1 DEF RootedAs
    <3> QED BY <3>1, <3>2, <3>3
  <2>3. CASE RootOf(i) \notin Rooted /\ RootOf(i) \in Posts
    <3>1. Posted(RootOf(i)) BY <2>1, <2>3, InboxAssumption DEF Shown, Posted
    <3>2. post'[RootOf(i)] = post[RootOf(i)] BY <1>3, <2>3, <3>1
    <3> QED BY <1>1, <2>1, <2>3, <3>2 DEF About
  <2>4. CASE RootOf(i) \notin Rooted /\ RootOf(i) \notin Posts BY <1>1, <2>1, <2>4 DEF About
  <2> QED BY <2>2, <2>3, <2>4
<1> QED BY <1>1, <1>2, <1>3, <1>4, <1>5, <1>6

\* An outcome that fits its mail.
Reaches(m, o) ==
  /\ mail[m].to # Nobody /\ mail[m].kind # "explicit" => o.thread \in {About(mail[m].to), Nobody}
  /\ mail[m].root \in Rooted /\ mail[m].kind # "explicit" => o.thread = RootedAs(mail[m].root)
  /\ mail[m].told /\ mail[m].kind = "text" /\ post[mail[m].to].asks /\ mail[m].root \notin Rooted => o.at = "answer"
LEMMA ReachesAll == ReachesItsThread <=> \A m \in Mails : \A k \in DOMAIN acted[m] : Reaches(m, acted[m][k])
BY DEF ReachesItsThread, ReplyStays, TopicReaches, AnswerReaches, Reaches
LEMMA ReachesAllNext ==
  ReachesItsThread' <=> \A m \in Mails : \A k \in DOMAIN acted'[m] : \A o : o = acted'[m][k] => Reaches(m, o)'
BY DEF ReachesItsThread, ReplyStays, TopicReaches, AnswerReaches, Reaches

\* The row a mail gets to says the thread of what it answers, whoever has the latest panel.
LEMMA OutcomeReaches ==
  ASSUME NumbersInv, ReachInv, NEW x \in Deliverers, At(x, "act")
  PROVE  Reaches(job[x].mail, Outcome(x))
<1> USE DEF NumbersInv
<1> DEFINE m == job[x].mail
           to == mail[m].to
           root == mail[m].root
           d == Decision(x)
<1>1. x \in Workers /\ m \in Mails /\ m # Nobody BY Sorts DEF Fits, At
<1>2. /\ Written(m) /\ Fixed(m)
      /\ job[x].got = (IF ReplyRow(m) = Nobody THEN NoNumber ELSE number[ReplyRow(m)])
      /\ ReplyRow(m) # Nobody => job[x].got # NoNumber
  BY <1>1 DEF ReachInv, Carries, At
<1>3. /\ to \in Shown \cup {Nobody} /\ root = (IF to = Nobody THEN Nobody ELSE RootOf(to))
      /\ mail[m].told => to \in Posts /\ Recorded(to)
  BY <1>2 DEF Fixed
<1>4. job[x].got \in Numbers \cup {NoNumber} BY <1>1, JobFields
<1>5. Routed BY DEF ReachInv
<1>6. d = IF job[x].got # NoNumber /\ routes[job[x].got] # NoRoute THEN routes[job[x].got]
          ELSE [thread |-> IF job[x].got = NoNumber THEN panel ELSE Nobody, asks |-> FALSE]
  BY DEF Decision, PanelFor
<1>7. Outcome(x).thread \in {d.thread, Nobody} \/ mail[m].kind = "explicit" BY DEF Outcome
<1>8. NoRoute.thread = Nobody /\ NoRoute.asks = FALSE BY DEF NoRoute, Unposted
<1>9. CASE root \in Rooted
  <2> DEFINE t == RootedAs(root)
  <2>1. t \in topical /\ t \in Owners /\ Root[t] = root /\ root # Nobody BY <1>9, RootsOfTopics, Sorts
  <2>2. job[x].got = number[root] /\ job[x].got # NoNumber BY <1>2, <1>9, <2>1 DEF ReplyRow
  <2>3. routes[job[x].got] = [thread |-> t, asks |-> FALSE] BY <1>5, <2>1, <2>2 DEF Routed
  <2>4. d.thread = t /\ t # Nobody BY <1>6, <1>8, <2>1, <2>2, <2>3, Sorts
  <2>5. mail[m].kind # "explicit" => Outcome(x).thread = t BY <2>2, <2>4 DEF Outcome, IsText
  <2>6. to # Nobody => About(to) = t BY <1>3, <1>9 DEF About
  <2> QED BY <1>9, <2>5, <2>6 DEF Reaches
<1>10. CASE root \notin Rooted /\ to = Nobody
  <2>1. ~mail[m].told \/ to \in Posts BY <1>3
  <2> QED BY <1>10, <2>1, Sorts DEF Reaches
<1>11. CASE root \notin Rooted /\ to # Nobody
  <2>1. job[x].got = number[to] /\ job[x].got # NoNumber /\ job[x].got \in Numbers BY <1>2, <1>4, <1>11 DEF ReplyRow
  <2>2. to \in Shown /\ to \in Names /\ root = RootOf(to) BY <1>3, <1>11, ShownAreNames
  <2>3. to \notin Rooted BY <1>11, <2>2, RootsOfTopics
  <2>4. ASSUME to \in Posts PROVE Posted(to) /\ About(to) = post[to].thread
    <3>1. Posted(to) BY <2>2, <2>3, <2>4, InboxAssumption DEF Shown, Posted
    <3>2. post[to].thread \notin topical BY <1>11, <2>2, <2>4, RootsOfTopics DEF RootOf
    <3>3. RootOf(to) = to BY <2>4, <3>2, InboxAssumption DEF RootOf
    <3> QED BY <2>3, <2>4, <3>1, <3>3 DEF About
  <2>5. d.thread = Nobody \/ (to \in Posts /\ d.thread = post[to].thread)
    <3>0. IF routes[job[x].got] # NoRoute THEN d = routes[job[x].got] ELSE d.thread = Nobody BY <1>6, <2>1
    <3> HIDE DEF d
    <3>1. CASE routes[job[x].got] = NoRoute BY <3>0, <3>1
    <3>2. CASE \E c \in Posts : Posted(c) /\ number[c] = job[x].got /\ routes[job[x].got] = post[c]
      <4>1. PICK c \in Posts : number[c] = job[x].got /\ routes[job[x].got] = post[c] BY <3>2
      <4>2. c = to BY <2>1, <2>2, <4>1, Sorts DEF Distinct
      <4>3. d.thread = Nobody \/ d = post[to] BY <3>0, <4>1, <4>2
      <4> QED BY <4>1, <4>2, <4>3
    <3>3. CASE \E t \in topical : number[Root[t]] = job[x].got
      <4>1. PICK t \in topical : number[Root[t]] = job[x].got BY <3>3
      <4>2. Root[t] \in Rooted /\ Root[t] \in Names BY RootsOfTopics
      <4>3. Root[t] = to BY <2>1, <2>2, <4>1, <4>2 DEF Distinct
      <4> QED BY <2>3, <4>2, <4>3
    <3> QED BY <1>5, <2>1, <3>1, <3>2, <3>3 DEF Routed
  <2>6. mail[m].kind # "explicit" => Outcome(x).thread \in {About(to), Nobody} BY <1>7, <2>4, <2>5
  <2>7. ASSUME mail[m].told, mail[m].kind = "text", post[to].asks PROVE Outcome(x).at = "answer"
    <3>1. to \in Posts /\ routes[job[x].got] = post[to] BY <1>3, <2>1, <2>7 DEF Recorded
    <3>2. Posted(to) /\ post[to].thread = Subject[to] BY <1>5, <2>4, <3>1 DEF Routed
    <3>3. post[to].thread # Nobody BY <3>1, <3>2, InboxAssumption, Sorts
    <3>4. d = post[to] BY <1>6, <1>8, <2>1, <3>1, <3>3
    <3> QED BY <2>7, <3>3, <3>4 DEF Outcome, IsText
  <2> QED BY <1>11, <2>6, <2>7 DEF Reaches
<1> QED BY <1>9, <1>10, <1>11

\* What a step does not touch stays fixed, posted and carried.
LEMMA OthersReach ==
  ASSUME NumbersInv, InboxTypes', Steady, ReachInv
  PROVE  /\ \A c \in Posts : job'[c] = job[c] => Posting(c)'
         /\ \A x \in Deliverers : job'[x] = job[x] => Carries(x)'
         /\ \A m \in Mails : Written(m) => ReplyRow(m)' = ReplyRow(m)
<1> USE DEF NumbersInv
<1>1. /\ Rooted' = Rooted
      /\ \A c \in Posts : Posted(c) => Posted(c)'
      /\ \A m \in Mails : Written(m) => Written(m)'
      /\ \A m \in Mails : Written(m) => mail'[m] = mail[m]
      /\ \A i \in Names : number[i] # NoNumber => number'[i] = number[i]
  BY Lasting DEF ReachInv, Steady
<1>2. \A m \in Mails : Written(m) => ReplyRow(m)' = ReplyRow(m) BY <1>1 DEF ReplyRow
<1>3. ASSUME NEW c \in Posts, job'[c] = job[c] PROVE Posting(c)'
  <2>1. Posting(c) /\ c \in Names BY Sorts DEF ReachInv
  <2>2. job[c].got # NoNumber /\ job[c].got = number[c] => number'[c] = number[c] BY <1>1, <2>1
  <2> QED BY <1>1, <1>3, <2>1, <2>2 DEF Posting, At
<1>4. ASSUME NEW x \in Deliverers, job'[x] = job[x] PROVE Carries(x)'
  <2>1. Carries(x) /\ x \in Workers /\ job[x].mail \in Mails \cup {Nobody} BY Sorts, JobFields DEF ReachInv
  <2>2. CASE job[x].mail = Nobody BY <1>4, <2>1, <2>2 DEF Carries
  <2>3. CASE job[x].mail \in Mails
    <3>0. PICK m \in Mails : m = job[x].mail BY <2>3
    <3>1. Written(m) /\ Written(m)' /\ ReplyRow(m)' = ReplyRow(m)
      <4>1. job[x].mail # Nobody BY <3>0, Sorts
      <4>2. Written(job[x].mail) BY <2>1, <4>1 DEF Carries
      <4>3. Written(m) BY <3>0, <4>2
      <4> QED BY <1>1, <1>2, <4>3
    <3>2. ReplyRow(m) \in Names \cup {Nobody} BY DEF ReplyRow, InboxTypes, MailStates
    <3>3. job[x].at \in {"claim", "act"} /\ ReplyRow(m) # Nobody => number'[ReplyRow(m)] = number[ReplyRow(m)]
      BY <1>1, <2>1, <3>0, <3>2, Sorts DEF Carries
    <3>4. Written(job[x].mail)' /\ ReplyRow(job[x].mail)' = ReplyRow(m)'
      BY <1>4, <3>0, <3>1 DEF Written, ReplyRow
    <3> QED BY <1>4, <2>1, <3>0, <3>1, <3>3, <3>4 DEF Carries, At
  <2> QED BY <2>1, <2>2, <2>3
<1> QED BY <1>2, <1>3, <1>4

\* What was done with a mail keeps to it as long as the chat only grows.
LEMMA HistoryReaches ==
  ASSUME NumbersInv, InboxTypes', Steady, ReachInv, NEW m \in Mails, NEW o, Reaches(m, o), Written(m)
  PROVE  Reaches(m, o)'
<1> USE DEF NumbersInv
<1>1. PICK i, j : i = mail[m].to /\ j = mail[m].root OBVIOUS
<1>2. Fixed(m) /\ mail'[m] = mail[m] /\ Rooted' = Rooted BY Lasting DEF ReachInv, Steady
<1>3. i # Nobody => About(i)' = About(i) BY <1>1, <1>2, Lasting DEF Fixed, ReachInv
<1>4. j \in Rooted => RootedAs(j)' = RootedAs(j) BY Lasting DEF ReachInv
<1>5. mail[m].told => post'[i] = post[i]
  <2>1. ASSUME mail[m].told PROVE i \in Posts /\ i \in Shown
    <3>1. i \in Posts BY <1>1, <1>2, <2>1 DEF Fixed
    <3> QED BY <1>1, <1>2, <2>1, <3>1, Sorts DEF Fixed
  <2>2. ASSUME mail[m].told PROVE Posted(i)
    BY <2>1, <2>2, RootsOfTopics, InboxAssumption DEF Shown, Posted
  <2> QED BY <2>1, <2>2 DEF Steady
<1>6. About(mail[m].to)' = About(i)' /\ RootedAs(mail[m].root)' = RootedAs(j)'
  BY <1>1, <1>2 DEF About, RootOf, RootedAs, Rooted
<1> QED BY <1>1, <1>2, <1>3, <1>4, <1>5, <1>6 DEF Reaches

\* A step that writes no route keeps the routes and the mails as they should be.
LEMMA RoutesKept ==
  ASSUME NumbersInv, InboxTypes', Steady, ReachInv, UNCHANGED routes,
         \A c \in Posts : Posted(c)' => post'[c].thread = Subject[c]
  PROVE  Routed' /\ \A c \in Posts : Posted(c) /\ Recorded(c) => Recorded(c)'
<1> USE DEF NumbersInv
<1>1. /\ topical' = topical /\ \A c \in Posts : Posted(c) => Posted(c)' /\ post'[c] = post[c]
      /\ \A i \in Names : number[i] # NoNumber => number'[i] = number[i]
  BY Lasting DEF ReachInv, Steady
<1>2. \A t \in topical : Root[t] \in Names BY RootsOfTopics
<1>3. Routed /\ Posts \subseteq Names BY Sorts DEF ReachInv
<1>4. ASSUME NEW n \in Numbers
      PROVE  \/ routes'[n] = NoRoute
             \/ \E c \in Posts : Posted(c)' /\ number'[c] = n /\ routes'[n] = post'[c]
             \/ \E t \in topical' : number'[Root[t]] = n /\ routes'[n] = [thread |-> t, asks |-> FALSE]
  <2>1. CASE routes[n] = NoRoute BY <2>1
  <2>2. CASE \E c \in Posts : Posted(c) /\ number[c] = n /\ routes[n] = post[c] BY <1>1, <1>3, <2>2, Sorts
  <2>3. CASE \E t \in topical : number[Root[t]] = n /\ routes[n] = [thread |-> t, asks |-> FALSE]
    BY <1>1, <1>2, <2>3, Sorts
  <2> QED BY <1>3, <2>1, <2>2, <2>3 DEF Routed
<1>5. \A t \in topical' : number'[Root[t]] # NoNumber /\ routes'[number'[Root[t]]] = [thread |-> t, asks |-> FALSE]
  BY <1>1, <1>2, <1>3 DEF Routed
<1>6. \A c \in Posts : Posted(c) /\ Recorded(c) => Recorded(c)' BY <1>1, <1>3 DEF Recorded
<1> QED BY <1>4, <1>5, <1>6 DEF Routed

LEMMA FixedKept ==
  ASSUME NumbersInv, InboxTypes', Steady, ReachInv, \A c \in Posts : Posted(c) /\ Recorded(c) => Recorded(c)',
         NEW m \in Mails, Written(m)
  PROVE  Fixed(m)'
<1> USE DEF NumbersInv
<1>1. PICK i : i = mail[m].to OBVIOUS
<1>2. Fixed(m) /\ mail'[m] = mail[m] BY DEF ReachInv, Steady
<1>3. Shown \subseteq Shown' /\ \A j \in Shown : RootOf(j)' = RootOf(j) BY Lasting DEF ReachInv
<1>4. i # Nobody => RootOf(i)' = RootOf(i) BY <1>1, <1>2, <1>3 DEF Fixed
<1>5. ASSUME mail[m].told PROVE i \in Posts /\ Recorded(i)'
  <2>1. i \in Posts /\ Recorded(i) BY <1>1, <1>2, <1>5 DEF Fixed
  <2>2. i \in Shown BY <1>1, <1>2, <2>1, Sorts DEF Fixed
  <2>3. Posted(i) BY <2>1, <2>2, RootsOfTopics, InboxAssumption DEF Shown, Posted
  <2> QED BY <2>1, <2>3
<1>6. RootOf(mail[m].to)' = RootOf(i)' /\ Recorded(mail[m].to)' = Recorded(i)'
  BY <1>1, <1>2 DEF RootOf, Recorded
<1> QED BY <1>1, <1>2, <1>3, <1>4, <1>5, <1>6 DEF Fixed

\* A step that neither writes a mail nor stores a route nor acts.
LEMMA ReachKept ==
  ASSUME NumbersInv, InboxTypes', Steady, ReachInv, UNCHANGED <<mail, routes, acted>>,
         \A c \in Posts : Posted(c)' => post'[c].thread = Subject[c],
         \A c \in Posts : Posting(c)', \A x \in Deliverers : Carries(x)'
  PROVE  ReachInv'
<1>1. Routed' /\ \A c \in Posts : Posted(c) /\ Recorded(c) => Recorded(c)' BY RoutesKept
<1>2. \A m \in Mails : Written(m)' <=> Written(m) BY DEF Written
<1>3. ASSUME NEW m \in Mails PROVE Fixed(m)' /\ (~Written(m)' => acted'[m] = <<>>)
  <2>1. CASE Written(m) BY <1>1, <1>2, <2>1, FixedKept
  <2>2. CASE ~Written(m) BY <1>2, <2>2 DEF ReachInv, Fixed
  <2> QED BY <2>1, <2>2
<1>4. ReachesItsThread'
  <2> SUFFICES ASSUME NEW m \in Mails, NEW k \in DOMAIN acted[m], NEW o, o = acted[m][k] PROVE Reaches(m, o)'
    BY ReachesAllNext
  <2>1. Written(m) BY DEF ReachInv
  <2>2. Reaches(m, o) BY ReachesAll DEF ReachInv
  <2> QED BY <2>1, <2>2, HistoryReaches
<1> QED BY <1>1, <1>3, <1>4 DEF ReachInv

\* A step of goroutine w alone that neither posts a card nor writes a mail, a route or an outcome.
LEMMA OwnStepReaches ==
  ASSUME NumbersInv, InboxTypes', Steady, ReachInv, NEW w \in Workers, \A v \in Workers \ {w} : job'[v] = job[v],
         UNCHANGED <<post, mail, routes, acted>>,
         w \in Posts => Posting(w)', w \in Deliverers => Carries(w)'
  PROVE  ReachInv'
<1>1. \A c \in Posts : Posted(c)' => post'[c].thread = Subject[c] BY DEF ReachInv, Routed, Posted
<1>2. \A c \in Posts : Posting(c)'
  <2>1. \A c \in Posts : c \in Workers BY Sorts
  <2>2. \A c \in Posts \ {w} : job'[c] = job[c] BY <2>1
  <2> QED BY <2>2, OthersReach
<1>3. \A x \in Deliverers : Carries(x)'
  <2>1. \A x \in Deliverers : x \in Workers BY Sorts
  <2>2. \A x \in Deliverers \ {w} : job'[x] = job[x] BY <2>1
  <2> QED BY <2>2, OthersReach
<1> QED BY <1>1, <1>2, <1>3, ReachKept

\* What a goroutine carries on, whatever the place, that is neither a card's nor past the row.
LEMMA KnownReaches ==
  ASSUME NumbersInv, InboxTypes', Steady, ReachInv, NEW w \in Workers, NEW n \in Numbers, UNCHANGED <<post, mail>>,
         job[w].at \in {"look", "insert"}, Known(w, n), number'[job[w].name] = n
  PROVE  /\ \A v \in Workers \ {w} : job'[v] = job[v]
         /\ w \in Posts => Posting(w)'
         /\ w \in Deliverers => Carries(w)'
<1> USE DEF NumbersInv
<1>1. n # NoNumber /\ job[w].name \in Names BY Sorts DEF Fits
<1>2. CASE /\ job[w].mail \in Mails /\ job[w].name # job[w].mail
           /\ Becomes(w, "claim", job[w].mail, job[w].name, job[w].try, n)
  <2>1. w \notin Posts
    <3> SUFFICES ASSUME w \in Posts PROVE FALSE OBVIOUS
    <3>1. job[w].mail = Nobody BY DEF ReachInv, Posting, At
    <3> QED BY <1>2, <3>1, Sorts
  <2>2. ASSUME w \in Deliverers PROVE Carries(w)'
    <3>1. PICK m \in Mails : m = job[w].mail BY <1>2
    <3>2. Carries(w) /\ m # Nobody BY <2>2, Sorts DEF ReachInv
    <3>3. Written(m) /\ job[w].name = ReplyRow(m) BY <1>2, <3>1, <3>2 DEF Carries
    <3>4. ReplyRow(m)' = ReplyRow(m) /\ Written(m)' BY <3>3, OthersReach DEF Written
    <3>5. job'[w].mail = m /\ job'[w].at = "claim" /\ job'[w].got = n BY <1>2, <3>1 DEF Becomes
    <3>6. ReplyRow(job[w].mail)' = ReplyRow(m)' /\ Written(job[w].mail)' BY <3>4, <3>5 DEF ReplyRow, Written
    <3> QED BY <1>1, <3>3, <3>4, <3>5, <3>6, Sorts DEF Carries, At
  <2> QED BY <1>2, <2>1, <2>2 DEF Becomes
<1>3. CASE /\ job[w].mail = Nobody \/ job[w].name = job[w].mail
           /\ Becomes(w, "map", job[w].mail, job[w].name, job[w].try, n)
  <2>1. ASSUME w \in Posts PROVE Posting(w)'
    <3>1. Posting(w) BY <2>1 DEF ReachInv
    <3>2. Posted(w) /\ Posted(w)' /\ job[w].mail = Nobody /\ job[w].name = w BY <3>1 DEF Posting, At, Posted
    <3> QED BY <1>3, <3>2 DEF Posting, At, Becomes
  <2>2. ASSUME w \in Deliverers PROVE Carries(w)'
    <3>1. Carries(w) BY <2>2 DEF ReachInv
    <3>2. job'[w].at = "map" /\ job'[w].mail = job[w].mail /\ job'[w].name = job[w].name BY <1>3 DEF Becomes
    <3>3. job[w].mail # Nobody => Written(job[w].mail)' BY <3>1, <3>2 DEF Carries, Written
    <3> QED BY <1>3, <3>2, <3>3 DEF Carries, At
  <2> QED BY <1>3, <2>1, <2>2 DEF Becomes
<1> QED BY <1>2, <1>3, Knows

\* A goroutine that moves on with the mail, the message and the number it has, short of the claim.
LEMMA SameReaches ==
  ASSUME NumbersInv, InboxTypes', Steady, ReachInv, NEW w \in Workers, UNCHANGED <<post, mail>>,
         NEW k, Becomes(w, "insert", job[w].mail, job[w].name, k, job[w].got), job[w].at \in {"look", "insert"}
  PROVE  /\ w \in Posts => Posting(w)'
         /\ w \in Deliverers => Carries(w)'
<1> USE DEF NumbersInv
<1>1. ASSUME w \in Posts PROVE Posting(w)'
  <2>1. Posted(w) /\ Posted(w)' /\ job[w].mail = Nobody /\ job[w].name = w
    BY <1>1 DEF ReachInv, Posting, At, Posted
  <2> QED BY <2>1 DEF Posting, At, Becomes
<1>2. ASSUME w \in Deliverers PROVE Carries(w)'
  <2>1. Carries(w) BY <1>2 DEF ReachInv
  <2>2. job'[w].at = "insert" /\ job'[w].mail = job[w].mail /\ job'[w].name = job[w].name BY DEF Becomes
  <2>3. job[w].mail # Nobody => /\ Written(job[w].mail)' /\ ReplyRow(job[w].mail)' = ReplyRow(job[w].mail)
                                /\ job[w].name \in {job[w].mail, ReplyRow(job[w].mail)}
    <3>1. ReplyRow(job[w].mail)' = ReplyRow(job[w].mail)
      BY <2>2 DEF ReplyRow, Rooted, Steady
    <3> QED BY <2>1, <2>2, <3>1 DEF Carries, Written
  <2> QED BY <2>2, <2>3 DEF Carries, At
<1> QED BY <1>1, <1>2

LEMMA ResolveReaches ==
  ASSUME NumbersInv, InboxTypes', Steady, ReachInv, NEW w \in Workers, LookUp(w) \/ Insert(w)
  PROVE  ReachInv'
<1> USE DEF NumbersInv
<1>1. UNCHANGED <<post, mail, routes, acted>> /\ job[w].at \in {"look", "insert"} BY DEF LookUp, Insert, At
<1>2. job[w].name \in Names BY <1>1 DEF Fits
<1>3. \/ \E n \in Numbers : Known(w, n) /\ number'[job[w].name] = n
      \/ \E k : Becomes(w, "insert", job[w].mail, job[w].name, k, job[w].got)
  <2>1. CASE LookUp(w)
    <3>1. CASE number[job[w].name] # NoNumber BY <1>2, <2>1, <3>1 DEF LookUp, InboxTypes
    <3>2. CASE number[job[w].name] = NoNumber
      <4>1. Becomes(w, "insert", job[w].mail, job[w].name, job[w].try, job[w].got)
        BY <2>1, <3>2, Goes DEF LookUp, Places
      <4> QED BY <4>1
    <3> QED BY <3>1, <3>2
  <2>2. CASE Insert(w)
    <3> DEFINE n == Hash[job[w].name][job[w].try]
    <3>1. At(w, "insert") /\ n \in Numbers BY <2>2, <1>2, Attempts DEF Insert, Fits, At
    <3>2. CASE number' = [number EXCEPT ![job[w].name] = n] /\ Known(w, n) BY <1>2, <3>1, <3>2 DEF InboxTypes
    <3>3. CASE number[job[w].name] = n /\ UNCHANGED number /\ Known(w, n) BY <3>1, <3>3
    <3>4. CASE job' = [job EXCEPT ![w].try = @ + 1]
      <4>1. Becomes(w, "insert", job[w].mail, job[w].name, job[w].try + 1, job[w].got) BY <3>1, <3>4, GoesOn DEF At
      <4> QED BY <4>1
    <3> QED BY <2>2, <3>2, <3>3, <3>4 DEF Insert, Taken
  <2> QED BY <2>1, <2>2
<1>4. CASE \E n \in Numbers : Known(w, n) /\ number'[job[w].name] = n BY <1>1, <1>4, KnownReaches, OwnStepReaches
<1>5. CASE \E k : Becomes(w, "insert", job[w].mail, job[w].name, k, job[w].got)
  <2>1. \A v \in Workers \ {w} : job'[v] = job[v] BY <1>5 DEF Becomes
  <2> QED BY <1>1, <1>5, <2>1, SameReaches, OwnStepReaches
<1> QED BY <1>3, <1>4, <1>5

LEMMA MapReaches ==
  ASSUME NumbersInv, InboxTypes', Steady, ReachInv, NEW w \in Workers, Map(w)
  PROVE  ReachInv'
<1> USE DEF NumbersInv
<1>1. /\ UNCHANGED <<post, mail, number, routes, acted>> /\ At(w, "map")
      /\ job[w].got # NoNumber /\ number[job[w].name] = job[w].got
  BY DEF Map, Fits, At
<1>2. CASE w \in Posts
  <2>1. PICK a \in {"panel", "route"} : Go(w, a) BY <1>2, InboxAssumption DEF Map
  <2>2. Becomes(w, a, job[w].mail, job[w].name, job[w].try, job[w].got) BY <2>1, Goes DEF Places
  <2>3. Posted(w) /\ Posted(w)' /\ job[w].mail = Nobody /\ job[w].name = w
    BY <1>1, <1>2 DEF ReachInv, Posting, At, Posted
  <2>4. Posting(w)' BY <1>1, <2>2, <2>3 DEF Posting, At, Becomes
  <2>5. w \notin Deliverers BY <1>2, InboxAssumption
  <2> QED BY <1>1, <2>2, <2>4, <2>5, OwnStepReaches DEF Becomes
<1>3. CASE w \in Deliverers /\ job[w].mail # Nobody /\ Go(w, "reply")
  <2>1. Becomes(w, "reply", job[w].mail, job[w].name, job[w].try, job[w].got) BY <1>3, Goes DEF Places
  <2>2. Written(job[w].mail) BY <1>3 DEF ReachInv, Carries
  <2>3. Written(job[w].mail)' BY <1>1, <2>1, <2>2 DEF Becomes, Written
  <2>4. Carries(w)' BY <2>1, <2>3 DEF Carries, At, Becomes
  <2>5. w \notin Posts BY <1>3, InboxAssumption
  <2> QED BY <1>1, <2>1, <2>4, <2>5, OwnStepReaches DEF Becomes
<1>4. CASE w \in Deliverers /\ Quit(w)
  <2>1. Becomes(w, "idle", Nobody, Nobody, 1, NoNumber) BY <1>4, Quits
  <2>2. Carries(w)' BY <2>1 DEF Carries, Becomes
  <2>3. w \notin Posts BY <1>4, InboxAssumption
  <2> QED BY <1>1, <2>1, <2>2, <2>3, OwnStepReaches DEF Becomes
<1> QED BY <1>2, <1>3, <1>4 DEF Map

LEMMA PostReaches ==
  ASSUME NumbersInv, InboxTypes', Steady, ReachInv, NEW c \in Posts, Post(c)
  PROVE  ReachInv'
<1> USE DEF NumbersInv
<1>1. /\ UNCHANGED <<mail, routes, acted>> /\ ~Posted(c) /\ c \in Workers /\ c \in Names
      /\ \E a \in BOOLEAN : post' = [post EXCEPT ![c] = [thread |-> Subject[c], asks |-> a]]
  BY Sorts DEF Post, Posted
<1>2. /\ Posted(c)' /\ post'[c].thread = Subject[c]
      /\ \A b \in Posts \ {c} : post'[b] = post[b]
  <2>1. Subject[c] # Nobody BY InboxAssumption, Sorts
  <2>2. post'[c].thread = Subject[c] /\ \A b \in Posts \ {c} : post'[b] = post[b] BY <1>1 DEF InboxTypes
  <2> QED BY <2>1, <2>2 DEF Posted, Unposted
<1>3. \A b \in Posts : Posted(b)' => post'[b].thread = Subject[b] BY <1>2 DEF ReachInv, Routed, Posted
<1>4. Posting(c)' /\ \A v \in Workers \ {c} : job'[v] = job[v]
  <2>1. CASE job' = [job EXCEPT ![c] = [Resting EXCEPT !.at = "look", !.name = c]]
    <3>1. Becomes(c, "look", Nobody, c, 1, NoNumber) BY <1>1, <2>1, Begins
    <3> QED BY <1>2, <3>1 DEF Posting, At, Becomes
  <2>2. CASE UNCHANGED job
    <3>1. Posting(c)' BY <2>2, OthersReach
    <3> QED BY <2>2, <3>1
  <2> QED BY <2>1, <2>2 DEF Post
<1>5. \A b \in Posts : Posting(b)'
  <2>1. \A b \in Posts \ {c} : job'[b] = job[b] BY <1>4, Sorts
  <2> QED BY <1>4, <2>1, OthersReach
<1>6. \A x \in Deliverers : Carries(x)'
  <2>1. \A x \in Deliverers : x \in Workers \ {c} BY Sorts, InboxAssumption
  <2> QED BY <1>4, <2>1, OthersReach
<1> QED BY <1>1, <1>3, <1>5, <1>6, ReachKept

\* The route of a card is stored under the card's own number, no topic's root and no other card's.
LEMMA CardRowsReach ==
  ASSUME NumbersInv, InboxTypes', Steady, ReachInv, NEW c \in Posts, StorePanel(c) \/ StoreRoute(c)
  PROVE  ReachInv'
<1> USE DEF NumbersInv
<1>1. /\ UNCHANGED <<topical, post, mail, number, acted>> /\ c \in Workers /\ c \in Names /\ c \notin Deliverers
      /\ Posting(c) /\ job[c].at \in {"panel", "route"}
  BY Sorts, InboxAssumption DEF StorePanel, StoreRoute, ReachInv, At
<1>2. Posted(c) /\ Posted(c)' /\ job[c].got = number[c] /\ number[c] # NoNumber /\ job[c].mail = Nobody /\ job[c].name = c
  BY <1>1 DEF Posting, At, Posted
<1>3. CASE StorePanel(c)
  <2>1. Becomes(c, "route", job[c].mail, job[c].name, job[c].try, job[c].got)
    BY <1>1, <1>3, Goes DEF StorePanel, Places
  <2>2. Posting(c)' BY <1>1, <1>2, <2>1 DEF Posting, At, Becomes
  <2> QED BY <1>1, <1>3, <2>1, <2>2, OwnStepReaches DEF StorePanel, Becomes
<1>4. CASE StoreRoute(c)
  <2>1. Becomes(c, "idle", Nobody, Nobody, 1, NoNumber) BY <1>1, <1>4, Quits DEF StoreRoute
  <2>2. Posting(c)' BY <2>1 DEF Posting, At, Becomes
  <2>3. \A b \in Posts : Posting(b)'
    <3>1. \A b \in Posts \ {c} : job'[b] = job[b] BY <2>1, Sorts DEF Becomes
    <3> QED BY <2>2, <3>1, OthersReach
  <2>4. \A x \in Deliverers : Carries(x)'
    <3>1. \A x \in Deliverers : x \in Workers \ {c} BY <1>1, Sorts
    <3> QED BY <2>1, <3>1, OthersReach DEF Becomes
  <2>5. number[c] \in Numbers BY <1>1, <1>2 DEF InboxTypes
  <2>6. /\ routes'[number[c]] = post[c] /\ \A n \in Numbers \ {number[c]} : routes'[n] = routes[n]
    BY <1>2, <1>4, <2>5 DEF StoreRoute, InboxTypes
  <2>7. Routed BY DEF ReachInv
  <2>8. \A t \in topical : number[Root[t]] # number[c] /\ number[Root[t]] \in Numbers
    <3>1. ASSUME NEW t \in topical PROVE number[Root[t]] # number[c] /\ number[Root[t]] \in Numbers
      <4>1. Root[t] \in Names /\ Root[t] \notin Posts BY RootsOfTopics
      <4>2. number[Root[t]] # NoNumber BY <2>7 DEF Routed
      <4> QED BY <1>1, <1>2, <4>1, <4>2 DEF Distinct, InboxTypes
    <3> QED BY <3>1
  <2>9. Routed'
    <3>1. ASSUME NEW n \in Numbers
          PROVE  \/ routes'[n] = NoRoute
                 \/ \E b \in Posts : Posted(b)' /\ number'[b] = n /\ routes'[n] = post'[b]
                 \/ \E t \in topical' : number'[Root[t]] = n /\ routes'[n] = [thread |-> t, asks |-> FALSE]
      <4>1. CASE n = number[c] BY <1>1, <1>2, <2>6, <4>1
      <4>2. CASE n # number[c]
        <5>1. routes'[n] = routes[n] BY <2>6, <4>2
        <5>2. \A b \in Posts : Posted(b) => Posted(b)' BY <1>1 DEF Posted
        <5> QED BY <1>1, <2>7, <5>1, <5>2 DEF Routed
      <4> QED BY <4>1, <4>2
    <3>2. \A b \in Posts : Posted(b)' => post'[b].thread = Subject[b] BY <1>1, <2>7 DEF Routed, Posted
    <3>3. \A t \in topical' : number'[Root[t]] # NoNumber /\ routes'[number'[Root[t]]] = [thread |-> t, asks |-> FALSE]
      <4> SUFFICES ASSUME NEW t \in topical
                   PROVE  number[Root[t]] # NoNumber /\ routes'[number[Root[t]]] = [thread |-> t, asks |-> FALSE]
        BY <1>1
      <4>1. routes'[number[Root[t]]] = routes[number[Root[t]]] BY <2>6, <2>8
      <4> QED BY <2>7, <4>1 DEF Routed
    <3> QED BY <3>1, <3>2, <3>3 DEF Routed
  <2>10. \A b \in Posts : Posted(b) /\ Recorded(b) => Recorded(b)'
    <3> SUFFICES ASSUME NEW b \in Posts, Recorded(b) PROVE number[b] # NoNumber /\ routes'[number[b]] = post[b]
      BY <1>1 DEF Recorded
    <3>1. number[b] # NoNumber /\ routes[number[b]] = post[b] /\ b \in Names BY Sorts DEF Recorded
    <3>2. number[b] \in Numbers BY <3>1 DEF InboxTypes
    <3>3. CASE number[b] = number[c]
      <4>1. b = c BY <1>1, <3>1, <3>3 DEF Distinct
      <4> QED BY <2>6, <3>1, <4>1
    <3>4. CASE number[b] # number[c] BY <2>6, <3>1, <3>2, <3>4
    <3> QED BY <3>3, <3>4
  <2>11. ASSUME NEW m \in Mails PROVE Fixed(m)' /\ (~Written(m)' => acted'[m] = <<>>)
    <3>1. CASE Written(m) BY <1>1, <2>10, <3>1, FixedKept DEF Written
    <3>2. CASE ~Written(m) BY <1>1, <3>2 DEF ReachInv, Fixed, Written
    <3> QED BY <3>1, <3>2
  <2>12. ReachesItsThread'
    <3> SUFFICES ASSUME NEW m \in Mails, NEW k \in DOMAIN acted[m], NEW o, o = acted[m][k] PROVE Reaches(m, o)'
      BY <1>1, ReachesAllNext
    <3>1. Written(m) BY DEF ReachInv
    <3>2. Reaches(m, o) BY ReachesAll DEF ReachInv
    <3> QED BY <3>1, <3>2, HistoryReaches
  <2> QED BY <2>3, <2>4, <2>9, <2>11, <2>12 DEF ReachInv
<1> QED BY <1>3, <1>4

LEMMA DeliveryReaches ==
  ASSUME NumbersInv, InboxTypes', Steady, ReachInv, NEW x \in Deliverers, Press(x) \/ HandleEvent(x)
  PROVE  ReachInv'
<1> USE DEF NumbersInv
<1>1. /\ UNCHANGED <<post, mail, routes, acted>> /\ x \in Workers /\ x \notin Posts
  BY Sorts, InboxAssumption DEF Press, HandleEvent
<1>2. \/ \E c \in Posts : Becomes(x, "look", Nobody, c, 1, NoNumber)
      \/ \E m \in Mails : Written(m) /\ Becomes(x, "look", m, m, 1, NoNumber)
  <2>1. CASE Press(x) BY <1>1, <2>1, Begins, Sorts DEF Press
  <2>2. CASE HandleEvent(x) BY <1>1, <2>2, Begins, Sorts DEF HandleEvent, Written
  <2> QED BY <2>1, <2>2
<1>3. CASE \E c \in Posts : Becomes(x, "look", Nobody, c, 1, NoNumber)
  <2>1. Carries(x)' BY <1>3 DEF Carries, Becomes
  <2> QED BY <1>1, <1>3, <2>1, OwnStepReaches DEF Becomes
<1>4. CASE \E m \in Mails : Written(m) /\ Becomes(x, "look", m, m, 1, NoNumber)
  <2>1. PICK m \in Mails : Written(m) /\ Becomes(x, "look", m, m, 1, NoNumber) BY <1>4
  <2>2. Written(job[x].mail)' BY <1>1, <2>1 DEF Written, Becomes
  <2>3. Carries(x)' BY <2>1, <2>2 DEF Carries, At, Becomes
  <2> QED BY <1>1, <2>1, <2>3, OwnStepReaches DEF Becomes
<1> QED BY <1>2, <1>3, <1>4

\* The row a delivery asks for is the one of the message its mail answers.
LEMMA ReplyReaches ==
  ASSUME NumbersInv, InboxTypes', Steady, ReachInv, NEW x \in Deliverers, Reply(x)
  PROVE  ReachInv'
<1> USE DEF NumbersInv
<1>1. /\ UNCHANGED <<topical, post, mail, number, routes, acted>> /\ x \in Workers /\ x \notin Posts /\ At(x, "reply")
  BY Sorts, InboxAssumption DEF Reply
<1>2. PICK m \in Mails : m = job[x].mail BY <1>1 DEF Fits, At
<1>3. Written(m) BY <1>2, Sorts DEF ReachInv, Carries
<1>4. PICK i \in Names \cup {Nobody} : i = ReplyRow(m) BY DEF ReplyRow, InboxTypes, MailStates
<1>5. ASSUME NEW l, job'[x].mail = m, job'[x].at = l, l \in {"claim", "look"},
             l = "claim" => /\ job'[x].got = (IF i = Nobody THEN NoNumber ELSE number[i])
                            /\ i # Nobody => job'[x].got # NoNumber,
             l = "look" => job'[x].name = i
      PROVE  Carries(x)'
  <2>1. ReplyRow(job[x].mail)' = i /\ Written(job[x].mail)'
    BY <1>1, <1>3, <1>4, <1>5 DEF ReplyRow, Rooted, Written
  <2> QED BY <1>1, <1>5, <2>1 DEF Carries, At
<1>6. CASE i = Nobody /\ job' = [job EXCEPT ![x].got = NoNumber, ![x].at = "claim"]
  <2>1. Becomes(x, "claim", job[x].mail, job[x].name, job[x].try, NoNumber) BY <1>1, <1>6, GoesKnowing DEF Places
  <2>2. Carries(x)' BY <1>2, <1>5, <1>6, <2>1 DEF Becomes
  <2> QED BY <1>1, <2>1, <2>2, OwnStepReaches DEF Becomes
<1>7. CASE i # Nobody /\ \E n \in Numbers : owner[n] = i /\ job' = [job EXCEPT ![x].got = n, ![x].at = "claim"]
  <2>1. PICK n \in Numbers : owner[n] = i /\ job' = [job EXCEPT ![x].got = n, ![x].at = "claim"] BY <1>7
  <2>2. number[i] = n /\ n # NoNumber BY <1>7, <2>1, Sorts DEF Distinct
  <2>3. Becomes(x, "claim", job[x].mail, job[x].name, job[x].try, n) BY <1>1, <2>1, GoesKnowing DEF Places
  <2>4. Carries(x)' BY <1>2, <1>5, <1>7, <2>2, <2>3 DEF Becomes
  <2> QED BY <1>1, <2>3, <2>4, OwnStepReaches DEF Becomes
<1>8. CASE i # Nobody /\ job' = [job EXCEPT ![x].name = i, ![x].try = 1, ![x].at = "look"]
  <2>1. Becomes(x, "look", job[x].mail, i, 1, job[x].got) BY <1>1, <1>8, GoesLooking
  <2>2. Carries(x)' BY <1>2, <1>5, <2>1 DEF Becomes
  <2> QED BY <1>1, <2>1, <2>2, OwnStepReaches DEF Becomes
<1> QED BY <1>2, <1>4, <1>6, <1>7, <1>8 DEF Reply

LEMMA ClaimReaches ==
  ASSUME NumbersInv, InboxTypes', Steady, ReachInv, NEW x \in Deliverers, Claim(x)
  PROVE  ReachInv'
<1> USE DEF NumbersInv
<1>1. /\ UNCHANGED <<topical, post, mail, number, routes, acted>> /\ x \in Workers /\ x \notin Posts /\ At(x, "claim")
      /\ Quit(x) \/ Go(x, "act")
  BY Sorts, InboxAssumption DEF Claim
<1>2. CASE Quit(x)
  <2>1. Becomes(x, "idle", Nobody, Nobody, 1, NoNumber) BY <1>1, <1>2, Quits
  <2>2. Carries(x)' BY <2>1 DEF Carries, Becomes
  <2> QED BY <1>1, <2>1, <2>2, OwnStepReaches DEF Becomes
<1>3. CASE Go(x, "act")
  <2>1. Becomes(x, "act", job[x].mail, job[x].name, job[x].try, job[x].got) BY <1>1, <1>3, Goes DEF Places
  <2>2. Carries(x) /\ job[x].mail # Nobody BY <1>1, Sorts DEF ReachInv, Fits, At
  <2>3. /\ Written(job[x].mail)' /\ ReplyRow(job[x].mail)' = ReplyRow(job[x].mail)
    BY <1>1, <2>1, <2>2 DEF Carries, Written, ReplyRow, Rooted, Becomes
  <2>4. job'[x].at = "act" /\ job'[x].mail = job[x].mail /\ job'[x].got = job[x].got BY <2>1 DEF Becomes
  <2>5. Carries(x)' BY <1>1, <2>2, <2>3, <2>4 DEF Carries, At
  <2> QED BY <1>1, <2>1, <2>5, OwnStepReaches DEF Becomes
<1> QED BY <1>1, <1>2, <1>3

\* The outcome is what the row says, and nothing was done with the mail before.
LEMMA ActReaches ==
  ASSUME NumbersInv, ActsOnce, InboxTypes', Steady, ReachInv, NEW x \in Deliverers, Act(x)
  PROVE  ReachInv'
<1> USE DEF NumbersInv
<1>1. PICK m \in Mails : m = job[x].mail BY ActDoes
<1>2. /\ UNCHANGED <<topical, post, mail, number, routes>> /\ x \in Workers /\ x \notin Posts /\ At(x, "act")
      /\ acted' = [acted EXCEPT ![m] = Append(@, Outcome(x))] \/ acted' = acted
      /\ Becomes(x, "idle", Nobody, Nobody, 1, NoNumber)
  BY <1>1, ActDoes, InboxAssumption
<1>3. Written(m) /\ acted[m] = <<>>
  <2>1. Carries(x) /\ job[x].mail # Nobody BY <1>1, Sorts DEF ReachInv
  <2> QED BY <1>1, <1>2, <2>1 DEF Carries, ActsOnce
<1>4. Reaches(m, Outcome(x)) BY <1>1, <1>2, OutcomeReaches
<1>5. /\ \A b \in Posts : Posting(b)'
      /\ \A y \in Deliverers : Carries(y)'
  <2>1. Carries(x)' BY <1>2 DEF Carries, Becomes
  <2>2. \A b \in Posts : job'[b] = job[b] BY <1>2, Sorts DEF Becomes
  <2>3. \A y \in Deliverers \ {x} : job'[y] = job[y] BY <1>2, Sorts DEF Becomes
  <2> QED BY <2>1, <2>2, <2>3, OthersReach
<1>6. Routed' /\ \A c \in Posts : Posted(c) /\ Recorded(c) => Recorded(c)'
  <2>1. \A c \in Posts : Posted(c)' => post'[c].thread = Subject[c] BY <1>2 DEF ReachInv, Routed, Posted
  <2> QED BY <1>2, <2>1, RoutesKept
<1>7. acted \in [Mails -> Seq(Outcomes)] /\ Outcome(x) \in Outcomes BY ActDoes DEF InboxTypes
<1>8. \A o \in Mails \ {m} : acted'[o] = acted[o] BY <1>2, <1>7
<1>9. ASSUME NEW o \in Mails PROVE Fixed(o)' /\ (~Written(o)' => acted'[o] = <<>>)
  <2>1. CASE Written(o) BY <1>2, <1>6, <2>1, FixedKept DEF Written
  <2>2. CASE ~Written(o)
    <3>1. o # m BY <1>3, <2>2
    <3> QED BY <1>2, <1>8, <2>2, <3>1 DEF ReachInv, Fixed, Written
  <2> QED BY <2>1, <2>2
<1>10. ReachesItsThread'
  <2> SUFFICES ASSUME NEW o \in Mails, NEW k \in DOMAIN acted'[o], NEW r, r = acted'[o][k] PROVE Reaches(o, r)'
    BY ReachesAllNext
  <2>1. CASE acted'[o] = acted[o]
    <3>1. Written(o) BY <2>1 DEF ReachInv
    <3>2. Reaches(o, r) BY <2>1, ReachesAll DEF ReachInv
    <3> QED BY <3>1, <3>2, HistoryReaches
  <2>2. CASE acted'[o] # acted[o]
    <3>1. o = m /\ acted'[m] = Append(<<>>, Outcome(x)) BY <1>2, <1>3, <1>7, <1>8, <2>2
    <3>2. DOMAIN acted'[m] = {1} /\ acted'[m][1] = Outcome(x)
      <4>1. <<>> \in Seq(Outcomes) BY <1>3, <1>7
      <4> QED BY <1>7, <3>1, <4>1
    <3>3. r = Outcome(x) BY <3>1, <3>2
    <3>4. Reaches(m, r) BY <1>4, <3>3
    <3> QED BY <1>3, <3>1, <3>4, HistoryReaches
  <2> QED BY <2>1, <2>2
<1> QED BY <1>5, <1>6, <1>9, <1>10 DEF ReachInv

\* A new mail answers what is shown, and nobody has handled it.
LEMMA WriteReaches ==
  ASSUME NumbersInv, InboxTypes', Steady, ReachInv, NEW m \in Mails, Write(m)
  PROVE  ReachInv'
<1> USE DEF NumbersInv
<1>1. PICK i \in Shown \cup {Nobody} :
        /\ mail'[m].to = i /\ mail'[m].root = (IF i = Nobody THEN i ELSE RootOf(i)) /\ mail'[m].kind \in MailKinds
        /\ mail'[m].told => i \in Posts /\ Recorded(i)
  BY WriteDoes
<1>2. /\ ~Written(m) /\ \A o \in Mails \ {m} : mail'[o] = mail[o]
      /\ UNCHANGED <<topical, post, number, routes, job, acted>>
  BY WriteDoes DEF Written
<1>3. \A b \in Posts : Posting(b)' BY <1>2, OthersReach
<1>4. \A x \in Deliverers : Carries(x)' BY <1>2, OthersReach
<1>5. Routed' /\ \A c \in Posts : Posted(c) /\ Recorded(c) => Recorded(c)'
  <2>1. \A c \in Posts : Posted(c)' => post'[c].thread = Subject[c] BY <1>2 DEF ReachInv, Routed, Posted
  <2> QED BY <1>2, <2>1, RoutesKept
<1>6. Fixed(m)'
  <2>1. i # m
    <3>1. m \notin Shown BY <1>2, RootsOfTopics, InboxAssumption DEF Shown, Written
    <3> QED BY <3>1, Sorts
  <2>2. Shown \subseteq Shown' /\ \A j \in Shown : RootOf(j)' = RootOf(j) /\ RootOf(j) \in Shown
    BY Lasting, RootsAreShown DEF ReachInv
  <2>3. RootOf(mail[m].to)' = RootOf(i)' /\ Recorded(mail[m].to)' = Recorded(i)'
    BY <1>1 DEF RootOf, Recorded
  <2>4. mail'[m].told => i \in Posts /\ Recorded(i)' BY <1>1, <1>2 DEF Recorded
  <2> QED BY <1>1, <2>1, <2>2, <2>3, <2>4 DEF Fixed
<1>7. ASSUME NEW o \in Mails PROVE Fixed(o)' /\ (~Written(o)' => acted'[o] = <<>>)
  <2>1. CASE o = m BY <1>2, <1>6, <2>1 DEF ReachInv
  <2>2. CASE o # m /\ Written(o) BY <1>2, <1>5, <2>2, FixedKept DEF Written
  <2>3. CASE o # m /\ ~Written(o) BY <1>2, <2>3 DEF ReachInv, Fixed, Written
  <2> QED BY <2>1, <2>2, <2>3
<1>8. ReachesItsThread'
  <2> SUFFICES ASSUME NEW o \in Mails, NEW k \in DOMAIN acted[o], NEW r, r = acted[o][k] PROVE Reaches(o, r)'
    BY <1>2, ReachesAllNext
  <2>1. Written(o) BY DEF ReachInv
  <2>2. Reaches(o, r) BY ReachesAll DEF ReachInv
  <2> QED BY <2>1, <2>2, HistoryReaches
<1> QED BY <1>3, <1>4, <1>5, <1>7, <1>8 DEF ReachInv

LEMMA RestartReaches ==
  ASSUME NumbersInv, InboxTypes', Steady, ReachInv, Restart
  PROVE  ReachInv'
<1>1. /\ UNCHANGED <<post, mail, routes, acted>> /\ \A w \in Workers : job'[w] = Resting BY DEF Restart
<1>2. \A c \in Posts : Posting(c)' BY <1>1, Sorts DEF Posting, At
<1>3. \A x \in Deliverers : Carries(x)'
  <2>1. Resting.mail = Nobody BY DEF Resting
  <2> QED BY <1>1, <2>1, Sorts DEF Carries
<1>4. \A c \in Posts : Posted(c)' => post'[c].thread = Subject[c] BY <1>1 DEF ReachInv, Routed, Posted
<1> QED BY <1>1, <1>2, <1>3, <1>4, ReachKept

LEMMA ReachInit == InboxInit => ReachInv
<1> SUFFICES ASSUME InboxInit PROVE ReachInv OBVIOUS
<1>1. /\ \A c \in Posts : ~Posted(c)
      /\ \A m \in Mails : ~Written(m) /\ acted[m] = <<>>
      /\ \A w \in Workers : job[w] = Resting
  BY DEF InboxInit, Posted, Written
<1>2. \A n \in Numbers : routes[n] = IF owner[n] # Nobody THEN [thread |-> RootedAs(owner[n]), asks |-> FALSE] ELSE NoRoute
  BY DEF InboxInit
<1>3. Routed
  <2>1. ASSUME NEW n \in Numbers
        PROVE  routes[n] = NoRoute \/ \E t \in topical : number[Root[t]] = n /\ routes[n] = [thread |-> t, asks |-> FALSE]
    <3>1. CASE owner[n] = Nobody BY <1>2, <3>1
    <3>2. CASE owner[n] # Nobody
      <4>1. owner[n] \in Rooted /\ number[owner[n]] = n BY <3>2, AtFirst
      <4>2. PICK t \in topical : owner[n] = Root[t] BY <4>1 DEF Rooted
      <4>3. RootedAs(owner[n]) = t BY <4>2, AtFirst
      <4> QED BY <1>2, <3>2, <4>1, <4>2, <4>3
    <3> QED BY <3>1, <3>2
  <2>2. ASSUME NEW t \in topical
        PROVE  number[Root[t]] # NoNumber /\ routes[number[Root[t]]] = [thread |-> t, asks |-> FALSE]
    <3>1. Root[t] \in Rooted /\ RootedAs(Root[t]) = t BY AtFirst
    <3>2. number[Root[t]] \in Numbers /\ owner[number[Root[t]]] = Root[t] /\ Root[t] \in RootIds BY <3>1, AtFirst
    <3>3. Root[t] # Nobody BY <3>2, Sorts
    <3> QED BY <1>2, <3>1, <3>2, <3>3, Sorts
  <2> QED BY <1>1, <2>1, <2>2 DEF Routed
<1>4. Resting.mail = Nobody BY DEF Resting
<1>5. \A c \in Posts : Posting(c) BY <1>1, Sorts DEF Posting, At
<1>6. \A x \in Deliverers : Carries(x) BY <1>1, <1>4, Sorts DEF Carries
<1>7. ReachesItsThread BY <1>1, ReachesAll
<1> QED BY <1>1, <1>3, <1>5, <1>6, <1>7 DEF ReachInv, Fixed

LEMMA ReachInvariant == InboxSpec => []ReachInv
<1>1. NumbersInv /\ NumbersInv' /\ ActsOnce /\ ReachInv /\ [InboxNext]_inboxVars => ReachInv'
  <2> SUFFICES ASSUME NumbersInv, NumbersInv', ActsOnce, ReachInv, [InboxNext]_inboxVars PROVE ReachInv' OBVIOUS
  <2>1. InboxTypes' /\ Steady BY StepsSteady DEF NumbersInv
  <2>2. ASSUME NEW m \in Mails, Write(m) PROVE ReachInv' BY <2>1, <2>2, WriteReaches
  <2>3. ASSUME NEW w \in Workers, LookUp(w) \/ Insert(w) \/ Map(w) PROVE ReachInv'
    BY <2>1, <2>3, ResolveReaches, MapReaches
  <2>4. ASSUME NEW c \in Posts, Post(c) \/ StorePanel(c) \/ StoreRoute(c) PROVE ReachInv'
    BY <2>1, <2>4, PostReaches, CardRowsReach
  <2>5. ASSUME NEW x \in Deliverers, Press(x) \/ HandleEvent(x) \/ Reply(x) \/ Claim(x) \/ Act(x) PROVE ReachInv'
    BY <2>1, <2>5, DeliveryReaches, ReplyReaches, ClaimReaches, ActReaches
  <2>6. CASE Restart BY <2>1, <2>6, RestartReaches
  <2>7. CASE UNCHANGED inboxVars
    <3>1. UNCHANGED <<post, mail, routes, acted, job>> BY <2>7 DEF inboxVars
    <3>2. \A c \in Posts : Posted(c)' => post'[c].thread = Subject[c] BY <3>1 DEF ReachInv, Routed, Posted
    <3> QED BY <2>1, <3>1, <3>2, OthersReach, ReachKept
  <2> QED BY <2>2, <2>3, <2>4, <2>5, <2>6, <2>7 DEF InboxNext
<1> QED BY <1>1, ReachInit, NumbersInvariant, ActsOnceInvariant, PTL DEF InboxSpec

\* An answer goes to the thread of what it answers or nowhere, what is written in a topic to its thread,
\* and text that answers a recorded card that asks to the request, whatever of the card's rows is
\* written when and whichever thread has the latest panel (replyToMessageID, resolveRouteFromSource).
THEOREM MessagesReach == InboxSpec => []ReachesItsThread
<1>1. ReachInv => ReachesItsThread BY DEF ReachInv
<1> QED BY <1>1, ReachInvariant, PTL

=============================================================================
