------------------------------- MODULE TurnInput -------------------------------
(***************************************************************************)
(* A Feishu message on its way into a Codex thread: the inbound claim of   *)
(* the bot (internal/feishu/bot.go), the desktop path                      *)
(* (internal/daemon/desktop_input.go) and the steer-or-start cascade of    *)
(* sendInputToThreadTurnFromSource (internal/daemon/service.go).           *)
(*                                                                         *)
(* One thread, one chat.  Feishu may deliver a message again, so each      *)
(* message has several handlers; handlers hold no lock on the thread and   *)
(* every call to the app-server or the desktop is a step.  A turn is its   *)
(* number; 0 is no turn.                                                   *)
(***************************************************************************)
EXTENDS Naturals, FiniteSets

CONSTANTS
  Messages, Handlers, MsgOf,  \* the deliveries of each message
  Desktop,     \* what cfg.OpenCodexDesktopOnFeishu may be
  MaxTurns, MaxUserTurns, MaxLost, MaxFails, MaxCrashes  \* bounds

ASSUME InputAssumption ==
  /\ MsgOf \in [Handlers -> Messages] /\ Desktop \subseteq BOOLEAN
  /\ MaxTurns \in Nat /\ MaxUserTurns \in Nat /\ MaxLost \in Nat /\ MaxFails \in Nat /\ MaxCrashes \in Nat

Turns == 1..MaxTurns
NoTurn == 0
NoThread == [active |-> FALSE, turn |-> NoTurn]
Errors == {"none", "noActive", "mismatch", "busy", "other"}

VARIABLES
  desktop,    \* cfg.OpenCodexDesktopOnFeishu
  claimed,    \* message -> feishu.inbound.<id> is set
  h,          \* handler -> where it is, its copy of the thread row, the turn replied to,
              \* steerErr and the active turn a mismatch error named
  current, turns,  \* Codex: the active turn, turns so far
  armed,      \* chat_steer_state: the armed turn
  delivered,  \* message -> copies Codex accepted
  lost,       \* message -> replies of accepted requests that never arrived
  outcome,    \* message -> what the chat was told
  parallel,   \* history: turn/start was sent while a turn was active
  alone,      \* history: one handler at a time, and no other client starts a turn meanwhile
  userTurns, losses, fails, crashes  \* spent of the bounds

cvars == <<current, turns>>
bvars == <<userTurns, losses, fails, crashes>>
tally == <<delivered, lost, outcome>>
vars == <<desktop, claimed, h, cvars, armed, tally, parallel, alone, bvars>>

Stages == {"idle", "history", "desktopSteer", "desktopStart", "resume", "armed", "route",
           "retarget", "noActive", "decide", "accepted"}
Idle == [at |-> "idle", thread |-> NoThread, route |-> NoTurn, err |-> "none", found |-> NoTurn]
Init ==
  /\ desktop \in Desktop /\ alone = TRUE
  /\ claimed = [m \in Messages |-> FALSE]
  /\ h = [x \in Handlers |-> Idle]
  /\ current = NoTurn /\ turns = 0 /\ armed = NoTurn
  /\ delivered = [m \in Messages |-> 0] /\ lost = [m \in Messages |-> 0]
  /\ outcome = [m \in Messages |-> "none"]
  /\ parallel = FALSE
  /\ userTurns = 0 /\ losses = 0 /\ fails = 0 /\ crashes = 0

\* Mutants of the helpers below (see PROJECT.json).
Unclaimed_Always(x) == TRUE
Rejects_IgnoresThread(x) == h[x].err \in {"busy", "mismatch"}

\* SetStateIfAbsent succeeds for one delivery.
Unclaimed(x) == ~claimed[MsgOf[x]]
\* threadLooksActiveForInput or steerFailureImpliesActive, unless Codex said there is no active turn.
Rejects(x) ==
  h[x].err # "noActive" /\ (h[x].thread.active \/ h[x].err \in {"busy", "mismatch"})
\* A result ends the cascade.
AfterAccept(x) == "accepted"
\* A failed steer falls to the next stage.
NextStage(x) == IF h[x].at = "armed" THEN "route" ELSE IF h[x].at = "retarget" THEN "noActive" ELSE "retarget"

\* A view of an active thread: mergeThreadMetadata keeps an older turn id when the read has none.
ActiveViews == {[active |-> TRUE, turn |-> t] : t \in 0..turns}
\* What refreshThreadForOperation returns: a deferred interruption keeps an idle thread active.
ReadViews == IF current = NoTurn THEN ActiveViews \cup {NoThread} ELSE ActiveViews
\* The stored row may be behind.
StoredViews == ActiveViews \cup {NoThread}

Goto(x, l) == h' = [h EXCEPT ![x].at = l]
Tell(x, o) == outcome' = [outcome EXCEPT ![MsgOf[x]] = o] /\ h' = [h EXCEPT ![x] = Idle]
Deliver(x) == delivered' = [delivered EXCEPT ![MsgOf[x]] = @ + 1]
LoseReply(x) ==
  /\ losses < MaxLost /\ losses' = losses + 1
  /\ lost' = [lost EXCEPT ![MsgOf[x]] = @ + 1]
Quiet == \A x \in Handlers : h[x].at = "idle"
Fail == fails < MaxFails /\ fails' = fails + 1

----------------------------------------------------------------------------
\* The environment

TurnEnds ==
  /\ current # NoTurn /\ current' = NoTurn
  /\ UNCHANGED <<desktop, alone, claimed, h, turns, armed, tally, parallel, bvars>>

\* The user starts a turn in Codex itself.
UserTurn ==
  /\ current = NoTurn /\ turns < MaxTurns /\ userTurns < MaxUserTurns
  /\ alone' = (alone /\ Quiet)
  /\ turns' = turns + 1 /\ current' = turns + 1 /\ userTurns' = userTurns + 1
  /\ UNCHANGED <<desktop, claimed, h, armed, tally, parallel, losses, fails, crashes>>

\* A steer button; the arming expires after steerTTL.
Arm ==
  /\ current # NoTurn /\ armed # current
  /\ armed' = current
  /\ UNCHANGED <<desktop, alone, claimed, h, cvars, tally, parallel, bvars>>

ArmExpires ==
  /\ armed # NoTurn /\ armed' = NoTurn
  /\ UNCHANGED <<desktop, alone, claimed, h, cvars, tally, parallel, bvars>>

\* The daemon restarts; the claims are in the database.
Crash ==
  /\ crashes < MaxCrashes /\ crashes' = crashes + 1
  /\ h' = [x \in Handlers |-> Idle]
  /\ UNCHANGED <<desktop, alone, claimed, cvars, armed, tally, parallel, userTurns, losses, fails>>

----------------------------------------------------------------------------
\* handleMessageEvent up to the input handler

Receive(x) ==
  /\ h[x].at = "idle" /\ Unclaimed(x) /\ alone' = (alone /\ Quiet)
  /\ claimed' = [claimed EXCEPT ![MsgOf[x]] = TRUE]
  /\ \E t \in StoredViews, r \in 0..turns :
       h' = [h EXCEPT ![x] = [at |-> IF desktop THEN "history" ELSE "resume", thread |-> t, route |-> r, err |-> "none", found |-> NoTurn]]
  /\ UNCHANGED <<desktop, cvars, armed, tally, parallel, bvars>>

----------------------------------------------------------------------------
\* maybeSendFeishuInputViaDesktop

\* A call to the desktop failed.  desktopInputShouldFallback and desktopInputShouldWaitForDesktop:
\* a refused or unreachable socket falls back to the app-server, a reachable one does not.
DesktopUnavailable(x) == (Goto(x, "resume") /\ UNCHANGED outcome) \/ Tell(x, "notSent")

LoadHistory(x) ==
  /\ h[x].at = "history"
  /\ \/ Goto(x, "desktopSteer") /\ UNCHANGED <<outcome, fails>>
     \/ Fail /\ DesktopUnavailable(x)
  /\ UNCHANGED <<desktop, alone, claimed, cvars, armed, delivered, lost, parallel, userTurns, losses, crashes>>

\* Any other error of SteerTurn ends the input when the stored row looks active, else a turn is started.
SteerFailed(x) ==
  \/ DesktopUnavailable(x)
  \/ h[x].thread.active /\ Tell(x, "notSent")
  \/ ~h[x].thread.active /\ Goto(x, "desktopStart") /\ UNCHANGED outcome

\* SteerTurn names no turn: the desktop steers the one that is active.
DesktopSteer(x) ==
  /\ h[x].at = "desktopSteer"
  /\ LET t == h[x].thread
         steers == armed # NoTurn \/ h[x].route # NoTurn \/ (t.active /\ t.turn # NoTurn)
     IN \/ ~steers /\ Goto(x, "desktopStart") /\ UNCHANGED <<armed, tally, bvars>>
        \/ /\ steers /\ current # NoTurn   \* accepted
           /\ Deliver(x) /\ armed' = NoTurn
           /\ Goto(x, "accepted") /\ UNCHANGED <<lost, outcome, bvars>>
        \/ /\ steers /\ current # NoTurn /\ Deliver(x) /\ LoseReply(x)
           /\ SteerFailed(x) /\ UNCHANGED <<armed, userTurns, fails, crashes>>
        \/ /\ steers /\ current = NoTurn   \* "no active turn", or success without a turn id
           /\ h' = [h EXCEPT ![x].at = "desktopStart", ![x].thread = NoThread]
           /\ armed' \in {armed, NoTurn} /\ UNCHANGED <<tally, bvars>>
        \/ /\ steers /\ current # NoTurn /\ Tell(x, "notSent")   \* not steerable
           /\ UNCHANGED <<armed, delivered, lost, bvars>>
        \/ /\ steers /\ Fail /\ SteerFailed(x)
           /\ UNCHANGED <<armed, delivered, lost, userTurns, losses, crashes>>
  /\ UNCHANGED <<desktop, alone, claimed, cvars, parallel>>

NewTurn == turns < MaxTurns /\ turns' = turns + 1 /\ current' = turns + 1 /\ parallel' = (parallel \/ current # NoTurn)

\* StartTurn: whatever the thread looks like.
DesktopStart(x) ==
  /\ h[x].at = "desktopStart"
  /\ \/ /\ NewTurn /\ Deliver(x) /\ armed' = NoTurn
        /\ Goto(x, "accepted") /\ UNCHANGED <<lost, outcome, bvars>>
     \/ /\ NewTurn /\ Deliver(x) /\ LoseReply(x) /\ DesktopUnavailable(x)
        /\ UNCHANGED <<armed, userTurns, fails, crashes>>
     \/ /\ Fail /\ (DesktopUnavailable(x) \/ Tell(x, "notSent"))
        /\ UNCHANGED <<cvars, parallel, armed, delivered, lost, userTurns, losses, crashes>>
  /\ UNCHANGED <<desktop, alone, claimed>>

----------------------------------------------------------------------------
\* The cascade of sendInputToThreadTurnFromSource

\* refreshThreadForOperation: a failed refresh is only logged.
Refreshed(x, l) ==
  \/ /\ \E v \in ReadViews : h' = [h EXCEPT ![x].at = l, ![x].thread = v]
     /\ UNCHANGED fails
  \/ Fail /\ Goto(x, l)

\* ThreadResume and the first refresh; no session or a failed resume ends the handler.
Resume(x) ==
  /\ h[x].at = "resume"
  /\ \/ Refreshed(x, "armed") /\ UNCHANGED outcome
     \/ Fail /\ Tell(x, "notSent")
  /\ UNCHANGED <<desktop, alone, claimed, cvars, armed, delivered, lost, parallel, userTurns, losses, crashes>>

\* TurnSteer with the expected turn t.
Steer(x, t, clears) ==
  \/ /\ t = current /\ Deliver(x)                       \* accepted
     /\ armed' = IF clears THEN NoTurn ELSE armed
     /\ Goto(x, AfterAccept(x)) /\ UNCHANGED <<lost, bvars>>
  \/ /\ t = current /\ Deliver(x) /\ LoseReply(x)       \* accepted, the reply times out
     /\ h' = [h EXCEPT ![x].at = NextStage(x), ![x].err = "other"]
     /\ UNCHANGED <<armed, userTurns, fails, crashes>>
  \/ /\ h' = [h EXCEPT ![x].at = NextStage(x),
                        ![x].err = IF current = NoTurn THEN "noActive" ELSE IF current # t THEN "mismatch" ELSE "busy",
                        ![x].found = current]
     /\ UNCHANGED <<armed, delivered, lost, bvars>>
  \/ /\ Fail /\ h' = [h EXCEPT ![x].at = NextStage(x), ![x].err = "other"]
     /\ UNCHANGED <<armed, delivered, lost, userTurns, losses, crashes>>

SteerArmed(x) ==
  /\ h[x].at = "armed"
  /\ IF armed # NoTurn THEN Steer(x, armed, TRUE) ELSE Goto(x, NextStage(x)) /\ UNCHANGED <<armed, delivered, lost, bvars>>
  /\ UNCHANGED <<desktop, alone, claimed, cvars, outcome, parallel>>

\* The turn replied to, else the active turn of the thread.
SteerTurn(x) ==
  /\ h[x].at = "route"
  /\ LET t == h[x].thread
         expected == IF h[x].route # NoTurn THEN h[x].route ELSE IF t.active THEN t.turn ELSE NoTurn
     IN IF expected # NoTurn THEN Steer(x, expected, FALSE)
        ELSE Goto(x, NextStage(x)) /\ UNCHANGED <<armed, delivered, lost, bvars>>
  /\ UNCHANGED <<desktop, alone, claimed, cvars, outcome, parallel>>

\* activeTurnIDFromSteerMismatch: once more, with the turn the error named.
Retarget(x) ==
  /\ h[x].at = "retarget"
  /\ IF h[x].err = "mismatch" THEN Steer(x, h[x].found, FALSE)
     ELSE Goto(x, NextStage(x)) /\ UNCHANGED <<armed, delivered, lost, bvars>>
  /\ UNCHANGED <<desktop, alone, claimed, cvars, outcome, parallel>>

RefreshNoActive(x) ==
  /\ h[x].at = "noActive"
  /\ IF h[x].err = "noActive" THEN Refreshed(x, "decide") ELSE Goto(x, "decide") /\ UNCHANGED fails
  /\ UNCHANGED <<desktop, alone, claimed, cvars, armed, tally, parallel, userTurns, losses, crashes>>

Reject(x) ==
  /\ h[x].at = "decide" /\ Rejects(x)
  /\ Tell(x, "notSent")
  /\ UNCHANGED <<desktop, alone, claimed, cvars, armed, delivered, lost, parallel, bvars>>

TurnStart(x) ==
  /\ h[x].at = "decide" /\ ~Rejects(x)
  /\ \/ NewTurn /\ Deliver(x) /\ armed' = NoTurn /\ Goto(x, "accepted") /\ UNCHANGED <<lost, outcome, bvars>>
     \/ NewTurn /\ Deliver(x) /\ LoseReply(x) /\ Tell(x, "notSent") /\ UNCHANGED <<armed, userTurns, fails, crashes>>
     \/ /\ Fail /\ Tell(x, "notSent")
        /\ UNCHANGED <<cvars, parallel, armed, delivered, lost, userTurns, losses, crashes>>
  /\ UNCHANGED <<desktop, alone, claimed>>

Finish(x) ==
  /\ h[x].at = "accepted" /\ Tell(x, "sent")
  /\ UNCHANGED <<desktop, alone, claimed, cvars, armed, delivered, lost, parallel, bvars>>

----------------------------------------------------------------------------
Step(x) ==
  \/ Receive(x) \/ LoadHistory(x) \/ DesktopSteer(x) \/ DesktopStart(x)
  \/ Resume(x) \/ SteerArmed(x) \/ SteerTurn(x) \/ Retarget(x) \/ RefreshNoActive(x)
  \/ Reject(x) \/ TurnStart(x) \/ Finish(x)
Environment == TurnEnds \/ UserTurn \/ Arm \/ ArmExpires \/ Crash
Next == Environment \/ \E x \in Handlers : Step(x)
Spec == Init /\ [][Next]_vars

TypeOK ==
  /\ claimed \in [Messages -> BOOLEAN]
  /\ h \in [Handlers -> [at : Stages, thread : [active : BOOLEAN, turn : 0..MaxTurns],
                         route : 0..MaxTurns, err : Errors, found : 0..MaxTurns]]
  /\ current \in 0..MaxTurns /\ turns \in 0..MaxTurns /\ armed \in 0..MaxTurns
  /\ delivered \in [Messages -> Nat] /\ lost \in [Messages -> Nat]
  /\ outcome \in [Messages -> {"none", "sent", "notSent"}]
  /\ desktop \in Desktop /\ parallel \in BOOLEAN /\ alone \in BOOLEAN
  /\ userTurns \in 0..MaxUserTurns /\ losses \in 0..MaxLost /\ fails \in 0..MaxFails /\ crashes \in 0..MaxCrashes

\* Codex gets a second copy of a message only after the reply to an accepted
\* copy was lost: neither a redelivered event nor the stages of the cascade,
\* nor the way from the desktop to the app-server, sends it twice.  And the
\* chat is told what happened: after "sent" exactly one accepted copy was
\* acknowledged, after a failure none was.
CopiesAccounted == \A m \in Messages :
  /\ delivered[m] <= 1 + lost[m]
  /\ outcome[m] = "sent" => delivered[m] = 1 + lost[m]
  /\ outcome[m] = "notSent" => delivered[m] = lost[m]

\* The daemon never starts a turn while the thread has an active one
\* ("I did not start a parallel turn", activeThreadReplyText), as long as no
\* call failed and nobody else started one while a message was handled.
NoParallelTurn == alone /\ fails = 0 => ~parallel

\* On the app-server path no stale row, route, armed turn or error of an
\* earlier steer leads to such a turn.
CascadeNeverParallel == ~desktop => NoParallelTurn
=============================================================================
