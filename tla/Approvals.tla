------------------------------- MODULE Approvals -------------------------------
(***************************************************************************)
(* Approval and user-input requests (internal/daemon/service.go): the app- *)
(* server asks over the live session; the event loop of that session saves *)
(* a pending_approvals row and posts one Feishu card; a button of the card *)
(* answers whatever session is live by then; a rebuild marks the rows.     *)
(*                                                                         *)
(* A request is one question of an app-server.  IdOf is the JSON-RPC id it *)
(* carries: the row and the "card sent" key are kept by id, and an id      *)
(* names a request only within one session.  A session is the number of    *)
(* its live client; each has its own channel and event loop.               *)
(***************************************************************************)
EXTENDS Naturals, Sequences

CONSTANTS
  Requests, Ids, IdOf,  \* the questions and their JSON-RPC ids
  Pressers,             \* callback goroutines
  ChannelCap,           \* capacity of a subscriber's channel
  MaxSessions, MaxAsks, MaxCrashes, MaxSendFails  \* bounds

ASSUME RequestsAssumption ==
  /\ IdOf \in [Requests -> Ids]
  /\ ChannelCap \in Nat \ {0} /\ MaxSessions \in Nat \ {0}
  /\ MaxAsks \in Nat /\ MaxCrashes \in Nat /\ MaxSendFails \in Nat

Sessions == 1..MaxSessions
Decisions == {"accept", "decline"}
NoDecision == "none"
Statuses == {"absent", "pending", "needs_recheck", "resolved"}

VARIABLES
  status,     \* id -> status of its pending_approvals row
  decided,    \* id -> the decision the row records ("resolved:<decision>")
  cardKnown,  \* id -> chat_message_id or feishu.approval_card.<id> is set
  cards,      \* request -> cards sent for it
  live, connected,   \* s.live, s.liveConnected
  rebuild,    \* the control loop between the swap and the restart: "no", "mark", "start"
  channel,    \* session -> its event channel
  loop,       \* session -> its event loop: where it is, and in which request
  open,       \* request -> the session whose app-server waits for the answer, 0
  answer,     \* request -> the decision its app-server got
  press,      \* presser -> the callback it handles
  asks, crashes, fails,  \* spent of the bounds
  dropped, unsent  \* history: an event was dropped; the cards that failed

rowVars == <<status, decided, cardKnown>>
sessVars == <<live, connected, rebuild>>
askVars == <<open, answer, asks>>
vars == <<rowVars, sessVars, askVars, cards, channel, loop, press, crashes, fails, dropped, unsent>>

Idle == [at |-> "idle"]
Init ==
  /\ status = [i \in Ids |-> "absent"] /\ decided = [i \in Ids |-> NoDecision]
  /\ cardKnown = [i \in Ids |-> FALSE]
  /\ cards = [r \in Requests |-> 0]
  /\ live = 1 /\ connected = TRUE /\ rebuild = "no"
  /\ channel = [s \in Sessions |-> <<>>]
  /\ loop = [s \in Sessions |-> Idle]
  /\ open = [r \in Requests |-> 0] /\ answer = [r \in Requests |-> NoDecision]
  /\ press = [p \in Pressers |-> Idle]
  /\ asks = 0 /\ crashes = 0 /\ fails = 0
  /\ dropped = FALSE /\ unsent = {}

\* Mutants of the helpers below (see PROJECT.json).
CardSent_KeyIgnored(i) == FALSE
AfterResolved_Kept(i) == status

\* The guards of sendPendingApprovalCard.
CardSent(i) == cardKnown[i]
\* SavePendingApproval: the upsert resets the status, whatever it was.
AfterSave(i) == [status EXCEPT ![i] = "pending"]
\* UpdatePendingApprovalStatus: an UPDATE, nothing without a row.
AfterResolved(i) == IF status[i] = "absent" THEN status ELSE [status EXCEPT ![i] = "resolved"]

\* Client.broadcast: a full channel drops the event.
Broadcast(s, kind, r) ==
  IF Len(channel[s]) < ChannelCap
  THEN channel' = [channel EXCEPT ![s] = Append(@, [kind |-> kind, req |-> r])] /\ UNCHANGED dropped
  ELSE dropped' = TRUE /\ UNCHANGED channel

----------------------------------------------------------------------------
\* The app-server (external)

\* It asks, or repeats what it still waits for, over the session that is live.
Ask(r) ==
  /\ connected /\ answer[r] = NoDecision /\ open[r] \in {0, live}
  /\ \A q \in Requests \ {r} : IdOf[q] = IdOf[r] => open[q] # live
  /\ asks < MaxAsks /\ asks' = asks + 1
  /\ open' = [open EXCEPT ![r] = live]
  /\ Broadcast(live, "ask", r)
  /\ UNCHANGED <<rowVars, sessVars, answer, cards, loop, press, crashes, fails, unsent>>

Settle(r, s, d) ==
  /\ open' = [open EXCEPT ![r] = 0] /\ answer' = [answer EXCEPT ![r] = d]
  /\ Broadcast(s, "resolved", r)

\* The question is answered in Codex itself.
SettledElsewhere(r) ==
  /\ connected /\ open[r] = live
  /\ \E d \in Decisions : Settle(r, live, d)
  /\ UNCHANGED <<rowVars, sessVars, asks, cards, loop, press, crashes, fails, unsent>>

----------------------------------------------------------------------------
\* liveEventLoop and handleLiveEvent

\* A loop whose session was replaced returns without handling what it receives.
Take(s) ==
  /\ loop[s].at = "idle" /\ channel[s] # <<>>
  /\ LET e == Head(channel[s]) IN
     IF s = live /\ connected
     THEN /\ loop' = [loop EXCEPT ![s] = [at |-> IF e.kind = "ask" THEN "save" ELSE "resolve", req |-> e.req]]
          /\ channel' = [channel EXCEPT ![s] = Tail(@)]
     ELSE channel' = [channel EXCEPT ![s] = <<>>] /\ UNCHANGED loop
  /\ UNCHANGED <<rowVars, sessVars, askVars, cards, press, crashes, fails, dropped, unsent>>

Save(s) ==
  /\ loop[s].at = "save"
  /\ LET i == IdOf[loop[s].req] IN
     status' = AfterSave(i) /\ decided' = [decided EXCEPT ![i] = NoDecision]
  /\ loop' = [loop EXCEPT ![s].at = "guard"]
  /\ UNCHANGED <<cardKnown, sessVars, askVars, cards, channel, press, crashes, fails, dropped, unsent>>

\* sendPendingApprovalCard before the send.
Guard(s) ==
  /\ loop[s].at = "guard"
  /\ loop' = [loop EXCEPT ![s] = IF CardSent(IdOf[@.req]) THEN Idle ELSE [@ EXCEPT !.at = "send"]]
  /\ UNCHANGED <<rowVars, sessVars, askVars, cards, channel, press, crashes, fails, dropped, unsent>>

\* The send fails, is delivered and reported as failed (a timeout), or succeeds.
Send(s) ==
  /\ loop[s].at = "send"
  /\ LET r == loop[s].req IN
     \/ /\ cards' = [cards EXCEPT ![r] = @ + 1] /\ loop' = [loop EXCEPT ![s].at = "record"]
        /\ UNCHANGED <<fails, unsent>>
     \/ /\ fails < MaxSendFails /\ fails' = fails + 1
        /\ loop' = [loop EXCEPT ![s] = Idle]
        /\ \/ unsent' = unsent \cup {r} /\ UNCHANGED cards
           \/ cards' = [cards EXCEPT ![r] = @ + 1] /\ UNCHANGED unsent
  /\ UNCHANGED <<rowVars, sessVars, askVars, channel, press, crashes, dropped>>

\* chat_message_id, the state key and the message route.
Record(s) ==
  /\ loop[s].at = "record"
  /\ cardKnown' = [cardKnown EXCEPT ![IdOf[loop[s].req]] = TRUE]
  /\ loop' = [loop EXCEPT ![s] = Idle]
  /\ UNCHANGED <<status, decided, sessVars, askVars, cards, channel, press, crashes, fails, dropped, unsent>>

Resolve(s) ==
  /\ loop[s].at = "resolve"
  /\ LET i == IdOf[loop[s].req] IN
     status' = AfterResolved(i) /\ decided' = [decided EXCEPT ![i] = NoDecision]
  /\ loop' = [loop EXCEPT ![s] = Idle]
  /\ UNCHANGED <<cardKnown, sessVars, askVars, cards, channel, press, crashes, fails, dropped, unsent>>

----------------------------------------------------------------------------
\* approve and respondUserInputRequest, called by a button, a reply or /approve

\* GetPendingApproval: the status of the row is not looked at.
Press(p) ==
  /\ press[p].at = "idle"
  /\ \E r \in Requests, d \in Decisions :
       /\ cards[r] > 0 /\ status[IdOf[r]] # "absent"
       /\ press' = [press EXCEPT ![p] = [at |-> "read", req |-> r, dec |-> d]]
  /\ UNCHANGED <<rowVars, sessVars, askVars, cards, channel, loop, crashes, fails, dropped, unsent>>

\* The session is read under s.mu and used after it.
TakeSession(p) ==
  /\ press[p].at = "read"
  /\ press' = [press EXCEPT ![p] =
       IF connected THEN [at |-> "respond", req |-> @.req, dec |-> @.dec, sess |-> live] ELSE Idle]
  /\ UNCHANGED <<rowVars, sessVars, askVars, cards, channel, loop, crashes, fails, dropped, unsent>>

\* RespondServerRequest: an error on a closed client; otherwise the app-server
\* matches the id with what it waits for and ignores an answer it does not expect.
Respond(p) ==
  /\ press[p].at = "respond"
  /\ LET s == press[p].sess
         asked == {r \in Requests : open[r] = s /\ IdOf[r] = IdOf[press[p].req]}
     IN IF s # live
        THEN /\ press' = [press EXCEPT ![p] = Idle]
             /\ UNCHANGED <<open, answer, channel, dropped>>
        ELSE /\ press' = [press EXCEPT ![p] = [at |-> "update", req |-> @.req, dec |-> @.dec]]
             /\ \/ \E r \in asked : Settle(r, s, press[p].dec)
                \/ asked = {} /\ UNCHANGED <<open, answer, channel, dropped>>
  /\ UNCHANGED <<rowVars, sessVars, asks, cards, loop, crashes, fails, unsent>>

\* UpdatePendingApprovalStatus "resolved:<decision>" and the answer "Approval ... resolved."
Update(p) ==
  /\ press[p].at = "update"
  /\ LET i == IdOf[press[p].req] IN
     status' = AfterResolved(i) /\ decided' = [decided EXCEPT ![i] = press[p].dec]
  /\ press' = [press EXCEPT ![p] = Idle]
  /\ UNCHANGED <<cardKnown, sessVars, askVars, cards, channel, loop, crashes, fails, dropped, unsent>>

----------------------------------------------------------------------------
\* Sessions come and go (see Sessions)

\* What the app-server of the old session waited for is not waited for any more.
NextSession ==
  /\ live < MaxSessions /\ live' = live + 1
  /\ open' = [r \in Requests |-> 0]
  /\ connected' = FALSE

\* rebuildAppServerSessions marks the rows; the proxy fallback does not.
Replace ==
  /\ rebuild = "no" /\ connected
  /\ NextSession
  /\ rebuild' \in {"mark", "start"}
  /\ UNCHANGED <<rowVars, answer, asks, cards, channel, loop, press, crashes, fails, dropped, unsent>>

MarkAllPendingApprovals ==
  /\ rebuild = "mark" /\ rebuild' = "start"
  /\ status' = [i \in Ids |-> IF status[i] = "pending" THEN "needs_recheck" ELSE status[i]]
  /\ UNCHANGED <<decided, cardKnown, live, connected, askVars, cards, channel, loop, press, crashes, fails, dropped, unsent>>

Restarted ==
  /\ rebuild = "start" /\ rebuild' = "no" /\ connected' = TRUE
  /\ UNCHANGED <<rowVars, live, askVars, cards, channel, loop, press, crashes, fails, dropped, unsent>>

\* The daemon dies, or Close cancels the context of the store writes that follow; Start marks nothing.
Crash ==
  /\ crashes < MaxCrashes /\ crashes' = crashes + 1
  /\ NextSession /\ rebuild' = "start"
  /\ channel' = [s \in Sessions |-> <<>>]
  /\ loop' = [s \in Sessions |-> Idle] /\ press' = [p \in Pressers |-> Idle]
  /\ UNCHANGED <<rowVars, answer, asks, cards, fails, dropped, unsent>>

LoopStep(s) == Take(s) \/ Save(s) \/ Guard(s) \/ Send(s) \/ Record(s) \/ Resolve(s)
PressStep(p) == Press(p) \/ TakeSession(p) \/ Respond(p) \/ Update(p)
Next ==
  \/ \E r \in Requests : Ask(r) \/ SettledElsewhere(r)
  \/ \E s \in Sessions : LoopStep(s)
  \/ \E p \in Pressers : PressStep(p)
  \/ Replace \/ MarkAllPendingApprovals \/ Restarted \/ Crash

Spec == Init /\ [][Next]_vars

----------------------------------------------------------------------------
\* Properties

LoopPlaces == {"save", "guard", "send", "record", "resolve"}
TypeOK ==
  /\ status \in [Ids -> Statuses]
  /\ decided \in [Ids -> Decisions \cup {NoDecision}]
  /\ cardKnown \in [Ids -> BOOLEAN] /\ cards \in [Requests -> Nat]
  /\ live \in Sessions /\ connected \in BOOLEAN /\ rebuild \in {"no", "mark", "start"}
  /\ channel \in [Sessions -> Seq([kind : {"ask", "resolved"}, req : Requests])]
  /\ loop \in [Sessions -> {Idle} \cup [at : LoopPlaces, req : Requests]]
  /\ open \in [Requests -> Sessions \cup {0}]
  /\ answer \in [Requests -> Decisions \cup {NoDecision}]
  /\ press \in [Pressers ->
       {Idle} \cup [at : {"read", "update"}, req : Requests, dec : Decisions]
              \cup [at : {"respond"}, req : Requests, dec : Decisions, sess : Sessions]]
  /\ asks \in Nat /\ crashes \in Nat /\ fails \in Nat
  /\ dropped \in BOOLEAN /\ unsent \subseteq Requests

Quiet ==
  /\ \A s \in Sessions : channel[s] = <<>> /\ loop[s] = Idle
  /\ \A p \in Pressers : press[p] = Idle
  /\ rebuild = "no"

(***************************************************************************)
(* "One card per approval request, even if the app-server repeats the      *)
(* event" (comment of sendPendingApprovalCard): a further card takes a     *)
(* session that ended before the card was recorded, or a send that was     *)
(* delivered and reported as failed.                                       *)
(***************************************************************************)
OneCardPerRequest == \A r \in Requests : cards[r] <= live + fails

(***************************************************************************)
(* A question an app-server waits on has been shown: a card was sent for   *)
(* it once its event is through, unless the event was dropped or the send  *)
(* failed, across crashes, rebuilds and repeated questions.                *)
(***************************************************************************)
AskedIsShown ==
  Quiet /\ ~dropped => \A r \in Requests : open[r] # 0 => cards[r] > 0 \/ r \in unsent

(***************************************************************************)
(* A request is shown, and shown once (sendPendingApprovalCard).           *)
(***************************************************************************)
ShownOnce == OneCardPerRequest /\ AskedIsShown

(***************************************************************************)
(* Once every event and press is through, a row that still offers its      *)
(* buttons ("pending") is a question some app-server still waits on: no    *)
(* order of repeated events, resolutions and presses revives an answered   *)
(* one.  (An event dropped by a full channel, or a session that is gone,   *)
(* excuses it.)                                                            *)
(***************************************************************************)
PendingIsOpen ==
  Quiet /\ ~dropped /\ live = 1 =>
    \A i \in Ids : status[i] = "pending" => \E r \in Requests : IdOf[r] = i /\ open[r] = live
=============================================================================
