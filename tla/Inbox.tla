--------------------------------- MODULE Inbox ---------------------------------
(***************************************************************************)
(* Where a message of the chat goes: handleMessageEvent and its helpers in *)
(* internal/feishu/bot.go, HandleMessageFromSource, the commands and       *)
(* resolveRouteFromSource in internal/daemon/service.go, the tables        *)
(* external_id_maps, feishu_message_maps and message_routes in             *)
(* internal/storage/store.go.                                              *)
(*                                                                         *)
(* Feishu delivers each event to a goroutine, again when it likes; another *)
(* goroutine posts each card and records it only after Feishu shows it, so *)
(* an answer to a card may overtake the card's own rows.  Both turn the    *)
(* name Feishu gives a message into a number and race for it.  One chat;   *)
(* the topics of its threads are made before (see Topics), no new chat     *)
(* waits for a prompt (see NewThreads), what the input does is TurnInput.  *)
(***************************************************************************)
EXTENDS Naturals, Sequences

CONSTANTS
  Owners,         \* the Codex threads with cards in the chat
  Root,           \* thread -> the root message of its topic
  Posts, Mails,   \* the cards the daemon posts, the messages the user writes
  Subject,        \* card -> the thread it is posted for
  Deliverers,     \* goroutines that handle a delivery
  Hash,           \* message -> the numbers stableExternalNumericID gives it, by attempt
  MaxDeliveries, MaxMishaps \* bounds: deliveries; crashes and failed calls together

RootIds == {Root[t] : t \in Owners}
Names == RootIds \cup Posts \cup Mails
Numbers == UNION {{Hash[i][k] : k \in DOMAIN Hash[i]} : i \in Names}

ASSUME InboxAssumption ==
  /\ Subject \in [Posts -> Owners] /\ MaxDeliveries \in Nat /\ MaxMishaps \in Nat
  /\ RootIds \cap Posts = {} /\ RootIds \cap Mails = {} /\ Posts \cap Mails = {}
  /\ \A s \in Owners, t \in Owners : Root[s] = Root[t] => s = t
  /\ Posts \cap Deliverers = {}
  /\ \A i \in Names : Hash[i] \in Seq(Nat \ {0})
  \* The 1024 attempts do not run out: one of them is a number no other message wants.
  /\ \A i \in Names : \E k \in DOMAIN Hash[i] :
       \A j \in Names \ {i} : \A l \in DOMAIN Hash[j] : Hash[j][l] # Hash[i][k]
  /\ \A i \in RootIds, j \in RootIds : i # j => Hash[i][1] # Hash[j][1]

NoNumber == 0
Nobody == "none"    \* no thread, no message
ASSUME NobodyAssumption == Nobody \notin Names \cup Owners
\* Plain text; /plan and its like; a command whose first word names a thread; any other command with a space.
MailKinds == {"text", "input", "explicit", "slash"}

VARIABLES
  group,    \* a group chat
  topical,  \* threads that have a topic
  post,     \* card -> [thread, asks]: posted for the thread, asks for an answer; or Unposted
  mail,     \* mail -> [kind, head, to, root, told]: as Feishu delivers it; or Unwritten
  number,   \* external_id_maps: message -> its number
  owner,    \* feishu_message_maps: number -> message
  routes,   \* message_routes: number -> [thread, asks]
  panel,    \* thread of the latest current panel of the chat
  claims,  \* feishu.inbound.<id>: mails
  job,      \* goroutine -> [at, mail, name, try, got]
  acted,    \* mail -> what was done with it, one entry for every time
  inboxSpent \* bounds: deliveries, mishaps
inboxVars == <<group, topical, post, mail, number, owner, routes, panel, claims, job, acted, inboxSpent>>

Unposted == [thread |-> Nobody, asks |-> FALSE]
Unwritten == [kind |-> "none", head |-> Nobody, to |-> Nobody, root |-> Nobody, told |-> FALSE]
Resting == [at |-> "idle", mail |-> Nobody, name |-> Nobody, try |-> 1, got |-> NoNumber]
NoRoute == Unposted
Workers == Posts \cup Deliverers

Rooted == {Root[t] : t \in topical}
RootedAs(i) == CHOOSE t \in topical : Root[t] = i
InboxInit ==
  /\ group \in BOOLEAN /\ topical \in SUBSET Owners /\ panel \in Owners \cup {Nobody} /\ claims = {}
  /\ post = [c \in Posts |-> Unposted] /\ mail = [m \in Mails |-> Unwritten]
  /\ number = [i \in Names |-> IF i \in Rooted THEN Hash[i][1] ELSE NoNumber]
  /\ owner = [n \in Numbers |-> IF \E i \in Rooted : number[i] = n THEN CHOOSE i \in Rooted : number[i] = n ELSE Nobody]
  /\ routes = [n \in Numbers |-> IF owner[n] # Nobody THEN [thread |-> RootedAs(owner[n]), asks |-> FALSE] ELSE NoRoute]
  /\ job = [w \in Workers |-> Resting] /\ acted = [m \in Mails |-> <<>>]
  /\ inboxSpent = [deliveries |-> 0, mishaps |-> 0]

(***************************************************************************)
(* Mutants (see PROJECT.json).                                             *)
(***************************************************************************)
Taken_AnyOwner(i, n) == \E j \in Names : number[j] = n
PanelFor_AnyTopic(x) == panel
AfterFailure_Released(x) == claims \ {job[x].mail}

(***************************************************************************)
(* The chat.                                                               *)
(***************************************************************************)
Shown == Rooted \cup {c \in Posts : post[c] # Unposted} \cup {m \in Mails : mail[m] # Unwritten}
\* The message a conversation hangs on: the root of the topic, or the first one replied to.
RootOf(i) ==
  IF i \in Posts /\ post[i].thread \in topical THEN Root[post[i].thread]
  ELSE IF i \in Mails /\ mail[i].root # Nobody THEN mail[i].root ELSE i
\* The thread a conversation is about.
About(i) ==
  IF RootOf(i) \in Rooted THEN RootedAs(RootOf(i))
  ELSE IF RootOf(i) \in Posts THEN post[RootOf(i)].thread ELSE Nobody
Recorded(c) == number[c] # NoNumber /\ routes[number[c]] = post[c]

\* The user writes, on their own or in answer to a message that is shown.
Write(m) ==
  /\ mail[m] = Unwritten
  /\ \E k \in MailKinds, i \in Shown \cup {Nobody}, t \in Owners \cup {Nobody} :
       /\ (k = "explicit") <=> (t # Nobody)
       /\ mail' = [mail EXCEPT ![m] = [kind |-> k, head |-> t, to |-> i, root |-> IF i = Nobody THEN i ELSE RootOf(i),
                                       told |-> i \in Posts /\ Recorded(i)]]
  /\ UNCHANGED <<group, topical, post, number, owner, routes, panel, claims, job, acted, inboxSpent>>

(***************************************************************************)
(* ResolveExternalID: look for the row, insert it under the number of the  *)
(* next attempt.  A number is taken for good, so an attempt that fails     *)
(* fails for every goroutine.                                              *)
(***************************************************************************)
At(w, place) == job[w].at = place
Go(w, place) == job' = [job EXCEPT ![w].at = place]
Quit(w) == job' = [job EXCEPT ![w] = Resting]
\* What a goroutine does with the number: a message is mapped, one that is only answered is not.
Known(w, n) ==
  job' = [job EXCEPT ![w].got = n,
                     ![w].at = IF job[w].mail # Nobody /\ job[w].name # job[w].mail THEN "claim" ELSE "map"]
LookUp(w) ==
  /\ At(w, "look")
  /\ IF number[job[w].name] # NoNumber THEN Known(w, number[job[w].name])
     ELSE Go(w, "insert")
  /\ UNCHANGED <<group, topical, post, mail, number, owner, routes, panel, claims, acted, inboxSpent>>
\* The insert failed on a number that is the message's own by now.
Taken(i, n) == number[i] = n
Insert(w) ==
  /\ At(w, "insert")
  /\ LET i == job[w].name  n == Hash[i][job[w].try] IN
     \/ /\ number[i] = NoNumber /\ \A j \in Names : number[j] # n
        /\ number' = [number EXCEPT ![i] = n] /\ Known(w, n)
     \/ Taken(i, n) /\ Known(w, n) /\ UNCHANGED number
     \/ /\ ~Taken(i, n) /\ \E j \in Names \ {i} : number[j] = n
        /\ job' = [job EXCEPT ![w].try = @ + 1] /\ UNCHANGED number
  /\ UNCHANGED <<group, topical, post, mail, owner, routes, panel, claims, acted, inboxSpent>>

(***************************************************************************)
(* The daemon posts a card, then records it (sendWithOptions,              *)
(* ensureCurrentPanel, sendPlanPromptNotice).                              *)
(***************************************************************************)
Mishap == inboxSpent.mishaps < MaxMishaps /\ inboxSpent' = [inboxSpent EXCEPT !.mishaps = @ + 1]
\* The answer of Feishu may be lost: a card that nobody records.
Post(c) ==
  /\ post[c] = Unposted
  /\ \E a \in BOOLEAN : post' = [post EXCEPT ![c] = [thread |-> Subject[c], asks |-> a]]
  /\ \/ job' = [job EXCEPT ![c] = [Resting EXCEPT !.at = "look", !.name = c]] /\ UNCHANGED inboxSpent
     \/ Mishap /\ UNCHANGED job
  /\ UNCHANGED <<group, topical, mail, number, owner, routes, panel, claims, acted>>
\* PutFeishuMessageMap
Map(w) ==
  /\ At(w, "map") /\ owner' = [owner EXCEPT ![job[w].got] = job[w].name]
  /\ \/ w \in Posts /\ Go(w, IF post[w].asks THEN "route" ELSE "panel")
     \/ w \in Deliverers /\ job[w].mail # Nobody /\ Go(w, "reply")
     \/ w \in Deliverers /\ job[w].mail = Nobody /\ Quit(w)   \* what the button does is no part of this
  /\ UNCHANGED <<group, topical, post, mail, number, routes, panel, claims, acted, inboxSpent>>
StorePanel(c) ==
  /\ At(c, "panel") /\ panel' = post[c].thread /\ Go(c, "route")
  /\ UNCHANGED <<group, topical, post, mail, number, owner, routes, claims, acted, inboxSpent>>
\* PutMessageRoute
StoreRoute(c) ==
  /\ At(c, "route") /\ Quit(c)
  /\ routes' = [routes EXCEPT ![job[c].got] = post[c]]
  /\ UNCHANGED <<group, topical, post, mail, number, owner, panel, claims, acted, inboxSpent>>

(***************************************************************************)
(* handleCardAction: a press of a button, whose card may not be recorded.  *)
(***************************************************************************)
Delivery == inboxSpent.deliveries < MaxDeliveries /\ inboxSpent' = [inboxSpent EXCEPT !.deliveries = @ + 1]
Press(x) ==
  /\ At(x, "idle") /\ Delivery
  /\ \E c \in Posts : post[c] # Unposted /\ job' = [job EXCEPT ![x] = [Resting EXCEPT !.at = "look", !.name = c]]
  /\ UNCHANGED <<group, topical, post, mail, number, owner, routes, panel, claims, acted>>

(***************************************************************************)
(* handleMessageEvent.                                                     *)
(***************************************************************************)
HandleEvent(x) ==
  /\ At(x, "idle") /\ Delivery
  /\ \E m \in Mails : mail[m] # Unwritten /\ job' = [job EXCEPT ![x] = [Resting EXCEPT !.at = "look", !.mail = m, !.name = m]]
  /\ UNCHANGED <<group, topical, post, mail, number, owner, routes, panel, claims, acted>>
\* replyToMessageID: the root of the topic, else the message answered, which may have no number yet.
ReplyRow(m) == IF mail[m].root \in Rooted THEN mail[m].root ELSE mail[m].to
Reply(x) ==
  /\ At(x, "reply")
  /\ LET i == ReplyRow(job[x].mail) IN
     \/ i = Nobody /\ job' = [job EXCEPT ![x].got = NoNumber, ![x].at = "claim"]
     \/ /\ i # Nobody /\ \E n \in Numbers : owner[n] = i
        /\ job' = [job EXCEPT ![x].got = CHOOSE n \in Numbers : owner[n] = i, ![x].at = "claim"]
     \/ /\ i # Nobody /\ \A n \in Numbers : owner[n] # i
        /\ job' = [job EXCEPT ![x].name = i, ![x].try = 1, ![x].at = "look"]
  /\ UNCHANGED <<group, topical, post, mail, number, owner, routes, panel, claims, acted, inboxSpent>>
\* SetStateIfAbsent; in a group the bot only answers commands and replies.
Claim(x) ==
  /\ At(x, "claim")
  /\ LET m == job[x].mail IN
     /\ claims' = claims \cup {m}
     /\ IF m \in claims \/ (group /\ job[x].got = NoNumber /\ mail[m].kind = "text") THEN Quit(x) ELSE Go(x, "act")
  /\ UNCHANGED <<group, topical, post, mail, number, owner, routes, panel, acted, inboxSpent>>

(***************************************************************************)
(* HandleMessageFromSource.  The message replied to is the topic too, and  *)
(* panels are kept under no topic.                                         *)
(***************************************************************************)
\* latestCurrentPanelFromSource
PanelFor(x) == IF job[x].got = NoNumber THEN panel ELSE Nobody
\* resolveRouteFromSource without a thread of its own.
Decision(x) ==
  IF job[x].got # NoNumber /\ routes[job[x].got] # NoRoute THEN routes[job[x].got]
  ELSE [thread |-> PanelFor(x), asks |-> FALSE]
\* shouldTreatSlashTextAsThreadInput; handlePlainText answers a request, a command does not.
IsText(x) ==
  \/ mail[job[x].mail].kind = "text"
  \/ mail[job[x].mail].kind = "slash" /\ job[x].got # NoNumber /\ Decision(x).thread # Nobody
Outcome(x) ==
  LET m == mail[job[x].mail]  d == Decision(x) IN
  IF m.kind = "explicit" THEN [at |-> "input", thread |-> m.head]
  ELSE IF m.kind = "slash" /\ ~IsText(x) THEN [at |-> "command", thread |-> Nobody]
  ELSE [at |-> IF d.thread = Nobody THEN "hint" ELSE IF IsText(x) /\ d.asks THEN "answer" ELSE "input", thread |-> d.thread]
Done(x) == acted' = [acted EXCEPT ![job[x].mail] = Append(@, Outcome(x))]
\* "Keep the claim on failure": it may have failed before or after it acted.
AfterFailure(x) == claims
Act(x) ==
  /\ At(x, "act") /\ Quit(x)
  /\ \/ Done(x) /\ UNCHANGED <<claims, inboxSpent>>
     \/ Mishap /\ claims' = AfterFailure(x) /\ (Done(x) \/ UNCHANGED acted)
  /\ UNCHANGED <<group, topical, post, mail, number, owner, routes, panel>>

\* The daemon dies and starts again.
Restart ==
  /\ Mishap /\ \E w \in Workers : job[w] # Resting
  /\ job' = [w \in Workers |-> Resting]
  /\ UNCHANGED <<group, topical, post, mail, number, owner, routes, panel, claims, acted>>

InboxNext ==
  \/ \E m \in Mails : Write(m)
  \/ \E w \in Workers : LookUp(w) \/ Insert(w) \/ Map(w)
  \/ \E c \in Posts : Post(c) \/ StorePanel(c) \/ StoreRoute(c)
  \/ \E x \in Deliverers : Press(x) \/ HandleEvent(x) \/ Reply(x) \/ Claim(x) \/ Act(x)
  \/ Restart
InboxSpec == InboxInit /\ [][InboxNext]_inboxVars

(***************************************************************************)
(* Properties.                                                             *)
(***************************************************************************)
Places == {"idle", "look", "insert", "map", "panel", "route", "reply", "claim", "act"}
JobStates == [at : Places, mail : Mails \cup {Nobody}, name : Names \cup {Nobody}, try : Nat, got : Numbers \cup {NoNumber}]
Routes == [thread : Owners \cup {Nobody}, asks : BOOLEAN]
Outcomes == [at : {"input", "answer", "command", "hint"}, thread : Owners \cup {Nobody}]
MailStates == [kind : MailKinds \cup {"none"}, head : Owners \cup {Nobody}, to : Names \cup {Nobody},
               root : Names \cup {Nobody}, told : BOOLEAN]
InboxTypes ==
  /\ group \in BOOLEAN /\ topical \subseteq Owners /\ panel \in Owners \cup {Nobody} /\ claims \subseteq Mails
  /\ post \in [Posts -> Routes] /\ mail \in [Mails -> MailStates]
  /\ number \in [Names -> Numbers \cup {NoNumber}] /\ owner \in [Numbers -> Names \cup {Nobody}]
  /\ routes \in [Numbers -> Routes] /\ job \in [Workers -> JobStates] /\ acted \in [Mails -> Seq(Outcomes)]
  /\ inboxSpent \in [deliveries : 0..MaxDeliveries, mishaps : 0..MaxMishaps]
\* Every variable has its type, and an insert has a number to try.
InboxTypeOK ==
  InboxTypes /\ \A w \in Workers : At(w, "insert") => job[w].try \in DOMAIN Hash[job[w].name]

\* A number stands for one message for everybody: what a goroutine got for it, also while another
\* goroutine inserted it first or a third message wanted the same number, is what the tables say.
NumberIsOne ==
  /\ \A n \in Numbers : owner[n] # Nobody => number[owner[n]] = n
  /\ \A w \in Workers : At(w, "map") => number[job[w].name] = job[w].got

\* However often Feishu delivers a message, across failures ("Keep the claim on failure", handleMessageEvent)
\* and restarts, it is acted upon at most once.
HandledOnce == \A m \in Mails : Len(acted[m]) <= 1

\* What answers a message of one thread never becomes the input of another, not even when the answer
\* overtakes the rows of the card and another thread has the latest panel: it goes there or nowhere.
ReplyStays ==
  \A m \in Mails : mail[m].to # Nobody /\ mail[m].kind # "explicit" =>
    \A k \in DOMAIN acted[m] : acted[m][k].thread \in {About(mail[m].to), Nobody}

\* What is written in a topic reaches its thread, whichever message of the topic it answers, recorded or not.
TopicReaches ==
  \A m \in Mails : mail[m].root \in Rooted /\ mail[m].kind # "explicit" =>
    \A k \in DOMAIN acted[m] : acted[m][k].thread = RootedAs(mail[m].root)

\* Outside a topic, text written in answer to a card that asks, after its route was stored, answers the
\* request ("Replying to the card ... routes the answer back", docs/wiki/Plan-Mode.md:14). In a topic it
\* does not: replyToMessageID takes the root for the card, and the text becomes input of the thread.
AnswerReaches ==
  \A m \in Mails : mail[m].told /\ mail[m].kind = "text" /\ post[mail[m].to].asks /\ mail[m].root \notin Rooted =>
    \A k \in DOMAIN acted[m] : acted[m][k].at = "answer"

\* A message gets to the thread and the request it is about.
ReachesItsThread == ReplyStays /\ TopicReaches /\ AnswerReaches
=============================================================================
