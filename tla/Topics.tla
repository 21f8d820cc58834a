-------------------------------- MODULE Topics --------------------------------
(***************************************************************************)
(* The Feishu topic of a Codex thread (EnsureThreadTopic and its helpers   *)
(* in internal/feishu/bot.go, ensureThreadTopic and the history replay in  *)
(* internal/daemon/panels.go, openThreadTopic in projects.go, the tables   *)
(* feishu_thread_topics, feishu_message_maps, message_routes and           *)
(* daemon_state in internal/storage/store.go).                             *)
(*                                                                         *)
(* A visit is one handler that needs the topic: a button opens it under    *)
(* topicMu and then syncs its panel under panelMu; /show and the syncs of  *)
(* the loops hold panelMu alone.  A root message is the number Feishu's    *)
(* chats gave it, a topic is known by its root.                            *)
(***************************************************************************)
EXTENDS Naturals, Sequences, FiniteSets

CONSTANTS
  Chats, Threads,
  Visitors,            \* the goroutines that visit
  MaxRoots,            \* bound: root messages
  MaxEvents, MaxFaults \* bounds: visits, lost calls to Feishu and restarts; the last two

None == 0

ASSUME TopicsAssumption ==
  /\ MaxRoots \in Nat /\ MaxEvents \in Nat /\ MaxFaults \in Nat
  /\ None \notin Chats

Roots == 1..MaxRoots
\* A button opens; /show; a sync of a turn that came from the chat, and of any other.
Kinds == {"open", "show", "sync", "follow"}

VARIABLES
  roots,     \* the root messages, in the order they were sent: [chat, thread, under]
  row,       \* feishu_thread_topics: Chats \X Threads -> root
  newest,    \* Threads -> the chat of the row updated last
  routed,    \* message_routes: root -> the scopes its route is stored in, "chat" or "topic"
  activated, \* feishu.topic_activated keys: set of <<chat, thread>>
  replayed,  \* feishu.topic_history keys: set of roots
  copies,    \* root -> times its history was sent, in whole or in part
  notices,   \* <<chat, thread>> -> "topic opened" messages of syncs, which nobody asked for
  cards,     \* roots that got a panel card
  visit,     \* Visitors -> [at, kind, chat, thread, root, asReply, silent]
  spent      \* bounds: visits, losses, stops
tables == <<row, newest, routed, activated, replayed>>
topicVars == <<roots, tables, copies, notices, cards, visit, spent>>

Resting == [at |-> "idle", kind |-> "sync", chat |-> None, thread |-> None, root |-> None,
            asReply |-> FALSE, silent |-> FALSE]
TopicsInit ==
  /\ roots = <<>> /\ row = [k \in Chats \X Threads |-> None] /\ newest = [t \in Threads |-> None]
  /\ routed = [r \in Roots |-> {}] /\ activated = {} /\ replayed = {}
  /\ copies = [r \in Roots |-> 0] /\ notices = [k \in Chats \X Threads |-> 0] /\ cards = {}
  /\ visit = [v \in Visitors |-> Resting] /\ spent = [visits |-> 0, losses |-> 0, stops |-> 0]

(***************************************************************************)
(* Mutants (see PROJECT.json).                                             *)
(***************************************************************************)
Known_None(c, t) == row[<<c, t>>]

(***************************************************************************)
(* The tables.                                                             *)
(***************************************************************************)
\* EnsureThreadTopic: the row of this chat, else that of the chat updated last.
Known(c, t) ==
  IF row[<<c, t>>] # None THEN row[<<c, t>>]
  ELSE IF newest[t] # None THEN row[<<newest[t], t>>] ELSE None
\* UpsertFeishuThreadTopic
Put(c, t, r) == row' = [row EXCEPT ![<<c, t>>] = r] /\ newest' = [newest EXCEPT ![t] = c]
\* sendWithOptions: a reply to a root stores the topic again, with that root.
Reply(c, t, r) == Put(c, t, r)

(***************************************************************************)
(* Visits.                                                                 *)
(***************************************************************************)
At(v, places) == visit[v].at \in places
Go(v, place) == visit' = [visit EXCEPT ![v].at = place]
Leave(v) == visit' = [visit EXCEPT ![v] = Resting]
Forced(v) == visit[v].kind \in {"open", "show"}
Spent == spent.visits + spent.losses + spent.stops
Fault == spent.losses + spent.stops < MaxFaults /\ Spent < MaxEvents
Loss == Fault /\ spent' = [spent EXCEPT !.losses = @ + 1]
\* An open holds topicMu until its root is routed, every other step of a visit panelMu.
Mutex(v) == IF visit[v].kind = "open" THEN "topicMu" ELSE "panelMu"
Locked(v, mutex) == ~At(v, {"idle", "want"}) /\ mutex = Mutex(v)
Free(mutex) == \A v \in Visitors : ~Locked(v, mutex)

\* /show may be written as a reply to a message of no thread, which then is its topic.
Visit(v) ==
  /\ At(v, {"idle"}) /\ Spent < MaxEvents /\ spent' = [spent EXCEPT !.visits = @ + 1]
  /\ \E k \in Kinds, c \in Chats, t \in Threads, reply \in BOOLEAN :
       /\ reply => k = "show"
       /\ visit' = [visit EXCEPT ![v] = [at |-> "want", kind |-> k, chat |-> c, thread |-> t, root |-> None,
                                         asReply |-> reply, silent |-> FALSE]]
  /\ UNCHANGED <<roots, tables, copies, notices, cards>>
Begin(v) ==
  /\ At(v, {"want"})
  /\ Free(Mutex(v))
  /\ Go(v, "look") /\ UNCHANGED <<roots, tables, copies, notices, cards, spent>>
\* A root found in another chat takes the visit there.
TopicChat(c, r) == roots[r].chat
\* threadTopicActivationAllowed: a sync of another turn only uses the topic there is.
Look(v) ==
  /\ At(v, {"look"})
  /\ LET r == Known(visit[v].chat, visit[v].thread) IN
     \/ /\ r # None
        /\ visit' = [visit EXCEPT ![v].at = "tell", ![v].root = r, ![v].chat = TopicChat(@, r),
                                  ![v].asReply = @ /\ TopicChat(visit[v].chat, r) = visit[v].chat]
     \/ r = None /\ visit[v].kind # "follow" /\ Go(v, "send")
     \/ r = None /\ visit[v].kind = "follow" /\ Leave(v)
  /\ UNCHANGED <<roots, tables, copies, notices, cards, spent>>
\* createThreadTopicRoot; a lost answer leaves a root nobody knows.
WithRoot(v) == Append(roots, [chat |-> visit[v].chat, thread |-> visit[v].thread, under |-> Mutex(v)])
SendRoot(v) ==
  /\ At(v, {"send"}) /\ Len(roots) < MaxRoots
  /\ \/ /\ roots' = WithRoot(v)
        /\ visit' = [visit EXCEPT ![v].at = "store", ![v].root = Len(roots)']
        /\ UNCHANGED spent
     \/ Loss /\ Leave(v) /\ roots' \in {roots, WithRoot(v)}
  /\ UNCHANGED <<tables, copies, notices, cards>>
StoreRoot(v) ==
  /\ At(v, {"store"}) /\ Go(v, "tell")
  /\ Put(visit[v].chat, visit[v].thread, visit[v].root)
  /\ UNCHANGED <<roots, routed, activated, replayed, copies, notices, cards, spent>>
\* activateThreadTopic: the message that brings the topic up in the chat.
Activates(v) ==
  /\ ~visit[v].silent /\ visit[v].kind # "follow"
  /\ Forced(v) \/ <<visit[v].chat, visit[v].thread>> \notin activated
Tell(v) ==
  /\ At(v, {"tell"})
  /\ IF Activates(v)
     THEN \/ /\ Reply(visit[v].chat, visit[v].thread, visit[v].root) /\ Go(v, "mark")
             /\ notices' = [notices EXCEPT ![<<visit[v].chat, visit[v].thread>>] = IF Forced(v) THEN @ ELSE @ + 1]
             /\ UNCHANGED spent
          \/ /\ Loss /\ Leave(v) /\ UNCHANGED <<row, newest>>   \* sent or not
             /\ notices' = [notices EXCEPT ![<<visit[v].chat, visit[v].thread>>] = IF Forced(v) THEN @ ELSE @ + 1]
     ELSE Go(v, "reload") /\ UNCHANGED <<row, newest, notices, spent>>
  /\ UNCHANGED <<roots, routed, activated, replayed, copies, cards>>
Mark(v) ==
  /\ At(v, {"mark"}) /\ Go(v, "reload")
  /\ activated' = activated \cup {<<visit[v].chat, visit[v].thread>>}
  /\ UNCHANGED <<roots, row, newest, routed, replayed, copies, notices, cards, spent>>
\* EnsureThreadTopic returns what the table holds by then.
Reload(v) ==
  /\ At(v, {"reload"})
  /\ visit' = [visit EXCEPT ![v].at = "route", ![v].root = row[<<visit[v].chat, visit[v].thread>>]]
  /\ UNCHANGED <<roots, tables, copies, notices, cards, spent>>
\* ensureThreadTopic: the route is kept for the topic the visit came from, in another chat for none.
RouteScopes(v) == {IF visit[v].asReply THEN "topic" ELSE "chat"}
\* An open goes on as a silent forced sync.
Route(v) ==
  /\ At(v, {"route"})
  /\ routed' = [routed EXCEPT ![visit[v].root] = @ \cup RouteScopes(v)]
  /\ visit' = [visit EXCEPT ![v] = IF visit[v].kind = "open"
                                   THEN [@ EXCEPT !.at = "want", !.kind = "show", !.silent = TRUE]
                                   ELSE [@ EXCEPT !.at = "history"]]
  /\ UNCHANGED <<roots, row, newest, activated, replayed, copies, notices, cards, spent>>
\* backfillRecentThreadTopicTurns, in a topic that was asked for.
Replays(v) == Forced(v) /\ visit[v].root \notin replayed
History(v) ==
  /\ At(v, {"history"})
  /\ IF Replays(v)
     THEN /\ copies' = [copies EXCEPT ![visit[v].root] = @ + 1]
          /\ Reply(visit[v].chat, visit[v].thread, visit[v].root)
          /\ \/ Go(v, "replayed") /\ UNCHANGED spent
             \/ Loss /\ Leave(v)
     ELSE Go(v, "card") /\ UNCHANGED <<copies, row, newest, spent>>
  /\ UNCHANGED <<roots, routed, activated, replayed, notices, cards>>
MarkReplayed(v) ==
  /\ At(v, {"replayed"}) /\ Go(v, "card") /\ replayed' = replayed \cup {visit[v].root}
  /\ UNCHANGED <<roots, row, newest, routed, activated, copies, notices, cards, spent>>
\* ensureCurrentPanel, through senderWithThreadTopic.
Card(v) ==
  /\ At(v, {"card"}) /\ Leave(v)
  /\ \/ /\ cards' = cards \cup {visit[v].root} /\ UNCHANGED spent
        /\ Reply(visit[v].chat, visit[v].thread, visit[v].root)
     \/ Loss /\ UNCHANGED <<cards, row, newest>>
  /\ UNCHANGED <<roots, routed, activated, replayed, copies, notices>>

Stop ==
  /\ Fault /\ spent' = [spent EXCEPT !.stops = @ + 1]
  /\ visit' = [v \in Visitors |-> Resting]
  /\ UNCHANGED <<roots, tables, copies, notices, cards>>

VisitStep(v) ==
  \/ Begin(v) \/ Look(v) \/ SendRoot(v) \/ StoreRoot(v) \/ Tell(v) \/ Mark(v) \/ Reload(v)
  \/ Route(v) \/ History(v) \/ MarkReplayed(v) \/ Card(v)
TopicsNext == Stop \/ \E v \in Visitors : Visit(v) \/ VisitStep(v)

TopicsSpec == TopicsInit /\ [][TopicsNext]_topicVars

(***************************************************************************)
(* Properties.                                                             *)
(***************************************************************************)
RootsOf(t) == {r \in 1..Len(roots) : roots[r].thread = t}

\* A topic belongs to one thread and one chat: neither reuse in another chat nor the rows that
\* replies store again bind a thread to the topic of another, and what is posted for a thread
\* goes to a topic of its own (EnsureThreadTopic, sendWithOptions).
Belongs(r, c, t) == roots[r].chat = c /\ roots[r].thread = t
BoundToItsThread ==
  /\ \A k \in Chats \X Threads : row[k] # None => Belongs(row[k], k[1], k[2])
  /\ \A v \in Visitors : At(v, {"history", "card"}) => Belongs(visit[v].root, visit[v].chat, visit[v].thread)

\* One thread has one topic.  The lookup and the creation are two steps under either of two
\* mutexes, so two visits may both create one; under one mutex there is never a second unless an
\* answer of Feishu or the process was lost (EnsureThreadTopic).
FewTopics ==
  spent.losses + spent.stops = 0 =>
    \A t \in Threads : \A r, s \in RootsOf(t) : roots[r].under = roots[s].under => r = s

\* Nobody is told more than once that a topic was opened without asking for it, but for a
\* lost answer or a restart before the mark is stored (activateThreadTopic).
ToldOnce == \A k \in Chats \X Threads : notices[k] <= 1 + spent.losses + spent.stops

\* The history of a thread is in a topic once, whole; what failed half way and what a restart
\* cut short is sent again (backfillRecentThreadTopicTurns).
HistoryOnce == \A r \in Roots : copies[r] <= 1 + spent.losses + spent.stops

\* One topic for one thread, told of once and filled once.
OneTopicEach == BoundToItsThread /\ FewTopics /\ ToldOnce /\ HistoryOnce
=============================================================================
