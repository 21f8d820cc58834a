------------------------------ MODULE ChatsProofs ------------------------------
(***************************************************************************)
(* Proofs about the topics of a chat and its new threads, for any chats,   *)
(* threads, visitors and texts, and any number of visits, lost calls and   *)
(* restarts.                                                               *)
(***************************************************************************)
EXTENDS Topics, NewThreads, FiniteSetTheorems, NaturalsInduction, TLAPS

-----------------------------------------------------------------------------
(* Topics: what a visit knows                                              *)

VisitPlaces == {"idle", "want", "look", "send", "store", "tell", "mark", "reload", "route",
                "history", "replayed", "card"}
Visits == [at : VisitPlaces, kind : Kinds, chat : Chats \cup {None}, thread : Threads \cup {None},
           root : Roots \cup {None}, asReply : BOOLEAN, silent : BOOLEAN]
Mutexes == {"topicMu", "panelMu"}
RootRecords == [chat : Chats, thread : Threads, under : Mutexes]
TopicsTypeOK ==
  /\ roots \in Seq(RootRecords) /\ Len(roots) <= MaxRoots
  /\ row \in [Chats \X Threads -> Roots \cup {None}] /\ newest \in [Threads -> Chats \cup {None}]
  /\ copies \in [Roots -> Nat] /\ notices \in [Chats \X Threads -> Nat]
  /\ visit \in [Visitors -> Visits]
  /\ spent \in [visits : Nat, losses : Nat, stops : Nat]

\* Root r of rs is the topic of thread t in chat c.
Owns(rs, r, c, t) == r \in 1..Len(rs) /\ rs[r].chat = c /\ rs[r].thread = t
\* A visit knows where it is going; past the lookup it has a root of its thread, and past the
\* tables the row is there.
VisitOK(q, rs, rw) ==
  /\ q.at # "idle" => q.chat \in Chats /\ q.thread \in Threads
  /\ q.at \in {"store", "tell", "mark", "reload", "route", "history", "replayed", "card"} =>
       Owns(rs, q.root, q.chat, q.thread)
  /\ q.at \in {"tell", "mark", "reload", "route", "history", "replayed", "card"} =>
       rw[<<q.chat, q.thread>>] # None
  /\ q.at \in {"history", "replayed", "card"} => q.kind # "open"
RowsOK(rs, rw) ==
  \A c \in Chats, t \in Threads : rw[<<c, t>>] # None => Owns(rs, rw[<<c, t>>], c, t)
NewestOK(nw, rw) ==
  \A t \in Threads : /\ nw[t] # None => rw[<<nw[t], t>>] # None
                     /\ \A c \in Chats : rw[<<c, t>>] # None => nw[t] # None
Placed == /\ \A v \in Visitors : VisitOK(visit[v], roots, row)
          /\ RowsOK(roots, row) /\ NewestOK(newest, row)
PlacedInv == TopicsTypeOK /\ Placed

\* One visit moves on, to q.
Moves(v, q) ==
  /\ visit' \in [Visitors -> Visits]
  /\ visit'[v] = q /\ \A w \in Visitors \ {v} : visit'[w] = visit[w]
\* The tables only gain.
Gains(rs, rw) ==
  /\ Len(roots) <= Len(rs) /\ \A r \in 1..Len(roots) : rs[r] = roots[r]
  /\ \A c \in Chats, t \in Threads : row[<<c, t>>] # None => rw[<<c, t>>] # None

LEMMA Moving ==
  ASSUME TopicsTypeOK, NEW v \in Visitors
  PROVE  /\ \A q \in Visits : visit' = [visit EXCEPT ![v] = q] => Moves(v, q)
         /\ \A place \in VisitPlaces : Go(v, place) => Moves(v, [visit[v] EXCEPT !.at = place])
         /\ Leave(v) => Moves(v, Resting)
         /\ Resting \in Visits /\ visit[v] \in Visits
<1>1. Resting \in Visits BY DEF Resting, Visits, VisitPlaces, Kinds
<1>2. visit[v] \in Visits BY DEF TopicsTypeOK
<1>3. ASSUME NEW q \in Visits, visit' = [visit EXCEPT ![v] = q] PROVE Moves(v, q)
  BY <1>3 DEF TopicsTypeOK, Moves
<1>4. ASSUME NEW place \in VisitPlaces, Go(v, place) PROVE Moves(v, [visit[v] EXCEPT !.at = place])
  <2>1. [visit[v] EXCEPT !.at = place] \in Visits BY <1>2 DEF Visits
  <2>2. visit' = [visit EXCEPT ![v] = [visit[v] EXCEPT !.at = place]] BY <1>4 DEF Go
  <2> QED BY <1>3, <2>1, <2>2
<1>5. Leave(v) => Moves(v, Resting) BY <1>1, <1>3 DEF Leave
<1> QED BY <1>1, <1>2, <1>3, <1>4, <1>5

LEMMA OwnsMore ==
  ASSUME NEW rs, NEW rw, Gains(rs, rw), NEW r, NEW c, NEW t, Owns(roots, r, c, t), TopicsTypeOK, Len(rs) \in Nat
  PROVE  Owns(rs, r, c, t)
BY DEF Gains, Owns, TopicsTypeOK

LEMMA VisitsStay ==
  ASSUME TopicsTypeOK, NEW rs, NEW rw, Gains(rs, rw), Len(rs) \in Nat, NEW q \in Visits, VisitOK(q, roots, row)
  PROVE  VisitOK(q, rs, rw)
<1>1. ASSUME Owns(roots, q.root, q.chat, q.thread) PROVE Owns(rs, q.root, q.chat, q.thread)
  BY <1>1, OwnsMore
<1>2. ASSUME q.at \in {"tell", "mark", "reload", "route", "history", "replayed", "card"}
      PROVE  rw[<<q.chat, q.thread>>] # None
  BY <1>2 DEF VisitOK, Gains
<1> QED BY <1>1, <1>2 DEF VisitOK

\* The topic is stored, by the one who made it or by a reply to its root.
LEMMA Putting ==
  ASSUME PlacedInv, NEW c \in Chats, NEW t \in Threads, NEW r, Owns(roots, r, c, t), Put(c, t, r)
  PROVE  /\ row' \in [Chats \X Threads -> Roots \cup {None}] /\ newest' \in [Threads -> Chats \cup {None}]
         /\ RowsOK(roots, row') /\ NewestOK(newest', row') /\ Gains(roots, row')
         /\ row'[<<c, t>>] = r /\ r \in Roots /\ r # None
<1>1. r \in Roots /\ r # None BY TopicsAssumption DEF Owns, PlacedInv, TopicsTypeOK, Roots, None
<1>2. <<c, t>> \in Chats \X Threads OBVIOUS
<1>3. /\ row' \in [Chats \X Threads -> Roots \cup {None}] /\ row'[<<c, t>>] = r
      /\ newest' \in [Threads -> Chats \cup {None}] /\ newest'[t] = c
      /\ \A s \in Threads : s # t => newest'[s] = newest[s]
  BY <1>1, <1>2 DEF Put, PlacedInv, TopicsTypeOK
<1>4. ASSUME NEW d \in Chats, NEW s \in Threads, <<d, s>> # <<c, t>> PROVE row'[<<d, s>>] = row[<<d, s>>]
  BY <1>4 DEF Put, PlacedInv, TopicsTypeOK
<1>5. RowsOK(roots, row')
  <2> SUFFICES ASSUME NEW d \in Chats, NEW s \in Threads, row'[<<d, s>>] # None
               PROVE  Owns(roots, row'[<<d, s>>], d, s)
    BY DEF RowsOK
  <2>1. CASE d = c /\ s = t BY <1>3, <2>1
  <2>2. CASE ~(d = c /\ s = t)
    <3>1. row'[<<d, s>>] = row[<<d, s>>] BY <1>4, <2>2
    <3> QED BY <3>1 DEF PlacedInv, Placed, RowsOK
  <2> QED BY <2>1, <2>2
<1>6. \A d \in Chats, s \in Threads : row[<<d, s>>] # None => row'[<<d, s>>] # None
  <2> SUFFICES ASSUME NEW d \in Chats, NEW s \in Threads, row[<<d, s>>] # None PROVE row'[<<d, s>>] # None
    OBVIOUS
  <2>1. CASE d = c /\ s = t BY <1>1, <1>3, <2>1
  <2>2. CASE ~(d = c /\ s = t) BY <1>4, <2>2
  <2> QED BY <2>1, <2>2
<1>7. Gains(roots, row') BY <1>6 DEF Gains, PlacedInv, TopicsTypeOK
<1>8. NewestOK(newest', row')
  <2> SUFFICES ASSUME NEW s \in Threads
               PROVE  /\ newest'[s] # None => row'[<<newest'[s], s>>] # None
                      /\ \A d \in Chats : row'[<<d, s>>] # None => newest'[s] # None
    BY DEF NewestOK
  <2>1. CASE s = t BY <1>1, <1>3, <2>1, TopicsAssumption
  <2>2. CASE s # t
    <3>1. newest'[s] = newest[s] BY <1>3, <2>2
    <3>2. newest[s] # None => newest[s] \in Chats /\ row[<<newest[s], s>>] # None
      BY DEF PlacedInv, TopicsTypeOK, Placed, NewestOK
    <3>3. \A d \in Chats : row'[<<d, s>>] # None => newest[s] # None
      <4>1. \A d \in Chats : row'[<<d, s>>] = row[<<d, s>>] BY <1>4, <2>2
      <4> QED BY <4>1 DEF PlacedInv, Placed, NewestOK
    <3> QED BY <1>6, <3>1, <3>2, <3>3
  <2> QED BY <2>1, <2>2
<1> QED BY <1>1, <1>3, <1>5, <1>7, <1>8

\* What is left of the invariant when one visit moves.
LEMMA PlacedFrame ==
  ASSUME PlacedInv, NEW v \in Visitors, NEW q, Moves(v, q), VisitOK(q, roots', row'),
         Gains(roots', row'), Len(roots') \in Nat, RowsOK(roots', row'), NewestOK(newest', row')
  PROVE  Placed'
<1>1. ASSUME NEW w \in Visitors PROVE VisitOK(visit'[w], roots', row')
  <2>1. CASE w = v BY <2>1 DEF Moves
  <2>2. CASE w # v
    <3>1. visit'[w] = visit[w] BY <2>2 DEF Moves
    <3>2. visit[w] \in Visits /\ VisitOK(visit[w], roots, row) BY DEF PlacedInv, TopicsTypeOK, Placed
    <3>3. VisitOK(visit[w], roots', row')
      <4> DEFINE p == visit[w]
      <4> HIDE DEF p
      <4>1. p \in Visits /\ VisitOK(p, roots, row) BY <3>2 DEF p
      <4>2. VisitOK(p, roots', row') BY <4>1, VisitsStay DEF PlacedInv
      <4> QED BY <4>2 DEF p
    <3> QED BY <3>1, <3>3
  <2> QED BY <2>1, <2>2
<1> QED BY <1>1 DEF Placed

\* Where each step takes its visit.
LEMMA Steps ==
  ASSUME PlacedInv, NEW v \in Visitors
  PROVE  /\ Begin(v) => visit[v].at = "want" /\ Moves(v, [visit[v] EXCEPT !.at = "look"])
         /\ StoreRoot(v) => visit[v].at = "store" /\ Moves(v, [visit[v] EXCEPT !.at = "tell"])
         /\ Tell(v) => /\ visit[v].at = "tell"
                       /\ \/ Moves(v, [visit[v] EXCEPT !.at = "mark"]) \/ Moves(v, [visit[v] EXCEPT !.at = "reload"])
                          \/ Moves(v, Resting)
         /\ Mark(v) => visit[v].at = "mark" /\ Moves(v, [visit[v] EXCEPT !.at = "reload"])
         /\ History(v) => /\ visit[v].at = "history"
                          /\ \/ Moves(v, [visit[v] EXCEPT !.at = "replayed"])
                             \/ Moves(v, [visit[v] EXCEPT !.at = "card"]) \/ Moves(v, Resting)
         /\ MarkReplayed(v) => visit[v].at = "replayed" /\ Moves(v, [visit[v] EXCEPT !.at = "card"])
         /\ Card(v) => visit[v].at = "card" /\ Moves(v, Resting)
<1>0. TopicsTypeOK BY DEF PlacedInv
<1>1. Begin(v) => visit[v].at = "want" /\ Moves(v, [visit[v] EXCEPT !.at = "look"])
  BY <1>0, Moving DEF Begin, At, VisitPlaces
<1>2. StoreRoot(v) => visit[v].at = "store" /\ Moves(v, [visit[v] EXCEPT !.at = "tell"])
  BY <1>0, Moving DEF StoreRoot, At, VisitPlaces
<1>3. Tell(v) => /\ visit[v].at = "tell"
                 /\ \/ Moves(v, [visit[v] EXCEPT !.at = "mark"]) \/ Moves(v, [visit[v] EXCEPT !.at = "reload"])
                    \/ Moves(v, Resting)
  BY <1>0, Moving DEF Tell, At, VisitPlaces
<1>4. Mark(v) => visit[v].at = "mark" /\ Moves(v, [visit[v] EXCEPT !.at = "reload"])
  BY <1>0, Moving DEF Mark, At, VisitPlaces
<1>5. History(v) => /\ visit[v].at = "history"
                    /\ \/ Moves(v, [visit[v] EXCEPT !.at = "replayed"])
                       \/ Moves(v, [visit[v] EXCEPT !.at = "card"]) \/ Moves(v, Resting)
  BY <1>0, Moving DEF History, At, VisitPlaces
<1>6. MarkReplayed(v) => visit[v].at = "replayed" /\ Moves(v, [visit[v] EXCEPT !.at = "card"])
  BY <1>0, Moving DEF MarkReplayed, At, VisitPlaces
<1>7. Card(v) => visit[v].at = "card" /\ Moves(v, Resting)
  BY <1>0, Moving DEF Card, At
<1> QED BY <1>1, <1>2, <1>3, <1>4, <1>5, <1>6, <1>7

LEMMA VisitStep0 ==
  ASSUME PlacedInv, NEW v \in Visitors, Visit(v)
  PROVE  /\ visit[v].at = "idle" /\ spent' = [spent EXCEPT !.visits = @ + 1]
         /\ \E q \in Visits : Moves(v, q) /\ q.at = "want" /\ q.chat \in Chats /\ q.thread \in Threads
<1>1. PICK k \in Kinds, c \in Chats, t \in Threads, reply \in BOOLEAN :
        visit' = [visit EXCEPT ![v] = [at |-> "want", kind |-> k, chat |-> c, thread |-> t, root |-> None,
                                       asReply |-> reply, silent |-> FALSE]]
  BY DEF Visit
<1> DEFINE q == [at |-> "want", kind |-> k, chat |-> c, thread |-> t, root |-> None,
                 asReply |-> reply, silent |-> FALSE]
<1>2. q \in Visits BY DEF Visits, VisitPlaces
<1>3. q.at = "want" /\ q.chat \in Chats /\ q.thread \in Threads OBVIOUS
<1> HIDE DEF q
<1>4. Moves(v, q) BY <1>1, <1>2, Moving DEF PlacedInv, q
<1> QED BY <1>2, <1>3, <1>4 DEF Visit, At

\* A topic is found in the chat, or in the one updated last, or nowhere.
LEMMA Looking ==
  ASSUME PlacedInv, NEW v \in Visitors, Look(v)
  PROVE  /\ visit[v].at = "look" /\ visit[v].chat \in Chats /\ visit[v].thread \in Threads
         /\ UNCHANGED <<roots, tables, copies, notices, cards, spent>>
         /\ \/ \E q \in Visits : /\ Moves(v, q) /\ q.at = "tell" /\ q.kind = visit[v].kind
                                 /\ q.chat \in Chats /\ q.thread \in Threads
                                 /\ Owns(roots, q.root, q.chat, q.thread) /\ row[<<q.chat, q.thread>>] # None
            \/ /\ \A c \in Chats : row[<<c, visit[v].thread>>] = None
               /\ Moves(v, [visit[v] EXCEPT !.at = "send"])
            \/ Moves(v, Resting)
<1> DEFINE p == visit[v]
           r == Known(p.chat, p.thread)
<1>1. /\ p.at = "look" /\ p \in Visits /\ p.chat \in Chats /\ p.thread \in Threads
      /\ VisitOK(p, roots, row)
  BY DEF Look, At, PlacedInv, TopicsTypeOK, Placed, VisitOK
<1>2. UNCHANGED <<roots, tables, copies, notices, cards, spent>> BY DEF Look
<1>3. ASSUME r # None
      PROVE  \E c \in Chats : Owns(roots, r, c, p.thread) /\ row[<<c, p.thread>>] # None
  <2>1. CASE row[<<p.chat, p.thread>>] # None
    <3>1. r = row[<<p.chat, p.thread>>] BY <2>1 DEF Known
    <3>2. Owns(roots, row[<<p.chat, p.thread>>], p.chat, p.thread) BY <1>1, <2>1 DEF PlacedInv, Placed, RowsOK
    <3> QED BY <1>1, <2>1, <3>1, <3>2
  <2>2. CASE row[<<p.chat, p.thread>>] = None
    <3>1. newest[p.thread] # None /\ r = row[<<newest[p.thread], p.thread>>] BY <1>3, <2>2 DEF Known
    <3>2. newest[p.thread] \in Chats BY <1>1, <3>1 DEF PlacedInv, TopicsTypeOK
    <3>3. Owns(roots, row[<<newest[p.thread], p.thread>>], newest[p.thread], p.thread)
      BY <1>1, <1>3, <3>1, <3>2 DEF PlacedInv, Placed, RowsOK
    <3> QED BY <1>3, <3>1, <3>2, <3>3
  <2> QED BY <2>1, <2>2
<1>4. ASSUME r = None PROVE \A c \in Chats : row[<<c, p.thread>>] = None
  <2>1. row[<<p.chat, p.thread>>] = None BY <1>4 DEF Known
  <2>2. newest[p.thread] = None BY <1>1, <1>4, <2>1 DEF Known, PlacedInv, Placed, NewestOK
  <2> QED BY <1>1, <2>2 DEF PlacedInv, Placed, NewestOK
<1>5. CASE /\ r # None
           /\ visit' = [visit EXCEPT ![v].at = "tell", ![v].root = r, ![v].chat = TopicChat(@, r),
                                  ![v].asReply = @ /\ TopicChat(visit[v].chat, r) = visit[v].chat]
  <2>1. PICK c \in Chats : Owns(roots, r, c, p.thread) /\ row[<<c, p.thread>>] # None BY <1>3, <1>5
  <2>2. TopicChat(p.chat, r) = c /\ r \in Roots
    BY <2>1, TopicsAssumption DEF TopicChat, Owns, PlacedInv, TopicsTypeOK, Roots
  <2> DEFINE reply == p.asReply /\ TopicChat(p.chat, r) = p.chat
             q == [p EXCEPT !.at = "tell", !.root = r, !.chat = c, !.asReply = reply]
  <2>3. reply \in BOOLEAN BY <1>1 DEF Visits
  <2>4. q \in Visits BY <1>1, <2>2, <2>3 DEF Visits, VisitPlaces
  <2>5. visit' = [visit EXCEPT ![v] = q] BY <1>5, <2>2 DEF PlacedInv, TopicsTypeOK
  <2>6. q.at = "tell" /\ q.kind = p.kind /\ q.chat = c /\ q.thread = p.thread /\ q.root = r BY <1>1 DEF Visits
  <2> HIDE DEF q, r
  <2>7. Moves(v, q) BY <2>4, <2>5, Moving DEF PlacedInv
  <2> QED BY <1>1, <1>2, <2>1, <2>4, <2>6, <2>7
<1>6. CASE r = None /\ Go(v, "send")
  <2>1. Moves(v, [p EXCEPT !.at = "send"]) BY <1>6, Moving DEF PlacedInv, VisitPlaces
  <2> QED BY <1>1, <1>2, <1>4, <1>6, <2>1
<1>7. CASE Leave(v) BY <1>1, <1>2, <1>7, Moving DEF PlacedInv
<1> QED BY <1>5, <1>6, <1>7 DEF Look

\* A root is sent, and the visit knows it unless the answer is lost.
LEMMA Sending ==
  ASSUME PlacedInv, NEW v \in Visitors, SendRoot(v)
  PROVE  LET sent == [chat |-> visit[v].chat, thread |-> visit[v].thread, under |-> Mutex(v)]
             new == Len(roots) + 1 IN
         /\ visit[v].at = "send" /\ sent \in RootRecords /\ UNCHANGED <<tables, copies, notices, cards>>
         /\ \/ /\ roots' = Append(roots, sent) /\ new \in Roots /\ spent' = spent
               /\ Moves(v, [visit[v] EXCEPT !.at = "store", !.root = new])
            \/ Loss /\ Moves(v, Resting) /\ roots' \in {roots, Append(roots, sent)}
         /\ TopicsTypeOK /\ roots' \in Seq(RootRecords) /\ Len(roots') <= MaxRoots /\ Gains(roots', row')
<1> DEFINE p == visit[v]
           sent == [chat |-> p.chat, thread |-> p.thread, under |-> Mutex(v)]
           new == Len(roots) + 1
<1>1. /\ p.at = "send" /\ p \in Visits /\ p.chat \in Chats /\ p.thread \in Threads
  BY DEF SendRoot, At, PlacedInv, TopicsTypeOK, Placed, VisitOK
<1>2. sent \in RootRecords BY <1>1 DEF RootRecords, Mutex, Mutexes
<1>3. WithRoot(v) = Append(roots, sent) BY DEF WithRoot
<1>4. roots \in Seq(RootRecords) /\ Len(roots) < MaxRoots BY DEF SendRoot, PlacedInv, TopicsTypeOK
<1> HIDE DEF sent
<1>5. /\ Append(roots, sent) \in Seq(RootRecords) /\ Len(Append(roots, sent)) = Len(roots) + 1
      /\ \A r \in 1..Len(roots) : Append(roots, sent)[r] = roots[r]
  BY <1>2, <1>4
<1>6. new \in Roots BY <1>4, TopicsAssumption DEF Roots
<1>7. UNCHANGED <<tables, copies, notices, cards>> /\ roots' \in {roots, Append(roots, sent)} BY <1>3 DEF SendRoot
<1>8. roots' \in Seq(RootRecords) /\ Len(roots') <= MaxRoots /\ Gains(roots', row')
  BY <1>4, <1>5, <1>7, TopicsAssumption DEF Gains, tables
<1>9. CASE /\ roots' = WithRoot(v)
           /\ visit' = [visit EXCEPT ![v].at = "store", ![v].root = Len(roots)']
           /\ UNCHANGED spent
  <2>1. Len(roots') = new BY <1>3, <1>5, <1>9
  <2> DEFINE q == [p EXCEPT !.at = "store", !.root = new]
  <2>2. q \in Visits BY <1>1, <1>6 DEF Visits, VisitPlaces
  <2>3. visit' = [visit EXCEPT ![v] = q] BY <1>9, <2>1 DEF PlacedInv, TopicsTypeOK
  <2>4. Moves(v, q)
    <3> HIDE DEF q
    <3> QED BY <2>2, <2>3, Moving DEF PlacedInv
  <2> QED BY <1>1, <1>2, <1>3, <1>6, <1>7, <1>8, <1>9, <2>4 DEF PlacedInv, sent
<1>10. CASE Loss /\ Leave(v) /\ roots' \in {roots, WithRoot(v)}
  <2>1. Moves(v, Resting) BY <1>10, Moving DEF PlacedInv
  <2> QED BY <1>1, <1>2, <1>3, <1>7, <1>8, <1>10, <2>1 DEF PlacedInv, sent
<1> QED BY <1>9, <1>10 DEF SendRoot

\* The topic the table has by now, and the route; an open then goes on as a sync.
LEMMA Reloading ==
  ASSUME PlacedInv, NEW v \in Visitors, Reload(v)
  PROVE  /\ visit[v].at = "reload" /\ UNCHANGED <<roots, tables, copies, notices, cards, spent>>
         /\ \E q \in Visits : /\ Moves(v, q) /\ q.at = "route" /\ q.kind = visit[v].kind
                              /\ VisitOK(q, roots, row)
<1> DEFINE p == visit[v]
           r == row[<<p.chat, p.thread>>]
           q == [p EXCEPT !.at = "route", !.root = r]
<1>1. p.at = "reload" /\ p \in Visits /\ VisitOK(p, roots, row) BY DEF Reload, At, PlacedInv, TopicsTypeOK, Placed
<1>2. p.chat \in Chats /\ p.thread \in Threads /\ r # None BY <1>1 DEF VisitOK
<1>3. r \in Roots BY <1>2 DEF PlacedInv, TopicsTypeOK
<1>4. Owns(roots, r, p.chat, p.thread) BY <1>2 DEF PlacedInv, Placed, RowsOK
<1>5. q \in Visits BY <1>1, <1>3 DEF Visits, VisitPlaces
<1>6. visit' = [visit EXCEPT ![v] = q] BY DEF Reload, PlacedInv, TopicsTypeOK
<1>7. q.at = "route" /\ q.kind = p.kind /\ q.chat = p.chat /\ q.thread = p.thread /\ q.root = r BY <1>1 DEF Visits
<1> HIDE DEF q
<1>8. Moves(v, q) BY <1>5, <1>6, Moving DEF PlacedInv
<1>9. VisitOK(q, roots, row) BY <1>2, <1>4, <1>7 DEF VisitOK
<1> QED BY <1>1, <1>5, <1>7, <1>8, <1>9 DEF Reload

LEMMA Routing ==
  ASSUME PlacedInv, NEW v \in Visitors, Route(v)
  PROVE  /\ visit[v].at = "route" /\ UNCHANGED <<roots, row, newest, activated, replayed, copies, notices, cards, spent>>
         /\ \E q \in Visits : /\ Moves(v, q) /\ VisitOK(q, roots, row)
                              /\ q.at = "want" \/ (q.at = "history" /\ q.kind = visit[v].kind)
<1> DEFINE p == visit[v]
           one == [p EXCEPT !.at = "want", !.kind = "show", !.silent = TRUE]
           two == [p EXCEPT !.at = "history"]
<1>1. p.at = "route" /\ p \in Visits /\ VisitOK(p, roots, row) BY DEF Route, At, PlacedInv, TopicsTypeOK, Placed
<1>2. one \in Visits /\ two \in Visits BY <1>1 DEF Visits, VisitPlaces, Kinds
<1>3. /\ one.at = "want" /\ one.chat = p.chat /\ one.thread = p.thread
      /\ two.at = "history" /\ two.kind = p.kind /\ two.chat = p.chat /\ two.thread = p.thread /\ two.root = p.root
  BY <1>1 DEF Visits
<1>4. CASE p.kind = "open"
  <2>1. visit' = [visit EXCEPT ![v] = one] BY <1>4 DEF Route
  <2>2. VisitOK(one, roots, row) BY <1>1, <1>3 DEF VisitOK
  <2> HIDE DEF one, two
  <2>3. Moves(v, one) BY <1>2, <2>1, Moving DEF PlacedInv
  <2> QED BY <1>1, <1>2, <1>3, <2>2, <2>3 DEF Route
<1>5. CASE p.kind # "open"
  <2>1. visit' = [visit EXCEPT ![v] = two] BY <1>5 DEF Route
  <2>2. VisitOK(two, roots, row) BY <1>1, <1>3, <1>5 DEF VisitOK
  <2> HIDE DEF one, two
  <2>3. Moves(v, two) BY <1>2, <2>1, Moving DEF PlacedInv
  <2> QED BY <1>1, <1>2, <1>3, <2>2, <2>3 DEF Route
<1> QED BY <1>4, <1>5

LEMMA GainsNothing ==
  ASSUME TopicsTypeOK, UNCHANGED <<roots, row>>
  PROVE  Gains(roots', row') /\ Len(roots') \in Nat /\ Gains(roots, row)
BY DEF Gains, TopicsTypeOK

LEMMA RestingOK == \A rs, rw : VisitOK(Resting, rs, rw)
BY DEF VisitOK, Resting

\* Steps of a visit whose topic is in the table.
Further == {<<"tell", "mark">>, <<"tell", "reload">>, <<"mark", "reload">>, <<"history", "replayed">>,
            <<"history", "card">>, <<"replayed", "card">>}
Stored(q, rs, rw) ==
  /\ Owns(rs, q.root, q.chat, q.thread) /\ q.chat \in Chats /\ q.thread \in Threads
  /\ rw[<<q.chat, q.thread>>] # None

LEMMA MovedOK ==
  ASSUME NEW p \in Visits, NEW at \in VisitPlaces, NEW rs, NEW rw
  PROVE  /\ VisitOK(p, rs, rw) /\ p.at = "want" /\ at = "look" => VisitOK([p EXCEPT !.at = at], rs, rw)
         /\ VisitOK(p, rs, rw) /\ p.at = "look" /\ at = "send" => VisitOK([p EXCEPT !.at = at], rs, rw)
         /\ VisitOK(p, rs, rw) /\ <<p.at, at>> \in Further => VisitOK([p EXCEPT !.at = at], rs, rw)
         /\ Stored(p, rs, rw) /\ at = "tell" => VisitOK([p EXCEPT !.at = at], rs, rw)
<1> DEFINE q == [p EXCEPT !.at = at]
<1>1. q.at = at /\ q.kind = p.kind /\ q.chat = p.chat /\ q.thread = p.thread /\ q.root = p.root BY DEF Visits
<1> HIDE DEF q
<1>2. VisitOK(p, rs, rw) /\ p.at = "want" /\ at = "look" => VisitOK(q, rs, rw) BY <1>1 DEF VisitOK
<1>3. VisitOK(p, rs, rw) /\ p.at = "look" /\ at = "send" => VisitOK(q, rs, rw) BY <1>1 DEF VisitOK
<1>4. VisitOK(p, rs, rw) /\ <<p.at, at>> \in Further => VisitOK(q, rs, rw) BY <1>1 DEF VisitOK, Further
<1>5. Stored(p, rs, rw) /\ at = "tell" => VisitOK(q, rs, rw) BY <1>1 DEF VisitOK, Stored
<1> QED BY <1>2, <1>3, <1>4, <1>5 DEF q

\* A step that leaves the tables alone, or stores a topic again that is there.
LEMMA PlacedKeeps ==
  ASSUME PlacedInv, NEW v \in Visitors, NEW q \in Visits, Moves(v, q),
         UNCHANGED roots, VisitOK(q, roots, row),
         \/ UNCHANGED <<row, newest>>
         \/ \E c \in Chats, t \in Threads : \E r : Owns(roots, r, c, t) /\ Put(c, t, r)
  PROVE  /\ Placed' /\ row' \in [Chats \X Threads -> Roots \cup {None}] /\ newest' \in [Threads -> Chats \cup {None}]
         /\ Gains(roots', row')
<1>1. CASE UNCHANGED <<row, newest>>
  <2>1. Gains(roots', row') /\ Len(roots') \in Nat BY <1>1, GainsNothing DEF PlacedInv
  <2>2. RowsOK(roots', row') /\ NewestOK(newest', row') /\ VisitOK(q, roots', row') BY <1>1 DEF PlacedInv, Placed
  <2> QED BY <1>1, <2>1, <2>2, PlacedFrame DEF PlacedInv, TopicsTypeOK
<1>2. ASSUME NEW c \in Chats, NEW t \in Threads, NEW r, Owns(roots, r, c, t), Put(c, t, r)
      PROVE  /\ Placed' /\ row' \in [Chats \X Threads -> Roots \cup {None}] /\ newest' \in [Threads -> Chats \cup {None}]
             /\ Gains(roots', row')
  <2>1. /\ row' \in [Chats \X Threads -> Roots \cup {None}] /\ newest' \in [Threads -> Chats \cup {None}]
        /\ RowsOK(roots, row') /\ NewestOK(newest', row') /\ Gains(roots, row')
    BY <1>2, Putting
  <2>2. Len(roots) \in Nat BY DEF PlacedInv, TopicsTypeOK
  <2>3. VisitOK(q, roots, row') BY <2>1, <2>2, VisitsStay DEF PlacedInv
  <2>4. RowsOK(roots', row') /\ VisitOK(q, roots', row') /\ Gains(roots', row') /\ Len(roots') \in Nat
    BY <2>1, <2>2, <2>3
  <2> QED BY <2>1, <2>4, PlacedFrame
<1> QED BY <1>1, <1>2

\* A reply to the root of a visit stores its own topic again.
LEMMA OwnReply ==
  ASSUME PlacedInv, NEW v \in Visitors, visit[v].at \in {"tell", "history", "card"},
         \/ UNCHANGED <<row, newest>> \/ Reply(visit[v].chat, visit[v].thread, visit[v].root)
  PROVE  /\ visit[v] \in Visits /\ VisitOK(visit[v], roots, row)
         /\ \/ UNCHANGED <<row, newest>>
            \/ \E c \in Chats, t \in Threads : \E r : Owns(roots, r, c, t) /\ Put(c, t, r)
<1>1. visit[v] \in Visits /\ VisitOK(visit[v], roots, row) BY DEF PlacedInv, TopicsTypeOK, Placed
<1>2. /\ visit[v].chat \in Chats /\ visit[v].thread \in Threads
      /\ Owns(roots, visit[v].root, visit[v].chat, visit[v].thread)
  BY <1>1 DEF VisitOK
<1> QED BY <1>1, <1>2 DEF Reply

LEMMA PlacedStep ==
  ASSUME PlacedInv, NEW v \in Visitors, Visit(v) \/ VisitStep(v)
  PROVE  Placed' /\ row' \in [Chats \X Threads -> Roots \cup {None}] /\ newest' \in [Threads -> Chats \cup {None}]
         /\ roots' \in Seq(RootRecords) /\ Len(roots') <= MaxRoots
         /\ visit' \in [Visitors -> Visits] /\ Gains(roots', row')
<1> DEFINE p == visit[v]
<1>p. /\ TopicsTypeOK /\ p \in Visits /\ VisitOK(p, roots, row) /\ Resting \in Visits
      /\ \A at \in VisitPlaces : [p EXCEPT !.at = at] \in Visits
  BY Moving DEF PlacedInv, TopicsTypeOK, Placed, Visits
<1>a. \A q : Moves(v, q) => visit' \in [Visitors -> Visits] BY DEF Moves
<1>b. ASSUME NEW q \in Visits, Moves(v, q), UNCHANGED roots, VisitOK(q, roots, row),
             \/ UNCHANGED <<row, newest>>
             \/ \E c \in Chats, t \in Threads : \E r : Owns(roots, r, c, t) /\ Put(c, t, r)
      PROVE  /\ Placed' /\ row' \in [Chats \X Threads -> Roots \cup {None}] /\ newest' \in [Threads -> Chats \cup {None}]
             /\ roots' \in Seq(RootRecords) /\ Len(roots') <= MaxRoots
             /\ visit' \in [Visitors -> Visits] /\ Gains(roots', row')
  BY <1>a, <1>b, PlacedKeeps DEF PlacedInv, TopicsTypeOK
<1>1. CASE Visit(v)
  <2>1. PICK q \in Visits : Moves(v, q) /\ q.at = "want" /\ q.chat \in Chats /\ q.thread \in Threads
    BY <1>1, VisitStep0
  <2>2. VisitOK(q, roots, row) BY <2>1 DEF VisitOK
  <2>3. UNCHANGED <<roots, row, newest>> BY <1>1 DEF Visit, tables
  <2> QED BY <1>b, <2>1, <2>2, <2>3
<1>2. CASE Begin(v)
  <2>1. Moves(v, [p EXCEPT !.at = "look"]) /\ p.at = "want" BY <1>2, Steps
  <2>2. "look" \in VisitPlaces BY DEF VisitPlaces
  <2>3. VisitOK([p EXCEPT !.at = "look"], roots, row) BY <1>p, <2>1, <2>2, MovedOK
  <2>4. UNCHANGED <<roots, row, newest>> BY <1>2 DEF Begin, tables
  <2> QED BY <1>b, <1>p, <2>1, <2>2, <2>3, <2>4
<1>3. CASE Look(v)
  <2>1. UNCHANGED <<roots, row, newest>> /\ p.at = "look" BY <1>3, Looking DEF tables
  <2>2. CASE \E q \in Visits : /\ Moves(v, q) /\ q.at = "tell" /\ q.kind = visit[v].kind
                               /\ q.chat \in Chats /\ q.thread \in Threads
                               /\ Owns(roots, q.root, q.chat, q.thread) /\ row[<<q.chat, q.thread>>] # None
    <3>1. PICK q \in Visits : /\ Moves(v, q) /\ q.at = "tell" /\ q.chat \in Chats /\ q.thread \in Threads
                              /\ Owns(roots, q.root, q.chat, q.thread) /\ row[<<q.chat, q.thread>>] # None
      BY <2>2
    <3>2. VisitOK(q, roots, row) BY <3>1 DEF VisitOK
    <3> QED BY <1>b, <2>1, <3>1, <3>2
  <2>3. CASE Moves(v, [p EXCEPT !.at = "send"])
    <3>1. "send" \in VisitPlaces BY DEF VisitPlaces
    <3>2. VisitOK([p EXCEPT !.at = "send"], roots, row) BY <1>p, <2>1, <3>1, MovedOK
    <3> QED BY <1>b, <1>p, <2>1, <2>3, <3>1, <3>2
  <2>4. CASE Moves(v, Resting) BY <1>b, <1>p, <2>1, <2>4, RestingOK
  <2> QED BY <1>3, <2>2, <2>3, <2>4, Looking
<1>4. CASE SendRoot(v)
  <2> DEFINE sent == [chat |-> p.chat, thread |-> p.thread, under |-> Mutex(v)]
             new == Len(roots) + 1
             q == [p EXCEPT !.at = "store", !.root = new]
  <2>1. /\ p.at = "send" /\ sent \in RootRecords /\ UNCHANGED <<row, newest>>
        /\ roots' \in Seq(RootRecords) /\ Len(roots') <= MaxRoots /\ Gains(roots', row') /\ Len(roots') \in Nat
        /\ \/ /\ roots' = Append(roots, sent) /\ new \in Roots /\ Moves(v, q)
           \/ Moves(v, Resting)
    <3>1. /\ p.at = "send" /\ sent \in RootRecords /\ UNCHANGED tables
          /\ roots' \in Seq(RootRecords) /\ Len(roots') <= MaxRoots /\ Gains(roots', row')
      BY <1>4, Sending
    <3>2. \/ roots' = Append(roots, sent) /\ new \in Roots /\ Moves(v, q)
          \/ Moves(v, Resting)
      BY <1>4, Sending
    <3>3. Len(roots') \in Nat BY <3>1
    <3>4. UNCHANGED <<row, newest>> BY <3>1 DEF tables
    <3> QED BY <3>1, <3>2, <3>3, <3>4
  <2>2. RowsOK(roots', row') /\ NewestOK(newest', row')
    <3>1. \A c \in Chats, t \in Threads : row[<<c, t>>] # None => Owns(roots', row[<<c, t>>], c, t)
      BY <2>1, OwnsMore DEF PlacedInv, Placed, RowsOK
    <3> QED BY <2>1, <3>1 DEF RowsOK, PlacedInv, Placed
  <2>3. CASE Moves(v, Resting) BY <1>a, <2>1, <2>2, <2>3, RestingOK, PlacedFrame DEF PlacedInv, TopicsTypeOK
  <2>4. CASE roots' = Append(roots, sent) /\ new \in Roots /\ Moves(v, q)
    <3>1. q.at = "store" /\ q.root = new /\ q.chat = p.chat /\ q.thread = p.thread BY <1>p DEF Visits
    <3>2. p.chat \in Chats /\ p.thread \in Threads BY <1>p, <2>1 DEF VisitOK
    <3>3. sent.chat = p.chat /\ sent.thread = p.thread OBVIOUS
    <3> HIDE DEF sent, q
    <3>4. Len(roots') = Len(roots) + 1 /\ roots'[Len(roots) + 1] = sent /\ Len(roots) \in Nat
      BY <1>p, <2>1, <2>4 DEF TopicsTypeOK
    <3>5. Owns(roots', q.root, q.chat, q.thread) BY <3>1, <3>3, <3>4 DEF Owns
    <3>6. VisitOK(q, roots', row') BY <3>1, <3>2, <3>5 DEF VisitOK
    <3>7. Placed' BY <2>1, <2>2, <2>4, <3>6, PlacedFrame
    <3> QED BY <1>a, <2>1, <2>4, <3>7 DEF PlacedInv, TopicsTypeOK
  <2> QED BY <2>1, <2>3, <2>4
<1>5. CASE StoreRoot(v)
  <2> DEFINE q == [p EXCEPT !.at = "tell"]
  <2>1. p.at = "store" /\ Moves(v, q) BY <1>5, Steps
  <2>2. p.chat \in Chats /\ p.thread \in Threads /\ Owns(roots, p.root, p.chat, p.thread) BY <1>p, <2>1 DEF VisitOK
  <2>3. Put(p.chat, p.thread, p.root) /\ roots' = roots BY <1>5 DEF StoreRoot
  <2>4. /\ row' \in [Chats \X Threads -> Roots \cup {None}] /\ newest' \in [Threads -> Chats \cup {None}]
        /\ RowsOK(roots, row') /\ NewestOK(newest', row') /\ Gains(roots, row')
        /\ row'[<<p.chat, p.thread>>] # None
    <3>1. PICK c \in Chats : c = p.chat BY <2>2
    <3>2. PICK t \in Threads : t = p.thread BY <2>2
    <3>3. PICK r : r = p.root OBVIOUS
    <3>4. Owns(roots, r, c, t) /\ Put(c, t, r) BY <2>2, <2>3, <3>1, <3>2, <3>3
    <3>5. /\ row' \in [Chats \X Threads -> Roots \cup {None}] /\ newest' \in [Threads -> Chats \cup {None}]
          /\ RowsOK(roots, row') /\ NewestOK(newest', row') /\ Gains(roots, row')
          /\ row'[<<c, t>>] = r /\ r # None
      BY <3>4, Putting
    <3> QED BY <3>1, <3>2, <3>5
  <2>5. "tell" \in VisitPlaces BY DEF VisitPlaces
  <2>6. VisitOK(q, roots, row') BY <1>p, <2>2, <2>4, <2>5, MovedOK DEF Stored
  <2>7. Len(roots) \in Nat BY <1>p DEF TopicsTypeOK
  <2> HIDE DEF q
  <2>8. Placed' BY <2>1, <2>3, <2>4, <2>6, <2>7, PlacedFrame
  <2> QED BY <1>a, <1>p, <2>1, <2>3, <2>4, <2>8 DEF TopicsTypeOK
<1>6. CASE Tell(v) \/ History(v) \/ Card(v)
  <2>1. p.at \in {"tell", "history", "card"} BY <1>6, Steps
  <2>2. /\ UNCHANGED roots
        /\ \/ UNCHANGED <<row, newest>> \/ Reply(visit[v].chat, visit[v].thread, visit[v].root)
    BY <1>6 DEF Tell, History, Card
  <2>3. \/ UNCHANGED <<row, newest>>
        \/ \E c \in Chats, t \in Threads : \E r : Owns(roots, r, c, t) /\ Put(c, t, r)
    BY <2>1, <2>2, OwnReply
  <2>4. PICK q \in {Resting} \cup {[p EXCEPT !.at = at] : at \in {"mark", "reload", "replayed", "card"}} :
          Moves(v, q) /\ VisitOK(q, roots, row) /\ q \in Visits
    <3>1. {"mark", "reload", "replayed", "card"} \subseteq VisitPlaces BY DEF VisitPlaces
    <3>2. CASE Tell(v)
      <4>1. p.at = "tell" BY <3>2, Steps
      <4>2. /\ VisitOK([p EXCEPT !.at = "mark"], roots, row) /\ VisitOK([p EXCEPT !.at = "reload"], roots, row)
        BY <1>p, <3>1, <4>1, MovedOK DEF Further
      <4> QED BY <1>p, <3>1, <3>2, <4>2, Steps, RestingOK
    <3>3. CASE History(v)
      <4>1. p.at = "history" BY <3>3, Steps
      <4>2. /\ VisitOK([p EXCEPT !.at = "replayed"], roots, row) /\ VisitOK([p EXCEPT !.at = "card"], roots, row)
        BY <1>p, <3>1, <4>1, MovedOK DEF Further
      <4> QED BY <1>p, <3>1, <3>3, <4>2, Steps, RestingOK
    <3>4. CASE Card(v) BY <1>p, <3>4, Steps, RestingOK
    <3> QED BY <1>6, <3>2, <3>3, <3>4
  <2> QED BY <1>b, <2>2, <2>3, <2>4
<1>7. CASE Mark(v) \/ MarkReplayed(v)
  <2>1. PICK at \in {"reload", "card"} : Moves(v, [p EXCEPT !.at = at]) /\ VisitOK([p EXCEPT !.at = at], roots, row)
    <3>1. {"reload", "card"} \subseteq VisitPlaces BY DEF VisitPlaces
    <3>2. CASE Mark(v) BY <1>p, <3>1, <3>2, Steps, MovedOK DEF Further
    <3>3. CASE MarkReplayed(v) BY <1>p, <3>1, <3>3, Steps, MovedOK DEF Further
    <3> QED BY <1>7, <3>2, <3>3
  <2>2. UNCHANGED <<roots, row, newest>> BY <1>7 DEF Mark, MarkReplayed
  <2>3. at \in VisitPlaces BY DEF VisitPlaces
  <2> QED BY <1>b, <1>p, <2>1, <2>2, <2>3
<1>8. CASE Reload(v)
  <2>1. UNCHANGED <<roots, row, newest>> BY <1>8, Reloading DEF tables
  <2>2. PICK q \in Visits : Moves(v, q) /\ VisitOK(q, roots, row) BY <1>8, Reloading
  <2> QED BY <1>b, <2>1, <2>2
<1>9. CASE Route(v)
  <2>1. UNCHANGED <<roots, row, newest>> BY <1>9, Routing
  <2>2. PICK q \in Visits : Moves(v, q) /\ VisitOK(q, roots, row) BY <1>9, Routing
  <2> QED BY <1>b, <2>1, <2>2
<1> QED BY <1>1, <1>2, <1>3, <1>4, <1>5, <1>6, <1>7, <1>8, <1>9 DEF VisitStep

-----------------------------------------------------------------------------
(* Topics: what a step does to the rest                                    *)

Faults == spent.losses + spent.stops
Inside(q) == q.at \notin {"idle", "want"}

LEMMA Spending ==
  ASSUME TopicsTypeOK
  PROVE  /\ Faults \in Nat
         /\ UNCHANGED spent => spent' \in [visits : Nat, losses : Nat, stops : Nat] /\ Faults' = Faults
         /\ spent' = [spent EXCEPT !.visits = @ + 1] =>
              spent' \in [visits : Nat, losses : Nat, stops : Nat] /\ Faults' = Faults
         /\ Loss => spent' \in [visits : Nat, losses : Nat, stops : Nat] /\ Faults' = Faults + 1
         /\ spent' = [spent EXCEPT !.stops = @ + 1] =>
              spent' \in [visits : Nat, losses : Nat, stops : Nat] /\ Faults' = Faults + 1
<1>1. spent \in [visits : Nat, losses : Nat, stops : Nat] BY DEF TopicsTypeOK
<1>2. ASSUME UNCHANGED spent
      PROVE  spent' \in [visits : Nat, losses : Nat, stops : Nat] /\ Faults' = Faults
  BY <1>1, <1>2 DEF Faults
<1>3. ASSUME spent' = [spent EXCEPT !.visits = @ + 1]
      PROVE  spent' \in [visits : Nat, losses : Nat, stops : Nat] /\ Faults' = Faults
  <2>1. spent'.losses = spent.losses /\ spent'.stops = spent.stops BY <1>1, <1>3
  <2>2. spent' \in [visits : Nat, losses : Nat, stops : Nat] BY <1>1, <1>3
  <2> QED BY <2>1, <2>2 DEF Faults
<1>4. ASSUME spent' = [spent EXCEPT !.losses = @ + 1]
      PROVE  spent' \in [visits : Nat, losses : Nat, stops : Nat] /\ Faults' = Faults + 1
  <2>1. spent'.losses = spent.losses + 1 /\ spent'.stops = spent.stops BY <1>1, <1>4
  <2>2. spent' \in [visits : Nat, losses : Nat, stops : Nat] BY <1>1, <1>4
  <2> QED BY <1>1, <2>1, <2>2 DEF Faults
<1>5. ASSUME spent' = [spent EXCEPT !.stops = @ + 1]
      PROVE  spent' \in [visits : Nat, losses : Nat, stops : Nat] /\ Faults' = Faults + 1
  <2>1. spent'.losses = spent.losses /\ spent'.stops = spent.stops + 1 BY <1>1, <1>5
  <2>2. spent' \in [visits : Nat, losses : Nat, stops : Nat] BY <1>1, <1>5
  <2> QED BY <1>1, <2>1, <2>2 DEF Faults
<1>6. Faults \in Nat BY <1>1 DEF Faults
<1> QED BY <1>2, <1>3, <1>4, <1>5, <1>6 DEF Loss

\* What every step of a visit has in common, and which one is the exception.
LEMMA StepSpends ==
  ASSUME PlacedInv, NEW v \in Visitors, Visit(v) \/ VisitStep(v)
  PROVE  spent' \in [visits : Nat, losses : Nat, stops : Nat] /\ Faults' \in Nat /\ Faults' >= Faults
<1>1. spent' = [spent EXCEPT !.visits = @ + 1] \/ UNCHANGED spent \/ Loss
  BY DEF Visit, VisitStep, Begin, Look, SendRoot, StoreRoot, Tell, Mark, Reload, Route, History, MarkReplayed, Card
<1> QED BY <1>1, Spending DEF PlacedInv

LEMMA StepMarks ==
  ASSUME PlacedInv, NEW v \in Visitors, Visit(v) \/ VisitStep(v)
  PROVE  /\ activated \subseteq activated' /\ replayed \subseteq replayed'
         /\ visit[v].at = "mark" => <<visit[v].chat, visit[v].thread>> \in activated'
         /\ visit[v].at = "replayed" => visit[v].root \in replayed'
         /\ Tell(v) \/ UNCHANGED notices
         /\ History(v) \/ UNCHANGED copies
         /\ SendRoot(v) \/ UNCHANGED roots
         /\ StoreRoot(v) \/ visit[v].at # "store"
<1>1. CASE Visit(v) BY <1>1 DEF Visit, At, tables
<1>2. CASE Begin(v) BY <1>2 DEF Begin, At, tables
<1>3. CASE Look(v) BY <1>3 DEF Look, At, tables
<1>4. CASE SendRoot(v) BY <1>4 DEF SendRoot, At, tables
<1>5. CASE StoreRoot(v) BY <1>5 DEF StoreRoot, At, tables
<1>6. CASE Tell(v) BY <1>6 DEF Tell, At, tables
<1>7. CASE Mark(v) BY <1>7 DEF Mark, At, tables
<1>8. CASE Reload(v) BY <1>8 DEF Reload, At, tables
<1>9. CASE Route(v) BY <1>9 DEF Route, At, tables
<1>10. CASE History(v) BY <1>10 DEF History, At, tables
<1>11. CASE MarkReplayed(v) BY <1>11 DEF MarkReplayed, At, tables
<1>12. CASE Card(v) BY <1>12 DEF Card, At, tables
<1> QED BY <1>1, <1>2, <1>3, <1>4, <1>5, <1>6, <1>7, <1>8, <1>9, <1>10, <1>11, <1>12 DEF VisitStep

\* A visit that is inside stays what it is, and only Begin goes in.
LEMMA StepMoves ==
  ASSUME PlacedInv, NEW v \in Visitors, Visit(v) \/ VisitStep(v)
  PROVE  \E q : /\ Moves(v, q)
                /\ Inside(q) => (Inside(visit[v]) \/ Begin(v)) /\ q.kind = visit[v].kind
                /\ Look(v) \/ q.at # "send"
<1> DEFINE p == visit[v]
<1>p. /\ TopicsTypeOK /\ p \in Visits /\ Resting.at = "idle"
      /\ \A place \in VisitPlaces : /\ [p EXCEPT !.at = place].at = place
                                    /\ [p EXCEPT !.at = place].kind = p.kind
  BY DEF PlacedInv, TopicsTypeOK, Visits, Resting
<1>h. ~Inside(Resting) /\ Resting.at # "send" BY <1>p DEF Inside
<1> DEFINE Fits(q) == /\ Moves(v, q)
                      /\ Inside(q) => (Inside(p) \/ Begin(v)) /\ q.kind = p.kind
                      /\ Look(v) \/ q.at # "send"
<1>r. Moves(v, Resting) => Fits(Resting) BY <1>h
<1>m. ASSUME NEW place \in VisitPlaces, Moves(v, [p EXCEPT !.at = place]), place # "send",
             p.at \notin {"idle", "want"} \/ Begin(v)
      PROVE  Fits([p EXCEPT !.at = place])
  BY <1>m, <1>p DEF Inside
<1>1. CASE Visit(v)
  <2>1. PICK q \in Visits : Moves(v, q) /\ q.at = "want" BY <1>1, VisitStep0
  <2> QED BY <2>1 DEF Inside
<1>2. CASE Begin(v)
  <2>1. Fits([p EXCEPT !.at = "look"]) BY <1>2, <1>m, Steps DEF VisitPlaces
  <2> QED BY <2>1
<1>3. CASE Look(v)
  <2>1. PICK q : Moves(v, q) /\ (q.at = "idle" \/ q.kind = p.kind)
    <3>1. "send" \in VisitPlaces BY DEF VisitPlaces
    <3>2. CASE \E q \in Visits : Moves(v, q) /\ q.kind = visit[v].kind BY <3>2
    <3>3. CASE Moves(v, [p EXCEPT !.at = "send"]) BY <1>p, <3>1, <3>3
    <3>4. CASE Moves(v, Resting) BY <1>p, <3>4
    <3> QED BY <1>3, <3>2, <3>3, <3>4, Looking
  <2>2. Inside(p) BY <1>3, Looking DEF Inside
  <2> QED BY <1>3, <2>1, <2>2 DEF Inside
<1>4. CASE SendRoot(v)
  <2> DEFINE q == [p EXCEPT !.at = "store", !.root = Len(roots) + 1]
  <2>1. p.at = "send" /\ (Moves(v, q) \/ Moves(v, Resting)) BY <1>4, Sending
  <2>2. q.at = "store" /\ q.kind = p.kind BY <1>p DEF Visits
  <2> HIDE DEF q
  <2>3. Moves(v, q) => Fits(q) BY <2>1, <2>2 DEF Inside
  <2> QED BY <1>r, <2>1, <2>3
<1>5. CASE StoreRoot(v)
  <2>1. Fits([p EXCEPT !.at = "tell"]) BY <1>5, <1>m, Steps DEF VisitPlaces
  <2> QED BY <2>1
<1>6. CASE Tell(v)
  <2>1. Fits([p EXCEPT !.at = "mark"]) \/ Fits([p EXCEPT !.at = "reload"]) \/ Fits(Resting)
    BY <1>6, <1>m, <1>r, Steps DEF VisitPlaces
  <2> QED BY <2>1
<1>7. CASE Mark(v)
  <2>1. Fits([p EXCEPT !.at = "reload"]) BY <1>7, <1>m, Steps DEF VisitPlaces
  <2> QED BY <2>1
<1>8. CASE Reload(v)
  <2>1. PICK q \in Visits : Moves(v, q) /\ q.at = "route" /\ q.kind = p.kind BY <1>8, Reloading
  <2>2. p.at = "reload" BY <1>8, Reloading
  <2> QED BY <2>1, <2>2 DEF Inside
<1>9. CASE Route(v)
  <2>1. PICK q \in Visits : Moves(v, q) /\ (q.at = "want" \/ (q.at = "history" /\ q.kind = p.kind)) BY <1>9, Routing
  <2>2. p.at = "route" BY <1>9, Routing
  <2> QED BY <2>1, <2>2 DEF Inside
<1>10. CASE History(v)
  <2>1. Fits([p EXCEPT !.at = "replayed"]) \/ Fits([p EXCEPT !.at = "card"]) \/ Fits(Resting)
    BY <1>10, <1>m, <1>r, Steps DEF VisitPlaces
  <2> QED BY <2>1
<1>11. CASE MarkReplayed(v)
  <2>1. Fits([p EXCEPT !.at = "card"]) BY <1>11, <1>m, Steps DEF VisitPlaces
  <2> QED BY <2>1
<1>12. CASE Card(v)
  <2>1. Fits(Resting) BY <1>12, <1>r, Steps
  <2> QED BY <2>1
<1> QED BY <1>1, <1>2, <1>3, <1>4, <1>5, <1>6, <1>7, <1>8, <1>9, <1>10, <1>11, <1>12 DEF VisitStep

-----------------------------------------------------------------------------
(* Topics: the invariants                                                  *)

\* No two visits hold the same mutex.
Apart == \A v, w \in Visitors : v # w /\ Inside(visit[v]) /\ Inside(visit[w]) => Mutex(v) # Mutex(w)
\* While nothing was lost, a root is in the table or about to be stored by the one who made it;
\* who is about to make one finds none that was made under its mutex.
Kept(r) ==
  \/ row[<<roots[r].chat, roots[r].thread>>] # None
  \/ \E v \in Visitors : visit[v].at = "store" /\ visit[v].root = r /\ Mutex(v) = roots[r].under
Few ==
  Faults = 0 =>
    /\ \A r \in 1..Len(roots) : Kept(r)
    /\ \A v \in Visitors, r \in 1..Len(roots) :
         visit[v].at = "send" /\ roots[r].thread = visit[v].thread => roots[r].under # Mutex(v)
    /\ \A r, s \in 1..Len(roots) :
         roots[r].thread = roots[s].thread /\ roots[r].under = roots[s].under => r = s
\* A notice that was sent is marked, about to be marked, or was lost; so is a replay.
Marking(v, k) == visit[v].at = "mark" /\ visit[v].kind = "sync" /\ <<visit[v].chat, visit[v].thread>> = k
Told ==
  \A k \in Chats \X Threads :
    /\ notices[k] <= 1 + Faults
    /\ k \notin activated /\ (\A v \in Visitors : ~Marking(v, k)) => notices[k] <= Faults
Replaying(v, r) == visit[v].at = "replayed" /\ visit[v].root = r
Filled ==
  \A r \in Roots :
    /\ copies[r] <= 1 + Faults
    /\ r \notin replayed /\ (\A v \in Visitors : ~Replaying(v, r)) => copies[r] <= Faults
TopicsInv == PlacedInv /\ Apart /\ Few /\ Told /\ Filled

LEMMA ApartStep ==
  ASSUME PlacedInv, Apart, NEW v \in Visitors, Visit(v) \/ VisitStep(v)
  PROVE  Apart'
<1>1. PICK q : Moves(v, q) /\ (Inside(q) => (Inside(visit[v]) \/ Begin(v)) /\ q.kind = visit[v].kind)
  BY StepMoves
<1>2. ASSUME NEW w \in Visitors, w # v, Inside(q), Inside(visit[w])
      PROVE  Mutex(v) # Mutex(w)
  <2>1. CASE Inside(visit[v]) BY <1>2, <2>1 DEF Apart
  <2>2. CASE Begin(v)
    <3>1. ~Locked(w, Mutex(v)) BY <2>2 DEF Begin, Free
    <3> QED BY <1>2, <3>1 DEF Locked, At, Inside
  <2> QED BY <1>1, <1>2, <2>1, <2>2
<1> SUFFICES ASSUME NEW u \in Visitors, NEW w \in Visitors, u # w, Inside(visit'[u]), Inside(visit'[w])
             PROVE  Mutex(u)' # Mutex(w)'
  BY DEF Apart, Inside
<1>3. \A z \in Visitors : Inside(visit'[z]) => Mutex(z)' = Mutex(z)
  BY <1>1 DEF Moves, Mutex
<1>4. CASE u = v BY <1>1, <1>2, <1>3, <1>4 DEF Moves
<1>5. CASE w = v BY <1>1, <1>2, <1>3, <1>5 DEF Moves
<1>6. CASE u # v /\ w # v BY <1>1, <1>3, <1>6 DEF Moves, Apart
<1> QED BY <1>4, <1>5, <1>6

\* The visits that are told of, or fill, a topic are alone at it.
LEMMA OneMarks ==
  ASSUME PlacedInv, Apart, NEW v \in Visitors, NEW k, visit[v].at = "tell", visit[v].kind = "sync"
  PROVE  \A w \in Visitors : ~Marking(w, k)
BY DEF Apart, Marking, Inside, Mutex

LEMMA OneReplays ==
  ASSUME PlacedInv, Apart, NEW v \in Visitors, NEW r, visit[v].at = "history"
  PROVE  \A w \in Visitors : ~Replaying(w, r)
<1>1. \A w \in Visitors : visit[w].at = "replayed" => visit[w].kind # "open"
  BY DEF PlacedInv, Placed, VisitOK
<1>2. visit[v].kind # "open" BY DEF PlacedInv, Placed, VisitOK
<1> QED BY <1>1, <1>2 DEF Apart, Replaying, Inside, Mutex

\* Notices: everyone's own are counted; nobody else marks meanwhile.
LEMMA ToldFrame ==
  ASSUME PlacedInv, Told, NEW v \in Visitors, NEW q, Moves(v, q), UNCHANGED notices,
         activated \subseteq activated', Faults' \in Nat, Faults' >= Faults,
         visit[v].at = "mark" => <<visit[v].chat, visit[v].thread>> \in activated'
  PROVE  Told'
<1> SUFFICES ASSUME NEW k \in Chats \X Threads
             PROVE  /\ notices'[k] <= 1 + Faults'
                    /\ k \notin activated' /\ (\A w \in Visitors : ~Marking(w, k)') => notices'[k] <= Faults'
  BY DEF Told
<1>1. Faults \in Nat /\ notices[k] \in Nat /\ notices'[k] = notices[k]
  BY Spending DEF PlacedInv, TopicsTypeOK
<1>2. notices'[k] <= 1 + Faults' BY <1>1 DEF Told
<1>3. ASSUME k \notin activated', \A w \in Visitors : ~Marking(w, k)'
      PROVE  notices'[k] <= Faults'
  <2>1. \A w \in Visitors : w # v => ~Marking(w, k) BY <1>3 DEF Moves, Marking
  <2>2. ~Marking(v, k) BY <1>3 DEF Marking
  <2>3. k \notin activated /\ \A w \in Visitors : ~Marking(w, k) BY <1>3, <2>1, <2>2
  <2>4. notices[k] <= Faults BY <2>3 DEF Told
  <2> QED BY <1>1, <2>4
<1> QED BY <1>2, <1>3

LEMMA ToldStep ==
  ASSUME PlacedInv, Apart, Told, NEW v \in Visitors, Visit(v) \/ VisitStep(v)
  PROVE  Told' /\ notices' \in [Chats \X Threads -> Nat]
<1>0. /\ Faults \in Nat /\ Faults' \in Nat /\ Faults' >= Faults
      /\ notices \in [Chats \X Threads -> Nat] /\ activated \subseteq activated'
  BY StepSpends, StepMarks, Spending DEF PlacedInv, TopicsTypeOK
<1>1. CASE UNCHANGED notices
  <2>1. PICK q : Moves(v, q) BY StepMoves
  <2> QED BY <1>0, <1>1, <2>1, StepMarks, ToldFrame
<1>2. CASE Tell(v) /\ notices' # notices
  <2> DEFINE p == visit[v]
             key == <<p.chat, p.thread>>
  <2>1. /\ p.at = "tell" /\ ~Forced(v) /\ Activates(v) /\ p.kind \in Kinds
        /\ notices' = [notices EXCEPT ![key] = @ + 1] /\ UNCHANGED activated
        /\ (Go(v, "mark") /\ UNCHANGED spent) \/ Loss
    <3>1. p.at = "tell" /\ UNCHANGED activated BY <1>2 DEF Tell, At
    <3>2. /\ Activates(v) /\ notices' = [notices EXCEPT ![key] = IF Forced(v) THEN @ ELSE @ + 1]
          /\ (Go(v, "mark") /\ UNCHANGED spent) \/ Loss
      BY <1>2 DEF Tell
    <3>3. ~Forced(v)
      <4>1. Forced(v) => notices' = notices BY <1>0, <3>2
      <4> QED BY <1>2, <4>1
    <3>4. p.kind \in Kinds BY DEF PlacedInv, TopicsTypeOK, Visits
    <3> QED BY <3>1, <3>2, <3>3, <3>4
  <2>2. p.kind = "sync" /\ key \notin activated BY <2>1 DEF Activates, Forced, Kinds
  <2>3. key \in Chats \X Threads BY <2>1 DEF PlacedInv, Placed, VisitOK
  <2>4. notices[key] <= Faults
    <3>1. \A w \in Visitors : ~Marking(w, key) BY <2>1, <2>2, OneMarks
    <3> QED BY <2>2, <2>3, <3>1 DEF Told
  <2>5. notices' \in [Chats \X Threads -> Nat] /\ notices'[key] = notices[key] + 1 BY <1>0, <2>1, <2>3
  <2>6. (Go(v, "mark") /\ UNCHANGED spent /\ Faults' = Faults) \/ Faults' = Faults + 1
    BY <2>1, Spending DEF PlacedInv
  <2>7. ASSUME NEW k \in Chats \X Threads
        PROVE  /\ notices'[k] <= 1 + Faults'
               /\ k \notin activated' /\ (\A w \in Visitors : ~Marking(w, k)') => notices'[k] <= Faults'
    <3>1. CASE k = key
      <4>1. notices'[k] <= 1 + Faults' BY <1>0, <2>3, <2>4, <2>5, <3>1
      <4>2. CASE Faults' = Faults + 1 BY <1>0, <2>3, <2>4, <2>5, <3>1, <4>1, <4>2
      <4>3. CASE Go(v, "mark")
        <5>1. visit'[v] = [p EXCEPT !.at = "mark"] /\ p \in Visits BY <4>3 DEF Go, PlacedInv, TopicsTypeOK
        <5>2. Marking(v, k)' BY <2>2, <3>1, <5>1 DEF Marking, Visits
        <5> QED BY <4>1, <5>2
      <4> QED BY <2>6, <4>2, <4>3
    <3>2. CASE k # key
      <4>1. notices'[k] = notices[k] /\ notices[k] \in Nat BY <1>0, <2>1, <3>2
      <4>2. notices[k] <= 1 + Faults BY DEF Told
      <4>3. ASSUME k \notin activated', \A w \in Visitors : ~Marking(w, k)' PROVE notices[k] <= Faults
        <5>1. PICK q : Moves(v, q) BY <1>2, StepMoves
        <5>2. \A w \in Visitors : w # v => ~Marking(w, k) BY <4>3, <5>1 DEF Moves, Marking
        <5>3. ~Marking(v, k) BY <2>1 DEF Marking
        <5>4. k \notin activated BY <2>1, <4>3
        <5>5. \A w \in Visitors : ~Marking(w, k) BY <5>2, <5>3
        <5> QED BY <5>4, <5>5 DEF Told
      <4> QED BY <1>0, <4>1, <4>2, <4>3
    <3> QED BY <3>1, <3>2
  <2> QED BY <2>5, <2>7 DEF Told
<1> QED BY <1>1, <1>2, StepMarks

LEMMA FilledFrame ==
  ASSUME PlacedInv, Filled, NEW v \in Visitors, NEW q, Moves(v, q), UNCHANGED copies,
         replayed \subseteq replayed', Faults' \in Nat, Faults' >= Faults,
         visit[v].at = "replayed" => visit[v].root \in replayed'
  PROVE  Filled'
<1> SUFFICES ASSUME NEW r \in Roots
             PROVE  /\ copies'[r] <= 1 + Faults'
                    /\ r \notin replayed' /\ (\A w \in Visitors : ~Replaying(w, r)') => copies'[r] <= Faults'
  BY DEF Filled
<1>1. Faults \in Nat /\ copies[r] \in Nat /\ copies'[r] = copies[r]
  BY Spending DEF PlacedInv, TopicsTypeOK
<1>2. copies'[r] <= 1 + Faults' BY <1>1 DEF Filled
<1>3. ASSUME r \notin replayed', \A w \in Visitors : ~Replaying(w, r)'
      PROVE  copies'[r] <= Faults'
  <2>1. \A w \in Visitors : w # v => ~Replaying(w, r) BY <1>3 DEF Moves, Replaying
  <2>2. ~Replaying(v, r) BY <1>3 DEF Replaying
  <2>3. r \notin replayed /\ \A w \in Visitors : ~Replaying(w, r) BY <1>3, <2>1, <2>2
  <2>4. copies[r] <= Faults BY <2>3 DEF Filled
  <2> QED BY <1>1, <2>4
<1> QED BY <1>2, <1>3

LEMMA FilledStep ==
  ASSUME PlacedInv, Apart, Filled, NEW v \in Visitors, Visit(v) \/ VisitStep(v)
  PROVE  Filled' /\ copies' \in [Roots -> Nat]
<1>0. /\ Faults \in Nat /\ Faults' \in Nat /\ Faults' >= Faults
      /\ copies \in [Roots -> Nat] /\ replayed \subseteq replayed'
  BY StepSpends, StepMarks, Spending DEF PlacedInv, TopicsTypeOK
<1>1. CASE UNCHANGED copies
  <2>1. PICK q : Moves(v, q) BY StepMoves
  <2> QED BY <1>0, <1>1, <2>1, StepMarks, FilledFrame
<1>2. CASE History(v) /\ copies' # copies
  <2> DEFINE root == visit[v].root
  <2>1. /\ visit[v].at = "history" /\ root \notin replayed /\ UNCHANGED replayed
        /\ copies' = [copies EXCEPT ![root] = @ + 1]
        /\ (Go(v, "replayed") /\ UNCHANGED spent) \/ Loss
    BY <1>2 DEF History, At, Replays
  <2>2. root \in Roots
    <3>1. Owns(roots, root, visit[v].chat, visit[v].thread) BY <2>1 DEF PlacedInv, Placed, VisitOK
    <3> QED BY <3>1, TopicsAssumption DEF Owns, Roots, PlacedInv, TopicsTypeOK
  <2>3. copies[root] <= Faults
    <3>1. \A w \in Visitors : ~Replaying(w, root) BY <2>1, OneReplays
    <3> QED BY <2>1, <2>2, <3>1 DEF Filled
  <2>4. copies' \in [Roots -> Nat] /\ copies'[root] = copies[root] + 1 BY <1>0, <2>1, <2>2
  <2>5. (Go(v, "replayed") /\ UNCHANGED spent /\ Faults' = Faults) \/ Faults' = Faults + 1
    BY <2>1, Spending DEF PlacedInv
  <2>6. ASSUME NEW r \in Roots
        PROVE  /\ copies'[r] <= 1 + Faults'
               /\ r \notin replayed' /\ (\A w \in Visitors : ~Replaying(w, r)') => copies'[r] <= Faults'
    <3>1. CASE r = root
      <4>1. copies'[r] <= 1 + Faults' BY <1>0, <2>2, <2>3, <2>4, <3>1
      <4>2. CASE Faults' = Faults + 1 BY <1>0, <2>2, <2>3, <2>4, <3>1, <4>1, <4>2
      <4>3. CASE Go(v, "replayed")
        <5>1. visit'[v] = [visit[v] EXCEPT !.at = "replayed"] /\ visit[v] \in Visits
          BY <4>3 DEF Go, PlacedInv, TopicsTypeOK
        <5>2. Replaying(v, r)' BY <3>1, <5>1 DEF Replaying, Visits
        <5> QED BY <4>1, <5>2
      <4> QED BY <2>5, <4>2, <4>3
    <3>2. CASE r # root
      <4>1. copies'[r] = copies[r] /\ copies[r] \in Nat BY <1>0, <2>1, <3>2
      <4>2. copies[r] <= 1 + Faults BY DEF Filled
      <4>3. ASSUME r \notin replayed', \A w \in Visitors : ~Replaying(w, r)' PROVE copies[r] <= Faults
        <5>1. PICK q : Moves(v, q) BY <1>2, StepMoves
        <5>2. \A w \in Visitors : w # v => ~Replaying(w, r) BY <4>3, <5>1 DEF Moves, Replaying
        <5>3. ~Replaying(v, r) BY <2>1 DEF Replaying
        <5>4. r \notin replayed BY <2>1, <4>3
        <5>5. \A w \in Visitors : ~Replaying(w, r) BY <5>2, <5>3
        <5> QED BY <5>4, <5>5 DEF Filled
      <4> QED BY <1>0, <4>1, <4>2, <4>3
    <3> QED BY <3>1, <3>2
  <2> QED BY <2>4, <2>6 DEF Filled
<1> QED BY <1>1, <1>2, StepMarks

LEMMA RootsTyped ==
  ASSUME PlacedInv, NEW r \in 1..Len(roots)
  PROVE  roots[r].chat \in Chats /\ roots[r].thread \in Threads
<1>1. roots \in Seq(RootRecords) BY DEF PlacedInv, TopicsTypeOK
<1>2. roots[r] \in RootRecords BY <1>1
<1> QED BY <1>2 DEF RootRecords

\* A root that is in the table stays there, and the one who made it keeps it until it is.
LEMMA KeptStays ==
  ASSUME PlacedInv, NEW v \in Visitors, NEW q, Moves(v, q), Gains(roots', row'), Len(roots') \in Nat,
         NEW r \in 1..Len(roots), Kept(r), visit[v].at # "store"
  PROVE  Kept(r)'
<1>1. roots'[r] = roots[r] /\ roots[r].chat \in Chats /\ roots[r].thread \in Threads
  BY RootsTyped DEF Gains
<1>2. CASE row[<<roots[r].chat, roots[r].thread>>] # None BY <1>1, <1>2 DEF Kept, Gains
<1>3. ASSUME NEW w \in Visitors, visit[w].at = "store", visit[w].root = r, Mutex(w) = roots[r].under
      PROVE  Kept(r)'
  <2>1. visit'[w] = visit[w] BY <1>3 DEF Moves
  <2>2. Mutex(w)' = Mutex(w) BY <2>1 DEF Mutex
  <2> QED BY <1>1, <1>3, <2>1, <2>2 DEF Kept
<1> QED BY <1>2, <1>3 DEF Kept

LEMMA FewFrame ==
  ASSUME PlacedInv, Few, NEW v \in Visitors, NEW q, Moves(v, q), UNCHANGED roots, Gains(roots', row'),
         Faults' \in Nat, Faults' >= Faults, visit[v].at # "store", q.at # "send"
  PROVE  Few'
<1> SUFFICES ASSUME Faults' = 0
             PROVE  /\ \A r \in 1..Len(roots) : Kept(r)'
                    /\ \A w \in Visitors, r \in 1..Len(roots) :
                         visit'[w].at = "send" /\ roots[r].thread = visit'[w].thread => roots[r].under # Mutex(w)'
                    /\ \A r, s \in 1..Len(roots) :
                         roots[r].thread = roots[s].thread /\ roots[r].under = roots[s].under => r = s
  BY DEF Few
<1>1. Faults = 0 BY Spending DEF PlacedInv
<1>2. Len(roots') \in Nat BY DEF PlacedInv, TopicsTypeOK
<1>3. \A r \in 1..Len(roots) : Kept(r)' BY <1>1, <1>2, KeptStays DEF Few
<1>4. ASSUME NEW w \in Visitors, NEW r \in 1..Len(roots), visit'[w].at = "send",
             roots[r].thread = visit'[w].thread
      PROVE  roots[r].under # Mutex(w)'
  <2>1. w # v /\ visit'[w] = visit[w] BY <1>4 DEF Moves
  <2>2. Mutex(w)' = Mutex(w) BY <2>1 DEF Mutex
  <2> QED BY <1>1, <1>4, <2>1, <2>2 DEF Few
<1> QED BY <1>1, <1>3, <1>4 DEF Few

\* The lookup found no row of the thread: whoever made a root of it holds the other mutex.
LEMMA FewLook ==
  ASSUME PlacedInv, Apart, Few, NEW v \in Visitors, Look(v), Moves(v, [visit[v] EXCEPT !.at = "send"]),
         \A c \in Chats : row[<<c, visit[v].thread>>] = None
  PROVE  Few'
<1> DEFINE p == visit[v]
           q == [p EXCEPT !.at = "send"]
<1>1. /\ UNCHANGED <<roots, row, spent>> /\ p.at = "look" /\ p \in Visits
  BY Looking DEF tables, PlacedInv, TopicsTypeOK
<1>2. q.at = "send" /\ q.kind = p.kind /\ q.thread = p.thread BY <1>1 DEF Visits
<1> SUFFICES ASSUME Faults = 0
             PROVE  /\ \A r \in 1..Len(roots) : Kept(r)'
                    /\ \A w \in Visitors, r \in 1..Len(roots) :
                         visit'[w].at = "send" /\ roots[r].thread = visit'[w].thread => roots[r].under # Mutex(w)'
  BY <1>1 DEF Few, Faults
<1>3. Gains(roots', row') /\ Len(roots') \in Nat BY <1>1, GainsNothing DEF PlacedInv
<1>4. \A r \in 1..Len(roots) : Kept(r)' BY <1>1, <1>3, KeptStays DEF Few
<1>5. ASSUME NEW w \in Visitors, NEW r \in 1..Len(roots), visit'[w].at = "send",
             roots[r].thread = visit'[w].thread
      PROVE  roots[r].under # Mutex(w)'
  <2>1. CASE w = v
    <3>1. Mutex(v)' = Mutex(v) /\ roots[r].thread = p.thread BY <1>2, <1>5, <2>1 DEF Moves, Mutex
    <3>2. roots[r].chat \in Chats BY RootsTyped
    <3>3. row[<<roots[r].chat, roots[r].thread>>] = None BY <3>1, <3>2
    <3>4. Kept(r) BY DEF Few
    <3>5. PICK u \in Visitors : visit[u].at = "store" /\ visit[u].root = r /\ Mutex(u) = roots[r].under
      BY <3>3, <3>4 DEF Kept
    <3>6. u # v BY <1>1, <3>5
    <3>7. Mutex(u) # Mutex(v) BY <1>1, <3>5, <3>6 DEF Apart, Inside
    <3> QED BY <2>1, <3>1, <3>5, <3>7
  <2>2. CASE w # v
    <3>1. visit'[w] = visit[w] BY <2>2 DEF Moves
    <3>2. Mutex(w)' = Mutex(w) BY <3>1 DEF Mutex
    <3> QED BY <1>5, <3>1, <3>2 DEF Few
  <2> QED BY <2>1, <2>2
<1> QED BY <1>4, <1>5

LEMMA FewSend ==
  ASSUME PlacedInv, Apart, Few, NEW v \in Visitors, SendRoot(v)
  PROVE  Few'
<1> DEFINE p == visit[v]
           sent == [chat |-> p.chat, thread |-> p.thread, under |-> Mutex(v)]
           new == Len(roots) + 1
           q == [p EXCEPT !.at = "store", !.root = new]
<1>1. /\ p.at = "send" /\ p \in Visits /\ Gains(roots', row') /\ Len(roots') \in Nat /\ Faults \in Nat
      /\ Len(roots) \in Nat /\ roots \in Seq(RootRecords) /\ sent \in RootRecords
  <2>1. p.at = "send" /\ sent \in RootRecords /\ Gains(roots', row') /\ roots' \in Seq(RootRecords) BY Sending
  <2>2. Len(roots') \in Nat BY <2>1
  <2> QED BY <2>1, <2>2, Spending DEF PlacedInv, TopicsTypeOK
<1>2. CASE Loss
  <2>1. Faults' = Faults + 1 BY <1>2, Spending DEF PlacedInv
  <2> QED BY <1>1, <2>1 DEF Few
<1>3. CASE roots' = Append(roots, sent) /\ spent' = spent /\ Moves(v, q)
  <2>1. q.at = "store" /\ q.root = new /\ q.kind = p.kind /\ q.thread = p.thread BY <1>1 DEF Visits
  <2>2. sent.chat = p.chat /\ sent.thread = p.thread /\ sent.under = Mutex(v) OBVIOUS
  <2> HIDE DEF sent, q
  <2>3. Len(roots') = new /\ roots'[new] = sent /\ \A r \in 1..Len(roots) : roots'[r] = roots[r]
    BY <1>1, <1>3
  <2>4. Mutex(v)' = Mutex(v) BY <1>3, <2>1 DEF Moves, Mutex
  <2> SUFFICES ASSUME Faults = 0
               PROVE  /\ \A r \in 1..new : Kept(r)'
                      /\ \A w \in Visitors, r \in 1..new :
                           visit'[w].at = "send" /\ roots'[r].thread = visit'[w].thread => roots'[r].under # Mutex(w)'
                      /\ \A r, s \in 1..new :
                           roots'[r].thread = roots'[s].thread /\ roots'[r].under = roots'[s].under => r = s
    BY <1>3, <2>3 DEF Few, Faults
  <2>5. ASSUME NEW r \in 1..new PROVE Kept(r)'
    <3>1. CASE r = new
      <4>1. visit'[v].at = "store" /\ visit'[v].root = r BY <1>3, <2>1, <3>1 DEF Moves
      <4>2. Mutex(v)' = roots'[r].under BY <2>2, <2>3, <2>4, <3>1
      <4> QED BY <4>1, <4>2 DEF Kept
    <3>2. CASE r # new
      <4>1. r \in 1..Len(roots) BY <1>1, <3>2
      <4>2. Kept(r) /\ p.at # "store" BY <1>1, <4>1 DEF Few
      <4> QED BY <1>1, <1>3, <4>1, <4>2, KeptStays
    <3> QED BY <3>1, <3>2
  <2>6. ASSUME NEW w \in Visitors, NEW r \in 1..new, visit'[w].at = "send",
               roots'[r].thread = visit'[w].thread
        PROVE  roots'[r].under # Mutex(w)'
    <3>1. w # v /\ visit'[w] = visit[w] BY <1>3, <2>1, <2>6 DEF Moves
    <3>2. Mutex(w)' = Mutex(w) BY <3>1 DEF Mutex
    <3>3. CASE r = new
      <4>1. Mutex(v) # Mutex(w) BY <1>1, <2>6, <3>1 DEF Apart, Inside
      <4> QED BY <2>2, <2>3, <3>2, <3>3, <4>1
    <3>4. CASE r # new
      <4>1. r \in 1..Len(roots) BY <1>1, <3>4
      <4> QED BY <2>3, <2>6, <3>1, <3>2, <4>1 DEF Few
    <3> QED BY <3>3, <3>4
  <2>7. \A r \in 1..Len(roots) : ~(roots[r].thread = p.thread /\ roots[r].under = Mutex(v))
    BY <1>1 DEF Few
  <2>8. ASSUME NEW r \in 1..new, NEW s \in 1..new, roots'[r].thread = roots'[s].thread,
               roots'[r].under = roots'[s].under
        PROVE  r = s
    <3>1. CASE r = new /\ s = new BY <3>1
    <3>2. CASE r = new /\ s # new
      <4>1. s \in 1..Len(roots) BY <1>1, <3>2
      <4> QED BY <2>2, <2>3, <2>7, <2>8, <3>2, <4>1
    <3>3. CASE r # new /\ s = new
      <4>1. r \in 1..Len(roots) BY <1>1, <3>3
      <4> QED BY <2>2, <2>3, <2>7, <2>8, <3>3, <4>1
    <3>4. CASE r # new /\ s # new
      <4>1. r \in 1..Len(roots) /\ s \in 1..Len(roots) BY <1>1, <3>4
      <4> QED BY <2>3, <2>8, <4>1 DEF Few
    <3> QED BY <3>1, <3>2, <3>3, <3>4
  <2> QED BY <2>5, <2>6, <2>8
<1> QED BY <1>2, <1>3, Sending

LEMMA FewStore ==
  ASSUME PlacedInv, Apart, Few, NEW v \in Visitors, StoreRoot(v), Gains(roots', row')
  PROVE  Few'
<1> DEFINE p == visit[v]
           q == [p EXCEPT !.at = "tell"]
<1>1. /\ p.at = "store" /\ p \in Visits /\ Moves(v, q) /\ VisitOK(p, roots, row)
      /\ Put(p.chat, p.thread, p.root) /\ UNCHANGED <<roots, spent>>
  BY Steps DEF StoreRoot, PlacedInv, TopicsTypeOK, Placed
<1>2. q.at = "tell" BY <1>1 DEF Visits
<1> HIDE DEF q
<1>3. /\ p.chat \in Chats /\ p.thread \in Threads /\ Owns(roots, p.root, p.chat, p.thread) BY <1>1 DEF VisitOK
<1>4. row'[<<p.chat, p.thread>>] # None
  <2>1. row'[<<p.chat, p.thread>>] = p.root /\ p.root # None BY <1>1, <1>3, Putting
  <2> QED BY <2>1
<1> SUFFICES ASSUME Faults = 0
             PROVE  /\ \A r \in 1..Len(roots) : Kept(r)'
                    /\ \A w \in Visitors, r \in 1..Len(roots) :
                         visit'[w].at = "send" /\ roots[r].thread = visit'[w].thread => roots[r].under # Mutex(w)'
  BY <1>1 DEF Few, Faults
<1>5. ASSUME NEW r \in 1..Len(roots) PROVE Kept(r)'
  <2>1. roots[r].chat \in Chats /\ roots[r].thread \in Threads BY RootsTyped
  <2>2. CASE row[<<roots[r].chat, roots[r].thread>>] # None BY <1>1, <2>1, <2>2 DEF Kept, Gains
  <2>3. ASSUME NEW w \in Visitors, visit[w].at = "store", visit[w].root = r, Mutex(w) = roots[r].under
        PROVE  Kept(r)'
    <3>1. CASE w = v BY <1>1, <1>3, <1>4, <2>3, <3>1 DEF Kept, Owns
    <3>2. CASE w # v
      <4>1. visit'[w] = visit[w] BY <1>1, <3>2 DEF Moves
      <4>2. Mutex(w)' = Mutex(w) BY <4>1 DEF Mutex
      <4> QED BY <1>1, <2>3, <4>1, <4>2 DEF Kept
    <3> QED BY <3>1, <3>2
  <2>4. Kept(r) BY DEF Few
  <2> QED BY <2>2, <2>3, <2>4 DEF Kept
<1>6. ASSUME NEW w \in Visitors, NEW r \in 1..Len(roots), visit'[w].at = "send",
             roots[r].thread = visit'[w].thread
      PROVE  roots[r].under # Mutex(w)'
  <2>1. w # v /\ visit'[w] = visit[w] BY <1>1, <1>2, <1>6 DEF Moves
  <2>2. Mutex(w)' = Mutex(w) BY <2>1 DEF Mutex
  <2> QED BY <1>6, <2>1, <2>2 DEF Few
<1> QED BY <1>5, <1>6

LEMMA FewStep ==
  ASSUME PlacedInv, Apart, Few, NEW v \in Visitors, Visit(v) \/ VisitStep(v)
  PROVE  Few'
<1>1. Gains(roots', row') /\ Faults' \in Nat /\ Faults' >= Faults BY PlacedStep, StepSpends
<1>2. CASE SendRoot(v) BY <1>2, FewSend
<1>3. CASE StoreRoot(v) BY <1>1, <1>3, FewStore
<1>4. CASE Look(v) /\ \E q : Moves(v, q) /\ q.at # "send"
  <2>1. PICK q : Moves(v, q) /\ q.at # "send" BY <1>4
  <2>2. UNCHANGED roots /\ visit[v].at # "store" BY <1>4, Looking
  <2> QED BY <1>1, <2>1, <2>2, FewFrame
<1>5. CASE Look(v) /\ ~\E q : Moves(v, q) /\ q.at # "send"
  <2>1. ~Moves(v, Resting) BY <1>5 DEF Resting
  <2>2. /\ \A c \in Chats : row[<<c, visit[v].thread>>] = None
        /\ Moves(v, [visit[v] EXCEPT !.at = "send"])
    BY <1>5, <2>1, Looking
  <2> QED BY <1>5, <2>2, FewLook
<1>6. CASE ~SendRoot(v) /\ ~StoreRoot(v) /\ ~Look(v)
  <2>1. PICK q : Moves(v, q) /\ q.at # "send" BY <1>6, StepMoves
  <2>2. UNCHANGED roots /\ visit[v].at # "store" BY <1>6, StepMarks
  <2> QED BY <1>1, <2>1, <2>2, FewFrame
<1> QED BY <1>2, <1>3, <1>4, <1>5, <1>6

-----------------------------------------------------------------------------
(* Topics: a restart, the start, and the theorem                           *)

LEMMA TopicsStop ==
  ASSUME TopicsInv, Stop
  PROVE  TopicsInv'
<1>1. /\ UNCHANGED <<roots, row, newest, activated, replayed, copies, notices>>
      /\ spent' \in [visits : Nat, losses : Nat, stops : Nat] /\ Faults' = Faults + 1 /\ Faults \in Nat
  BY Spending DEF Stop, tables, TopicsInv, PlacedInv
<1>2. /\ visit' \in [Visitors -> Visits] /\ \A v \in Visitors : visit'[v] = Resting
  BY DEF Stop, Resting, Visits, VisitPlaces, Kinds
<1>3. TopicsTypeOK' BY <1>1, <1>2 DEF TopicsInv, PlacedInv, TopicsTypeOK
<1>4. Placed' BY <1>1, <1>2, RestingOK DEF TopicsInv, PlacedInv, Placed
<1>5. Apart' BY <1>2 DEF Apart, Inside, Resting
<1>6. Few' BY <1>1 DEF Few
<1>7. Told'
  <2>1. \A k \in Chats \X Threads : notices'[k] = notices[k] /\ notices[k] \in Nat /\ notices[k] <= 1 + Faults
    BY <1>1 DEF TopicsInv, Told, PlacedInv, TopicsTypeOK
  <2>2. \A k \in Chats \X Threads : notices'[k] <= Faults' /\ notices'[k] <= 1 + Faults' BY <1>1, <2>1
  <2> QED BY <2>2 DEF Told
<1>8. Filled'
  <2>1. \A r \in Roots : copies'[r] = copies[r] /\ copies[r] \in Nat /\ copies[r] <= 1 + Faults
    BY <1>1 DEF TopicsInv, Filled, PlacedInv, TopicsTypeOK
  <2>2. \A r \in Roots : copies'[r] <= Faults' /\ copies'[r] <= 1 + Faults' BY <1>1, <2>1
  <2> QED BY <2>2 DEF Filled
<1> QED BY <1>3, <1>4, <1>5, <1>6, <1>7, <1>8 DEF TopicsInv, PlacedInv

LEMMA TopicsStart == TopicsInit => TopicsInv
<1> SUFFICES ASSUME TopicsInit PROVE TopicsInv
  OBVIOUS
<1>1. /\ roots = <<>> /\ Len(roots) = 0 /\ Len(roots) <= MaxRoots /\ roots \in Seq(RootRecords)
  BY TopicsAssumption DEF TopicsInit
<1>2. /\ visit \in [Visitors -> Visits] /\ \A v \in Visitors : visit[v] = Resting
  BY DEF TopicsInit, Resting, Visits, VisitPlaces, Kinds
<1>3. /\ row \in [Chats \X Threads -> Roots \cup {None}] /\ \A k \in Chats \X Threads : row[k] = None
      /\ newest \in [Threads -> Chats \cup {None}] /\ \A t \in Threads : newest[t] = None
      /\ copies \in [Roots -> Nat] /\ \A r \in Roots : copies[r] = 0
      /\ notices \in [Chats \X Threads -> Nat] /\ \A k \in Chats \X Threads : notices[k] = 0
  BY DEF TopicsInit
<1>4. spent \in [visits : Nat, losses : Nat, stops : Nat] /\ Faults = 0 BY DEF TopicsInit, Faults
<1>5. TopicsTypeOK BY <1>1, <1>2, <1>3, <1>4 DEF TopicsTypeOK
<1>6. Placed BY <1>2, <1>3, RestingOK DEF Placed, RowsOK, NewestOK
<1>7. Apart BY <1>2 DEF Apart, Inside, Resting
<1>8. Few BY <1>1, <1>2 DEF Few, Resting
<1>9. Told /\ Filled BY <1>3, <1>4 DEF Told, Filled
<1> QED BY <1>5, <1>6, <1>7, <1>8, <1>9 DEF TopicsInv, PlacedInv

LEMMA TopicsKept == TopicsInv /\ [TopicsNext]_topicVars => TopicsInv'
<1> SUFFICES ASSUME TopicsInv, [TopicsNext]_topicVars PROVE TopicsInv'
  OBVIOUS
<1>1. CASE UNCHANGED topicVars
  <2>1. UNCHANGED <<roots, row, newest, activated, replayed, copies, notices, visit, spent>>
    BY <1>1 DEF topicVars, tables
  <2>2. PlacedInv' BY <2>1 DEF TopicsInv, PlacedInv, TopicsTypeOK, Placed
  <2>3. Apart' BY <2>1 DEF TopicsInv, Apart, Mutex
  <2>4. Few' BY <2>1 DEF TopicsInv, Few, Faults, Kept, Mutex
  <2>5. Told' /\ Filled' BY <2>1 DEF TopicsInv, Told, Filled, Faults, Marking, Replaying
  <2> QED BY <2>2, <2>3, <2>4, <2>5 DEF TopicsInv
<1>2. CASE Stop BY <1>2, TopicsStop
<1>3. ASSUME NEW v \in Visitors, Visit(v) \/ VisitStep(v) PROVE TopicsInv'
  <2>1. PlacedInv'
    <3>1. TopicsTypeOK' BY <1>3, PlacedStep, StepSpends, ToldStep, FilledStep DEF TopicsInv, TopicsTypeOK
    <3> QED BY <1>3, <3>1, PlacedStep DEF TopicsInv, PlacedInv
  <2>2. Apart' BY <1>3, ApartStep DEF TopicsInv
  <2>3. Few' BY <1>3, FewStep DEF TopicsInv
  <2>4. Told' /\ Filled' BY <1>3, ToldStep, FilledStep DEF TopicsInv
  <2> QED BY <2>1, <2>2, <2>3, <2>4 DEF TopicsInv
<1> QED BY <1>1, <1>2, <1>3 DEF TopicsNext

LEMMA TopicsHolds == TopicsInv => OneTopicEach
<1> SUFFICES ASSUME TopicsInv PROVE OneTopicEach
  OBVIOUS
<1>1. BoundToItsThread
  <2>1. ASSUME NEW k \in Chats \X Threads, row[k] # None PROVE Belongs(row[k], k[1], k[2])
    <3>1. k[1] \in Chats /\ k[2] \in Threads /\ k = <<k[1], k[2]>> OBVIOUS
    <3>2. Owns(roots, row[<<k[1], k[2]>>], k[1], k[2]) BY <2>1, <3>1 DEF TopicsInv, PlacedInv, Placed, RowsOK
    <3> QED BY <3>1, <3>2 DEF Owns, Belongs
  <2>2. ASSUME NEW v \in Visitors, At(v, {"history", "card"})
        PROVE  Belongs(visit[v].root, visit[v].chat, visit[v].thread)
    <3>1. Owns(roots, visit[v].root, visit[v].chat, visit[v].thread)
      BY <2>2 DEF At, TopicsInv, PlacedInv, Placed, VisitOK
    <3> QED BY <3>1 DEF Owns, Belongs
  <2> QED BY <2>1, <2>2 DEF BoundToItsThread
<1>2. spent.losses \in Nat /\ spent.stops \in Nat BY DEF TopicsInv, PlacedInv, TopicsTypeOK
<1>3. FewTopics BY <1>2 DEF FewTopics, RootsOf, TopicsInv, Few, Faults
<1>4. 1 + spent.losses + spent.stops = 1 + Faults BY <1>2 DEF Faults
<1>5. ToldOnce BY <1>4 DEF ToldOnce, TopicsInv, Told
<1>6. HistoryOnce BY <1>4 DEF HistoryOnce, TopicsInv, Filled
<1> QED BY <1>1, <1>3, <1>5, <1>6 DEF OneTopicEach

\* One topic for one thread: no row and no post of a visit is of another thread's topic, a mutex
\* makes one root of a thread unless an answer or the process was lost, and the notice and the
\* history come once, again only after such a loss (EnsureThreadTopic, activateThreadTopic,
\* backfillRecentThreadTopicTurns).
THEOREM OneTopic == TopicsSpec => []OneTopicEach
<1>1. TopicsSpec => []TopicsInv BY TopicsStart, TopicsKept, PTL DEF TopicsSpec
<1> QED BY <1>1, TopicsHolds, PTL

-----------------------------------------------------------------------------
(* New threads: the invariants                                             *)

TextPlaces == {"sent", "routed", "clear", "clearChat", "list", "others", "expired", "create", "refuse",
               "find", "start", "turn", "retry", "mark", "show", "shown", "failed"}
TextRecords == [at : TextPlaces, scope : Keys, arming : Nat, fresh : BOOLEAN, whole : BOOLEAN,
                left : SUBSET Scopes, thread : Nat]
ThreadRecords == [by : Texts, project : Projects, ran : BOOLEAN]
NewTypeOK ==
  /\ armings \in Seq(Projects) /\ pending \in [Keys -> 0..Len(armings)]
  /\ press \in {<<>>} \cup {<<k>> : k \in Scopes} /\ (press # <<>> => Len(armings) >= 1)
  /\ text \in [Texts -> TextRecords]
  /\ threads \in Seq(ThreadRecords) /\ mishaps \in Nat

\* Both keys of the arming are written, and no press writes it again.
Written(i, n, pr) == i \in 1..n /\ (pr = <<>> \/ i < n)
\* How far a text is with removing the arming it took.
Clearing(q, n, pr, pend) ==
  /\ q.at \notin {"sent", "routed"} => q.arming \in 1..n
  /\ q.at \in {"clear", "clearChat", "list", "others"} /\ q.whole =>
       /\ Written(q.arming, n, pr)
       /\ q.at \in {"list", "others"} => pend[Chat] # q.arming
       /\ q.at = "others" => \A k \in Scopes : pend[k] = q.arming => k \in q.left
GoneOK(set, n, pr, pend) == \A i \in set : Written(i, n, pr) /\ \A k \in Keys : pend[k] # i

\* What a text has run by now, and the thread it holds.
Unrun == {"sent", "routed", "clear", "clearChat", "list", "others", "expired", "create"}
Holds(q, ths) == q.thread \in 1..Len(ths)
RunOK(q, x, ths, runs, marked, m) ==
  /\ q.at \in Unrun => \A n \in 1..Len(ths) : ths[n].by # x
  /\ q.at \in {"start", "refuse", "turn"} => Cardinality(runs) <= m
  /\ Cardinality(runs) <= 1 + m
  /\ q.at = "turn" => Holds(q, ths) /\ ths[q.thread].by = x /\ ~ths[q.thread].ran
  /\ q.at = "mark" => Holds(q, ths) /\ ths[q.thread].by = x /\ ths[q.thread].ran
  /\ q.at = "show" =>
       /\ Holds(q, ths) /\ q.thread \in marked /\ ths[q.thread].ran
       /\ (\A y \in Texts \ {x} : <<x, y>> \notin Includes) => ths[q.thread].by = x
NewInv ==
  /\ NewTypeOK /\ GoneOK(gone, Len(armings), press, pending)
  /\ \A x \in Texts : /\ Clearing(text[x], Len(armings), press, pending)
                      /\ RunOK(text[x], x, threads, Runs(x), origin, mishaps)

-----------------------------------------------------------------------------
(* New threads: moves                                                      *)

\* One text goes on, to q.
Turns(x, q) ==
  /\ text' \in [Texts -> TextRecords]
  /\ text'[x] = q /\ \A y \in Texts \ {x} : text'[y] = text[y]

LEMMA Turning ==
  ASSUME NewTypeOK, NEW x \in Texts
  PROVE  /\ \A q \in TextRecords : text' = [text EXCEPT ![x] = q] => Turns(x, q)
         /\ \A place \in TextPlaces : Goto(x, place) => Turns(x, [text[x] EXCEPT !.at = place])
         /\ text[x] \in TextRecords
<1>1. text[x] \in TextRecords /\ text \in [Texts -> TextRecords] BY DEF NewTypeOK
<1>2. ASSUME NEW q \in TextRecords, text' = [text EXCEPT ![x] = q] PROVE Turns(x, q)
  BY <1>1, <1>2 DEF Turns
<1>3. ASSUME NEW place \in TextPlaces, Goto(x, place) PROVE Turns(x, [text[x] EXCEPT !.at = place])
  <2>1. [text[x] EXCEPT !.at = place] \in TextRecords BY <1>1 DEF TextRecords
  <2>2. text' = [text EXCEPT ![x] = [text[x] EXCEPT !.at = place]] BY <1>3 DEF Goto
  <2> QED BY <1>2, <2>1, <2>2
<1> QED BY <1>1, <1>2, <1>3

\* The keys only lose armings that are written, and only a press that is at work adds one.
Quiet(n, pr, pend) ==
  /\ Len(armings) <= n
  /\ \A i \in 1..Len(armings) : Written(i, Len(armings), press) =>
       Written(i, n, pr) /\ \A k \in Keys : pend[k] = i => pending[k] = i

LEMMA QuietClearing ==
  ASSUME NewTypeOK, NEW n \in Nat, NEW pr, NEW pend, Quiet(n, pr, pend),
         NEW q, Clearing(q, Len(armings), press, pending)
  PROVE  Clearing(q, n, pr, pend)
<1>1. Len(armings) \in Nat BY DEF NewTypeOK
<1>2. q.at \notin {"sent", "routed"} => q.arming \in 1..n BY <1>1 DEF Quiet, Clearing
<1>3. ASSUME q.at \in {"clear", "clearChat", "list", "others"}, q.whole
      PROVE  /\ Written(q.arming, n, pr)
             /\ q.at \in {"list", "others"} => pend[Chat] # q.arming
             /\ q.at = "others" => \A k \in Scopes : pend[k] = q.arming => k \in q.left
  <2>1. q.arming \in 1..Len(armings) /\ Written(q.arming, Len(armings), press) BY <1>3 DEF Clearing
  <2>2. Written(q.arming, n, pr) /\ \A k \in Keys : pend[k] = q.arming => pending[k] = q.arming
    BY <2>1 DEF Quiet
  <2> QED BY <1>3, <2>2 DEF Clearing, Keys
<1> QED BY <1>2, <1>3 DEF Clearing

LEMMA QuietGone ==
  ASSUME NewTypeOK, NEW n \in Nat, NEW pr, NEW pend, Quiet(n, pr, pend),
         GoneOK(gone, Len(armings), press, pending)
  PROVE  GoneOK(gone, n, pr, pend)
<1>1. ASSUME NEW i \in gone PROVE Written(i, n, pr) /\ \A k \in Keys : pend[k] # i
  <2>1. Written(i, Len(armings), press) /\ i \in 1..Len(armings) BY DEF GoneOK, Written
  <2> QED BY <2>1 DEF Quiet, GoneOK
<1> QED BY <1>1 DEF GoneOK

LEMMA NothingQuiet == NewTypeOK => Quiet(Len(armings), press, pending)
BY DEF NewTypeOK, Quiet

LEMMA RemovedQuiet ==
  ASSUME NewTypeOK, NEW k \in Keys, Removed(k)
  PROVE  /\ Quiet(Len(armings), press, pending') /\ pending' \in [Keys -> 0..Len(armings)]
         /\ pending'[k] = NoArming /\ \A o \in Keys \ {k} : pending'[o] = pending[o]
<1>1. /\ pending' \in [Keys -> 0..Len(armings)] /\ pending'[k] = NoArming
      /\ \A o \in Keys \ {k} : pending'[o] = pending[o]
  BY DEF NewTypeOK, Removed, NoArming
<1>2. \A i \in 1..Len(armings), o \in Keys : pending'[o] = i => pending[o] = i
  BY <1>1 DEF NewTypeOK, NoArming
<1> QED BY <1>1, <1>2 DEF Quiet, NewTypeOK

LEMMA PressQuiet ==
  ASSUME NewTypeOK, Arm \/ ArmChat
  PROVE  /\ Quiet(Len(armings)', press', pending') /\ Len(armings)' \in Nat
         /\ armings' \in Seq(Projects) /\ pending' \in [Keys -> 0..Len(armings)']
         /\ press' \in {<<>>} \cup {<<k>> : k \in Scopes} /\ (press' # <<>> => Len(armings)' >= 1)
<1>1. Len(armings) \in Nat BY DEF NewTypeOK
<1>2. CASE Arm
  <2>1. PICK p \in Projects, k \in Scopes :
          /\ armings' = Append(armings, p)
          /\ press' = <<k>> /\ pending' = [pending EXCEPT ![k] = Len(armings)']
    BY <1>2 DEF Arm
  <2>2. /\ armings' \in Seq(Projects) /\ Len(armings)' = Len(armings) + 1 /\ press = <<>>
    BY <1>2, <2>1 DEF Arm, NewTypeOK
  <2>3. k \in Keys BY DEF Keys
  <2>4. /\ pending' \in [Keys -> 0..Len(armings)'] /\ pending'[k] = Len(armings) + 1
        /\ \A o \in Keys \ {k} : pending'[o] = pending[o]
    BY <1>1, <2>1, <2>2, <2>3 DEF NewTypeOK
  <2>5. \A i \in 1..Len(armings), o \in Keys : pending'[o] = i => pending[o] = i BY <1>1, <2>4
  <2>6. \A i \in 1..Len(armings) : Written(i, Len(armings)', press') BY <1>1, <2>2 DEF Written
  <2> QED BY <1>1, <2>1, <2>2, <2>4, <2>5, <2>6 DEF Quiet
<1>3. CASE ArmChat
  <2>1. /\ press # <<>> /\ press' = <<>> /\ pending' = [pending EXCEPT ![Chat] = Len(armings)]
        /\ armings' = armings
    BY <1>3 DEF ArmChat
  <2>2. Chat \in Keys BY DEF Keys
  <2>3. /\ pending' \in [Keys -> 0..Len(armings)] /\ pending'[Chat] = Len(armings)
        /\ \A o \in Keys \ {Chat} : pending'[o] = pending[o]
    BY <1>1, <2>1, <2>2 DEF NewTypeOK
  <2>4. ASSUME NEW i \in 1..Len(armings), Written(i, Len(armings), press)
        PROVE  Written(i, Len(armings), press') /\ \A o \in Keys : pending'[o] = i => pending[o] = i
    <3>1. i < Len(armings) BY <2>1, <2>4 DEF Written
    <3> QED BY <1>1, <2>1, <2>3, <3>1 DEF Written
  <2>5. Quiet(Len(armings), press', pending') BY <1>1, <2>4 DEF Quiet
  <2>6. armings \in Seq(Projects) /\ Len(armings)' = Len(armings) BY <2>1 DEF NewTypeOK
  <2> QED BY <1>1, <2>1, <2>3, <2>5, <2>6
<1> QED BY <1>2, <1>3

-----------------------------------------------------------------------------
(* New threads: the keys                                                   *)

\* What a step of a text does to the keys and to what is gone.
KeysStep(x) ==
  /\ text' \in [Texts -> TextRecords] /\ \A y \in Texts \ {x} : text'[y] = text[y]
  /\ UNCHANGED <<armings, press>> /\ pending' \in [Keys -> 0..Len(armings)]
  /\ Quiet(Len(armings), press, pending') /\ GoneOK(gone', Len(armings), press, pending')
  /\ Clearing(text'[x], Len(armings), press, pending')
  /\ text'[x].arming # text[x].arming => text'[x].arming \notin gone

LEMMA ReadKeys ==
  ASSUME NewInv, NEW x \in Texts, Read(x)
  PROVE  KeysStep(x)
<1> DEFINE n == Len(armings)
<1>0. NewTypeOK /\ GoneOK(gone, n, press, pending) /\ n \in Nat BY DEF NewInv, NewTypeOK
<1>1. PICK k \in Scopes, fresh \in BOOLEAN :
        text' = [text EXCEPT ![x] = IF Pending(k) = NoArming THEN [Unread EXCEPT !.at = "routed"] ELSE
                  [at |-> "clear", scope |-> k, arming |-> Pending(k), fresh |-> fresh,
                   whole |-> press = <<>> \/ Pending(k) < n, left |-> {}, thread |-> 0]]
  BY DEF Read
<1>2. UNCHANGED <<armings, press, pending, gone>> BY DEF Read
<1>3. PICK o \in Keys : Pending(k) = pending[o] BY DEF Pending, Keys
<1>4. Pending(k) \in 0..n /\ \A i \in gone : Pending(k) # i /\ i # NoArming
  <2>1. pending[o] \in 0..n BY <1>0 DEF NewTypeOK
  <2>2. \A i \in gone : pending[o] # i /\ i \in 1..n BY <1>0 DEF GoneOK, Written
  <2> QED BY <1>3, <2>1, <2>2 DEF NoArming
<1>5. Quiet(n, press, pending') /\ GoneOK(gone', n, press, pending') /\ pending' \in [Keys -> 0..n]
  BY <1>0, <1>2, NothingQuiet DEF NewTypeOK
<1>6. CASE Pending(k) = NoArming
  <2> DEFINE q == [Unread EXCEPT !.at = "routed"]
  <2>1. q \in TextRecords /\ q.at = "routed" /\ q.arming = NoArming
    BY DEF Unread, TextRecords, TextPlaces, NoArming, Keys
  <2>2. text' = [text EXCEPT ![x] = q] BY <1>1, <1>6
  <2> HIDE DEF q
  <2>3. Turns(x, q) BY <1>0, <2>1, <2>2, Turning
  <2>4. Clearing(q, n, press, pending') BY <2>1 DEF Clearing
  <2>5. q.arming \notin gone BY <1>4, <2>1
  <2> QED BY <1>2, <1>5, <2>3, <2>4, <2>5 DEF KeysStep, Turns
<1>7. CASE Pending(k) # NoArming
  <2> DEFINE w == press = <<>> \/ Pending(k) < n
             q == [at |-> "clear", scope |-> k, arming |-> Pending(k), fresh |-> fresh,
                   whole |-> w, left |-> {}, thread |-> 0]
  <2>0. w \in BOOLEAN OBVIOUS
  <2>1. q \in TextRecords BY <1>4, <2>0 DEF TextRecords, TextPlaces, Keys
  <2>2. q.at = "clear" /\ q.arming = Pending(k) /\ q.whole = w OBVIOUS
  <2>3. text' = [text EXCEPT ![x] = q] BY <1>1, <1>7
  <2>4. Pending(k) \in 1..n BY <1>0, <1>4, <1>7 DEF NoArming
  <2>5. w => Written(Pending(k), n, press) BY <2>4 DEF Written
  <2> HIDE DEF q, w
  <2>6. Turns(x, q) BY <1>0, <2>1, <2>3, Turning
  <2>7. Clearing(q, n, press, pending') BY <2>2, <2>4, <2>5 DEF Clearing
  <2>8. q.arming \notin gone BY <1>4, <2>2
  <2> QED BY <1>2, <1>5, <2>6, <2>7, <2>8 DEF KeysStep, Turns
<1> QED BY <1>6, <1>7

\* A key is removed.
LEMMA RemovedKeys ==
  ASSUME NewInv, NEW x \in Texts, NEW q \in TextRecords, Turns(x, q), NEW k \in Keys, Removed(k),
         UNCHANGED <<armings, press, gone>>, q.arming = text[x].arming,
         Clearing(q, Len(armings), press, pending')
  PROVE  KeysStep(x)
<1>1. /\ Quiet(Len(armings), press, pending') /\ pending' \in [Keys -> 0..Len(armings)]
      /\ Len(armings) \in Nat
  BY RemovedQuiet DEF NewInv, NewTypeOK
<1>2. GoneOK(gone', Len(armings), press, pending') BY <1>1, QuietGone DEF NewInv
<1> QED BY <1>1, <1>2 DEF KeysStep, Turns

\* The keys are left alone.
LEMMA KeptKeys ==
  ASSUME NewInv, NEW x \in Texts, NEW q \in TextRecords, Turns(x, q),
         UNCHANGED <<armings, press, pending, gone>>, q.arming = text[x].arming,
         Clearing(q, Len(armings), press, pending)
  PROVE  KeysStep(x)
<1>1. /\ Quiet(Len(armings), press, pending') /\ pending' \in [Keys -> 0..Len(armings)]
      /\ GoneOK(gone', Len(armings), press, pending') /\ Clearing(q, Len(armings), press, pending')
  BY NothingQuiet DEF NewInv, NewTypeOK
<1> QED BY <1>1 DEF KeysStep, Turns

LEMMA ClearKeys ==
  ASSUME NewInv, NEW x \in Texts, ClearOwn(x) \/ ClearChat(x) \/ List(x) \/ ClearOther(x)
  PROVE  KeysStep(x)
<1> DEFINE n == Len(armings)
           p == text[x]
<1>0. /\ NewTypeOK /\ n \in Nat /\ p \in TextRecords /\ Clearing(p, n, press, pending)
  BY Turning DEF NewInv, NewTypeOK
<1>1. CASE ClearOwn(x)
  <2> DEFINE q == [p EXCEPT !.at = "clearChat"]
  <2>1. p.at = "clear" /\ Removed(p.scope) /\ Goto(x, "clearChat") /\ UNCHANGED <<armings, press, gone>>
    BY <1>1 DEF ClearOwn, TextAt
  <2>2. q \in TextRecords /\ Turns(x, q) BY <1>0, <2>1, Turning DEF TextRecords, TextPlaces
  <2>3. q.at = "clearChat" /\ q.arming = p.arming /\ q.whole = p.whole /\ p.scope \in Keys
    BY <1>0 DEF TextRecords
  <2> HIDE DEF q
  <2>4. Clearing(q, n, press, pending') BY <1>0, <2>1, <2>3 DEF Clearing
  <2> QED BY <2>1, <2>2, <2>3, <2>4, RemovedKeys
<1>2. CASE ClearChat(x)
  <2> DEFINE q == [p EXCEPT !.at = "list"]
  <2>1. p.at = "clearChat" /\ Removed(Chat) /\ Goto(x, "list") /\ UNCHANGED <<armings, press, gone>>
    BY <1>2 DEF ClearChat, TextAt
  <2>2. q \in TextRecords /\ Turns(x, q) BY <1>0, <2>1, Turning DEF TextRecords, TextPlaces
  <2>3. q.at = "list" /\ q.arming = p.arming /\ q.whole = p.whole /\ Chat \in Keys
    BY <1>0 DEF TextRecords, Keys
  <2>4. pending'[Chat] = NoArming BY <1>0, <2>1, <2>3, RemovedQuiet
  <2> HIDE DEF q
  <2>5. Clearing(q, n, press, pending') BY <1>0, <2>1, <2>3, <2>4 DEF Clearing, NoArming
  <2> QED BY <2>1, <2>2, <2>3, <2>5, RemovedKeys
<1>3. CASE List(x)
  <2> DEFINE q == [p EXCEPT !.at = "others", !.left = Listed(x)]
  <2>1. p.at = "list" /\ text' = [text EXCEPT ![x].at = "others", ![x].left = Listed(x)]
        /\ UNCHANGED <<armings, press, pending, gone>>
    BY <1>3 DEF List, TextAt
  <2>2. q \in TextRecords /\ text' = [text EXCEPT ![x] = q]
    BY <1>0, <2>1 DEF TextRecords, TextPlaces, Listed, NewTypeOK
  <2>3. q.at = "others" /\ q.arming = p.arming /\ q.whole = p.whole /\ q.left = Listed(x)
    BY <1>0 DEF TextRecords
  <2> HIDE DEF q
  <2>4. Turns(x, q) BY <1>0, <2>2, Turning
  <2>5. p.arming \in 1..n => \A k \in Scopes : pending[k] = p.arming => k \in Listed(x)
    BY <1>0 DEF Listed, NoArming
  <2>6. Clearing(q, n, press, pending) BY <1>0, <2>1, <2>3, <2>5 DEF Clearing
  <2> QED BY <2>1, <2>2, <2>3, <2>4, <2>6, KeptKeys
<1>4. CASE ClearOther(x)
  <2>1. PICK k \in p.left : Removed(k) /\ text' = [text EXCEPT ![x].left = @ \ {k}]
    BY <1>4 DEF ClearOther
  <2> DEFINE q == [p EXCEPT !.left = @ \ {k}]
  <2>2. p.at = "others" /\ UNCHANGED <<armings, press, gone>> BY <1>4 DEF ClearOther, TextAt
  <2>3. q \in TextRecords /\ k \in Scopes /\ k \in Keys BY <1>0, <2>1 DEF TextRecords, Keys
  <2>4. text' = [text EXCEPT ![x] = q] BY <2>1, <1>0 DEF NewTypeOK
  <2>5. q.at = "others" /\ q.arming = p.arming /\ q.whole = p.whole /\ q.left = p.left \ {k}
    BY <1>0, <2>2 DEF TextRecords
  <2> HIDE DEF q
  <2>6. Turns(x, q) BY <1>0, <2>3, <2>4, Turning
  <2>7. pending'[k] = NoArming /\ \A o \in Keys \ {k} : pending'[o] = pending[o]
    BY <1>0, <2>1, <2>3, RemovedQuiet
  <2>8. p.arming \in 1..n => NoArming # p.arming BY <1>0 DEF NoArming
  <2>9. Clearing(q, n, press, pending')
    <3>1. q.arming \in 1..n BY <1>0, <2>2, <2>5 DEF Clearing
    <3>2. ASSUME q.whole
          PROVE  /\ Written(q.arming, n, press) /\ pending'[Chat] # q.arming
                 /\ \A o \in Scopes : pending'[o] = q.arming => o \in q.left
      <4>1. /\ Written(p.arming, n, press) /\ pending[Chat] # p.arming
            /\ \A o \in Scopes : pending[o] = p.arming => o \in p.left
        BY <1>0, <2>2, <2>5, <3>2 DEF Clearing
      <4>2. pending'[Chat] # p.arming BY <2>5, <2>7, <2>8, <3>1, <4>1 DEF Keys
      <4>3. \A o \in Scopes : pending'[o] = p.arming => o \in p.left \ {k}
        BY <2>5, <2>7, <2>8, <3>1, <4>1 DEF Keys
      <4> QED BY <2>5, <4>1, <4>2, <4>3
    <3> QED BY <2>5, <3>1, <3>2 DEF Clearing
  <2> QED BY <2>1, <2>2, <2>3, <2>5, <2>6, <2>9, RemovedKeys
<1> QED BY <1>1, <1>2, <1>3, <1>4

LEMMA ClearedKeys ==
  ASSUME NewInv, NEW x \in Texts, Cleared(x)
  PROVE  KeysStep(x)
<1> DEFINE n == Len(armings)
           p == text[x]
           at == IF p.fresh THEN "create" ELSE "expired"
           q == [Unread EXCEPT !.at = at, !.arming = p.arming]
<1>0. /\ NewTypeOK /\ n \in Nat /\ p \in TextRecords /\ Clearing(p, n, press, pending)
      /\ GoneOK(gone, n, press, pending)
  BY Turning DEF NewInv, NewTypeOK
<1>1. /\ p.at = "others" /\ p.left = {} /\ gone' = gone \cup {i \in {p.arming} : p.whole}
      /\ text' = [text EXCEPT ![x] = q] /\ UNCHANGED <<armings, press, pending>>
  BY DEF Cleared, TextAt
<1>2. q \in TextRecords /\ q.at \in {"create", "expired"} /\ q.arming = p.arming
  BY <1>0 DEF Unread, TextRecords, TextPlaces, Keys
<1> HIDE DEF q
<1>3. Turns(x, q) BY <1>0, <1>1, <1>2, Turning
<1>4. Clearing(q, n, press, pending') BY <1>0, <1>1, <1>2 DEF Clearing
<1>5. p.whole => Written(p.arming, n, press) /\ \A k \in Keys : pending[k] # p.arming
  BY <1>0, <1>1 DEF Clearing, Keys
<1>6. GoneOK(gone', n, press, pending') BY <1>0, <1>1, <1>5 DEF GoneOK
<1>7. Quiet(n, press, pending') /\ pending' \in [Keys -> 0..n] BY <1>0, <1>1, NothingQuiet DEF NewTypeOK
<1> QED BY <1>1, <1>2, <1>3, <1>4, <1>6, <1>7 DEF KeysStep, Turns

-----------------------------------------------------------------------------
(* New threads: the runs                                                   *)

LEMMA Least ==
  ASSUME NEW S, S \subseteq Nat, S # {}
  PROVE  \E n \in S : \A o \in S : n <= o
<1>1. PICK n \in S : \A o \in S : <<o, n>> \notin OpToRel(<, Nat)
  BY WFMin, NatLessThanWellFounded, Zenon
<1>2. \A o \in S : ~(o < n) BY <1>1, Zenon DEF OpToRel
<1> QED BY <1>2

\* newestMatchingDesktopCreatedThread finds one of the candidates.
LEMMA NewestIsOne ==
  ASSUME NEW N \in Nat, NEW S, S \subseteq 1..N, S # {}
  PROVE  Newest(S) \in S
<1> DEFINE T == {m \in Nat : N - m \in S}
<1>1. \E n \in T : \A o \in T : n <= o
  <2>1. T # {}
    <3>1. PICK s \in S : TRUE OBVIOUS
    <3>2. N - s \in Nat /\ N - (N - s) = s BY <3>1
    <3>3. N - s \in T BY <3>2
    <3> QED BY <3>3
  <2>2. T \subseteq Nat OBVIOUS
  <2> HIDE DEF T
  <2> QED BY <2>1, <2>2, Least
<1>2. PICK m \in T : \A o \in T : m <= o BY <1>1
<1>3. ASSUME NEW s \in S PROVE s <= N - m
  <2>1. N - s \in Nat /\ N - (N - s) = s OBVIOUS
  <2>2. N - s \in T BY <2>1
  <2>3. m <= N - s BY <1>2, <2>2
  <2> QED BY <2>1, <2>3, <1>2
<1>4. \E n \in S : \A o \in S : o <= n BY <1>2, <1>3
<1> QED BY <1>4 DEF Newest

LEMMA OneMore ==
  ASSUME NEW S, IsFiniteSet(S), NEW n, NEW T, T \subseteq S \cup {n}
  PROVE  Cardinality(T) \in Nat /\ Cardinality(S) \in Nat /\ Cardinality(T) <= Cardinality(S) + 1
<1>1. IsFiniteSet(S \cup {n}) /\ Cardinality(S \cup {n}) <= Cardinality(S) + 1 /\ Cardinality(S) \in Nat
  <2>1. IsFiniteSet(S \cup {n}) /\ Cardinality(S \cup {n}) = IF n \in S THEN Cardinality(S) ELSE Cardinality(S) + 1
    BY FS_AddElement
  <2>2. Cardinality(S) \in Nat BY FS_CardinalityType
  <2> QED BY <2>1, <2>2
<1>2. IsFiniteSet(T) /\ Cardinality(T) <= Cardinality(S \cup {n}) BY <1>1, FS_Subset
<1>3. Cardinality(T) \in Nat /\ Cardinality(S \cup {n}) \in Nat BY <1>1, <1>2, FS_CardinalityType
<1> QED BY <1>1, <1>2, <1>3

LEMMA RunsTyped ==
  ASSUME NewTypeOK, NEW x \in Texts
  PROVE  /\ Len(threads) \in Nat /\ DOMAIN threads = 1..Len(threads)
         /\ IsFiniteSet(Runs(x)) /\ Cardinality(Runs(x)) \in Nat /\ Runs(x) \subseteq 1..Len(threads)
         /\ \A n \in 1..Len(threads) : threads[n] \in ThreadRecords /\ threads[n].by \in Texts
<1>1. threads \in Seq(ThreadRecords) /\ Len(threads) \in Nat /\ DOMAIN threads = 1..Len(threads)
  BY DEF NewTypeOK
<1>2. Runs(x) \subseteq 1..Len(threads) BY <1>1 DEF Runs
<1>3. IsFiniteSet(1..Len(threads)) BY <1>1, FS_Interval
<1>4. IsFiniteSet(Runs(x)) BY <1>2, <1>3, FS_Subset
<1>5. Cardinality(Runs(x)) \in Nat BY <1>4, FS_CardinalityType
<1>6. \A n \in 1..Len(threads) : threads[n] \in ThreadRecords BY <1>1
<1> QED BY <1>1, <1>2, <1>4, <1>5, <1>6 DEF ThreadRecords

\* What a step of a text does to the threads; other texts' runs stay.
ThreadsStep(x) ==
  /\ threads' \in Seq(ThreadRecords) /\ mishaps' \in Nat /\ mishaps' >= mishaps /\ origin \subseteq origin'
  /\ Len(threads) <= Len(threads')
  /\ \A n \in 1..Len(threads) : /\ threads'[n].by = threads[n].by
                                /\ threads[n].ran \/ threads[n].by # x => threads'[n] = threads[n]
  /\ \A n \in 1..Len(threads') : n \notin 1..Len(threads) => threads'[n].by = x

LEMMA OthersRun ==
  ASSUME NewInv, NEW x \in Texts, ThreadsStep(x), NEW y \in Texts, y # x, text'[y] = text[y]
  PROVE  RunOK(text'[y], y, threads', Runs(y)', origin', mishaps')
<1> DEFINE q == text[y]
<1>1. /\ RunOK(q, y, threads, Runs(y), origin, mishaps) /\ mishaps \in Nat
      /\ Len(threads) \in Nat /\ DOMAIN threads = 1..Len(threads) /\ Cardinality(Runs(y)) \in Nat
      /\ Len(threads') \in Nat /\ DOMAIN threads' = 1..Len(threads')
  <2>1. threads' \in Seq(ThreadRecords) BY DEF ThreadsStep
  <2>2. Len(threads') \in Nat /\ DOMAIN threads' = 1..Len(threads') BY <2>1
  <2> QED BY <2>2, RunsTyped DEF NewInv, NewTypeOK
<1>2. Runs(y)' = Runs(y)
  <2>1. ASSUME NEW n \in 1..Len(threads), threads[n].by = y PROVE threads'[n] = threads[n]
    BY <2>1 DEF ThreadsStep
  <2>2. \A n \in 1..Len(threads') : threads'[n].by = y => n \in 1..Len(threads) /\ threads[n].by = y
    BY DEF ThreadsStep
  <2>3. 1..Len(threads) \subseteq 1..Len(threads') BY <1>1 DEF ThreadsStep
  <2> QED BY <1>1, <2>1, <2>2, <2>3 DEF Runs
<1>3. q.at \in Unrun => \A n \in 1..Len(threads') : threads'[n].by # y BY <1>1 DEF RunOK, ThreadsStep
<1>4. /\ q.at \in {"start", "refuse", "turn"} => Cardinality(Runs(y)) <= mishaps'
      /\ Cardinality(Runs(y)) <= 1 + mishaps'
  BY <1>1 DEF RunOK, ThreadsStep
<1>5. \A n \in 1..Len(threads) : n \in 1..Len(threads') BY <1>1 DEF ThreadsStep
<1>6. q.at = "turn" => Holds(q, threads') /\ threads'[q.thread].by = y /\ ~threads'[q.thread].ran
  BY <1>1, <1>5 DEF RunOK, ThreadsStep, Holds
<1>7. q.at = "mark" => Holds(q, threads') /\ threads'[q.thread].by = y /\ threads'[q.thread].ran
  BY <1>1, <1>5 DEF RunOK, ThreadsStep, Holds
<1>8. q.at = "show" =>
        /\ Holds(q, threads') /\ q.thread \in origin' /\ threads'[q.thread].ran
        /\ (\A z \in Texts \ {y} : <<y, z>> \notin Includes) => threads'[q.thread].by = y
  <2>1. ASSUME q.at = "show"
        PROVE  /\ Holds(q, threads) /\ q.thread \in origin /\ threads[q.thread].ran
               /\ (\A z \in Texts \ {y} : <<y, z>> \notin Includes) => threads[q.thread].by = y
    BY <1>1, <2>1 DEF RunOK
  <2>2. ASSUME q.at = "show" PROVE threads'[q.thread] = threads[q.thread] /\ Holds(q, threads')
    BY <1>5, <2>1, <2>2 DEF ThreadsStep, Holds
  <2> QED BY <2>1, <2>2 DEF ThreadsStep
<1> HIDE DEF q
<1>9. RunOK(q, y, threads', Runs(y), origin', mishaps') BY <1>3, <1>4, <1>6, <1>7, <1>8 DEF RunOK
<1> QED BY <1>2, <1>9 DEF q

LEMMA Started ==
  ASSUME NewInv, NEW x \in Texts, text[x].at \notin {"sent", "routed"}, NEW ran \in BOOLEAN, NewThread(x, ran),
         mishaps' \in Nat, mishaps' >= mishaps, origin \subseteq origin'
  PROVE  /\ ThreadsStep(x) /\ Len(threads') = Len(threads) + 1 /\ Len(threads) \in Nat
         /\ threads'[Len(threads) + 1].by = x /\ threads'[Len(threads) + 1].ran = ran
         /\ Cardinality(Runs(x)') \in Nat /\ Cardinality(Runs(x)') <= Cardinality(Runs(x)) + 1
         /\ ~ran => Runs(x)' = Runs(x)
<1> DEFINE new == Len(threads) + 1
           rec == [by |-> x, project |-> Project(x), ran |-> ran]
<1>1. rec \in ThreadRecords
  <2>1. text[x].arming \in 1..Len(armings) BY DEF NewInv, Clearing
  <2>2. armings \in Seq(Projects) BY DEF NewInv, NewTypeOK
  <2>3. Project(x) \in Projects BY <2>1, <2>2 DEF Project
  <2> QED BY <2>3 DEF ThreadRecords
<1>2. rec.by = x /\ rec.ran = ran OBVIOUS
<1>3. threads' = Append(threads, rec) BY DEF NewThread
<1>4. threads \in Seq(ThreadRecords) /\ Len(threads) \in Nat BY DEF NewInv, NewTypeOK
<1> HIDE DEF rec
<1>5. /\ threads' \in Seq(ThreadRecords) /\ Len(threads') = new /\ threads'[new] = rec
      /\ \A n \in 1..Len(threads) : threads'[n] = threads[n]
      /\ DOMAIN threads' = 1..new /\ DOMAIN threads = 1..Len(threads)
  BY <1>1, <1>3, <1>4
<1>6. ThreadsStep(x) BY <1>2, <1>4, <1>5 DEF ThreadsStep
<1>7. Runs(x)' \subseteq Runs(x) \cup {new} BY <1>4, <1>5 DEF Runs
<1>8. ~ran => Runs(x)' = Runs(x) BY <1>2, <1>4, <1>5 DEF Runs
<1>9. IsFiniteSet(Runs(x)) BY RunsTyped DEF NewInv
<1>10. Cardinality(Runs(x)') \in Nat /\ Cardinality(Runs(x)') <= Cardinality(Runs(x)) + 1
  BY <1>7, <1>9, OneMore
<1> QED BY <1>2, <1>4, <1>5, <1>6, <1>8, <1>10

\* A thread that is held and has not run is tried.
LEMMA Tried ==
  ASSUME NewInv, NEW x \in Texts, text[x].at = "turn", NEW ran \in BOOLEAN,
         threads' = [threads EXCEPT ![text[x].thread].ran = ran],
         mishaps' \in Nat, mishaps' >= mishaps, origin \subseteq origin'
  PROVE  /\ ThreadsStep(x) /\ text[x].thread \in 1..Len(threads')
         /\ threads'[text[x].thread].by = x /\ threads'[text[x].thread].ran = ran
         /\ Cardinality(Runs(x)') \in Nat /\ Cardinality(Runs(x)') <= Cardinality(Runs(x)) + 1
<1> DEFINE t == text[x].thread
           rec == [threads[t] EXCEPT !.ran = ran]
<1>1. t \in 1..Len(threads) /\ threads[t].by = x /\ ~threads[t].ran BY DEF NewInv, RunOK, Holds
<1>2. threads \in Seq(ThreadRecords) /\ Len(threads) \in Nat /\ DOMAIN threads = 1..Len(threads)
  BY DEF NewInv, NewTypeOK
<1>3. threads[t] \in ThreadRecords BY <1>1, <1>2
<1>4. rec \in ThreadRecords /\ rec.by = x /\ rec.ran = ran BY <1>1, <1>3 DEF ThreadRecords
<1>5. threads' = [threads EXCEPT ![t] = rec] OBVIOUS
<1> HIDE DEF rec
<1>6. /\ threads' \in Seq(ThreadRecords) /\ Len(threads') = Len(threads) /\ threads'[t] = rec
      /\ \A n \in 1..Len(threads) : n # t => threads'[n] = threads[n]
      /\ DOMAIN threads' = 1..Len(threads)
  BY <1>1, <1>2, <1>4, <1>5
<1>7. ThreadsStep(x) BY <1>1, <1>2, <1>4, <1>6 DEF ThreadsStep
<1>8. Runs(x)' \subseteq Runs(x) \cup {t} BY <1>2, <1>6 DEF Runs
<1>9. IsFiniteSet(Runs(x)) BY RunsTyped DEF NewInv
<1>10. Cardinality(Runs(x)') \in Nat /\ Cardinality(Runs(x)') <= Cardinality(Runs(x)) + 1
  BY <1>8, <1>9, OneMore
<1> QED BY <1>1, <1>4, <1>6, <1>7, <1>10

LEMMA SameThreads ==
  ASSUME NewInv, NEW x \in Texts, UNCHANGED threads, mishaps' \in Nat, mishaps' >= mishaps, origin \subseteq origin'
  PROVE  ThreadsStep(x) /\ Runs(x)' = Runs(x)
BY DEF ThreadsStep, NewInv, NewTypeOK, Runs

\* What a step leaves of its own text.
OwnRun(x) == ThreadsStep(x) /\ RunOK(text'[x], x, threads', Runs(x)', origin', mishaps')
Later == {"start", "refuse", "find", "retry", "failed", "shown", "mark", "show", "turn"}
LaterKeys(x) ==
  /\ UNCHANGED <<armings, press, pending, gone>>
  /\ \E q \in TextRecords : Turns(x, q) /\ q.at \in Later /\ q.arming = text[x].arming

LEMMA UnrunStays ==
  ASSUME NewInv, NEW x \in Texts, text[x].at \in Unrun, text'[x].at \in Unrun, UNCHANGED <<threads, origin, mishaps>>
  PROVE  OwnRun(x)
<1>1. /\ ThreadsStep(x) /\ Runs(x)' = Runs(x) BY SameThreads DEF NewInv, NewTypeOK
<1>2. text'[x].at \notin {"start", "refuse", "turn", "mark", "show"} BY DEF Unrun
<1>3. RunOK(text[x], x, threads, Runs(x), origin, mishaps) BY DEF NewInv
<1>4. RunOK(text'[x], x, threads', Runs(x)', origin', mishaps') BY <1>1, <1>2, <1>3 DEF RunOK
<1> QED BY <1>1, <1>4 DEF OwnRun

LEMMA GotoLater ==
  ASSUME NewInv, NEW x \in Texts, NEW place \in Later, Goto(x, place)
  PROVE  /\ text'[x].at = place /\ text'[x].thread = text[x].thread
         /\ \E q \in TextRecords : Turns(x, q) /\ q.at \in Later /\ q.arming = text[x].arming
<1> DEFINE q == [text[x] EXCEPT !.at = place]
<1>1. place \in TextPlaces BY DEF Later, TextPlaces
<1>2. Turns(x, q) /\ text[x] \in TextRecords BY <1>1, Turning DEF NewInv
<1>3. q \in TextRecords /\ q.at = place /\ q.thread = text[x].thread /\ q.arming = text[x].arming
  BY <1>1, <1>2 DEF TextRecords
<1> HIDE DEF q
<1> QED BY <1>2, <1>3 DEF Turns

LEMMA NoneRun ==
  ASSUME NewInv, NEW x \in Texts, text[x].at \in Unrun
  PROVE  Cardinality(Runs(x)) = 0
<1>1. Runs(x) = {} BY RunsTyped DEF NewInv, RunOK, Runs
<1> QED BY <1>1, FS_EmptySet

LEMMA CreateRuns ==
  ASSUME NewInv, NEW x \in Texts, Create(x)
  PROVE  OwnRun(x) /\ LaterKeys(x)
<1>1. /\ text[x].at = "create" /\ text[x].at \in Unrun /\ text[x].at \notin {"sent", "routed"}
      /\ UNCHANGED <<armings, pending, press, gone, origin>> /\ mishaps \in Nat
  BY DEF Create, TextAt, Unrun, NewInv, NewTypeOK
<1>2. Cardinality(Runs(x)) = 0 BY <1>1, NoneRun
<1>3. CASE NewThread(x, TRUE) /\ UNCHANGED mishaps /\ \E next \in AfterTaken(x) : Goto(x, next)
  <2>1. Goto(x, "find") /\ "find" \in Later BY <1>3 DEF AfterTaken, Later
  <2>2. text'[x].at = "find" BY <2>1, GotoLater
  <2>3. ThreadsStep(x) /\ Cardinality(Runs(x)') \in Nat /\ Cardinality(Runs(x)') <= 1
    <3>1. mishaps' \in Nat /\ mishaps' >= mishaps /\ origin \subseteq origin' /\ TRUE \in BOOLEAN BY <1>1, <1>3
    <3>2. NewThread(x, TRUE) BY <1>3
    <3>3. /\ ThreadsStep(x) /\ Cardinality(Runs(x)') \in Nat
          /\ Cardinality(Runs(x)') <= Cardinality(Runs(x)) + 1
      BY <1>1, <3>1, <3>2, Started
    <3> QED BY <1>2, <3>3
  <2>4. RunOK(text'[x], x, threads', Runs(x)', origin', mishaps') BY <1>1, <1>3, <2>2, <2>3 DEF RunOK, Unrun
  <2>5. LaterKeys(x) BY <1>1, <2>1, GotoLater DEF LaterKeys
  <2> QED BY <2>3, <2>4, <2>5 DEF OwnRun
<1>4. ASSUME NEW next \in AfterDesktop(x), Goto(x, next), UNCHANGED <<threads, mishaps>>
      PROVE  OwnRun(x) /\ LaterKeys(x)
  <2>1. next \in {"start", "refuse"} /\ next \in Later BY <1>4 DEF AfterDesktop, Later
  <2>2. text'[x].at = next BY <1>4, <2>1, GotoLater
  <2>3. ThreadsStep(x) /\ Runs(x)' = Runs(x) BY <1>1, <1>4, SameThreads
  <2>4. RunOK(text'[x], x, threads', Runs(x)', origin', mishaps') BY <1>1, <1>2, <1>4, <2>1, <2>2, <2>3 DEF RunOK, Unrun
  <2>5. LaterKeys(x) BY <1>1, <1>4, <2>1, GotoLater DEF LaterKeys
  <2> QED BY <2>3, <2>4, <2>5 DEF OwnRun
<1>5. ASSUME Mishap, NewThread(x, TRUE), NEW next \in AfterDesktop(x), Goto(x, next)
      PROVE  OwnRun(x) /\ LaterKeys(x)
  <2>1. next \in {"start", "refuse"} /\ next \in Later BY <1>5 DEF AfterDesktop, Later
  <2>2. text'[x].at = next BY <1>5, <2>1, GotoLater
  <2>3. mishaps' = mishaps + 1 BY <1>5 DEF Mishap
  <2>4. ThreadsStep(x) /\ Cardinality(Runs(x)') \in Nat /\ Cardinality(Runs(x)') <= 1
    <3>1. mishaps' \in Nat /\ mishaps' >= mishaps /\ origin \subseteq origin' /\ TRUE \in BOOLEAN BY <1>1, <2>3
    <3>2. /\ ThreadsStep(x) /\ Cardinality(Runs(x)') \in Nat
          /\ Cardinality(Runs(x)') <= Cardinality(Runs(x)) + 1
      BY <1>1, <1>5, <3>1, Started
    <3> QED BY <1>2, <3>2
  <2>5. RunOK(text'[x], x, threads', Runs(x)', origin', mishaps') BY <1>1, <2>1, <2>2, <2>3, <2>4 DEF RunOK, Unrun
  <2>6. LaterKeys(x) BY <1>1, <1>5, <2>1, GotoLater DEF LaterKeys
  <2> QED BY <2>4, <2>5, <2>6 DEF OwnRun
<1> QED BY <1>3, <1>4, <1>5 DEF Create

LEMMA FindRuns ==
  ASSUME NewInv, NEW x \in Texts, Find(x)
  PROVE  OwnRun(x) /\ LaterKeys(x)
<1>1. /\ text[x].at = "find" /\ UNCHANGED <<armings, pending, press, gone, threads>> /\ mishaps \in Nat
  BY DEF Find, TextAt, NewInv, NewTypeOK
<1>2. /\ Cardinality(Runs(x)) <= 1 + mishaps /\ Cardinality(Runs(x)) \in Nat
      /\ Len(threads) \in Nat /\ DOMAIN threads = 1..Len(threads) /\ \A n \in 1..Len(threads) : threads[n].by \in Texts
  BY RunsTyped DEF NewInv, RunOK
<1>3. CASE /\ Candidates(x) # {} /\ UNCHANGED mishaps
           /\ LET n == Newest(Candidates(x)) IN
             origin' = origin \cup {n} /\ text' = [text EXCEPT ![x].at = "show", ![x].thread = n]
  <2> DEFINE n == Newest(Candidates(x))
             q == [text[x] EXCEPT !.at = "show", !.thread = n]
  <2>1. Candidates(x) \subseteq 1..Len(threads) BY <1>2 DEF Candidates
  <2>2. n \in Candidates(x) BY <1>2, <1>3, <2>1, NewestIsOne
  <2>3. n \in 1..Len(threads) /\ threads[n].ran /\ <<x, threads[n].by>> \in Includes
    BY <2>1, <2>2 DEF Candidates, Matches
  <2>4. text[x] \in TextRecords BY Turning DEF NewInv
  <2>5. q \in TextRecords
    <3>1. n \in Nat /\ "show" \in TextPlaces BY <1>2, <2>3 DEF TextPlaces
    <3> HIDE DEF n
    <3> QED BY <2>4, <3>1 DEF TextRecords
  <2>6. text' = [text EXCEPT ![x] = q] BY <1>3 DEF NewInv, NewTypeOK
  <2>7. q.at = "show" /\ q.thread = n /\ q.arming = text[x].arming BY <2>4 DEF TextRecords
  <2>8. n \in origin' /\ origin \subseteq origin' BY <1>3
  <2> HIDE DEF q, n
  <2>9. Turns(x, q) BY <2>5, <2>6, Turning DEF NewInv
  <2>10. ThreadsStep(x) /\ Runs(x)' = Runs(x) BY <1>1, <1>3, <2>8, SameThreads
  <2>11. (\A y \in Texts \ {x} : <<x, y>> \notin Includes) => threads[n].by = x BY <1>2, <2>3
  <2>12. RunOK(q, x, threads', Runs(x)', origin', mishaps')
    BY <1>1, <1>2, <1>3, <2>3, <2>7, <2>8, <2>10, <2>11 DEF RunOK, Holds, Unrun
  <2>13. LaterKeys(x) BY <1>1, <2>5, <2>7, <2>9 DEF LaterKeys, Later
  <2> QED BY <2>9, <2>10, <2>12, <2>13 DEF OwnRun, Turns
<1>4. ASSUME Mishap, UNCHANGED origin, NEW next \in AfterDesktop(x), Goto(x, next)
      PROVE  OwnRun(x) /\ LaterKeys(x)
  <2>1. next \in {"start", "refuse"} /\ next \in Later BY <1>4 DEF AfterDesktop, Later
  <2>2. text'[x].at = next BY <1>4, <2>1, GotoLater
  <2>3. mishaps' = mishaps + 1 BY <1>4 DEF Mishap
  <2>4. ThreadsStep(x) /\ Runs(x)' = Runs(x) BY <1>1, <1>4, <2>3, SameThreads
  <2>5. RunOK(text'[x], x, threads', Runs(x)', origin', mishaps') BY <1>1, <1>2, <2>1, <2>2, <2>3, <2>4 DEF RunOK, Unrun
  <2>6. LaterKeys(x) BY <1>1, <1>4, <2>1, GotoLater DEF LaterKeys
  <2> QED BY <2>4, <2>5, <2>6 DEF OwnRun
<1> QED BY <1>3, <1>4 DEF Find

\* Whatever ends, or is only passed on.
LEMMA PlainRuns ==
  ASSUME NewInv, NEW x \in Texts, NEW place \in {"failed", "shown"}, Goto(x, place), text[x].at \notin Unrun,
         UNCHANGED <<armings, press, pending, gone, threads, origin>>, mishaps' \in Nat, mishaps' >= mishaps
  PROVE  OwnRun(x) /\ LaterKeys(x)
<1>1. place \in Later BY DEF Later
<1>2. text'[x].at = place BY <1>1, GotoLater
<1>3. ThreadsStep(x) /\ Runs(x)' = Runs(x) BY SameThreads
<1>4. Cardinality(Runs(x)) <= 1 + mishaps /\ Cardinality(Runs(x)) \in Nat /\ mishaps \in Nat
  BY RunsTyped DEF NewInv, RunOK, NewTypeOK
<1>5. RunOK(text'[x], x, threads', Runs(x)', origin', mishaps') BY <1>2, <1>3, <1>4 DEF RunOK, Unrun
<1>6. LaterKeys(x) BY <1>1, GotoLater DEF LaterKeys
<1> QED BY <1>3, <1>5, <1>6 DEF OwnRun

LEMMA StartRuns ==
  ASSUME NewInv, NEW x \in Texts, ThreadStart(x)
  PROVE  OwnRun(x) /\ LaterKeys(x)
<1>1. /\ text[x].at = "start" /\ UNCHANGED <<armings, pending, press, gone, origin>> /\ mishaps \in Nat
      /\ text[x].at \notin Unrun
  BY DEF ThreadStart, TextAt, NewInv, NewTypeOK, Unrun
<1>2. Cardinality(Runs(x)) <= mishaps /\ Cardinality(Runs(x)) \in Nat BY <1>1, RunsTyped DEF NewInv, RunOK
<1>3. CASE NewThread(x, FALSE) /\ UNCHANGED mishaps
           /\ text' = [text EXCEPT ![x].at = "turn", ![x].thread = Len(threads)']
  <2> DEFINE q == [text[x] EXCEPT !.at = "turn", !.thread = Len(threads')]
  <2>1. /\ ThreadsStep(x) /\ Len(threads') = Len(threads) + 1 /\ Len(threads) \in Nat
        /\ threads'[Len(threads) + 1].by = x /\ threads'[Len(threads) + 1].ran = FALSE
        /\ Runs(x)' = Runs(x)
    <3>1. mishaps' \in Nat /\ mishaps' >= mishaps /\ origin \subseteq origin' /\ FALSE \in BOOLEAN BY <1>1, <1>3
    <3>2. text[x].at \notin {"sent", "routed"} BY <1>1
    <3>3. NewThread(x, FALSE) BY <1>3
    <3>4. /\ ThreadsStep(x) /\ Len(threads') = Len(threads) + 1 /\ Len(threads) \in Nat
          /\ threads'[Len(threads) + 1].by = x /\ threads'[Len(threads) + 1].ran = FALSE
          /\ ~FALSE => Runs(x)' = Runs(x)
      BY <3>1, <3>2, <3>3, Started
    <3> QED BY <3>4
  <2>2. text[x] \in TextRecords BY Turning DEF NewInv
  <2>3. q \in TextRecords
    <3> DEFINE n == Len(threads')
    <3>1. n \in Nat /\ "turn" \in TextPlaces BY <2>1 DEF TextPlaces
    <3> HIDE DEF n
    <3>2. [text[x] EXCEPT !.at = "turn", !.thread = n] \in TextRecords BY <2>2, <3>1 DEF TextRecords
    <3> QED BY <3>2 DEF n
  <2>4. text' = [text EXCEPT ![x] = q] BY <1>3 DEF NewInv, NewTypeOK
  <2>5. q.at = "turn" /\ q.thread = Len(threads) + 1 /\ q.arming = text[x].arming BY <2>1, <2>2 DEF TextRecords
  <2> HIDE DEF q
  <2>6. Turns(x, q) BY <2>3, <2>4, Turning DEF NewInv
  <2>7. Holds(q, threads') BY <2>1, <2>5 DEF Holds
  <2>8. RunOK(q, x, threads', Runs(x)', origin', mishaps') BY <1>1, <1>2, <1>3, <2>1, <2>5, <2>7 DEF RunOK, Unrun
  <2>9. LaterKeys(x) BY <1>1, <2>3, <2>5, <2>6 DEF LaterKeys, Later
  <2> QED BY <2>1, <2>6, <2>8, <2>9 DEF OwnRun, Turns
<1>4. CASE Goto(x, "failed") /\ Mishap /\ UNCHANGED threads
  <2>1. mishaps' \in Nat /\ mishaps' >= mishaps BY <1>1, <1>4 DEF Mishap
  <2> QED BY <1>1, <1>4, <2>1, PlainRuns
<1> QED BY <1>3, <1>4 DEF ThreadStart

LEMMA TurnRuns ==
  ASSUME NewInv, NEW x \in Texts, TurnStart(x)
  PROVE  OwnRun(x) /\ LaterKeys(x)
<1>1. /\ text[x].at = "turn" /\ UNCHANGED <<armings, pending, press, gone, origin>> /\ mishaps \in Nat
  BY DEF TurnStart, TextAt, NewInv, NewTypeOK
<1>2. Cardinality(Runs(x)) <= mishaps /\ Cardinality(Runs(x)) \in Nat BY <1>1, RunsTyped DEF NewInv, RunOK
<1>3. CASE threads' = [threads EXCEPT ![text[x].thread].ran = TRUE] /\ Goto(x, "mark") /\ UNCHANGED mishaps
  <2>1. "mark" \in Later BY DEF Later
  <2>2. text'[x].at = "mark" /\ text'[x].thread = text[x].thread BY <1>3, <2>1, GotoLater
  <2>3. /\ ThreadsStep(x) /\ text[x].thread \in 1..Len(threads')
        /\ threads'[text[x].thread].by = x /\ threads'[text[x].thread].ran = TRUE
        /\ Cardinality(Runs(x)') \in Nat /\ Cardinality(Runs(x)') <= Cardinality(Runs(x)) + 1
    <3>1. mishaps' \in Nat /\ mishaps' >= mishaps /\ origin \subseteq origin' /\ TRUE \in BOOLEAN BY <1>1, <1>3
    <3>2. threads' = [threads EXCEPT ![text[x].thread].ran = TRUE] BY <1>3
    <3> QED BY <1>1, <3>1, <3>2, Tried
  <2>4. Holds(text'[x], threads') BY <2>2, <2>3 DEF Holds
  <2>5. RunOK(text'[x], x, threads', Runs(x)', origin', mishaps')
    BY <1>1, <1>2, <1>3, <2>2, <2>3, <2>4 DEF RunOK, Unrun
  <2>6. LaterKeys(x) BY <1>1, <1>3, <2>1, GotoLater DEF LaterKeys
  <2> QED BY <2>3, <2>5, <2>6 DEF OwnRun
<1>4. ASSUME Mishap, Goto(x, "retry"), NEW ran \in BOOLEAN, threads' = [threads EXCEPT ![text[x].thread].ran = ran]
      PROVE  OwnRun(x) /\ LaterKeys(x)
  <2>1. "retry" \in Later BY DEF Later
  <2>2. text'[x].at = "retry" BY <1>4, <2>1, GotoLater
  <2>3. mishaps' = mishaps + 1 BY <1>4 DEF Mishap
  <2>4. ThreadsStep(x) /\ Cardinality(Runs(x)') \in Nat /\ Cardinality(Runs(x)') <= Cardinality(Runs(x)) + 1
    <3>1. mishaps' \in Nat /\ mishaps' >= mishaps /\ origin \subseteq origin' BY <1>1, <2>3
    <3> QED BY <1>1, <1>4, <3>1, Tried
  <2>5. RunOK(text'[x], x, threads', Runs(x)', origin', mishaps') BY <1>1, <1>2, <2>2, <2>3, <2>4 DEF RunOK, Unrun
  <2>6. LaterKeys(x) BY <1>1, <1>4, <2>1, GotoLater DEF LaterKeys
  <2> QED BY <2>4, <2>5, <2>6 DEF OwnRun
<1> QED BY <1>3, <1>4 DEF TurnStart

LEMMA MarkRuns ==
  ASSUME NewInv, NEW x \in Texts, MarkOrigin(x)
  PROVE  OwnRun(x) /\ LaterKeys(x)
<1>1. /\ text[x].at = "mark" /\ UNCHANGED <<armings, pending, press, gone, threads, mishaps>> /\ mishaps \in Nat
      /\ Goto(x, "show") /\ origin' = origin \cup {text[x].thread} /\ "show" \in Later
  BY DEF MarkOrigin, TextAt, NewInv, NewTypeOK, Later
<1>2. /\ Cardinality(Runs(x)) <= 1 + mishaps /\ Holds(text[x], threads)
      /\ threads[text[x].thread].by = x /\ threads[text[x].thread].ran
  BY <1>1 DEF NewInv, RunOK
<1>3. text'[x].at = "show" /\ text'[x].thread = text[x].thread BY <1>1, GotoLater
<1>4. ThreadsStep(x) /\ Runs(x)' = Runs(x) BY <1>1, SameThreads
<1>5. text[x].thread \in origin' /\ Holds(text'[x], threads') BY <1>1, <1>2, <1>3 DEF Holds
<1>6. RunOK(text'[x], x, threads', Runs(x)', origin', mishaps')
  BY <1>1, <1>2, <1>3, <1>4, <1>5 DEF RunOK, Unrun
<1>7. LaterKeys(x) BY <1>1, GotoLater DEF LaterKeys
<1> QED BY <1>4, <1>6, <1>7 DEF OwnRun

-----------------------------------------------------------------------------
(* New threads: every step                                                 *)

LEMMA LaterKept ==
  ASSUME NewInv, NEW x \in Texts, LaterKeys(x), text[x].at \notin {"sent", "routed"}
  PROVE  KeysStep(x)
<1>1. PICK q \in TextRecords : Turns(x, q) /\ q.at \in Later /\ q.arming = text[x].arming BY DEF LaterKeys
<1>2. text[x].arming \in 1..Len(armings) BY DEF NewInv, Clearing
<1>3. Clearing(q, Len(armings), press, pending) BY <1>1, <1>2 DEF Clearing, Later
<1> QED BY <1>1, <1>3, KeptKeys DEF LaterKeys

LEMMA OwnStep ==
  ASSUME NewInv, NEW x \in Texts, Read(x) \/ TextStep(x)
  PROVE  KeysStep(x) /\ OwnRun(x)
<1>1. ASSUME LaterKeys(x), OwnRun(x), text[x].at \notin {"sent", "routed"} PROVE KeysStep(x) /\ OwnRun(x)
  BY <1>1, LaterKept
<1>2. CASE Read(x)
  <2>1. KeysStep(x) BY <1>2, ReadKeys
  <2>2. text[x].at \in Unrun /\ UNCHANGED <<threads, origin, mishaps>> BY <1>2 DEF Read, TextAt, Unrun
  <2>3. text'[x].at \in {"routed", "clear"}
    <3>1. PICK k \in Scopes, fresh \in BOOLEAN :
            text' = [text EXCEPT ![x] = IF Pending(k) = NoArming THEN [Unread EXCEPT !.at = "routed"] ELSE
                      [at |-> "clear", scope |-> k, arming |-> Pending(k), fresh |-> fresh,
                       whole |-> press = <<>> \/ Pending(k) < Len(armings), left |-> {}, thread |-> 0]]
      BY <1>2 DEF Read
    <3>2. text \in [Texts -> TextRecords] BY DEF NewInv, NewTypeOK
    <3>3. CASE Pending(k) = NoArming BY <3>1, <3>2, <3>3 DEF Unread
    <3>4. CASE Pending(k) # NoArming
      <4> DEFINE w == press = <<>> \/ Pending(k) < Len(armings)
      <4>1. text' = [text EXCEPT ![x] = [at |-> "clear", scope |-> k, arming |-> Pending(k), fresh |-> fresh,
                                         whole |-> w, left |-> {}, thread |-> 0]]
        BY <3>1, <3>4
      <4> HIDE DEF w
      <4> QED BY <3>2, <4>1
    <3> QED BY <3>3, <3>4
  <2>4. OwnRun(x) BY <2>2, <2>3, UnrunStays DEF Unrun
  <2> QED BY <2>1, <2>4
<1>3. CASE ClearOwn(x) \/ ClearChat(x) \/ List(x) \/ ClearOther(x)
  <2>1. KeysStep(x) BY <1>3, ClearKeys
  <2>2. text[x].at \in Unrun /\ UNCHANGED <<threads, origin, mishaps>>
    BY <1>3 DEF ClearOwn, ClearChat, List, ClearOther, TextAt, Unrun
  <2>3. text'[x].at \in Unrun
    <3>1. text \in [Texts -> TextRecords] BY DEF NewInv, NewTypeOK
    <3>2. text[x].at = "others" \/ ~ClearOther(x) BY DEF ClearOther, TextAt
    <3>3. text'[x].at \in {"clearChat", "list", "others"} \/ text'[x].at = text[x].at
      BY <1>3, <3>1 DEF ClearOwn, ClearChat, List, ClearOther, Goto, TextRecords
    <3> QED BY <2>2, <3>3 DEF Unrun
  <2>4. OwnRun(x) BY <2>2, <2>3, UnrunStays
  <2> QED BY <2>1, <2>4
<1>4. CASE Cleared(x)
  <2>1. KeysStep(x) BY <1>4, ClearedKeys
  <2>2. text[x].at \in Unrun /\ UNCHANGED <<threads, origin, mishaps>> BY <1>4 DEF Cleared, TextAt, Unrun
  <2>3. text'[x].at \in Unrun
    <3>1. text \in [Texts -> TextRecords] BY DEF NewInv, NewTypeOK
    <3>2. text'[x].at \in {"create", "expired"} BY <1>4, <3>1 DEF Cleared, Unread
    <3> QED BY <3>2 DEF Unrun
  <2>4. OwnRun(x) BY <2>2, <2>3, UnrunStays
  <2> QED BY <2>1, <2>4
<1>5. CASE Create(x) BY <1>1, <1>5, CreateRuns DEF Create, TextAt
<1>6. CASE Find(x) BY <1>1, <1>6, FindRuns DEF Find, TextAt
<1>7. CASE Refuse(x)
  <2>1. text[x].at = "refuse" /\ Goto(x, "failed") /\ UNCHANGED <<armings, pending, press, gone, threads, origin, mishaps>>
    BY <1>7 DEF Refuse, TextAt
  <2>2. text[x].at \notin Unrun /\ mishaps' \in Nat /\ mishaps' >= mishaps
    BY <2>1 DEF Unrun, NewInv, NewTypeOK
  <2>3. OwnRun(x) /\ LaterKeys(x) BY <2>1, <2>2, PlainRuns
  <2> QED BY <1>1, <2>1, <2>3
<1>8. CASE ThreadStart(x) BY <1>1, <1>8, StartRuns DEF ThreadStart, TextAt
<1>9. CASE TurnStart(x) BY <1>1, <1>9, TurnRuns DEF TurnStart, TextAt
<1>10. CASE MarkOrigin(x) BY <1>1, <1>10, MarkRuns DEF MarkOrigin, TextAt
<1>11. CASE Show(x)
  <2>1. text[x].at = "show" /\ Goto(x, "shown") /\ UNCHANGED <<armings, pending, press, gone, threads, origin, mishaps>>
    BY <1>11 DEF Show, TextAt
  <2>2. text[x].at \notin Unrun /\ mishaps' \in Nat /\ mishaps' >= mishaps
    BY <2>1 DEF Unrun, NewInv, NewTypeOK
  <2>3. OwnRun(x) /\ LaterKeys(x) BY <2>1, <2>2, PlainRuns
  <2> QED BY <1>1, <2>1, <2>3
<1> QED BY <1>2, <1>3, <1>4, <1>5, <1>6, <1>7, <1>8, <1>9, <1>10, <1>11 DEF TextStep

LEMMA NewKept == NewInv /\ [NewNext]_newVars => NewInv'
<1> SUFFICES ASSUME NewInv, [NewNext]_newVars PROVE NewInv'
  OBVIOUS
<1>1. CASE UNCHANGED newVars
  <2>1. UNCHANGED <<armings, pending, press, gone, text, threads, origin, mishaps>> BY <1>1 DEF newVars
  <2>2. NewTypeOK' BY <2>1 DEF NewInv, NewTypeOK
  <2>3. \A x \in Texts : Runs(x)' = Runs(x) BY <2>1 DEF Runs
  <2>4. \A x \in Texts : /\ Clearing(text'[x], Len(armings)', press', pending')
                         /\ RunOK(text'[x], x, threads', Runs(x)', origin', mishaps')
    BY <2>1, <2>3 DEF NewInv
  <2>5. GoneOK(gone', Len(armings)', press', pending') BY <2>1 DEF NewInv
  <2> QED BY <2>2, <2>4, <2>5 DEF NewInv
<1>2. CASE Arm \/ ArmChat
  <2>1. UNCHANGED <<gone, text, threads, origin, mishaps>> BY <1>2 DEF Arm, ArmChat
  <2>2. /\ Quiet(Len(armings)', press', pending') /\ Len(armings)' \in Nat /\ NewTypeOK'
    BY <1>2, <2>1, PressQuiet DEF NewInv, NewTypeOK
  <2>3. GoneOK(gone', Len(armings)', press', pending') BY <2>1, <2>2, QuietGone DEF NewInv
  <2>4. \A x \in Texts : Clearing(text'[x], Len(armings)', press', pending')
    <3>1. \A x \in Texts : Clearing(text[x], Len(armings)', press', pending')
      BY <2>2, QuietClearing DEF NewInv
    <3> QED BY <2>1, <3>1
  <2>5. \A x \in Texts : RunOK(text'[x], x, threads', Runs(x)', origin', mishaps')
    BY <2>1 DEF NewInv, Runs
  <2> QED BY <2>2, <2>3, <2>4, <2>5 DEF NewInv
<1>3. ASSUME NEW x \in Texts, Read(x) \/ TextStep(x) PROVE NewInv'
  <2>1. KeysStep(x) /\ OwnRun(x) BY <1>3, OwnStep
  <2>2. NewTypeOK' BY <2>1 DEF NewInv, NewTypeOK, KeysStep, OwnRun, ThreadsStep
  <2>3. GoneOK(gone', Len(armings)', press', pending') BY <2>1 DEF KeysStep
  <2>4. ASSUME NEW y \in Texts
        PROVE  /\ Clearing(text'[y], Len(armings)', press', pending')
               /\ RunOK(text'[y], y, threads', Runs(y)', origin', mishaps')
    <3>1. CASE y = x BY <2>1, <3>1 DEF KeysStep, OwnRun
    <3>2. CASE y # x
      <4>1. text'[y] = text[y] BY <2>1, <3>2 DEF KeysStep
      <4>2. RunOK(text'[y], y, threads', Runs(y)', origin', mishaps') BY <2>1, <3>2, <4>1, OthersRun DEF OwnRun
      <4>3. Clearing(text[y], Len(armings), press, pending) /\ NewTypeOK /\ Len(armings) \in Nat
        BY DEF NewInv, NewTypeOK
      <4>4. Clearing(text[y], Len(armings), press, pending') BY <2>1, <4>3, QuietClearing DEF KeysStep
      <4> QED BY <2>1, <4>1, <4>2, <4>4 DEF KeysStep
    <3> QED BY <3>1, <3>2
  <2> QED BY <2>2, <2>3, <2>4 DEF NewInv
<1> QED BY <1>1, <1>2, <1>3 DEF NewNext

LEMMA NewStart == NewInit => NewInv
<1> SUFFICES ASSUME NewInit PROVE NewInv
  OBVIOUS
<1>1. NewTypeOK
  BY DEF NewInit, NewTypeOK, Unread, TextRecords, TextPlaces, Keys, NoArming
<1>2. GoneOK(gone, Len(armings), press, pending) BY DEF NewInit, GoneOK
<1>3. \A x \in Texts : Runs(x) = {} /\ Cardinality(Runs(x)) = 0
  BY FS_EmptySet DEF NewInit, Runs
<1>4. \A x \in Texts : /\ Clearing(text[x], Len(armings), press, pending)
                       /\ RunOK(text[x], x, threads, Runs(x), origin, mishaps)
  BY <1>3 DEF NewInit, Unread, Clearing, RunOK
<1> QED BY <1>1, <1>2, <1>4 DEF NewInv

\* A prompt runs in one thread unless an answer was lost, and the thread shown for it is one that
\* runs it and is known as the chat's, whatever other prompts are given meanwhile, but for a
\* prompt that another contains (createThreadFromProjectPrompt, newestMatchingDesktopCreatedThread).
THEOREM PromptsAreKept == NewSpec => []PromptKept
<1>1. NewSpec => []NewInv BY NewStart, NewKept, PTL DEF NewSpec
<1>2. NewInv => PromptKept
  BY DEF NewInv, RunOK, PromptKept, PromptRunsOnce, ShowsItsOwn, TextAt
<1> QED BY <1>1, <1>2, PTL

\* A press that a text took whole and has removed serves no later text: no key of the chat or of
\* another topic keeps it, and no write of it is still to come (clearPendingNewThreadState).
THEOREM SpentPressesStay == NewSpec => SpentPressStays
<1> DEFINE Fresh == \A x \in Texts : text'[x].arming # text[x].arming => text'[x].arming \notin gone
<1>1. NewInv /\ [NewNext]_newVars => [Fresh]_newVars
  <2> SUFFICES ASSUME NewInv, NewNext PROVE Fresh
    OBVIOUS
  <2>1. CASE Arm \/ ArmChat BY <2>1 DEF Arm, ArmChat
  <2>2. ASSUME NEW x \in Texts, Read(x) \/ TextStep(x) PROVE Fresh
    <3>1. KeysStep(x) BY <2>2, OwnStep
    <3> QED BY <3>1 DEF KeysStep
  <2> QED BY <2>1, <2>2 DEF NewNext
<1>2. NewSpec => [][Fresh]_newVars
  <2> HIDE DEF Fresh
  <2> QED BY <1>1, NewStart, NewKept, PTL DEF NewSpec
<1> QED BY <1>2 DEF SpentPressStays
=============================================================================
