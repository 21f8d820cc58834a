---------------------------- MODULE SnapshotsProofs ----------------------------
(***************************************************************************)
(* Proofs about the snapshot of a thread: what is read and what is stored  *)
(* lists the items of a turn once and in order, the stored answer is the   *)
(* answer of its turn, and a late event undoes nothing, for any turns,     *)
(* items, lags of the database and interleavings of the two loops.         *)
(***************************************************************************)
EXTENDS Snapshots, ListsProofs

-----------------------------------------------------------------------------
(* The invariant                                                           *)

Kinds == {"user", "say", "tool", "final"}
Statuses == {"none", "inProgress", "completed", "interrupted"}
Entry == [turn : Nat \ {0}, item : Nat \ {0}, kind : Kinds, done : BOOLEAN]
Turn == [items : Seq(Entry), status : Statuses]
Event == [turn : Nat \ {0}, tool : Nat \ {0}, done : BOOLEAN]
Snapshot == [turn : Nat, status : Statuses, tool : Nat, done : BOOLEAN, live : BOOLEAN, by : {"read", "live"},
             final : Nat, details : Seq(Entry), completion : {<<>>} \cup (Nat \X Statuses)]
Places == {"idle", "read", "store", "sync", "tool", "put", "compare"}
LoopState == [at : Places, event : Seq(Event), before : Snapshot, read : Snapshot, prev : Snapshot, alone : BOOLEAN]
SnapTypeOK ==
  /\ mode \in Modes /\ turns \in Seq(Turn) /\ hist \in Seq(Turn) /\ events \in Seq(Event)
  /\ row \in Snapshot /\ shown \in Snapshot
  /\ loop \in [Loops -> LoopState]

\* Turn n as Codex writes it: one tool at a time, and an answer only as the last word of a completed turn.
Written(n, t) ==
  /\ t.status # "none"
  /\ \A k \in DOMAIN t.items :
       /\ t.items[k].turn = n /\ t.items[k].item = k
       /\ t.items[k].kind # "tool" => t.items[k].done
       /\ t.items[k].kind = "final" => k = Len(t.items) /\ t.status = "completed"
  /\ \A j, k \in DOMAIN t.items : t.items[k].kind = "tool" /\ j < k => t.items[j].done
TurnsInv ==
  /\ Latest > 0
  /\ \A n \in DOMAIN turns : Written(n, turns[n]) /\ (n # Latest => turns[n].status # "inProgress")
\* The database is behind, and what it has of a turn that ended is all of it.
HistInv ==
  /\ Len(hist) <= Latest
  /\ \A n \in DOMAIN hist :
       /\ Written(n, hist[n]) /\ (hist[n].status # "inProgress" => hist[n] = turns[n])
       /\ Len(hist[n].items) <= Len(Items(n))
       /\ \A k \in DOMAIN hist[n].items : hist[n].items[k].kind = "tool" <=> Items(n)[k].kind = "tool"

\* The events the live loop has not put into the row yet.
Ahead == loop["live"].event
Pending(e) == (\E i \in DOMAIN Ahead : e = Ahead[i]) \/ (\E i \in DOMAIN events : e = events[i])
ToolOf(n, k) == n \in DOMAIN turns /\ k \in Tools(Items(n))
InOrder(e, f) == e.turn = f.turn => e.tool <= f.tool
EventsInv ==
  /\ loop["live"].at \in {"idle", "sync"} <=> Ahead = <<>>
  /\ Len(Ahead) <= 1
  /\ \A e \in Event : Pending(e) => ToolOf(e.turn, e.tool)
  /\ \A i, j \in DOMAIN events : i < j => InOrder(events[i], events[j])
  /\ \A i \in DOMAIN Ahead, j \in DOMAIN events : InOrder(Ahead[i], events[j])

Lists(items, n, k) == \E i \in DOMAIN items : items[i].kind = "tool" /\ items[i].turn = n /\ items[i].item = k
Once(items) ==
  \A j, k \in DOMAIN items : items[j].turn = items[k].turn /\ items[j].item = items[k].item => j = k
\* Items of turn n in their order, with every tool before one of them.
Follow(items, n) ==
  /\ \A j, k \in DOMAIN items : items[j].turn = n /\ (j < k => items[j].item < items[k].item)
  /\ \A k \in DOMAIN items : items[k].item \in DOMAIN Items(n)
                             /\ (items[k].kind = "tool" <=> Items(n)[items[k].item].kind = "tool")
  /\ \A k \in DOMAIN items, j \in Tools(Items(n)) :
       items[k].kind = "tool" /\ j < items[k].item => Lists(items, n, j)
\* The tool of a snapshot is the last one it lists of its turn.
LastTool(snap) ==
  snap.tool # NoItem =>
    \E k \in Tools(snap.details) :
      /\ snap.details[k].turn = snap.turn /\ snap.details[k].item = snap.tool
      /\ \A j \in Tools(snap.details) : snap.details[j].turn = snap.turn => j <= k
AnswerOf(n) == IdOf(Items(n), LastOf(Spoken(Items(n))))
\* A read that waits to be stored; where the database has nothing of the turn yet, its answer counts.
Reads(snap) ==
  /\ snap.turn \in DOMAIN turns /\ Follow(snap.details, snap.turn) /\ LastTool(snap)
  /\ snap.final # NoItem /\ snap.turn \notin DOMAIN hist =>
       turns[snap.turn].status = "completed" /\ snap.final = AnswerOf(snap.turn)
Waits(l, snap) == At(l, "store") /\ snap = loop[l].read
ReadInv == \A l \in Loops, snap \in Snapshot : Waits(l, snap) => Reads(snap)
\* What the row says, and what an event is put on: a tool that is missing there has no event to come,
\* unless it is the last one.
Sound(snap) ==
  /\ Once(snap.details) /\ LastTool(snap)
  /\ snap.tool # NoItem => ToolOf(snap.turn, snap.tool)
  /\ \A e \in Event : Pending(e) /\ e.turn = snap.turn /\ e.tool < snap.tool => Lists(snap.details, e.turn, e.tool)
Held(snap) == snap = row \/ (At("live", "put") /\ snap = loop["live"].prev)
RowInv == \A snap \in Snapshot : Held(snap) => Sound(snap)
\* While nobody else stores, the event is put on the row there is.
AloneInv == At("live", "put") /\ loop["live"].alone => loop["live"].prev = row

SnapInv == SnapTypeOK /\ TurnsInv /\ HistInv /\ EventsInv /\ ReadInv /\ RowInv /\ AloneInv

-----------------------------------------------------------------------------
(* The operators                                                           *)

\* LastOf is the greatest element of a set of places.
LEMMA LastOfFacts ==
  ASSUME NEW n \in Nat, NEW S \in SUBSET (1..n), S # {}
  PROVE  LastOf(S) \in S /\ LastOf(S) \in 1..n /\ \A o \in S : o <= LastOf(S)
<1> DEFINE R == {d \in Nat : n - d \in S}
<1>1. R # {}
  <2>1. PICK k \in S : TRUE OBVIOUS
  <2>2. k \in 1..n BY <2>1
  <2>3. n - k \in Nat /\ n - (n - k) = k BY <2>2
  <2> QED BY <2>1, <2>3
<1>2. PICK d \in R : \A e \in R : d <= e
  <2> HIDE DEF R
  <2>1. R \subseteq Nat BY DEF R
  <2> QED BY <1>1, <2>1, LeastNatural
<1>3. n - d \in S /\ d \in Nat BY <1>2
<1>4. ASSUME NEW o \in S PROVE o <= n - d
  <2>1. o \in 1..n OBVIOUS
  <2>2. n - o \in Nat /\ n - (n - o) = o BY <2>1
  <2>3. n - o \in R BY <2>2
  <2>4. d <= n - o BY <1>2, <2>3
  <2> QED BY <1>3, <2>1, <2>4
<1> HIDE DEF R
<1>5. \E k \in S : \A o \in S : o <= k BY <1>3, <1>4
<1> QED BY <1>5 DEF LastOf

LEMMA LastOfIs ==
  ASSUME NEW n \in Nat, NEW S \in SUBSET (1..n), NEW k \in S, \A o \in S : o <= k
  PROVE  LastOf(S) = k
<1>1. LastOf(S) \in S /\ LastOf(S) \in 1..n /\ \A o \in S : o <= LastOf(S) BY LastOfFacts
<1>2. LastOf(S) <= k /\ k <= LastOf(S) /\ k \in 1..n BY <1>1
<1> QED BY <1>1, <1>2

LEMMA NoneChosen == ASSUME NEW T, NEW s \in Seq(T) PROVE Chosen(s, {}) = <<>>
<1>1. PICK p : Picks(Chosen(s, {}), s, {}, p) BY ChosenFacts
<1>2. Chosen(s, {}) \in Seq(T) BY ChosenFacts
<1>3. Len(Chosen(s, {})) = 0
  <2>1. Len(Chosen(s, {})) \in Nat BY <1>2, LenProperties
  <2>2. \A i \in 1..Len(Chosen(s, {})) : p[i] \in {} BY <1>1 DEF Picks
  <2>3. 1 \notin 1..Len(Chosen(s, {})) BY <2>2
  <2> QED BY <2>1, <2>3
<1> QED BY <1>2, <1>3, EmptySeq

\* The tools of a list, in their order.
LEMMA ToolsChosen ==
  ASSUME NEW s \in Seq(Entry), Once(s)
  PROVE  LET t == Chosen(s, Tools(s)) IN
         /\ t \in Seq(Entry) /\ Once(t) /\ \A i \in DOMAIN t : t[i].kind = "tool"
         /\ \A n, k : Lists(s, n, k) <=> Lists(t, n, k)
         /\ \E p : Picks(t, s, Tools(s), p)
<1> DEFINE t == Chosen(s, Tools(s))
<1>0. Tools(s) \in SUBSET (1..Len(s)) /\ DOMAIN s = 1..Len(s) BY LenProperties DEF Tools
<1>1. t \in Seq(Entry) /\ \E p : Picks(t, s, Tools(s), p) BY <1>0, ChosenFacts
<1>2. PICK p : Picks(t, s, Tools(s), p) BY <1>1
<1>3. DOMAIN t = 1..Len(t) /\ Len(t) \in Nat BY <1>1, LenProperties
<1> HIDE DEF t
<1>4. \A i \in DOMAIN t : p[i] \in DOMAIN s /\ t[i] = s[p[i]] /\ s[p[i]].kind = "tool"
  BY <1>2, <1>3 DEF Picks, Tools
<1>5. Once(t)
  <2> SUFFICES ASSUME NEW i \in DOMAIN t, NEW j \in DOMAIN t,
                      t[i].turn = t[j].turn, t[i].item = t[j].item, i # j
               PROVE  FALSE
    BY DEF Once
  <2>1. p[i] = p[j] BY <1>4 DEF Once
  <2>2. i < j \/ j < i BY <1>3
  <2>3. p[i] < p[j] \/ p[j] < p[i] BY <1>2, <1>3, <2>2 DEF Picks
  <2>4. p[i] \in Nat BY <1>0, <1>4
  <2> QED BY <2>1, <2>3, <2>4
<1>6. ASSUME NEW n, NEW k PROVE Lists(s, n, k) <=> Lists(t, n, k)
  <2>1. ASSUME Lists(t, n, k) PROVE Lists(s, n, k) BY <1>4, <2>1 DEF Lists
  <2>2. ASSUME Lists(s, n, k) PROVE Lists(t, n, k)
    <3>1. PICK i \in DOMAIN s : s[i].kind = "tool" /\ s[i].turn = n /\ s[i].item = k BY <2>2 DEF Lists
    <3>2. i \in Tools(s) BY <3>1 DEF Tools
    <3>3. PICK j \in 1..Len(t) : p[j] = i BY <1>2, <3>2 DEF Picks
    <3> QED BY <1>3, <1>4, <3>1, <3>3 DEF Lists
  <2> QED BY <2>1, <2>2
<1> QED BY <1>1, <1>4, <1>5, <1>6 DEF t

\* What Upserted returns: some of the items, none of them new, and then the new ones.
Upserts(u, items, new, base) ==
  /\ base \in Nat /\ Len(u) = base + Len(new)
  /\ \A i \in 1..base : \E j \in DOMAIN items : u[i] = items[j]
  /\ \A i \in 1..Len(new) : u[base + i] = new[i]
\* A place after the first a.
LEMMA Rebase ==
  ASSUME NEW a \in Nat, NEW b \in Nat, NEW i \in 1..(a + b), ~(i <= a)
  PROVE  i - a \in 1..b /\ a + (i - a) = i
OBVIOUS

LEMMA UpsertedFacts ==
  ASSUME NEW items \in Seq(Entry), NEW new \in Seq(Entry), Once(items), Once(new)
  PROVE  LET u == Upserted(items, new) IN
         /\ u \in Seq(Entry) /\ Once(u) /\ \E base : Upserts(u, items, new, base)
         /\ \A n, k : Lists(new, n, k) => Lists(u, n, k)
<1> DEFINE Same(x, y) == x.turn = y.turn /\ x.item = y.item
           K == {i \in DOMAIN items : \A k \in DOMAIN new : ~Same(new[k], items[i])}
           c == Chosen(items, K)
           u == c \o new
<1>0. Upserted(items, new) = u
  <2>1. K = {i \in DOMAIN items : \A k \in DOMAIN new : <<new[k].turn, new[k].item>> # <<items[i].turn, items[i].item>>}
    OBVIOUS
  <2> QED BY <2>1 DEF Upserted
<1>1. /\ DOMAIN items = 1..Len(items) /\ Len(items) \in Nat /\ DOMAIN new = 1..Len(new) /\ Len(new) \in Nat
      /\ K \in SUBSET (1..Len(items))
  BY LenProperties
<1> HIDE DEF K
<1>2. c \in Seq(Entry) /\ \E p : Picks(c, items, K, p) BY <1>1, ChosenFacts
<1>3. PICK p : Picks(c, items, K, p) BY <1>2
<1>4. DOMAIN c = 1..Len(c) /\ Len(c) \in Nat BY <1>2, LenProperties
<1>5. u \in Seq(Entry) /\ Len(u) = Len(c) + Len(new) BY <1>2, ConcatProperties
<1>6. \A i \in 1..Len(c) : u[i] = c[i] BY <1>1, <1>2, <1>4, ConcatProperties
<1>7. \A i \in 1..Len(new) : u[Len(c) + i] = new[i]
  <2> TAKE i \in 1..Len(new)
  <2>1. Len(c) + i \in 1..(Len(c) + Len(new)) /\ ~(Len(c) + i <= Len(c)) /\ (Len(c) + i) - Len(c) = i BY <1>1, <1>4
  <2> QED BY <1>2, <2>1, ConcatProperties
<1>8. \A i \in 1..Len(c) : p[i] \in DOMAIN items /\ c[i] = items[p[i]] /\ \A k \in DOMAIN new : ~Same(new[k], c[i])
  <2> HIDE DEF c
  <2>1. ASSUME NEW i \in 1..Len(c) PROVE p[i] \in DOMAIN items /\ c[i] = items[p[i]] /\ \A k \in DOMAIN new : ~Same(new[k], c[i])
    <3>1. p[i] \in K /\ c[i] = items[p[i]] BY <1>3 DEF Picks
    <3>2. p[i] \in DOMAIN items /\ \A k \in DOMAIN new : ~Same(new[k], items[p[i]]) BY <3>1 DEF K
    <3> QED BY <3>1, <3>2
  <2> QED BY <2>1
<1> HIDE DEF c, u
<1>9. DOMAIN u = 1..Len(u) BY <1>5, LenProperties
<1>10. Once(u)
  <2>1. ASSUME NEW i \in DOMAIN u, NEW j \in DOMAIN u, i < j, Same(u[i], u[j]) PROVE FALSE
    <3>0. i \in 1..(Len(c) + Len(new)) /\ j \in 1..(Len(c) + Len(new)) BY <1>5, <1>9
    <3>1. CASE j <= Len(c)
      <4>1. i \in 1..Len(c) /\ j \in 1..Len(c) BY <2>1, <1>4, <3>0, <3>1
      <4>2. Same(items[p[i]], items[p[j]]) BY <2>1, <1>6, <1>8, <4>1
      <4>3. p[i] = p[j] BY <1>8, <4>1, <4>2 DEF Once
      <4>4. p[i] < p[j] /\ p[i] \in Nat BY <2>1, <1>1, <1>3, <1>8, <4>1 DEF Picks
      <4> QED BY <4>3, <4>4
    <3>2. CASE i <= Len(c) /\ ~(j <= Len(c))
      <4>1. i \in 1..Len(c) /\ j - Len(c) \in 1..Len(new) /\ Len(c) + (j - Len(c)) = j
        <5>1. i \in 1..Len(c) BY <1>4, <3>0, <3>2
        <5> QED BY <1>1, <1>4, <3>0, <3>2, <5>1, Rebase
      <4>2. u[j] = new[j - Len(c)] BY <1>7, <4>1
      <4>3. u[i] = c[i] BY <1>6, <4>1
      <4>4. Same(new[j - Len(c)], c[i]) BY <2>1, <4>2, <4>3
      <4>5. j - Len(c) \in DOMAIN new BY <1>1, <4>1
      <4> HIDE DEF Same
      <4> QED BY <1>8, <4>1, <4>4, <4>5
    <3>3. CASE ~(i <= Len(c))
      <4>1. /\ i - Len(c) \in 1..Len(new) /\ Len(c) + (i - Len(c)) = i
            /\ j - Len(c) \in 1..Len(new) /\ Len(c) + (j - Len(c)) = j
            /\ i - Len(c) # j - Len(c)
        <5>1. i < j /\ i \in Nat /\ j \in Nat BY <2>1, <1>1, <1>4, <3>0
        <5>2. ~(j <= Len(c)) BY <1>4, <3>3, <5>1
        <5>3. /\ i - Len(c) \in 1..Len(new) /\ Len(c) + (i - Len(c)) = i
              /\ j - Len(c) \in 1..Len(new) /\ Len(c) + (j - Len(c)) = j
          BY <1>1, <1>4, <3>0, <3>3, <5>2, Rebase
        <5> QED BY <1>4, <5>1, <5>3
      <4>2. u[i] = new[i - Len(c)] /\ u[j] = new[j - Len(c)] BY <1>7, <4>1
      <4> QED BY <2>1, <1>1, <4>1, <4>2 DEF Once
    <3> QED BY <2>1, <1>4, <3>0, <3>1, <3>2, <3>3
  <2> HIDE DEF Same
  <2>2. ASSUME NEW i \in DOMAIN u, NEW j \in DOMAIN u, Same(u[i], u[j]) PROVE i = j
    <3>1. i \in Nat /\ j \in Nat BY <1>9
    <3>2. Same(u[j], u[i]) BY <2>2 DEF Same
    <3>3. ~(i < j) BY <2>1, <2>2
    <3>4. ~(j < i) BY <2>1, <3>2
    <3> QED BY <3>1, <3>3, <3>4
  <2> QED BY <2>2 DEF Once, Same
<1>11. Upserts(u, items, new, Len(c)) BY <1>4, <1>5, <1>6, <1>7, <1>8 DEF Upserts
<1>12. ASSUME NEW n, NEW k, Lists(new, n, k) PROVE Lists(u, n, k)
  <2>1. PICK i \in 1..Len(new) : new[i].kind = "tool" /\ new[i].turn = n /\ new[i].item = k BY <1>1, <1>12 DEF Lists
  <2>2. Len(c) + i \in DOMAIN u BY <1>1, <1>4, <1>5, <1>9
  <2> QED BY <1>7, <2>1, <2>2 DEF Lists
<1> QED BY <1>0, <1>5, <1>10, <1>11, <1>12

-----------------------------------------------------------------------------
(* Reading a thread                                                        *)

LEMMA TurnFacts ==
  ASSUME SnapTypeOK, NEW n \in DOMAIN turns
  PROVE  /\ n \in Nat \ {0} /\ n \in 1..Latest /\ Latest \in Nat /\ turns[n] \in Turn
         /\ Items(n) \in Seq(Entry) /\ Len(Items(n)) \in Nat /\ DOMAIN Items(n) = 1..Len(Items(n))
<1>1. turns \in Seq(Turn) BY DEF SnapTypeOK
<1>2. Latest \in Nat /\ DOMAIN turns = 1..Latest BY <1>1, LenProperties DEF Latest
<1>3. turns[n] \in Turn BY <1>1, <1>2, ElementOfSeq DEF Latest
<1>4. Items(n) \in Seq(Entry) BY <1>3 DEF Turn, Items
<1> QED BY <1>2, <1>3, <1>4, LenProperties

\* Items picked from those of the turn, every tool before a picked one among them.
LEMMA PickedFollow ==
  ASSUME SnapTypeOK, NEW n \in DOMAIN turns, Written(n, turns[n]),
         NEW K \in SUBSET DOMAIN Items(n), NEW c \in Seq(Entry), NEW p, Picks(c, Items(n), K, p),
         \A k \in K, j \in Tools(Items(n)) : Items(n)[k].kind = "tool" /\ j < k => j \in K
  PROVE  Follow(c, n)
<1>1. DOMAIN c = 1..Len(c) /\ Len(c) \in Nat BY LenProperties
<1>2. DOMAIN Items(n) = 1..Len(Items(n)) /\ Len(Items(n)) \in Nat BY TurnFacts
<1>3. ASSUME NEW i \in DOMAIN c
      PROVE  /\ p[i] \in K /\ p[i] \in DOMAIN Items(n) /\ c[i] = Items(n)[p[i]]
             /\ c[i].item = p[i] /\ c[i].turn = n
  BY <1>1 DEF Picks, Written, Items
<1>4. \A j, k \in DOMAIN c : j < k => c[j].item < c[k].item BY <1>1, <1>3 DEF Picks
<1>5. ASSUME NEW k \in DOMAIN c, NEW j \in Tools(Items(n)), c[k].kind = "tool", j < c[k].item
      PROVE  Lists(c, n, j)
  <2>1. j \in K BY <1>3, <1>5
  <2>2. PICK i \in 1..Len(c) : p[i] = j BY <2>1 DEF Picks
  <2>3. i \in DOMAIN c /\ c[i].kind = "tool" /\ c[i].turn = n /\ c[i].item = j
    BY <1>1, <1>3, <2>2 DEF Tools
  <2> QED BY <2>3 DEF Lists
<1> QED BY <1>3, <1>4, <1>5 DEF Follow

LEMMA HistoryFollows ==
  ASSUME SnapTypeOK, TurnsInv, HistInv, NEW n \in DOMAIN hist
  PROVE  n \in DOMAIN turns /\ hist[n] \in Turn /\ hist[n].items \in Seq(Entry) /\ Follow(hist[n].items, n)
<1>1. DOMAIN hist = 1..Len(hist) /\ Len(hist) \in Nat /\ hist[n] \in Turn
  BY LenProperties, ElementOfSeq DEF SnapTypeOK
<1>2. DOMAIN turns = 1..Latest /\ Latest \in Nat BY LenProperties DEF SnapTypeOK, Latest
<1>3. n \in DOMAIN turns BY <1>1, <1>2 DEF HistInv
<1> DEFINE items == hist[n].items
<1>4. items \in Seq(Entry) BY <1>1 DEF Turn
<1>5. DOMAIN items = 1..Len(items) /\ Len(items) \in Nat BY <1>4, LenProperties
<1>6. Len(Items(n)) \in Nat /\ DOMAIN Items(n) = 1..Len(Items(n)) BY <1>3, TurnFacts
<1>7. \A k \in DOMAIN items : items[k].turn = n /\ items[k].item = k BY DEF HistInv, Written
<1>8. \A k \in DOMAIN items : k \in DOMAIN Items(n) /\ (items[k].kind = "tool" <=> Items(n)[k].kind = "tool")
  BY <1>5, <1>6 DEF HistInv
<1>9. ASSUME NEW k \in DOMAIN items, NEW j \in Tools(Items(n)), j < items[k].item PROVE Lists(items, n, j)
  <2>1. j \in DOMAIN Items(n) /\ Items(n)[j].kind = "tool" /\ j < k BY <1>7, <1>9 DEF Tools
  <2>2. j \in DOMAIN items BY <1>5, <1>6, <2>1
  <2> QED BY <1>7, <1>8, <2>1, <2>2 DEF Lists
<1> HIDE DEF items
<1>10. Follow(items, n) BY <1>7, <1>8, <1>9 DEF Follow
<1> QED BY <1>1, <1>3, <1>4, <1>10 DEF items

\* Marking an answer leaves the items what they are.
Marks(m, items, status) ==
  /\ m \in Seq(Entry) /\ DOMAIN m = DOMAIN items
  /\ \A k \in DOMAIN items :
       /\ m[k].turn = items[k].turn /\ m[k].item = items[k].item
       /\ (m[k].kind = "tool" <=> items[k].kind = "tool")
       /\ m[k].kind = "final" => items[k].kind = "final"
                                 \/ (status = "completed" /\ Spoken(items) # {} /\ k = LastOf(Spoken(items)))
LEMMA MarkedMarks ==
  ASSUME NEW items \in Seq(Entry), NEW status
  PROVE  Marks(Marked(items, status), items, status)
<1>1. DOMAIN items = 1..Len(items) /\ Len(items) \in Nat /\ \A k \in DOMAIN items : items[k] \in Entry
  BY LenProperties, ElementOfSeq
<1>2. CASE Marked(items, status) = items BY <1>2 DEF Marks
<1>3. CASE Marked(items, status) # items
  <2> DEFINE l == LastOf(Spoken(items))  m == [items EXCEPT ![l].kind = "final"]
  <2>1. Marked(items, status) = m /\ status = "completed" /\ Spoken(items) # {} BY <1>3 DEF Marked
  <2>2. l \in Spoken(items)
    <3>1. Spoken(items) \in SUBSET (1..Len(items)) BY <1>1 DEF Spoken
    <3> QED BY <1>1, <2>1, <3>1, LastOfFacts
  <2>3. l \in DOMAIN items /\ items[l].kind # "tool" BY <2>2 DEF Spoken
  <2> HIDE DEF l
  <2>4. DOMAIN m = DOMAIN items OBVIOUS
  <2>5. \A k \in DOMAIN items : k # l => m[k] = items[k] OBVIOUS
  <2>6. m[l] = [items[l] EXCEPT !.kind = "final"] BY <2>3
  <2>7. items[l] \in Entry BY <1>1, <2>3
  <2>8. m[l] \in Entry /\ m[l].turn = items[l].turn /\ m[l].item = items[l].item /\ m[l].kind = "final"
    BY <2>6, <2>7 DEF Entry, Kinds
  <2> HIDE DEF m
  <2>9. m \in Seq(Entry)
    <3>1. m \in [1..Len(items) -> Entry]
      <4>1. \A k \in 1..Len(items) : m[k] \in Entry BY <1>1, <2>5, <2>8
      <4>2. m = [k \in DOMAIN items |-> m[k]] BY <2>4 DEF m
      <4> QED BY <1>1, <4>1, <4>2
    <3> QED BY <1>1, <3>1, SeqDef
  <2> QED BY <2>1, <2>3, <2>4, <2>5, <2>8, <2>9 DEF Marks, l
<1> QED BY <1>2, <1>3

LEMMA MarkedFollow ==
  ASSUME NEW items \in Seq(Entry), NEW status, NEW n, NEW m, Follow(items, n), Marks(m, items, status)
  PROVE  Follow(m, n)
<1>1. \A k, j : Lists(items, k, j) => Lists(m, k, j) BY DEF Marks, Lists
<1>2. \A j, k \in DOMAIN m : m[j].turn = n /\ (j < k => m[j].item < m[k].item) BY DEF Marks, Follow
<1>3. \A k \in DOMAIN m : m[k].item \in DOMAIN Items(n)
                          /\ (m[k].kind = "tool" <=> Items(n)[m[k].item].kind = "tool")
  BY DEF Marks, Follow
<1>4. \A k \in DOMAIN m, j \in Tools(Items(n)) : m[k].kind = "tool" /\ j < m[k].item => Lists(m, n, j)
  BY <1>1 DEF Marks, Follow
<1> QED BY <1>2, <1>3, <1>4 DEF Follow

\* The answer among items picked from those of the turn, all that was said among them.
LEMMA AnswerPicked ==
  ASSUME SnapTypeOK, NEW n \in DOMAIN turns, Written(n, turns[n]),
         NEW K \in SUBSET DOMAIN Items(n), NEW c \in Seq(Entry), NEW p, Picks(c, Items(n), K, p),
         Spoken(Items(n)) \subseteq K,
         NEW m, Marks(m, c, turns[n].status), Finals(m) # {}
  PROVE  turns[n].status = "completed" /\ IdOf(m, LastOf(Finals(m))) = AnswerOf(n)
<1> DEFINE items == Items(n)  L == LastOf(Spoken(items))
<1>1. DOMAIN c = 1..Len(c) /\ Len(c) \in Nat BY LenProperties
<1>2. DOMAIN items = 1..Len(items) /\ Len(items) \in Nat /\ items \in Seq(Entry) BY TurnFacts
<1>3. \A i \in DOMAIN c : p[i] \in DOMAIN items /\ p[i] \in Nat /\ c[i] = items[p[i]] BY <1>1, <1>2 DEF Picks
<1>4. Spoken(items) \in SUBSET (1..Len(items)) /\ Spoken(c) \in SUBSET (1..Len(c)) BY <1>1, <1>2 DEF Spoken
<1>5. \A i \in DOMAIN c : i \in Spoken(c) <=> p[i] \in Spoken(items) BY <1>3 DEF Spoken
<1>6. ASSUME NEW i \in Spoken(c), p[i] = L PROVE i = LastOf(Spoken(c))
  <2>1. ASSUME NEW o \in Spoken(c) PROVE o <= i
    <3>1. o \in 1..Len(c) /\ i \in 1..Len(c) /\ p[o] \in Spoken(items) BY <1>1, <1>4, <1>5
    <3>2. p[o] <= L /\ p[o] \in Nat /\ L \in Nat BY <1>1, <1>2, <1>3, <1>4, <3>1, LastOfFacts
    <3>3. ~(i < o)
      <4>1. i < o => p[i] < p[o] BY <3>1 DEF Picks
      <4> QED BY <1>6, <3>2, <4>1
    <3> QED BY <3>1, <3>3
  <2> QED BY <1>1, <1>4, <2>1, LastOfIs
<1>7. ASSUME NEW i \in DOMAIN c, c[i].kind = "final"
      PROVE  turns[n].status = "completed" /\ i \in Spoken(c) /\ p[i] = L
  <2>1. p[i] = Len(items) /\ turns[n].status = "completed" /\ p[i] \in Spoken(items)
    BY <1>3, <1>7 DEF Written, Items, Spoken
  <2>2. \A o \in Spoken(items) : o <= p[i] BY <1>2, <1>4, <2>1
  <2>3. L = p[i] BY <1>2, <1>4, <2>1, <2>2, LastOfIs
  <2> QED BY <1>5, <2>1, <2>3
<1>8. Spoken(c) # {} => LastOf(Spoken(c)) \in Spoken(c) /\ p[LastOf(Spoken(c))] = L
  <2> SUFFICES ASSUME Spoken(c) # {} PROVE LastOf(Spoken(c)) \in Spoken(c) /\ p[LastOf(Spoken(c))] = L OBVIOUS
  <2>1. Spoken(items) # {} BY <1>1, <1>4, <1>5
  <2>2. L \in Spoken(items) BY <1>2, <1>4, <2>1, LastOfFacts
  <2>3. PICK i \in 1..Len(c) : p[i] = L BY <2>2 DEF Picks
  <2>4. i \in Spoken(c) BY <1>1, <1>5, <2>2, <2>3
  <2> QED BY <1>6, <2>3, <2>4
<1>9. ASSUME NEW f \in Finals(m)
      PROVE  /\ turns[n].status = "completed" /\ f = LastOf(Spoken(c)) /\ f \in Spoken(c)
             /\ m[f].item = items[L].item
  <2>1. f \in DOMAIN c /\ m[f].kind = "final" /\ m[f].item = c[f].item BY <1>9 DEF Finals, Marks
  <2>2. c[f].kind = "final" \/ (turns[n].status = "completed" /\ Spoken(c) # {} /\ f = LastOf(Spoken(c)))
    BY <2>1 DEF Marks
  <2>3. turns[n].status = "completed" /\ f \in Spoken(c) /\ p[f] = L BY <1>7, <1>8, <2>1, <2>2
  <2> QED BY <1>3, <1>6, <2>1, <2>3
<1>10. PICK f \in Finals(m) : TRUE OBVIOUS
<1>11. f \in 1..Len(c) /\ Finals(m) = {f} BY <1>4, <1>9
<1>12. LastOf(Finals(m)) = f
  <2>1. \A o \in {f} : o <= f BY <1>11
  <2>2. {f} \in SUBSET (1..Len(c)) BY <1>11
  <2> QED BY <1>1, <1>11, <2>1, <2>2, LastOfIs
<1>13. f # NoItem BY <1>11 DEF NoItem
<1>14. L # NoItem
  <2>1. Spoken(items) # {} BY <1>4, <1>5, <1>9, <1>1
  <2> QED BY <1>2, <1>4, <2>1, LastOfFacts DEF NoItem
<1> QED BY <1>9, <1>12, <1>13, <1>14 DEF IdOf, AnswerOf

\* Of the rollout file only what the last turn wrote is read.
LEMMA RolloutPicks ==
  ASSUME SnapTypeOK, TurnsInv
  PROVE  RolloutItems(Latest)
           = Chosen(Items(Latest), {k \in DOMAIN Items(Latest) : Items(Latest)[k].kind = "tool" => Items(Latest)[k].done})
<1> DEFINE n == Latest
           In(m, it) == IF it.kind = "tool" THEN m = n /\ it.done ELSE OfTurn(m, n)
           Of(m) == Chosen(Items(m), {k \in DOMAIN Items(m) : In(m, Items(m)[k])})
           B(g) == [m \in 0..Latest |-> IF m = 0 THEN <<>> ELSE g[m - 1] \o Of(m)]
           upTo == CHOOSE g : g = B(g)
           w == [m \in 0..Latest |-> IF m < n THEN <<>> ELSE Of(n)]
<1>1. Latest \in Nat /\ Latest > 0 /\ DOMAIN turns = 1..Latest BY LenProperties DEF SnapTypeOK, TurnsInv, Latest
<1>2. ASSUME NEW m \in 1..Latest, m < n PROVE Of(m) = <<>>
  <2>1. Items(m) \in Seq(Entry) BY <1>1, TurnFacts
  <2>2. m # 0 /\ m # n BY <1>1, <1>2
  <2>3. {k \in DOMAIN Items(m) : In(m, Items(m)[k])} = {} BY <2>2 DEF OfTurn
  <2> QED BY <2>1, <2>3, NoneChosen
<1>3. Of(n) \in Seq(Entry)
  <2>1. n \in DOMAIN turns BY <1>1
  <2>2. Items(n) \in Seq(Entry) /\ DOMAIN Items(n) = 1..Len(Items(n)) BY <2>1, TurnFacts
  <2>3. {k \in DOMAIN Items(n) : In(n, Items(n)[k])} \in SUBSET (1..Len(Items(n))) BY <2>2
  <2> HIDE DEF In
  <2> QED BY <2>2, <2>3, ChosenFacts
<1>4. Of(n) = Chosen(Items(n), {k \in DOMAIN Items(n) : Items(n)[k].kind = "tool" => Items(n)[k].done})
  <2>1. \A it : In(n, it) <=> (it.kind = "tool" => it.done) BY DEF OfTurn
  <2> HIDE DEF In
  <2> QED BY <2>1
<1>5. RolloutItems(n) = upTo[Latest] BY DEF RolloutItems
<1> HIDE DEF Of
<1>6. w = B(w)
  <2>1. ASSUME NEW m \in 0..Latest PROVE w[m] = B(w)[m]
    <3>1. CASE m = 0 BY <1>1, <3>1
    <3>2. CASE m # 0
      <4>1. m \in 1..Latest /\ m - 1 \in 0..Latest /\ m - 1 < n BY <1>1, <3>2
      <4>2. w[m - 1] = <<>> BY <4>1
      <4>3. CASE m < n
        <5>1. w[m] = <<>> /\ Of(m) = <<>> BY <1>2, <4>1, <4>3
        <5>2. B(w)[m] = w[m - 1] \o Of(m) BY <3>2
        <5>3. <<>> \o <<>> = <<>> BY ConcatEmptySeq, EmptySeq
        <5> HIDE DEF w, B
        <5> QED BY <4>2, <5>1, <5>2, <5>3
      <4>4. CASE m = n
        <5>1. w[m] = Of(n) BY <1>1, <4>4
        <5>2. <<>> \o Of(n) = Of(n) BY <1>3, ConcatEmptySeq
        <5> QED BY <3>2, <4>2, <4>4, <5>1, <5>2
      <4> QED BY <1>1, <4>1, <4>3, <4>4
    <3> QED BY <3>1, <3>2
  <2> HIDE DEF w, B
  <2>2. w = [m \in 0..Latest |-> w[m]] /\ B(w) = [m \in 0..Latest |-> B(w)[m]] BY DEF w, B
  <2> QED BY <2>1, <2>2
<1>7. upTo = B(upTo) BY <1>6
<1> HIDE DEF upTo
<1> DEFINE S == {m \in Nat : m < n => upTo[m] = <<>>}
<1>8. 0 \in S BY <1>1, <1>7
<1>9. ASSUME NEW m \in Nat, m \in S PROVE m + 1 \in S
  <2> SUFFICES ASSUME m + 1 < n PROVE upTo[m + 1] = <<>> OBVIOUS
  <2>1. m + 1 \in 1..Latest /\ m + 1 \in 0..Latest /\ m + 1 # 0 /\ (m + 1) - 1 = m /\ m < n BY <1>1
  <2>2. upTo[m] = <<>> BY <1>9, <2>1
  <2>3. upTo[m + 1] = upTo[m] \o Of(m + 1) BY <1>7, <2>1
  <2>4. Of(m + 1) = <<>> BY <1>2, <2>1
  <2> QED BY <2>2, <2>3, <2>4
<1> HIDE DEF S
<1>10. Nat \subseteq S BY <1>8, <1>9, SetInduction
<1>11. upTo[n - 1] = <<>>
  <2>1. n - 1 \in Nat /\ n - 1 < n BY <1>1
  <2> QED BY <1>10, <2>1 DEF S
<1>12. upTo[n] = upTo[n - 1] \o Of(n)
  <2>1. n \in 0..Latest /\ n # 0 BY <1>1
  <2> QED BY <1>7, <2>1
<1>13. upTo[n] = Of(n) BY <1>3, <1>11, <1>12, ConcatEmptySeq
<1> QED BY <1>4, <1>5, <1>13

\* What a read of the last turn returns.
LEMMA HydratedFacts ==
  ASSUME SnapTypeOK, TurnsInv, HistInv
  PROVE  LET items == Hydrated(Latest) IN
         /\ items \in Seq(Entry) /\ Follow(items, Latest)
         /\ Latest \notin DOMAIN hist /\ Finals(items) # {} =>
              turns[Latest].status = "completed" /\ IdOf(items, LastOf(Finals(items))) = AnswerOf(Latest)
<1> DEFINE n == Latest  its == Items(n)  s == turns[n].status
<1>1. n \in DOMAIN turns BY LenProperties DEF SnapTypeOK, TurnsInv, Latest
<1>2. Written(n, turns[n]) BY <1>1 DEF TurnsInv
<1>3. its \in Seq(Entry) /\ DOMAIN its = 1..Len(its) /\ Len(its) \in Nat BY <1>1, TurnFacts
<1>4. CASE ~Bare
  <2>1. Hydrated(n) = its BY <1>4 DEF Hydrated
  <2> DEFINE p == [i \in 1..Len(its) |-> i]
  <2>2. Picks(its, its, DOMAIN its, p) BY <1>3 DEF Picks
  <2> HIDE DEF p
  <2>3. Tools(its) \subseteq DOMAIN its /\ Spoken(its) \subseteq DOMAIN its BY DEF Tools, Spoken
  <2>4. Follow(its, n) BY <1>1, <1>2, <1>3, <2>2, <2>3, PickedFollow
  <2>5. Marks(its, its, s) BY <1>3 DEF Marks
  <2>6. Finals(its) # {} => s = "completed" /\ IdOf(its, LastOf(Finals(its))) = AnswerOf(n)
    BY <1>1, <1>2, <1>3, <2>2, <2>3, <2>5, AnswerPicked
  <2> QED BY <1>3, <2>1, <2>4, <2>6
<1>5. CASE Bare /\ HistoryItems(n) # <<>>
  <2>1. n \in DOMAIN hist /\ HistoryItems(n) = hist[n].items BY <1>5 DEF HistoryItems
  <2> DEFINE h == hist[n].items
  <2>2. h \in Seq(Entry) /\ Follow(h, n) BY <2>1, HistoryFollows
  <2>3. Hydrated(n) = Marked(h, s) BY <1>5, <2>1 DEF Hydrated
  <2> HIDE DEF h
  <2>4. Marks(Marked(h, s), h, s) BY <2>2, MarkedMarks
  <2>5. Marked(h, s) \in Seq(Entry) BY <2>4 DEF Marks
  <2>6. Follow(Marked(h, s), n) BY <2>2, <2>4, MarkedFollow
  <2> QED BY <2>1, <2>3, <2>5, <2>6
<1>6. CASE Bare /\ ~(HistoryItems(n) # <<>>)
  <2> DEFINE K == {k \in DOMAIN its : its[k].kind = "tool" => its[k].done}  c == Chosen(its, K)
  <2>1. Hydrated(n) = Marked(c, s) BY <1>6, RolloutPicks DEF Hydrated
  <2>2. K \in SUBSET DOMAIN its /\ K \in SUBSET (1..Len(its)) BY <1>3
  <2>3. Spoken(its) \subseteq K BY DEF Spoken
  <2>4. \A k \in K, j \in Tools(its) : its[k].kind = "tool" /\ j < k => j \in K BY <1>2 DEF Written, Tools, Items
  <2> HIDE DEF K
  <2>5. c \in Seq(Entry) /\ \E p : Picks(c, its, K, p) BY <1>3, <2>2, ChosenFacts
  <2> HIDE DEF c
  <2>6. PICK p : Picks(c, its, K, p) BY <2>5
  <2>7. Follow(c, n) BY <1>1, <1>2, <2>2, <2>4, <2>5, <2>6, PickedFollow
  <2>8. Marks(Marked(c, s), c, s) BY <2>5, MarkedMarks
  <2>9. Marked(c, s) \in Seq(Entry) BY <2>8 DEF Marks
  <2>10. Follow(Marked(c, s), n) BY <2>5, <2>7, <2>8, MarkedFollow
  <2>11. Finals(Marked(c, s)) # {} => s = "completed" /\ IdOf(Marked(c, s), LastOf(Finals(Marked(c, s)))) = AnswerOf(n)
    BY <1>1, <1>2, <2>2, <2>3, <2>5, <2>6, <2>8, AnswerPicked
  <2> QED BY <2>1, <2>9, <2>10, <2>11
<1> QED BY <1>4, <1>5, <1>6

LEMMA IdOfType ==
  ASSUME NEW items \in Seq(Entry), NEW S \in SUBSET DOMAIN items
  PROVE  /\ IdOf(items, LastOf(S)) \in Nat
         /\ IdOf(items, LastOf(S)) = NoItem <=> S = {}
         /\ S # {} => LastOf(S) \in S /\ LastOf(S) \in DOMAIN items /\ IdOf(items, LastOf(S)) = items[LastOf(S)].item
                      /\ \A o \in S : o <= LastOf(S)
<1>1. DOMAIN items = 1..Len(items) /\ Len(items) \in Nat /\ \A k \in DOMAIN items : items[k] \in Entry
  BY LenProperties, ElementOfSeq
<1>2. CASE S = {} BY <1>2 DEF LastOf, IdOf, NoItem
<1>3. CASE S # {}
  <2>1. LastOf(S) \in S /\ LastOf(S) \in 1..Len(items) /\ \A o \in S : o <= LastOf(S) BY <1>1, <1>3, LastOfFacts
  <2>2. LastOf(S) # 0 BY <2>1
  <2>3. items[LastOf(S)].item \in Nat \ {0} BY <1>1, <2>1 DEF Entry
  <2> QED BY <1>1, <1>3, <2>1, <2>2, <2>3 DEF IdOf, NoItem
<1> QED BY <1>2, <1>3

LEMMA FoldFacts ==
  ASSUME NEW items \in Seq(Entry), NEW n \in Nat, NEW status \in Statuses, \A k \in DOMAIN items : items[k].turn = n
  PROVE  LET snap == Fold(n, status, items) IN
         /\ snap \in Snapshot /\ snap.turn = n /\ snap.details = items /\ LastTool(snap)
         /\ snap.final = IdOf(items, LastOf(Finals(items)))
         /\ snap.tool # NoItem => \E k \in Tools(items) : items[k].item = snap.tool
<1> DEFINE snap == Fold(n, status, items)  tool == LastOf(Tools(items))  final == LastOf(Finals(items))
<1>1. Tools(items) \in SUBSET DOMAIN items /\ Finals(items) \in SUBSET DOMAIN items BY DEF Tools, Finals
<1>2. \A k \in DOMAIN items : items[k] \in Entry BY LenProperties, ElementOfSeq
<1>3. /\ snap.turn = n /\ snap.details = items /\ snap.tool = IdOf(items, tool) /\ snap.final = IdOf(items, final)
  BY DEF Fold, Blank
<1>4. IdOf(items, tool) \in Nat /\ IdOf(items, final) \in Nat BY <1>1, IdOfType
<1>5. (tool # NoItem /\ items[tool].done) \in BOOLEAN OBVIOUS
<1>6. snap \in Snapshot
  <2> DEFINE st == IF final # NoItem /\ ~Terminal(status) THEN "completed" ELSE status
             dn == tool # NoItem /\ items[tool].done
  <2>1. st \in Statuses BY DEF Statuses
  <2>2. snap = [Blank EXCEPT !.turn = n, !.details = items, !.status = st, !.tool = IdOf(items, tool),
                             !.done = dn, !.final = IdOf(items, final)]
    BY DEF Fold
  <2>3. dn \in BOOLEAN OBVIOUS
  <2>4. Blank \in Snapshot BY EmptySeq DEF Blank, Snapshot, Statuses, NoItem
  <2> HIDE DEF st, dn, tool, final, snap
  <2> QED BY <1>4, <2>1, <2>2, <2>3, <2>4 DEF Snapshot
<1>7. snap.tool # NoItem =>
        /\ tool \in Tools(items) /\ items[tool].item = snap.tool /\ items[tool].turn = n
        /\ \A j \in Tools(items) : j <= tool
  BY <1>1, <1>3, IdOfType
<1> HIDE DEF snap, tool, final
<1>8. LastTool(snap) BY <1>3, <1>7 DEF LastTool
<1> QED BY <1>3, <1>6, <1>7, <1>8 DEF snap, final

-----------------------------------------------------------------------------
(* The row                                                                 *)

\* Place finds a tool that is listed, wherever it is.
LEMMA PlaceFacts ==
  ASSUME NEW items \in Seq(Entry), NEW n, NEW k
  PROVE  /\ Place(items, n, k) \in Nat
         /\ Place(items, n, k) = NoItem <=> ~Lists(items, n, k)
         /\ Lists(items, n, k) => LET i == Place(items, n, k) IN
              i \in DOMAIN items /\ items[i].kind = "tool" /\ items[i].turn = n /\ items[i].item = k
<1> DEFINE S == {i \in DOMAIN items : items[i].kind = "tool" /\ items[i].turn = n /\ items[i].item = k}
<1>1. DOMAIN items = 1..Len(items) /\ Len(items) \in Nat BY LenProperties
<1>2. S \in SUBSET (1..Len(items)) BY <1>1
<1>3. Place(items, n, k) = LastOf(S) BY DEF Place
<1>4. Lists(items, n, k) <=> S # {} BY DEF Lists
<1>5. ASSUME S # {} PROVE LastOf(S) \in S /\ LastOf(S) \in Nat \ {0}
  <2> HIDE DEF S
  <2>1. LastOf(S) \in S /\ LastOf(S) \in 1..Len(items) BY <1>1, <1>2, <1>5, LastOfFacts
  <2> QED BY <2>1, <1>1
<1>6. S = {} => LastOf(S) = 0 BY DEF LastOf, NoItem
<1> QED BY <1>3, <1>4, <1>5, <1>6 DEF NoItem

LEMMA CompactFacts ==
  ASSUME NEW prev \in Snapshot, NEW cur \in Snapshot
  PROVE  LET s == Compact(prev, cur) IN
         /\ s \in Snapshot /\ s.turn = cur.turn /\ s.status = cur.status /\ s.tool = cur.tool /\ s.done = cur.done
         /\ s.final = cur.final /\ s.details = cur.details
<1> DEFINE c == IF Terminal(cur.status) THEN <<cur.turn, cur.status>> ELSE prev.completion
<1>1. c \in {<<>>} \cup (Nat \X Statuses) BY DEF Snapshot
<1>2. Compact(prev, cur) = [cur EXCEPT !.completion = c] BY DEF Compact
<1> HIDE DEF c
<1> QED BY <1>1, <1>2 DEF Snapshot

\* The last of the new tools is the last tool there is.
LEMMA LastUpserted ==
  ASSUME NEW items, NEW new \in Seq(Entry), NEW u \in Seq(Entry), NEW base, Upserts(u, items, new, base),
         NEW i \in DOMAIN new, new[i].kind = "tool",
         \A j \in DOMAIN new : new[j].turn = new[i].turn => j <= i
  PROVE  \E k \in Tools(u) :
           /\ u[k].turn = new[i].turn /\ u[k].item = new[i].item
           /\ \A j \in Tools(u) : u[j].turn = new[i].turn => j <= k
<1>1. DOMAIN new = 1..Len(new) /\ Len(new) \in Nat /\ DOMAIN u = 1..Len(u) /\ Len(u) \in Nat BY LenProperties
<1>2. base \in Nat /\ Len(u) = base + Len(new) BY DEF Upserts
<1>3. base + i \in DOMAIN u /\ u[base + i] = new[i] BY <1>1, <1>2 DEF Upserts
<1>4. ASSUME NEW j \in Tools(u), u[j].turn = new[i].turn PROVE j <= base + i
  <2>1. j \in 1..(base + Len(new)) BY <1>1, <1>2 DEF Tools
  <2>2. CASE j <= base BY <1>1, <1>2, <2>1, <2>2
  <2>3. CASE ~(j <= base)
    <3>1. j - base \in 1..Len(new) /\ base + (j - base) = j BY <1>1, <1>2, <2>1, <2>3
    <3>2. u[j] = new[j - base] BY <3>1 DEF Upserts
    <3>3. j - base <= i BY <1>1, <1>4, <3>1, <3>2
    <3> QED BY <1>1, <1>2, <2>1, <3>3
  <2> QED BY <2>2, <2>3
<1>5. base + i \in Tools(u) BY <1>3 DEF Tools
<1> QED BY <1>3, <1>4, <1>5

\* A read that keeps the tool of a live event, or not.
LEMMA PreservedFacts ==
  ASSUME NEW cur \in Snapshot, NEW prev \in Snapshot, Once(cur.details), LastTool(cur), Once(prev.details), LastTool(prev)
  PROVE  LET s == Preserved(cur, prev) IN
         /\ s \in Snapshot /\ s.turn = cur.turn /\ s.status = cur.status /\ s.final = cur.final
         /\ Once(s.details) /\ LastTool(s)
         /\ \/ s.tool = cur.tool /\ s.details = cur.details
            \/ /\ s.tool = prev.tool /\ s.turn = prev.turn
               /\ \A k : Lists(prev.details, s.turn, k) => Lists(s.details, s.turn, k)
<1>1. CASE Preserved(cur, prev) = cur BY <1>1
<1>2. CASE Preserved(cur, prev) # cur
  <2> DEFINE new == Chosen(prev.details, Tools(prev.details))
             u == Upserted(cur.details, new)
             s == [cur EXCEPT !.tool = prev.tool, !.done = prev.done, !.live = prev.live, !.by = prev.by,
                              !.details = u]
  <2>1. Preserved(cur, prev) = s /\ cur.turn = prev.turn BY <1>2 DEF Preserved
  <2>2. cur.details \in Seq(Entry) /\ prev.details \in Seq(Entry) BY DEF Snapshot
  <2>3. /\ new \in Seq(Entry) /\ Once(new) /\ \A i \in DOMAIN new : new[i].kind = "tool"
        /\ \A n, k : Lists(prev.details, n, k) <=> Lists(new, n, k)
        /\ \E p : Picks(new, prev.details, Tools(prev.details), p)
    BY <2>2, ToolsChosen
  <2> HIDE DEF new
  <2>4. /\ u \in Seq(Entry) /\ Once(u) /\ \E base : Upserts(u, cur.details, new, base)
        /\ \A n, k : Lists(new, n, k) => Lists(u, n, k)
    BY <2>2, <2>3, UpsertedFacts
  <2> HIDE DEF u
  <2>5. s \in Snapshot BY <2>4 DEF Snapshot
  <2>6. /\ s.turn = cur.turn /\ s.status = cur.status /\ s.final = cur.final /\ s.tool = prev.tool /\ s.details = u
    BY DEF Snapshot
  <2> HIDE DEF s
  <2>7. LastTool(s)
    <3> SUFFICES ASSUME prev.tool # NoItem PROVE LastTool(s) BY <2>6 DEF LastTool
    <3>1. PICK k \in Tools(prev.details) :
            /\ prev.details[k].turn = prev.turn /\ prev.details[k].item = prev.tool
            /\ \A j \in Tools(prev.details) : prev.details[j].turn = prev.turn => j <= k
      BY DEF LastTool
    <3>2. PICK p : Picks(new, prev.details, Tools(prev.details), p) BY <2>3
    <3>3. PICK i \in 1..Len(new) : p[i] = k BY <3>2 DEF Picks
    <3>4. DOMAIN new = 1..Len(new) /\ Len(new) \in Nat /\ DOMAIN prev.details = 1..Len(prev.details)
      BY <2>2, <2>3, LenProperties
    <3>5. new[i] = prev.details[k] BY <3>2, <3>3 DEF Picks
    <3>6. ASSUME NEW j \in DOMAIN new, new[j].turn = new[i].turn PROVE j <= i
      <4>1. p[j] \in Tools(prev.details) /\ new[j] = prev.details[p[j]] BY <3>2, <3>4 DEF Picks
      <4>2. p[j] <= k BY <3>1, <3>5, <3>6, <4>1
      <4>3. p[j] \in Nat /\ k \in Nat BY <3>4, <4>1 DEF Tools
      <4>4. i < j => p[i] < p[j] BY <3>2, <3>4 DEF Picks
      <4> QED BY <3>3, <3>4, <4>2, <4>3, <4>4
    <3>7. PICK base : Upserts(u, cur.details, new, base) BY <2>4
    <3>8. i \in DOMAIN new /\ new[i].kind = "tool" BY <2>3, <3>4
    <3>9. \E l \in Tools(u) :
            /\ u[l].turn = new[i].turn /\ u[l].item = new[i].item
            /\ \A j \in Tools(u) : u[j].turn = new[i].turn => j <= l
      BY <2>3, <2>4, <3>6, <3>7, <3>8, LastUpserted
    <3> QED BY <2>1, <2>6, <3>1, <3>5, <3>9 DEF LastTool
  <2>8. \A k : Lists(prev.details, s.turn, k) => Lists(s.details, s.turn, k) BY <2>3, <2>4, <2>6
  <2> QED BY <2>1, <2>4, <2>5, <2>6, <2>7, <2>8
<1> QED BY <1>1, <1>2

LEMMA WithToolFacts ==
  ASSUME NEW cur \in Snapshot, NEW e \in Event, Once(cur.details)
  PROVE  LET s == WithTool(cur, e) IN
         s \in Snapshot /\ s.turn = e.turn /\ s.tool = e.tool /\ s.done = e.done /\ Once(s.details) /\ LastTool(s)
<1> DEFINE x == [Item(e.turn, e.tool, "tool") EXCEPT !.done = e.done]
           u == Upserted(cur.details, <<x>>)
           s == [cur EXCEPT !.turn = e.turn, !.status = "inProgress", !.tool = e.tool, !.done = e.done,
                            !.live = ~e.done, !.by = "live", !.details = u]
<1>1. WithTool(cur, e) = s BY DEF WithTool
<1>2. x \in Entry /\ x.turn = e.turn /\ x.item = e.tool /\ x.kind = "tool" BY DEF Item, Entry, Event, Kinds
<1> HIDE DEF x
<1>3. <<x>> \in Seq(Entry) /\ DOMAIN <<x>> = 1..1 /\ <<x>>[1] = x /\ Len(<<x>>) = 1 BY <1>2
<1>4. Once(<<x>>) BY <1>3 DEF Once
<1>5. cur.details \in Seq(Entry) BY DEF Snapshot
<1>6. u \in Seq(Entry) /\ Once(u) /\ \E base : Upserts(u, cur.details, <<x>>, base)
  BY <1>3, <1>4, <1>5, UpsertedFacts
<1> HIDE DEF u
<1>7. s \in Snapshot BY <1>6 DEF Snapshot, Event, Statuses
<1>8. s.turn = e.turn /\ s.tool = e.tool /\ s.done = e.done /\ s.details = u BY DEF Snapshot
<1> HIDE DEF s
<1>9. PICK base : Upserts(u, cur.details, <<x>>, base) BY <1>6
<1>10. 1 \in DOMAIN <<x>> /\ \A j \in DOMAIN <<x>> : j <= 1 BY <1>3
<1>11. \E k \in Tools(u) :
         /\ u[k].turn = x.turn /\ u[k].item = x.item
         /\ \A j \in Tools(u) : u[j].turn = x.turn => j <= k
  <2> DEFINE new == <<x>>
  <2>1. /\ new \in Seq(Entry) /\ Upserts(u, cur.details, new, base) /\ 1 \in DOMAIN new
        /\ new[1] = x /\ \A j \in DOMAIN new : j <= 1
    BY <1>3, <1>9, <1>10
  <2> HIDE DEF new
  <2>2. new[1].kind = "tool" /\ \A j \in DOMAIN new : new[j].turn = new[1].turn => j <= 1 BY <1>2, <2>1
  <2>3. \E k \in Tools(u) :
         /\ u[k].turn = new[1].turn /\ u[k].item = new[1].item
         /\ \A j \in Tools(u) : u[j].turn = new[1].turn => j <= k
    <3> DEFINE i == 1
    <3>1. i \in DOMAIN new /\ new[i].kind = "tool" /\ \A j \in DOMAIN new : new[j].turn = new[i].turn => j <= i
      BY <2>1, <2>2
    <3> HIDE DEF i
    <3>2. \E k \in Tools(u) :
            /\ u[k].turn = new[i].turn /\ u[k].item = new[i].item
            /\ \A j \in Tools(u) : u[j].turn = new[i].turn => j <= k
      BY <1>6, <2>1, <3>1, LastUpserted
    <3> QED BY <3>2 DEF i
  <2> QED BY <2>1, <2>3
<1>12. LastTool(s) BY <1>2, <1>8, <1>11 DEF LastTool
<1> QED BY <1>1, <1>6, <1>7, <1>8, <1>12

-----------------------------------------------------------------------------
(* The steps keep the types                                                *)

LEMMA RestingType == Blank \in Snapshot /\ Resting \in LoopState
<1>1. Blank \in Snapshot BY EmptySeq DEF Blank, Snapshot, Statuses, NoItem
<1>2. <<>> \in Seq(Event) BY EmptySeq
<1> QED BY <1>1, <1>2 DEF Resting, LoopState, Places

LEMMA ReconciledFacts ==
  ASSUME SnapTypeOK, TurnsInv, HistInv, NEW snap \in Snapshot
  PROVE  LET s == Reconciled(snap) IN
         s \in Snapshot /\ s.turn = snap.turn /\ s.tool = snap.tool /\ s.details = snap.details
<1>1. CASE snap.turn \notin DOMAIN hist BY <1>1 DEF Reconciled, Snapshot, Statuses, NoItem
<1>2. CASE snap.turn \in DOMAIN hist
  <2> DEFINE stored == hist[snap.turn]
             final == IF stored.status = "inProgress" THEN NoItem ELSE IdOf(stored.items, LastOf(Finals(stored.items)))
  <2>1. Reconciled(snap) = [snap EXCEPT !.status = stored.status, !.final = final] BY <1>2 DEF Reconciled
  <2>2. stored \in Turn /\ stored.items \in Seq(Entry) BY <1>2, HistoryFollows
  <2>3. stored.status \in Statuses BY <2>2 DEF Turn
  <2>4. Finals(stored.items) \in SUBSET DOMAIN stored.items BY DEF Finals
  <2>5. final \in Nat
    <3> HIDE DEF stored
    <3> QED BY <2>2, <2>4, IdOfType DEF NoItem
  <2> HIDE DEF stored, final
  <2> QED BY <2>1, <2>3, <2>5 DEF Snapshot
<1> QED BY <1>1, <1>2

LEMMA ReadThreadFacts ==
  ASSUME SnapInv, NEW l \in Loops, ReadThread(l)
  PROVE  \E snap \in Snapshot :
           /\ snap.turn = Latest /\ Follow(snap.details, Latest) /\ LastTool(snap)
           /\ snap.final # NoItem /\ Latest \notin DOMAIN hist =>
                turns[Latest].status = "completed" /\ snap.final = AnswerOf(Latest)
           /\ loop' = [loop EXCEPT ![l].at = "store", ![l].read = snap]
<1> DEFINE items == Hydrated(Latest)  snap == Fold(Latest, turns[Latest].status, items)
<1>1. Latest \in DOMAIN turns BY LenProperties DEF SnapInv, SnapTypeOK, TurnsInv, Latest
<1>2. Latest \in Nat /\ turns[Latest].status \in Statuses BY <1>1, TurnFacts DEF SnapInv, Turn
<1>3. /\ items \in Seq(Entry) /\ Follow(items, Latest)
      /\ Latest \notin DOMAIN hist /\ Finals(items) # {} =>
           turns[Latest].status = "completed" /\ IdOf(items, LastOf(Finals(items))) = AnswerOf(Latest)
  BY HydratedFacts DEF SnapInv
<1>4. loop' = [loop EXCEPT ![l].at = "store", ![l].read = snap] BY DEF ReadThread
<1> HIDE DEF items
<1>5. \A k \in DOMAIN items : items[k].turn = Latest BY <1>3 DEF Follow
<1>6. /\ snap \in Snapshot /\ snap.turn = Latest /\ snap.details = items /\ LastTool(snap)
      /\ snap.final = IdOf(items, LastOf(Finals(items)))
  BY <1>2, <1>3, <1>5, FoldFacts
<1>7. snap.final # NoItem => Finals(items) # {}
  <2>1. Finals(items) \in SUBSET DOMAIN items BY DEF Finals
  <2> QED BY <1>3, <1>6, <2>1, IdOfType
<1> HIDE DEF snap
<1> QED BY <1>3, <1>4, <1>6, <1>7

\* What a read becomes when it is stored.
LEMMA StoreFacts ==
  ASSUME SnapInv, NEW l \in Loops, Store(l)
  PROVE  /\ row' \in Snapshot /\ Once(row'.details) /\ LastTool(row')
         /\ row'.turn = loop[l].read.turn /\ row'.final = Reconciled(loop[l].read).final
         /\ \/ row'.tool = loop[l].read.tool /\ row'.details = loop[l].read.details
            \/ /\ row'.tool = row.tool /\ row'.turn = row.turn
               /\ \A k : Lists(row.details, row.turn, k) => Lists(row'.details, row.turn, k)
<1> DEFINE read == loop[l].read  rec == Reconciled(read)  cur == Preserved(rec, row)
<1>1. row' = Compact(row, cur) BY DEF Store
<1>2. read \in Snapshot /\ row \in Snapshot BY DEF SnapInv, SnapTypeOK, LoopState
<1>3. Reads(read) BY <1>2 DEF SnapInv, ReadInv, Waits, Store
<1> HIDE DEF read
<1>4. rec \in Snapshot /\ rec.turn = read.turn /\ rec.tool = read.tool /\ rec.details = read.details
  BY <1>2, ReconciledFacts DEF SnapInv
<1>5. Once(read.details) /\ LastTool(read)
  <2>1. read.details \in Seq(Entry) BY <1>2 DEF Snapshot
  <2>2. DOMAIN read.details = 1..Len(read.details) /\ \A k \in DOMAIN read.details : read.details[k] \in Entry
    BY <2>1, LenProperties, ElementOfSeq
  <2>3. \A j, k \in DOMAIN read.details : j < k => read.details[j].item < read.details[k].item
    BY <1>3 DEF Reads, Follow
  <2>4. ASSUME NEW j \in DOMAIN read.details, NEW k \in DOMAIN read.details, read.details[j].item = read.details[k].item
        PROVE  j = k
    <3>1. j \in Nat /\ k \in Nat /\ read.details[j].item \in Nat BY <2>2 DEF Entry
    <3>2. ~(j < k) /\ ~(k < j) BY <2>3, <2>4, <3>1
    <3> QED BY <3>1, <3>2
  <2> QED BY <1>3, <2>4 DEF Once, Reads
<1> HIDE DEF rec
<1>6. Once(rec.details) /\ LastTool(rec) BY <1>4, <1>5 DEF LastTool
<1>7. Once(row.details) /\ LastTool(row) BY <1>2 DEF SnapInv, RowInv, Held, Sound
<1>8. /\ cur \in Snapshot /\ cur.turn = rec.turn /\ cur.final = rec.final
      /\ Once(cur.details) /\ LastTool(cur)
      /\ \/ cur.tool = rec.tool /\ cur.details = rec.details
         \/ /\ cur.tool = row.tool /\ cur.turn = row.turn
            /\ \A k : Lists(row.details, cur.turn, k) => Lists(cur.details, cur.turn, k)
  BY <1>2, <1>4, <1>6, <1>7, PreservedFacts
<1> HIDE DEF cur
<1>9. /\ row' \in Snapshot /\ row'.turn = cur.turn /\ row'.tool = cur.tool /\ row'.final = cur.final
      /\ row'.details = cur.details
  BY <1>1, <1>2, <1>8, CompactFacts
<1>10. LastTool(row') BY <1>8, <1>9 DEF LastTool
<1> QED BY <1>4, <1>8, <1>9, <1>10 DEF rec, read

\* The event the live loop is at.
LEMMA AheadFacts ==
  ASSUME SnapTypeOK, EventsInv, Ahead # <<>>
  PROVE  /\ Head(Ahead) \in Event /\ Pending(Head(Ahead)) /\ Head(Ahead) = Ahead[1] /\ DOMAIN Ahead = {1}
<1>1. Ahead \in Seq(Event) BY DEF SnapTypeOK, Ahead, Loops, LoopState
<1>2. Len(Ahead) \in Nat /\ Len(Ahead) <= 1 /\ DOMAIN Ahead = 1..Len(Ahead) /\ Len(Ahead) # 0
  BY <1>1, LenProperties, EmptySeq DEF EventsInv
<1>3. DOMAIN Ahead = {1} BY <1>2
<1>4. Head(Ahead) = Ahead[1] /\ Ahead[1] \in Event BY <1>1, <1>3, HeadTailProperties, ElementOfSeq
<1> QED BY <1>3, <1>4 DEF Pending

LEMMA PutToolFacts ==
  ASSUME SnapInv, PutTool
  PROVE  LET e == Head(Ahead) prev == loop["live"].prev IN
         /\ Ahead # <<>> /\ e \in Event /\ prev \in Snapshot
         /\ loop' = [loop EXCEPT !["live"].at = "compare"]
         /\ \/ row' = row /\ Stale(prev, e)
            \/ /\ ~Stale(prev, e) /\ row' \in Snapshot /\ row'.turn = e.turn /\ row'.tool = e.tool /\ row'.done = e.done
               /\ Once(row'.details) /\ LastTool(row')
<1> DEFINE e == Head(Ahead)  prev == loop["live"].prev
<1>1. Ahead # <<>> BY DEF PutTool, At, SnapInv, EventsInv
<1>2. e \in Event BY <1>1, AheadFacts DEF SnapInv
<1>3. prev \in Snapshot BY DEF SnapInv, SnapTypeOK, Loops, LoopState
<1>4. loop' = [loop EXCEPT !["live"].at = "compare"] BY DEF PutTool, Step
<1>5. (row' = row /\ Stale(prev, e)) \/ (~Stale(prev, e) /\ row' = Compact(prev, WithTool(prev, e))) BY DEF PutTool, Ahead
<1>6. Once(prev.details) BY <1>3 DEF SnapInv, RowInv, Held, Sound, PutTool
<1> HIDE DEF e, prev
<1>7. CASE ~Stale(prev, e) /\ row' = Compact(prev, WithTool(prev, e))
  <2> DEFINE cur == WithTool(prev, e)
  <2>1. /\ cur \in Snapshot /\ cur.turn = e.turn /\ cur.tool = e.tool /\ cur.done = e.done
        /\ Once(cur.details) /\ LastTool(cur)
    BY <1>2, <1>3, <1>6, WithToolFacts
  <2> HIDE DEF cur
  <2>2. /\ row' \in Snapshot /\ row'.turn = cur.turn /\ row'.tool = cur.tool /\ row'.done = cur.done
        /\ row'.details = cur.details
    BY <1>3, <1>7, <2>1, CompactFacts DEF cur
  <2>3. LastTool(row') BY <2>1, <2>2 DEF LastTool
  <2> QED BY <1>1, <1>2, <1>3, <1>4, <1>7, <2>1, <2>2, <2>3 DEF e, prev
<1> QED BY <1>1, <1>2, <1>3, <1>4, <1>5, <1>7 DEF e, prev

LEMMA ItemType ==
  ASSUME NEW n \in Nat \ {0}, NEW k \in Nat \ {0}, NEW kind \in Kinds
  PROVE  /\ Item(n, k, kind) \in Entry /\ Item(n, k, kind).turn = n /\ Item(n, k, kind).item = k
         /\ Item(n, k, kind).kind = kind /\ Item(n, k, kind).done = (kind # "tool")
BY DEF Item, Entry

\* An item is added to the last turn, which may end with it.
LEMMA AddedFacts ==
  ASSUME SnapTypeOK, Running, NEW kind \in Kinds, NEW s \in Statuses
  PROVE  LET new == [Added(Latest, kind) EXCEPT ![Latest].status = s] its == Items(Latest) IN
         /\ Added(Latest, kind) \in Seq(Turn) /\ new \in Seq(Turn) /\ Latest \in DOMAIN turns
         /\ new = [turns EXCEPT ![Latest] = [items |-> Append(its, Item(Latest, Len(its) + 1, kind)), status |-> s]]
         /\ Added(Latest, kind) = [turns EXCEPT ![Latest] = [items |-> Append(its, Item(Latest, Len(its) + 1, kind)), status |-> "inProgress"]]
<1> DEFINE n == Latest  its == Items(n)  x == Item(n, Len(its) + 1, kind)  a == Added(n, kind)
<1>1. n \in DOMAIN turns BY LenProperties DEF Running, Latest, SnapTypeOK
<1>2. n \in Nat \ {0} /\ its \in Seq(Entry) /\ Len(its) \in Nat /\ turns[n] \in Turn BY <1>1, TurnFacts
<1>3. x \in Entry BY <1>2, ItemType
<1>4. Append(its, x) \in Seq(Entry) BY <1>2, <1>3, AppendProperties
<1>5. a = [turns EXCEPT ![n].items = Append(its, x)] BY <1>1 DEF Added, Items
<1> HIDE DEF a, x, its
<1> DEFINE y == Append(its, x)
<1> HIDE DEF y
<1>6. turns[n].status = "inProgress" BY DEF Running
<1>7. [turns[n] EXCEPT !.items = y] = [items |-> y, status |-> "inProgress"] BY <1>2, <1>6 DEF Turn
<1>8. a = [turns EXCEPT ![n] = [items |-> y, status |-> "inProgress"]] BY <1>1, <1>5, <1>7 DEF y
<1>9. [a EXCEPT ![n].status = s] = [turns EXCEPT ![n] = [items |-> y, status |-> s]]
  <2> DEFINE r == [items |-> y, status |-> "inProgress"]
  <2>1. [r EXCEPT !.status = s] = [items |-> y, status |-> s] OBVIOUS
  <2> HIDE DEF r
  <2>2. a = [turns EXCEPT ![n] = r] BY <1>8 DEF r
  <2>3. [a EXCEPT ![n].status = s] = [turns EXCEPT ![n] = [r EXCEPT !.status = s]] BY <1>1, <2>2
  <2> QED BY <2>1, <2>3
<1>10. turns \in Seq(Turn) BY DEF SnapTypeOK
<1>11. \A t \in Turn : [turns EXCEPT ![n] = t] \in Seq(Turn) BY <1>1, <1>10, ExceptSeq
<1>12. [items |-> Append(its, x), status |-> s] \in Turn /\ [items |-> Append(its, x), status |-> "inProgress"] \in Turn
  BY <1>4 DEF Turn, Statuses
<1> QED BY <1>1, <1>8, <1>9, <1>11, <1>12 DEF a, its, x, y

LEMMA EndedFacts ==
  ASSUME SnapTypeOK, Running, NEW s \in Statuses
  PROVE  LET new == [turns EXCEPT ![Latest].status = s] IN
         /\ new \in Seq(Turn) /\ Latest \in DOMAIN turns
         /\ new = [turns EXCEPT ![Latest] = [items |-> Items(Latest), status |-> s]]
<1> DEFINE n == Latest
<1>1. n \in DOMAIN turns BY LenProperties DEF Running, Latest, SnapTypeOK
<1>2. Items(n) \in Seq(Entry) /\ turns[n] \in Turn BY <1>1, TurnFacts
<1>3. [turns[n] EXCEPT !.status = s] = [items |-> Items(n), status |-> s] BY <1>2 DEF Turn, Items
<1>4. [turns EXCEPT ![n].status = s] = [turns EXCEPT ![n] = [items |-> Items(n), status |-> s]] BY <1>1, <1>3
<1>5. [items |-> Items(n), status |-> s] \in Turn BY <1>2 DEF Turn
<1>6. turns \in Seq(Turn) BY DEF SnapTypeOK
<1> QED BY <1>1, <1>4, <1>5, <1>6, ExceptSeq

LEMMA FinishedFacts ==
  ASSUME SnapTypeOK, Running, NEW k \in OpenTools(Latest)
  PROVE  LET new == [turns EXCEPT ![Latest].items[k].done = TRUE] its == Items(Latest) IN
         /\ new \in Seq(Turn) /\ Latest \in DOMAIN turns /\ k \in DOMAIN its
         /\ new = [turns EXCEPT ![Latest] = [items |-> [its EXCEPT ![k] = [@ EXCEPT !.done = TRUE]], status |-> "inProgress"]]
<1> DEFINE n == Latest  its == Items(n)
<1>1. n \in DOMAIN turns BY LenProperties DEF Running, Latest, SnapTypeOK
<1>2. its \in Seq(Entry) /\ turns[n] \in Turn BY <1>1, TurnFacts
<1>3. k \in DOMAIN its BY DEF OpenTools
<1>4. its[k] \in Entry BY <1>2, <1>3, LenProperties, ElementOfSeq
<1>5. [its[k] EXCEPT !.done = TRUE] \in Entry BY <1>4 DEF Entry
<1> DEFINE d == [its EXCEPT ![k] = [@ EXCEPT !.done = TRUE]]
<1>6. d \in Seq(Entry) BY <1>2, <1>3, <1>5, ExceptSeq
<1>7. [turns EXCEPT ![n].items[k].done = TRUE] = [turns EXCEPT ![n].items = d] BY <1>1 DEF Items
<1> HIDE DEF d
<1>8. [turns[n] EXCEPT !.items = d] = [items |-> d, status |-> "inProgress"] BY <1>2 DEF Turn, Running
<1>9. [turns EXCEPT ![n].items = d] = [turns EXCEPT ![n] = [items |-> d, status |-> "inProgress"]] BY <1>1, <1>8
<1>10. [items |-> d, status |-> "inProgress"] \in Turn BY <1>6 DEF Turn, Statuses
<1>11. turns \in Seq(Turn) BY DEF SnapTypeOK
<1>12. [turns EXCEPT ![n] = [items |-> d, status |-> "inProgress"]] \in Seq(Turn) BY <1>1, <1>10, <1>11, ExceptSeq
<1> QED BY <1>1, <1>3, <1>7, <1>9, <1>12 DEF d

\* Another state of a loop.
LEMMA LoopType ==
  ASSUME SnapTypeOK, NEW l \in Loops, NEW s \in LoopState, loop' = [loop EXCEPT ![l] = s]
  PROVE  loop' \in [Loops -> LoopState]
BY DEF SnapTypeOK

LEMMA TypeStep ==
  ASSUME SnapInv, SnapNext
  PROVE  SnapTypeOK'
<1> USE DEF SnapInv
<1>0. SnapTypeOK /\ turns \in Seq(Turn) /\ hist \in Seq(Turn) /\ events \in Seq(Event) /\ row \in Snapshot
      /\ shown \in Snapshot /\ mode \in Modes /\ loop \in [Loops -> LoopState] /\ "live" \in Loops /\ "poll" \in Loops
  BY DEF SnapTypeOK, Loops
<1>1. CASE StartTurn
  <2> DEFINE x == Item(Latest + 1, 1, "user")  t == [items |-> <<x>>, status |-> "inProgress"]
  <2>1. Latest \in Nat BY <1>0, LenProperties DEF Latest
  <2>2. x \in Entry BY <2>1, ItemType DEF Kinds
  <2> HIDE DEF x
  <2>3. <<x>> \in Seq(Entry) BY <2>2
  <2>4. t \in Turn BY <2>3 DEF Turn, Statuses
  <2>5. turns' = Append(turns, t) BY <1>1 DEF StartTurn, x
  <2> HIDE DEF t
  <2>6. turns' \in Seq(Turn) BY <1>0, <2>4, <2>5, AppendProperties
  <2> QED BY <1>1, <2>6 DEF StartTurn, SnapTypeOK
<1>2. CASE Say
  <2>1. turns' = Added(Latest, "say") /\ Running BY <1>2 DEF Say
  <2>2. turns' \in Seq(Turn) BY <1>0, <2>1, AddedFacts DEF Kinds, Statuses
  <2> QED BY <1>2, <2>2 DEF Say, SnapTypeOK
<1>3. CASE StartTool
  <2>1. turns' = Added(Latest, "tool") /\ Running BY <1>3 DEF StartTool
  <2>2. turns' \in Seq(Turn) /\ Latest \in DOMAIN turns BY <1>0, <2>1, AddedFacts DEF Kinds, Statuses
  <2>3. Latest \in Nat \ {0} /\ Len(Items(Latest)) \in Nat BY <1>0, <2>2, TurnFacts
  <2> DEFINE e == [turn |-> Latest, tool |-> Len(Items(Latest)) + 1, done |-> FALSE]
  <2>4. e \in Event BY <2>3 DEF Event
  <2>5. events' = Append(events, e) BY <1>3 DEF StartTool
  <2> HIDE DEF e
  <2>6. events' \in Seq(Event) BY <1>0, <2>4, <2>5, AppendProperties
  <2> QED BY <1>3, <2>2, <2>6 DEF StartTool, SnapTypeOK
<1>4. CASE FinishTool
  <2>1. PICK k \in OpenTools(Latest) :
          /\ turns' = [turns EXCEPT ![Latest].items[k].done = TRUE]
          /\ events' = Append(events, [turn |-> Latest, tool |-> k, done |-> TRUE])
    BY <1>4 DEF FinishTool
  <2>2. turns' \in Seq(Turn) /\ Latest \in DOMAIN turns /\ k \in DOMAIN Items(Latest)
    BY <1>0, <1>4, <2>1, FinishedFacts DEF FinishTool
  <2>3. Latest \in Nat \ {0} /\ k \in Nat \ {0} BY <1>0, <2>2, TurnFacts
  <2> DEFINE e == [turn |-> Latest, tool |-> k, done |-> TRUE]
  <2>4. e \in Event BY <2>3 DEF Event
  <2>5. events' = Append(events, e) BY <2>1
  <2> HIDE DEF e
  <2>6. events' \in Seq(Event) BY <1>0, <2>4, <2>5, AppendProperties
  <2> QED BY <1>4, <2>2, <2>6 DEF FinishTool, SnapTypeOK
<1>5. CASE EndTurn
  <2>1. Running /\ UNCHANGED <<mode, hist, events, row, shown, loop>> BY <1>5 DEF EndTurn
  <2>2. \/ turns' = [Added(Latest, "final") EXCEPT ![Latest].status = "completed"]
        \/ \E s \in Statuses : turns' = [turns EXCEPT ![Latest].status = s]
    BY <1>5 DEF EndTurn, Statuses
  <2>3. turns' \in Seq(Turn)
    <3>1. CASE turns' = [Added(Latest, "final") EXCEPT ![Latest].status = "completed"]
      BY <1>0, <2>1, <3>1, AddedFacts DEF Kinds, Statuses
    <3>2. ASSUME NEW s \in Statuses, turns' = [turns EXCEPT ![Latest].status = s] PROVE turns' \in Seq(Turn)
      BY <1>0, <2>1, <3>2, EndedFacts
    <3> QED BY <2>2, <3>1, <3>2
  <2> QED BY <2>1, <2>3 DEF SnapTypeOK
<1>6. CASE Project BY <1>0, <1>6 DEF Project, SnapTypeOK
<1>7. CASE Disconnect BY <1>0, <1>7, EmptySeq DEF Disconnect, SnapTypeOK
<1>8. CASE Take
  <2>1. events # <<>> /\ events' = Tail(events) BY <1>8 DEF Take
  <2>2. events' \in Seq(Event) /\ Head(events) \in Event BY <1>0, <2>1, HeadTailProperties
  <2>3. loop' \in [Loops -> LoopState]
    <3>1. CASE UNCHANGED loop BY <1>0, <3>1
    <3>2. CASE ~UNCHANGED loop
      <4> DEFINE b == IF Follows THEN Blank ELSE row
                 s == [Resting EXCEPT !.at = "read", !.event = <<Head(events)>>, !.before = b]
      <4>1. loop' = [loop EXCEPT !["live"] = s] BY <1>8, <3>2 DEF Take
      <4>2. b \in Snapshot BY <1>0, RestingType
      <4>3. <<Head(events)>> \in Seq(Event) BY <2>2
      <4> HIDE DEF b
      <4>4. s \in LoopState BY <4>2, <4>3, RestingType DEF LoopState, Places
      <4> HIDE DEF s
      <4> QED BY <1>0, <4>1, <4>4, LoopType
    <3> QED BY <3>1, <3>2
  <2> QED BY <1>0, <1>8, <2>2, <2>3 DEF Take, SnapTypeOK
<1>9. ASSUME NEW l \in Loops, ReadThread(l) PROVE SnapTypeOK'
  <2>1. PICK snap \in Snapshot : loop' = [loop EXCEPT ![l].at = "store", ![l].read = snap] BY <1>9, ReadThreadFacts
  <2>2. loop' \in [Loops -> LoopState] BY <1>0, <2>1 DEF LoopState, Places
  <2> QED BY <1>0, <1>9, <2>2 DEF ReadThread, codex, SnapTypeOK
<1>10. ASSUME NEW l \in Loops, Store(l) PROVE SnapTypeOK'
  <2>1. row' \in Snapshot BY <1>10, StoreFacts
  <2>2. ASSUME NEW k \in Loops PROVE loop'[k] \in LoopState
    <3>1. \/ k # l /\ loop'[k] = [loop[k] EXCEPT !.alone = ~At(k, "put")]
          \/ k = l /\ loop'[k] = [loop[l] EXCEPT !.at = "tool", !.read = Blank]
          \/ k = l /\ loop'[k] = [Resting EXCEPT !.at = "sync"]
          \/ k = l /\ loop'[k] = Resting
      BY <1>10 DEF Store
    <3>2. (~At(k, "put")) \in BOOLEAN OBVIOUS
    <3>3. loop[k] \in LoopState /\ loop[l] \in LoopState BY <1>0
    <3> QED BY <3>1, <3>2, <3>3, RestingType DEF LoopState, Places
  <2>3. loop' \in [Loops -> LoopState]
    <3>1. loop' = [k \in Loops |-> loop'[k]] BY <1>10 DEF Store
    <3> QED BY <2>2, <3>1
  <2> QED BY <1>0, <1>10, <2>1, <2>3 DEF Store, codex, SnapTypeOK
<1>11. CASE LookTool
  <2> DEFINE s == [loop["live"] EXCEPT !.at = "put", !.prev = row, !.alone = TRUE]
  <2>1. loop' = [loop EXCEPT !["live"] = s] BY <1>11 DEF LookTool
  <2>2. s \in LoopState BY <1>0 DEF LoopState, Places
  <2> HIDE DEF s
  <2>3. loop' \in [Loops -> LoopState] BY <1>0, <2>1, <2>2, LoopType
  <2> QED BY <1>0, <1>11, <2>3 DEF LookTool, codex, SnapTypeOK
<1>12. CASE PutTool
  <2>1. row' \in Snapshot /\ loop' = [loop EXCEPT !["live"].at = "compare"] BY <1>0, <1>12, PutToolFacts
  <2>2. loop' \in [Loops -> LoopState] BY <1>0, <2>1 DEF LoopState, Places
  <2> QED BY <1>0, <1>12, <2>1, <2>2 DEF PutTool, codex, SnapTypeOK
<1>13. CASE LiveCompares
  <2>1. \E s \in {[Resting EXCEPT !.at = "sync"], Resting} : loop' = [loop EXCEPT !["live"] = s]
    BY <1>13 DEF LiveCompares
  <2>2. {[Resting EXCEPT !.at = "sync"], Resting} \subseteq LoopState BY RestingType DEF LoopState, Places
  <2>3. loop' \in [Loops -> LoopState] BY <1>0, <2>1, <2>2, LoopType
  <2> QED BY <1>0, <1>13, <2>3 DEF LiveCompares, codex, SnapTypeOK
<1>14. ASSUME NEW l \in Loops, Sync(l) PROVE SnapTypeOK'
  <2>1. loop' \in [Loops -> LoopState] BY <1>0, <1>14, RestingType, LoopType DEF Sync
  <2> QED BY <1>0, <1>14, <2>1 DEF Sync, codex, SnapTypeOK
<1> QED BY <1>0, <1>1, <1>2, <1>3, <1>4, <1>5, <1>6, <1>7, <1>8, <1>9, <1>10, <1>11, <1>12, <1>13, <1>14
       DEF SnapNext, CodexStep, LoopStep

-----------------------------------------------------------------------------
(* What Codex writes                                                       *)

\* A turn goes on, one that has ended does not.
Grown(t, u) ==
  /\ t.status # "inProgress" => u = t
  /\ Len(t.items) <= Len(u.items)
  /\ \A k \in DOMAIN t.items : u.items[k].kind = "tool" <=> t.items[k].kind = "tool"
Grows == Latest <= Latest' /\ \A n \in DOMAIN turns : Grown(turns[n], turns'[n])
\* An event tells of the last tool there is.
Told ==
  \/ events' = events
  \/ \E e \in Event : /\ events' = Append(events, e) /\ ToolOf(e.turn, e.tool)'
                      /\ \A k : ToolOf(e.turn, k) => k <= e.tool

LEMMA GrownSame == ASSUME NEW t \in Turn PROVE Grown(t, t)
<1>1. Len(t.items) \in Nat BY LenProperties DEF Turn
<1> QED BY <1>1 DEF Grown

LEMMA AppendWritten ==
  ASSUME NEW t \in Turn, NEW n \in Nat \ {0}, Written(n, t), t.status = "inProgress",
         NEW kind \in Kinds, kind = "tool" => \A k \in DOMAIN t.items : t.items[k].done,
         NEW s \in Statuses \ {"none"}, kind = "final" => s = "completed"
  PROVE  LET u == [items |-> Append(t.items, Item(n, Len(t.items) + 1, kind)), status |-> s] IN
         Written(n, u) /\ Grown(t, u)
<1> DEFINE x == Item(n, Len(t.items) + 1, kind)  its == Append(t.items, x)  u == [items |-> its, status |-> s]
<1>1. t.items \in Seq(Entry) BY DEF Turn
<1>2. DOMAIN t.items = 1..Len(t.items) /\ Len(t.items) \in Nat BY <1>1, LenProperties
<1>3. x \in Entry /\ x.turn = n /\ x.item = Len(t.items) + 1 /\ x.kind = kind /\ (kind # "tool" => x.done)
  <2> DEFINE m == Len(t.items) + 1
  <2>1. m \in Nat \ {0} BY <1>2
  <2> HIDE DEF m
  <2>2. Item(n, m, kind) \in Entry /\ Item(n, m, kind).turn = n /\ Item(n, m, kind).item = m /\ Item(n, m, kind).kind = kind
    BY <2>1, ItemType
  <2>3. kind # "tool" => Item(n, m, kind).done BY DEF Item
  <2> QED BY <2>2, <2>3 DEF m
<1> HIDE DEF x
<1>4. /\ its \in Seq(Entry) /\ Len(its) = Len(t.items) + 1 /\ its[Len(t.items) + 1] = x
      /\ \A k \in 1..Len(t.items) : its[k] = t.items[k]
  BY <1>1, <1>3, AppendProperties
<1>5. DOMAIN its = 1..(Len(t.items) + 1) BY <1>4, LenProperties
<1> HIDE DEF its
<1>6. \A k \in DOMAIN t.items : t.items[k].kind # "final" BY DEF Written
<1>7. ASSUME NEW k \in DOMAIN its
      PROVE  /\ its[k].turn = n /\ its[k].item = k
             /\ its[k].kind # "tool" => its[k].done
             /\ its[k].kind = "final" => k = Len(its) /\ s = "completed"
  <2>1. CASE k \in DOMAIN t.items BY <1>2, <1>4, <1>6, <2>1 DEF Written
  <2>2. CASE k = Len(t.items) + 1 BY <1>3, <1>4, <2>2
  <2> QED BY <1>2, <1>5, <2>1, <2>2
<1>8. ASSUME NEW j \in DOMAIN its, NEW k \in DOMAIN its, its[k].kind = "tool", j < k PROVE its[j].done
  <2>1. j \in DOMAIN t.items /\ its[j] = t.items[j] BY <1>2, <1>4, <1>5, <1>8
  <2>2. CASE k \in DOMAIN t.items
    <3>1. its[k] = t.items[k] BY <1>2, <1>4, <2>2
    <3> QED BY <1>8, <2>1, <2>2, <3>1 DEF Written
  <2>3. CASE k = Len(t.items) + 1 BY <1>3, <1>4, <1>8, <2>1, <2>3
  <2> QED BY <1>2, <1>5, <2>2, <2>3
<1>9. Written(n, u) BY <1>7, <1>8 DEF Written
<1>10. Grown(t, u) BY <1>2, <1>4 DEF Grown
<1> QED BY <1>9, <1>10 DEF its, x

LEMMA EndWritten ==
  ASSUME NEW t \in Turn, NEW n, Written(n, t), t.status = "inProgress", NEW s \in Statuses \ {"none"}
  PROVE  LET u == [items |-> t.items, status |-> s] IN Written(n, u) /\ Grown(t, u)
<1>1. Len(t.items) \in Nat BY LenProperties DEF Turn
<1>2. \A k \in DOMAIN t.items : t.items[k].kind # "final" BY DEF Written
<1> QED BY <1>1, <1>2 DEF Written, Grown

LEMMA FinishWritten ==
  ASSUME NEW t \in Turn, NEW n, Written(n, t), t.status = "inProgress", NEW k \in DOMAIN t.items
  PROVE  LET u == [items |-> [t.items EXCEPT ![k] = [@ EXCEPT !.done = TRUE]], status |-> "inProgress"] IN
         Written(n, u) /\ Grown(t, u) /\ \A j \in DOMAIN t.items : u.items[j].kind = t.items[j].kind
<1> DEFINE d == [t.items EXCEPT ![k] = [@ EXCEPT !.done = TRUE]]  u == [items |-> d, status |-> "inProgress"]
<1>1. t.items \in Seq(Entry) BY DEF Turn
<1>2. DOMAIN t.items = 1..Len(t.items) /\ Len(t.items) \in Nat /\ t.items[k] \in Entry BY <1>1, LenProperties, ElementOfSeq
<1>3. DOMAIN d = DOMAIN t.items /\ \A j \in DOMAIN t.items : j # k => d[j] = t.items[j] OBVIOUS
<1>4. d[k] = [t.items[k] EXCEPT !.done = TRUE] OBVIOUS
<1>5. d[k].turn = t.items[k].turn /\ d[k].item = t.items[k].item /\ d[k].kind = t.items[k].kind /\ d[k].done
  BY <1>2, <1>4 DEF Entry
<1>6. d \in Seq(Entry) /\ Len(d) = Len(t.items)
  <2>1. [t.items[k] EXCEPT !.done = TRUE] \in Entry BY <1>2 DEF Entry
  <2> QED BY <1>1, <1>2, <2>1, ExceptSeq
<1> HIDE DEF d
<1>7. Written(n, u) BY <1>3, <1>5, <1>6 DEF Written
<1>8. Grown(t, u) BY <1>2, <1>3, <1>5, <1>6 DEF Grown
<1> QED BY <1>3, <1>5, <1>7, <1>8 DEF d

\* The last turn goes on.
LEMMA LastGrows ==
  ASSUME SnapTypeOK, TurnsInv, Running, NEW u, Written(Latest, u), Grown(turns[Latest], u),
         turns' = [turns EXCEPT ![Latest] = u]
  PROVE  /\ TurnsInv' /\ Grows /\ Latest' = Latest /\ Items(Latest)' = u.items
         /\ \A n \in DOMAIN turns : n # Latest => Items(n)' = Items(n)
<1>1. Latest \in DOMAIN turns /\ DOMAIN turns = 1..Latest /\ Latest \in Nat
  BY LenProperties DEF Running, Latest, SnapTypeOK
<1>2. turns' \in [1..Latest -> {turns'[n] : n \in 1..Latest}] BY <1>1
<1>3. Latest' = Latest
  <2>1. Len(turns') = Latest BY <1>1, <1>2, LenProperties DEF Latest
  <2> QED BY <2>1 DEF Latest
<1>4. turns'[Latest] = u /\ \A n \in DOMAIN turns : n # Latest => turns'[n] = turns[n] BY <1>1
<1>5. DOMAIN turns' = DOMAIN turns OBVIOUS
<1>6. TurnsInv'
  <2>1. Latest' > 0 BY <1>3 DEF TurnsInv
  <2>2. ASSUME NEW n \in DOMAIN turns' PROVE Written(n, turns'[n]) /\ (n # Latest' => turns'[n].status # "inProgress")
    BY <1>3, <1>4, <1>5 DEF TurnsInv
  <2> QED BY <2>1, <2>2 DEF TurnsInv
<1>7. Grows
  <2>1. \A n \in DOMAIN turns : Grown(turns[n], turns[n]) BY TurnFacts, GrownSame
  <2>2. Latest <= Latest' BY <1>1, <1>3
  <2> QED BY <1>4, <2>1, <2>2 DEF Grows
<1> QED BY <1>1, <1>3, <1>4, <1>6, <1>7 DEF Items

LEMMA CodexWrites ==
  ASSUME SnapInv, CodexStep
  PROVE  TurnsInv' /\ Grows /\ Told /\ UNCHANGED <<mode, hist, row, shown, loop>>
<1> DEFINE n == Latest  its == Items(n)
<1>0. SnapTypeOK /\ TurnsInv BY DEF SnapInv
<1>1. n \in DOMAIN turns /\ DOMAIN turns = 1..n /\ n \in Nat \ {0}
  BY <1>0, LenProperties DEF TurnsInv, Latest, SnapTypeOK
<1>2. /\ turns[n] \in Turn /\ its = turns[n].items /\ Written(n, turns[n]) /\ DOMAIN its = 1..Len(its) /\ Len(its) \in Nat
      /\ turns \in Seq(Turn)
  BY <1>0, <1>1, TurnFacts DEF TurnsInv, Items, SnapTypeOK
<1>3. Running => turns[n].status = "inProgress" BY DEF Running
<1>4. CASE StartTurn
  <2> DEFINE x == Item(n + 1, 1, "user")  t == [items |-> <<x>>, status |-> "inProgress"]
  <2>1. n + 1 \in Nat \ {0} BY <1>1
  <2>2. x \in Entry /\ x.turn = n + 1 /\ x.item = 1 /\ x.kind = "user" /\ x.done
    <3>1. x \in Entry /\ x.turn = n + 1 /\ x.item = 1 /\ x.kind = "user" BY <2>1, ItemType DEF Kinds
    <3>2. x.done BY DEF Item
    <3> QED BY <3>1, <3>2
  <2> HIDE DEF x
  <2>3. <<x>> \in Seq(Entry) /\ DOMAIN <<x>> = {1} /\ <<x>>[1] = x /\ Len(<<x>>) = 1 BY <2>2
  <2>4. t \in Turn BY <2>3 DEF Turn, Statuses
  <2>5. Written(n + 1, t)
    <3> DEFINE one == <<x>>
    <3>1. DOMAIN one = {1} /\ one[1] = x /\ Len(one) = 1 BY <2>3
    <3>2. t.items = one /\ t.status = "inProgress" OBVIOUS
    <3> HIDE DEF one, t
    <3> QED BY <2>2, <3>1, <3>2 DEF Written
  <2>6. turns' = Append(turns, t) /\ ~Running BY <1>4 DEF StartTurn, x
  <2> HIDE DEF t
  <2>7. /\ turns' \in Seq(Turn) /\ Len(turns') = n + 1 /\ turns'[n + 1] = t /\ \A m \in 1..n : turns'[m] = turns[m]
    BY <1>2, <2>4, <2>6, AppendProperties DEF Latest
  <2>8. DOMAIN turns' = 1..(n + 1) /\ Latest' = n + 1 BY <2>7, LenProperties DEF Latest
  <2>9. TurnsInv'
    <3>1. Latest' > 0 BY <1>1, <2>8
    <3>2. ASSUME NEW m \in DOMAIN turns' PROVE Written(m, turns'[m]) /\ (m # Latest' => turns'[m].status # "inProgress")
      <4>1. CASE m \in 1..n
        <5>1. turns'[m] = turns[m] /\ m \in DOMAIN turns BY <1>1, <2>7, <4>1
        <5>2. turns[m].status # "inProgress" BY <1>0, <1>1, <2>6, <5>1 DEF TurnsInv, Running
        <5> QED BY <1>0, <5>1, <5>2 DEF TurnsInv
      <4>2. CASE m = n + 1 BY <2>5, <2>7, <2>8, <4>2
      <4> QED BY <1>1, <2>8, <4>1, <4>2
    <3> QED BY <3>1, <3>2 DEF TurnsInv
  <2>10. Grows
    <3>1. n <= n + 1 BY <1>1
    <3>2. \A m \in DOMAIN turns : Grown(turns[m], turns'[m]) BY <1>0, <1>1, <2>7, TurnFacts, GrownSame
    <3> QED BY <2>8, <3>1, <3>2 DEF Grows
  <2> QED BY <1>4, <2>9, <2>10 DEF StartTurn, Told
<1>5. CASE Say
  <2>1. Running /\ turns' = Added(n, "say") BY <1>5 DEF Say
  <2> DEFINE u == [items |-> Append(its, Item(n, Len(its) + 1, "say")), status |-> "inProgress"]
  <2>2. turns' = [turns EXCEPT ![n] = u] BY <1>0, <2>1, AddedFacts DEF Kinds, Statuses
  <2>3. Written(n, u) /\ Grown(turns[n], u) BY <1>1, <1>2, <1>3, <2>1, AppendWritten DEF Kinds, Statuses
  <2> HIDE DEF u
  <2>4. TurnsInv' /\ Grows BY <1>0, <2>1, <2>2, <2>3, LastGrows
  <2> QED BY <1>5, <2>4 DEF Say, Told
<1>6. CASE StartTool
  <2>1. Running /\ turns' = Added(n, "tool") /\ OpenTools(n) = {} BY <1>6 DEF StartTool
  <2> DEFINE u == [items |-> Append(its, Item(n, Len(its) + 1, "tool")), status |-> "inProgress"]
  <2>2. turns' = [turns EXCEPT ![n] = u] BY <1>0, <2>1, AddedFacts DEF Kinds, Statuses
  <2>3. \A k \in DOMAIN its : its[k].done BY <1>2, <2>1 DEF OpenTools, Written
  <2>4. Written(n, u) /\ Grown(turns[n], u) BY <1>1, <1>2, <1>3, <2>1, <2>3, AppendWritten DEF Kinds, Statuses
  <2>5. u.items[Len(its) + 1].kind = "tool" /\ Len(its) + 1 \in DOMAIN u.items
    <3> DEFINE m == Len(its) + 1  x == Item(n, m, "tool")
    <3>1. m \in Nat \ {0} BY <1>2
    <3>2. x \in Entry /\ x.kind = "tool" BY <1>1, <3>1, ItemType DEF Kinds
    <3>3. its \in Seq(Entry) BY <1>2 DEF Turn
    <3> HIDE DEF x
    <3>4. Append(its, x) \in Seq(Entry) /\ Len(Append(its, x)) = m /\ Append(its, x)[m] = x BY <3>2, <3>3, AppendProperties
    <3>5. m \in DOMAIN Append(its, x) BY <3>1, <3>4, LenProperties
    <3> QED BY <3>2, <3>4, <3>5 DEF x
  <2> HIDE DEF u
  <2>6. TurnsInv' /\ Grows /\ Items(n)' = u.items BY <1>0, <2>1, <2>2, <2>4, LastGrows
  <2>7. PICK e \in Event : e.turn = n /\ e.tool = Len(its) + 1 /\ events' = Append(events, e)
    <3>1. [turn |-> n, tool |-> Len(its) + 1, done |-> FALSE] \in Event BY <1>1, <1>2 DEF Event
    <3> QED BY <1>6, <3>1 DEF StartTool
  <2>8. turns'[n] = u /\ n \in DOMAIN turns' BY <1>1, <2>2
  <2>9. ToolOf(e.turn, e.tool)' BY <2>5, <2>7, <2>8 DEF ToolOf, Tools, Items
  <2>10. \A k : ToolOf(e.turn, k) => k <= e.tool BY <1>2, <2>7 DEF ToolOf, Tools
  <2>11. Told BY <2>7, <2>9, <2>10 DEF Told
  <2> QED BY <1>6, <2>6, <2>11 DEF StartTool
<1>7. CASE FinishTool
  <2>1. PICK k \in OpenTools(n) :
          /\ turns' = [turns EXCEPT ![n].items[k].done = TRUE]
          /\ events' = Append(events, [turn |-> n, tool |-> k, done |-> TRUE])
    BY <1>7 DEF FinishTool
  <2>2. Running BY <1>7 DEF FinishTool
  <2>3. k \in DOMAIN its /\ its[k].kind = "tool" /\ ~its[k].done BY DEF OpenTools
  <2> DEFINE u == [items |-> [its EXCEPT ![k] = [@ EXCEPT !.done = TRUE]], status |-> "inProgress"]
  <2>4. turns' = [turns EXCEPT ![n] = u] BY <1>0, <2>1, <2>2, FinishedFacts
  <2>5. Written(n, u) /\ Grown(turns[n], u) /\ \A j \in DOMAIN its : u.items[j].kind = its[j].kind
    BY <1>2, <1>3, <2>2, <2>3, FinishWritten
  <2>6. DOMAIN u.items = DOMAIN its OBVIOUS
  <2> HIDE DEF u
  <2>7. TurnsInv' /\ Grows /\ Items(n)' = u.items BY <1>0, <2>2, <2>4, <2>5, LastGrows
  <2>8. PICK e \in Event : e.turn = n /\ e.tool = k /\ events' = Append(events, e)
    <3>1. [turn |-> n, tool |-> k, done |-> TRUE] \in Event BY <1>1, <1>2, <2>3 DEF Event
    <3> QED BY <2>1, <3>1
  <2>9. turns'[n] = u /\ n \in DOMAIN turns' BY <1>1, <2>4
  <2>10. ToolOf(e.turn, e.tool)' BY <2>3, <2>5, <2>6, <2>8, <2>9 DEF ToolOf, Tools, Items
  <2>11. ASSUME NEW j, ToolOf(e.turn, j) PROVE j <= e.tool
    <3>1. j \in DOMAIN its /\ its[j].kind = "tool" BY <2>8, <2>11 DEF ToolOf, Tools
    <3>2. ~(k < j) BY <1>2, <2>3, <3>1 DEF Written
    <3> QED BY <1>2, <2>3, <2>8, <3>1, <3>2
  <2>12. Told BY <2>8, <2>10, <2>11 DEF Told
  <2> QED BY <1>7, <2>7, <2>12 DEF FinishTool
<1>8. CASE EndTurn
  <2>1. Running /\ UNCHANGED <<mode, hist, events, row, shown, loop>> BY <1>8 DEF EndTurn
  <2>2. \/ turns' = [Added(n, "final") EXCEPT ![n].status = "completed"]
        \/ \E s \in {"completed", "interrupted"} : turns' = [turns EXCEPT ![n].status = s]
    BY <1>8 DEF EndTurn
  <2>3. CASE turns' = [Added(n, "final") EXCEPT ![n].status = "completed"]
    <3> DEFINE u == [items |-> Append(its, Item(n, Len(its) + 1, "final")), status |-> "completed"]
    <3>1. turns' = [turns EXCEPT ![n] = u] BY <1>0, <2>1, <2>3, AddedFacts DEF Kinds, Statuses
    <3>2. Written(n, u) /\ Grown(turns[n], u) BY <1>1, <1>2, <1>3, <2>1, AppendWritten DEF Kinds, Statuses
    <3> HIDE DEF u
    <3>3. TurnsInv' /\ Grows BY <1>0, <2>1, <3>1, <3>2, LastGrows
    <3> QED BY <2>1, <3>3 DEF Told
  <2>4. ASSUME NEW s \in {"completed", "interrupted"}, turns' = [turns EXCEPT ![n].status = s] PROVE TurnsInv' /\ Grows
    <3> DEFINE u == [items |-> its, status |-> s]
    <3>1. s \in Statuses \ {"none"} BY DEF Statuses
    <3>2. turns' = [turns EXCEPT ![n] = u] BY <1>0, <2>1, <2>4, <3>1, EndedFacts
    <3>3. Written(n, u) /\ Grown(turns[n], u) BY <1>2, <1>3, <2>1, <3>1, EndWritten
    <3> HIDE DEF u
    <3> QED BY <1>0, <2>1, <3>2, <3>3, LastGrows
  <2> QED BY <2>1, <2>2, <2>3, <2>4 DEF Told
<1> QED BY <1>4, <1>5, <1>6, <1>7, <1>8 DEF CodexStep

-----------------------------------------------------------------------------
(* The steps keep the invariant                                            *)

\* An event that has not been put into the row yet is old, or tells of the last tool of its turn.
News == \A e \in Event : Pending(e)' => Pending(e) \/ \A k : ToolOf(e.turn, k) => k <= e.tool

LEMMA TurnOf ==
  ASSUME NEW ts \in Seq(Turn), NEW n \in DOMAIN ts
  PROVE  ts[n] \in Turn /\ ts[n].items \in Seq(Entry)
<1>1. ts[n] \in Turn BY LenProperties, ElementOfSeq
<1> QED BY <1>1 DEF Turn

LEMMA NothingGrows == ASSUME SnapTypeOK, turns' = turns PROVE Grows
<1>1. Latest \in Nat BY LenProperties DEF SnapTypeOK, Latest
<1>2. Latest' = Latest BY DEF Latest
<1>3. Latest <= Latest' BY <1>1, <1>2
<1>4. \A n \in DOMAIN turns : Grown(turns[n], turns[n]) BY TurnFacts, GrownSame
<1> QED BY <1>3, <1>4 DEF Grows

LEMMA Growth ==
  ASSUME SnapTypeOK, SnapTypeOK', Grows, NEW n \in DOMAIN turns
  PROVE  /\ n \in DOMAIN turns' /\ (turns[n].status # "inProgress" => turns'[n] = turns[n])
         /\ Len(Items(n)) <= Len(turns'[n].items)
         /\ \A k \in DOMAIN Items(n) : k \in DOMAIN turns'[n].items
                                       /\ (turns'[n].items[k].kind = "tool" <=> Items(n)[k].kind = "tool")
<1>1. DOMAIN turns = 1..Latest /\ Latest \in Nat BY LenProperties DEF SnapTypeOK, Latest
<1>2. DOMAIN turns' = 1..Latest' /\ Latest' \in Nat /\ turns' \in Seq(Turn) BY LenProperties DEF SnapTypeOK, Latest
<1>3. Grown(turns[n], turns'[n]) /\ Latest <= Latest' BY DEF Grows
<1>4. n \in DOMAIN turns' BY <1>1, <1>2, <1>3
<1>5. turns'[n].items \in Seq(Entry) BY <1>2, <1>4, TurnOf
<1>6. DOMAIN turns'[n].items = 1..Len(turns'[n].items) /\ Len(turns'[n].items) \in Nat BY <1>5, LenProperties
<1>7. DOMAIN Items(n) = 1..Len(Items(n)) /\ Len(Items(n)) \in Nat BY TurnFacts
<1> QED BY <1>3, <1>4, <1>6, <1>7 DEF Grown, Items

LEMMA ToolStays ==
  ASSUME SnapTypeOK, SnapTypeOK', Grows, NEW n, NEW k, ToolOf(n, k)
  PROVE  ToolOf(n, k)'
<1>1. n \in DOMAIN turns /\ k \in DOMAIN Items(n) /\ Items(n)[k].kind = "tool" BY DEF ToolOf, Tools
<1>2. n \in DOMAIN turns' /\ k \in DOMAIN turns'[n].items /\ turns'[n].items[k].kind = "tool" BY <1>1, Growth
<1> QED BY <1>2 DEF ToolOf, Tools, Items

LEMMA FollowStays ==
  ASSUME SnapTypeOK, SnapTypeOK', Grows, NEW n \in DOMAIN turns, NEW items, Follow(items, n)
  PROVE  Follow(items, n)'
<1> DEFINE new == turns'[n].items
<1>1. /\ \A k \in DOMAIN Items(n) : k \in DOMAIN new /\ (new[k].kind = "tool" <=> Items(n)[k].kind = "tool")
  BY Growth
<1>2. DOMAIN Items(n) = 1..Len(Items(n)) /\ Len(Items(n)) \in Nat BY TurnFacts
<1>3. new \in Seq(Entry)
  <2>1. n \in DOMAIN turns' BY Growth
  <2>2. turns' \in Seq(Turn) BY DEF SnapTypeOK
  <2> QED BY <2>1, <2>2, TurnOf
<1>4. DOMAIN new = 1..Len(new) /\ Len(new) \in Nat BY <1>3, LenProperties
<1>5. Items(n)' = new BY DEF Items
<1> HIDE DEF new
<1>6. \A j, k \in DOMAIN items : items[j].turn = n /\ (j < k => items[j].item < items[k].item) BY DEF Follow
<1>7. \A k \in DOMAIN items : items[k].item \in DOMAIN new /\ (items[k].kind = "tool" <=> new[items[k].item].kind = "tool")
  BY <1>1 DEF Follow
<1>8. ASSUME NEW k \in DOMAIN items, NEW j \in Tools(new), items[k].kind = "tool", j < items[k].item
      PROVE  Lists(items, n, j)
  <2>1. items[k].item \in DOMAIN Items(n) BY DEF Follow
  <2>2. j \in DOMAIN new /\ new[j].kind = "tool" BY DEF Tools
  <2>3. j \in DOMAIN Items(n) BY <1>2, <1>4, <1>8, <2>1, <2>2
  <2>4. j \in Tools(Items(n)) BY <1>1, <2>2, <2>3 DEF Tools
  <2> QED BY <1>8, <2>4 DEF Follow
<1> QED BY <1>5, <1>6, <1>7, <1>8 DEF Follow

LEMMA ReadsStay ==
  ASSUME SnapTypeOK, SnapTypeOK', Grows, DOMAIN hist \subseteq DOMAIN hist', NEW snap \in Snapshot, Reads(snap)
  PROVE  Reads(snap)'
<1>1. snap.turn \in DOMAIN turns /\ Follow(snap.details, snap.turn) /\ LastTool(snap) BY DEF Reads
<1>2. snap.turn \in DOMAIN turns' BY <1>1, Growth
<1>3. Follow(snap.details, snap.turn)' BY <1>1, FollowStays
<1>4. ASSUME snap.final # NoItem, snap.turn \notin DOMAIN hist'
      PROVE  turns'[snap.turn].status = "completed" /\ snap.final = AnswerOf(snap.turn)'
  <2>1. turns[snap.turn].status = "completed" /\ snap.final = AnswerOf(snap.turn) BY <1>4 DEF Reads
  <2>2. turns'[snap.turn] = turns[snap.turn] BY <1>1, <2>1, Growth
  <2>3. AnswerOf(snap.turn)' = AnswerOf(snap.turn) BY <2>2 DEF AnswerOf, Items
  <2> QED BY <2>1, <2>2, <2>3
<1>5. LastTool(snap)' BY <1>1 DEF LastTool
<1> QED BY <1>2, <1>3, <1>4, <1>5 DEF Reads

LEMMA SoundStays ==
  ASSUME SnapTypeOK, SnapTypeOK', Grows, News, NEW snap \in Snapshot, Sound(snap)
  PROVE  Sound(snap)'
<1>1. Once(snap.details) /\ LastTool(snap) BY DEF Sound
<1>2. snap.tool # NoItem => ToolOf(snap.turn, snap.tool)' BY ToolStays DEF Sound
<1>3. ASSUME NEW e \in Event, Pending(e)', e.turn = snap.turn, e.tool < snap.tool
      PROVE  Lists(snap.details, e.turn, e.tool)
  <2>1. CASE Pending(e) BY <1>3, <2>1 DEF Sound
  <2>2. CASE \A k : ToolOf(e.turn, k) => k <= e.tool
    <3>1. snap.tool \in Nat /\ e.tool \in Nat BY DEF Snapshot, Event
    <3>2. snap.tool # NoItem BY <1>3, <3>1 DEF NoItem
    <3>3. snap.tool <= e.tool BY <1>3, <2>2, <3>2 DEF Sound
    <3> QED BY <1>3, <3>1, <3>3
  <2> QED BY <1>3, <2>1, <2>2 DEF News
<1>4. Once(snap.details)' /\ LastTool(snap)' BY <1>1 DEF Once, LastTool
<1> QED BY <1>2, <1>3, <1>4 DEF Sound

\* What is left to show of a step: what it does to the events, and what new it reads, holds and stores.
LEMMA RestStays ==
  ASSUME SnapInv, SnapTypeOK', TurnsInv', HistInv', EventsInv', AloneInv', Grows, News, DOMAIN hist \subseteq DOMAIN hist',
         \A l \in Loops, snap \in Snapshot : Waits(l, snap)' => Waits(l, snap) \/ Reads(snap)',
         \A snap \in Snapshot : Held(snap)' => Held(snap) \/ Sound(snap)'
  PROVE  SnapInv'
<1>1. ReadInv'
  <2> SUFFICES ASSUME NEW l \in Loops, NEW snap \in Snapshot, Waits(l, snap)' PROVE Reads(snap)' BY DEF ReadInv
  <2>1. Waits(l, snap) => Reads(snap) BY DEF SnapInv, ReadInv
  <2> QED BY <2>1, ReadsStay DEF SnapInv
<1>2. RowInv'
  <2> SUFFICES ASSUME NEW snap \in Snapshot, Held(snap)' PROVE Sound(snap)' BY DEF RowInv
  <2>1. Held(snap) => Sound(snap) BY DEF SnapInv, RowInv
  <2> QED BY <2>1, SoundStays DEF SnapInv
<1> QED BY <1>1, <1>2 DEF SnapInv

LEMMA CodexKeeps == ASSUME SnapInv, CodexStep, SnapTypeOK' PROVE SnapInv'
<1>0. SnapTypeOK /\ TurnsInv /\ HistInv /\ EventsInv /\ AloneInv BY DEF SnapInv
<1>1. TurnsInv' /\ Grows /\ Told /\ UNCHANGED <<mode, hist, row, shown, loop>> BY CodexWrites
<1>2. HistInv'
  <2>1. Len(hist) <= Latest /\ Latest <= Latest' BY <1>0, <1>1 DEF HistInv, Grows
  <2>2. Len(hist) \in Nat /\ DOMAIN hist = 1..Len(hist) /\ Latest \in Nat /\ Latest' \in Nat
    BY <1>0, LenProperties DEF SnapTypeOK, Latest
  <2>3. ASSUME NEW n \in DOMAIN hist
        PROVE  /\ Written(n, hist[n]) /\ (hist[n].status # "inProgress" => hist[n] = turns'[n])
               /\ Len(hist[n].items) <= Len(turns'[n].items)
               /\ \A k \in DOMAIN hist[n].items : hist[n].items[k].kind = "tool" <=> turns'[n].items[k].kind = "tool"
    <3>1. n \in DOMAIN turns /\ hist[n].items \in Seq(Entry) BY <1>0, HistoryFollows
    <3>2. /\ turns[n].status # "inProgress" => turns'[n] = turns[n]
          /\ n \in DOMAIN turns' /\ Len(Items(n)) <= Len(turns'[n].items)
          /\ \A k \in DOMAIN Items(n) : turns'[n].items[k].kind = "tool" <=> Items(n)[k].kind = "tool"
      BY <1>0, <1>1, <3>1, Growth
    <3>3. Len(Items(n)) \in Nat /\ DOMAIN Items(n) = 1..Len(Items(n)) BY <1>0, <3>1, TurnFacts
    <3>4. Len(hist[n].items) \in Nat /\ DOMAIN hist[n].items = 1..Len(hist[n].items) BY <3>1, LenProperties
    <3>5. turns'[n].items \in Seq(Entry) BY <3>2, TurnOf DEF SnapTypeOK
    <3>6. Len(turns'[n].items) \in Nat BY <3>5, LenProperties
    <3>7. /\ Written(n, hist[n]) /\ (hist[n].status # "inProgress" => hist[n] = turns[n])
          /\ Len(hist[n].items) <= Len(Items(n))
          /\ \A k \in DOMAIN hist[n].items : hist[n].items[k].kind = "tool" <=> Items(n)[k].kind = "tool"
      BY <1>0 DEF HistInv
    <3>8. hist[n].status # "inProgress" => hist[n] = turns'[n] BY <3>2, <3>7
    <3>9. Len(hist[n].items) <= Len(turns'[n].items) BY <3>2, <3>3, <3>4, <3>6, <3>7
    <3>10. \A k \in DOMAIN hist[n].items : k \in DOMAIN Items(n) BY <3>3, <3>4, <3>7
    <3> QED BY <3>2, <3>7, <3>8, <3>9, <3>10
  <2>4. hist' = hist BY <1>1
  <2> QED BY <2>1, <2>2, <2>3, <2>4 DEF HistInv, Items
<1>3. Ahead' = Ahead BY <1>1 DEF Ahead
<1>4. events \in Seq(Event) /\ Ahead \in Seq(Event) /\ DOMAIN events = 1..Len(events) /\ Len(events) \in Nat
  BY <1>0, LenProperties DEF SnapTypeOK, Ahead, Loops, LoopState
<1>5. CASE events' = events
  <2>1. \A e : Pending(e)' => Pending(e) BY <1>3, <1>5 DEF Pending
  <2>2. EventsInv' BY <1>0, <1>1, <1>3, <1>5, <2>1, ToolStays DEF EventsInv
  <2>3. News BY <2>1 DEF News
  <2> QED BY <1>0, <1>1, <1>2, <2>2, <2>3, RestStays DEF Waits, Held, At, AloneInv
<1>6. CASE events' # events
  <2>1. PICK e \in Event : /\ events' = Append(events, e) /\ ToolOf(e.turn, e.tool)'
                           /\ \A k : ToolOf(e.turn, k) => k <= e.tool
    BY <1>1, <1>6 DEF Told
  <2>2. /\ Len(events') = Len(events) + 1 /\ events'[Len(events) + 1] = e
        /\ \A i \in 1..Len(events) : events'[i] = events[i]
    BY <1>4, <2>1, AppendProperties
  <2>3. DOMAIN events' = 1..(Len(events) + 1) BY <2>2, LenProperties DEF SnapTypeOK
  <2>4. \A f : Pending(f)' => Pending(f) \/ f = e BY <1>3, <1>4, <2>2, <2>3 DEF Pending
  <2>5. \A f \in Event : Pending(f) => InOrder(f, e) BY <1>0, <2>1 DEF EventsInv, InOrder
  <2>6. EventsInv'
    <3>1. \A f \in Event : Pending(f)' => ToolOf(f.turn, f.tool)'
      BY <1>0, <1>1, <2>1, <2>4, ToolStays DEF EventsInv
    <3>2. ASSUME NEW i \in DOMAIN events', NEW j \in DOMAIN events', i < j PROVE InOrder(events'[i], events'[j])
      <4>1. i \in DOMAIN events /\ events'[i] = events[i] BY <1>4, <2>2, <2>3, <3>2
      <4>2. CASE j \in DOMAIN events BY <1>0, <1>4, <2>2, <3>2, <4>1, <4>2 DEF EventsInv
      <4>3. CASE j = Len(events) + 1
        <5>1. events[i] \in Event /\ Pending(events[i]) BY <1>4, <4>1, ElementOfSeq DEF Pending
        <5> QED BY <2>2, <2>5, <4>1, <4>3, <5>1
      <4> QED BY <1>4, <2>3, <4>2, <4>3
    <3>3. ASSUME NEW i \in DOMAIN Ahead, NEW j \in DOMAIN events' PROVE InOrder(Ahead[i], events'[j])
      <4>1. CASE j \in DOMAIN events BY <1>0, <1>4, <2>2, <4>1 DEF EventsInv
      <4>2. CASE j = Len(events) + 1
        <5>1. DOMAIN Ahead = 1..Len(Ahead) BY <1>4, LenProperties
        <5>2. Ahead[i] \in Event /\ Pending(Ahead[i]) BY <1>4, <5>1, ElementOfSeq DEF Pending
        <5> QED BY <2>2, <2>5, <4>2, <5>2
      <4> QED BY <1>4, <2>3, <4>1, <4>2
    <3>4. (loop'["live"].at \in {"idle", "sync"} <=> Ahead' = <<>>) /\ Len(Ahead') <= 1
      BY <1>0, <1>1, <1>3 DEF EventsInv
    <3> QED BY <1>3, <3>1, <3>2, <3>3, <3>4 DEF EventsInv, InOrder
  <2>7. News BY <2>1, <2>4 DEF News
  <2> QED BY <1>0, <1>1, <1>2, <2>6, <2>7, RestStays DEF Waits, Held, At, AloneInv
<1> QED BY <1>5, <1>6

\* Steps of a loop that leave the events where they are.
LEMMA EventsStay ==
  ASSUME EventsInv, SnapTypeOK, SnapTypeOK', turns' = turns, events' = events, Ahead' = Ahead,
         loop'["live"].at \in {"idle", "sync"} <=> loop["live"].at \in {"idle", "sync"}
  PROVE  EventsInv' /\ News
<1>1. \A e : Pending(e)' <=> Pending(e) BY DEF Pending
<1>2. Grows BY NothingGrows
<1> QED BY <1>1, <1>2, ToolStays DEF EventsInv, News, InOrder

LEMMA ProjectKeeps == ASSUME SnapInv, Project, SnapTypeOK' PROVE SnapInv'
<1>0. SnapTypeOK /\ TurnsInv /\ HistInv /\ EventsInv /\ AloneInv BY DEF SnapInv
<1>1. hist' = turns /\ UNCHANGED <<mode, turns, events, row, shown, loop>> BY DEF Project
<1>2. HistInv'
  <2>1. Len(turns) <= Latest /\ Latest' = Latest BY <1>0, <1>1, LenProperties DEF Latest, SnapTypeOK
  <2>2. ASSUME NEW n \in DOMAIN turns PROVE Written(n, turns[n]) /\ Len(turns[n].items) <= Len(turns[n].items)
    BY <1>0, TurnFacts DEF TurnsInv, Items
  <2> QED BY <1>1, <2>1, <2>2 DEF HistInv, Items
<1>3. TurnsInv' BY <1>0, <1>1 DEF TurnsInv, Latest
<1>4. Grows BY <1>0, <1>1, NothingGrows
<1>5. EventsInv' /\ News BY <1>0, <1>1, EventsStay DEF Ahead
<1>6. DOMAIN hist \subseteq DOMAIN hist' BY <1>0, <1>1, HistoryFollows
<1> QED BY <1>0, <1>1, <1>2, <1>3, <1>4, <1>5, <1>6, RestStays DEF Waits, Held, At, AloneInv

\* The turns and the database stay as they are.
LEMMA CodexStays ==
  ASSUME SnapTypeOK, TurnsInv, HistInv, turns' = turns, hist' = hist
  PROVE  TurnsInv' /\ HistInv' /\ Grows /\ DOMAIN hist \subseteq DOMAIN hist'
<1>1. Latest' = Latest BY DEF Latest
<1>2. Grows BY NothingGrows
<1> QED BY <1>1, <1>2 DEF TurnsInv, HistInv, Items

LEMMA DisconnectKeeps == ASSUME SnapInv, Disconnect, SnapTypeOK' PROVE SnapInv'
<1>0. SnapTypeOK /\ TurnsInv /\ HistInv /\ EventsInv /\ AloneInv BY DEF SnapInv
<1>1. events' = <<>> /\ UNCHANGED <<mode, turns, hist, row, shown, loop>> BY DEF Disconnect
<1>2. TurnsInv' /\ HistInv' /\ Grows /\ DOMAIN hist \subseteq DOMAIN hist' BY <1>0, <1>1, CodexStays
<1>3. Ahead' = Ahead /\ DOMAIN events' = {} BY <1>1 DEF Ahead
<1>4. \A e : Pending(e)' => Pending(e) BY <1>3 DEF Pending
<1>5. News BY <1>4 DEF News
<1>6. EventsInv' BY <1>0, <1>1, <1>2, <1>3, <1>4, ToolStays DEF EventsInv
<1> QED BY <1>0, <1>1, <1>2, <1>5, <1>6, RestStays DEF Waits, Held, At, AloneInv

LEMMA TakeKeeps == ASSUME SnapInv, Take, SnapTypeOK' PROVE SnapInv'
<1>0. SnapTypeOK /\ TurnsInv /\ HistInv /\ EventsInv /\ AloneInv BY DEF SnapInv
<1>1. /\ loop["live"].at = "idle" /\ events # <<>> /\ events' = Tail(events)
      /\ UNCHANGED <<mode, turns, hist, row, shown>>
  BY DEF Take, At
<1>2. TurnsInv' /\ HistInv' /\ Grows /\ DOMAIN hist \subseteq DOMAIN hist' BY <1>0, <1>1, CodexStays
<1>3. events \in Seq(Event) /\ DOMAIN events = 1..Len(events) /\ Len(events) \in Nat
  BY <1>0, LenProperties DEF SnapTypeOK
<1>4. /\ events' \in Seq(Event) /\ Len(events') = Len(events) - 1 /\ DOMAIN events' = 1..Len(events')
      /\ Len(events') \in Nat /\ \A i \in DOMAIN events' : events'[i] = events[i + 1] /\ i + 1 \in DOMAIN events
      /\ Head(events) = events[1] /\ 1 \in DOMAIN events
  BY <1>1, <1>3, HeadTailProperties, LenProperties, EmptySeq
<1>5. Ahead = <<>> BY <1>0, <1>1 DEF EventsInv
<1>6. \A i, j \in DOMAIN events' : i < j => InOrder(events'[i], events'[j]) BY <1>0, <1>3, <1>4 DEF EventsInv
<1>7. CASE UNCHANGED loop
  <2>1. Ahead' = Ahead BY <1>7 DEF Ahead
  <2>2. \A e : Pending(e)' => Pending(e) BY <1>4, <2>1 DEF Pending
  <2>3. News BY <2>2 DEF News
  <2>4. EventsInv' BY <1>0, <1>2, <1>5, <1>6, <1>7, <2>1, <2>2, ToolStays DEF EventsInv
  <2> QED BY <1>0, <1>1, <1>2, <1>7, <2>3, <2>4, RestStays DEF Waits, Held, At, AloneInv
<1>8. CASE ~UNCHANGED loop
  <2>1. loop' = [loop EXCEPT !["live"] = [Resting EXCEPT !.at = "read", !.event = <<Head(events)>>,
                                                        !.before = IF Follows THEN Blank ELSE row]]
    BY <1>8 DEF Take
  <2>2. "live" \in Loops /\ loop \in [Loops -> LoopState] BY <1>0 DEF Loops, SnapTypeOK
  <2>3. loop'["live"].at = "read" /\ Ahead' = <<events[1]>> /\ \A l \in Loops : l # "live" => loop'[l] = loop[l]
    BY <1>4, <2>1, <2>2 DEF Ahead, Resting
  <2>4. DOMAIN Ahead' = {1} /\ Ahead'[1] = events[1] /\ Len(Ahead') = 1 /\ Ahead' # <<>> BY <2>3
  <2>5. \A e : Pending(e)' => Pending(e) BY <1>4, <2>4 DEF Pending
  <2>6. News BY <2>5 DEF News
  <2>7. \A j \in DOMAIN events' : InOrder(events[1], events'[j]) BY <1>0, <1>3, <1>4 DEF EventsInv
  <2>8. EventsInv' BY <1>0, <1>2, <1>6, <2>3, <2>4, <2>5, <2>7, ToolStays DEF EventsInv, InOrder
  <2>9. \A l, snap : l \in Loops /\ Waits(l, snap)' => Waits(l, snap) BY <2>3 DEF Waits, At
  <2>10. \A snap : Held(snap)' => Held(snap) BY <1>1, <2>3 DEF Held, At
  <2>11. AloneInv' BY <2>3 DEF AloneInv, At
  <2> QED BY <1>0, <1>2, <2>6, <2>8, <2>9, <2>10, <2>11, RestStays
<1> QED BY <1>7, <1>8

LEMMA ReadKeeps == ASSUME SnapInv, NEW l \in Loops, ReadThread(l), SnapTypeOK' PROVE SnapInv'
<1>0. SnapTypeOK /\ TurnsInv /\ HistInv /\ EventsInv /\ AloneInv BY DEF SnapInv
<1>1. UNCHANGED <<mode, turns, hist, events, row, shown>> /\ At(l, IF l = "poll" THEN "idle" ELSE "read")
  BY DEF ReadThread, codex
<1>2. TurnsInv' /\ HistInv' /\ Grows /\ DOMAIN hist \subseteq DOMAIN hist' BY <1>0, <1>1, CodexStays
<1>3. PICK snap \in Snapshot :
        /\ snap.turn = Latest /\ Follow(snap.details, Latest) /\ LastTool(snap)
        /\ snap.final # NoItem /\ Latest \notin DOMAIN hist =>
             turns[Latest].status = "completed" /\ snap.final = AnswerOf(Latest)
        /\ loop' = [loop EXCEPT ![l].at = "store", ![l].read = snap]
  BY ReadThreadFacts
<1>4. loop \in [Loops -> LoopState] /\ l \in {"poll", "live"} /\ "live" \in Loops BY <1>0 DEF SnapTypeOK, Loops
<1>5. /\ loop'[l] = [loop[l] EXCEPT !.at = "store", !.read = snap]
      /\ \A k \in Loops : k # l => loop'[k] = loop[k]
  BY <1>3, <1>4
<1>6. /\ loop'[l].at = "store" /\ loop'[l].read = snap /\ loop'[l].event = loop[l].event
  BY <1>4, <1>5 DEF LoopState
<1>7. Ahead' = Ahead BY <1>4, <1>5, <1>6 DEF Ahead
<1>8. loop'["live"].at \in {"idle", "sync"} <=> loop["live"].at \in {"idle", "sync"} BY <1>1, <1>4, <1>5, <1>6 DEF At
<1>9. EventsInv' /\ News BY <1>0, <1>1, <1>7, <1>8, EventsStay
<1>10. Reads(snap)
  <2>1. Latest \in DOMAIN turns BY <1>0, LenProperties DEF TurnsInv, Latest, SnapTypeOK
  <2> QED BY <1>3, <2>1 DEF Reads
<1>11. Reads(snap)' BY <1>0, <1>2, <1>10, ReadsStay
<1>12. \A k \in Loops, s \in Snapshot : Waits(k, s)' => Waits(k, s) \/ Reads(s)' BY <1>5, <1>6, <1>11 DEF Waits, At
<1>13. \A s \in Snapshot : Held(s)' => Held(s) BY <1>1, <1>4, <1>5, <1>6 DEF Held, At
<1>14. AloneInv' BY <1>0, <1>1, <1>4, <1>5, <1>6 DEF AloneInv, At
<1> QED BY <1>0, <1>2, <1>9, <1>12, <1>13, <1>14, RestStays

LEMMA StoreKeeps == ASSUME SnapInv, NEW l \in Loops, Store(l), SnapTypeOK' PROVE SnapInv'
<1>0. SnapTypeOK /\ TurnsInv /\ HistInv /\ EventsInv /\ AloneInv BY DEF SnapInv
<1>1. UNCHANGED <<mode, turns, hist, events, shown>> /\ loop[l].at = "store" BY DEF Store, codex, At
<1>2. TurnsInv' /\ HistInv' /\ Grows /\ DOMAIN hist \subseteq DOMAIN hist' BY <1>0, <1>1, CodexStays
<1>3. loop \in [Loops -> LoopState] /\ l \in {"poll", "live"} /\ "live" \in Loops /\ row \in Snapshot
  BY <1>0 DEF SnapTypeOK, Loops
<1>4. ASSUME NEW k \in Loops, k # l PROVE loop'[k] = [loop[k] EXCEPT !.alone = ~At(k, "put")]
  BY <1>4 DEF Store
<1>5. \/ l = "live" /\ loop'[l] = [loop[l] EXCEPT !.at = "tool", !.read = Blank]
      \/ l = "poll" /\ loop'[l] = [Resting EXCEPT !.at = "sync"]
      \/ l = "poll" /\ loop'[l] = Resting
  BY <1>3 DEF Store
<1>6. /\ loop'[l].at \in {"tool", "sync", "idle"}
      /\ l = "live" => loop'[l].event = loop[l].event /\ loop'[l].at = "tool"
  <2>1. loop[l] \in LoopState BY <1>3
  <2>2. CASE l = "live"
    <3>1. loop'[l] = [loop[l] EXCEPT !.at = "tool", !.read = Blank] BY <1>5, <2>2
    <3> QED BY <2>1, <3>1 DEF LoopState
  <2>3. CASE l = "poll"
    <3>1. loop'[l].at \in {"sync", "idle"} BY <1>5, <2>3 DEF Resting
    <3> QED BY <2>3, <3>1
  <2> QED BY <1>3, <2>2, <2>3
<1>7. \A k \in Loops : k # l =>
        /\ loop'[k].at = loop[k].at /\ loop'[k].event = loop[k].event /\ loop'[k].read = loop[k].read
        /\ loop'[k].prev = loop[k].prev /\ (loop'[k].alone <=> ~At(k, "put"))
  <2> SUFFICES ASSUME NEW k \in Loops, k # l
               PROVE  /\ loop'[k].at = loop[k].at /\ loop'[k].event = loop[k].event /\ loop'[k].read = loop[k].read
                      /\ loop'[k].prev = loop[k].prev /\ (loop'[k].alone <=> ~At(k, "put"))
    OBVIOUS
  <2> DEFINE alone == ~At(k, "put")
  <2>1. loop[k] \in LoopState BY <1>3
  <2>2. loop'[k] = [loop[k] EXCEPT !.alone = alone] BY <1>4
  <2> HIDE DEF alone
  <2>3. /\ loop'[k].at = loop[k].at /\ loop'[k].event = loop[k].event /\ loop'[k].read = loop[k].read
        /\ loop'[k].prev = loop[k].prev /\ loop'[k].alone = alone
    BY <2>1, <2>2 DEF LoopState
  <2> QED BY <2>3 DEF alone
<1>8. Ahead' = Ahead BY <1>3, <1>6, <1>7 DEF Ahead
<1>9. loop'["live"].at \in {"idle", "sync"} <=> loop["live"].at \in {"idle", "sync"} BY <1>1, <1>3, <1>6, <1>7
<1>10. EventsInv' /\ News BY <1>0, <1>1, <1>8, <1>9, EventsStay
<1>11. \A k \in Loops, s \in Snapshot : Waits(k, s)' => Waits(k, s) BY <1>6, <1>7 DEF Waits, At
<1>12. AloneInv'
  <2> SUFFICES ASSUME At("live", "put")', loop'["live"].alone PROVE FALSE BY DEF AloneInv
  <2>1. l # "live" BY <1>6 DEF At
  <2> QED BY <1>3, <1>7, <2>1 DEF At
<1>13. PICK new \in Snapshot : new = row' BY <1>0, StoreFacts
<1>14. Sound(new)'
  <2> DEFINE read == loop[l].read
  <2>1. /\ Once(new.details) /\ LastTool(new) /\ new.turn = read.turn
        /\ \/ new.tool = read.tool /\ new.details = read.details
           \/ /\ new.tool = row.tool /\ new.turn = row.turn
              /\ \A k : Lists(row.details, row.turn, k) => Lists(new.details, row.turn, k)
    BY <1>13, StoreFacts
  <2>2. Sound(row) BY <1>3 DEF SnapInv, RowInv, Held
  <2>3. read \in Snapshot /\ Reads(read) BY <1>1, <1>3 DEF SnapInv, ReadInv, Waits, At, LoopState
  <2> HIDE DEF read
  <2>4. Sound(new)
    <3>1. CASE new.tool = read.tool /\ new.details = read.details
      <4>1. read.turn \in DOMAIN turns /\ Follow(read.details, read.turn) /\ LastTool(read) BY <2>3 DEF Reads
      <4>2. ASSUME new.tool # NoItem
            PROVE  \E k \in Tools(new.details) :
                     new.details[k].item = new.tool /\ new.tool \in Tools(Items(new.turn))
        <5>1. PICK k \in Tools(new.details) : new.details[k].turn = new.turn /\ new.details[k].item = new.tool
          BY <2>1, <4>2 DEF LastTool
        <5>2. k \in DOMAIN new.details /\ new.details[k].kind = "tool" BY DEF Tools
        <5> QED BY <2>1, <3>1, <4>1, <5>1, <5>2 DEF Follow, Tools
      <4>3. new.tool # NoItem => ToolOf(new.turn, new.tool) BY <2>1, <4>1, <4>2 DEF ToolOf
      <4>4. ASSUME NEW e \in Event, Pending(e), e.turn = new.turn, e.tool < new.tool
            PROVE  Lists(new.details, e.turn, e.tool)
        <5>1. e.tool \in Tools(Items(new.turn)) BY <1>0, <4>4 DEF EventsInv, ToolOf
        <5>2. new.tool # NoItem BY <4>4 DEF NoItem, Event
        <5>3. PICK k \in Tools(new.details) : new.details[k].item = new.tool BY <4>2, <5>2
        <5>4. k \in DOMAIN read.details /\ read.details[k].kind = "tool" /\ e.tool < read.details[k].item
          BY <3>1, <4>4, <5>3 DEF Tools
        <5> QED BY <2>1, <3>1, <4>1, <4>4, <5>1, <5>4 DEF Follow
      <4> QED BY <2>1, <4>3, <4>4 DEF Sound
    <3>2. CASE /\ new.tool = row.tool /\ new.turn = row.turn
               /\ \A k : Lists(row.details, row.turn, k) => Lists(new.details, row.turn, k)
      BY <2>1, <2>2, <3>2 DEF Sound
    <3> QED BY <2>1, <3>1, <3>2
  <2> QED BY <1>0, <1>2, <1>10, <2>4, SoundStays
<1>15. \A s \in Snapshot : Held(s)' => Held(s) \/ Sound(s)' BY <1>3, <1>6, <1>7, <1>13, <1>14 DEF Held, At
<1> QED BY <1>0, <1>2, <1>10, <1>11, <1>12, <1>15, RestStays

LEMMA LookToolKeeps == ASSUME SnapInv, LookTool, SnapTypeOK' PROVE SnapInv'
<1>0. SnapTypeOK /\ TurnsInv /\ HistInv /\ EventsInv /\ AloneInv BY DEF SnapInv
<1>1. UNCHANGED <<mode, turns, hist, events, row, shown>> /\ loop["live"].at = "tool" BY DEF LookTool, codex, At
<1>2. TurnsInv' /\ HistInv' /\ Grows /\ DOMAIN hist \subseteq DOMAIN hist' BY <1>0, <1>1, CodexStays
<1>3. loop \in [Loops -> LoopState] /\ "live" \in Loops BY <1>0 DEF SnapTypeOK, Loops
<1>4. /\ loop'["live"] = [loop["live"] EXCEPT !.at = "put", !.prev = row, !.alone = TRUE]
      /\ \A k \in Loops : k # "live" => loop'[k] = loop[k]
  BY <1>3 DEF LookTool
<1>5. loop'["live"].at = "put" /\ loop'["live"].prev = row /\ loop'["live"].event = loop["live"].event
  BY <1>3, <1>4 DEF LoopState
<1>6. EventsInv' /\ News BY <1>0, <1>1, <1>5, EventsStay DEF Ahead
<1>7. \A k \in Loops, s \in Snapshot : Waits(k, s)' => Waits(k, s) BY <1>4, <1>5 DEF Waits, At
<1>8. \A s \in Snapshot : Held(s)' => Held(s) BY <1>1, <1>5 DEF Held, At
<1>9. AloneInv' BY <1>1, <1>5 DEF AloneInv, At
<1> QED BY <1>0, <1>2, <1>6, <1>7, <1>8, <1>9, RestStays

LEMMA PutToolKeeps == ASSUME SnapInv, PutTool, SnapTypeOK' PROVE SnapInv'
<1>0. SnapTypeOK /\ TurnsInv /\ HistInv /\ EventsInv /\ AloneInv BY DEF SnapInv
<1>1. UNCHANGED <<mode, turns, hist, events, shown>> /\ loop["live"].at = "put" BY DEF PutTool, codex, At
<1>2. TurnsInv' /\ HistInv' /\ Grows /\ DOMAIN hist \subseteq DOMAIN hist' BY <1>0, <1>1, CodexStays
<1>3. loop \in [Loops -> LoopState] /\ "live" \in Loops BY <1>0 DEF SnapTypeOK, Loops
<1>4. loop' = [loop EXCEPT !["live"].at = "compare"] BY PutToolFacts
<1>5. /\ loop'["live"] = [loop["live"] EXCEPT !.at = "compare"]
      /\ \A k \in Loops : k # "live" => loop'[k] = loop[k]
  BY <1>3, <1>4
<1>6. loop'["live"].at = "compare" /\ loop'["live"].event = loop["live"].event BY <1>3, <1>5 DEF LoopState
<1>7. EventsInv' /\ News BY <1>0, <1>1, <1>6, EventsStay DEF Ahead
<1>8. \A k \in Loops, s \in Snapshot : Waits(k, s)' => Waits(k, s) BY <1>5, <1>6 DEF Waits, At
<1>9. AloneInv' BY <1>6 DEF AloneInv, At
<1>10. PICK new \in Snapshot : new = row' BY DEF SnapTypeOK
<1>11. CASE row' = row
  <2>1. \A s \in Snapshot : Held(s)' => Held(s) BY <1>6, <1>11 DEF Held, At
  <2> QED BY <1>0, <1>2, <1>7, <1>8, <1>9, <2>1, RestStays
<1>12. CASE row' # row
  <2> DEFINE e == Head(Ahead)
  <2>1. e \in Event /\ new.turn = e.turn /\ new.tool = e.tool /\ Once(new.details) /\ LastTool(new) /\ Ahead # <<>>
    BY <1>10, <1>12, PutToolFacts
  <2>2. Pending(e) /\ e = Ahead[1] /\ DOMAIN Ahead = {1} BY <1>0, <2>1, AheadFacts
  <2> HIDE DEF e
  <2>3. ToolOf(new.turn, new.tool) BY <1>0, <2>1, <2>2 DEF EventsInv
  <2>4. ASSUME NEW f \in Event, Pending(f), f.turn = new.turn PROVE ~(f.tool < new.tool)
    <3>1. f = e \/ \E j \in DOMAIN events : f = events[j] BY <2>2, <2>4 DEF Pending
    <3>2. InOrder(e, f) \/ f = e BY <1>0, <2>2, <3>1 DEF EventsInv
    <3>3. f.tool \in Nat /\ e.tool \in Nat BY <2>1 DEF Event
    <3> QED BY <2>1, <2>4, <3>2, <3>3 DEF InOrder
  <2>5. Sound(new) BY <2>1, <2>3, <2>4 DEF Sound
  <2>6. Sound(new)' BY <1>0, <1>2, <1>7, <2>5, SoundStays
  <2>7. \A s \in Snapshot : Held(s)' => Sound(s)' BY <1>6, <1>10, <2>6 DEF Held, At
  <2> QED BY <1>0, <1>2, <1>7, <1>8, <1>9, <2>7, RestStays
<1> QED BY <1>11, <1>12

\* A loop comes to rest.
LEMMA RestKeeps ==
  ASSUME SnapInv, SnapTypeOK', NEW l \in Loops, NEW s \in {Resting, [Resting EXCEPT !.at = "sync"]},
         loop' = [loop EXCEPT ![l] = s], UNCHANGED <<mode, turns, hist, events, row>>
  PROVE  SnapInv'
<1>0. SnapTypeOK /\ TurnsInv /\ HistInv /\ EventsInv /\ AloneInv BY DEF SnapInv
<1>2. TurnsInv' /\ HistInv' /\ Grows /\ DOMAIN hist \subseteq DOMAIN hist' BY <1>0, CodexStays
<1>3. loop \in [Loops -> LoopState] /\ "live" \in Loops BY <1>0 DEF SnapTypeOK, Loops
<1>4. /\ loop'[l] = s /\ s.at \in {"idle", "sync"} /\ s.event = <<>>
      /\ \A k \in Loops : k # l => loop'[k] = loop[k]
  BY <1>3 DEF Resting
<1>5. Ahead' = Ahead \/ Ahead' = <<>> BY <1>3, <1>4 DEF Ahead
<1>6. \A e : Pending(e)' => Pending(e) BY <1>5 DEF Pending
<1>7. News BY <1>6 DEF News
<1>8. EventsInv'
  <2>1. loop'["live"].at \in {"idle", "sync"} <=> Ahead' = <<>> BY <1>0, <1>3, <1>4 DEF EventsInv, Ahead
  <2>2. Len(Ahead') <= 1 BY <1>0, <1>5 DEF EventsInv
  <2>3. \A e \in Event : Pending(e)' => ToolOf(e.turn, e.tool)' BY <1>0, <1>2, <1>6, ToolStays DEF EventsInv
  <2>4. \A i \in DOMAIN Ahead', j \in DOMAIN events : InOrder(Ahead'[i], events[j]) BY <1>0, <1>5 DEF EventsInv
  <2> QED BY <1>0, <2>1, <2>2, <2>3, <2>4 DEF EventsInv, InOrder
<1>9. \A k \in Loops, snap \in Snapshot : Waits(k, snap)' => Waits(k, snap) BY <1>4 DEF Waits, At
<1>10. \A snap \in Snapshot : Held(snap)' => Held(snap) BY <1>3, <1>4 DEF Held, At
<1>11. AloneInv' BY <1>0, <1>3, <1>4 DEF AloneInv, At
<1> QED BY <1>0, <1>2, <1>7, <1>8, <1>9, <1>10, <1>11, RestStays

LEMMA SnapStep == ASSUME SnapInv, [SnapNext]_snapVars PROVE SnapInv'
<1>1. CASE SnapNext
  <2>1. SnapTypeOK' BY <1>1, TypeStep
  <2>2. CASE LiveCompares
    <3>1. \E s \in {Resting, [Resting EXCEPT !.at = "sync"]} : loop' = [loop EXCEPT !["live"] = s]
      BY <2>2 DEF LiveCompares
    <3> QED BY <2>1, <2>2, <3>1, RestKeeps DEF LiveCompares, codex, Loops
  <2>3. ASSUME NEW l \in Loops, Sync(l) PROVE SnapInv' BY <2>1, <2>3, RestKeeps DEF Sync, codex
  <2> QED BY <1>1, <2>1, <2>2, <2>3, CodexKeeps, ProjectKeeps, DisconnectKeeps, TakeKeeps, ReadKeeps, StoreKeeps,
             LookToolKeeps, PutToolKeeps DEF SnapNext, LoopStep, Loops
<1>2. CASE UNCHANGED snapVars
  <2> USE <1>2 DEF snapVars
  <2>0. SnapTypeOK /\ TurnsInv /\ HistInv /\ EventsInv /\ AloneInv BY DEF SnapInv
  <2>1. SnapTypeOK' BY <2>0 DEF SnapTypeOK
  <2>2. TurnsInv' /\ HistInv' /\ Grows /\ DOMAIN hist \subseteq DOMAIN hist' BY <2>0, CodexStays
  <2>3. EventsInv' /\ News BY <2>0, <2>1, EventsStay DEF Ahead
  <2> QED BY <2>0, <2>1, <2>2, <2>3, RestStays DEF Waits, Held, At, AloneInv
<1> QED BY <1>1, <1>2

-----------------------------------------------------------------------------
(* The initial states                                                      *)

LEMMA SpokenType ==
  ASSUME NEW n \in Nat \ {0}, NEW k \in Nat \ {0}, NEW kind \in {"user", "say", "final"}
  PROVE  /\ Item(n, k, kind) \in Entry /\ Item(n, k, kind).turn = n /\ Item(n, k, kind).item = k
         /\ Item(n, k, kind).kind = kind /\ Item(n, k, kind).done
<1>1. Item(n, k, kind).done BY DEF Item
<1> QED BY <1>1, ItemType DEF Kinds

LEMMA InitHolds == ASSUME SnapInit PROVE SnapInv
<1> DEFINE user == Item(1, 1, "user")  final == Item(1, 2, "final")  said == <<user, final>>
           ended == [items |-> said, status |-> "completed"]
           user2 == Item(2, 1, "user")  tool2 == [Item(2, 2, "tool") EXCEPT !.done = TRUE]  say2 == Item(2, 3, "say")
           used == <<user2, tool2>>
           its == IF Follows THEN used ELSE Append(used, say2)
           busy == [items |-> its, status |-> "inProgress"]
           first == [turn |-> 2, tool |-> 2, done |-> FALSE]  second == [turn |-> 2, tool |-> 2, done |-> TRUE]
<1>1. /\ mode \in Modes
      /\ turns = IF mode = "polled" THEN <<ended>> ELSE <<ended, busy>>
      /\ events = IF mode = "polled" THEN <<>> ELSE <<first, second>>
      /\ hist = <<ended>>
      /\ row = [Blank EXCEPT !.turn = 1, !.status = "completed", !.final = 2, !.details = said,
                             !.completion = <<1, "completed">>]
      /\ shown = row /\ loop = [l \in Loops |-> Resting]
  BY DEF SnapInit, Used
<1>2. /\ user \in Entry /\ user.turn = 1 /\ user.item = 1 /\ user.kind = "user" /\ user.done
      /\ final \in Entry /\ final.turn = 1 /\ final.item = 2 /\ final.kind = "final" /\ final.done
      /\ user2 \in Entry /\ user2.turn = 2 /\ user2.item = 1 /\ user2.kind = "user" /\ user2.done
      /\ tool2 \in Entry /\ tool2.turn = 2 /\ tool2.item = 2 /\ tool2.kind = "tool" /\ tool2.done
      /\ say2 \in Entry /\ say2.turn = 2 /\ say2.item = 3 /\ say2.kind = "say" /\ say2.done
  <2>1. /\ user \in Entry /\ user.turn = 1 /\ user.item = 1 /\ user.kind = "user" /\ user.done
        /\ final \in Entry /\ final.turn = 1 /\ final.item = 2 /\ final.kind = "final" /\ final.done
    BY SpokenType
  <2>2. /\ user2 \in Entry /\ user2.turn = 2 /\ user2.item = 1 /\ user2.kind = "user" /\ user2.done
        /\ say2 \in Entry /\ say2.turn = 2 /\ say2.item = 3 /\ say2.kind = "say" /\ say2.done
    BY SpokenType
  <2>3. /\ tool2 \in Entry /\ tool2.turn = 2 /\ tool2.item = 2 /\ tool2.kind = "tool" /\ tool2.done
    <3> DEFINE x == Item(2, 2, "tool")
    <3>1. x \in Entry /\ x.turn = 2 /\ x.item = 2 /\ x.kind = "tool" BY ItemType DEF Kinds
    <3> HIDE DEF x
    <3> QED BY <3>1 DEF Entry, x
  <2> HIDE DEF user, final, user2, tool2, say2
  <2> QED BY <2>1, <2>2, <2>3
<1>3. first \in Event /\ second \in Event BY DEF Event
<1>4. first.turn = 2 /\ first.tool = 2 /\ second.turn = 2 /\ second.tool = 2 OBVIOUS
<1> HIDE DEF user, final, user2, tool2, say2, first, second
<1>5. said \in Seq(Entry) /\ Len(said) = 2 /\ DOMAIN said = {1, 2} /\ said[1] = user /\ said[2] = final
  BY <1>2
<1>6. used \in Seq(Entry) /\ Len(used) = 2 /\ used[1] = user2 /\ used[2] = tool2 BY <1>2
<1> HIDE DEF said, used
<1>7. /\ its \in Seq(Entry) /\ its[1] = user2 /\ its[2] = tool2
      /\ \/ Len(its) = 2 /\ DOMAIN its = {1, 2}
         \/ Len(its) = 3 /\ DOMAIN its = {1, 2, 3} /\ its[3] = say2
  <2> DEFINE a == Append(used, say2)
  <2>1. DOMAIN used = {1, 2}
    <3>1. DOMAIN used = 1..2 BY <1>6, LenProperties
    <3> QED BY <3>1
  <2>2. a \in Seq(Entry) /\ Len(a) = 3 /\ a[3] = say2 /\ a[1] = used[1] /\ a[2] = used[2]
    <3>1. /\ a \in Seq(Entry) /\ Len(a) = Len(used) + 1 /\ a[Len(used) + 1] = say2
          /\ \A i \in 1..Len(used) : a[i] = used[i]
      <4>1. say2 \in Entry /\ used \in Seq(Entry) BY <1>2, <1>6
      <4> QED BY <4>1, AppendProperties
    <3> HIDE DEF a
    <3>2. 1 \in 1..Len(used) /\ 2 \in 1..Len(used) /\ Len(used) + 1 = 3 BY <1>6
    <3> QED BY <3>1, <3>2
  <2>3. DOMAIN a = {1, 2, 3}
    <3>1. DOMAIN a = 1..3 BY <2>2, LenProperties
    <3> QED BY <3>1
  <2>4. its = used \/ its = a OBVIOUS
  <2> HIDE DEF its, a
  <2>5. CASE its = used BY <1>6, <2>1, <2>5
  <2>6. CASE its = a BY <1>6, <2>2, <2>3, <2>6
  <2> QED BY <2>4, <2>5, <2>6
<1> HIDE DEF its
<1>8. ended \in Turn /\ ended.items = said /\ ended.status = "completed" BY <1>5 DEF Turn, Statuses
<1>9. busy \in Turn /\ busy.items = its /\ busy.status = "inProgress" BY <1>7 DEF Turn, Statuses
<1> HIDE DEF ended, busy
<1>10. Written(1, ended) BY <1>2, <1>5, <1>8 DEF Written
<1>11. Written(2, busy) BY <1>2, <1>7, <1>9 DEF Written
<1>12. /\ hist \in Seq(Turn) /\ Len(hist) = 1 /\ DOMAIN hist = {1} /\ hist[1] = ended
       /\ turns \in Seq(Turn) /\ turns[1] = ended
       /\ \/ Len(turns) = 1 /\ DOMAIN turns = {1} /\ events = <<>>
          \/ /\ Len(turns) = 2 /\ DOMAIN turns = {1, 2} /\ turns[2] = busy /\ events = <<first, second>>
       /\ events \in Seq(Event)
  <2>1. hist \in Seq(Turn) /\ Len(hist) = 1 /\ DOMAIN hist = {1} /\ hist[1] = ended BY <1>1, <1>8
  <2>2. CASE mode = "polled"
    <3>1. turns = <<ended>> /\ events = <<>> BY <1>1, <2>2
    <3> QED BY <1>8, <2>1, <3>1, EmptySeq
  <2>3. CASE mode # "polled"
    <3>1. turns = <<ended, busy>> /\ events = <<first, second>> BY <1>1, <2>3
    <3>2. turns \in Seq(Turn) /\ Len(turns) = 2 /\ DOMAIN turns = {1, 2} /\ turns[1] = ended /\ turns[2] = busy
      BY <1>8, <1>9, <3>1
    <3>3. events \in Seq(Event) BY <1>3, <3>1
    <3> QED BY <2>1, <3>1, <3>2, <3>3
  <2> QED BY <2>2, <2>3
<1>13. /\ row \in Snapshot /\ row.turn = 1 /\ row.tool = NoItem /\ row.details = said
  <2>1. Blank \in Snapshot /\ <<1, "completed">> \in Nat \X Statuses BY RestingType DEF Statuses
  <2>2. row \in Snapshot BY <1>1, <1>5, <2>1 DEF Snapshot, Statuses
  <2> QED BY <1>1, <2>2, <2>1 DEF Snapshot, Blank
<1>14. \A l \in Loops : loop[l] = Resting BY <1>1
<1>15. "live" \in Loops /\ Resting.at = "idle" /\ Resting.event = <<>> BY DEF Loops, Resting
<1>16. SnapTypeOK
  <2>1. loop \in [Loops -> LoopState] BY <1>1, RestingType
  <2> QED BY <1>1, <1>12, <1>13, <2>1 DEF SnapTypeOK
<1>17. TurnsInv
  <2>1. Latest > 0 BY <1>12 DEF Latest
  <2>2. ASSUME NEW n \in DOMAIN turns PROVE Written(n, turns[n]) /\ (n # Latest => turns[n].status # "inProgress")
    <3>1. CASE n = 1 BY <1>8, <1>10, <1>12, <3>1 DEF Latest
    <3>2. CASE n # 1
      <4>1. n = 2 /\ Latest = 2 /\ turns[2] = busy BY <1>12, <3>2 DEF Latest
      <4> QED BY <1>11, <4>1
    <3> QED BY <3>1, <3>2
  <2> QED BY <2>1, <2>2 DEF TurnsInv
<1>18. HistInv BY <1>5, <1>8, <1>10, <1>12 DEF HistInv, Latest, Items
<1>19. Ahead = <<>> BY <1>14, <1>15 DEF Ahead
<1>20. EventsInv
  <2>1. \A e : Pending(e) => (e = first \/ e = second) /\ DOMAIN turns = {1, 2} /\ turns[2] = busy
    <3>1. CASE events = <<>> BY <1>19, <3>1 DEF Pending
    <3>2. CASE events = <<first, second>> /\ DOMAIN turns = {1, 2} /\ turns[2] = busy
      <4>1. DOMAIN events = {1, 2} /\ events[1] = first /\ events[2] = second BY <3>2
      <4> QED BY <1>19, <3>2, <4>1 DEF Pending
    <3> QED BY <1>12, <3>1, <3>2
  <2>2. \A e \in Event : Pending(e) => ToolOf(e.turn, e.tool)
    BY <1>2, <1>4, <1>7, <1>9, <2>1 DEF ToolOf, Tools, Items
  <2>3. \A i, j \in DOMAIN events : InOrder(events[i], events[j])
    BY <1>4, <2>1 DEF Pending, InOrder
  <2> QED BY <1>14, <1>15, <1>19, <2>2, <2>3 DEF EventsInv
<1>21. ReadInv /\ AloneInv BY <1>14, <1>15 DEF ReadInv, AloneInv, Waits, At
<1>22. RowInv
  <2>1. Once(row.details) BY <1>2, <1>5, <1>13 DEF Once
  <2>2. \A e \in Event : ~(e.tool < row.tool) BY <1>13 DEF Event, NoItem
  <2>3. Sound(row) BY <1>13, <2>1, <2>2 DEF Sound, LastTool
  <2> QED BY <1>14, <1>15, <2>3 DEF RowInv, Held, At
<1> QED BY <1>16, <1>17, <1>18, <1>20, <1>21, <1>22 DEF SnapInv

-----------------------------------------------------------------------------
(* The theorems                                                            *)

\* Every state is one of the invariant, the types with it.
THEOREM SnapshotsHold == SnapSpec => []SnapInv
<1>1. SnapInit => SnapInv BY InitHolds
<1>2. SnapInv /\ [SnapNext]_snapVars => SnapInv' BY SnapStep
<1> QED BY <1>1, <1>2, PTL DEF SnapSpec

\* What a read makes of a thread (SnapshotFromThreadRead) holds items of its turn only, in the order
\* they were written, and the details of the row list an item once, whatever reads and events were
\* merged (upsertLiveToolDetails).
THEOREM ItemsAreInOrder == SnapSpec => []ItemsInOrder
<1>1. SnapInv => ItemsInOrder
  <2> SUFFICES ASSUME SnapInv PROVE ItemsInOrder OBVIOUS
  <2>1. ReadsItsTurn
    <3> SUFFICES ASSUME NEW l \in Loops, At(l, "store"),
                        NEW j \in DOMAIN loop[l].read.details, NEW k \in DOMAIN loop[l].read.details
                 PROVE  LET items == loop[l].read.details IN
                        items[j].turn = loop[l].read.turn /\ (j < k => items[j].item < items[k].item)
      BY DEF ReadsItsTurn
    <3>1. loop[l].read \in Snapshot BY DEF SnapInv, SnapTypeOK, LoopState
    <3>2. Reads(loop[l].read) BY <3>1 DEF SnapInv, ReadInv, Waits
    <3> QED BY <3>2 DEF Reads, Follow
  <2>2. row \in Snapshot BY DEF SnapInv, SnapTypeOK
  <2>3. ListedOnce BY <2>2 DEF SnapInv, RowInv, Held, Sound, Once, ListedOnce
  <2> QED BY <2>1, <2>3 DEF ItemsInOrder
<1> QED BY <1>1, SnapshotsHold, PTL

LEMMA AnswerStored ==
  ASSUME SnapInv, NEW l \in Loops, Store(l), row'.final # NoItem
  PROVE  LET said == Items(row'.turn) IN
         turns[row'.turn].status = "completed" /\ row'.final = IdOf(said, LastOf(Spoken(said)))
<1> DEFINE read == loop[l].read  n == read.turn
<1>0. SnapTypeOK /\ TurnsInv /\ HistInv BY DEF SnapInv
<1>1. row'.turn = n /\ row'.final = Reconciled(read).final BY StoreFacts
<1>2. read \in Snapshot BY DEF SnapInv, SnapTypeOK, LoopState
<1>3. Reads(read) BY <1>2 DEF SnapInv, ReadInv, Waits, Store
<1>4. CASE n \notin DOMAIN hist
  <2>1. read.status # "interrupted"
    <3> SUFFICES ASSUME read.status = "interrupted" PROVE FALSE OBVIOUS
    <3>1. Reconciled(read) = [read EXCEPT !.status = "inProgress", !.final = NoItem] BY <1>4 DEF Reconciled
    <3>2. Reconciled(read).final = NoItem BY <1>2, <3>1 DEF Snapshot
    <3> QED BY <1>1, <3>2
  <2>2. Reconciled(read) = read BY <1>4, <2>1 DEF Reconciled
  <2> QED BY <1>1, <1>3, <1>4, <2>2 DEF Reads, AnswerOf
<1>5. CASE n \in DOMAIN hist
  <2> DEFINE stored == hist[n]  its == Items(n)  fin == LastOf(Finals(its))
             final == IF stored.status = "inProgress" THEN NoItem ELSE IdOf(stored.items, LastOf(Finals(stored.items)))
  <2>1. Reconciled(read) = [read EXCEPT !.status = stored.status, !.final = final] BY <1>5 DEF Reconciled
  <2>2. Reconciled(read).final = final
    <3> HIDE DEF final
    <3> QED BY <1>2, <2>1 DEF Snapshot
  <2>3. stored.status # "inProgress" BY <1>1, <2>2
  <2>4. n \in DOMAIN turns /\ stored = turns[n] /\ Written(n, turns[n])
    BY <1>0, <1>5, <2>3, HistoryFollows DEF HistInv, TurnsInv
  <2>5. row'.final = IdOf(its, fin) BY <1>1, <2>2, <2>3, <2>4 DEF Items
  <2>6. its \in Seq(Entry) /\ DOMAIN its = 1..Len(its) /\ Len(its) \in Nat BY <1>0, <2>4, TurnFacts
  <2>7. Finals(its) \in SUBSET DOMAIN its /\ Spoken(its) \in SUBSET (1..Len(its)) BY <2>6 DEF Finals, Spoken
  <2>8. fin \in Finals(its) BY <2>5, <2>6, <2>7, IdOfType
  <2>9. fin = Len(its) /\ turns[n].status = "completed" /\ fin \in Spoken(its)
    BY <2>4, <2>8 DEF Finals, Written, Items, Spoken
  <2>10. \A o \in Spoken(its) : o <= fin BY <2>6, <2>7, <2>9
  <2> HIDE DEF fin
  <2>11. LastOf(Spoken(its)) = fin BY <2>6, <2>7, <2>9, <2>10, LastOfIs
  <2> QED BY <1>1, <2>5, <2>9, <2>11
<1> QED BY <1>4, <1>5

LEMMA LateHarmless ==
  ASSUME SnapInv, PutTool, loop["live"].alone, row'.turn = row.turn
  PROVE  /\ row'.tool >= row.tool /\ (row'.tool = row.tool /\ row.done => row'.done)
         /\ row.final # NoItem /\ Terminal(row.status) => row' = row
<1>0. SnapTypeOK /\ EventsInv /\ row \in Snapshot BY DEF SnapInv, SnapTypeOK
<1>1. loop["live"].prev = row BY DEF SnapInv, AloneInv, PutTool
<1>2. row.tool \in Nat BY <1>0 DEF Snapshot
<1>3. CASE row' = row BY <1>2, <1>3
<1>4. CASE row' # row
  <2> DEFINE e == Head(Ahead)
  <2>1. /\ Ahead # <<>> /\ e \in Event /\ ~Stale(row, e) /\ row'.turn = e.turn /\ row'.tool = e.tool
        /\ row'.done = e.done
    BY <1>1, <1>4, PutToolFacts
  <2>2. Pending(e) BY <1>0, <2>1, AheadFacts
  <2> HIDE DEF e
  <2>3. Sound(row) BY <1>0 DEF SnapInv, RowInv, Held
  <2>4. ~(Terminal(row.status) /\ row.final # NoItem) /\ ~Older(row, e) /\ ~(row.tool = e.tool /\ row.done /\ ~e.done)
    BY <2>1 DEF Stale
  <2>5. ~(e.tool < row.tool)
    <3> SUFFICES ASSUME e.tool < row.tool PROVE Older(row, e) BY <2>4
    <3> DEFINE items == row.details  i == Place(items, e.turn, e.tool)  j == Place(items, row.turn, row.tool)
    <3>0. items \in Seq(Entry) BY <1>0 DEF Snapshot
    <3>1. Lists(items, e.turn, e.tool) BY <2>1, <2>2, <2>3 DEF Sound
    <3>2. i # NoItem /\ i \in DOMAIN items /\ items[i].kind = "tool" /\ items[i].turn = e.turn /\ items[i].item = e.tool
      BY <3>0, <3>1, PlaceFacts
    <3>3. row.tool # NoItem BY <1>2, <2>1 DEF NoItem, Event
    <3>4. PICK k \in Tools(items) :
            /\ items[k].turn = row.turn /\ items[k].item = row.tool
            /\ \A o \in Tools(items) : items[o].turn = row.turn => o <= k
      BY <2>3, <3>3 DEF Sound, LastTool
    <3>5. k \in DOMAIN items /\ Lists(items, row.turn, row.tool) BY <3>4 DEF Tools, Lists
    <3>6. j \in DOMAIN items /\ items[j].turn = row.turn /\ items[j].item = row.tool BY <3>0, <3>5, PlaceFacts
    <3>7. j = k BY <2>3, <3>4, <3>5, <3>6 DEF Sound, Once
    <3>8. i \in Tools(items) /\ i <= k BY <2>1, <3>2, <3>4 DEF Tools
    <3>9. i # j BY <1>2, <2>1, <3>2, <3>6 DEF Event
    <3>10. i \in Nat /\ j \in Nat BY <3>0, PlaceFacts
    <3> HIDE DEF i, j
    <3> QED BY <3>2, <3>7, <3>8, <3>9, <3>10 DEF Older, i, j
  <2>6. e.tool \in Nat /\ e.done \in BOOLEAN BY <2>1 DEF Event
  <2> QED BY <1>2, <2>1, <2>4, <2>5, <2>6
<1> QED BY <1>3, <1>4

\* No write makes the row say what is not so: the answer that is stored is the last thing said in a turn
\* that has completed (ApplyTurnResult), and a late event neither restarts a finished tool, nor puts an
\* earlier tool in the place of a later one, nor reopens an answered turn (applyLiveToolSnapshot).
THEOREM RowStaysRight == SnapSpec => RowIsRight
<1>1. SnapInv /\ [SnapNext]_snapVars =>
        [\A l \in Loops : (Store(l) /\ row'.final # NoItem) =>
           LET said == Items(row'.turn) IN
           turns[row'.turn].status = "completed" /\ row'.final = IdOf(said, LastOf(Spoken(said)))]_snapVars
  BY AnswerStored
<1>2. SnapInv /\ [SnapNext]_snapVars =>
        [(PutTool /\ loop["live"].alone /\ row'.turn = row.turn) =>
           /\ row'.tool >= row.tool /\ (row'.tool = row.tool /\ row.done => row'.done)
           /\ row.final # NoItem /\ Terminal(row.status) => row' = row]_snapVars
  BY LateHarmless
<1>3. SnapSpec => FinalIsFinal BY <1>1, SnapshotsHold, PTL DEF SnapSpec, FinalIsFinal
<1>4. SnapSpec => LateEventHarmless BY <1>2, SnapshotsHold, PTL DEF SnapSpec, LateEventHarmless
<1> QED BY <1>3, <1>4 DEF RowIsRight
=============================================================================
