---------------------------- MODULE ButtonsProofs -----------------------------
(***************************************************************************)
(* Proofs about what the buttons of a card reach.  Requests of the         *)
(* app-server, for any questions, presses, rebuilds, crashes and failed    *)
(* sends: a question gets one card for each session it is asked in, none   *)
(* is left unshown, and no row goes on offering the buttons of a question  *)
(* that was settled.  Details of a turn, for any number of turns, presses  *)
(* and cuts of the row: a card keeps its turn and gets its answer back.    *)
(***************************************************************************)
EXTENDS Approvals, Details, ListsProofs, FiniteSetTheorems, TLAPS

-----------------------------------------------------------------------------
(* The event loops                                                         *)

\* A loop at place p of the handling of r.
Doing(p, r) == [at |-> p, req |-> r]
Events == [kind : {"ask", "resolved"}, req : Requests]
\* Only the loops of sessions that were live have anything to do, and the first session is
\* connected until the second one starts.
LoopsInv == /\ \A s \in Sessions : loop[s] # Idle => s <= live
            /\ live = 1 => connected /\ rebuild = "no"
            /\ \A r \in Requests : open[r] \in {0, live} /\ (~connected => open[r] = 0)

LEMMA DoingIs ==
  /\ \A p, r : Doing(p, r).at = p /\ Doing(p, r).req = r
  /\ \A p \in LoopPlaces : \A r : Doing(p, r) # Idle
  /\ \A p, q, r, t : Doing(p, r) = Doing(q, t) => p = q /\ r = t
<1>1. \A p, r : Doing(p, r).at = p /\ Doing(p, r).req = r BY DEF Doing
<1>2. Idle.at = "idle" BY DEF Idle
<1> QED BY <1>1, <1>2 DEF LoopPlaces

\* Where a loop can be.
LEMMA LoopIs ==
  ASSUME TypeOK, NEW s \in Sessions
  PROVE  loop[s] = Idle \/ \E p \in LoopPlaces, r \in Requests : loop[s] = Doing(p, r)
<1>1. CASE loop[s] \in [at : LoopPlaces, req : Requests]
  <2>1. loop[s] = Doing(loop[s].at, loop[s].req) BY <1>1 DEF Doing
  <2> QED BY <1>1, <2>1
<1> QED BY <1>1 DEF TypeOK

\* One loop goes to another place.
Turns(s, next) == loop' = [loop EXCEPT ![s] = next]
LEMMA Turning ==
  ASSUME TypeOK, NEW s \in Sessions, NEW next \in {Idle} \cup [at : LoopPlaces, req : Requests], Turns(s, next)
  PROVE  /\ loop' \in [Sessions -> {Idle} \cup [at : LoopPlaces, req : Requests]]
         /\ loop'[s] = next /\ \A w \in Sessions \ {s} : loop'[w] = loop[w]
BY DEF TypeOK, Turns

LEMMA DoingTyped == \A p \in LoopPlaces, r \in Requests : Doing(p, r) \in [at : LoopPlaces, req : Requests]
BY DEF Doing

\* Each step of a loop, with the request it handles.
LEMMA LoopSteps ==
  ASSUME TypeOK, NEW s \in Sessions
  PROVE  /\ Save(s) => \E r \in Requests :
              loop[s] = Doing("save", r) /\ Turns(s, Doing("guard", r)) /\ status' = [status EXCEPT ![IdOf[r]] = "pending"]
         /\ Guard(s) => \E r \in Requests :
              /\ loop[s] = Doing("guard", r)
              /\ \/ cardKnown[IdOf[r]] /\ Turns(s, Idle)
                 \/ ~cardKnown[IdOf[r]] /\ Turns(s, Doing("send", r))
         /\ Send(s) => \E r \in Requests :
              /\ loop[s] = Doing("send", r)
              /\ \/ /\ Turns(s, Doing("record", r)) /\ cards' = [cards EXCEPT ![r] = @ + 1] /\ UNCHANGED <<fails, unsent>>
                 \/ /\ Turns(s, Idle) /\ fails' = fails + 1
                    /\ \/ unsent' = unsent \cup {r} /\ UNCHANGED cards
                       \/ cards' = [cards EXCEPT ![r] = @ + 1] /\ UNCHANGED unsent
         /\ Record(s) => \E r \in Requests :
              loop[s] = Doing("record", r) /\ Turns(s, Idle) /\ cardKnown' = [cardKnown EXCEPT ![IdOf[r]] = TRUE]
         /\ Resolve(s) => \E r \in Requests :
              loop[s] = Doing("resolve", r) /\ Turns(s, Idle) /\ status' = AfterResolved(IdOf[r])
<1> DEFINE r == loop[s].req
<1>1. ASSUME NEW p \in LoopPlaces, loop[s].at = p PROVE r \in Requests /\ loop[s] = Doing(p, r)
  <2>1. loop[s] # Idle BY <1>1 DEF LoopPlaces, Idle
  <2>2. loop[s] \in [at : LoopPlaces, req : Requests] BY <2>1 DEF TypeOK
  <2> QED BY <1>1, <2>2 DEF Doing
<1>2. ASSUME NEW p \in LoopPlaces, NEW q \in LoopPlaces, loop[s].at = p
      PROVE  [loop[s] EXCEPT !.at = q] = Doing(q, r)
  <2>1. loop[s] = Doing(p, r) BY <1>2, <1>1
  <2> QED BY <2>1 DEF Doing
<1>3. ASSUME NEW q PROVE [loop EXCEPT ![s].at = q] = [loop EXCEPT ![s] = [loop[s] EXCEPT !.at = q]]
  OBVIOUS
<1> HIDE DEF r
<1>4. ASSUME Save(s) PROVE \E x \in Requests :
        loop[s] = Doing("save", x) /\ Turns(s, Doing("guard", x)) /\ status' = [status EXCEPT ![IdOf[x]] = "pending"]
  <2>1. r \in Requests /\ loop[s] = Doing("save", r) BY <1>4, <1>1 DEF Save, LoopPlaces
  <2>2. Turns(s, Doing("guard", r)) BY <1>4, <1>2, <1>3 DEF Save, LoopPlaces, Turns
  <2>3. status' = [status EXCEPT ![IdOf[r]] = "pending"] BY <1>4 DEF Save, AfterSave, r
  <2> QED BY <2>1, <2>2, <2>3
<1>5. ASSUME Guard(s) PROVE \E x \in Requests :
        /\ loop[s] = Doing("guard", x)
        /\ \/ cardKnown[IdOf[x]] /\ Turns(s, Idle)
           \/ ~cardKnown[IdOf[x]] /\ Turns(s, Doing("send", x))
  <2>1. r \in Requests /\ loop[s] = Doing("guard", r) BY <1>5, <1>1 DEF Guard, LoopPlaces
  <2>2. [loop[s] EXCEPT !.at = "send"] = Doing("send", r) BY <1>5, <1>2 DEF Guard, LoopPlaces
  <2>3. loop' = [loop EXCEPT ![s] = IF CardSent(IdOf[r]) THEN Idle ELSE [loop[s] EXCEPT !.at = "send"]]
    BY <1>5 DEF Guard, r
  <2> QED BY <2>1, <2>2, <2>3 DEF CardSent, Turns
<1>6. ASSUME Send(s) PROVE \E x \in Requests :
        /\ loop[s] = Doing("send", x)
        /\ \/ /\ Turns(s, Doing("record", x)) /\ cards' = [cards EXCEPT ![x] = @ + 1] /\ UNCHANGED <<fails, unsent>>
           \/ /\ Turns(s, Idle) /\ fails' = fails + 1
              /\ \/ unsent' = unsent \cup {x} /\ UNCHANGED cards
                 \/ cards' = [cards EXCEPT ![x] = @ + 1] /\ UNCHANGED unsent
  <2>1. r \in Requests /\ loop[s] = Doing("send", r) BY <1>6, <1>1 DEF Send, LoopPlaces
  <2>2. loop' = [loop EXCEPT ![s].at = "record"] => Turns(s, Doing("record", r))
    BY <1>6, <1>2, <1>3 DEF Send, LoopPlaces, Turns
  <2> QED BY <1>6, <2>1, <2>2 DEF Send, Turns, r
<1>7. ASSUME Record(s) PROVE \E x \in Requests :
        loop[s] = Doing("record", x) /\ Turns(s, Idle) /\ cardKnown' = [cardKnown EXCEPT ![IdOf[x]] = TRUE]
  <2>1. r \in Requests /\ loop[s] = Doing("record", r) BY <1>7, <1>1 DEF Record, LoopPlaces
  <2> QED BY <1>7, <2>1 DEF Record, Turns, r
<1>8. ASSUME Resolve(s) PROVE \E x \in Requests :
        loop[s] = Doing("resolve", x) /\ Turns(s, Idle) /\ status' = AfterResolved(IdOf[x])
  <2>1. r \in Requests /\ loop[s] = Doing("resolve", r) BY <1>8, <1>1 DEF Resolve, LoopPlaces
  <2> QED BY <1>8, <2>1 DEF Resolve, Turns, r
<1> QED BY <1>4, <1>5, <1>6, <1>7, <1>8

-----------------------------------------------------------------------------
(* Types                                                                   *)

LEMMA Broadcasting ==
  ASSUME TypeOK, NEW s \in Sessions, NEW kind \in {"ask", "resolved"}, NEW r \in Requests, Broadcast(s, kind, r)
  PROVE  /\ channel' \in [Sessions -> Seq(Events)] /\ dropped' \in BOOLEAN
         /\ ~dropped' => ~dropped /\ channel' = [channel EXCEPT ![s] = Append(@, [kind |-> kind, req |-> r])]
<1>1. [kind |-> kind, req |-> r] \in Events BY DEF Events
<1>2. channel \in [Sessions -> Seq(Events)] BY DEF TypeOK, Events
<1>3. CASE Len(channel[s]) < ChannelCap
  <2>1. channel' = [channel EXCEPT ![s] = Append(@, [kind |-> kind, req |-> r])] /\ dropped' = dropped
    BY <1>3 DEF Broadcast
  <2>2. channel' \in [Sessions -> Seq(Events)] BY <1>1, <1>2, <2>1
  <2>3. dropped' \in BOOLEAN /\ (~dropped' => ~dropped) BY <2>1, Zenon DEF TypeOK
  <2> QED BY <2>1, <2>2, <2>3
<1>4. CASE ~(Len(channel[s]) < ChannelCap)
  <2>1. dropped' = TRUE /\ channel' = channel BY <1>4 DEF Broadcast
  <2> QED BY <1>2, <2>1
<1> QED BY <1>3, <1>4

PressStates == {Idle} \cup [at : {"read", "update"}, req : Requests, dec : Decisions]
                      \cup [at : {"respond"}, req : Requests, dec : Decisions, sess : Sessions]
LEMMA PressFields ==
  ASSUME TypeOK, NEW p \in Pressers
  PROVE  /\ press \in [Pressers -> PressStates]
         /\ press[p].at \in {"read", "update"} => press[p].req \in Requests /\ press[p].dec \in Decisions
         /\ press[p].at = "respond" => /\ press[p].req \in Requests /\ press[p].dec \in Decisions
                                       /\ press[p].sess \in Sessions
<1>1. press \in [Pressers -> PressStates] BY DEF TypeOK, PressStates
<1>2. CASE press[p] = Idle BY <1>1, <1>2 DEF Idle
<1>3. CASE press[p] \in [at : {"read", "update"}, req : Requests, dec : Decisions] BY <1>1, <1>3
<1>4. CASE press[p] \in [at : {"respond"}, req : Requests, dec : Decisions, sess : Sessions] BY <1>1, <1>4
<1> QED BY <1>1, <1>2, <1>3, <1>4 DEF PressStates

LEMMA AnswerTyped ==
  ASSUME TypeOK, NEW r \in Requests, NEW s \in Sessions, NEW d \in Decisions, Settle(r, s, d)
  PROVE  /\ open' \in [Requests -> Sessions \cup {0}] /\ answer' \in [Requests -> Decisions \cup {NoDecision}]
         /\ channel' \in [Sessions -> Seq(Events)] /\ dropped' \in BOOLEAN
<1>1. channel' \in [Sessions -> Seq(Events)] /\ dropped' \in BOOLEAN
  <2>1. Broadcast(s, "resolved", r) BY DEF Settle
  <2> QED BY <2>1, Broadcasting
<1>2. open' \in [Requests -> Sessions \cup {0}] BY DEF TypeOK, Settle
<1>3. answer' \in [Requests -> Decisions \cup {NoDecision}] BY DEF TypeOK, Settle
<1> QED BY <1>1, <1>2, <1>3

LEMMA ResolvedTyped ==
  ASSUME TypeOK, NEW i \in Ids, status' = AfterResolved(i)
  PROVE  status' \in [Ids -> Statuses]
BY DEF TypeOK, AfterResolved, Statuses

LEMMA NextSessionTyped ==
  ASSUME TypeOK, NextSession
  PROVE  /\ live' \in Sessions /\ live' = live + 1 /\ live' # 1 /\ open' \in [Requests -> Sessions \cup {0}]
         /\ connected' = FALSE
BY RequestsAssumption DEF TypeOK, NextSession, Sessions

LEMMA TypeStep == TypeOK /\ [Next]_vars => TypeOK'
<1> SUFFICES ASSUME TypeOK, [Next]_vars PROVE TypeOK'
  OBVIOUS
<1> USE RequestsAssumption
<1>0. CASE UNCHANGED vars
  BY <1>0 DEF TypeOK, vars, rowVars, sessVars, askVars
<1>1. ASSUME NEW r \in Requests, Ask(r) PROVE TypeOK'
  <2>1. Broadcast(live, "ask", r) /\ live \in Sessions BY <1>1 DEF Ask, TypeOK
  <2>2. channel' \in [Sessions -> Seq(Events)] /\ dropped' \in BOOLEAN BY <2>1, Broadcasting
  <2>3. open' \in [Requests -> Sessions \cup {0}] /\ asks' \in Nat BY <1>1 DEF Ask, TypeOK
  <2> QED BY <1>1, <2>2, <2>3 DEF Ask, TypeOK, Events, rowVars, sessVars
<1>2. ASSUME NEW r \in Requests, SettledElsewhere(r) PROVE TypeOK'
  <2>1. PICK d \in Decisions : Settle(r, live, d) BY <1>2 DEF SettledElsewhere
  <2>2. live \in Sessions BY DEF TypeOK
  <2> QED BY <1>2, <2>1, <2>2, AnswerTyped DEF SettledElsewhere, TypeOK, Events, rowVars, sessVars
<1>3. ASSUME NEW s \in Sessions, LoopStep(s) PROVE TypeOK'
  <2>1. CASE Take(s)
    <3>1. channel \in [Sessions -> Seq(Events)] /\ channel[s] # <<>> BY <2>1 DEF Take, TypeOK, Events
    <3>2. Head(channel[s]) \in Events /\ Tail(channel[s]) \in Seq(Events) BY <3>1
    <3>3. channel' = [channel EXCEPT ![s] = Tail(@)] \/ channel' = [channel EXCEPT ![s] = <<>>]
      BY <2>1 DEF Take
    <3>5. <<>> \in Seq(Events) OBVIOUS
    <3>6. channel' \in [Sessions -> Seq(Events)] BY <3>1, <3>2, <3>3, <3>5
    <3>4. loop' \in [Sessions -> {Idle} \cup [at : LoopPlaces, req : Requests]]
      <4>1. CASE s = live /\ connected
        <5> DEFINE next == [at |-> IF Head(channel[s]).kind = "ask" THEN "save" ELSE "resolve", req |-> Head(channel[s]).req]
        <5>1. next \in [at : LoopPlaces, req : Requests] BY <3>2 DEF Events, LoopPlaces
        <5>2. Turns(s, next) BY <2>1, <4>1 DEF Take, Turns
        <5> HIDE DEF next
        <5> QED BY <5>1, <5>2, Turning
      <4>2. CASE ~(s = live /\ connected) BY <2>1, <4>2 DEF Take, TypeOK
      <4> QED BY <4>1, <4>2
    <3> QED BY <2>1, <3>4, <3>6 DEF Take, TypeOK, Events, rowVars, sessVars, askVars
  <2>2. CASE Save(s)
    <3>1. PICK r \in Requests : Turns(s, Doing("guard", r)) /\ status' = [status EXCEPT ![IdOf[r]] = "pending"]
      BY <2>2, LoopSteps
    <3>2. loop' \in [Sessions -> {Idle} \cup [at : LoopPlaces, req : Requests]]
      BY <3>1, Turning, DoingTyped DEF LoopPlaces
    <3>3. status' \in [Ids -> Statuses] /\ decided' \in [Ids -> Decisions \cup {NoDecision}]
      BY <2>2, <3>1 DEF Save, TypeOK, Statuses
    <3> QED BY <2>2, <3>2, <3>3 DEF Save, TypeOK, sessVars, askVars
  <2>3. CASE Guard(s)
    <3>1. loop' \in [Sessions -> {Idle} \cup [at : LoopPlaces, req : Requests]]
      BY <2>3, LoopSteps, Turning, DoingTyped DEF LoopPlaces
    <3> QED BY <2>3, <3>1 DEF Guard, TypeOK, rowVars, sessVars, askVars
  <2>4. CASE Send(s)
    <3>1. loop' \in [Sessions -> {Idle} \cup [at : LoopPlaces, req : Requests]]
      BY <2>4, LoopSteps, Turning, DoingTyped DEF LoopPlaces
    <3>2. PICK r \in Requests : \/ cards' = [cards EXCEPT ![r] = @ + 1] /\ UNCHANGED <<fails, unsent>>
                                \/ /\ fails' = fails + 1
                                   /\ \/ unsent' = unsent \cup {r} /\ UNCHANGED cards
                                      \/ cards' = [cards EXCEPT ![r] = @ + 1] /\ UNCHANGED unsent
      BY <2>4, LoopSteps
    <3>3. cards' \in [Requests -> Nat] /\ fails' \in Nat /\ unsent' \subseteq Requests 
      <4>1. cards \in [Requests -> Nat] /\ fails \in Nat /\ unsent \subseteq Requests BY DEF TypeOK
      <4>2. [cards EXCEPT ![r] = @ + 1] \in [Requests -> Nat] BY <4>1
      <4> QED BY <3>2, <4>1, <4>2
    <3> QED BY <2>4, <3>1, <3>3 DEF Send, TypeOK, rowVars, sessVars, askVars
  <2>5. CASE Record(s)
    <3>1. loop' \in [Sessions -> {Idle} \cup [at : LoopPlaces, req : Requests]] BY <2>5, LoopSteps, Turning
    <3>2. cardKnown' \in [Ids -> BOOLEAN] BY <2>5 DEF Record, TypeOK
    <3> QED BY <2>5, <3>1, <3>2 DEF Record, TypeOK, sessVars, askVars
  <2>6. CASE Resolve(s)
    <3>1. PICK r \in Requests : Turns(s, Idle) /\ status' = AfterResolved(IdOf[r]) BY <2>6, LoopSteps
    <3>2. loop' \in [Sessions -> {Idle} \cup [at : LoopPlaces, req : Requests]] BY <3>1, Turning
    <3>3. status' \in [Ids -> Statuses] BY <3>1, ResolvedTyped
    <3>4. decided' \in [Ids -> Decisions \cup {NoDecision}] BY <2>6 DEF Resolve, TypeOK
    <3> QED BY <2>6, <3>2, <3>3, <3>4 DEF Resolve, TypeOK, sessVars, askVars
  <2> QED BY <1>3, <2>1, <2>2, <2>3, <2>4, <2>5, <2>6 DEF LoopStep
<1>4. ASSUME NEW p \in Pressers, PressStep(p) PROVE TypeOK'
  <2>0. press \in [Pressers -> PressStates] BY PressFields
  <2>1. CASE Press(p)
    <3>1. PICK r \in Requests, d \in Decisions : press' = [press EXCEPT ![p] = [at |-> "read", req |-> r, dec |-> d]]
      BY <2>1 DEF Press
    <3>2. [at |-> "read", req |-> r, dec |-> d] \in PressStates BY DEF PressStates
    <3>3. press' \in [Pressers -> PressStates] BY <2>0, <3>1, <3>2
    <3> QED BY <2>1, <3>3 DEF Press, TypeOK, PressStates, rowVars, sessVars, askVars
  <2>2. CASE TakeSession(p)
    <3> DEFINE next == IF connected THEN [at |-> "respond", req |-> press[p].req, dec |-> press[p].dec, sess |-> live] ELSE Idle
    <3>1. press' = [press EXCEPT ![p] = next] BY <2>2 DEF TakeSession
    <3>2. live \in Sessions /\ press[p].req \in Requests /\ press[p].dec \in Decisions
      BY <2>2, PressFields DEF TakeSession, TypeOK
    <3>3. next \in PressStates BY <3>2 DEF PressStates
    <3> HIDE DEF next
    <3>4. press' \in [Pressers -> PressStates] BY <2>0, <3>1, <3>3
    <3> QED BY <2>2, <3>4 DEF TakeSession, TypeOK, PressStates, rowVars, sessVars, askVars
  <2>3. CASE Respond(p)
    <3>1. press[p].req \in Requests /\ press[p].dec \in Decisions /\ press[p].sess \in Sessions
      BY <2>3, PressFields DEF Respond
    <3>2. press' \in [Pressers -> PressStates]
      <4>1. [at |-> "update", req |-> press[p].req, dec |-> press[p].dec] \in PressStates /\ Idle \in PressStates
        BY <3>1 DEF PressStates
      <4> QED BY <2>0, <2>3, <4>1 DEF Respond
    <3>3. /\ open' \in [Requests -> Sessions \cup {0}] /\ answer' \in [Requests -> Decisions \cup {NoDecision}]
          /\ channel' \in [Sessions -> Seq(Events)] /\ dropped' \in BOOLEAN
      <4>1. CASE UNCHANGED <<open, answer, channel, dropped>> BY <4>1 DEF TypeOK, Events
      <4>2. CASE \E r \in Requests : Settle(r, press[p].sess, press[p].dec) BY <3>1, <4>2, AnswerTyped
      <4> QED BY <2>3, <4>1, <4>2 DEF Respond
    <3> QED BY <2>3, <3>2, <3>3 DEF Respond, TypeOK, PressStates, Events, rowVars, sessVars
  <2>4. CASE Update(p)
    <3>1. press[p].req \in Requests /\ press[p].dec \in Decisions BY <2>4, PressFields DEF Update
    <3>2. IdOf[press[p].req] \in Ids BY <3>1
    <3>3. status' \in [Ids -> Statuses] BY <2>4, <3>2, ResolvedTyped DEF Update
    <3>4. decided' \in [Ids -> Decisions \cup {NoDecision}] BY <2>4, <3>1 DEF Update, TypeOK
    <3>5. press' \in [Pressers -> PressStates] BY <2>0, <2>4 DEF Update, PressStates
    <3> QED BY <2>4, <3>3, <3>4, <3>5 DEF Update, TypeOK, PressStates, sessVars, askVars
  <2> QED BY <1>4, <2>1, <2>2, <2>3, <2>4 DEF PressStep
<1>5. CASE Replace
  BY <1>5, NextSessionTyped DEF Replace, TypeOK, rowVars
<1>6. CASE MarkAllPendingApprovals
  <2>1. status' \in [Ids -> Statuses] BY <1>6 DEF MarkAllPendingApprovals, TypeOK, Statuses
  <2> QED BY <1>6, <2>1 DEF MarkAllPendingApprovals, TypeOK, askVars
<1>7. CASE Restarted
  BY <1>7 DEF Restarted, TypeOK, rowVars, askVars
<1>8. CASE Crash
  <2>1. /\ live' \in Sessions /\ open' \in [Requests -> Sessions \cup {0}] /\ connected' = FALSE
    BY <1>8, NextSessionTyped DEF Crash
  <2>2. crashes' \in Nat BY <1>8 DEF Crash, TypeOK
  <2>3. channel' \in [Sessions -> Seq(Events)]
    <3>1. <<>> \in Seq(Events) OBVIOUS
    <3> QED BY <1>8, <3>1 DEF Crash
  <2>4. loop' = [s \in Sessions |-> Idle] /\ press' = [p \in Pressers |-> Idle] BY <1>8 DEF Crash
  <2> QED BY <1>8, <2>1, <2>2, <2>3, <2>4 DEF Crash, TypeOK, Events, rowVars
<1> QED BY <1>0, <1>1, <1>2, <1>3, <1>4, <1>5, <1>6, <1>7, <1>8 DEF Next

LEMMA TypeInit == Init => TypeOK
<1> SUFFICES ASSUME Init PROVE TypeOK
  OBVIOUS
<1>1. <<>> \in Seq([kind : {"ask", "resolved"}, req : Requests]) OBVIOUS
<1>2. channel \in [Sessions -> Seq([kind : {"ask", "resolved"}, req : Requests])] BY <1>1 DEF Init
<1>3. live \in Sessions BY RequestsAssumption DEF Init, Sessions
<1>4. loop = [s \in Sessions |-> Idle] /\ press = [p \in Pressers |-> Idle] BY DEF Init
<1> QED BY <1>2, <1>3, <1>4 DEF Init, TypeOK, Statuses

\* Type correctness of the requests, for any sessions, channel capacity, crashes and failures.
THEOREM RequestsTyped == Spec => []TypeOK
BY TypeInit, TypeStep, PTL DEF Spec

LEMMA LoopsStep == TypeOK /\ TypeOK' /\ LoopsInv /\ [Next]_vars => LoopsInv'
<1> SUFFICES ASSUME TypeOK, TypeOK', LoopsInv, [Next]_vars PROVE LoopsInv'
  OBVIOUS
<1> DEFINE Mine == \A s \in Sessions : loop[s] # Idle => s <= live
           First == live = 1 => connected /\ rebuild = "no"
           Waits == \A r \in Requests : open[r] \in {0, live} /\ (~connected => open[r] = 0)
<1>0. Mine /\ First /\ Waits /\ live \in Sessions /\ live \in Nat BY DEF LoopsInv, TypeOK, Sessions
<1> HIDE DEF Mine, First, Waits
<1>a. LoopsInv' <=> Mine' /\ First' /\ Waits' BY DEF LoopsInv, Mine, First, Waits
<1>b. UNCHANGED <<loop, live>> => Mine' BY <1>0 DEF Mine
<1>c. ASSUME UNCHANGED <<live, connected, rebuild>> PROVE First'
  <2>1. live' = live /\ connected' = connected /\ rebuild' = rebuild BY <1>c
  <2>2. live = 1 => connected /\ rebuild = "no" BY <1>0 DEF First
  <2>3. live' = 1 => connected' /\ rebuild' = "no" BY <2>1, <2>2, Zenon
  <2> QED BY <2>3 DEF First
<1>d. ASSUME UNCHANGED <<live, connected, open>> PROVE Waits'
  <2>1. live' = live /\ connected' = connected /\ open' = open BY <1>d
  <2>2. \A r \in Requests : open[r] \in {0, live} /\ (~connected => open[r] = 0) BY <1>0 DEF Waits
  <2>3. \A r \in Requests : open'[r] \in {0, live'} /\ (~connected' => open'[r] = 0) BY <2>1, <2>2, Zenon
  <2> QED BY <2>3 DEF Waits
<1>e. ASSUME NEW r \in Requests, NEW s \in Sessions, NEW d \in Decisions, Settle(r, s, d), UNCHANGED <<live, connected>>
      PROVE  Waits'
  <2>1. open' = [open EXCEPT ![r] = 0] BY <1>e DEF Settle
  <2>2. ASSUME NEW q \in Requests PROVE open'[q] \in {0, open[q]} BY <2>1 DEF TypeOK
  <2>3. ASSUME NEW q \in Requests PROVE open[q] \in {0, live} /\ (~connected => open[q] = 0) BY <1>0 DEF Waits
  <2> QED BY <1>e, <2>2, <2>3 DEF Waits
<1>f. ASSUME NextSession PROVE First' /\ Waits'
  <2>1. live' # 1 /\ open' = [q \in Requests |-> 0] BY <1>f, NextSessionTyped DEF NextSession
  <2> QED BY <2>1 DEF First, Waits
<1>1. CASE UNCHANGED vars
  BY <1>1, <1>a, <1>b, <1>c, <1>d DEF vars, rowVars, sessVars, askVars
<1>2. ASSUME NEW r \in Requests, Ask(r) PROVE LoopsInv'
  <2>1. UNCHANGED <<loop, live, connected, rebuild>> BY <1>2 DEF Ask, sessVars
  <2>2. Waits'
    <3>1. connected /\ open' = [open EXCEPT ![r] = live] BY <1>2 DEF Ask
    <3>2. ASSUME NEW q \in Requests PROVE open'[q] \in {live, open[q]} BY <3>1 DEF TypeOK
    <3>3. ASSUME NEW q \in Requests PROVE open[q] \in {0, live} BY <1>0 DEF Waits
    <3> QED BY <2>1, <3>1, <3>2, <3>3 DEF Waits
  <2> QED BY <1>a, <1>b, <1>c, <2>1, <2>2
<1>3. ASSUME NEW r \in Requests, SettledElsewhere(r) PROVE LoopsInv'
  <2>1. UNCHANGED <<loop, live, connected, rebuild>> BY <1>3 DEF SettledElsewhere, sessVars
  <2>2. PICK d \in Decisions : Settle(r, live, d) BY <1>3 DEF SettledElsewhere
  <2> QED BY <1>0, <1>a, <1>b, <1>c, <1>e, <2>1, <2>2
<1>4. ASSUME NEW s \in Sessions, LoopStep(s) PROVE LoopsInv'
  <2>1. UNCHANGED <<live, connected, rebuild, open>>
    BY <1>4 DEF LoopStep, Take, Save, Guard, Send, Record, Resolve, sessVars, askVars
  <2>2. Mine'
    <3>1. CASE Take(s) /\ s = live /\ connected
      <4>1. \A w \in Sessions \ {s} : loop'[w] = loop[w] BY <3>1 DEF Take, TypeOK
      <4> QED BY <1>0, <2>1, <3>1, <4>1 DEF Mine
    <3>2. CASE Take(s) /\ ~(s = live /\ connected)
      BY <1>b, <2>1, <3>2 DEF Take
    <3>3. CASE ~Take(s)
      <4>1. loop[s] # Idle /\ \E next \in {Idle} \cup [at : LoopPlaces, req : Requests] : Turns(s, next)
        BY <1>4, <3>3, LoopSteps, DoingIs, DoingTyped DEF LoopStep, LoopPlaces
      <4>2. \A w \in Sessions \ {s} : loop'[w] = loop[w] BY <4>1, Turning
      <4> QED BY <1>0, <2>1, <4>1, <4>2 DEF Mine
    <3> QED BY <3>1, <3>2, <3>3
  <2> QED BY <1>a, <1>c, <1>d, <2>1, <2>2
<1>5. ASSUME NEW p \in Pressers, PressStep(p) PROVE LoopsInv'
  <2>1. UNCHANGED <<loop, live, connected, rebuild>>
    BY <1>5 DEF PressStep, Press, TakeSession, Respond, Update, sessVars
  <2>2. Waits'
    <3>1. CASE ~Respond(p)
      BY <1>5, <3>1, <1>d DEF PressStep, Press, TakeSession, Update, sessVars, askVars
    <3>2. CASE Respond(p)
      <4>1. press[p].dec \in Decisions /\ press[p].sess \in Sessions BY <3>2, PressFields DEF Respond
      <4>2. CASE UNCHANGED <<open, answer, channel, dropped>> BY <1>d, <2>1, <4>2
      <4>3. CASE \E r \in Requests : Settle(r, press[p].sess, press[p].dec) BY <1>e, <2>1, <4>1, <4>3
      <4> QED BY <3>2, <4>2, <4>3 DEF Respond
    <3> QED BY <3>1, <3>2
  <2> QED BY <1>a, <1>b, <1>c, <2>1, <2>2
<1>6. CASE Replace
  <2>1. NextSession /\ loop' = loop BY <1>6 DEF Replace
  <2>2. live' = live + 1 BY <2>1 DEF NextSession
  <2>3. Mine' BY <1>0, <2>1, <2>2 DEF Mine, Sessions
  <2> QED BY <1>a, <1>f, <2>1, <2>3
<1>7. CASE MarkAllPendingApprovals
  <2>1. UNCHANGED <<loop, live, connected, open>> /\ rebuild = "mark"
    BY <1>7 DEF MarkAllPendingApprovals, askVars
  <2>2. First' BY <1>0, <2>1 DEF First
  <2> QED BY <1>a, <1>b, <1>d, <2>1, <2>2
<1>8. CASE Restarted
  <2>1. UNCHANGED <<loop, live, open>> /\ connected' = TRUE /\ rebuild = "start" BY <1>8 DEF Restarted, askVars
  <2>2. First' /\ Waits' BY <1>0, <2>1 DEF First, Waits
  <2> QED BY <1>a, <1>b, <2>1, <2>2
<1>9. CASE Crash
  <2>1. NextSession /\ loop' = [s \in Sessions |-> Idle] BY <1>9 DEF Crash
  <2>2. Mine' BY <2>1 DEF Mine
  <2> QED BY <1>a, <1>f, <2>1, <2>2
<1> QED BY <1>1, <1>2, <1>3, <1>4, <1>5, <1>6, <1>7, <1>8, <1>9 DEF Next

LEMMA LoopsInit == Init => LoopsInv
BY RequestsAssumption DEF Init, LoopsInv, Sessions

-----------------------------------------------------------------------------
(* One card                                                                *)

\* A session that may still send the card of r: an older one has to be on its way to that already,
\* the live one may get the question yet; once a card is recorded nobody starts.
MaySend(s, r) ==
  IF cardKnown[IdOf[r]] THEN loop[s] = Doing("send", r)
  ELSE IF s = live THEN loop[s] # Doing("record", r)
  ELSE \E p \in {"save", "guard", "send"} : loop[s] = Doing(p, r)
Senders(r) == {s \in 1..live : MaySend(s, r)}
\* Each session and each failure pays for one card, sent or still possible.
RoomFor(r) == cards[r] + Cardinality(Senders(r)) <= live + fails
CardsInv == \A r \in Requests : RoomFor(r)

LEMMA FewSenders ==
  ASSUME TypeOK, NEW r \in Requests
  PROVE  IsFiniteSet(Senders(r)) /\ Cardinality(Senders(r)) \in Nat
<1>1. live \in Nat BY DEF TypeOK, Sessions
<1>2. IsFiniteSet(1..live) BY <1>1, FS_Interval
<1>3. IsFiniteSet(Senders(r)) BY <1>2, FS_Subset DEF Senders
<1> QED BY <1>3, FS_CardinalityType

\* What a step may do to the sets of senders.
LEMMA Changes ==
  ASSUME NEW S, IsFiniteSet(S), NEW T
  PROVE  /\ T \subseteq S => Cardinality(T) <= Cardinality(S)
         /\ \A x : T \subseteq S \cup {x} => Cardinality(T) <= Cardinality(S) + 1
         /\ \A x \in S : T \subseteq S \ {x} => Cardinality(T) <= Cardinality(S) - 1
<1>0. Cardinality(S) \in Nat BY FS_CardinalityType
<1>1. T \subseteq S => Cardinality(T) <= Cardinality(S) BY FS_Subset
<1>2. ASSUME NEW x, T \subseteq S \cup {x} PROVE Cardinality(T) <= Cardinality(S) + 1
  <2>1. IsFiniteSet(S \cup {x}) /\ Cardinality(S \cup {x}) <= Cardinality(S) + 1 BY <1>0, FS_AddElement
  <2>2. Cardinality(T) <= Cardinality(S \cup {x}) /\ IsFiniteSet(T) BY <1>2, <2>1, FS_Subset
  <2>3. Cardinality(T) \in Nat /\ Cardinality(S \cup {x}) \in Nat BY <2>1, <2>2, FS_CardinalityType
  <2> QED BY <1>0, <2>1, <2>2, <2>3
<1>3. ASSUME NEW x \in S, T \subseteq S \ {x} PROVE Cardinality(T) <= Cardinality(S) - 1
  <2>1. IsFiniteSet(S \ {x}) /\ Cardinality(S \ {x}) = Cardinality(S) - 1 BY <1>0, FS_RemoveElement
  <2> QED BY <1>3, <2>1, FS_Subset
<1> QED BY <1>1, <1>2, <1>3

LEMMA CardsStep == TypeOK /\ TypeOK' /\ LoopsInv /\ CardsInv /\ [Next]_vars => CardsInv'
<1> SUFFICES ASSUME TypeOK, TypeOK', LoopsInv, CardsInv, [Next]_vars, NEW r \in Requests
             PROVE  RoomFor(r)'
  BY DEF CardsInv
<1> USE RequestsAssumption
<1> DEFINE S == Senders(r)
           T == S'
<1>0. /\ IsFiniteSet(S) /\ Cardinality(S) \in Nat /\ Cardinality(T) \in Nat
      /\ cards[r] \in Nat /\ live \in Nat /\ live \in Sessions /\ fails \in Nat /\ IdOf[r] \in Ids
      /\ cards[r] + Cardinality(S) <= live + fails
  <2>1. IsFiniteSet(S) /\ Cardinality(S) \in Nat BY FewSenders
  <2>2. (IsFiniteSet(Senders(r)) /\ Cardinality(Senders(r)) \in Nat)' BY FewSenders, PTL
  <2> QED BY <2>1, <2>2 DEF TypeOK, Sessions, CardsInv, RoomFor
<1>S. \A s : s \in S <=> s \in 1..live /\ MaySend(s, r) BY DEF Senders
<1>T. \A s : s \in T <=> s \in 1..live' /\ MaySend(s, r)' BY DEF Senders
<1>U. 1..live \subseteq Sessions /\ 1..live' \subseteq Sessions BY DEF TypeOK, Sessions
<1> HIDE DEF S, T
\* What has to be shown of a step.
<1>a. ASSUME T \subseteq S, cards'[r] = cards[r], live' = live, fails' \in Nat, fails' >= fails PROVE RoomFor(r)'
  <2>1. Cardinality(T) <= Cardinality(S) BY <1>0, <1>a, Changes
  <2>2. cards'[r] + Cardinality(T) <= live' + fails' BY <1>0, <1>a, <2>1
  <2> QED BY <2>2 DEF RoomFor, S, T
<1>b. ASSUME UNCHANGED <<loop, live, cardKnown, cards, fails>> PROVE RoomFor(r)'
  <2>1. T = S BY <1>S, <1>T, <1>b DEF MaySend
  <2> QED BY <1>0, <1>a, <1>b, <2>1
<1>1. CASE UNCHANGED vars BY <1>1, <1>b DEF vars, rowVars, sessVars
<1>2. ASSUME NEW q \in Requests, Ask(q) PROVE RoomFor(r)'
  BY <1>2, <1>b DEF Ask, rowVars, sessVars
<1>3. ASSUME NEW q \in Requests, SettledElsewhere(q) PROVE RoomFor(r)'
  BY <1>3, <1>b DEF SettledElsewhere, rowVars, sessVars
<1>4. ASSUME NEW s \in Sessions, LoopStep(s) PROVE RoomFor(r)'
  <2>0. live' = live BY <1>4 DEF LoopStep, Take, Save, Guard, Send, Record, Resolve, sessVars
  <2>1. CASE Take(s)
    <3>1. UNCHANGED <<cards, fails, cardKnown>> BY <2>1 DEF Take, rowVars
    <3>2. CASE s = live /\ connected
      <4>1. PICK p \in {"save", "resolve"}, q \in Requests : Turns(s, Doing(p, q))
        <5>1. channel[s] \in Seq(Events) /\ channel[s] # <<>> BY <2>1 DEF Take, TypeOK, Events
        <5>2. Head(channel[s]) \in Events BY <5>1
        <5>3. Head(channel[s]).req \in Requests BY <5>2 DEF Events
        <5> QED BY <2>1, <3>2, <5>3 DEF Take, Turns, Doing
      <4>2. loop[s] = Idle
        <5>1. loop[s].at = "idle" BY <2>1 DEF Take
        <5> QED BY <5>1, LoopIs, DoingIs DEF LoopPlaces
      <4>3. loop'[s] = Doing(p, q) /\ \A w \in Sessions \ {s} : loop'[w] = loop[w]
        BY <4>1, Turning, DoingTyped DEF LoopPlaces
      <4>4. T \subseteq S
        BY <1>S, <1>T, <1>U, <2>0, <3>1, <3>2, <4>2, <4>3, DoingIs DEF MaySend, LoopPlaces
      <4> QED BY <1>0, <1>a, <2>0, <3>1, <4>4
    <3>3. CASE ~(s = live /\ connected) BY <1>b, <2>0, <2>1, <3>1, <3>3 DEF Take
    <3> QED BY <3>2, <3>3
  <2>2. CASE Save(s)
    <3>1. UNCHANGED <<cards, fails, cardKnown>> BY <2>2 DEF Save
    <3>2. PICK q \in Requests : loop[s] = Doing("save", q) /\ Turns(s, Doing("guard", q)) BY <2>2, LoopSteps
    <3>3. loop'[s] = Doing("guard", q) /\ \A w \in Sessions \ {s} : loop'[w] = loop[w]
      BY <3>2, Turning, DoingTyped DEF LoopPlaces
    <3>4. T \subseteq S BY <1>S, <1>T, <1>U, <2>0, <3>1, <3>2, <3>3, DoingIs DEF MaySend, LoopPlaces
    <3> QED BY <1>0, <1>a, <2>0, <3>1, <3>4
  <2>3. CASE Guard(s)
    <3>1. UNCHANGED <<cards, fails, cardKnown>> BY <2>3 DEF Guard, rowVars
    <3>2. PICK q \in Requests : /\ loop[s] = Doing("guard", q)
                                /\ \/ cardKnown[IdOf[q]] /\ Turns(s, Idle)
                                   \/ ~cardKnown[IdOf[q]] /\ Turns(s, Doing("send", q))
      BY <2>3, LoopSteps
    <3>3. \A w \in Sessions \ {s} : loop'[w] = loop[w] BY <3>2, Turning, DoingTyped DEF LoopPlaces
    <3>4. \/ cardKnown[IdOf[q]] /\ loop'[s] = Idle
          \/ ~cardKnown[IdOf[q]] /\ loop'[s] = Doing("send", q)
      BY <3>2, Turning, DoingTyped DEF LoopPlaces
    <3>5. T \subseteq S BY <1>S, <1>T, <1>U, <2>0, <3>1, <3>2, <3>3, <3>4, DoingIs DEF MaySend, LoopPlaces
    <3> QED BY <1>0, <1>a, <2>0, <3>1, <3>5
  <2>4. CASE Send(s)
    <3>1. PICK q \in Requests :
            /\ loop[s] = Doing("send", q)
            /\ \/ /\ Turns(s, Doing("record", q)) /\ cards' = [cards EXCEPT ![q] = @ + 1] /\ UNCHANGED <<fails, unsent>>
               \/ /\ Turns(s, Idle) /\ fails' = fails + 1
                  /\ \/ unsent' = unsent \cup {q} /\ UNCHANGED cards
                     \/ cards' = [cards EXCEPT ![q] = @ + 1] /\ UNCHANGED unsent
      BY <2>4, LoopSteps
    <3>2. UNCHANGED cardKnown BY <2>4 DEF Send, rowVars
    <3>3. loop'[s] \in {Doing("record", q), Idle} /\ \A w \in Sessions \ {s} : loop'[w] = loop[w]
      BY <3>1, Turning, DoingTyped DEF LoopPlaces
    <3>4. T \subseteq S BY <1>S, <1>T, <1>U, <2>0, <3>1, <3>2, <3>3, DoingIs DEF MaySend, LoopPlaces
    <3>5. CASE q # r
      <4>1. cards'[r] = cards[r] BY <3>1, <3>5 DEF TypeOK
      <4> QED BY <1>0, <1>a, <2>0, <3>1, <3>4, <4>1
    <3>6. CASE q = r
      <4>1. s \in S
        <5>1. s \in 1..live BY <3>1, DoingIs DEF LoopsInv, LoopPlaces, Sessions, TypeOK
        <5> QED BY <1>S, <3>1, <3>6, <5>1, DoingIs DEF MaySend, LoopPlaces
      <4>2. cards'[r] \in {cards[r], cards[r] + 1} BY <3>1, <3>6 DEF TypeOK
      <4>3. CASE fails' = fails + 1
        <5>1. Cardinality(T) <= Cardinality(S) BY <1>0, <3>4, Changes
        <5>2. cards'[r] + Cardinality(T) <= live' + fails' BY <1>0, <2>0, <4>2, <4>3, <5>1
        <5> QED BY <5>2 DEF RoomFor, T, S
      <4>4. CASE Turns(s, Doing("record", q)) /\ fails' = fails
        <5>1. loop'[s] = Doing("record", r) BY <3>6, <4>4, Turning, DoingTyped DEF LoopPlaces
        <5>2. s \notin T BY <1>T, <2>0, <5>1, DoingIs DEF MaySend, LoopPlaces
        <5>3. Cardinality(T) <= Cardinality(S) - 1 BY <1>0, <3>4, <4>1, <5>2, Changes
        <5>4. cards'[r] + Cardinality(T) <= live' + fails' BY <1>0, <2>0, <4>2, <4>4, <5>3
        <5> QED BY <5>4 DEF RoomFor, T, S
      <4> QED BY <3>1, <4>3, <4>4
    <3> QED BY <3>5, <3>6
  <2>5. CASE Record(s)
    <3>1. UNCHANGED <<cards, fails>> BY <2>5 DEF Record
    <3>2. PICK q \in Requests : loop[s] = Doing("record", q) /\ Turns(s, Idle) /\ cardKnown' = [cardKnown EXCEPT ![IdOf[q]] = TRUE]
      BY <2>5, LoopSteps
    <3>3. loop'[s] = Idle /\ \A w \in Sessions \ {s} : loop'[w] = loop[w] BY <3>2, Turning
    <3>4. IdOf[q] \in Ids /\ (IdOf[q] = IdOf[r] => cardKnown'[IdOf[r]]) /\ (IdOf[q] # IdOf[r] => cardKnown'[IdOf[r]] = cardKnown[IdOf[r]])
      BY <3>2 DEF TypeOK
    <3>5. T \subseteq S BY <1>S, <1>T, <1>U, <2>0, <3>2, <3>3, <3>4, DoingIs DEF MaySend, LoopPlaces
    <3> QED BY <1>0, <1>a, <2>0, <3>1, <3>5
  <2>6. CASE Resolve(s)
    <3>1. UNCHANGED <<cards, fails, cardKnown>> BY <2>6 DEF Resolve
    <3>2. PICK q \in Requests : loop[s] = Doing("resolve", q) /\ Turns(s, Idle) BY <2>6, LoopSteps
    <3>3. loop'[s] = Idle /\ \A w \in Sessions \ {s} : loop'[w] = loop[w] BY <3>2, Turning
    <3>4. T \subseteq S BY <1>S, <1>T, <1>U, <2>0, <3>1, <3>2, <3>3, DoingIs DEF MaySend, LoopPlaces
    <3> QED BY <1>0, <1>a, <2>0, <3>1, <3>4
  <2> QED BY <1>4, <2>1, <2>2, <2>3, <2>4, <2>5, <2>6 DEF LoopStep
<1>5. ASSUME NEW p \in Pressers, PressStep(p) PROVE RoomFor(r)'
  BY <1>5, <1>b DEF PressStep, Press, TakeSession, Respond, Update, rowVars, sessVars
<1>6. CASE Replace
  <2>1. live' = live + 1 /\ UNCHANGED <<loop, cards, fails, cardKnown>> BY <1>6 DEF Replace, NextSession, rowVars
  <2>2. T \subseteq S \cup {live + 1}
    <3>1. ASSUME NEW s \in T, s # live + 1 PROVE s \in S
      <4>1. s \in 1..live /\ s # live' BY <1>0, <1>T, <2>1, <3>1
      <4>2. \A p \in {"save", "guard", "send"} : Doing(p, r) # Doing("record", r) BY DoingIs
      <4> QED BY <1>S, <1>T, <2>1, <4>1, <4>2 DEF MaySend
    <3> QED BY <3>1
  <2>3. Cardinality(T) <= Cardinality(S) + 1 BY <1>0, <2>2, Changes
  <2>4. cards'[r] + Cardinality(T) <= live' + fails' BY <1>0, <2>1, <2>3
  <2> QED BY <2>4 DEF RoomFor, S, T
<1>7. CASE MarkAllPendingApprovals
  BY <1>7, <1>b DEF MarkAllPendingApprovals
<1>8. CASE Restarted
  BY <1>8, <1>b DEF Restarted, rowVars
<1>9. CASE Crash
  <2>1. live' = live + 1 /\ UNCHANGED <<cards, fails, cardKnown>> /\ loop' = [s \in Sessions |-> Idle]
    BY <1>9 DEF Crash, NextSession, rowVars
  <2>2. T \subseteq {} \cup {live + 1}
    <3>1. ASSUME NEW s \in T PROVE s = live'
      <4>1. loop'[s] = Idle BY <1>T, <1>U, <2>1
      <4>2. \A p \in {"save", "guard", "send"} : Doing(p, r) # Idle BY DoingIs DEF LoopPlaces
      <4> QED BY <1>T, <4>1, <4>2 DEF MaySend
    <3> QED BY <2>1, <3>1
  <2>3. IsFiniteSet({}) /\ Cardinality({}) = 0 BY FS_EmptySet
  <2>4. Cardinality(T) <= 1 BY <2>2, <2>3, Changes
  <2>5. cards'[r] + Cardinality(T) <= live' + fails' BY <1>0, <2>1, <2>4
  <2> QED BY <2>5 DEF RoomFor, S, T
<1> QED BY <1>1, <1>2, <1>3, <1>4, <1>5, <1>6, <1>7, <1>8, <1>9 DEF Next

LEMMA CardsInit == Init => CardsInv
<1> SUFFICES ASSUME Init, NEW r \in Requests PROVE RoomFor(r)
  BY DEF CardsInv
<1>1. TypeOK BY TypeInit
<1>2. live = 1 /\ cards[r] = 0 /\ fails = 0 BY DEF Init
<1>3. Senders(r) \subseteq {} \cup {1} BY <1>2 DEF Senders
<1>4. IsFiniteSet({}) /\ Cardinality({}) = 0 BY FS_EmptySet
<1>5. Cardinality(Senders(r)) <= 1 BY <1>3, <1>4, Changes
<1>6. Cardinality(Senders(r)) \in Nat BY <1>1, FewSenders
<1> QED BY <1>2, <1>5, <1>6 DEF RoomFor

LEMMA CardsBound == TypeOK /\ CardsInv => OneCardPerRequest
<1> SUFFICES ASSUME TypeOK, CardsInv, NEW r \in Requests PROVE cards[r] <= live + fails
  BY DEF OneCardPerRequest
<1>1. cards[r] \in Nat /\ live \in Nat /\ fails \in Nat BY DEF TypeOK, Sessions
<1>2. Cardinality(Senders(r)) \in Nat BY FewSenders
<1> QED BY <1>1, <1>2 DEF CardsInv, RoomFor

\* A request has one card for each session it may be asked in and each failed send, whatever is
\* repeated, rebuilt, crashed and pressed, also when requests share an id (sendPendingApprovalCard).
THEOREM OneCardEach == Spec => []OneCardPerRequest
<1>1. TypeOK /\ LoopsInv /\ CardsInv /\ [Next]_vars => (TypeOK /\ LoopsInv /\ CardsInv)'
  BY TypeStep, LoopsStep, CardsStep
<1> QED BY <1>1, TypeInit, LoopsInit, CardsInit, CardsBound, PTL DEF Spec

-----------------------------------------------------------------------------
(* No question unshown                                                     *)

\* The requests have ids of their own.
IdsDiffer == \A q, r \in Requests : IdOf[q] = IdOf[r] => q = r
In(queue, e) == \E k \in 1..Len(queue) : queue[k] = e
\* A card that is recorded was sent.
SeenInv ==
  /\ \A r \in Requests : cardKnown[IdOf[r]] => cards[r] > 0
  /\ \A s \in Sessions, r \in Requests : loop[s] = Doing("record", r) => cards[r] > 0
\* The question of r is on its way to a card.
Underway(r) ==
  \/ In(channel[live], [kind |-> "ask", req |-> r])
  \/ \E p \in {"save", "guard", "send"} : loop[live] = Doing(p, r)
Attended(r) == cards[r] > 0 \/ r \in unsent \/ Underway(r)
AskedInv == ~dropped => \A r \in Requests : open[r] # 0 => Attended(r)

LEMMA Queues ==
  ASSUME NEW queue \in Seq(Events), NEW x \in Events, NEW e
  PROVE  /\ In(queue, e) \/ x = e => In(Append(queue, x), e)
         /\ queue # <<>> /\ In(queue, e) => Head(queue) = e \/ In(Tail(queue), e)
         /\ ~In(<<>>, e)
<1>1. Len(Append(queue, x)) = Len(queue) + 1 /\ Append(queue, x)[Len(queue) + 1] = x /\ Len(queue) \in Nat
  OBVIOUS
<1>2. \A k \in 1..Len(queue) : Append(queue, x)[k] = queue[k] OBVIOUS
<1>3. In(queue, e) \/ x = e => In(Append(queue, x), e)
  <2>1. ASSUME NEW k \in 1..Len(queue), queue[k] = e PROVE In(Append(queue, x), e)
    <3>1. k \in 1..Len(Append(queue, x)) /\ Append(queue, x)[k] = e BY <1>1, <1>2, <2>1
    <3> QED BY <3>1 DEF In
  <2>2. ASSUME x = e PROVE In(Append(queue, x), e)
    <3>1. Len(queue) + 1 \in 1..Len(Append(queue, x)) BY <1>1
    <3> QED BY <1>1, <2>2, <3>1 DEF In
  <2> QED BY <2>1, <2>2 DEF In
<1>4. ASSUME queue # <<>>, NEW k \in 1..Len(queue), queue[k] = e PROVE Head(queue) = e \/ In(Tail(queue), e)
  <2>1. CASE k = 1 BY <1>4, <2>1
  <2>2. CASE k # 1
    <3>1. k - 1 \in 1..Len(Tail(queue)) /\ Tail(queue)[k - 1] = queue[k] BY <1>4, <2>2
    <3> QED BY <1>4, <3>1 DEF In
  <2> QED BY <2>1, <2>2
<1>5. ~In(<<>>, e) BY DEF In
<1> QED BY <1>3, <1>4, <1>5 DEF In

\* Cards and failures are not taken back.
LEMMA CardsGrow ==
  ASSUME TypeOK, [Next]_vars, NEW r \in Requests
  PROVE  /\ cards'[r] \in Nat /\ cards'[r] >= cards[r] /\ unsent \subseteq unsent'
<1>0. cards \in [Requests -> Nat] BY DEF TypeOK
<1>1. CASE \E s \in Sessions : Send(s)
  <2>1. PICK s \in Sessions : Send(s) BY <1>1
  <2>2. PICK q \in Requests : /\ cards' = cards \/ cards' = [cards EXCEPT ![q] = @ + 1]
                              /\ unsent' = unsent \/ unsent' = unsent \cup {q}
    BY <2>1, LoopSteps
  <2> QED BY <1>0, <2>2
<1>2. CASE ~\E s \in Sessions : Send(s)
  <2>1. UNCHANGED <<cards, unsent>>
    BY <1>2 DEF Next, Ask, SettledElsewhere, LoopStep, Take, Save, Guard, Record, Resolve, PressStep, Press,
                TakeSession, Respond, Update, Replace, MarkAllPendingApprovals, Restarted, Crash, vars
  <2> QED BY <1>0, <2>1
<1> QED BY <1>1, <1>2

LEMMA SeenStep == IdsDiffer /\ TypeOK /\ TypeOK' /\ SeenInv /\ [Next]_vars => SeenInv'
<1> SUFFICES ASSUME IdsDiffer, TypeOK, TypeOK', SeenInv, [Next]_vars PROVE SeenInv'
  OBVIOUS
<1> USE RequestsAssumption
<1>0. \A r \in Requests : cards[r] \in Nat /\ cards'[r] \in Nat /\ cards'[r] >= cards[r] BY CardsGrow DEF TypeOK
<1>1. ASSUME NEW r \in Requests, cardKnown'[IdOf[r]], ~cardKnown[IdOf[r]] PROVE cards[r] > 0
  <2>1. cardKnown' # cardKnown BY <1>1
  <2>2. PICK s \in Sessions : Record(s)
    BY <2>1 DEF Next, Ask, SettledElsewhere, LoopStep, Take, Save, Guard, Send, Resolve, PressStep, Press,
                TakeSession, Respond, Update, Replace, MarkAllPendingApprovals, Restarted, Crash, vars, rowVars
  <2>3. PICK q \in Requests : loop[s] = Doing("record", q) /\ cardKnown' = [cardKnown EXCEPT ![IdOf[q]] = TRUE]
    BY <2>2, LoopSteps
  <2>4. IdOf[q] = IdOf[r] BY <1>1, <2>3 DEF TypeOK
  <2> QED BY <2>3, <2>4 DEF SeenInv, IdsDiffer
<1>2. ASSUME NEW s \in Sessions, NEW r \in Requests, loop'[s] = Doing("record", r) PROVE cards'[r] > 0
  <2>0. Idle # Doing("record", r) BY DoingIs DEF LoopPlaces
  <2>1. CASE loop[s] = Doing("record", r) BY <1>0, <2>1 DEF SeenInv
  <2>2. CASE loop[s] # Doing("record", r)
    <3>1. loop' # loop BY <1>2, <2>2
    <3>2. ~Crash BY <1>2, <2>0 DEF Crash
    <3>3. PICK w \in Sessions : LoopStep(w)
      BY <3>1, <3>2 DEF Next, Ask, SettledElsewhere, PressStep, Press, TakeSession, Respond, Update, Replace,
                        MarkAllPendingApprovals, Restarted, vars
    <3>4. CASE Take(w)
      <4>1. CASE w = live /\ connected
        <5>1. Turns(w, [at |-> IF Head(channel[w]).kind = "ask" THEN "save" ELSE "resolve", req |-> Head(channel[w]).req])
          BY <3>4, <4>1 DEF Take, Turns
        <5>2. loop'[s] = loop[s] \/ loop'[s].at \in {"save", "resolve"} BY <5>1 DEF Turns, TypeOK
        <5> QED BY <1>2, <2>2, <5>2, DoingIs
      <4>2. CASE ~(w = live /\ connected) BY <3>1, <3>4, <4>2 DEF Take
      <4> QED BY <4>1, <4>2
    <3>5. CASE Save(w) \/ Guard(w) \/ Record(w) \/ Resolve(w)
      <4>1. Turns(w, Idle) \/ \E p \in {"guard", "send"}, q \in Requests : Turns(w, Doing(p, q))
        BY <3>5, LoopSteps
      <4>2. loop'[s] = loop[s] \/ loop'[s] = Idle \/ \E p \in {"guard", "send"}, q \in Requests : loop'[s] = Doing(p, q)
        BY <4>1, Turning, DoingTyped DEF LoopPlaces
      <4> QED BY <1>2, <2>0, <2>2, <4>2, DoingIs
    <3>6. CASE Send(w)
      <4>1. PICK q \in Requests : Turns(w, Idle) \/ (Turns(w, Doing("record", q)) /\ cards' = [cards EXCEPT ![q] = @ + 1])
        BY <3>6, LoopSteps
      <4>2. ~Turns(w, Idle) BY <1>2, <2>0, <2>2, Turning
      <4>3. w = s /\ q = r BY <1>2, <2>2, <4>1, <4>2, Turning, DoingTyped, DoingIs DEF LoopPlaces
      <4>4. cards \in [Requests -> Nat] BY DEF TypeOK
      <4> QED BY <4>1, <4>2, <4>3, <4>4
    <3> QED BY <3>3, <3>4, <3>5, <3>6 DEF LoopStep
  <2> QED BY <2>1, <2>2
<1>3. ASSUME NEW r \in Requests, cardKnown'[IdOf[r]] PROVE cards'[r] > 0
  <2>1. cards[r] > 0 BY <1>1, <1>3 DEF SeenInv
  <2> QED BY <1>0, <2>1
<1> QED BY <1>2, <1>3 DEF SeenInv

LEMMA AskedStep == TypeOK /\ TypeOK' /\ LoopsInv /\ SeenInv /\ AskedInv /\ [Next]_vars => AskedInv'
<1> SUFFICES ASSUME TypeOK, TypeOK', LoopsInv, SeenInv, AskedInv, [Next]_vars,
                    ~dropped', NEW r \in Requests, open'[r] # 0, ~(cards'[r] > 0), r \notin unsent'
             PROVE  Underway(r)'
  BY DEF AskedInv, Attended
<1> USE RequestsAssumption
<1> DEFINE e == [kind |-> "ask", req |-> r]
<1>0. /\ live \in Sessions /\ channel \in [Sessions -> Seq(Events)] /\ e \in Events
      /\ ~(cards[r] > 0) /\ r \notin unsent
  <2>1. cards[r] \in Nat /\ cards'[r] \in Nat /\ cards'[r] >= cards[r] /\ unsent \subseteq unsent' BY CardsGrow DEF TypeOK
  <2>2. ~(cards[r] > 0) /\ r \notin unsent BY <2>1
  <2> QED BY <2>2 DEF TypeOK, Events
<1>a. ~dropped /\ open[r] # 0 => Underway(r) BY <1>0 DEF AskedInv, Attended
<1> HIDE DEF e
<1>b. Underway(r) <=> In(channel[live], e) \/ \E p \in {"save", "guard", "send"} : loop[live] = Doing(p, r)
  BY DEF Underway, e
<1>c. Underway(r)' <=> In(channel'[live'], e) \/ \E p \in {"save", "guard", "send"} : loop'[live'] = Doing(p, r)
  BY DEF Underway, In, e
<1>d. UNCHANGED <<dropped, open, live, loop, channel>> => Underway(r)' BY <1>a, <1>b, <1>c
<1>1. CASE UNCHANGED vars BY <1>1, <1>d DEF vars, sessVars, askVars
<1>2. ASSUME NEW q \in Requests, Ask(q) PROVE Underway(r)'
  <2>1. Broadcast(live, "ask", q) /\ open' = [open EXCEPT ![q] = live] /\ UNCHANGED <<live, loop>>
    BY <1>2 DEF Ask, sessVars
  <2>2. ~dropped /\ channel' = [channel EXCEPT ![live] = Append(@, [kind |-> "ask", req |-> q])]
    BY <1>0, <2>1, Broadcasting
  <2>3. [kind |-> "ask", req |-> q] \in Events /\ channel[live] \in Seq(Events) BY <1>0 DEF Events
  <2>4. channel'[live] = Append(channel[live], [kind |-> "ask", req |-> q]) BY <1>0, <2>2
  <2>5. CASE q = r
    <3>1. In(channel'[live], e) BY <2>3, <2>4, <2>5, Queues DEF e
    <3> QED BY <1>c, <2>1, <3>1
  <2>6. CASE q # r
    <3>1. Underway(r) BY <1>a, <2>1, <2>2, <2>6 DEF TypeOK
    <3>2. In(channel[live], e) => In(channel'[live], e) BY <2>3, <2>4, Queues
    <3> QED BY <1>b, <1>c, <2>1, <3>1, <3>2
  <2> QED BY <2>5, <2>6
<1>3. ASSUME NEW q \in Requests, NEW s \in Sessions, NEW d \in Decisions, Settle(q, s, d), UNCHANGED <<live, loop>>
      PROVE  Underway(r)'
  <2>1. Broadcast(s, "resolved", q) /\ open' = [open EXCEPT ![q] = 0] BY <1>3 DEF Settle
  <2>2. ~dropped /\ channel' = [channel EXCEPT ![s] = Append(@, [kind |-> "resolved", req |-> q])]
    BY <2>1, Broadcasting
  <2>3. q # r /\ open'[r] = open[r] BY <2>1 DEF TypeOK
  <2>4. Underway(r) BY <1>a, <2>2, <2>3
  <2>5. [kind |-> "resolved", req |-> q] \in Events /\ channel[live] \in Seq(Events) BY <1>0 DEF Events
  <2>6. channel'[live] = channel[live] \/ channel'[live] = Append(channel[live], [kind |-> "resolved", req |-> q])
    BY <1>0, <2>2
  <2>7. In(channel[live], e) => In(channel'[live], e)
    <3>1. CASE channel'[live] = channel[live] BY <3>1
    <3>2. CASE channel'[live] = Append(channel[live], [kind |-> "resolved", req |-> q]) BY <2>5, <3>2, Queues
    <3> QED BY <2>6, <3>1, <3>2
  <2> QED BY <1>3, <1>b, <1>c, <2>4, <2>7
<1>4. ASSUME NEW q \in Requests, SettledElsewhere(q) PROVE Underway(r)'
  BY <1>0, <1>3, <1>4 DEF SettledElsewhere, sessVars
<1>5. ASSUME NEW s \in Sessions, LoopStep(s) PROVE Underway(r)'
  <2>0. UNCHANGED <<live, open, dropped, connected>>
    BY <1>5 DEF LoopStep, Take, Save, Guard, Send, Record, Resolve, sessVars, askVars
  <2>1. Underway(r) BY <1>a, <2>0
  <2>2. CASE Take(s)
    <3>1. CASE s # live
      <4>1. channel'[live] = channel[live] /\ loop'[live] = loop[live] BY <1>0, <2>2, <3>1 DEF Take, TypeOK
      <4> QED BY <1>b, <1>c, <2>0, <2>1, <4>1
    <3>2. CASE s = live
      <4>1. connected BY <2>0 DEF LoopsInv
      <4>2. loop[live].at = "idle" /\ channel[live] # <<>> /\ channel[live] \in Seq(Events) BY <1>0, <2>2, <3>2 DEF Take
      <4>3. In(channel[live], e) BY <1>b, <2>1, <4>2, DoingIs
      <4>4. Head(channel[live]) = e \/ In(Tail(channel[live]), e) BY <1>0, <4>2, <4>3, Queues
      <4>5. /\ channel'[live] = Tail(channel[live])
            /\ Head(channel[live]) = e => loop'[live] = Doing("save", r)
        BY <1>0, <2>2, <3>2, <4>1 DEF Take, TypeOK, Doing, e
      <4> QED BY <1>c, <2>0, <4>4, <4>5
    <3> QED BY <3>1, <3>2
  <2>3. CASE ~Take(s)
    <3>0. channel' = channel BY <1>5, <2>3 DEF LoopStep, Save, Guard, Send, Record, Resolve
    <3>1. CASE In(channel[live], e) BY <1>c, <2>0, <3>0, <3>1
    <3>2. CASE s # live
      <4>1. \E next \in {Idle} \cup [at : LoopPlaces, req : Requests] : Turns(s, next)
        BY <1>5, <2>3, LoopSteps, DoingTyped DEF LoopStep, LoopPlaces
      <4>2. loop'[live] = loop[live] BY <1>0, <3>2, <4>1, Turning
      <4> QED BY <1>b, <1>c, <2>0, <2>1, <3>0, <4>2
    <3>3. CASE s = live /\ ~In(channel[live], e)
      <4>0. \E p \in {"save", "guard", "send"} : loop[s] = Doing(p, r) BY <1>b, <2>1, <3>3
      <4>1. loop[s].req = r /\ loop[s].at \in {"save", "guard", "send"} BY <4>0, DoingIs
      <4>2. CASE Save(s)
        <5>1. PICK q \in Requests : loop[s] = Doing("save", q) /\ Turns(s, Doing("guard", q)) BY <4>2, LoopSteps
        <5>2. q = r BY <4>1, <5>1, DoingIs
        <5>3. loop'[s] = Doing("guard", r) BY <5>1, <5>2, Turning, DoingTyped DEF LoopPlaces
        <5> QED BY <1>c, <2>0, <3>3, <5>3
      <4>3. CASE Guard(s)
        <5>1. PICK q \in Requests : loop[s] = Doing("guard", q) /\ (cardKnown[IdOf[q]] \/ Turns(s, Doing("send", q)))
          BY <4>3, LoopSteps
        <5>2. q = r BY <4>1, <5>1, DoingIs
        <5>3. ~cardKnown[IdOf[r]] BY <1>0 DEF SeenInv
        <5>4. loop'[s] = Doing("send", r) BY <5>1, <5>2, <5>3, Turning, DoingTyped DEF LoopPlaces
        <5> QED BY <1>c, <2>0, <3>3, <5>4
      <4>4. CASE Send(s)
        <5>1. PICK q \in Requests : loop[s] = Doing("send", q) /\ (unsent' = unsent \cup {q} \/ cards' = [cards EXCEPT ![q] = @ + 1])
          BY <4>4, LoopSteps
        <5>2. q = r BY <4>1, <5>1, DoingIs
        <5>3. unsent' # unsent \cup {q} BY <5>2
        <5>4. cards' = [cards EXCEPT ![r] = @ + 1] BY <5>1, <5>2, <5>3
        <5>5. cards[r] \in Nat /\ cards'[r] = cards[r] + 1 BY <5>4 DEF TypeOK
        <5> QED BY <5>5
      <4>5. CASE Record(s) \/ Resolve(s)
        <5>1. \E q \in Requests, x \in {"record", "resolve"} : loop[s] = Doing(x, q) BY <4>5, LoopSteps
        <5> QED BY <4>1, <5>1, DoingIs
      <4> QED BY <1>5, <2>3, <4>2, <4>3, <4>4, <4>5 DEF LoopStep
    <3> QED BY <3>1, <3>2, <3>3
  <2> QED BY <2>2, <2>3
<1>6. ASSUME NEW p \in Pressers, PressStep(p) PROVE Underway(r)'
  <2>1. CASE ~Respond(p)
    BY <1>6, <1>d, <2>1 DEF PressStep, Press, TakeSession, Update, sessVars, askVars
  <2>2. CASE Respond(p)
    <3>1. press[p].dec \in Decisions /\ press[p].sess \in Sessions /\ UNCHANGED <<live, loop>>
      BY <2>2, PressFields DEF Respond, sessVars
    <3>2. CASE UNCHANGED <<open, answer, channel, dropped>> BY <1>d, <3>1, <3>2
    <3>3. CASE \E q \in Requests : Settle(q, press[p].sess, press[p].dec) BY <1>3, <3>1, <3>3
    <3> QED BY <2>2, <3>2, <3>3 DEF Respond
  <2> QED BY <2>1, <2>2
<1>7. CASE Replace \/ Crash
  <2>1. open' = [q \in Requests |-> 0] BY <1>7 DEF Replace, Crash, NextSession
  <2> QED BY <2>1
<1>8. CASE MarkAllPendingApprovals
  BY <1>8, <1>d DEF MarkAllPendingApprovals, askVars
<1>9. CASE Restarted
  BY <1>9, <1>d DEF Restarted, askVars
<1> QED BY <1>1, <1>2, <1>4, <1>5, <1>6, <1>7, <1>8, <1>9 DEF Next

LEMMA ShownBase == Init => SeenInv /\ AskedInv
<1> SUFFICES ASSUME Init PROVE SeenInv /\ AskedInv
  OBVIOUS
<1> USE RequestsAssumption
<1>1. \A s \in Sessions : loop[s] = Idle BY DEF Init
<1>2. \A i \in Ids : ~cardKnown[i] BY DEF Init
<1>3. \A r \in Requests : open[r] = 0 /\ Idle # Doing("record", r) BY DoingIs DEF Init, LoopPlaces
<1> QED BY <1>1, <1>2, <1>3 DEF SeenInv, AskedInv

LEMMA QuietShown == TypeOK /\ LoopsInv /\ AskedInv => AskedIsShown
<1> SUFFICES ASSUME TypeOK, AskedInv, Quiet, ~dropped, NEW r \in Requests, open[r] # 0
             PROVE  cards[r] > 0 \/ r \in unsent
  BY DEF AskedIsShown
<1>1. live \in Sessions /\ channel[live] = <<>> /\ loop[live] = Idle BY DEF TypeOK, Quiet
<1>2. \A e : ~In(<<>>, e) BY DEF In
<1>3. \A p \in LoopPlaces : Idle # Doing(p, r) BY DoingIs
<1>4. ~Underway(r) BY <1>1, <1>2, <1>3 DEF Underway, LoopPlaces
<1> QED BY <1>4 DEF AskedInv, Attended

\* Where the ids of the requests differ, each question an app-server waits for is shown, with one
\* card for each session it may be asked in and each failed send (sendPendingApprovalCard).
THEOREM QuestionsShown == ASSUME IdsDiffer PROVE Spec => []ShownOnce
<1>1. TypeOK /\ LoopsInv /\ SeenInv /\ AskedInv /\ [Next]_vars => (TypeOK /\ LoopsInv /\ SeenInv /\ AskedInv)'
  BY TypeStep, LoopsStep, SeenStep, AskedStep
<1>2. Spec => [](TypeOK /\ LoopsInv /\ SeenInv /\ AskedInv)
  BY <1>1, TypeInit, LoopsInit, ShownBase, PTL DEF Spec
<1>3. TypeOK /\ LoopsInv /\ AskedInv /\ OneCardPerRequest => ShownOnce BY QuietShown DEF ShownOnce
<1> QED BY <1>2, <1>3, OneCardEach, PTL

-----------------------------------------------------------------------------
(* No buttons for a settled question                                       *)

\* Nobody waits for an answer with id i.
Unasked(i) == \A r \in Requests : IdOf[r] = i => open[r] = 0
\* The last event about i says that it is resolved.
Ends(queue, i) ==
  \E k \in 1..Len(queue) : /\ queue[k].kind = "resolved" /\ IdOf[queue[k].req] = i
                           /\ \A m \in 1..Len(queue) : m > k => IdOf[queue[m].req] # i
Clear(queue, i) == \A k \in 1..Len(queue) : IdOf[queue[k].req] # i
Handles(p, i) == \E r \in Requests : IdOf[r] = i /\ loop[1] = Doing(p, r)
\* The row no longer offers its buttons and is not about to, or the event that ends it is on its way.
Settled(i) ==
  \/ Ends(channel[1], i)
  \/ Clear(channel[1], i) /\ (Handles("resolve", i) \/ (status[i] # "pending" /\ ~Handles("save", i)))
SettledInv == live = 1 /\ ~dropped => \A i \in Ids : Unasked(i) => Settled(i)

LEMMA Endings ==
  ASSUME NEW queue \in Seq(Events), NEW x \in Events, NEW i
  PROVE  /\ x.kind = "resolved" /\ IdOf[x.req] = i => Ends(Append(queue, x), i)
         /\ IdOf[x.req] # i /\ Ends(queue, i) => Ends(Append(queue, x), i)
         /\ queue # <<>> /\ Ends(queue, i) =>
              \/ Head(queue).kind = "resolved" /\ IdOf[Head(queue).req] = i /\ Clear(Tail(queue), i)
              \/ Ends(Tail(queue), i)
         /\ IdOf[x.req] # i /\ Clear(queue, i) => Clear(Append(queue, x), i)
         /\ queue # <<>> /\ Clear(queue, i) => IdOf[Head(queue).req] # i /\ Clear(Tail(queue), i)
<1>1. Len(Append(queue, x)) = Len(queue) + 1 /\ Append(queue, x)[Len(queue) + 1] = x /\ Len(queue) \in Nat
  OBVIOUS
<1>2. \A k \in 1..Len(queue) : Append(queue, x)[k] = queue[k] OBVIOUS
<1>3. ASSUME x.kind = "resolved", IdOf[x.req] = i PROVE Ends(Append(queue, x), i)
  <2>1. Len(queue) + 1 \in 1..Len(Append(queue, x)) BY <1>1
  <2>2. \A m \in 1..Len(Append(queue, x)) : ~(m > Len(queue) + 1) BY <1>1
  <2> QED BY <1>1, <1>3, <2>1, <2>2 DEF Ends
<1>4. ASSUME IdOf[x.req] # i, NEW k \in 1..Len(queue), queue[k].kind = "resolved", IdOf[queue[k].req] = i,
             \A m \in 1..Len(queue) : m > k => IdOf[queue[m].req] # i
      PROVE  Ends(Append(queue, x), i)
  <2>1. k \in 1..Len(Append(queue, x)) BY <1>1
  <2>2. ASSUME NEW m \in 1..Len(Append(queue, x)), m > k PROVE IdOf[Append(queue, x)[m].req] # i
    <3>1. CASE m \in 1..Len(queue) BY <1>2, <1>4, <2>2, <3>1
    <3>2. CASE m \notin 1..Len(queue)
      <4>1. m = Len(queue) + 1 BY <1>1, <3>2
      <4> QED BY <1>1, <1>4, <4>1
    <3> QED BY <3>1, <3>2
  <2> QED BY <1>2, <1>4, <2>1, <2>2 DEF Ends
<1>5. ASSUME queue # <<>>, NEW k \in 1..Len(queue), queue[k].kind = "resolved", IdOf[queue[k].req] = i,
             \A m \in 1..Len(queue) : m > k => IdOf[queue[m].req] # i
      PROVE  \/ Head(queue).kind = "resolved" /\ IdOf[Head(queue).req] = i /\ Clear(Tail(queue), i)
             \/ Ends(Tail(queue), i)
  <2>1. CASE k = 1
    <3>1. ASSUME NEW m \in 1..Len(Tail(queue)) PROVE IdOf[Tail(queue)[m].req] # i
      <4>1. m + 1 \in 1..Len(queue) /\ m + 1 > k /\ Tail(queue)[m] = queue[m + 1] BY <1>5, <2>1
      <4> QED BY <1>5, <4>1
    <3> QED BY <1>5, <2>1, <3>1 DEF Clear
  <2>2. CASE k # 1
    <3>1. k - 1 \in 1..Len(Tail(queue)) /\ Tail(queue)[k - 1] = queue[k] BY <1>5, <2>2
    <3>2. ASSUME NEW m \in 1..Len(Tail(queue)), m > k - 1 PROVE IdOf[Tail(queue)[m].req] # i
      <4>1. m + 1 \in 1..Len(queue) /\ m + 1 > k /\ Tail(queue)[m] = queue[m + 1] BY <1>5, <3>2
      <4> QED BY <1>5, <4>1
    <3> QED BY <1>5, <3>1, <3>2 DEF Ends
  <2> QED BY <2>1, <2>2
<1>6. ASSUME IdOf[x.req] # i, Clear(queue, i) PROVE Clear(Append(queue, x), i)
  <2> SUFFICES ASSUME NEW m \in 1..Len(Append(queue, x)) PROVE IdOf[Append(queue, x)[m].req] # i
    BY DEF Clear
  <2>1. CASE m \in 1..Len(queue) BY <1>2, <1>6, <2>1 DEF Clear
  <2>2. CASE m \notin 1..Len(queue)
    <3>1. m = Len(queue) + 1 BY <1>1, <2>2
    <3> QED BY <1>1, <1>6, <3>1
  <2> QED BY <2>1, <2>2
<1>7. ASSUME queue # <<>>, Clear(queue, i) PROVE IdOf[Head(queue).req] # i /\ Clear(Tail(queue), i)
  <2>1. 1 \in 1..Len(queue) /\ Head(queue) = queue[1] BY <1>7
  <2>2. ASSUME NEW m \in 1..Len(Tail(queue)) PROVE IdOf[Tail(queue)[m].req] # i
    <3>1. m + 1 \in 1..Len(queue) /\ Tail(queue)[m] = queue[m + 1] BY <1>7
    <3> QED BY <1>7, <3>1 DEF Clear
  <2> QED BY <1>7, <2>1, <2>2 DEF Clear
<1> QED BY <1>3, <1>4, <1>5, <1>6, <1>7 DEF Ends

\* While the first session lives, nobody marks a row pending but its loop.
LEMMA StatusSteps ==
  ASSUME TypeOK, NEW i \in Ids, status' = status \/ \E j \in Ids : status' = AfterResolved(j)
  PROVE  status[i] # "pending" => status'[i] # "pending"
BY DEF TypeOK, AfterResolved

LEMMA SettledStep == TypeOK /\ TypeOK' /\ LoopsInv /\ SettledInv /\ [Next]_vars => SettledInv'
<1> SUFFICES ASSUME TypeOK, TypeOK', LoopsInv, SettledInv, [Next]_vars,
                    live' = 1, ~dropped', NEW i \in Ids, Unasked(i)'
             PROVE  Settled(i)'
  BY DEF SettledInv
<1> USE RequestsAssumption
<1> DEFINE Quietly(q, l, st) ==
             \/ Ends(q, i)
             \/ /\ Clear(q, i)
                /\ \/ \E r \in Requests : IdOf[r] = i /\ l = Doing("resolve", r)
                   \/ st # "pending" /\ ~\E r \in Requests : IdOf[r] = i /\ l = Doing("save", r)
<1>0. 1 \in Sessions /\ channel \in [Sessions -> Seq(Events)] /\ live \in Sessions
  BY DEF TypeOK, Events, Sessions
<1>a. live = 1 /\ ~dropped /\ Unasked(i) => Settled(i) BY DEF SettledInv
<1>b. Settled(i) <=> Quietly(channel[1], loop[1], status[i]) BY DEF Settled, Handles
<1>c. Settled(i)' <=> Quietly(channel'[1], loop'[1], status'[i]) BY DEF Settled, Handles, Ends, Clear
<1> HIDE DEF Quietly
<1>d. ASSUME UNCHANGED <<dropped, open, live, loop, channel>>, status[i] # "pending" => status'[i] # "pending"
      PROVE  Settled(i)'
  <2>1. Unasked(i) BY <1>d DEF Unasked
  <2>2. Quietly(channel[1], loop[1], status[i]) BY <1>a, <1>b, <1>d, <2>1
  <2> QED BY <1>c, <1>d, <2>2 DEF Quietly
<1>1. CASE UNCHANGED vars BY <1>1, <1>d DEF vars, rowVars, sessVars, askVars
<1>2. ASSUME NEW q \in Requests, Ask(q) PROVE Settled(i)'
  <2>1. /\ Broadcast(live, "ask", q) /\ open' = [open EXCEPT ![q] = live] /\ UNCHANGED <<live, loop, status>>
        /\ open[q] \in {0, live}
    BY <1>2 DEF Ask, sessVars, rowVars
  <2>2. ~dropped /\ channel' = [channel EXCEPT ![1] = Append(@, [kind |-> "ask", req |-> q])]
    BY <1>0, <2>1, Broadcasting
  <2>3. IdOf[q] # i BY <1>0, <2>1 DEF Unasked, TypeOK, Sessions
  <2>4. Unasked(i) BY <2>1, <2>3 DEF Unasked, TypeOK
  <2>5. [kind |-> "ask", req |-> q] \in Events /\ channel[1] \in Seq(Events) BY <1>0 DEF Events
  <2>6. channel'[1] = Append(channel[1], [kind |-> "ask", req |-> q]) BY <1>0, <2>2
  <2>7. (Ends(channel[1], i) => Ends(channel'[1], i)) /\ (Clear(channel[1], i) => Clear(channel'[1], i))
    BY <2>3, <2>5, <2>6, Endings
  <2>8. Quietly(channel[1], loop[1], status[i]) BY <1>a, <1>b, <2>1, <2>2, <2>4
  <2> QED BY <1>c, <2>1, <2>7, <2>8 DEF Quietly
<1>3. ASSUME NEW q \in Requests, NEW s \in Sessions, NEW d \in Decisions, Settle(q, s, d), UNCHANGED <<live, loop, status>>, s = live
      PROVE  Settled(i)'
  <2>1. Broadcast(s, "resolved", q) /\ open' = [open EXCEPT ![q] = 0] BY <1>3 DEF Settle
  <2>2. ~dropped /\ channel' = [channel EXCEPT ![1] = Append(@, [kind |-> "resolved", req |-> q])]
    BY <1>3, <2>1, Broadcasting
  <2>3. [kind |-> "resolved", req |-> q] \in Events /\ channel[1] \in Seq(Events) BY <1>0 DEF Events
  <2>4. channel'[1] = Append(channel[1], [kind |-> "resolved", req |-> q]) BY <1>0, <2>2
  <2>5. CASE IdOf[q] = i
    <3>1. Ends(channel'[1], i) BY <2>3, <2>4, <2>5, Endings
    <3> QED BY <1>c, <3>1 DEF Quietly
  <2>6. CASE IdOf[q] # i
    <3>1. Unasked(i) BY <2>1, <2>6 DEF Unasked, TypeOK
    <3>2. Quietly(channel[1], loop[1], status[i]) BY <1>3, <1>a, <1>b, <2>2, <3>1
    <3>3. (Ends(channel[1], i) => Ends(channel'[1], i)) /\ (Clear(channel[1], i) => Clear(channel'[1], i))
      BY <2>3, <2>4, <2>6, Endings
    <3> QED BY <1>3, <1>c, <3>2, <3>3 DEF Quietly
  <2> QED BY <2>5, <2>6
<1>4. ASSUME NEW q \in Requests, SettledElsewhere(q) PROVE Settled(i)'
  BY <1>0, <1>3, <1>4 DEF SettledElsewhere, sessVars, rowVars
<1>5. ASSUME NEW s \in Sessions, LoopStep(s) PROVE Settled(i)'
  <2>0. UNCHANGED <<live, open, dropped, connected>>
    BY <1>5 DEF LoopStep, Take, Save, Guard, Send, Record, Resolve, sessVars, askVars
  <2>1. Unasked(i) /\ live = 1 /\ connected BY <2>0 DEF Unasked, LoopsInv
  <2>2. Quietly(channel[1], loop[1], status[i]) BY <1>a, <1>b, <2>0, <2>1
  <2>3. CASE Take(s)
    <3>0. status' = status BY <2>3 DEF Take, rowVars
    <3>1. CASE s # 1
      <4>1. channel'[1] = channel[1] /\ loop'[1] = loop[1] BY <1>0, <2>1, <2>3, <3>1 DEF Take, TypeOK
      <4> QED BY <1>c, <2>2, <3>0, <4>1
    <3>2. CASE s = 1
      <4> DEFINE h == Head(channel[1])
      <4>1. loop[1].at = "idle" /\ channel[1] # <<>> /\ channel[1] \in Seq(Events) BY <1>0, <2>3, <3>2 DEF Take
      <4>2. h \in Events BY <4>1
      <4>3. channel'[1] = Tail(channel[1]) /\ loop'[1] = Doing(IF h.kind = "ask" THEN "save" ELSE "resolve", h.req)
        BY <1>0, <2>1, <2>3, <3>2 DEF Take, TypeOK, Doing
      <4>4. h.req \in Requests /\ h.kind \in {"ask", "resolved"} BY <4>2 DEF Events
      <4> HIDE DEF h
      <4>5. CASE Ends(channel[1], i)
        <5>1. \/ h.kind = "resolved" /\ IdOf[h.req] = i /\ Clear(channel'[1], i)
              \/ Ends(channel'[1], i)
          BY <4>1, <4>3, <4>5, <4>2, Endings DEF h
        <5> QED BY <1>c, <4>3, <4>4, <5>1 DEF Quietly
      <4>6. CASE ~Ends(channel[1], i)
        <5>1. \A r \in Requests : loop[1] # Doing("resolve", r) BY <4>1, DoingIs
        <5>2. status[i] # "pending" BY <2>2, <4>6, <5>1 DEF Quietly
        <5>3. Clear(channel[1], i) BY <2>2, <4>6 DEF Quietly
        <5>4. IdOf[h.req] # i /\ Clear(channel'[1], i) BY <4>1, <4>2, <4>3, <5>3, Endings DEF h
        <5>5. \A r \in Requests : loop'[1] = Doing("save", r) => r = h.req BY <4>3, DoingIs
        <5> QED BY <1>c, <3>0, <5>2, <5>4, <5>5 DEF Quietly
      <4> QED BY <4>5, <4>6
    <3> QED BY <3>1, <3>2
  <2>4. CASE ~Take(s)
    <3>0. channel' = channel BY <1>5, <2>4 DEF LoopStep, Save, Guard, Send, Record, Resolve
    <3>1. s = 1
      <4>1. loop[s] # Idle BY <1>5, <2>4, LoopSteps, DoingIs DEF LoopStep, LoopPlaces
      <4>2. s <= 1 BY <2>1, <4>1 DEF LoopsInv
      <4> QED BY <4>2 DEF Sessions
    <3>2. CASE Save(s)
      <4>1. PICK q \in Requests : loop[1] = Doing("save", q) /\ Turns(s, Doing("guard", q)) /\ status' = [status EXCEPT ![IdOf[q]] = "pending"]
        BY <2>4, <3>1, <3>2, LoopSteps
      <4>2. loop'[1] = Doing("guard", q) BY <3>1, <4>1, Turning, DoingTyped DEF LoopPlaces
      <4>3. \A r \in Requests : loop[1] # Doing("resolve", r) BY <4>1, DoingIs
      <4>4. \A r \in Requests : loop'[1] # Doing("save", r) BY <4>2, DoingIs
      <4>5. IdOf[q] # i => status'[i] = status[i] BY <4>1 DEF TypeOK
      <4> QED BY <1>c, <2>2, <3>0, <4>1, <4>3, <4>4, <4>5 DEF Quietly
    <3>3. CASE Resolve(s)
      <4>1. PICK q \in Requests : loop[1] = Doing("resolve", q) /\ Turns(s, Idle) /\ status' = AfterResolved(IdOf[q])
        BY <3>1, <3>3, LoopSteps
      <4>2. loop'[1] = Idle BY <3>1, <4>1, Turning
      <4>3. \A r \in Requests : loop'[1] # Doing("save", r) BY <4>2, DoingIs DEF LoopPlaces
      <4>4. IdOf[q] \in Ids OBVIOUS
      <4>5. status[i] # "pending" => status'[i] # "pending" BY <4>1, <4>4, StatusSteps
      <4>6. IdOf[q] = i => status'[i] # "pending" BY <4>1 DEF TypeOK, AfterResolved
      <4>7. (\E r \in Requests : IdOf[r] = i /\ loop[1] = Doing("resolve", r)) => IdOf[q] = i BY <4>1, DoingIs
      <4> QED BY <1>c, <2>2, <3>0, <4>3, <4>5, <4>6, <4>7 DEF Quietly
    <3>4. CASE Guard(s) \/ Send(s) \/ Record(s)
      <4>1. status' = status BY <3>4 DEF Guard, Send, Record, rowVars
      <4>2. \E q \in Requests, p \in {"guard", "send", "record"} : loop[1] = Doing(p, q) BY <3>1, <3>4, LoopSteps
      <4>3. Turns(s, Idle) \/ \E q \in Requests, p \in {"send", "record"} : Turns(s, Doing(p, q)) BY <3>4, LoopSteps
      <4>4. loop'[1] = Idle \/ \E q \in Requests, p \in {"send", "record"} : loop'[1] = Doing(p, q)
        BY <3>1, <4>3, Turning, DoingTyped DEF LoopPlaces
      <4>5. \A r \in Requests : loop[1] # Doing("resolve", r) BY <4>2, DoingIs
      <4>6. \A r \in Requests : loop'[1] # Doing("save", r) BY <4>4, DoingIs DEF LoopPlaces
      <4> QED BY <1>c, <2>2, <3>0, <4>1, <4>5, <4>6 DEF Quietly
    <3> QED BY <1>5, <2>4, <3>2, <3>3, <3>4 DEF LoopStep
  <2> QED BY <2>3, <2>4
<1>6. ASSUME NEW p \in Pressers, PressStep(p) PROVE Settled(i)'
  <2>1. CASE Press(p) \/ TakeSession(p)
    BY <1>d, <2>1 DEF Press, TakeSession, rowVars, sessVars, askVars
  <2>2. CASE Update(p)
    <3>1. press[p].req \in Requests BY <2>2, PressFields DEF Update
    <3>2. IdOf[press[p].req] \in Ids /\ status' = AfterResolved(IdOf[press[p].req]) BY <2>2, <3>1 DEF Update
    <3>3. status[i] # "pending" => status'[i] # "pending" BY <3>2, StatusSteps
    <3> QED BY <1>d, <2>2, <3>3 DEF Update, sessVars, askVars
  <2>3. CASE Respond(p)
    <3>1. press[p].dec \in Decisions /\ press[p].sess \in Sessions /\ UNCHANGED <<live, loop, status>>
      BY <2>3, PressFields DEF Respond, sessVars, rowVars
    <3>2. CASE UNCHANGED <<open, answer, channel, dropped>> BY <1>d, <3>1, <3>2
    <3>3. CASE press[p].sess = live /\ \E q \in Requests : Settle(q, press[p].sess, press[p].dec) BY <1>3, <3>1, <3>3
    <3> QED BY <2>3, <3>2, <3>3 DEF Respond
  <2> QED BY <1>6, <2>1, <2>2, <2>3 DEF PressStep
<1>7. CASE Replace \/ Crash
  BY <1>7, NextSessionTyped DEF Replace, Crash
<1>8. CASE MarkAllPendingApprovals
  <2>1. status[i] # "pending" => status'[i] # "pending" BY <1>8 DEF MarkAllPendingApprovals, TypeOK
  <2> QED BY <1>8, <1>d, <2>1 DEF MarkAllPendingApprovals, askVars
<1>9. CASE Restarted
  BY <1>9, <1>d DEF Restarted, rowVars, askVars
<1> QED BY <1>1, <1>2, <1>4, <1>5, <1>6, <1>7, <1>8, <1>9 DEF Next

LEMMA SettledInit == Init => SettledInv
<1> SUFFICES ASSUME Init, NEW i \in Ids PROVE Settled(i)
  BY DEF SettledInv
<1>1. loop[1] = Idle /\ status[i] = "absent" BY RequestsAssumption DEF Init, Sessions
<1>2. ~Handles("save", i) BY <1>1, DoingIs DEF Handles, LoopPlaces
<1>3. Clear(channel[1], i) BY RequestsAssumption DEF Init, Sessions, Clear
<1> QED BY <1>1, <1>2, <1>3 DEF Settled

LEMMA QuietSettled == TypeOK /\ LoopsInv /\ SettledInv => PendingIsOpen
<1> SUFFICES ASSUME TypeOK, LoopsInv, SettledInv, Quiet, ~dropped, live = 1, NEW i \in Ids, status[i] = "pending",
                    \A r \in Requests : IdOf[r] = i => open[r] # live
             PROVE  FALSE
  BY DEF PendingIsOpen
<1>1. channel[1] = <<>> /\ loop[1] = Idle BY DEF Quiet, TypeOK
<1>2. ~Ends(<<>>, i) BY DEF Ends
<1>3. ~Handles("resolve", i) BY <1>1, DoingIs DEF Handles, LoopPlaces
<1>4. ~Settled(i) BY <1>1, <1>2, <1>3 DEF Settled
<1> QED BY <1>4 DEF SettledInv, Unasked, LoopsInv

\* While the first session lives and no event was dropped, a row that still offers its buttons when
\* all events and presses are through is a question somebody waits on, in any order of repeated
\* events, answers elsewhere and presses, also when requests share an id (handleLiveEvent, approve).
THEOREM ButtonsAreLive == Spec => []PendingIsOpen
<1>1. TypeOK /\ LoopsInv /\ SettledInv /\ [Next]_vars => (TypeOK /\ LoopsInv /\ SettledInv)'
  BY TypeStep, LoopsStep, SettledStep
<1> QED BY <1>1, TypeInit, LoopsInit, SettledInit, QuietSettled, PTL DEF Spec

-----------------------------------------------------------------------------
(* The items of a turn: nothing is lost between the log card and the details *)

TurnStatuses == {"active", "completed", "interrupted"}
ItemKinds == {"say", "longsay", "plan", "tool", "compact", "final"}
Turn == [items : Seq(ItemKinds), status : TurnStatuses]

\* The places of some kinds in a list.
LEMMA PlacesAre ==
  ASSUME NEW items \in Seq(ItemKinds), NEW kinds
  PROVE  /\ Positions(items, kinds) \subseteq 1..Len(items) /\ Len(items) \in Nat
         /\ \A K \in SUBSET Positions(items, kinds) : IsFiniteSet(K) /\ Cardinality(K) \in Nat /\ Cardinality(K) <= Len(items)
                                                      /\ (K # {} => Cardinality(K) > 0)
<1>1. Len(items) \in Nat /\ DOMAIN items = 1..Len(items) BY LenProperties
<1>2. Positions(items, kinds) \subseteq 1..Len(items) BY <1>1 DEF Positions
<1>3. IsFiniteSet(1..Len(items)) /\ Cardinality(1..Len(items)) = Len(items) BY <1>1, FS_Interval
<1>4. ASSUME NEW K \in SUBSET Positions(items, kinds)
      PROVE  IsFiniteSet(K) /\ Cardinality(K) \in Nat /\ Cardinality(K) <= Len(items) /\ (K # {} => Cardinality(K) > 0)
  <2>1. K \in SUBSET (1..Len(items)) BY <1>2
  <2>2. IsFiniteSet(K) /\ Cardinality(K) <= Len(items) BY <1>3, <2>1, FS_Subset
  <2>3. Cardinality(K) \in Nat /\ (Cardinality(K) = 0 <=> K = {}) BY <2>2, FS_CardinalityType, FS_EmptySet
  <2> QED BY <2>2, <2>3
<1> QED BY <1>1, <1>2, <1>4

LEMMA GreatestNatural ==
  ASSUME NEW n \in Nat, NEW S \in SUBSET (0..n), S # {}
  PROVE  \E x \in S : \A y \in S : y <= x
<1> DEFINE U == {u \in Nat : \A y \in S : y <= u}
<1>0. \A y \in S : y \in Nat /\ y <= n
  <2> TAKE y \in S
  <2>1. y \in 0..n OBVIOUS
  <2> QED BY <2>1
<1>1. n \in U BY <1>0
<1>2. PICK u \in U : \A v \in U : u <= v BY <1>1, LeastNatural
<1>3. CASE u \in S BY <1>2, <1>3
<1>4. CASE u \notin S
  <2>1. \A y \in S : y < u BY <1>0, <1>2, <1>4
  <2>2. u > 0
    <3>1. u \in Nat BY <1>2
    <3>2. PICK z \in S : TRUE OBVIOUS
    <3>3. z \in Nat /\ z < u BY <1>0, <2>1
    <3> QED BY <3>1, <3>3
  <2>3. \A y \in S : y <= u - 1 BY <1>0, <1>2, <2>1
  <2>4. u - 1 \in U BY <1>2, <2>2, <2>3
  <2> QED BY <1>2, <2>4
<1> QED BY <1>3, <1>4

\* The index c is the one of one place of the list only.
Once(list, c) == \E i \in DOMAIN list : \A j \in DOMAIN list : list[j] = c <=> j = i

\* In a turn without plans the commentary a tool call follows has its index.
LEMMA IndexIsSaid ==
  ASSUME NEW items \in Seq(ItemKinds), Positions(items, {"plan"}) = {}, NEW k \in DOMAIN items
  PROVE  /\ CommentaryIndex(items, k) \in 0..Len(items)
         /\ CommentaryIndex(items, k) # 0 => \E j \in Positions(items, Agent) : CommentaryIndex(items, j) = CommentaryIndex(items, k)
         /\ k \in Positions(items, Agent) => CommentaryIndex(items, k) > 0
<1> DEFINE said == Positions(items, Agent)
           UpTo(i) == {j \in said : j <= i}
<1>1. Positions(items, Agent \cup {"plan"}) = said BY DEF Positions
<1>2. \A i : CommentaryIndex(items, i) = Cardinality(UpTo(i)) BY <1>1 DEF CommentaryIndex
<1>3. said \subseteq 1..Len(items) /\ Len(items) \in Nat
      /\ \A K \in SUBSET said : Cardinality(K) \in Nat /\ Cardinality(K) <= Len(items) /\ (K # {} => Cardinality(K) > 0)
  BY PlacesAre
<1>k. k \in 1..Len(items) BY LenProperties
<1> HIDE DEF said
<1>4. CommentaryIndex(items, k) \in 0..Len(items)
  <2>1. UpTo(k) \in SUBSET said OBVIOUS
  <2> HIDE DEF UpTo
  <2> QED BY <1>2, <1>3, <2>1
<1>5. ASSUME CommentaryIndex(items, k) # 0
      PROVE  \E j \in said : CommentaryIndex(items, j) = CommentaryIndex(items, k)
  <2>1. UpTo(k) # {}
    <3>1. Cardinality({}) = 0 BY FS_EmptySet
    <3> QED BY <1>2, <1>5, <3>1
  <2>2. UpTo(k) \in SUBSET (0..Len(items))
    <3>1. 1..Len(items) \subseteq 0..Len(items) BY <1>3
    <3>2. said \subseteq 0..Len(items) BY <1>3, <3>1
    <3> QED BY <3>2
  <2>3. PICK j \in UpTo(k) : \A y \in UpTo(k) : y <= j BY <1>3, <2>1, <2>2, GreatestNatural
  <2>4. \A y \in said : y <= j <=> y <= k BY <1>3, <1>k, <2>3
  <2>5. UpTo(j) = UpTo(k) BY <2>4
  <2>6. CommentaryIndex(items, j) = CommentaryIndex(items, k) BY <1>2, <2>5
  <2> QED BY <2>3, <2>6
<1>6. ASSUME k \in said PROVE CommentaryIndex(items, k) > 0
  <2>1. k \in UpTo(k) /\ UpTo(k) \in SUBSET said BY <1>6, <1>k
  <2>2. Cardinality(UpTo(k)) > 0 BY <1>3, <2>1
  <2> QED BY <1>2, <2>2
<1> QED BY <1>4, <1>5, <1>6 DEF said

\* The commentaries are the sections above 0, each once.
LEMMA CommentariesAre ==
  ASSUME NEW items \in Seq(ItemKinds), Positions(items, {"plan"}) = {}
  PROVE  /\ Commentaries(items) \in Seq(Nat \ {0})
         /\ \A k \in DOMAIN items : CommentaryIndex(items, k) # 0 => Once(Commentaries(items), CommentaryIndex(items, k))
<1> DEFINE said == Positions(items, Agent)
           D == {CommentaryIndex(items, k) : k \in said}
           id == [i \in 1..Len(items) |-> i]
<1>0. Len(items) \in Nat /\ DOMAIN items = 1..Len(items) /\ said \subseteq DOMAIN items BY LenProperties DEF Positions
<1>1. CASE said = {}
  <2> DEFINE m == Smaller(3, Cardinality(Positions(items, Agent \cup {"plan", "final"})))
  <2>1. Cardinality(Positions(items, Agent \cup {"plan", "final"})) \in Nat BY PlacesAre
  <2>2. m \in Nat BY <2>1 DEF Smaller
  <2> HIDE DEF m
  <2>3. Commentaries(items) = [i \in 1..m |-> i] BY <1>1 DEF Commentaries, m
  <2>4. [i \in 1..m |-> i] \in Seq(Nat \ {0}) BY <2>2
  <2>5. \A k \in DOMAIN items : CommentaryIndex(items, k) = 0 BY <1>1, IndexIsSaid
  <2> QED BY <2>3, <2>4, <2>5
<1>2. CASE said # {}
  <2>1. D \in SUBSET (1..Len(items))
    <3> SUFFICES ASSUME NEW k \in said PROVE CommentaryIndex(items, k) \in 1..Len(items) OBVIOUS
    <3>1. CommentaryIndex(items, k) \in 0..Len(items) /\ CommentaryIndex(items, k) > 0 BY <1>0, IndexIsSaid
    <3> QED BY <1>0, <3>1
  <2>2. id \in Seq(1..Len(items)) /\ Len(id) = Len(items) BY <1>0
  <2> DEFINE c == Chosen(id, D)
  <2>3. Commentaries(items) = c BY <1>2 DEF Commentaries
  <2>4. \A k \in DOMAIN items : CommentaryIndex(items, k) # 0 => CommentaryIndex(items, k) \in D BY IndexIsSaid
  <2>5. \A i \in 1..Len(items) : id[i] = i OBVIOUS
  <2> HIDE DEF id, D
  <2>6. c \in Seq(1..Len(items)) /\ \E p : Picks(c, id, D, p) BY <2>1, <2>2, ChosenFacts
  <2> HIDE DEF c
  <2>7. PICK p : Picks(c, id, D, p) BY <2>6
  <2>8. DOMAIN c = 1..Len(c) /\ Len(c) \in Nat BY <2>6, LenProperties
  <2>9. \A i \in 1..Len(c) : c[i] = p[i] BY <2>1, <2>5, <2>7 DEF Picks
  <2>10. ASSUME NEW x \in D PROVE Once(c, x)
    <3>1. PICK i \in 1..Len(c) : p[i] = x BY <2>7 DEF Picks
    <3>2. \A j \in 1..Len(c) : p[j] \in 1..Len(items) BY <2>1, <2>7 DEF Picks
    <3>3. \A j \in 1..Len(c) : p[j] = x => ~(i < j) /\ ~(j < i) BY <2>7, <3>1, <3>2 DEF Picks
    <3>4. \A j \in 1..Len(c) : p[j] = x <=> j = i BY <2>8, <3>1, <3>3
    <3>5. \A j \in DOMAIN c : c[j] = x <=> j = i BY <2>8, <2>9, <3>4
    <3> QED BY <2>8, <3>1, <3>5 DEF Once
  <2>11. c \in Seq(Nat \ {0})
    <3>1. \A i \in 1..Len(c) : c[i] \in Nat \ {0} BY <2>6
    <3> QED BY <2>6, <3>1
  <2> QED BY <2>3, <2>4, <2>10, <2>11
<1> QED BY <1>1, <1>2

\* The section before the first commentary is in front of the others.
LEMMA SectionOnce ==
  ASSUME NEW items \in Seq(ItemKinds), Positions(items, {"plan"}) = {}, NEW k \in Positions(items, {"tool"})
  PROVE  Once(Sections(items), CommentaryIndex(items, k))
<1> DEFINE c == Commentaries(items)
           x == CommentaryIndex(items, k)
<1>1. k \in DOMAIN items BY DEF Positions
<1>2. c \in Seq(Nat \ {0}) /\ (x # 0 => Once(c, x)) BY <1>1, CommentariesAre
<1>3. x = 0 => ToolsAt(items, 0) # {} BY DEF ToolsAt
<1>x. Sections(items) = (IF ToolsAt(items, 0) # {} THEN <<0>> ELSE <<>>) \o c BY DEF Sections
<1> HIDE DEF c, x
<1>4. CASE ToolsAt(items, 0) = {}
  <2>1. Sections(items) = c BY <1>2, <1>4, <1>x
  <2> QED BY <1>2, <1>3, <1>4, <2>1 DEF x
<1>5. CASE ToolsAt(items, 0) # {}
  <2> DEFINE s == <<0>> \o c
  <2>1. Sections(items) = s BY <1>5, <1>x
  <2>2. /\ Len(c) \in Nat /\ DOMAIN c = 1..Len(c) /\ DOMAIN s = 1..(Len(c) + 1) /\ s[1] = 0
        /\ \A i \in 2..(Len(c) + 1) : s[i] = c[i - 1]
    BY <1>2
  <2> HIDE DEF s
  <2>3. CASE x = 0
    <3>1. \A j \in DOMAIN s : s[j] = 0 <=> j = 1
      <4> TAKE j \in DOMAIN s
      <4>1. CASE j = 1 BY <2>2, <4>1
      <4>2. CASE j # 1
        <5>1. j \in 2..(Len(c) + 1) /\ j - 1 \in 1..Len(c) BY <2>2, <4>2
        <5>2. c[j - 1] # 0 BY <1>2, <2>2, <5>1
        <5> QED BY <2>2, <4>2, <5>1, <5>2
      <4> QED BY <4>1, <4>2
    <3>2. 1 \in DOMAIN s BY <2>2
    <3> QED BY <2>1, <2>3, <3>1, <3>2 DEF Once, x
  <2>4. CASE x # 0
    <3>1. PICK i \in DOMAIN c : \A j \in DOMAIN c : c[j] = x <=> j = i BY <1>2, <2>4 DEF Once
    <3>2. i + 1 \in DOMAIN s BY <2>2, <3>1
    <3>3. \A j \in DOMAIN s : s[j] = x <=> j = i + 1
      <4> TAKE j \in DOMAIN s
      <4>1. CASE j = 1 BY <2>2, <2>4, <3>1, <4>1
      <4>2. CASE j # 1
        <5>1. j \in 2..(Len(c) + 1) /\ j - 1 \in 1..Len(c) BY <2>2, <4>2
        <5>2. s[j] = c[j - 1] BY <2>2, <5>1
        <5>3. c[j - 1] = x <=> j - 1 = i BY <2>2, <3>1, <5>1
        <5>4. j \in Nat /\ i \in Nat BY <2>2, <3>1, <5>1
        <5> QED BY <5>2, <5>3, <5>4
      <4> QED BY <4>1, <4>2
    <3> QED BY <2>1, <3>2, <3>3 DEF Once, x
  <2> QED BY <2>3, <2>4
<1> QED BY <1>4, <1>5

LEMMA ToolListed ==
  ASSUME NEW items \in Seq(ItemKinds), Positions(items, {"plan"}) = {}, NEW k \in Positions(items, {"tool"})
  PROVE  Cardinality({i \in DOMAIN Sections(items) : k \in ToolsAt(items, Sections(items)[i])}) = 1
<1> DEFINE s == Sections(items)
           S == {i \in DOMAIN s : k \in ToolsAt(items, s[i])}
<1>1. PICK i \in DOMAIN s : \A j \in DOMAIN s : s[j] = CommentaryIndex(items, k) <=> j = i BY SectionOnce DEF Once
<1>2. \A j \in DOMAIN s : k \in ToolsAt(items, s[j]) <=> s[j] = CommentaryIndex(items, k) BY DEF ToolsAt
<1> HIDE DEF s
<1>3. S = {i} BY <1>1, <1>2
<1>4. Cardinality(S) = 1 BY <1>3, FS_Singleton
<1> QED BY <1>4 DEF s

\* An entry too long for the log card makes the turn's log too long for it.
LEMMA LongIsTruncated ==
  ASSUME NEW items \in Seq(ItemKinds), NEW k \in Positions(items, Logged), ~(Cost(items[k]) <= Limit)
  PROVE  Truncated(items)
<1> DEFINE entries == Positions(items, Logged)
           long == {j \in entries : items[j] = "longsay"}
<1>1. Limit \in Nat \ {0} BY DetailsAssumption
<1>2. items[k] = "longsay" BY <1>1 DEF Cost
<1>3. \A K \in SUBSET entries : Cardinality(K) \in Nat /\ (K # {} => Cardinality(K) > 0) BY PlacesAre
<1> HIDE DEF entries
<1>4. Cardinality(entries) \in Nat \ {0} BY <1>3 DEF entries
<1>5. long \in SUBSET entries /\ long # {} BY <1>2 DEF entries
<1>6. Length(items, entries) = Cardinality(entries) + Limit * Cardinality(long) BY DEF Length
<1> HIDE DEF long
<1>7. Cardinality(long) \in Nat \ {0} BY <1>3, <1>5
<1>8. \A a, b, d \in Nat \ {0} : a + b * d > b
  <2> TAKE a, b, d \in Nat \ {0}
  <2>1. b * d = b + b * (d - 1) BY SMT
  <2>2. b * (d - 1) >= 0 BY SMT
  <2>3. b * (d - 1) \in Int BY SMT
  <2> QED BY <2>1, <2>2, <2>3
<1>9. Length(items, entries) > Limit BY <1>1, <1>4, <1>6, <1>7, <1>8
<1> QED BY <1>9 DEF Truncated, entries

\* If any of the newest entries fit, the log shows those from one entry on.
LEMMA LogIsText ==
  ASSUME NEW items \in Seq(ItemKinds)
  PROVE  \/ LogShown(items) = [shown |-> {}, told |-> Positions(items, Logged) # {}, size |-> 0]
         \/ \E k \in Positions(items, Logged) :
              LogShown(items) = LogText(items, {j \in Positions(items, Logged) : j >= k})
<1> DEFINE entries == Positions(items, Logged)
           Newest(k) == {j \in entries : j >= k}
           ks == {j \in entries : Cardinality(Newest(j)) <= MaxLog}
           texts == {LogText(items, Newest(k)) : k \in ks}
           fit == {text \in texts : text.size <= Limit}
           best == CHOOSE text \in fit : \A other \in fit : other.shown \subseteq text.shown
<1>1. LogShown(items) = IF fit = {} THEN [shown |-> {}, told |-> entries # {}, size |-> 0] ELSE best
  BY DEF LogShown
<1>2. entries \subseteq Nat BY PlacesAre
<1>3. \A k, m : k \in ks /\ m \in ks /\ k <= m => LogText(items, Newest(m)).shown \subseteq LogText(items, Newest(k)).shown
  <2> SUFFICES ASSUME NEW k \in ks, NEW m \in ks, k <= m
               PROVE  LogText(items, Newest(m)).shown \subseteq LogText(items, Newest(k)).shown OBVIOUS
  <2>1. Newest(m) \subseteq Newest(k) BY <1>2
  <2> HIDE DEF Newest
  <2> QED BY <2>1 DEF LogText
<1>4. CASE fit # {}
  <2> DEFINE good == {k \in ks : LogText(items, Newest(k)) \in fit}
  <2>1. good \in SUBSET Nat /\ good # {} BY <1>2, <1>4
  <2>2. PICK k \in good : \A m \in good : k <= m BY <2>1, LeastNatural
  <2>3. \A other \in fit : other.shown \subseteq LogText(items, Newest(k)).shown
    <3> TAKE other \in fit
    <3>1. PICK m \in ks : other = LogText(items, Newest(m)) OBVIOUS
    <3>2. m \in good BY <3>1
    <3>3. k <= m /\ k \in ks BY <2>2, <3>2
    <3> QED BY <1>3, <3>1, <3>3
  <2>4. LogText(items, Newest(k)) \in fit BY <2>2
  <2> HIDE DEF fit
  <2>5. best \in fit BY <2>3, <2>4
  <2>6. PICK m \in ks : best = LogText(items, Newest(m)) BY <2>5 DEF fit
  <2> QED BY <1>1, <1>4, <2>6
<1> QED BY <1>1, <1>4

\* A log that leaves something out.
Tells(log) == log.hides /\ log.ended => log.told \/ log.file
LEMMA LogTells ==
  ASSUME NEW turn, turn.items \in Seq(ItemKinds)
  PROVE  Tells(DrawLog(turn))
<1> DEFINE items == turn.items
           entries == Positions(items, Logged)
           log == LogShown(items)
<1>1. SUFFICES ASSUME Positions(items, Logged \ {"compact"}) \ log.shown # {} PROVE log.told \/ Truncated(items)
  BY DEF DrawLog, Tells
<1>2. PICK h \in Positions(items, Logged \ {"compact"}) : h \notin log.shown BY <1>1
<1>3. h \in entries BY DEF Positions
<1> HIDE DEF log
<1>4. CASE log = [shown |-> {}, told |-> entries # {}, size |-> 0]
  <2>1. log.told = (entries # {}) BY <1>4
  <2> HIDE DEF entries
  <2>2. entries # {} BY <1>3
  <2> QED BY <2>1, <2>2
<1>5. ASSUME NEW k \in entries, log = LogText(items, {j \in entries : j >= k}) PROVE log.told \/ Truncated(items)
  <2> DEFINE shown == {j \in {i \in entries : i >= k} : Cost(items[j]) <= Limit}
             omits == \/ LogCount(items) > Cardinality(shown)
                      \/ \E i \in entries : \A j \in shown : i < j
           all == IF shown = {} THEN 0
                  ELSE Length(items, shown) + (IF LogCount(items) > 0 THEN 1 ELSE 0) + (IF omits THEN 1 ELSE 0)
  <2>0. log = [shown |-> shown, told |-> shown # {} /\ omits, size |-> all] BY <1>5, Zenon DEF LogText
  <2> HIDE DEF all
  <2>1. log.shown = shown /\ log.told = (shown # {} /\ omits) BY <2>0
  <2>2. entries \subseteq Nat BY PlacesAre
  <2>3. CASE h >= k
    <3>1. ~(Cost(items[h]) <= Limit) BY <1>2, <1>3, <2>1, <2>3
    <3> QED BY <1>3, <3>1, LongIsTruncated
  <2>4. CASE ~(h >= k) /\ shown # {}
    <3>1. \A j \in shown : h < j BY <1>3, <2>2, <2>4
    <3> QED BY <1>3, <2>1, <2>4, <3>1
  <2>5. CASE shown = {}
    <3>1. k \in {i \in entries : i >= k} BY <1>5, <2>2
    <3>2. ~(Cost(items[k]) <= Limit) BY <2>5, <3>1
    <3> QED BY <1>5, <3>2, LongIsTruncated
  <2> QED BY <2>3, <2>4, <2>5
<1> QED BY <1>4, <1>5, LogIsText DEF log

-----------------------------------------------------------------------------
(* The details of a turn: cards keep their turn and get their answer back   *)

\* A look at a turn is no later than the turn, and one made at its end holds its answer
\* where thread/read brings the items.
Sees(look, turn) ==
  Terminal(look) => Terminal(turn) /\ (~scene.bare /\ Answered(turn) => Answered(look))
\* Codex works on its last turn; the answer of a turn is its last item.
Ordered(ts) ==
  /\ ts \in Seq(Turn) /\ ts # <<>>
  /\ \A n \in DOMAIN ts :
       /\ n < Len(ts) => Terminal(ts[n])
       /\ \A k \in DOMAIN ts[n].items : ts[n].items[k] = "final" => k = Len(ts[n].items) /\ Terminal(ts[n])
TurnsInv == scene \in Scenes /\ Ordered(turns)
\* The row knows of turns there are, and no more of one than it has come to.
FromTurn(s, n, ts) == s.n = n /\ n <= Len(ts) /\ Sees(s.turn, ts[n]) /\ s.turn.items \in Seq(ItemKinds)
Faithful(r, ts) == \A n \in Nat \ {0} : \A s \in Shown(r, n) : FromTurn(s, n, ts)
IsCard(card) == card.kind \in {"none", "final", "details"}
\* A final card is of the turn its panel is about, which ended for the row too.  The log card
\* tells of what it leaves out.
SettledPanel(panel, r, ts) ==
  /\ panel = [n |-> panel.n, ended |-> panel.ended, log |-> panel.log, card |-> panel.card]
  /\ panel.n \in DOMAIN ts /\ IsCard(panel.card)
  /\ Tells(panel.log)
  /\ panel.ended => Terminal(ts[panel.n]) /\ \A s \in Shown(r, panel.n) : Terminal(s.turn)
  /\ panel.card.kind # "none" => panel.ended /\ panel.card.n = panel.n
Sound(ps, r, ts) == (\E S : ps \in Seq(S)) /\ \A p \in DOMAIN ps : SettledPanel(ps[p], r, ts)
PanelsInv == Sound(panels, row, turns)
\* What is pressed but the log file, and what is being edited, is a card that was sent.
PressesInv == \A b \in presses : b.act # "full_log_file" => b.panel \in DOMAIN panels /\ panels[b.panel].card.kind # "none"
Fits(card, n) ==
  /\ card.kind \in {"final", "details"} /\ card.n = n
  /\ card.kind = "final" /\ ~scene.bare /\ Answered(turns[n]) => card.answer
EditsInv ==
  \A e \in outbox : e.kind = "edit" =>
    e.panel \in DOMAIN panels /\ panels[e.panel].card.kind # "none" /\ Fits(e.card, panels[e.panel].n)
DetailsInv == TurnsInv /\ Faithful(row, turns) /\ PanelsInv /\ PressesInv /\ EditsInv

\* What Codex begins a turn with.
LEMMA Begin ==
  ASSUME scene \in Scenes, NEW used, NEW turn \in Begun(used)
  PROVE  turn \in Turn /\ turn.status = "active" /\ \A k \in DOMAIN turn.items : turn.items[k] # "final"
<1>1. turn.status = "active" /\ turn.items \in Seq(scene.kinds) /\ turn = [items |-> turn.items, status |-> "active"]
  BY DEF Begun, SeqOf
<1>2. scene.kinds \subseteq ItemKinds \ {"final"} BY DetailsAssumption DEF ItemKinds
<1>3. turn.items \in Seq(ItemKinds \ {"final"}) BY <1>1, <1>2
<1>4. turn.items \in Seq(ItemKinds) /\ \A k \in DOMAIN turn.items : turn.items[k] # "final" BY <1>3
<1> QED BY <1>1, <1>4 DEF Turn, TurnStatuses

\* Cutting a turn down to its last items keeps its answer.
LEMMA AnswerIsLast ==
  ASSUME NEW items \in Seq(ItemKinds), \A k \in DOMAIN items : items[k] = "final" => k = Len(items),
         Positions(items, {"final"}) # {}
  PROVE  Positions(LastItems(items), {"final"}) # {}
<1> DEFINE m == Larger(1, Len(items) - KeptItems + 1)
<1>1. Len(items) \in 1..Len(items) /\ items[Len(items)] = "final" BY DEF Positions
<1>2. KeptItems \in Nat \ {0} BY DetailsAssumption
<1>3. m \in 1..Len(items) BY <1>1, <1>2 DEF Larger
<1> HIDE DEF m
<1>4. Len(SubSeq(items, m, Len(items))) = Len(items) - m + 1 /\ SubSeq(items, m, Len(items))[Len(items) - m + 1] = "final"
  BY <1>1, <1>3
<1>5. Len(items) - m + 1 \in DOMAIN SubSeq(items, m, Len(items)) BY <1>1, <1>3, <1>4
<1>6. Positions(SubSeq(items, m, Len(items)), {"final"}) # {} BY <1>4, <1>5 DEF Positions
<1> QED BY <1>6 DEF LastItems, m

\* What the row holds of the turns as they are.
LEMMA HydratedTurns ==
  ASSUME scene \in Scenes, NEW ts, Ordered(ts)
  PROVE  /\ DOMAIN Hydrated(ts) = 1..Len(ts) /\ Len(Hydrated(ts)) = Len(ts)
         /\ \A n \in 1..Len(ts) : Hydrated(ts)[n].status = ts[n].status /\ (~scene.bare => Hydrated(ts)[n] = ts[n])
                                 /\ Hydrated(ts)[n] \in Turn
<1>1. CASE ~scene.bare
  <2>1. Hydrated(ts) = ts BY <1>1 DEF Hydrated
  <2>2. DOMAIN ts = 1..Len(ts) /\ \A n \in 1..Len(ts) : ts[n] \in Turn BY DEF Ordered
  <2> QED BY <2>1, <2>2
<1>2. CASE scene.bare
  <2>1. Hydrated(ts) = [n \in 1..Len(ts) |-> IF n = Len(ts) THEN Marked(ts[n]) ELSE [ts[n] EXCEPT !.items = <<>>]]
    BY <1>2 DEF Hydrated, Ordered
  <2>2. ASSUME NEW n \in 1..Len(ts)
        PROVE  ts[n] \in Turn /\ Marked(ts[n]).status = ts[n].status /\ Marked(ts[n]) \in Turn
    <3>1. ts[n] \in Turn BY DEF Ordered
    <3>2. CASE Marked(ts[n]) = ts[n] BY <3>1, <3>2
    <3>3. CASE Marked(ts[n]) # ts[n]
      <4>1. PICK k : Marked(ts[n]) = [ts[n] EXCEPT !.items[k] = "final"] BY <3>3 DEF Marked
      <4>2. Marked(ts[n]).status = ts[n].status BY <3>1, <4>1 DEF Turn
      <4>3. Marked(ts[n]).items = [ts[n].items EXCEPT ![k] = "final"] BY <3>1, <4>1 DEF Turn
      <4>4. ts[n].items \in Seq(ItemKinds) /\ "final" \in ItemKinds BY <3>1 DEF Turn, ItemKinds
      <4>5. [ts[n].items EXCEPT ![k] = "final"] \in Seq(ItemKinds)
        <5> DEFINE items == ts[n].items
        <5>1. items \in Seq(ItemKinds) BY <4>4
        <5> HIDE DEF items
        <5> DEFINE q == [items EXCEPT ![k] = "final"]
        <5>2. DOMAIN q = 1..Len(items) /\ Len(items) \in Nat BY <5>1, LenProperties
        <5>3. \A i \in 1..Len(items) : q[i] \in ItemKinds BY <4>4, <5>1, LenProperties
        <5>4. q = [i \in 1..Len(items) |-> q[i]] BY <5>1
        <5> HIDE DEF q
        <5>5. q \in Seq(ItemKinds) BY <5>2, <5>3, <5>4
        <5> QED BY <5>5 DEF q, items
      <4>6. Marked(ts[n]) = [ts[n] EXCEPT !.items = Marked(ts[n]).items] BY <3>1, <4>1, <4>3 DEF Turn
      <4> QED BY <3>1, <4>2, <4>3, <4>5, <4>6 DEF Turn
    <3> QED BY <3>1, <3>2, <3>3
  <2>3. ASSUME NEW n \in 1..Len(ts)
        PROVE  Hydrated(ts)[n].status = ts[n].status /\ Hydrated(ts)[n] \in Turn
    <3> HIDE DEF Marked
    <3>1. CASE n = Len(ts) BY <2>1, <2>2, <3>1
    <3>2. CASE n # Len(ts)
      <4>1. Hydrated(ts)[n] = [ts[n] EXCEPT !.items = <<>>] BY <2>1, <3>2
      <4>2. ts[n] \in Turn BY <2>2
      <4>3. <<>> \in Seq(ItemKinds) OBVIOUS
      <4> QED BY <4>1, <4>2, <4>3 DEF Turn
    <3> QED BY <3>1, <3>2
  <2>4. Len(ts) \in Nat BY DEF Ordered
  <2>5. DOMAIN Hydrated(ts) = 1..Len(ts) BY <2>1
  <2>6. Len(Hydrated(ts)) = Len(ts) BY <2>4, <2>5
  <2> QED BY <1>2, <2>3, <2>5, <2>6
<1> QED BY <1>1, <1>2

LEMMA LastAreItems ==
  ASSUME NEW items \in Seq(ItemKinds)
  PROVE  LastItems(items) \in Seq(ItemKinds)
<1>1. Larger(1, Len(items) - KeptItems + 1) \in Nat \ {0}
  <2>1. KeptItems \in Nat BY DetailsAssumption
  <2>2. Len(items) \in Nat BY LenProperties
  <2> QED BY <2>1, <2>2 DEF Larger
<1>2. \A m \in Nat \ {0} : SubSeq(items, m, Len(items)) \in Seq(ItemKinds) OBVIOUS
<1> QED BY <1>1, <1>2 DEF LastItems

\* A read sees the turns as they are.
LEMMA ReadSees ==
  ASSUME TurnsInv, NEW n \in Nat \ {0}, NEW s \in Shown(Read(Hydrated(turns)), n)
  PROVE  /\ s.n = n /\ n \in 1..Len(turns) /\ s.turn.status = turns[n].status /\ Sees(s.turn, turns[n])
         /\ s.turn.items \in Seq(ItemKinds)
<1> DEFINE h == Hydrated(turns)
<1>a. Len(turns) \in Nat \ {0} /\ \A k \in 1..Len(turns) : turns[k] \in Turn BY DEF TurnsInv, Ordered
<1>b. DOMAIN h = 1..Len(turns) /\ Len(h) = Len(turns)
      /\ \A k \in 1..Len(turns) : h[k].status = turns[k].status /\ (~scene.bare => h[k] = turns[k])
                                 /\ h[k] \in Turn
  BY HydratedTurns DEF TurnsInv
<1> HIDE DEF h
<1>1. Read(h) = [latest |-> Len(turns), turn |-> h[Len(turns)], older |-> Compact(h)] BY <1>b DEF Read
<1>2. CASE n = Len(turns)
  <2>1. s.n = n /\ s.turn = h[n] BY <1>1, <1>2 DEF Shown, h
  <2>2. Sees(s.turn, turns[n]) BY <1>a, <1>b, <1>2, <2>1 DEF Sees, Answered, Terminal
  <2>3. s.turn.items \in Seq(ItemKinds) BY <1>a, <1>b, <1>2, <2>1 DEF Turn
  <2> QED BY <1>a, <1>b, <1>2, <2>1, <2>2, <2>3
<1>3. CASE n # Len(turns)
  <2>1. n \in DOMAIN Compact(h) /\ s.n = n /\ s.turn = Compact(h)[n] BY <1>1, <1>3 DEF Shown, h
  <2>2. n \in 1..Len(turns) /\ s.turn = [h[n] EXCEPT !.items = LastItems(@)] BY <1>b, <2>1 DEF Compact
  <2>3. s.turn.status = h[n].status BY <2>2
  <2>5. s.turn.items \in Seq(ItemKinds)
    <3> HIDE DEF LastItems
    <3>1. s.turn.items = LastItems(h[n].items) /\ h[n].items \in Seq(ItemKinds) BY <1>b, <2>2 DEF Turn
    <3> QED BY <3>1, LastAreItems
  <2>4. ASSUME ~scene.bare, Answered(turns[n]) PROVE Answered(s.turn)
    <3>1. s.turn.items = LastItems(turns[n].items) BY <1>a, <1>b, <2>2, <2>4 DEF Turn
    <3>2. turns[n].items \in Seq(ItemKinds) BY <1>a, <2>2 DEF Turn
    <3>3. \A k \in DOMAIN turns[n].items : turns[n].items[k] = "final" => k = Len(turns[n].items)
      BY <2>2 DEF TurnsInv, Ordered
    <3>4. Positions(s.turn.items, {"final"}) # {} BY <2>4, <3>1, <3>2, <3>3, AnswerIsLast DEF Answered
    <3> QED BY <1>b, <2>2, <2>3, <2>4, <3>4 DEF Answered, Terminal
  <2> QED BY <1>b, <2>1, <2>2, <2>3, <2>4, <2>5 DEF Sees, Terminal
<1> QED BY <1>2, <1>3

\* Cards that were sent stay on their panels, and the panels with their turns.
Keeps(ps, qs) ==
  \A p \in DOMAIN ps : /\ p \in DOMAIN qs
                       /\ ps[p].card.kind # "none" => qs[p].card = ps[p].card /\ qs[p].n = ps[p].n

\* A card may be put on a panel whose turn has ended.
WithCard(ps, p, c) == [ps EXCEPT ![p].card = c]
Suits(card, panel) == IsCard(card) /\ (card.kind # "none" => panel.ended /\ card.n = panel.n)
LEMMA PanelEdit ==
  ASSUME NEW r, NEW ts, NEW ps, Sound(ps, r, ts), NEW p \in DOMAIN ps, NEW c, NEW q, q = WithCard(ps, p, c)
  PROVE  /\ DOMAIN q = DOMAIN ps /\ \A k \in DOMAIN ps : k # p => q[k] = ps[k]
         /\ q[p] = [n |-> ps[p].n, ended |-> ps[p].ended, log |-> ps[p].log, card |-> c]
         /\ Suits(c, ps[p]) => Sound(q, r, ts) /\ (ps[p].card.kind = "none" => Keeps(ps, q))
<1>1. PICK S : ps \in Seq(S) BY DEF Sound
<1>2. ps[p] = [n |-> ps[p].n, ended |-> ps[p].ended, log |-> ps[p].log, card |-> ps[p].card] BY DEF Sound, SettledPanel
<1>3. q[p] = [n |-> ps[p].n, ended |-> ps[p].ended, log |-> ps[p].log, card |-> c]
  <2>1. q[p] = [ps[p] EXCEPT !.card = c] BY <1>1 DEF WithCard
  <2> QED BY <1>2, <2>1
<1>4. DOMAIN q = DOMAIN ps /\ Len(q) = Len(ps) /\ q \in Seq(S \cup {q[p]}) /\ \A k \in DOMAIN ps : k # p => q[k] = ps[k]
  <2>1. DOMAIN q = 1..Len(ps) /\ Len(ps) \in Nat /\ DOMAIN ps = 1..Len(ps) BY <1>1 DEF WithCard
  <2>2. \A k \in DOMAIN ps : k # p => q[k] = ps[k] BY <1>1 DEF WithCard
  <2>3. \A k \in 1..Len(ps) : q[k] \in S \cup {q[p]} BY <1>1, <2>1, <2>2
  <2>4. q = [k \in 1..Len(ps) |-> q[k]]
    <3> DEFINE x == [ps[p] EXCEPT !.card = c]
    <3>1. q = [ps EXCEPT ![p] = x] BY DEF WithCard
    <3> HIDE DEF x
    <3> DEFINE f == [ps EXCEPT ![p] = x]
    <3>2. f = [k \in 1..Len(ps) |-> f[k]] BY <1>1
    <3> HIDE DEF f
    <3>3. q = f BY <3>1 DEF f
    <3> QED BY <3>2, <3>3
  <2> QED BY <2>1, <2>2, <2>3, <2>4
<1>5. ASSUME Suits(c, ps[p]) PROVE  Sound(q, r, ts) /\ (ps[p].card.kind = "none" => Keeps(ps, q))
  <2>1. SettledPanel(q[p], r, ts) BY <1>3, <1>5 DEF Sound, SettledPanel, Suits
  <2>2. \A k \in DOMAIN q : SettledPanel(q[k], r, ts) BY <1>4, <2>1 DEF Sound
  <2> QED BY <1>4, <2>2 DEF Sound, Keeps
<1> QED BY <1>3, <1>4, <1>5

\* The repair of the last panel, the panel of the latest turn and its final card, in the order of a poll.
LEMMA SupersededKeeps ==
  ASSUME NEW r, NEW ts, NEW ps, Sound(ps, r, ts), DOMAIN ts \subseteq Nat \ {0},
         \A n \in DOMAIN ts : \A s \in Shown(r, n) : s.n = n
  PROVE  Sound(Superseded(ps, r), r, ts) /\ Keeps(ps, Superseded(ps, r))
<1> DEFINE p == Len(ps)
           found == {s \in Shown(r, ps[p].n) : Answered(s.turn)}
           c == IF found = {} THEN ps[p].card ELSE LET s == CHOOSE x \in found : TRUE IN FinalCard(s.n, s.turn, FALSE)
<1>1. CASE Superseded(ps, r) = ps BY <1>1 DEF Keeps
<1>2. CASE Superseded(ps, r) # ps
  <2>1. ps # <<>> /\ ps[p].ended /\ ps[p].card.kind = "none" /\ Superseded(ps, r) = [ps EXCEPT ![p].card = c]
    BY <1>2 DEF Superseded
  <2>2. p \in DOMAIN ps
    <3>1. PICK S : ps \in Seq(S) BY DEF Sound
    <3> QED BY <2>1, <3>1
  <2>3. c.kind \in {"none", "final"} /\ (c.kind # "none" => c.n = ps[p].n)
    <3>1. CASE found = {} BY <2>1, <3>1
    <3>2. CASE found # {}
      <4>1. PICK s \in found : c = FinalCard(s.n, s.turn, FALSE) BY <3>2
      <4>2. s.n = ps[p].n BY <2>2 DEF Sound, SettledPanel
      <4> QED BY <4>1, <4>2 DEF FinalCard
    <3> QED BY <3>1, <3>2
  <2> HIDE DEF c
  <2>4. Suits(c, ps[p]) BY <2>1, <2>3 DEF IsCard, Suits
  <2>5. Superseded(ps, r) = WithCard(ps, p, c) BY <2>1 DEF WithCard
  <2> QED BY <2>1, <2>2, <2>4, <2>5, PanelEdit
<1> QED BY <1>1, <1>2

LEMMA DrawnKeeps ==
  ASSUME NEW r, NEW ts, NEW ps, Sound(ps, r, ts), r.latest \in DOMAIN ts, Terminal(r.turn) <=> Terminal(ts[r.latest]),
         r.turn.items \in Seq(ItemKinds)
  PROVE  /\ Sound(Drawn(ps, r), r, ts) /\ Keeps(ps, Drawn(ps, r))
         /\ LET last == Len(Drawn(ps, r)) IN
            last \in DOMAIN Drawn(ps, r) /\ Drawn(ps, r)[last].n = r.latest /\ Drawn(ps, r)[last].ended = Terminal(r.turn)
<1> DEFINE new == ps = <<>> \/ (ps[Len(ps)].n # r.latest /\ ps[Len(ps)].ended)
           card == IF new THEN NoCard ELSE ps[Len(ps)].card
           panel == [n |-> r.latest, ended |-> Terminal(r.turn), log |-> DrawLog(r.turn), card |-> card]
<1>1. PICK S : ps \in Seq(S) BY DEF Sound
<1>2. \A s \in Shown(r, r.latest) : s.turn = r.turn BY DEF Shown
<1>5. Tells(panel.log)
  <2>1. panel.log = DrawLog(r.turn) OBVIOUS
  <2> HIDE DEF panel
  <2> QED BY <2>1, LogTells
<1>3. CASE new
  <2>1. Drawn(ps, r) = Append(ps, panel) BY <1>3 DEF Drawn
  <2>2. panel.card.kind = "none" /\ IsCard(panel.card) BY <1>3 DEF NoCard, IsCard
  <2>3. /\ panel.n = r.latest /\ panel.ended = Terminal(r.turn)
        /\ panel = [n |-> panel.n, ended |-> panel.ended, log |-> panel.log, card |-> panel.card] OBVIOUS
  <2> HIDE DEF panel
  <2>4. SettledPanel(panel, r, ts) BY <1>2, <1>5, <2>2, <2>3 DEF SettledPanel
  <2>5. Append(ps, panel) \in Seq(S \cup {panel}) /\ Len(Append(ps, panel)) = Len(ps) + 1
        /\ (\A k \in 1..Len(ps) : Append(ps, panel)[k] = ps[k]) /\ Append(ps, panel)[Len(ps) + 1] = panel
        /\ DOMAIN ps = 1..Len(ps) /\ Len(ps) \in Nat /\ DOMAIN Append(ps, panel) = 1..(Len(ps) + 1)
    BY <1>1
  <2>6. \A k \in DOMAIN Append(ps, panel) : SettledPanel(Append(ps, panel)[k], r, ts) BY <2>4, <2>5 DEF Sound
  <2> QED BY <2>1, <2>3, <2>5, <2>6 DEF Sound, Keeps
<1>4. CASE ~new
  <2> DEFINE p == Len(ps)
  <2>1. p \in DOMAIN ps /\ DOMAIN ps = 1..p /\ p \in Nat BY <1>1, <1>4
  <2>2. Drawn(ps, r) = [ps EXCEPT ![p] = panel] BY <1>4 DEF Drawn
  <2>3. /\ panel.n = r.latest /\ panel.ended = Terminal(r.turn) /\ panel.card = ps[p].card
        /\ panel = [n |-> panel.n, ended |-> panel.ended, log |-> panel.log, card |-> panel.card] BY <1>4
  <2>4. /\ ps[p].card.kind # "none" => ps[p].n = r.latest /\ Terminal(r.turn) /\ ps[p].card.n = r.latest
        /\ IsCard(ps[p].card)
    BY <1>4, <2>1 DEF Sound, SettledPanel
  <2> HIDE DEF panel
  <2>5. SettledPanel(panel, r, ts) BY <1>2, <1>5, <2>3, <2>4 DEF SettledPanel
  <2> DEFINE q == [ps EXCEPT ![p] = panel]
  <2>6. q \in Seq(S \cup {panel}) /\ Len(q) = p /\ DOMAIN q = 1..p /\ q[p] = panel /\ \A k \in 1..p : k # p => q[k] = ps[k]
    BY <1>1, <2>1
  <2> HIDE DEF q
  <2>7. \A k \in DOMAIN q : SettledPanel(q[k], r, ts) BY <2>1, <2>5, <2>6 DEF Sound
  <2>8. Sound(q, r, ts) BY <2>6, <2>7 DEF Sound
  <2>9. Keeps(ps, q) BY <2>1, <2>3, <2>4, <2>6 DEF Keeps
  <2> QED BY <2>1, <2>2, <2>3, <2>6, <2>8, <2>9 DEF q
<1> QED BY <1>3, <1>4

LEMMA FinalKeeps ==
  ASSUME NEW r, NEW ts, NEW ps, Sound(ps, r, ts), Len(ps) \in DOMAIN ps, ps[Len(ps)].n = r.latest,
         ps[Len(ps)].ended = Terminal(r.turn)
  PROVE  Sound(WithFinal(ps, r), r, ts) /\ Keeps(ps, WithFinal(ps, r))
<1> DEFINE c == FinalCard(r.latest, r.turn, ~Answered(r.turn))
<1>1. CASE WithFinal(ps, r) = ps BY <1>1 DEF Keeps
<1>2. CASE WithFinal(ps, r) # ps
  <2>1. Terminal(r.turn) /\ ps[Len(ps)].card.kind = "none" /\ WithFinal(ps, r) = [ps EXCEPT ![Len(ps)].card = c]
    BY <1>2 DEF WithFinal
  <2>2. Suits(c, ps[Len(ps)]) BY <2>1 DEF FinalCard, IsCard, Suits
  <2> HIDE DEF c
  <2>3. WithFinal(ps, r) = WithCard(ps, Len(ps), c) BY <2>1 DEF WithCard
  <2> QED BY <2>1, <2>2, <2>3, PanelEdit
<1> QED BY <1>1, <1>2

\* A poll leaves the cards that were sent.
LEMMA PollKeeps ==
  ASSUME DetailsInv, NEW upTo \in {"row", "log", "card"}, Poll(upTo)
  PROVE  DetailsInv' /\ Keeps(panels, panels')
<1>a. scene' = scene /\ turns' = turns /\ presses' = presses /\ outbox' = outbox /\ row' = Read(Hydrated(turns)) BY DEF Poll
<1>b. Len(turns) \in Nat \ {0} /\ DOMAIN turns = 1..Len(turns) BY DEF DetailsInv, TurnsInv, Ordered
<1>c. \A n \in Nat \ {0} : \A s \in Shown(row', n) :
        /\ s.n = n /\ n \in 1..Len(turns) /\ s.turn.status = turns[n].status /\ Sees(s.turn, turns[n])
        /\ s.turn.items \in Seq(ItemKinds)
  BY <1>a, ReadSees DEF DetailsInv
<1>1. Faithful(row', turns)
  <2>1. \A n \in Nat \ {0} : \A s \in Shown(row', n) : FromTurn(s, n, turns) BY <1>b, <1>c DEF FromTurn
  <2> QED BY <2>1 DEF Faithful
<1>2. /\ row'.latest = Len(turns) /\ (Terminal(row'.turn) <=> Terminal(turns[Len(turns)]))
      /\ row'.turn.items \in Seq(ItemKinds)
  <2>1. row'.latest = Len(turns) /\ row'.turn = Hydrated(turns)[Len(turns)]
    BY <1>a, HydratedTurns DEF Read, DetailsInv, TurnsInv
  <2>2. Hydrated(turns)[Len(turns)].status = turns[Len(turns)].status /\ Hydrated(turns)[Len(turns)].items \in Seq(ItemKinds)
    BY <1>b, HydratedTurns DEF DetailsInv, TurnsInv, Turn
  <2> QED BY <2>1, <2>2 DEF Terminal
<1>3. Sound(panels, row', turns)
  <2>1. ASSUME NEW p \in DOMAIN panels PROVE SettledPanel(panels[p], row', turns)
    <3>1. SettledPanel(panels[p], row, turns) BY DEF DetailsInv, PanelsInv, Sound
    <3>2. panels[p].n \in Nat \ {0} BY <1>b, <3>1 DEF SettledPanel
    <3>3. Terminal(turns[panels[p].n]) => \A s \in Shown(row', panels[p].n) : Terminal(s.turn)
      BY <1>c, <3>2 DEF Terminal
    <3> QED BY <3>1, <3>3 DEF SettledPanel
  <2> QED BY <2>1 DEF DetailsInv, PanelsInv, Sound
<1> DEFINE repaired == Superseded(panels, row')
           drawn == Drawn(repaired, row')
           finished == WithFinal(drawn, row')
<1>4. Sound(repaired, row', turns) /\ Keeps(panels, repaired)
  <2>1. DOMAIN turns \subseteq Nat \ {0} /\ \A n \in DOMAIN turns : \A s \in Shown(row', n) : s.n = n BY <1>b, <1>c
  <2> QED BY <1>3, <2>1, SupersededKeeps
<1> HIDE DEF repaired
<1>5. /\ Sound(drawn, row', turns) /\ Keeps(repaired, drawn)
      /\ Len(drawn) \in DOMAIN drawn /\ drawn[Len(drawn)].n = row'.latest /\ drawn[Len(drawn)].ended = Terminal(row'.turn)
  BY <1>b, <1>2, <1>4, DrawnKeeps
<1> HIDE DEF drawn
<1>6. Sound(finished, row', turns) /\ Keeps(drawn, finished) BY <1>5, FinalKeeps
<1>7. panels' \in {panels, drawn, finished} BY DEF Poll, repaired, drawn
<1> HIDE DEF finished
<1>8. Sound(panels', row', turns) /\ Keeps(panels, panels')
  <2>1. Keeps(panels, panels) BY DEF Keeps
  <2>2. Keeps(panels, drawn) BY <1>4, <1>5 DEF Keeps
  <2>3. Keeps(panels, finished) BY <1>6, <2>2 DEF Keeps
  <2> QED BY <1>3, <1>5, <1>6, <1>7, <2>1, <2>2, <2>3
<1>9. PressesInv' BY <1>a, <1>8 DEF DetailsInv, PressesInv, Keeps
<1>10. EditsInv' BY <1>a, <1>8 DEF DetailsInv, EditsInv, Keeps, Fits, Answered
<1>11. Faithful(row, turns)' BY <1>a, <1>1 DEF Faithful, FromTurn, Sees
<1> QED BY <1>a, <1>8, <1>9, <1>10, <1>11 DEF DetailsInv, TurnsInv, PanelsInv

\* Of the turns a card was sent for nothing is to come.
LEMMA TurnsGo ==
  ASSUME DetailsInv, EndTurn \/ StartTurn
  PROVE  DetailsInv'
<1>a. /\ scene' = scene /\ row' = row /\ panels' = panels /\ presses' = presses /\ outbox' = outbox
      /\ Len(turns) \in Nat \ {0} /\ DOMAIN turns = 1..Len(turns) /\ turns \in Seq(Turn) /\ scene \in Scenes
  <2>1. UNCHANGED <<scene, row, panels, presses, outbox>> BY DEF EndTurn, StartTurn
  <2>2. turns \in Seq(Turn) /\ turns # <<>> /\ scene \in Scenes BY DEF DetailsInv, TurnsInv, Ordered
  <2> QED BY <2>1, <2>2
<1>1. Ordered(turns') /\ Len(turns') >= Len(turns)
      /\ \A n \in 1..Len(turns) : turns'[n] = turns[n] \/ ~Terminal(turns[n])
  <2>1. CASE EndTurn
    <3>1. PICK said \in {<<>>, <<"final">>}, how \in {"completed", "interrupted"} :
            turns' = [turns EXCEPT ![Len(turns)] = [items |-> turns[Len(turns)].items \o said, status |-> how]]
      BY <2>1 DEF EndTurn
    <3> DEFINE last == turns[Len(turns)]
               t == [items |-> last.items \o said, status |-> how]
    <3>2. last.status = "active" /\ last \in Turn BY <1>a, <2>1 DEF EndTurn, Now
    <3>3. last.items \in Seq(ItemKinds) /\ (said = <<>> \/ said = <<"final">>) /\ "final" \in ItemKinds
      BY <3>2 DEF Turn, ItemKinds
    <3>4. \A k \in DOMAIN last.items : last.items[k] # "final"
      BY <1>a, <3>2 DEF DetailsInv, TurnsInv, Ordered, Terminal
    <3>5. t \in Turn
      <4>1. last.items \o said \in Seq(ItemKinds)
        <5>1. CASE said = <<>> BY <3>3, <5>1
        <5>2. CASE said = <<"final">>
          <6>1. <<"final">> \in Seq(ItemKinds) BY <3>3
          <6> QED BY <3>3, <5>2, <6>1
        <5> QED BY <3>3, <5>1, <5>2
      <4> QED BY <4>1 DEF Turn, TurnStatuses
    <3>6. \A k \in DOMAIN t.items : t.items[k] = "final" => k = Len(t.items)
      <4>1. CASE said = <<>> BY <3>3, <3>4, <4>1
      <4>2. CASE said = <<"final">> BY <3>3, <3>4, <4>2
      <4> QED BY <3>3, <4>1, <4>2
    <3>7. Terminal(t) BY DEF Terminal
    <3> HIDE DEF t
    <3>8. turns' \in Seq(Turn) /\ Len(turns') = Len(turns) /\ DOMAIN turns' = 1..Len(turns) /\ turns'[Len(turns)] = t
          /\ \A n \in 1..Len(turns) : n # Len(turns) => turns'[n] = turns[n]
      <4> DEFINE f == [turns EXCEPT ![Len(turns)] = t]
      <4>1. f \in Seq(Turn) /\ Len(f) = Len(turns) /\ DOMAIN f = 1..Len(turns) /\ f[Len(turns)] = t
            /\ \A n \in 1..Len(turns) : n # Len(turns) => f[n] = turns[n]
        <5>1. turns \in Seq(Turn) /\ Len(turns) \in Nat \ {0} /\ DOMAIN turns = 1..Len(turns) BY <1>a
        <5>2. DOMAIN f = 1..Len(turns) BY <5>1
        <5>3. f \in Seq(Turn) /\ Len(f) = Len(turns) BY <5>1, <3>5
        <5>4. f[Len(turns)] = t BY <5>1
        <5>5. \A n \in 1..Len(turns) : n # Len(turns) => f[n] = turns[n] BY <5>1
        <5> HIDE DEF f
        <5> QED BY <5>1, <5>2, <5>3, <5>4, <5>5
      <4>2. turns' = f BY <3>1 DEF t
      <4> HIDE DEF f
      <4> QED BY <4>1, <4>2
    <3>9. Ordered(turns')
      <4>1. \A n \in DOMAIN turns' :
              /\ n < Len(turns') => Terminal(turns'[n])
              /\ \A k \in DOMAIN turns'[n].items :
                   turns'[n].items[k] = "final" => k = Len(turns'[n].items) /\ Terminal(turns'[n])
        BY <1>a, <3>6, <3>7, <3>8 DEF DetailsInv, TurnsInv, Ordered
      <4>2. turns' # <<>> BY <1>a, <3>8
      <4> QED BY <3>8, <4>1, <4>2 DEF Ordered
    <3>10. ~Terminal(last) BY <3>2 DEF Terminal
    <3>11. \A n \in 1..Len(turns) : turns'[n] = turns[n] \/ ~Terminal(turns[n]) BY <3>8, <3>10
    <3>12. Len(turns') >= Len(turns)
      <4>1. Len(turns) \in Nat BY <1>a
      <4>2. Len(turns') = Len(turns) BY <3>8
      <4> QED BY <4>1, <4>2
    <3> QED BY <3>9, <3>11, <3>12
  <2>2. CASE StartTurn
    <3>1. PICK turn \in Begun(Made) : turns' = Append(turns, turn) BY <2>2 DEF StartTurn
    <3>2. turn \in Turn /\ turn.status = "active" /\ \A k \in DOMAIN turn.items : turn.items[k] # "final"
      BY <1>a, Begin
    <3>3. turns' \in Seq(Turn) /\ Len(turns') = Len(turns) + 1 /\ DOMAIN turns' = 1..(Len(turns) + 1)
          /\ turns'[Len(turns) + 1] = turn /\ \A n \in 1..Len(turns) : turns'[n] = turns[n]
      BY <1>a, <3>1, <3>2
    <3>4. Terminal(turns[Len(turns)]) BY <2>2 DEF StartTurn, Now, Terminal
    <3>5. \A n \in 1..Len(turns) : Terminal(turns[n]) BY <1>a, <3>4 DEF DetailsInv, TurnsInv, Ordered
    <3>6. \A n \in DOMAIN turns' :
            /\ n < Len(turns') => Terminal(turns'[n])
            /\ \A k \in DOMAIN turns'[n].items :
                 turns'[n].items[k] = "final" => k = Len(turns'[n].items) /\ Terminal(turns'[n])
      BY <1>a, <3>2, <3>3, <3>5 DEF DetailsInv, TurnsInv, Ordered
    <3>7. turns' # <<>> BY <1>a, <3>3
    <3> QED BY <1>a, <3>3, <3>6, <3>7 DEF Ordered
  <2> QED BY <2>1, <2>2
<1>b. Len(turns') \in Nat /\ DOMAIN turns' = 1..Len(turns') BY <1>1 DEF Ordered
<1>2. Faithful(row, turns')
  <2>1. ASSUME NEW n \in Nat \ {0}, NEW s \in Shown(row, n)
        PROVE  FromTurn(s, n, turns')
    <3>1. s.n = n /\ n \in 1..Len(turns) /\ Sees(s.turn, turns[n]) /\ s.turn.items \in Seq(ItemKinds)
      BY <1>a DEF DetailsInv, Faithful, FromTurn
    <3>2. turns'[n] = turns[n] \/ ~Terminal(turns[n]) BY <1>1, <3>1
    <3>3. Sees(s.turn, turns'[n]) BY <3>1, <3>2 DEF Sees
    <3>4. n <= Len(turns') BY <1>a, <1>b, <1>1, <3>1
    <3> QED BY <3>1, <3>3, <3>4 DEF FromTurn
  <2> QED BY <2>1 DEF Faithful
<1>3. PanelsInv'
  <2>1. ASSUME NEW p \in DOMAIN panels PROVE SettledPanel(panels[p], row, turns')
    BY <1>a, <1>b, <1>1 DEF DetailsInv, PanelsInv, Sound, SettledPanel
  <2> QED BY <1>a, <2>1 DEF DetailsInv, PanelsInv, Sound
<1>4. EditsInv'
  <2>1. ASSUME NEW e \in outbox, e.kind = "edit" PROVE turns'[panels[e.panel].n] = turns[panels[e.panel].n]
    <3>1. e.panel \in DOMAIN panels /\ panels[e.panel].card.kind # "none" BY <2>1 DEF DetailsInv, EditsInv
    <3>2. Terminal(turns[panels[e.panel].n]) /\ panels[e.panel].n \in 1..Len(turns)
      BY <1>a, <3>1 DEF DetailsInv, PanelsInv, Sound, SettledPanel
    <3> QED BY <1>1, <3>2
  <2> QED BY <1>a, <2>1 DEF DetailsInv, EditsInv, Fits
<1>5. Faithful(row, turns)' BY <1>a, <1>2 DEF Faithful, FromTurn, Sees
<1> QED BY <1>a, <1>1, <1>3, <1>4, <1>5 DEF DetailsInv, TurnsInv, PressesInv

\* A button is on the card it belongs to.
LEMMA ButtonsGo ==
  ASSUME DetailsInv, NEW p \in DOMAIN panels, PressButton(p)
  PROVE  DetailsInv'
<1>1. PICK b \in CardButtons(p) : presses' = presses \cup {b} BY DEF PressButton
<1>2. b.panel = p /\ (b.act # "full_log_file" => panels[p].card.kind # "none")
  <2>1. \A acts, view : \A x \in {Button(p, act, view) : act \in acts} : x.panel = p BY DEF Button
  <2>2. CASE b = [panel |-> p, n |-> panels[p].n, act |-> "full_log_file", view |-> Opened] BY <2>2
  <2>3. CASE panels[p].card.kind = "none" /\ b # [panel |-> p, n |-> panels[p].n, act |-> "full_log_file", view |-> Opened]
    BY <1>1, <2>3 DEF CardButtons
  <2>4. CASE panels[p].card.kind = "final" BY <1>1, <2>4 DEF CardButtons, Button
  <2>5. CASE panels[p].card.kind = "details" BY <1>1, <2>5 DEF CardButtons, Button
  <2>6. panels[p].card.kind \in {"none", "final", "details"} BY DEF DetailsInv, PanelsInv, Sound, SettledPanel, IsCard
  <2> QED BY <2>2, <2>3, <2>4, <2>5, <2>6
<1>a. scene' = scene /\ turns' = turns /\ row' = row /\ panels' = panels /\ outbox' = outbox BY DEF PressButton
<1>3. PressesInv' BY <1>a, <1>1, <1>2 DEF DetailsInv, PressesInv
<1>4. EditsInv' BY <1>a DEF DetailsInv, EditsInv, Fits
<1>5. Faithful(row, turns)' BY <1>a DEF DetailsInv, Faithful, FromTurn, Sees
<1> QED BY <1>a, <1>3, <1>4, <1>5 DEF DetailsInv, TurnsInv, PanelsInv

\* What answers a press, and what was pressed, is of the card it was pressed on.
LEMMA PressesGo ==
  ASSUME DetailsInv, NEW b \in presses, Answer(b) \/ TurnOffPlan(b) \/ SendToolsFile(b) \/ SendFullLog(b)
  PROVE  DetailsInv'
<1>a. /\ scene' = scene /\ turns' = turns /\ row' = row /\ panels' = panels /\ presses' = presses \ {b}
  BY DEF Answer, TurnOffPlan, SendToolsFile, SendFullLog
<1>1. \A e \in outbox' \ outbox : e.kind = "edit" =>
        e.panel \in DOMAIN panels /\ panels[e.panel].card.kind # "none" /\ Fits(e.card, panels[e.panel].n)
  <2> SUFFICES ASSUME NEW e \in outbox' \ outbox, e.kind = "edit"
               PROVE  e.panel \in DOMAIN panels /\ panels[e.panel].card.kind # "none" /\ Fits(e.card, panels[e.panel].n)
    OBVIOUS
  <2>1. Answer(b) \/ TurnOffPlan(b) BY DEF SendToolsFile, SendFullLog
  <2> DEFINE n == panels[b.panel].n
  <2>2. b.panel \in DOMAIN panels /\ panels[b.panel].card.kind # "none"
    BY <2>1 DEF Answer, TurnOffPlan, DetailsInv, PressesInv
  <2>3. PICK s \in Shown(row, n) : e.panel = b.panel /\ (\/ \E i : e.card = FinalCard(s.n, s.turn, i)
                                                        \/ \E v : e.card = DetailsCard(s.n, s.turn, v)
                                                        \/ e.card = [FinalCard(s.n, s.turn, FALSE) EXCEPT !.planLike = FALSE])
    <3>1. CASE Answer(b)
      <4>1. PICK s \in Shown(row, n) :
              e = [kind |-> "edit", panel |-> b.panel,
                   card |-> IF b.act = "details_back" THEN FinalCard(s.n, s.turn, FALSE)
                            ELSE DetailsCard(s.n, s.turn, NewView(b.act, b.view, s.turn.items))]
        BY <3>1 DEF Answer
      <4>2. CASE b.act = "details_back" BY <4>1, <4>2
      <4>3. CASE b.act # "details_back" BY <4>1, <4>3
      <4> QED BY <4>2, <4>3
    <3>2. CASE TurnOffPlan(b)
      <4>1. PICK s \in Shown(row, n) :
              e = [kind |-> "edit", panel |-> b.panel, card |-> [FinalCard(s.n, s.turn, FALSE) EXCEPT !.planLike = FALSE]]
        BY <3>2 DEF TurnOffPlan
      <4> QED BY <4>1
    <3> QED BY <2>1, <3>1, <3>2
  <2>4. n \in DOMAIN turns /\ (\A x \in Shown(row, n) : Terminal(x.turn))
    BY <2>2 DEF DetailsInv, PanelsInv, Sound, SettledPanel
  <2>5. n \in Nat \ {0} BY <2>4 DEF DetailsInv, TurnsInv, Ordered
  <2>6. s.n = n /\ (~scene.bare /\ Answered(turns[n]) => Answered(s.turn))
    BY <2>4, <2>5 DEF DetailsInv, Faithful, FromTurn, Sees
  <2>7. /\ e.card.kind \in {"final", "details"} /\ e.card.n = s.n
        /\ e.card.kind = "final" => e.card.answer = Answered(s.turn)
    <3>1. CASE \E i : e.card = FinalCard(s.n, s.turn, i) BY <3>1 DEF FinalCard
    <3>2. CASE \E v : e.card = DetailsCard(s.n, s.turn, v) BY <3>2 DEF DetailsCard
    <3>3. CASE e.card = [FinalCard(s.n, s.turn, FALSE) EXCEPT !.planLike = FALSE] BY <3>3 DEF FinalCard
    <3> QED BY <2>3, <3>1, <3>2, <3>3
  <2> QED BY <2>2, <2>3, <2>6, <2>7 DEF Fits
<1>2. EditsInv' BY <1>a, <1>1 DEF DetailsInv, EditsInv, Fits
<1>3. Faithful(row, turns)' BY <1>a DEF DetailsInv, Faithful, FromTurn, Sees
<1> QED BY <1>a, <1>2, <1>3 DEF DetailsInv, TurnsInv, PanelsInv, PressesInv

\* An edit puts on a panel a card of the panel's turn.
LEMMA EditsGo ==
  ASSUME DetailsInv, NEW e \in outbox, Deliver(e)
  PROVE  /\ DetailsInv'
         /\ e.kind = "edit" => /\ e.panel \in DOMAIN panels /\ Fits(e.card, panels[e.panel].n)
                               /\ panels[e.panel].card.n = panels[e.panel].n
                               /\ panels'[e.panel].card = e.card
                               /\ \A p \in DOMAIN panels : p # e.panel => panels'[p] = panels[p]
<1>a. scene' = scene /\ turns' = turns /\ row' = row /\ presses' = presses /\ outbox' = outbox \ {e} BY DEF Deliver
<1>b. Faithful(row, turns)' BY <1>a DEF DetailsInv, Faithful, FromTurn, Sees
<1>1. CASE e.kind # "edit"
  <2>1. panels' = panels BY <1>1 DEF Deliver
  <2> QED BY <1>a, <1>b, <1>1, <2>1 DEF DetailsInv, TurnsInv, PanelsInv, PressesInv, EditsInv, Fits
<1>2. CASE e.kind = "edit"
  <2>1. e.panel \in DOMAIN panels /\ panels[e.panel].card.kind # "none" /\ Fits(e.card, panels[e.panel].n)
    BY <1>2 DEF DetailsInv, EditsInv
  <2>2. panels[e.panel].ended /\ panels[e.panel].card.n = panels[e.panel].n
    BY <2>1 DEF DetailsInv, PanelsInv, Sound, SettledPanel
  <2>3. e.card.kind # "none" /\ e.card.n = panels[e.panel].n BY <2>1 DEF Fits
  <2>4. panels' = WithCard(panels, e.panel, e.card) BY <1>2 DEF Deliver, WithCard
  <2>5. /\ DOMAIN panels' = DOMAIN panels /\ panels'[e.panel].card = e.card /\ panels'[e.panel].n = panels[e.panel].n
        /\ (\A p \in DOMAIN panels : p # e.panel => panels'[p] = panels[p]) /\ Sound(panels', row, turns)
    <3>1. Sound(panels, row, turns) /\ Suits(e.card, panels[e.panel])
      BY <2>1, <2>2, <2>3 DEF DetailsInv, PanelsInv, Fits, IsCard, Suits
    <3> DEFINE q == panels'
    <3>2. q = WithCard(panels, e.panel, e.card) BY <2>4
    <3> HIDE DEF q
    <3>3. /\ DOMAIN q = DOMAIN panels /\ \A k \in DOMAIN panels : k # e.panel => q[k] = panels[k]
          /\ q[e.panel] = [n |-> panels[e.panel].n, ended |-> panels[e.panel].ended, log |-> panels[e.panel].log,
                          card |-> e.card]
      BY <2>1, <3>1, <3>2, PanelEdit
    <3>4. Sound(q, row, turns) BY <2>1, <3>1, <3>2, PanelEdit
    <3> QED BY <3>3, <3>4 DEF q
  <2>6. \A p \in DOMAIN panels : panels[p].card.kind # "none" => panels'[p].card.kind # "none" /\ panels'[p].n = panels[p].n
    BY <2>3, <2>5
  <2>7. PanelsInv' BY <1>a, <2>5 DEF PanelsInv
  <2>8. PressesInv' BY <1>a, <2>5, <2>6 DEF DetailsInv, PressesInv
  <2>9. EditsInv' BY <1>a, <2>5, <2>6 DEF DetailsInv, EditsInv, Fits
  <2> QED BY <1>a, <1>b, <2>1, <2>2, <2>5, <2>7, <2>8, <2>9 DEF DetailsInv, TurnsInv
<1> QED BY <1>1, <1>2

\* Nothing is shown at first.
LEMMA DetailsStart == DetailsInit => DetailsInv
<1> SUFFICES ASSUME DetailsInit PROVE DetailsInv OBVIOUS
<1>1. PICK turn \in Begun(0) : turns = <<turn>> BY DEF DetailsInit
<1>2. turn \in Turn /\ turn.status = "active" /\ \A k \in DOMAIN turn.items : turn.items[k] # "final"
  BY Begin DEF DetailsInit
<1>3. TurnsInv BY <1>1, <1>2 DEF DetailsInit, TurnsInv, Ordered
<1>4. Faithful(row, turns)
  <2>1. row.latest = 0 BY DEF DetailsInit, NoRow
  <2>2. row.older = <<>> BY DEF DetailsInit, NoRow
  <2>3. DOMAIN row.older = {} BY <2>2
  <2>4. \A n \in Nat \ {0} : Shown(row, n) = {} BY <2>1, <2>3 DEF Shown
  <2> QED BY <2>4 DEF Faithful
<1>5. PanelsInv
  <2>1. panels = <<>> /\ <<>> \in Seq({}) BY DEF DetailsInit
  <2> QED BY <2>1 DEF PanelsInv, Sound
<1> QED BY <1>3, <1>4, <1>5 DEF DetailsInit, DetailsInv, PressesInv, EditsInv

\* Every step keeps the cards right.
LEMMA DetailsGo == DetailsInv /\ [DetailsNext]_detailVars => DetailsInv'
<1> SUFFICES ASSUME DetailsInv, [DetailsNext]_detailVars PROVE DetailsInv' OBVIOUS
<1>1. CASE UNCHANGED detailVars
  BY <1>1 DEF detailVars, DetailsInv, TurnsInv, Faithful, FromTurn, Sees, PanelsInv, PressesInv, EditsInv, Fits
<1> QED BY <1>1, TurnsGo, PollKeeps, ButtonsGo, PressesGo, EditsGo DEF DetailsNext

\* Whatever is pressed, and however many turns came after, for any paging and cutting of the row: a
\* card keeps its turn (snapshotForPanelTurn), and a final card that comes back over the details
\* shows the answer of it, as long as thread/read brings the items of every turn.
THEOREM CardsComeBack == DetailsSpec => WholeAnswerStays
<1> DEFINE Stays == \A p \in DOMAIN panels : KeepsItsTurn(p) /\ (scene.bare \/ AnswerBack(p))
<1>1. DetailsInv /\ [DetailsNext]_detailVars => [Stays]_detailVars
  <2> SUFFICES ASSUME DetailsInv, DetailsNext, NEW p \in DOMAIN panels
               PROVE  KeepsItsTurn(p) /\ (scene.bare \/ AnswerBack(p))
    OBVIOUS
  <2>1. CASE panels' = panels BY <2>1 DEF KeepsItsTurn, AnswerBack
  <2>2. ASSUME NEW upTo \in {"row", "log", "card"}, Poll(upTo) PROVE KeepsItsTurn(p) /\ AnswerBack(p)
    BY <2>2, PollKeeps DEF Keeps, KeepsItsTurn, AnswerBack
  <2>3. ASSUME NEW e \in outbox, Deliver(e) PROVE KeepsItsTurn(p) /\ (scene.bare \/ AnswerBack(p))
    <3>1. CASE e.kind # "edit" BY <2>1, <2>3, <3>1 DEF Deliver
    <3>2. CASE e.kind = "edit" /\ p # e.panel BY <2>3, <3>2, EditsGo DEF KeepsItsTurn, AnswerBack
    <3>3. CASE e.kind = "edit" /\ p = e.panel BY <2>3, <3>3, EditsGo DEF Fits, KeepsItsTurn, AnswerBack
    <3> QED BY <3>1, <3>2, <3>3
  <2>4. CASE ~(\E upTo \in {"row", "log", "card"} : Poll(upTo)) /\ ~(\E e \in outbox : Deliver(e))
    <3>1. panels' = panels
      BY <2>4 DEF DetailsNext, EndTurn, StartTurn, PressButton, Answer, TurnOffPlan, SendToolsFile, SendFullLog
    <3> QED BY <2>1, <3>1
  <2> QED BY <2>2, <2>3, <2>4
<1>2. DetailsSpec => [][Stays]_detailVars BY <1>1, DetailsStart, DetailsGo, PTL DEF DetailsSpec
<1> QED BY <1>2 DEF WholeAnswerStays

\* Of a turn, for any items of it, any paging and any size of a log card: what the log card of
\* an ended turn leaves out it says it leaves out or offers as a file, and without plans every
\* tool call is in one section of the details the row gives.
THEOREM NothingIsLost == DetailsSpec => []NothingLost
<1>1. DetailsInv => NothingLost
  <2> SUFFICES ASSUME DetailsInv PROVE NothingLost OBVIOUS
  <2>1. EveryToolListed
    <3> SUFFICES ASSUME NEW n \in 1..row.latest, NEW s \in Shown(row, n), Positions(s.turn.items, {"plan"}) = {},
                        NEW k \in Positions(s.turn.items, {"tool"})
                 PROVE  Cardinality({i \in DOMAIN Sections(s.turn.items) :
                                       k \in ToolsAt(s.turn.items, Sections(s.turn.items)[i])}) = 1
      BY DEF EveryToolListed
    <3>1. n \in Nat \ {0} OBVIOUS
    <3>2. s.turn.items \in Seq(ItemKinds) BY <3>1 DEF DetailsInv, Faithful, FromTurn
    <3> QED BY <3>2, ToolListed
  <2>2. HiddenIsTold BY DEF DetailsInv, PanelsInv, Sound, SettledPanel, Tells, HiddenIsTold
  <2> QED BY <2>1, <2>2 DEF NothingLost
<1> QED BY <1>1, DetailsStart, DetailsGo, PTL DEF DetailsSpec
=============================================================================
