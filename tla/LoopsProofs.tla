------------------------------ MODULE LoopsProofs ------------------------------
(***************************************************************************)
(* Proofs about what the loops of the daemon do: the gate on interrupted   *)
(* turns, for any number of readers, any grace period and any crashes; the *)
(* catalog, for any passes, readers and changes; the updater and the       *)
(* delivery queue, for any releases, updaters, items, failures, crashes.   *)
(***************************************************************************)
EXTENDS TerminalGate, Catalog, Updater, Outbox, TLAPS

-----------------------------------------------------------------------------
(* The gate: no interruption is stored as the end of a turn that runs on   *)
(* and was not given its grace.                                            *)

\* The turn runs and no deadline has passed: nothing entitles anyone to end it.
RunsOn == turn = "running" /\ ~expired

\* What every key, snapshot and reader looks like meanwhile.
Clean(q) ==
  /\ ~q.asked /\ ~q.done /\ ~q.log /\ ~q.old.over
  /\ q.obs \in {"running"} \cup Kinds
  /\ q.why \notin {"accept", "expired"} /\ q.at \notin {"mark", "clear"}
  /\ q.at = "store" => q.obs = "running"
  /\ q.at = "write" /\ q.why # "defer" => q.obs = "running"
KeysClean == ~explicit /\ ~logged /\ stop # "mark" /\ ~snap.over
CleanInv == RunsOn => KeysClean /\ \A r \in Readers : Clean(reader[r])

\* The inductive invariant.
IInv == TypeOK /\ CleanInv

(***************************************************************************)
(* The values the helpers return.                                          *)
(***************************************************************************)
LEMMA GateValues ==
  /\ NoDefer \in Deadlines /\ Grace \in Deadlines
  /\ \A d \in Deadlines : Left(d) \in Deadlines
  /\ \A c \in 0..Grace : (IF c < Grace THEN c + 1 ELSE Grace) \in 0..Grace
  /\ 0 \in 0..Grace
  /\ Kinds \subseteq Views
<1>1. NoDefer \in Deadlines /\ Grace \in Deadlines /\ 0 \in 0..Grace
  BY GateAssumption DEF NoDefer, Deadlines
<1>2. \A d \in Deadlines : Left(d) \in Deadlines
  BY GateAssumption DEF NoDefer, Deadlines, Left
<1>3. \A c \in 0..Grace : (IF c < Grace THEN c + 1 ELSE Grace) \in 0..Grace
  BY GateAssumption
<1>4. Kinds \subseteq Views
  BY GateAssumption DEF Views
<1> QED BY <1>1, <1>2, <1>3, <1>4

LEMMA IdleValues ==
  /\ Fresh \in Snaps /\ Idle \in States /\ Clean(Idle)
BY GateValues DEF Fresh, Snaps, Views, Idle, States, Points, Whys, Clean

LEMMA DecisionValues ==
  ASSUME NEW obs, NEW asked \in BOOLEAN, NEW done \in BOOLEAN, NEW d
  PROVE  /\ Decision(obs, asked, done, d) \in Whys
         /\ Decision(obs, asked, done, d) = "accept" => asked \/ done \/ obs = "final"
         /\ Decision(obs, asked, done, d) \in {"pass", "recover"} => ~Interrupted(obs)
BY DEF Decision, Whys

LEMMA ReadValues ==
  ASSUME TypeOK
  PROVE  /\ Reads \subseteq Views
         /\ turn = "running" => Reads = {"running"} \cup Kinds
BY GateValues DEF TypeOK, Reads, Views

LEMMA ReconciledValues ==
  ASSUME TypeOK, NEW seen \in Views, NEW result \in Results, NEW obs \in Reconciled(seen, result)
  PROVE  /\ obs \in Views
         /\ turn = "running" => obs \in {"running", seen}
BY GateValues DEF TypeOK, Results, Reconciled, Views

(***************************************************************************)
(* A step of one reader: q is its record after the step.                   *)
(***************************************************************************)
LEMMA OneReader ==
  ASSUME IInv, NEW r \in Readers, NEW q \in States,
         reader' = [reader EXCEPT ![r] = q],
         RunsOn' => RunsOn /\ KeysClean' /\ Clean(q)
  PROVE  reader' \in [Readers -> States] /\ CleanInv'
<1>1. reader' \in [Readers -> States]
  BY DEF IInv, TypeOK
<1>2. ASSUME RunsOn' PROVE KeysClean' /\ \A x \in Readers : Clean(reader'[x])
  <2>1. \A x \in Readers : Clean(reader[x])
    BY <1>2 DEF IInv, CleanInv
  <2>2. \A x \in Readers : reader'[x] = IF x = r THEN q ELSE reader[x]
    BY DEF IInv, TypeOK
  <2>3. \A x \in Readers : Clean(reader'[x])
    BY <1>2, <2>1, <2>2
  <2> QED BY <1>2, <2>3
<1> QED BY <1>1, <1>2 DEF CleanInv, Clean

LEMMA ReaderFields ==
  ASSUME IInv, NEW r \in Readers
  PROVE  /\ reader[r] \in States
         /\ RunsOn => KeysClean /\ Clean(reader[r])
BY DEF IInv, TypeOK, CleanInv

\* The steps that only look, or move on.
LEMMA ReadSafe ==
  ASSUME IInv, NEW r \in Readers, Read(r)
  PROVE  IInv'
<1>1. PICK obs \in Reads : reader' = [reader EXCEPT ![r] = [Idle EXCEPT !.at = "reconcile", !.obs = obs]]
  BY DEF Read
<1> DEFINE q == [Idle EXCEPT !.at = "reconcile", !.obs = obs]
<1>2. q \in States
  BY IdleValues, ReadValues DEF IInv, Idle, States, Points
<1>3. RunsOn' => RunsOn /\ KeysClean' /\ Clean(q)
  BY ReadValues, ReaderFields DEF IInv, Read, RunsOn, truth, hist, keys, KeysClean, Clean, Idle, Fresh
<1>4. reader' \in [Readers -> States] /\ CleanInv'
  <2> HIDE DEF q
  <2> QED BY <1>1, <1>2, <1>3, OneReader DEF q
<1> QED BY <1>4 DEF IInv, TypeOK, Read, truth, keys, hist

LEMMA ReconcileSafe ==
  ASSUME IInv, NEW r \in Readers, Reconcile(r)
  PROVE  IInv'
<1>0. PICK result \in Results : \E obs \in Reconciled(reader[r].obs, result) :
        /\ reader' = [reader EXCEPT ![r].at = "flags", ![r].obs = obs]
        /\ calm' = IF Interrupted(obs) THEN calm ELSE 0
  BY DEF Reconcile
<1>1. PICK obs \in Reconciled(reader[r].obs, result) :
        /\ reader' = [reader EXCEPT ![r].at = "flags", ![r].obs = obs]
        /\ calm' = IF Interrupted(obs) THEN calm ELSE 0
  BY <1>0
<1> DEFINE q == [reader[r] EXCEPT !.at = "flags", !.obs = obs]
<1>2. reader[r] \in States
  BY ReaderFields
<1>3. obs \in Views /\ (turn = "running" => obs \in {"running", reader[r].obs})
  <2>1. reader[r].obs \in Views
    BY <1>2 DEF States
  <2> QED BY <2>1, ReconciledValues DEF IInv
<1>4. q \in States
  BY <1>2, <1>3 DEF States, Points
<1>5. RunsOn' => RunsOn /\ KeysClean' /\ Clean(q)
  BY <1>2, <1>3, ReaderFields DEF Reconcile, RunsOn, truth, keys, KeysClean, Clean, States
<1>6. reader' = [reader EXCEPT ![r] = q]
  BY <1>1 DEF IInv, TypeOK
<1>7. reader' \in [Readers -> States] /\ CleanInv'
  <2> HIDE DEF q
  <2> QED BY <1>4, <1>5, <1>6, OneReader
<1>8. calm' \in 0..Grace
  BY <1>1, GateValues DEF IInv, TypeOK
<1> QED BY <1>7, <1>8 DEF IInv, TypeOK, Reconcile, truth, keys

LEMMA FlagsSafe ==
  ASSUME IInv, NEW r \in Readers, Flags(r)
  PROVE  IInv'
<1> DEFINE q == [reader[r] EXCEPT !.at = "load", !.asked = explicit, !.done = logged]
<1>1. reader[r] \in States
  BY ReaderFields
<1>2. q \in States
  BY <1>1 DEF IInv, TypeOK, States, Points
<1>3. RunsOn' => RunsOn /\ KeysClean' /\ Clean(q)
  BY <1>1, ReaderFields DEF Flags, RunsOn, truth, hist, keys, KeysClean, Clean, States
<1>4. reader' = [reader EXCEPT ![r] = q]
  BY DEF Flags, IInv, TypeOK
<1>5. reader' \in [Readers -> States] /\ CleanInv'
  <2> HIDE DEF q
  <2> QED BY <1>2, <1>3, <1>4, OneReader
<1> QED BY <1>5 DEF IInv, TypeOK, Flags, truth, keys, hist

\* The decision: with no key set and nothing but a running turn or an
\* interruption without an answer read, the only way to an end is the deadline.
LEMMA LoadSafe ==
  ASSUME IInv, NEW r \in Readers, Load(r)
  PROVE  IInv'
<1> DEFINE p == reader[r]
           why == Decision(p.obs, p.asked, p.done, defer)
           rec == IF why # "defer" THEN NoDefer ELSE IF defer = NoDefer THEN Grace ELSE defer
           q == [p EXCEPT !.at = AfterDecision(p.log, why), !.why = why, !.rec = rec,
                          !.asked = FALSE, !.done = FALSE]
<1>1. p \in States
  BY ReaderFields
<1>2. p.asked \in BOOLEAN /\ p.done \in BOOLEAN
  BY <1>1 DEF States
<1>3. /\ why \in Whys
      /\ why = "accept" => p.asked \/ p.done \/ p.obs = "final"
      /\ why \in {"pass", "recover"} => ~Interrupted(p.obs)
  BY <1>2, DecisionValues
<1>4. rec \in Deadlines
  BY GateValues DEF IInv, TypeOK
<1>5. AfterDecision(p.log, why) \in {"write", "mark", "store"}
  BY DEF AfterDecision
<1> HIDE DEF why, rec
<1>6. q \in States
  BY <1>1, <1>3, <1>4, <1>5 DEF States, Points
<1>7. RunsOn' => RunsOn /\ KeysClean' /\ why # "expired"
  BY ReaderFields DEF Load, RunsOn, truth, keys, KeysClean, why
<1>8. RunsOn' => Clean(q)
  <2> SUFFICES ASSUME RunsOn' PROVE Clean(q)
    OBVIOUS
  <2>1. Clean(p)
    BY <1>7, ReaderFields
  <2>2. p.obs \in {"running", "empty", "partial"}
    BY <2>1, GateAssumption DEF Clean
  <2>3. why \notin {"accept", "expired"} /\ (why \in {"pass", "recover"} => p.obs = "running")
    BY <1>3, <1>7, <2>1, <2>2 DEF Clean, Interrupted
  <2>4. why \in {"pass", "recover", "defer"}
    BY <1>3, <2>3 DEF Whys
  <2> QED BY <1>1, <2>1, <2>3, <2>4 DEF Clean, States, AfterDecision
<1>9. reader' = [reader EXCEPT ![r] = q]
  BY DEF Load, IInv, TypeOK, why, rec
<1>10. reader' \in [Readers -> States] /\ CleanInv'
  <2> HIDE DEF q
  <2> QED BY <1>6, <1>7, <1>8, <1>9, OneReader
<1>11. expired' \in BOOLEAN
  BY DEF IInv, TypeOK, Load
<1> QED BY <1>10, <1>11 DEF IInv, TypeOK, Load, truth, keys

\* A cleared or saved record: only a running turn, or one read as such, goes on
\* to the snapshot.
LEMMA WriteSafe ==
  ASSUME IInv, NEW r \in Readers, Write(r)
  PROVE  IInv'
<1> DEFINE q == [reader[r] EXCEPT !.at = AfterWrite(reader[r]), !.rec = NoDefer]
<1>1. reader[r] \in States
  BY ReaderFields
<1>2. q \in States
  BY <1>1, GateValues DEF IInv, TypeOK, States, Points, AfterWrite, Snaps
<1>3. RunsOn' => RunsOn /\ KeysClean' /\ Clean(q)
  BY <1>1, ReaderFields DEF Write, RunsOn, truth, hist, keys, KeysClean, Clean, At, AfterWrite, States, Snaps
<1>4. reader' = [reader EXCEPT ![r] = q]
  BY DEF Write, IInv, TypeOK, Goto, Done
<1>5. reader' \in [Readers -> States] /\ CleanInv'
  <2> HIDE DEF q
  <2> QED BY <1>2, <1>3, <1>4, OneReader
<1>6. defer' \in Deadlines
  BY <1>1, GateValues DEF IInv, TypeOK, Write, States
<1> QED BY <1>5, <1>6 DEF IInv, TypeOK, Write, truth, hist

\* The two steps no reader gets to while the turn runs on.
LEMMA MarkLoggedSafe ==
  ASSUME IInv, NEW r \in Readers, MarkLogged(r)
  PROVE  IInv'
<1> DEFINE q == [reader[r] EXCEPT !.at = IF ~reader[r].log THEN "store" ELSE IF logged THEN "sync" ELSE "clear"]
<1>1. reader[r] \in States
  BY ReaderFields
<1>2. q \in States
  BY <1>1 DEF IInv, TypeOK, States, Points, At, Snaps
<1>3. RunsOn' => RunsOn /\ KeysClean' /\ Clean(q)
  BY <1>1, ReaderFields DEF MarkLogged, RunsOn, truth, hist, keys, KeysClean, Clean, At, States, Snaps
<1>4. reader' = [reader EXCEPT ![r] = q]
  BY DEF MarkLogged, IInv, TypeOK, Goto, Done
<1>5. reader' \in [Readers -> States] /\ CleanInv'
  <2> HIDE DEF q
  <2> QED BY <1>2, <1>3, <1>4, OneReader
<1> QED BY <1>5 DEF IInv, TypeOK, MarkLogged, truth, keys, hist

LEMMA ClearAgainSafe ==
  ASSUME IInv, NEW r \in Readers, ClearAgain(r)
  PROVE  IInv'
<1> DEFINE q == [reader[r] EXCEPT !.at = "sync"]
<1>1. reader[r] \in States
  BY ReaderFields
<1>2. q \in States
  BY <1>1 DEF IInv, TypeOK, States, Points, At, Snaps
<1>3. RunsOn' => RunsOn /\ KeysClean' /\ Clean(q)
  BY <1>1, ReaderFields DEF ClearAgain, RunsOn, truth, hist, keys, KeysClean, Clean, At, States, Snaps
<1>4. reader' = [reader EXCEPT ![r] = q]
  BY DEF ClearAgain, IInv, TypeOK, Goto, Done
<1>5. reader' \in [Readers -> States] /\ CleanInv'
  <2> HIDE DEF q
  <2> QED BY <1>2, <1>3, <1>4, OneReader
<1>6. defer' \in Deadlines
  BY GateValues DEF ClearAgain
<1> QED BY <1>5, <1>6 DEF IInv, TypeOK, ClearAgain, truth, hist

\* The snapshot is read, written back, written with progress, written as read.
LEMMA ReloadSafe ==
  ASSUME IInv, NEW r \in Readers, Reload(r)
  PROVE  IInv'
<1> DEFINE q == [reader[r] EXCEPT !.at = "rewrite", !.old = snap]
<1>1. reader[r] \in States
  BY ReaderFields
<1>2. q \in States
  BY <1>1 DEF IInv, TypeOK, States, Points, Snaps
<1>3. RunsOn' => RunsOn /\ KeysClean' /\ Clean(q)
  BY <1>1, ReaderFields DEF Reload, RunsOn, truth, hist, keys, KeysClean, Clean, States, Snaps
<1>4. reader' = [reader EXCEPT ![r] = q]
  BY DEF Reload, IInv, TypeOK, Goto, Done
<1>5. reader' \in [Readers -> States] /\ CleanInv'
  <2> HIDE DEF q
  <2> QED BY <1>2, <1>3, <1>4, OneReader
<1> QED BY <1>5 DEF IInv, TypeOK, Reload, truth, keys, hist

LEMMA RewriteSafe ==
  ASSUME IInv, NEW r \in Readers, Rewrite(r)
  PROVE  IInv'
<1>1. PICK next \in {"progress", "sync", "idle"} :
        reader' = [reader EXCEPT ![r] = IF next = "idle" THEN Idle
                                        ELSE [reader[r] EXCEPT !.at = next, !.old = Fresh]]
        /\ (next = "progress" => reader[r].obs = "partial")
  BY DEF Rewrite
<1> DEFINE q == IF next = "idle" THEN Idle ELSE [reader[r] EXCEPT !.at = next, !.old = Fresh]
<1>2. reader[r] \in States
  BY ReaderFields
<1>3. q \in States
  BY <1>2, IdleValues DEF States, Points
<1>4. RunsOn' => RunsOn /\ KeysClean' /\ Clean(q)
  BY <1>2, ReaderFields, IdleValues DEF Rewrite, RunsOn, truth, hist, keys, KeysClean, Clean, States, Fresh
<1>5. reader' \in [Readers -> States] /\ CleanInv'
  <2> HIDE DEF q
  <2> QED BY <1>1, <1>3, <1>4, OneReader DEF q
<1>6. snap' \in Snaps
  BY <1>2 DEF Rewrite, States
<1> QED BY <1>5, <1>6 DEF IInv, TypeOK, Rewrite, truth, keys, hist

LEMMA StoreProgressSafe ==
  ASSUME IInv, NEW r \in Readers, StoreProgress(r)
  PROVE  IInv'
<1> DEFINE q == [reader[r] EXCEPT !.at = "sync"]
<1>1. reader[r] \in States
  BY ReaderFields
<1>2. q \in States
  BY <1>1 DEF IInv, TypeOK, States, Points, Snaps
<1>3. RunsOn' => RunsOn /\ KeysClean' /\ Clean(q)
  BY <1>1, ReaderFields DEF StoreProgress, RunsOn, truth, hist, keys, KeysClean, Clean, States, Snaps
<1>4. reader' = [reader EXCEPT ![r] = q]
  BY DEF StoreProgress, IInv, TypeOK, Goto, Done
<1>5. reader' \in [Readers -> States] /\ CleanInv'
  <2> HIDE DEF q
  <2> QED BY <1>2, <1>3, <1>4, OneReader
<1>6. snap' \in Snaps
  BY <1>1 DEF StoreProgress, States, Snaps, Terminal
<1> QED BY <1>5, <1>6 DEF IInv, TypeOK, StoreProgress, truth, keys, hist

LEMMA StoreSafe ==
  ASSUME IInv, NEW r \in Readers, Store(r)
  PROVE  IInv'
<1> DEFINE q == [reader[r] EXCEPT !.at = IF Terminal(reader[r].obs) THEN "flags" ELSE "sync", !.log = Terminal(reader[r].obs)]
<1>1. reader[r] \in States
  BY ReaderFields
<1>2. q \in States
  BY <1>1 DEF IInv, TypeOK, States, Points, At, Terminal, Snaps
<1>3. RunsOn' => RunsOn /\ KeysClean' /\ Clean(q)
  BY <1>1, ReaderFields DEF Store, RunsOn, truth, hist, keys, KeysClean, Clean, At, Terminal, States, Snaps
<1>4. reader' = [reader EXCEPT ![r] = q]
  BY DEF Store, IInv, TypeOK, Goto, Done
<1>5. reader' \in [Readers -> States] /\ CleanInv'
  <2> HIDE DEF q
  <2> QED BY <1>2, <1>3, <1>4, OneReader
<1>6. snap' \in Snaps
  BY <1>1 DEF Store, States, Snaps, Terminal
<1> QED BY <1>5, <1>6 DEF IInv, TypeOK, Store, truth, keys, hist

LEMMA SyncSafe ==
  ASSUME IInv, NEW r \in Readers, Sync(r)
  PROVE  IInv'
<1>1. RunsOn' => RunsOn /\ KeysClean' /\ Clean(Idle)
  BY ReaderFields, IdleValues DEF Sync, RunsOn, truth, hist, keys, KeysClean
<1>2. reader' \in [Readers -> States] /\ CleanInv'
  BY <1>1, IdleValues, OneReader DEF Sync, Done
<1>3. shown' \subseteq {"answer", "notice"}
  BY DEF IInv, TypeOK, Sync, CardFor
<1> QED BY <1>2, <1>3 DEF IInv, TypeOK, Sync, truth, keys, hist

(***************************************************************************)
(* The turn, time, Stop and a crash.                                       *)
(***************************************************************************)
LEMMA TurnSafe ==
  ASSUME IInv, Ends \/ Record \/ GrowOld
  PROVE  IInv'
<1>1. TypeOK'
  BY DEF IInv, TypeOK, Ends, Record, GrowOld, keys, hist
<1>2. reader' = reader /\ (RunsOn' => RunsOn) /\ (KeysClean => KeysClean')
  BY DEF Ends, Record, GrowOld, keys, hist, RunsOn, KeysClean
<1>3. CleanInv'
  BY <1>2 DEF IInv, CleanInv, Clean
<1> QED BY <1>1, <1>3 DEF IInv

LEMMA TickSafe ==
  ASSUME IInv, Tick
  PROVE  IInv'
<1>1. \A r \in Readers : reader'[r] = [reader[r] EXCEPT !.rec = Left(@)]
  BY DEF Tick
<1>2. ASSUME NEW r \in Readers PROVE reader[r] \in States /\ reader'[r] \in States
  <2>1. reader[r] \in States
    BY ReaderFields
  <2>2. Left(reader[r].rec) \in Deadlines
    BY <2>1, GateValues DEF States
  <2>3. reader'[r] = [reader[r] EXCEPT !.rec = Left(reader[r].rec)]
    BY <1>1
  <2> QED BY <2>1, <2>2, <2>3 DEF States
<1>3. \A r \in Readers : Clean(reader[r]) => Clean(reader'[r])
  BY <1>1, <1>2 DEF Clean, States
<1>4. reader' \in [Readers -> States]
  BY <1>2 DEF Tick
<1>5. CleanInv'
  BY <1>3 DEF IInv, CleanInv, RunsOn, KeysClean, Tick, truth
<1>6. defer' \in Deadlines /\ calm' \in 0..Grace
  BY GateValues DEF IInv, TypeOK, Tick
<1> QED BY <1>4, <1>5, <1>6 DEF IInv, TypeOK, Tick, truth

LEMMA StopSafe ==
  ASSUME IInv, StopStep
  PROVE  IInv'
<1>1. TypeOK'
  BY DEF IInv, TypeOK, StopStep, Press, Interrupt, InterruptFails, MarkExplicit, truth, keys, hist
<1>2. reader' = reader /\ (RunsOn' => RunsOn /\ (KeysClean => KeysClean'))
  BY DEF StopStep, Press, Interrupt, InterruptFails, MarkExplicit, truth, keys, hist, RunsOn, KeysClean
<1>3. CleanInv'
  BY <1>2 DEF IInv, CleanInv, Clean
<1> QED BY <1>1, <1>3 DEF IInv

LEMMA CrashSafe ==
  ASSUME IInv, Crash
  PROVE  IInv'
<1>1. reader' \in [Readers -> States] /\ \A r \in Readers : Clean(reader'[r])
  BY IdleValues DEF Crash
<1>2. CleanInv'
  BY <1>1 DEF IInv, CleanInv, RunsOn, KeysClean, Crash, truth, keys, hist, Clean
<1>3. crashes' \in 0..MaxCrashes
  BY GateAssumption DEF IInv, TypeOK, Crash
<1> QED BY <1>1, <1>2, <1>3 DEF IInv, TypeOK, Crash, truth, keys, hist

(***************************************************************************)
(* The theorems.                                                           *)
(***************************************************************************)
LEMMA InitSafe == Init => IInv
<1> SUFFICES ASSUME Init PROVE IInv
  OBVIOUS
<1>1. \A r \in Readers : reader[r] = Idle
  BY DEF Init
<1>2. TypeOK
  <2>1. defer \in Deadlines /\ snap \in Snaps /\ calm \in 0..Grace /\ crashes \in 0..MaxCrashes
    BY GateValues, IdleValues, GateAssumption DEF Init
  <2>2. reader \in [Readers -> States]
    BY IdleValues DEF Init
  <2> QED BY <2>1, <2>2 DEF Init, TypeOK
<1>3. CleanInv
  BY <1>1, IdleValues DEF Init, CleanInv, KeysClean, Fresh
<1> QED BY <1>2, <1>3 DEF IInv

LEMMA NextSafe == IInv /\ [Next]_vars => IInv'
<1> SUFFICES ASSUME IInv, [Next]_vars PROVE IInv'
  OBVIOUS
<1>1. CASE Ends \/ Record \/ GrowOld
  BY <1>1, TurnSafe
<1>2. CASE Tick
  BY <1>2, TickSafe
<1>3. CASE StopStep
  BY <1>3, StopSafe
<1>4. CASE Crash
  BY <1>4, CrashSafe
<1>5. ASSUME NEW r \in Readers, ReaderStep(r) PROVE IInv'
  BY <1>5, ReadSafe, ReconcileSafe, FlagsSafe, LoadSafe, WriteSafe, MarkLoggedSafe, ClearAgainSafe,
     ReloadSafe, RewriteSafe, StoreProgressSafe, StoreSafe, SyncSafe DEF ReaderStep
<1>6. CASE UNCHANGED vars
  BY <1>6 DEF vars, truth, keys, hist, IInv, TypeOK, CleanInv, RunsOn, KeysClean, Clean
<1> QED BY <1>1, <1>2, <1>3, <1>4, <1>5, <1>6 DEF Next

\* Every variable keeps its type, whatever readers, crashes and presses do.
THEOREM GateTyped == Spec => []TypeOK
<1>1. IInv => TypeOK
  BY DEF IInv
<1> QED BY <1>1, InitSafe, NextSafe, PTL DEF Spec

\* applyChatOriginTerminalGate and refreshThreadForOperation: however many
\* readers interleave with each other, with a press of Stop and with crashes, an
\* interruption is stored as the end of a turn only when the turn is over or a
\* deadline was let pass.
THEOREM EndsAreEntitled == Spec => []AcceptedEndIsReal
<1>1. IInv => AcceptedEndIsReal
  BY DEF IInv, TypeOK, CleanInv, RunsOn, KeysClean, AcceptedEndIsReal
<1> QED BY <1>1, InitSafe, NextSafe, PTL DEF Spec

-----------------------------------------------------------------------------
(* The grace that one reader grants, as long as it does not restart        *)

\* A deadline that d ticks are left of began no later than the last look at a running turn.
Within(d, c) == d # NoDefer => d + c >= Grace
\* q saw the turn run, or complete, and is about to clear the deferral.
Recovers(q) == \/ q.at \in {"flags", "load"} /\ ~Interrupted(q.obs)
               \/ q.at = "write" /\ q.why = "recover"
\* What q saves, when it defers.
Saves(q, c) == q.at = "write" /\ q.why = "defer" => Within(q.rec, c)
GraceInv ==
  crashes = 0 =>
    \A r \in Readers : (Within(defer, calm) \/ Recovers(reader[r])) /\ Saves(reader[r], calm)
OneReads == \A r, s \in Readers : r = s

LEMMA TickKeepsWithin ==
  ASSUME NEW d \in Deadlines, NEW c \in 0..Grace, Within(d, c)
  PROVE  Within(Left(d), IF c < Grace THEN c + 1 ELSE Grace)
<1>1. CASE d = NoDefer BY <1>1 DEF Left, NoDefer, Within
<1>2. CASE d \in 0..Grace
  <2>1. d + c >= Grace BY <1>2, GateAssumption DEF Within, NoDefer
  <2> QED BY <1>2, <2>1, GateAssumption DEF Left, Within
<1> QED BY <1>1, <1>2 DEF Deadlines, NoDefer

\* One step of one reader: what it leaves, and when it lets a deadline pass.
LEMMA GraceReader ==
  ASSUME IInv, NEW r \in Readers, ReaderStep(r),
         Within(defer, calm) \/ Recovers(reader[r]), Saves(reader[r], calm)
  PROVE  /\ Within(defer', calm') \/ Recovers(reader'[r])
         /\ Saves(reader'[r], calm')
         /\ ExpiresInTime(r)
<1> DEFINE p == reader[r]
           q == reader'[r]
<1>p. p \in States /\ reader \in [Readers -> States] BY ReaderFields DEF IInv, TypeOK
<1>d. defer \in Deadlines /\ calm \in 0..Grace BY DEF IInv, TypeOK
<1>n. Within(NoDefer, calm) BY DEF Within
<1>1. CASE Read(r)
  <2>1. PICK obs \in Reads : reader' = [reader EXCEPT ![r] = [Idle EXCEPT !.at = "reconcile", !.obs = obs]] BY <1>1 DEF Read
  <2>2. q.at = "reconcile" /\ p.at = "idle" BY <1>1, <1>p, <2>1 DEF Read, At, Idle
  <2>3. UNCHANGED <<defer, calm>> BY <1>1 DEF Read, keys, hist
  <2> QED BY <2>2, <2>3 DEF Recovers, Saves, ExpiresInTime, At
<1>2. CASE Reconcile(r)
  <2>1. PICK obs : /\ reader' = [reader EXCEPT ![r].at = "flags", ![r].obs = obs]
                   /\ calm' = IF Interrupted(obs) THEN calm ELSE 0
    BY <1>2 DEF Reconcile
  <2>2. p.at = "reconcile" /\ q.at = "flags" /\ q.obs = obs BY <1>2, <1>p, <2>1 DEF Reconcile, At, States
  <2>3. defer' = defer BY <1>2 DEF Reconcile, keys
  <2> QED BY <2>1, <2>2, <2>3 DEF Recovers, Saves, ExpiresInTime, At
<1>3. CASE Flags(r)
  <2>1. p.at = "flags" /\ q.at = "load" /\ q.obs = p.obs BY <1>3, <1>p DEF Flags, At, States
  <2>2. UNCHANGED <<defer, calm>> BY <1>3 DEF Flags, keys, hist
  <2> QED BY <2>1, <2>2 DEF Recovers, Saves, ExpiresInTime, At
<1>4. CASE Load(r)
  <2> DEFINE why == Decision(p.obs, p.asked, p.done, defer)
             rec == IF why # "defer" THEN NoDefer ELSE IF defer = NoDefer THEN Grace ELSE defer
  <2>1. /\ p.at = "load" /\ q.at = AfterDecision(p.log, why) /\ q.why = why /\ q.rec = rec
    BY <1>4, <1>p DEF Load, At, States
  <2>2. UNCHANGED <<defer, calm>> BY <1>4 DEF Load, keys
  <2>3. Interrupted(p.obs) => Within(defer, calm) BY <2>1 DEF Recovers
  <2>4. /\ why = "recover" => ~Interrupted(p.obs)
        /\ why = "pass" => ~Interrupted(p.obs) /\ defer = NoDefer
        /\ ~Interrupted(p.obs) => why \in {"recover", "pass"}
        /\ why = "expired" => Interrupted(p.obs) /\ defer = 0
    BY DEF Decision
  <2>5. Within(Grace, calm) BY <1>d, GateAssumption DEF Within
  <2> HIDE DEF why
  <2>6. Saves(q, calm) BY <2>1, <2>3, <2>4, <2>5 DEF Saves, Within
  <2>7. Within(defer, calm) \/ Recovers(q) BY <2>1, <2>3, <2>4, <1>n DEF AfterDecision, Recovers
  <2>8. why = "expired" => calm = Grace BY <1>d, <2>3, <2>4, GateAssumption DEF Within, NoDefer
  <2>9. ExpiresInTime(r) BY <2>1, <2>8 DEF ExpiresInTime
  <2> QED BY <2>2, <2>6, <2>7, <2>9
<1>5. CASE Write(r)
  <2>1. p.at = "write" /\ q.at = AfterWrite(p) BY <1>5, <1>p DEF Write, At, States
  <2>2. q.at \notin {"write", "flags", "load"} BY <2>1 DEF AfterWrite
  <2>3. calm' = calm BY <1>5 DEF Write, hist
  <2>4. Within(defer', calm)
    <3>1. CASE p.why = "defer" BY <1>5, <2>1, <3>1 DEF Write, Saves
    <3>2. CASE p.why # "defer" /\ Clears(p) BY <1>5, <1>n, <3>2 DEF Write
    <3>3. CASE p.why # "defer" /\ ~Clears(p)
      <4>1. defer' = defer BY <1>5, <3>3 DEF Write
      <4>2. ~Recovers(p) BY <2>1, <3>3 DEF Recovers, Clears
      <4> QED BY <4>1, <4>2
    <3> QED BY <3>1, <3>2, <3>3
  <2> QED BY <2>1, <2>2, <2>3, <2>4 DEF Saves, ExpiresInTime, At
<1>6. ASSUME p.at \notin {"flags", "load", "write"}, q.at # "write", UNCHANGED calm, defer' \in {defer, NoDefer}
      PROVE  (Within(defer', calm') \/ Recovers(q)) /\ Saves(q, calm') /\ ExpiresInTime(r)
  BY <1>6, <1>n DEF Recovers, Saves, ExpiresInTime, At
<1>7. CASE MarkLogged(r)
  <2>1. p.at = "mark" /\ q.at \in {"store", "sync", "clear"} BY <1>7, <1>p DEF MarkLogged, At, Goto, States
  <2> QED BY <1>6, <1>7, <2>1 DEF MarkLogged, hist
<1>8. CASE ClearAgain(r) \/ StoreProgress(r)
  <2>1. p.at \in {"clear", "progress"} /\ q.at = "sync" BY <1>8, <1>p DEF ClearAgain, StoreProgress, At, Goto, States
  <2> QED BY <1>6, <1>8, <2>1 DEF ClearAgain, StoreProgress, keys, hist
<1>9. CASE Reload(r)
  <2>1. p.at = "reload" /\ q.at = "rewrite" BY <1>9, <1>p DEF Reload, At, States
  <2> QED BY <1>6, <1>9, <2>1 DEF Reload, keys, hist
<1>10. CASE Rewrite(r)
  <2>1. p.at = "rewrite" BY <1>10 DEF Rewrite, At
  <2>2. PICK next \in {"progress", "sync", "idle"} :
          reader' = [reader EXCEPT ![r] = IF next = "idle" THEN Idle ELSE [p EXCEPT !.at = next, !.old = Fresh]]
    BY <1>10 DEF Rewrite
  <2>3. q.at = next BY <1>p, <2>2 DEF States, Idle
  <2> QED BY <1>6, <1>10, <2>1, <2>3 DEF Rewrite, keys, hist
<1>11. CASE Store(r)
  <2>1. p.at = "store" /\ q.at \in {"flags", "sync"} BY <1>11, <1>p DEF Store, At, States
  <2> QED BY <1>6, <1>11, <2>1 DEF Store, keys, hist
<1>12. CASE Sync(r)
  <2>1. p.at = "sync" /\ q.at = "idle" BY <1>12, <1>p DEF Sync, At, Done, Idle
  <2> QED BY <1>6, <1>12, <2>1 DEF Sync, keys, hist
<1> QED BY <1>1, <1>2, <1>3, <1>4, <1>5, <1>7, <1>8, <1>9, <1>10, <1>11, <1>12 DEF ReaderStep

GraceStep == crashes = 0 => \A r \in Readers : ExpiresInTime(r)

LEMMA GraceNext == ASSUME OneReads PROVE IInv /\ GraceInv /\ [Next]_vars => GraceInv' /\ GraceStep
<1> SUFFICES ASSUME IInv, GraceInv, [Next]_vars PROVE GraceInv' /\ GraceStep
  OBVIOUS
<1>0. reader \in [Readers -> States] /\ defer \in Deadlines /\ calm \in 0..Grace BY DEF IInv, TypeOK
<1>1. ASSUME UNCHANGED <<reader, defer, calm, crashes>> PROVE GraceInv' /\ GraceStep
  BY <1>1 DEF GraceInv, GraceStep, ExpiresInTime, At
<1>2. CASE Ends \/ Record \/ GrowOld BY <1>1, <1>2 DEF Ends, Record, GrowOld, keys, hist
<1>3. CASE StopStep
  BY <1>1, <1>3 DEF StopStep, Press, Interrupt, InterruptFails, MarkExplicit, keys, hist
<1>4. CASE Tick
  <2>1. ASSUME NEW r \in Readers
        PROVE  /\ reader'[r].at = reader[r].at /\ reader'[r].obs = reader[r].obs
               /\ reader'[r].why = reader[r].why /\ reader'[r].rec = Left(reader[r].rec)
               /\ reader[r].rec \in Deadlines
    <3>1. reader'[r] = [reader[r] EXCEPT !.rec = Left(@)] BY <1>4 DEF Tick
    <3> QED BY <1>0, <3>1 DEF States
  <2>2. defer' = Left(defer) /\ calm' = (IF calm < Grace THEN calm + 1 ELSE Grace) /\ crashes' = crashes BY <1>4 DEF Tick
  <2>3. Within(defer, calm) => Within(defer', calm') BY <1>0, <2>2, TickKeepsWithin
  <2>4. ASSUME NEW r \in Readers PROVE Saves(reader[r], calm) => Saves(reader'[r], calm')
    BY <1>0, <2>1, <2>2, TickKeepsWithin DEF Saves
  <2>5. ASSUME NEW r \in Readers PROVE Recovers(reader[r]) => Recovers(reader'[r]) BY <2>1 DEF Recovers
  <2>6. GraceInv' BY <2>2, <2>3, <2>4, <2>5 DEF GraceInv
  <2>7. GraceStep BY <2>1 DEF GraceStep, ExpiresInTime, At
  <2> QED BY <2>6, <2>7
<1>5. CASE Crash
  <2>1. crashes' # 0 BY <1>5, GateAssumption DEF Crash, IInv, TypeOK
  <2>2. \A r \in Readers : reader'[r].at = "idle" BY <1>5 DEF Crash, Idle
  <2> QED BY <2>1, <2>2 DEF GraceInv, GraceStep, ExpiresInTime
<1>6. ASSUME NEW r \in Readers, ReaderStep(r) PROVE GraceInv' /\ GraceStep
  <2>1. \A x \in Readers : x = r BY DEF OneReads
  <2>2. crashes' = crashes
    BY <1>6 DEF ReaderStep, Read, Reconcile, Flags, Load, Write, MarkLogged, ClearAgain, Reload, Rewrite,
       StoreProgress, Store, Sync
  <2>3. CASE crashes = 0
    <3>1. (Within(defer, calm) \/ Recovers(reader[r])) /\ Saves(reader[r], calm) BY <2>3 DEF GraceInv
    <3>2. /\ Within(defer', calm') \/ Recovers(reader'[r])
          /\ Saves(reader'[r], calm')
          /\ ExpiresInTime(r)
      BY <1>6, <3>1, GraceReader
    <3> QED BY <2>1, <3>2 DEF GraceInv, GraceStep
  <2> QED BY <2>2, <2>3 DEF GraceInv, GraceStep
<1>7. CASE UNCHANGED vars BY <1>1, <1>7 DEF vars, keys, hist
<1> QED BY <1>2, <1>3, <1>4, <1>5, <1>6, <1>7 DEF Next

\* decideChatOriginEmptyInterruptedTerminal: one reader that was not restarted accepts an interruption
\* for its deadline only when no look within the grace period saw the turn run.
THEOREM GraceIsGranted == ASSUME OneReads PROVE Spec => GraceServed
<1>1. Init => GraceInv
  <2> SUFFICES ASSUME Init PROVE GraceInv
    OBVIOUS
  <2>1. \A r \in Readers : reader[r].at = "idle" BY DEF Init, Idle
  <2>2. Within(defer, calm) BY DEF Init, Within
  <2> QED BY <2>1, <2>2 DEF GraceInv, Saves
<1>2. IInv /\ GraceInv /\ [Next]_vars => GraceInv' /\ [GraceStep]_vars BY GraceNext
<1> QED BY <1>1, <1>2, InitSafe, NextSafe, PTL DEF Spec, GraceServed, GraceStep

-----------------------------------------------------------------------------
(* The updater                                                             *)

Places == {"idle", "fetch", "download", "create", "copy", "rename"}
UpdTypeOK ==
  /\ latest \in Numbers /\ disk \in Numbers /\ running \in Numbers /\ spare \in File
  /\ exiting \in BOOLEAN /\ updater \in [Updaters -> [at : Places, mine : Numbers, rel : Numbers]]
\* The updater that holds <binary>.new.
Holds(u) == Where(u) \in {"copy", "rename"}
\* O_EXCL gives the file to one updater, and nobody else touches it.
OneHolder == \A u, w \in Updaters : Holds(u) /\ Holds(w) => u = w
\* What is in the file while it is held.
HeldFile == \A u \in Updaters : /\ Where(u) = "copy" => spare = Torn
                                /\ Where(u) = "rename" => spare = updater[u].rel
UpdInv == UpdTypeOK /\ OneHolder /\ HeldFile

\* There is a first release, and a number of a release is neither of the other contents.
LEMMA ReleaseNumbers ==
  /\ 1 \in Numbers /\ Numbers \subseteq File /\ Torn \in File /\ Absent \in File
  /\ Torn # Absent /\ Absent \notin Numbers /\ Torn \notin Numbers
  /\ Len(Releases) \in Nat /\ \A n \in Numbers : n < Len(Releases) => n + 1 \in Numbers
<1>1. Len(Releases) \in Nat /\ Len(Releases) # 0
  BY UpdaterAssumption
<1> QED BY <1>1 DEF Numbers, File, Torn, Absent

\* One updater goes to another place, with what it runs and installs.
LEMMA UpdaterMoves ==
  ASSUME UpdTypeOK, NEW u \in Updaters, NEW next \in [at : Places, mine : Numbers, rel : Numbers], Set(u, next)
  PROVE  /\ updater' \in [Updaters -> [at : Places, mine : Numbers, rel : Numbers]]
         /\ updater'[u] = next /\ \A w \in Updaters \ {u} : updater'[w] = updater[w]
BY DEF UpdTypeOK, Set

LEMMA Fields ==
  ASSUME UpdTypeOK, NEW u \in Updaters
  PROVE  /\ updater[u] \in [at : Places, mine : Numbers, rel : Numbers]
         /\ updater[u].mine \in Numbers /\ updater[u].rel \in Numbers /\ Where(u) \in Places
BY DEF UpdTypeOK, Where

LEMMA GoesTo ==
  ASSUME UpdTypeOK, NEW u \in Updaters, NEW place \in Places, NEW rel \in Numbers,
         Set(u, [updater[u] EXCEPT !.at = place, !.rel = rel]) \/ (Set(u, [updater[u] EXCEPT !.at = place]) /\ rel = updater[u].rel)
  PROVE  /\ updater' \in [Updaters -> [at : Places, mine : Numbers, rel : Numbers]]
         /\ updater'[u].at = place /\ updater'[u].rel = rel
         /\ \A w \in Updaters \ {u} : updater'[w] = updater[w]
<1> DEFINE one == [updater[u] EXCEPT !.at = place, !.rel = rel]
           two == [updater[u] EXCEPT !.at = place]
<1>1. /\ one \in [at : Places, mine : Numbers, rel : Numbers] /\ one.at = place /\ one.rel = rel
      /\ two \in [at : Places, mine : Numbers, rel : Numbers] /\ two.at = place /\ two.rel = updater[u].rel
  BY Fields
<1>2. CASE Set(u, one) BY <1>1, <1>2, UpdaterMoves
<1>3. CASE Set(u, two) /\ rel = updater[u].rel BY <1>1, <1>3, UpdaterMoves
<1> QED BY <1>2, <1>3

LEMMA Rests ==
  ASSUME UpdTypeOK, NEW u \in Updaters, Set(u, Resting)
  PROVE  /\ updater' \in [Updaters -> [at : Places, mine : Numbers, rel : Numbers]]
         /\ updater'[u].at = "idle" /\ \A w \in Updaters \ {u} : updater'[w] = updater[w]
<1>1. Resting \in [at : Places, mine : Numbers, rel : Numbers] /\ Resting.at = "idle"
  BY ReleaseNumbers DEF Resting, Places
<1> QED BY <1>1, UpdaterMoves

\* An updater that neither takes the file nor holds it changes nothing of what is held.
LEMMA HeldAlike ==
  ASSUME UpdInv, NEW u \in Updaters, updater'[u].at \notin {"copy", "rename"}, UNCHANGED spare,
         \A w \in Updaters \ {u} : updater'[w] = updater[w]
  PROVE  OneHolder' /\ HeldFile'
BY DEF UpdInv, OneHolder, HeldFile, Holds, Where

LEMMA UpdStepSafe ==
  ASSUME UpdInv, NEW u \in Updaters, UpdStep(u)
  PROVE  UpdInv'
<1> USE DEF UpdInv
<1> DEFINE UpdStates == [at : Places, mine : Numbers, rel : Numbers]
<1>0. UpdTypeOK /\ 1 \in Numbers BY ReleaseNumbers
<1>1. CASE Check(u)
  <2>1. PICK mine \in Numbers : /\ Set(u, [at |-> "fetch", mine |-> mine, rel |-> latest])
                                /\ UNCHANGED <<latest, disk, spare, running, exiting>>
    BY <1>1 DEF Check, UpdTypeOK
  <2>2. [at |-> "fetch", mine |-> mine, rel |-> latest] \in UpdStates BY DEF UpdTypeOK, Places
  <2>3. updater' \in [Updaters -> UpdStates] /\ updater'[u].at = "fetch" /\ \A w \in Updaters \ {u} : updater'[w] = updater[w]
    BY <2>1, <2>2, UpdaterMoves
  <2> QED BY <2>1, <2>3, HeldAlike DEF UpdTypeOK
<1>2. CASE Fetch(u)
  <2>1. updater' \in [Updaters -> UpdStates] /\ updater'[u].at = "download" /\ \A w \in Updaters \ {u} : updater'[w] = updater[w]
    <3>1. Set(u, [updater[u] EXCEPT !.at = "download", !.rel = latest]) /\ latest \in Numbers /\ "download" \in Places
      BY <1>2 DEF Fetch, UpdTypeOK, Places
    <3> QED BY <3>1, GoesTo
  <2> QED BY <1>2, <2>1, HeldAlike DEF Fetch, UpdTypeOK
<1>3. CASE Download(u)
  <2>1. updater' \in [Updaters -> UpdStates] /\ updater'[u].at \in {"create", "idle"} /\ \A w \in Updaters \ {u} : updater'[w] = updater[w]
    <3>1. "create" \in Places /\ updater[u].rel \in Numbers BY Fields DEF Places
    <3>2. CASE Set(u, [updater[u] EXCEPT !.at = "create"]) BY <3>1, <3>2, GoesTo
    <3>3. CASE Set(u, Resting) BY <3>3, Rests
    <3> QED BY <1>3, <3>2, <3>3 DEF Download
  <2> QED BY <1>3, <2>1, HeldAlike DEF Download, UpdTypeOK
<1>4. CASE Create(u)
  <2>1. CASE Creatable
    <3>1. updater' \in [Updaters -> UpdStates] /\ updater'[u].at = "copy" /\ \A w \in Updaters \ {u} : updater'[w] = updater[w]
      <4>1. Set(u, [updater[u] EXCEPT !.at = "copy"]) /\ updater[u].rel \in Numbers /\ "copy" \in Places
        BY <1>4, <2>1, Fields DEF Create, Places
      <4> QED BY <4>1, GoesTo
    <3>2. spare = Absent /\ spare' = Torn /\ UNCHANGED <<disk, latest, running, exiting>>
      BY <1>4, <2>1 DEF Create, Creatable, CopyTarget
    <3>3. \A w \in Updaters : ~Holds(w) 
      <4>1. ASSUME NEW w \in Updaters, Holds(w) PROVE FALSE
        <5>1. updater[w].rel \in Numbers BY Fields
        <5> QED BY <3>2, <4>1, <5>1, ReleaseNumbers DEF HeldFile, Holds
      <4> QED BY <4>1
    <3> QED BY <3>1, <3>2, <3>3, ReleaseNumbers DEF UpdTypeOK, OneHolder, HeldFile, Holds, Where
  <2>2. CASE ~Creatable
    <3>1. updater' \in [Updaters -> UpdStates] /\ updater'[u].at = "idle" /\ \A w \in Updaters \ {u} : updater'[w] = updater[w]
      BY <1>4, <2>2, Rests DEF Create
    <3> QED BY <1>4, <2>2, <3>1, HeldAlike DEF Create, UpdTypeOK
  <2> QED BY <2>1, <2>2
<1>5. CASE Copy(u)
  <2>1. CASE CopyTarget(updater[u].rel) /\ Set(u, [updater[u] EXCEPT !.at = "rename"])
    <3>1. /\ updater' \in [Updaters -> UpdStates] /\ updater'[u].at = "rename" /\ updater'[u].rel = updater[u].rel
          /\ \A w \in Updaters \ {u} : updater'[w] = updater[w]
      <4>1. updater[u].rel \in Numbers /\ "rename" \in Places BY Fields DEF Places
      <4> QED BY <2>1, <4>1, GoesTo
    <3>2. Holds(u) /\ spare' = updater[u].rel /\ UNCHANGED <<disk, latest, running, exiting>>
      BY <1>5, <2>1 DEF Copy, CopyTarget, Holds
    <3>3. updater[u].rel \in File /\ \A w \in Updaters \ {u} : ~Holds(w) /\ ~Holds(w)'
      BY <3>1, <3>2, Fields, ReleaseNumbers DEF OneHolder, Holds, Where
    <3> QED BY <3>1, <3>2, <3>3 DEF UpdTypeOK, OneHolder, HeldFile, Holds, Where
  <2>2. CASE Set(u, Resting) /\ UNCHANGED <<disk, spare>>
    <3>1. updater' \in [Updaters -> UpdStates] /\ updater'[u].at = "idle" /\ \A w \in Updaters \ {u} : updater'[w] = updater[w]
      BY <2>2, Rests
    <3> QED BY <1>5, <2>2, <3>1, HeldAlike DEF Copy, UpdTypeOK
  <2> QED BY <1>5, <2>1, <2>2 DEF Copy
<1>6. CASE Rename(u)
  <2>1. updater' \in [Updaters -> UpdStates] /\ updater'[u].at = "idle" /\ \A w \in Updaters \ {u} : updater'[w] = updater[w]
    BY <1>6, Rests DEF Rename
  <2>2. spare \in Numbers /\ Holds(u) BY <1>6, Fields DEF Rename, HeldFile, Holds
  <2>3. spare' = Absent /\ disk' \in {disk, spare} /\ exiting' \in BOOLEAN /\ UNCHANGED <<latest, running>>
    BY <1>6 DEF Rename, Exits, UpdTypeOK
  <2>4. \A w \in Updaters : ~Holds(w)' BY <2>1, <2>2 DEF OneHolder, Holds, Where
  <2> QED BY <2>1, <2>2, <2>3, <2>4, ReleaseNumbers DEF UpdTypeOK, OneHolder, HeldFile, Holds
<1> QED BY <1>1, <1>2, <1>3, <1>4, <1>5, <1>6 DEF UpdStep

LEMMA UpdInvInit == UpdInit => UpdInv
<1> SUFFICES ASSUME UpdInit PROVE UpdInv OBVIOUS
<1>1. \A u \in Updaters : updater[u] = Resting /\ Where(u) = "idle" BY DEF UpdInit, Where, Resting
<1> QED BY <1>1, ReleaseNumbers DEF UpdInit, UpdInv, UpdTypeOK, OneHolder, HeldFile, Holds, Where, Resting, Places

LEMMA UpdInvNext == UpdInv /\ [UpdNext]_updVars => UpdInv'
<1> SUFFICES ASSUME UpdInv, [UpdNext]_updVars PROVE UpdInv' OBVIOUS
<1>0. Resting \in [at : Places, mine : Numbers, rel : Numbers] /\ Resting.at = "idle"
  BY ReleaseNumbers DEF Resting, Places
<1>1. ASSUME Restart, UNCHANGED <<latest, disk, spare>> PROVE UpdInv'
  <2>1. \A w \in Updaters : updater'[w] \in {Resting, updater[w]} BY <1>1 DEF Restart
  <2>2. UpdTypeOK' BY <1>0, <1>1 DEF Restart, UpdInv, UpdTypeOK
  <2> QED BY <1>0, <1>1, <2>1, <2>2 DEF UpdInv, OneHolder, HeldFile, Holds, Where
<1>2. CASE Publish BY <1>2, ReleaseNumbers DEF Publish, UpdInv, UpdTypeOK, OneHolder, HeldFile, Holds, Where
<1>3. CASE Exit BY <1>1, <1>3 DEF Exit
<1>4. CASE UpdCrash
  <2>1. ASSUME NEW u \in Outside, Set(u, Resting), UNCHANGED <<latest, disk, spare, running, exiting>> PROVE UpdInv'
    <3>1. u \in Updaters /\ UpdTypeOK BY DEF Updaters, UpdInv
    <3>2. /\ updater' \in [Updaters -> [at : Places, mine : Numbers, rel : Numbers]] /\ updater'[u].at = "idle"
          /\ \A w \in Updaters \ {u} : updater'[w] = updater[w]
      BY <1>0, <2>1, <3>1, UpdaterMoves
    <3> QED BY <2>1, <3>1, <3>2, HeldAlike DEF UpdInv, UpdTypeOK
  <2> QED BY <1>1, <1>4, <2>1 DEF UpdCrash
<1>5. ASSUME NEW u \in Updaters, UpdStep(u) PROVE UpdInv' BY <1>5, UpdStepSafe
<1>6. CASE UNCHANGED updVars BY <1>6 DEF updVars, UpdInv, UpdTypeOK, OneHolder, HeldFile, Holds, Where
<1> QED BY <1>2, <1>3, <1>4, <1>5, <1>6 DEF UpdNext

\* Whatever updaters run at once, fail or are killed, the binary is a whole release, and what an
\* updater renames over it is the file it copied itself (copyBinary and replaceBinary of
\* internal/updater/updater.go).
THEOREM BinaryStaysWhole == UpdSpec => [](UpdTypeOK /\ InstallsWhole)
<1>1. UpdInv => UpdTypeOK /\ InstallsWhole
  BY DEF UpdInv, UpdTypeOK, InstallsWhole, BinaryIsWhole, RenamesItsOwn, HeldFile
<1> QED BY <1>1, UpdInvInit, UpdInvNext, PTL DEF UpdSpec

-----------------------------------------------------------------------------
(* The delivery queue                                                      *)

Answers == {"sent", "failed"}
OutTypeOK ==
  /\ status \in [Items -> {"pending", "retry", "processing", "delivered", "dead"}]
  /\ tries \in [Items -> Nat] /\ due \in [Items -> BOOLEAN] /\ posts \in [Items -> Nat]
  /\ batch \subseteq Items /\ acked \subseteq Items
\* Item i was sent and its answer is not recorded yet.
InHand(i) == answer = <<i, "sent">> \/ answer = <<i, "failed">>
\* One answer at a time, of an item of the batch.
AnswerOfBatch == answer = <<>> \/ \E i \in batch : InHand(i)
\* What is claimed was sent once for every failure on record, and once more while its answer is
\* in hand; what still waits was sent once for every failure; both have attempts left.
Counted ==
  \A i \in Items :
    /\ status[i] \in Waiting => posts[i] = tries[i] /\ tries[i] < MaxAttempts
    /\ i \in batch => /\ status[i] = "processing" /\ tries[i] < MaxAttempts
                       /\ posts[i] = IF InHand(i) THEN tries[i] + 1 ELSE tries[i]
OutInv == OutTypeOK /\ AnswerOfBatch /\ Counted /\ NoMoreThanPromised

\* An answer tells its item.
LEMMA AnswerTells ==
  /\ \A i, j \in Items : \A a, b \in Answers : <<i, a>> = <<j, b>> => i = j /\ a = b
  /\ \A i \in Items : \A a \in Answers : <<i, a>> # <<>>
OBVIOUS

LEMMA OutInvInit == OutInit => OutInv
<1> SUFFICES ASSUME OutInit PROVE OutInv OBVIOUS
<1>1. MaxAttempts \in Nat /\ MaxAttempts > 0 BY OutboxAssumption
<1>2. OutTypeOK BY DEF OutInit, OutTypeOK
<1> QED BY <1>1, <1>2 DEF OutInit, OutInv, AnswerOfBatch, Counted, NoMoreThanPromised, Waiting

LEMMA ClaimSafe == OutInv /\ Claim => OutInv'
<1> SUFFICES ASSUME OutInv, Claim PROVE OutInv' OBVIOUS
<1> USE DEF OutInv
<1>1. /\ batch = {} /\ batch' = Claimable /\ Claimable \subseteq Items
      /\ \A i \in Items : status'[i] = IF i \in Claimable THEN "processing" ELSE status[i]
      /\ UNCHANGED <<tries, due, answer, acked, posts>>
  BY DEF Claim, Claimable
<1>2. OutTypeOK' BY <1>1 DEF Claim, OutTypeOK
<1>3. answer = <<>> BY <1>1 DEF AnswerOfBatch
<1>4. \A i \in Items : ~InHand(i) BY <1>3, AnswerTells DEF InHand, Answers
<1>5. \A i \in Claimable : status[i] \in Waiting /\ i \in Items BY DEF Claimable
<1>6. Counted' BY <1>1, <1>4, <1>5 DEF Counted, InHand, Waiting
<1>7. NoMoreThanPromised'
  BY <1>1, <1>5 DEF NoMoreThanPromised, OutTypeOK, Waiting
<1> QED BY <1>1, <1>2, <1>3, <1>6, <1>7 DEF AnswerOfBatch

LEMMA PostSafe == ASSUME OutInv, NEW i \in Items, Post(i) PROVE OutInv'
<1> USE DEF OutInv
<1>1. PICK a \in Answers : answer' = <<i, a>> /\ acked' = IF a = "sent" THEN acked \cup {i} ELSE acked
  BY DEF Post, Answers
<1>2. /\ i \in batch /\ answer = <<>> /\ posts' = [posts EXCEPT ![i] = @ + 1]
      /\ UNCHANGED <<status, tries, due, batch>>
  BY DEF Post
<1>3. OutTypeOK' BY <1>1, <1>2 DEF OutTypeOK
<1>4. InHand(i)' /\ \A j \in Items : ~InHand(j) /\ (j # i => ~InHand(j)')
  BY <1>1, <1>2, AnswerTells DEF InHand, Answers
<1>5. AnswerOfBatch' BY <1>2, <1>4 DEF AnswerOfBatch
<1>6. status[i] = "processing" /\ posts[i] = tries[i] /\ tries[i] < MaxAttempts BY <1>2, <1>4 DEF Counted
<1>7. posts'[i] = tries[i] + 1 /\ \A j \in Items \ {i} : posts'[j] = posts[j] BY <1>2, <1>6 DEF OutTypeOK
<1>8. Counted' BY <1>2, <1>4, <1>6, <1>7 DEF Counted, Waiting
<1>9. NoMoreThanPromised'
  <2>1. \A j \in Items : posts'[j] <= MaxAttempts
    BY <1>6, <1>7, OutboxAssumption DEF NoMoreThanPromised, OutTypeOK
  <2>2. ASSUME NEW j \in acked' PROVE (status[j] = "delivered" \/ (status[j] = "processing" /\ (j \in batch => answer = <<j, "sent">>)))'
    <3>1. CASE j = i /\ a = "sent" BY <1>1, <1>2, <1>6, <3>1
    <3>2. CASE j \in acked
      <4>1. answer # <<j, "sent">> BY <1>2, <3>2, AnswerTells DEF OutTypeOK, Answers
      <4>2. status[j] = "delivered" \/ (status[j] = "processing" /\ j \notin batch)
        BY <3>2, <4>1 DEF NoMoreThanPromised
      <4> QED BY <1>2, <4>2
    <3> QED BY <1>1, <3>1, <3>2
  <2> QED BY <2>1, <2>2 DEF NoMoreThanPromised
<1> QED BY <1>3, <1>5, <1>8, <1>9

LEMMA SettleSafe == ASSUME OutInv, NEW i \in Items, Settle(i) PROVE OutInv'
<1> USE DEF OutInv
<1>1. i \in batch /\ InHand(i) /\ batch' = batch \ {i} /\ answer' = <<>> /\ UNCHANGED <<acked, posts>>
  BY DEF Settle, InHand
<1>2. status[i] = "processing" /\ tries[i] < MaxAttempts /\ posts[i] = tries[i] + 1
  BY <1>1 DEF Counted
<1>3. \A j \in Items : ~InHand(j)' /\ (j # i => ~InHand(j))
  BY <1>1, AnswerTells DEF InHand, Answers
<1>4. CASE answer = <<i, "sent">>
  <2>1. /\ status' = [status EXCEPT ![i] = "delivered"] /\ UNCHANGED <<tries, due>>
    BY <1>4 DEF Settle
  <2>2. status'[i] = "delivered" /\ \A j \in Items \ {i} : status'[j] = status[j] BY <2>1 DEF OutTypeOK
  <2>3. OutTypeOK' BY <1>1, <2>1 DEF OutTypeOK
  <2>4. Counted' BY <1>1, <1>3, <2>1, <2>2 DEF Counted, Waiting
  <2>5. NoMoreThanPromised' BY <1>1, <1>3, <2>2 DEF NoMoreThanPromised, OutTypeOK, InHand
  <2> QED BY <1>1, <2>3, <2>4, <2>5 DEF AnswerOfBatch
<1>5. CASE answer = <<i, "failed">>
  <2>0. answer[2] # "sent" /\ answer # <<i, "sent">> BY <1>5
  <2>1. /\ status' = [status EXCEPT ![i] = IF tries[i] + 1 >= MaxAttempts THEN "dead" ELSE "retry"]
        /\ tries' = [tries EXCEPT ![i] = tries[i] + 1] /\ due' = [due EXCEPT ![i] = FALSE]
    BY <2>0 DEF Settle, Dead
  <2>2. /\ tries'[i] = tries[i] + 1 /\ status'[i] = IF tries[i] + 1 >= MaxAttempts THEN "dead" ELSE "retry"
        /\ \A j \in Items \ {i} : status'[j] = status[j] /\ tries'[j] = tries[j]
    BY <2>1 DEF OutTypeOK
  <2>3. OutTypeOK'
    <3>1. tries[i] + 1 \in Nat BY DEF OutTypeOK
    <3> QED BY <1>1, <2>1, <3>1 DEF OutTypeOK
  <2>4. Counted'
    <3>1. MaxAttempts \in Nat /\ tries[i] \in Nat BY OutboxAssumption DEF OutTypeOK
    <3> QED BY <1>1, <1>2, <1>3, <2>2, <3>1 DEF Counted, Waiting
  <2>5. i \notin acked BY <1>1, <1>2, <2>0 DEF NoMoreThanPromised
  <2>6. NoMoreThanPromised' BY <1>1, <1>3, <2>2, <2>5 DEF NoMoreThanPromised, OutTypeOK, InHand
  <2> QED BY <1>1, <2>3, <2>4, <2>6 DEF AnswerOfBatch
<1> QED BY <1>1, <1>4, <1>5 DEF InHand

LEMMA OutInvNext == OutInv /\ [OutNext]_outVars => OutInv'
<1> SUFFICES ASSUME OutInv, [OutNext]_outVars PROVE OutInv' OBVIOUS
<1>1. CASE Claim BY <1>1, ClaimSafe
<1>2. ASSUME NEW i \in Items, Post(i) \/ Settle(i) PROVE OutInv' BY <1>2, PostSafe, SettleSafe
<1>3. CASE OutCrash
  <2>1. batch' = {} /\ answer' = <<>> /\ UNCHANGED <<status, tries, due, acked, posts>> BY <1>3 DEF OutCrash
  <2>2. \A j \in Items : ~InHand(j)' BY <2>1, AnswerTells DEF InHand, Answers
  <2> QED BY <2>1, <2>2 DEF OutInv, OutTypeOK, AnswerOfBatch, Counted, NoMoreThanPromised, InHand
<1>4. ASSUME NEW i \in Items, Available(i) PROVE OutInv'
  BY <1>4 DEF Available, OutInv, OutTypeOK, AnswerOfBatch, Counted, NoMoreThanPromised, InHand
<1>5. CASE UNCHANGED outVars
  BY <1>5 DEF outVars, OutInv, OutTypeOK, AnswerOfBatch, Counted, NoMoreThanPromised, InHand
<1> QED BY <1>1, <1>2, <1>3, <1>4, <1>5 DEF OutNext, Deliver

\* A message that Feishu confirmed is never sent again and none is sent more often than the
\* limit says, for any items, limit and crashes (processDeliveryBatch of service.go, ClaimDeliveryBatch
\* and FailDelivery of store.go).
THEOREM SentAsPromised == OutSpec => [](OutTypeOK /\ NoMoreThanPromised)
<1>1. OutInv => OutTypeOK /\ NoMoreThanPromised BY DEF OutInv
<1> QED BY <1>1, OutInvInit, OutInvNext, PTL DEF OutSpec

-----------------------------------------------------------------------------
(* The catalog                                                             *)

CodexStates == {"none", "open", "archived", "deleted"}
PassPlaces == {"idle", "apply", "page", "rows", "reconcile"}
Passing == [at : PassPlaces, limited : BOOLEAN, seen : SUBSET Threads, batch : SUBSET Threads,
            steady : SUBSET Threads]
Handling == {Free} \cup [at : {"write"}, t : Threads, kind : Happenings, copy : Row]
            \cup [at : {"notify"}, t : Threads, kind : Happenings]
Polled == {Free} \cup [at : {"write"}, t : Threads, flag : BOOLEAN]
Attached == {Free} \cup [at : {"write"}, t : Threads, copy : Row]

\* A listed row is one an earlier write made.
RowOK(r) == r \in Row /\ (r.listed => r.known)
\* A pass that is about to set the flags has seen whatever was open all the while.
PassOK(q) ==
  /\ q \in Passing /\ q.batch \cap q.seen = {}
  /\ q.at \in {"apply", "reconcile"} => q.steady \subseteq q.seen
CatInv ==
  /\ codex \in [Threads -> CodexStates] /\ told \in [Threads -> Happenings \cup {"none"}]
  /\ row \in [Threads -> Row] /\ \A t \in Threads : RowOK(row[t])
  /\ pass \in [Passes -> Passing] /\ \A p \in Passes : PassOK(pass[p])
  /\ news \in Seq(Threads \X Happenings) /\ live \in Handling
  /\ poller \in [Pollers -> Polled] /\ attach \in Attached

\* Where thread/read does not flag archived threads, the only mark there is is a deletion; it is
\* in the column as well, and so are the copies of it that are still to be written.
Marks(r) == r.mark # "archived" /\ (r.mark # "none" => r.archived)
MarkInv ==
  /\ \A t \in Threads : Marks(row[t])
  /\ live.at = "write" => live.copy.mark # "archived"
  /\ attach.at = "write" => attach.copy.mark # "archived"
  /\ \A r \in Pollers : poller[r].at = "write" => ~poller[r].flag

\* What the writes make of a row.
LEMMA RowWrites ==
  ASSUME NEW r \in Row
  PROVE  /\ \A archived \in BOOLEAN, mark \in {"none", "archived", "deleted"} : RowOK(Upserted(r, archived, mark))
         /\ RowOK(Catalogued(r)) /\ RowOK(Opened(r))
         /\ \A mark \in {"none", "archived", "deleted"} : RowOK(Closed(mark))
         /\ RowOK([r EXCEPT !.listed = FALSE])
         /\ \A listed \in BOOLEAN : RowOK([r EXCEPT !.listed = r.known /\ listed])
BY DEF Row, RowOK, Upserted, Catalogued, Opened, Closed

LEMMA RowMarks ==
  ASSUME NEW r \in Row, Marks(r)
  PROVE  /\ \A archived : Marks(Upserted(r, archived, "none"))
         /\ \A mark : mark # "archived" => Marks(Upserted(r, TRUE, mark)) /\ Marks(Closed(mark))
         /\ Marks(Catalogued(r)) /\ Marks(Opened(r))
         /\ \A listed : Marks([r EXCEPT !.listed = listed])
BY DEF Row, Marks, Upserted, Catalogued, Opened, Closed

LEMMA PassMoves ==
  ASSUME CatInv, NEW p \in Passes, NEW next, PassOK(next), Step(p, next)
  PROVE  /\ pass' \in [Passes -> Passing] /\ \A q \in Passes : PassOK(pass'[q])
         /\ pass'[p] = next /\ \A q \in Passes \ {p} : pass'[q] = pass[q]
<1>1. next \in Passing BY DEF PassOK
<1>2. pass' = [pass EXCEPT ![p] = next] BY DEF Step
<1> QED BY <1>1, <1>2 DEF CatInv

\* What a pass puts back into the list, or leaves in it.
Keeps(p) ==
  \A t \in pass[p].steady : pass'[p].at = "idle" /\ row[t].listed /\ pass[p].at # "idle" => row'[t].listed

\* The rows after a step of a pass, and its own next place.
PassKeeps(p) ==
  /\ row' \in [Threads -> Row] /\ \A t \in Threads : RowOK(row'[t])
  /\ Keeps(p)
  /\ (\A t \in Threads : Marks(row[t])) => \A t \in Threads : Marks(row'[t])

LEMMA PassFields ==
  ASSUME CatInv, NEW p \in Passes
  PROVE  /\ PassOK(pass[p]) /\ pass[p] \in Passing
         /\ pass[p].at \in PassPlaces /\ pass[p].limited \in BOOLEAN
         /\ pass[p].seen \subseteq Threads /\ pass[p].batch \subseteq Threads /\ pass[p].steady \subseteq Threads
         /\ pass[p].batch \cap pass[p].seen = {}
         /\ Listable \subseteq Threads
BY DEF CatInv, PassOK, Passing, Listable

LEMMA PassSafe ==
  ASSUME CatInv, NEW p \in Passes, PassStep(p)
  PROVE  /\ pass' \in [Passes -> Passing] /\ \A q \in Passes : PassOK(pass'[q])
         /\ \A q \in Passes \ {p} : pass'[q] = pass[q]
         /\ PassKeeps(p)
<1> DEFINE o == pass[p]
           Moves == /\ pass' \in [Passes -> Passing] /\ \A q \in Passes : PassOK(pass'[q])
                    /\ \A q \in Passes \ {p} : pass'[q] = pass[q]
<1>o. /\ PassOK(o) /\ o \in Passing /\ o.limited \in BOOLEAN
      /\ o.seen \subseteq Threads /\ o.batch \subseteq Threads /\ o.steady \subseteq Threads
      /\ o.batch \cap o.seen = {} /\ Listable \subseteq Threads
  BY PassFields
<1>r. row \in [Threads -> Row] /\ \A t \in Threads : row[t] \in Row /\ RowOK(row[t]) BY DEF CatInv
<1>n. PassOK(NoPass) BY DEF PassOK, NoPass, Passing, PassPlaces
<1>0. ASSUME UNCHANGED row PROVE PassKeeps(p) BY <1>0, <1>r, <1>o DEF PassKeeps, Keeps
<1>1. CASE ReadState(p)
  <2> DEFINE next == [NoPass EXCEPT !.at = "apply", !.seen = Listable, !.steady = Listable]
  <2>1. PassOK(next) BY <1>o DEF PassOK, NoPass, Passing, PassPlaces
  <2>2. Moves BY <1>1, <2>1, PassMoves DEF ReadState
  <2> QED BY <1>0, <1>1, <2>2 DEF ReadState
<1>2. CASE StateUnreadable(p)
  <2>1. PICK limited \in BOOLEAN : Step(p, [NoPass EXCEPT !.at = "page", !.limited = limited, !.steady = Listable])
    BY <1>2 DEF StateUnreadable
  <2> DEFINE next == [NoPass EXCEPT !.at = "page", !.limited = limited, !.steady = Listable]
  <2>2. PassOK(next) BY <1>o DEF PassOK, NoPass, Passing, PassPlaces
  <2>3. Moves BY <2>1, <2>2, PassMoves
  <2> QED BY <1>0, <1>2, <2>3 DEF StateUnreadable
<1>3. CASE Apply(p)
  <2>1. Moves /\ pass'[p] = NoPass BY <1>3, <1>n, PassMoves DEF Apply
  <2>2. row' = [t \in Threads |-> IF t \in o.seen THEN Catalogued(row[t]) ELSE [row[t] EXCEPT !.listed = FALSE]]
    BY <1>3 DEF Apply
  <2>3. ASSUME NEW t \in Threads
        PROVE  /\ RowOK(row'[t]) /\ (Marks(row[t]) => Marks(row'[t]))
               /\ t \in o.seen => row'[t].listed
    <3>1. CASE t \in o.seen BY <1>r, <2>2, <3>1, RowWrites, RowMarks DEF Catalogued
    <3>2. CASE t \notin o.seen BY <1>r, <2>2, <3>2, RowWrites, RowMarks
    <3> QED BY <3>1, <3>2
  <2>4. row' \in [Threads -> Row] BY <2>2, <2>3 DEF RowOK
  <2>5. o.steady \subseteq o.seen BY <1>3, <1>o DEF Apply, PassOK
  <2>6. PassKeeps(p) BY <1>o, <2>3, <2>4, <2>5 DEF PassKeeps, Keeps
  <2> QED BY <2>1, <2>6
<1>4. CASE Page(p)
  <2>1. PICK some \in SUBSET (Listable \ o.seen) : Step(p, [o EXCEPT !.at = "rows", !.batch = some])
    BY <1>4 DEF Page
  <2> DEFINE next == [o EXCEPT !.at = "rows", !.batch = some]
  <2>2. PassOK(next) BY <1>o DEF PassOK, Passing, PassPlaces
  <2>3. Moves BY <2>1, <2>2, PassMoves
  <2> QED BY <1>0, <1>4, <2>3 DEF Page
<1>5. CASE PageFails(p)
  <2>1. Moves BY <1>5, <1>n, PassMoves DEF PageFails
  <2> QED BY <1>0, <1>5, <2>1 DEF PageFails
<1>6. CASE PageRows(p)
  <2> DEFINE seen == o.seen \cup o.batch
             more == ~(o.steady \subseteq seen)
             next == Listed(p, seen, more)
             some == [o EXCEPT !.at = IF more THEN "page" ELSE "reconcile", !.seen = seen, !.batch = {}]
  <2>1. PassOK(some) BY <1>o DEF PassOK, Passing, PassPlaces
  <2>2. next \in {NoPass, some} BY DEF Listed
  <2>3. PassOK(next) BY <1>n, <2>1, <2>2
  <2>4. Step(p, next) BY <1>6 DEF PageRows
  <2>5. Moves
    <3> HIDE DEF next
    <3> QED BY <2>3, <2>4, PassMoves
  <2>6. row' = [t \in Threads |-> IF t \in o.batch THEN Upserted(row[t], FALSE, "none") ELSE row[t]]
    BY <1>6 DEF PageRows
  <2>7. ASSUME NEW t \in Threads
        PROVE  /\ RowOK(row'[t]) /\ (Marks(row[t]) => Marks(row'[t]))
               /\ row[t].listed => row'[t].listed
    <3>1. CASE t \in o.batch
      <4>1. row'[t] = Upserted(row[t], FALSE, "none") BY <2>6, <3>1
      <4>2. row'[t].listed = (~row[t].known \/ row[t].listed) BY <4>1 DEF Upserted
      <4>3. row[t].listed => row'[t].listed BY <4>2, Zenon
      <4> QED BY <1>r, <4>1, <4>3, RowWrites, RowMarks
    <3>2. CASE t \notin o.batch BY <1>r, <2>6, <3>2
    <3> QED BY <3>1, <3>2
  <2>8. row' \in [Threads -> Row] BY <2>6, <2>7 DEF RowOK
  <2>9. PassKeeps(p) BY <1>o, <2>7, <2>8 DEF PassKeeps, Keeps
  <2> QED BY <2>5, <2>9
<1>7. CASE ReconcilePass(p)
  <2>1. Moves BY <1>7, <1>n, PassMoves DEF ReconcilePass
  <2>2. o.steady \subseteq o.seen BY <1>7, <1>o DEF ReconcilePass, PassOK
  <2>3. CASE Authoritative(o.seen)
    <3>1. row' = [t \in Threads |-> [row[t] EXCEPT !.listed = row[t].known /\ t \in o.seen]]
      BY <1>7, <2>3 DEF ReconcilePass, OnlyListed
    <3>2. ASSUME NEW t \in Threads
          PROVE  /\ RowOK(row'[t]) /\ (Marks(row[t]) => Marks(row'[t]))
                 /\ t \in o.seen /\ row[t].listed => row'[t].listed
      <4>1. row'[t] = [row[t] EXCEPT !.listed = row[t].known /\ t \in o.seen] BY <3>1
      <4>2. (t \in o.seen) \in BOOLEAN OBVIOUS
      <4>3. RowOK(row'[t]) BY <1>r, <4>1, <4>2, RowWrites
      <4>4. Marks(row[t]) => Marks(row'[t])
        <5>1. row'[t].mark = row[t].mark /\ row'[t].archived = row[t].archived BY <1>r, <4>1 DEF Row
        <5> QED BY <5>1, Zenon DEF Marks
      <4>5. t \in o.seen /\ row[t].listed => row'[t].listed BY <1>r, <4>1 DEF RowOK, Row
      <4> QED BY <4>3, <4>4, <4>5
    <3>3. row' \in [Threads -> Row] BY <3>1, <3>2 DEF RowOK
    <3> QED BY <1>o, <2>1, <2>2, <3>2, <3>3 DEF PassKeeps, Keeps
  <2>4. CASE ~Authoritative(o.seen) BY <1>0, <1>7, <2>1, <2>4 DEF ReconcilePass
  <2> QED BY <2>3, <2>4
<1> QED BY <1>1, <1>2, <1>3, <1>4, <1>5, <1>6, <1>7 DEF PassStep

\* One row is written, by what is not a pass.
LEMMA OneRow ==
  ASSUME CatInv, NEW t \in Threads, NEW r, RowOK(r), row' = [row EXCEPT ![t] = r]
  PROVE  /\ row' \in [Threads -> Row] /\ \A s \in Threads : RowOK(row'[s])
         /\ row'[t] = r /\ \A s \in Threads \ {t} : row'[s] = row[s]
<1>1. r \in Row BY DEF RowOK
<1> QED BY <1>1 DEF CatInv

\* What happens to a thread takes it out of what was open all the while; nothing else of a pass
\* is touched, by this or by any step that is not its own.
LEMMA ChangeSafe ==
  ASSUME CatInv, NEW t \in Threads, NEW to \in CodexStates, NEW event \in Happenings \cup {"none"}, Change(t, to, event)
  PROVE  CatInv' /\ (MarkInv => MarkInv') /\ \A p \in Passes : pass'[p].at = pass[p].at
<1>1. codex' \in [Threads -> CodexStates] BY DEF CatInv, Change
<1>2. news' \in Seq(Threads \X Happenings)
  <2>1. CASE event \in Happenings
    <3>1. <<t, event>> \in Threads \X Happenings BY <2>1
    <3>2. Append(news, <<t, event>>) \in Seq(Threads \X Happenings) BY <3>1 DEF CatInv
    <3> QED BY <3>2 DEF CatInv, Change
  <2>2. CASE event \notin Happenings BY <2>2 DEF CatInv, Change
  <2> QED BY <2>1, <2>2
<1>3. ASSUME NEW p \in Passes
      PROVE  PassOK(pass'[p]) /\ pass'[p] \in Passing /\ pass'[p].at = pass[p].at
  <2>1. PICK steady \in SUBSET pass[p].steady : pass'[p] = [pass[p] EXCEPT !.steady = steady]
    <3>1. pass'[p] = [pass[p] EXCEPT !.steady = IF to = "open" THEN @ ELSE @ \ {t}] BY DEF Change
    <3> QED BY <3>1
  <2> QED BY <2>1, PassFields DEF PassOK, Passing
<1>4. pass' \in [Passes -> Passing] BY <1>3 DEF Change
<1>5. UNCHANGED <<row, live, poller, attach, told>> BY DEF Change
<1> QED BY <1>1, <1>2, <1>3, <1>4, <1>5 DEF CatInv, MarkInv

LEMMA ThreadSafe ==
  ASSUME CatInv, NEW t \in Threads, ThreadStep(t)
  PROVE  CatInv' /\ (MarkInv => MarkInv') /\ \A p \in Passes : pass'[p].at = pass[p].at
<1>1. CASE CreateThread(t) \/ Archive(t) \/ Delete(t) \/ Unarchive(t)
  BY <1>1, ChangeSafe DEF CreateThread, Archive, Delete, Unarchive, CodexStates, Happenings
<1>2. CASE Resume(t)
  <2>1. attach' = [at |-> "write", t |-> t, copy |-> row[t]] BY <1>2 DEF Resume
  <2>2. row[t] \in Row BY DEF CatInv
  <2>3. attach' \in Attached /\ attach'.copy = row[t] BY <2>1, <2>2 DEF Attached
  <2>4. UNCHANGED <<codex, pass, news, live, told, row, poller>> BY <1>2 DEF Resume, ReadOnly
  <2>5. CatInv' BY <2>3, <2>4 DEF CatInv
  <2>6. MarkInv => MarkInv' BY <2>3, <2>4 DEF MarkInv, Marks
  <2> QED BY <2>4, <2>5, <2>6
<1> QED BY <1>1, <1>2 DEF ThreadStep

LEMMA LiveSafe ==
  ASSUME CatInv, TakeEvent \/ WriteEvent \/ Notify
  PROVE  CatInv' /\ (MarkInv => MarkInv') /\ \A p \in Passes : pass'[p].at = pass[p].at
<1>0. UNCHANGED <<codex, pass, poller, attach>> BY DEF TakeEvent, WriteEvent, Notify, LiveOnly
<1>f. Free.at = "idle" BY DEF Free
<1>1. CASE TakeEvent
  <2>1. news # <<>> /\ news \in Seq(Threads \X Happenings) BY <1>1 DEF TakeEvent, CatInv
  <2>2. Head(news) \in Threads \X Happenings /\ Tail(news) \in Seq(Threads \X Happenings) BY <2>1
  <2>3. PICK t \in Threads, kind \in Happenings : t = Head(news)[1] /\ kind = Head(news)[2] BY <2>2
  <2>4. live' = [at |-> "write", t |-> t, kind |-> kind, copy |-> row[t]] BY <1>1, <2>3 DEF TakeEvent
  <2>5. row[t] \in Row BY DEF CatInv
  <2>6. live' \in Handling /\ live'.copy = row[t] BY <2>4, <2>5 DEF Handling
  <2>7. UNCHANGED <<row, told>> /\ news' \in Seq(Threads \X Happenings) BY <1>1, <2>2 DEF TakeEvent
  <2>8. CatInv' BY <1>0, <2>6, <2>7 DEF CatInv
  <2>9. MarkInv => MarkInv' BY <1>0, <2>6, <2>7 DEF MarkInv, Marks
  <2> QED BY <1>0, <2>8, <2>9
<1>2. CASE WriteEvent
  <2>1. live \in [at : {"write"}, t : Threads, kind : Happenings, copy : Row]
    BY <1>2, <1>f DEF WriteEvent, CatInv, Handling
  <2>2. PICK t \in Threads, kind \in Happenings, copy \in Row : live.t = t /\ live.kind = kind /\ live.copy = copy
    BY <2>1
  <2> DEFINE r == CASE kind = "deleted" -> Closed("deleted") [] kind = "archived" -> Closed(copy.mark)
                    [] kind = "unarchived" -> Opened(copy)
  <2>3. row' = [row EXCEPT ![t] = r] BY <1>2, <2>2 DEF WriteEvent
  <2>4. r \in {Closed("deleted"), Closed(copy.mark), Opened(copy)} BY DEF Happenings
  <2>5. RowOK(r) BY <2>4, RowWrites DEF Row
  <2>6. copy.mark # "archived" => Marks(r)
    <3>1. Marks(Closed("deleted")) /\ (copy.mark # "archived" => Marks(Closed(copy.mark))) BY DEF Marks, Closed
    <3>2. copy.mark # "archived" => Marks(Opened(copy)) BY DEF Marks, Opened, Row
    <3> QED BY <2>4, <3>1, <3>2
  <2> HIDE DEF r
  <2>7. /\ row' \in [Threads -> Row] /\ \A s \in Threads : RowOK(row'[s])
        /\ row'[t] = r /\ \A s \in Threads \ {t} : row'[s] = row[s]
    BY <2>3, <2>5, OneRow
  <2>8. live' = [at |-> "notify", t |-> t, kind |-> kind] BY <1>2, <2>2 DEF WriteEvent
  <2>9. live' \in Handling /\ live'.at = "notify" BY <2>8 DEF Handling
  <2>10. UNCHANGED <<news, told>> BY <1>2 DEF WriteEvent
  <2>11. CatInv' BY <1>0, <2>7, <2>9, <2>10 DEF CatInv
  <2>12. MarkInv => MarkInv'
    <3>1. MarkInv => copy.mark # "archived" BY <2>1, <2>2 DEF MarkInv
    <3> QED BY <1>0, <2>6, <2>7, <2>9, <3>1 DEF MarkInv
  <2> QED BY <1>0, <2>11, <2>12
<1>3. CASE Notify
  <2>1. live' = Free /\ UNCHANGED <<row, news>> BY <1>3 DEF Notify
  <2>2. live' \in Handling BY <2>1 DEF Handling
  <2>3. told' \in [Threads -> Happenings \cup {"none"}]
    <3>1. live \in [at : {"notify"}, t : Threads, kind : Happenings]
      BY <1>3, <1>f DEF Notify, CatInv, Handling
    <3>2. live.t \in Threads /\ live.kind \in Happenings BY <3>1
    <3> QED BY <1>3, <3>2 DEF Notify, CatInv
  <2>4. CatInv' BY <1>0, <2>1, <2>2, <2>3 DEF CatInv
  <2>5. MarkInv => MarkInv' BY <1>0, <1>f, <2>1 DEF MarkInv
  <2> QED BY <1>0, <2>4, <2>5
<1> QED BY <1>1, <1>2, <1>3

LEMMA ReadersSafe ==
  ASSUME CatInv, Resumed \/ \E r \in Pollers : StoreRead(r) \/ \E t \in Threads : Begin(r, t)
  PROVE  CatInv' /\ (~Flagged /\ MarkInv => MarkInv') /\ \A p \in Passes : pass'[p].at = pass[p].at
<1>0. UNCHANGED <<codex, pass, news, live, told>> BY DEF Resumed, StoreRead, Begin, ReadOnly
<1>f. Free.at = "idle" BY DEF Free
<1>1. CASE Resumed
  <2>1. attach \in [at : {"write"}, t : Threads, copy : Row]
    BY <1>1, <1>f DEF Resumed, CatInv, Attached
  <2>2. PICK t \in Threads, copy \in Row : attach.t = t /\ attach.copy = copy BY <2>1
  <2> DEFINE r == Upserted(row[t], TRUE, copy.mark)
  <2>3. row' = [row EXCEPT ![t] = r] BY <1>1, <2>2 DEF Resumed
  <2>4. row[t] \in Row /\ copy.mark \in {"none", "archived", "deleted"} BY DEF CatInv, Row
  <2>5. RowOK(r) BY <2>4, RowWrites
  <2>6. copy.mark # "archived" => Marks(r) BY DEF Marks, Upserted
  <2> HIDE DEF r
  <2>7. /\ row' \in [Threads -> Row] /\ \A s \in Threads : RowOK(row'[s])
        /\ row'[t] = r /\ \A s \in Threads \ {t} : row'[s] = row[s]
    BY <2>3, <2>5, OneRow
  <2>8. attach' = Free /\ poller' = poller BY <1>1 DEF Resumed
  <2>9. CatInv' BY <1>0, <2>7, <2>8 DEF CatInv, Attached
  <2>10. MarkInv => MarkInv'
    <3>1. MarkInv => copy.mark # "archived" BY <2>1, <2>2 DEF MarkInv
    <3> QED BY <1>0, <1>f, <2>6, <2>7, <2>8, <3>1 DEF MarkInv
  <2> QED BY <1>0, <2>9, <2>10
<1>2. ASSUME NEW r \in Pollers, StoreRead(r) PROVE CatInv' /\ (MarkInv => MarkInv')
  <2>1. poller[r] \in [at : {"write"}, t : Threads, flag : BOOLEAN]
    BY <1>2, <1>f DEF StoreRead, CatInv, Polled
  <2>2. PICK t \in Threads, flag \in BOOLEAN : poller[r].t = t /\ poller[r].flag = flag BY <2>1
  <2>3. row[t] \in Row /\ row[t].archived \in BOOLEAN BY DEF CatInv, Row
  <2> DEFINE archived == flag \/ (r = "refresh" /\ row[t].archived)
             new == Upserted(row[t], archived, IF flag THEN "archived" ELSE "none")
  <2>4. row' = [row EXCEPT ![t] = new] BY <1>2, <2>2 DEF StoreRead
  <2>5. archived \in BOOLEAN BY <2>3
  <2>6. RowOK(new)
    <3> HIDE DEF archived
    <3> QED BY <2>3, <2>5, RowWrites
  <2>7. ~flag => Marks(new) BY DEF Marks, Upserted
  <2> HIDE DEF new, archived
  <2>8. /\ row' \in [Threads -> Row] /\ \A s \in Threads : RowOK(row'[s])
        /\ row'[t] = new /\ \A s \in Threads \ {t} : row'[s] = row[s]
    BY <2>4, <2>6, OneRow
  <2>9. poller' = [poller EXCEPT ![r] = Free] /\ attach' = attach BY <1>2 DEF StoreRead
  <2>10. poller' \in [Pollers -> Polled] /\ poller'[r] = Free /\ \A s \in Pollers \ {r} : poller'[s] = poller[s]
    BY <2>9 DEF CatInv, Polled
  <2>11. CatInv' BY <1>0, <2>8, <2>9, <2>10 DEF CatInv
  <2>12. MarkInv => MarkInv'
    <3>1. MarkInv => ~flag BY <2>1, <2>2 DEF MarkInv
    <3>2. MarkInv => \A s \in Pollers : poller'[s].at = "write" => ~poller'[s].flag BY <1>f, <2>10 DEF MarkInv
    <3>3. MarkInv => \A s \in Threads : Marks(row'[s]) BY <2>7, <2>8, <3>1 DEF MarkInv
    <3> QED BY <1>0, <2>9, <3>2, <3>3 DEF MarkInv
  <2> QED BY <2>11, <2>12
<1>3. ASSUME NEW r \in Pollers, NEW t \in Threads, Begin(r, t) PROVE CatInv' /\ (~Flagged /\ MarkInv => MarkInv')
  <2> DEFINE flag == Flagged /\ codex[t] = "archived"
             next == [at |-> "write", t |-> t, flag |-> flag]
  <2>1. flag \in BOOLEAN /\ (~Flagged => ~flag) BY CatalogAssumption
  <2>2. next \in Polled /\ next.flag = flag BY <2>1 DEF Polled
  <2>3. poller' = [poller EXCEPT ![r] = next] BY <1>3 DEF Begin
  <2> HIDE DEF next, flag
  <2>4. poller' \in [Pollers -> Polled] /\ poller'[r] = next /\ \A s \in Pollers \ {r} : poller'[s] = poller[s]
    BY <2>2, <2>3 DEF CatInv
  <2>5. UNCHANGED <<row, attach>> BY <1>3 DEF Begin
  <2>6. CatInv' BY <1>0, <2>4, <2>5 DEF CatInv
  <2>7. ~Flagged /\ MarkInv => \A s \in Pollers : poller'[s].at = "write" => ~poller'[s].flag
    BY <2>1, <2>2, <2>4 DEF MarkInv
  <2>8. ~Flagged /\ MarkInv => MarkInv' BY <1>0, <2>5, <2>7 DEF MarkInv
  <2> QED BY <2>6, <2>8
<1> QED BY <1>0, <1>1, <1>2, <1>3

CatStep == \A p \in Passes : Keeps(p)

LEMMA CatInvNext == CatInv /\ [CatNext]_catVars => CatInv' /\ CatStep /\ (~Flagged /\ MarkInv => MarkInv')
<1> SUFFICES ASSUME CatInv, [CatNext]_catVars PROVE CatInv' /\ CatStep /\ (~Flagged /\ MarkInv => MarkInv')
  OBVIOUS
<1>0. ASSUME \A p \in Passes : pass'[p].at = pass[p].at PROVE CatStep BY <1>0 DEF CatStep, Keeps
<1>1. ASSUME NEW p \in Passes, PassStep(p) PROVE CatInv' /\ CatStep /\ (MarkInv => MarkInv')
  <2>1. /\ pass' \in [Passes -> Passing] /\ \A q \in Passes : PassOK(pass'[q])
        /\ \A q \in Passes \ {p} : pass'[q] = pass[q]
        /\ PassKeeps(p)
    BY <1>1, PassSafe
  <2>2. UNCHANGED <<codex, news, live, poller, attach, told>>
    BY <1>1 DEF PassStep, ReadState, StateUnreadable, Apply, Page, PageFails, PageRows, ReconcilePass, PassOnly
  <2>3. CatInv' BY <2>1, <2>2 DEF CatInv, PassKeeps
  <2>4. CatStep BY <2>1 DEF CatStep, Keeps, PassKeeps
  <2>5. MarkInv => MarkInv' BY <2>1, <2>2 DEF MarkInv, PassKeeps
  <2> QED BY <2>3, <2>4, <2>5
<1>2. ASSUME NEW t \in Threads, ThreadStep(t) PROVE CatInv' /\ CatStep /\ (MarkInv => MarkInv')
  BY <1>0, <1>2, ThreadSafe
<1>3. CASE TakeEvent \/ WriteEvent \/ Notify BY <1>0, <1>3, LiveSafe
<1>4. CASE Resumed \/ \E r \in Pollers : StoreRead(r) \/ \E t \in Threads : Begin(r, t)
  BY <1>0, <1>4, ReadersSafe
<1>5. CASE UNCHANGED catVars BY <1>0, <1>5 DEF catVars, CatInv, MarkInv
<1> QED BY <1>1, <1>2, <1>3, <1>4, <1>5 DEF CatNext

LEMMA CatInvInit == CatInit => CatInv /\ MarkInv
<1> SUFFICES ASSUME CatInit PROVE CatInv /\ MarkInv
  OBVIOUS
<1>1. NoRow \in Row /\ RowOK(NoRow) /\ Marks(NoRow) BY DEF NoRow, Row, RowOK, Marks
<1>2. PassOK(NoPass) /\ NoPass \in Passing BY DEF PassOK, NoPass, Passing, PassPlaces
<1>3. Free.at = "idle" BY DEF Free
<1>4. CatInv BY <1>1, <1>2 DEF CatInit, CatInv, CodexStates, Handling, Polled, Attached
<1>5. MarkInv BY <1>1, <1>3 DEF CatInit, MarkInv
<1> QED BY <1>4, <1>5

\* syncThreads, ReconcileListedThreads: a pass never takes a thread out of the list that was open
\* all the while it ran, whichever passes, events and reads come in between, and whatever of
\* thread/list fails, is cut short or comes back empty.
THEOREM OpenThreadsStay == CatSpec => OpenStaysListed
<1>1. CatInv /\ [CatNext]_catVars => CatInv' /\ [CatStep]_catVars BY CatInvNext
<1>2. CatInit => CatInv BY CatInvInit
<1> QED BY <1>1, <1>2, PTL DEF CatSpec, OpenStaysListed, CatStep, Keeps

\* UpsertCatalogThreads, MarkThreadLifecycleOpen: where thread/read does not flag archived threads,
\* no row is left with a payload that hides it and a column that says it is open.
THEOREM NoneHiddenForGood == ASSUME ~Flagged PROVE CatSpec => []MarkedIsArchived
<1>1. CatInv /\ MarkInv /\ [CatNext]_catVars => CatInv' /\ MarkInv' BY CatInvNext
<1>2. CatInit => CatInv /\ MarkInv BY CatInvInit
<1>3. MarkInv => MarkedIsArchived BY DEF MarkInv, Marks, MarkedIsArchived
<1> QED BY <1>1, <1>2, <1>3, PTL DEF CatSpec

\* The catalog's variables keep their types, and a page brings no thread twice.
THEOREM CatalogTyped == CatSpec => []CatTypeOK
<1>1. CatInv /\ [CatNext]_catVars => CatInv' BY CatInvNext
<1>2. CatInit => CatInv BY CatInvInit
<1>3. CatInv => CatTypeOK BY DEF CatInv, CatTypeOK, PassOK, Passing, PassPlaces
<1> QED BY <1>1, <1>2, <1>3, PTL DEF CatSpec
=============================================================================
