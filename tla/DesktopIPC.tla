------------------------------ MODULE DesktopIPC -------------------------------
(***************************************************************************)
(* The client of the Codex desktop's socket (internal/desktopipc/          *)
(* client.go): callers that connect, find the owner of a thread and send   *)
(* one request; a reader per connection; failAll.                          *)
(*                                                                         *)
(* connMu covers the field c.conn only, and dialling; the pending table    *)
(* has a mutex of its own.  One table serves all connections.  The desktop *)
(* answers what it likes and may drop a connection.  Calls in Following    *)
(* are LoadCompleteHistory, which any snapshot broadcast of the thread     *)
(* answers.                                                                *)
(***************************************************************************)
EXTENDS Naturals, FiniteSets

CONSTANTS
  Users,          \* the goroutines that make a call
  Following,      \* those that load the history
  MaxConns,       \* bound: connections dialled
  MaxDrops        \* bound: connections the desktop drops

ASSUME IpcAssumption ==
  Following \subseteq Users /\ MaxConns \in Nat \ {0} /\ MaxDrops \in Nat

VARIABLES
  user,      \* Users -> [at, kind: the request it is at, own, on: the connections it dialled, wrote on]
  answer,    \* Users -> what is in the channel of its request
  pending,   \* the requests in c.pending
  current,   \* c.conn, 0: nil
  link,      \* 1..MaxConns -> unused, open, shut
  reader,    \* 1..MaxConns -> none, run, clear, done
  sent,      \* <<connection, user, kind>>: written, not yet read by the desktop
  back,      \* answered by the desktop, not yet read
  known,     \* threadOwners has the owner
  served,    \* the users whose call the desktop took
  drops, stray  \* bounds and history: failed initializes
ipcVars == <<user, answer, pending, current, link, reader, sent, back, known, served, drops, stray>>

Conns == 1..MaxConns
Kinds == {"init", "find", "call"}
Messages == Conns \X Users \X Kinds

IpcInit ==
  /\ user = [u \in Users |-> [at |-> "new", kind |-> "call", own |-> 0, on |-> 0]]
  /\ answer = [u \in Users |-> "none"] /\ pending = {} /\ current = 0
  /\ link = [k \in Conns |-> "unused"] /\ reader = [k \in Conns |-> "none"]
  /\ sent = {} /\ back = {} /\ known = FALSE /\ served = {} /\ drops = 0 /\ stray = 0

At(u, where) == user[u].at = where
Go(u, where) == user' = [user EXCEPT ![u].at = where]
Mine(u) == <<u, user[u].kind>>

(***************************************************************************)
(* Mutants (see PROJECT.json).                                             *)
(***************************************************************************)
Failed_KeepsInits(P) == {q \in P : q[2] # "init"}
AfterAnswer_Accepts(u, a) == IF user[u].kind = "init" THEN "ready" ELSE "result"

(***************************************************************************)
(* Failing what is pending.                                                *)
(***************************************************************************)
Failed(P) == P
FailAll == /\ answer' = [u \in Users |-> IF \E q \in Failed(pending) : q[1] = u THEN "error" ELSE answer[u]]
           /\ pending' = pending \ Failed(pending)
\* Close, by a caller whose write failed: the current connection, whichever it
\* is by now.
CloseCurrent(mine) ==
  IF current = 0
    THEN pending' = pending \ {mine} /\ UNCHANGED <<answer, current, link>>
    ELSE /\ link' = [link EXCEPT ![current] = "shut"] /\ current' = 0 /\ pending' = {}
         /\ answer' = [u \in Users |-> IF \E q \in pending \ {mine} : q[1] = u THEN "error" ELSE answer[u]]

(***************************************************************************)
(* A caller: ensureConnected, the handshake, discovery, the request.       *)
(***************************************************************************)
\* ensureThreadOwner comes first unless the owner is known.
NextKind == IF known THEN "call" ELSE "find"
Connected(u) ==
  /\ At(u, "new") \/ At(u, "ready")
  /\ current # 0 /\ user' = [user EXCEPT ![u].at = "register", ![u].kind = NextKind]
  /\ UNCHANGED <<answer, pending, current, link, reader, sent, back, known, served, drops, stray>>

Dial(u) ==
  /\ At(u, "new") \/ At(u, "ready")
  /\ current = 0
  /\ \E k \in Conns :
       /\ link[k] = "unused" /\ \A j \in 1..(k - 1) : link[j] # "unused"
       /\ link' = [link EXCEPT ![k] = "open"] /\ reader' = [reader EXCEPT ![k] = "run"] /\ current' = k
       /\ user' = [user EXCEPT ![u] = [at |-> "register", kind |-> "init", own |-> k, on |-> k]]
  /\ UNCHANGED <<answer, pending, sent, back, known, served, drops, stray>>

DialFails(u) ==
  /\ At(u, "new") \/ At(u, "ready")
  /\ current = 0 /\ Go(u, "error")
  /\ UNCHANGED <<answer, pending, current, link, reader, sent, back, known, served, drops, stray>>

Enter(u) ==
  /\ At(u, "register") /\ Go(u, "write")
  /\ pending' = pending \cup {Mine(u)} /\ answer' = [answer EXCEPT ![u] = "none"]
  /\ UNCHANGED <<current, link, reader, sent, back, known, served, drops, stray>>

\* writeMessage takes c.conn anew.
Usable == IF current = 0 THEN FALSE ELSE link[current] = "open"
Send(u) ==
  /\ At(u, "write") /\ Usable
  /\ sent' = sent \cup {<<current, u, user[u].kind>>}
  /\ user' = [user EXCEPT ![u].at = "wait", ![u].on = current]
  /\ UNCHANGED <<answer, pending, current, link, reader, back, known, served, drops, stray>>

\* No connection, a closed one, or the deadline: then the writing goroutine may
\* still get its message out.  An initialize fails with its own connection.
SendFails(u) ==
  /\ At(u, "write")
  /\ sent' \in {sent} \cup (IF Usable THEN {sent \cup {<<current, u, user[u].kind>>}} ELSE {})
  /\ IF user[u].kind = "init"
       THEN Go(u, "undo") /\ pending' = pending \ {Mine(u)} /\ UNCHANGED <<answer, current, link>>
       ELSE Go(u, "error") /\ CloseCurrent(Mine(u))
  /\ UNCHANGED <<reader, back, known, served, drops, stray>>

AfterAnswer(u, a) ==
  IF a = "error" THEN IF user[u].kind = "init" THEN "undo" ELSE "error"
  ELSE IF user[u].kind = "call" THEN "result" ELSE "ready"
Answered(u) ==
  /\ At(u, "wait") /\ answer[u] # "none" /\ Go(u, AfterAnswer(u, answer[u]))
  /\ known' = (known \/ (answer[u] = "result" /\ user[u].kind # "init"))
  /\ UNCHANGED <<answer, pending, current, link, reader, sent, back, served, drops, stray>>

Expire(u) ==
  /\ At(u, "wait") /\ Go(u, IF user[u].kind = "init" THEN "undo" ELSE "error")
  /\ pending' = pending \ {Mine(u)}
  /\ UNCHANGED <<answer, current, link, reader, sent, back, known, served, drops, stray>>

\* A failed initialize: the connection it dialled is closed, then c.conn is
\* emptied, whatever it holds by then.
Undo(u) ==
  /\ At(u, "undo") /\ Go(u, "unset") /\ link' = [link EXCEPT ![user[u].own] = "shut"]
  /\ UNCHANGED <<answer, pending, current, reader, sent, back, known, served, drops, stray>>

Unset(u) ==
  /\ At(u, "unset") /\ Go(u, "error") /\ current' = 0 /\ stray' = stray + 1
  /\ UNCHANGED <<answer, pending, link, reader, sent, back, known, served, drops>>

(***************************************************************************)
(* The desktop and the readers.                                            *)
(***************************************************************************)
Serve ==
  \E m \in sent :
    /\ link[m[1]] = "open" /\ sent' = sent \ {m} /\ back' \in {back, back \cup {m}}
    /\ served' = IF m[3] = "call" THEN served \cup {m[2]} ELSE served
    /\ UNCHANGED <<user, answer, pending, current, link, reader, known, drops, stray>>

Drop(k) ==
  /\ link[k] = "open" /\ drops < MaxDrops /\ drops' = drops + 1 /\ link' = [link EXCEPT ![k] = "shut"]
  /\ UNCHANGED <<user, answer, pending, current, reader, sent, back, known, served, stray>>

Reading(k) == reader[k] = "run"
Read(k) ==
  \E m \in back :
    /\ Reading(k) /\ m[1] = k /\ back' = back \ {m} /\ pending' = pending \ {<<m[2], m[3]>>}
    /\ answer' = IF <<m[2], m[3]>> \in pending THEN [answer EXCEPT ![m[2]] = "result"] ELSE answer
    /\ UNCHANGED <<user, current, link, reader, sent, known, served, drops, stray>>

\* A snapshot broadcast answers every history request of the thread.
Broadcast(k) ==
  LET hits == {q \in pending : q[1] \in Following /\ q[2] = "call"} IN
  /\ Reading(k) /\ link[k] = "open" /\ hits # {} /\ pending' = pending \ hits
  /\ answer' = [u \in Users |-> IF <<u, "call">> \in hits THEN "result" ELSE answer[u]]
  /\ UNCHANGED <<user, current, link, reader, sent, back, known, served, drops, stray>>

ReadFails(k) ==
  /\ Reading(k) /\ link[k] = "shut" /\ FailAll /\ reader' = [reader EXCEPT ![k] = "clear"]
  /\ UNCHANGED <<user, current, link, sent, back, known, served, drops, stray>>

Unconnected(k) == IF current = k THEN 0 ELSE current
ClearConn(k) ==
  /\ reader[k] = "clear" /\ reader' = [reader EXCEPT ![k] = "done"] /\ current' = Unconnected(k)
  /\ UNCHANGED <<user, answer, pending, link, sent, back, known, served, drops, stray>>

CallStep(u) == \/ Connected(u) \/ Dial(u) \/ DialFails(u) \/ Enter(u) \/ Send(u) \/ SendFails(u)
               \/ Answered(u) \/ Expire(u) \/ Undo(u) \/ Unset(u)
ConnStep(k) == Drop(k) \/ Read(k) \/ Broadcast(k) \/ ReadFails(k) \/ ClearConn(k)
IpcNext == (\E u \in Users : CallStep(u)) \/ Serve \/ (\E k \in Conns : ConnStep(k))

IpcSpec == IpcInit /\ [][IpcNext]_ipcVars

(***************************************************************************)
(* Properties.                                                             *)
(***************************************************************************)
\* Every variable has its type; an entry of the table is of a request in progress.
IpcTypeOK ==
  /\ user \in [Users -> [at : {"new", "ready", "register", "write", "wait", "undo", "unset", "result", "error"},
                         kind : Kinds, own : 0..MaxConns, on : 0..MaxConns]]
  /\ answer \in [Users -> {"none", "result", "error"}] /\ pending \subseteq Users \X Kinds
  /\ \A q \in pending : user[q[1]].at \in {"write", "wait"} /\ q[2] = user[q[1]].kind
  /\ current \in 0..MaxConns /\ link \in [Conns -> {"unused", "open", "shut"}]
  /\ reader \in [Conns -> {"none", "run", "clear", "done"}]
  /\ sent \subseteq Messages /\ back \subseteq Messages /\ known \in BOOLEAN
  /\ served \subseteq Users /\ drops \in 0..MaxDrops /\ stray \in Nat

\* A caller that waits is in the table or has its answer, and it does not wait on a
\* connection whose reader is gone: failAll reaches every request, whenever the
\* connection ends, so that nobody is left to its deadline.
NoneStranded ==
  \A u \in Users : At(u, "wait") /\ answer[u] = "none" =>
    Mine(u) \in pending /\ reader[user[u].on] = "run"

\* A connection that is open is the current one: no other socket is left behind,
\* unless an initialize failed, which empties c.conn without looking (ensureConnected).
OpenIsCurrent == \A k \in Conns : link[k] = "open" => current = k \/ stray > 0

\* Neither a caller nor a connection is forgotten.
NobodyForgotten == NoneStranded /\ OpenIsCurrent

\* The promise of Calls.
AsIpcCall(u) == IF user[u].at \in {"new", "result", "error"} THEN user[u].at ELSE "waiting"
IpcPromise == INSTANCE Calls WITH Callers <- Users, Shared <- Following,
                               call <- [u \in Users |-> AsIpcCall(u)], heard <- served
IpcKeepsPromise == IpcPromise!Spec
=============================================================================
