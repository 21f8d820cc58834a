------------------------------- MODULE RpcClient -------------------------------
(***************************************************************************)
(* The app-server client (internal/appserver/client.go): requests over the *)
(* stdin of the child process, its reader, and Close.                      *)
(*                                                                         *)
(* A request is registered under mu, written with no lock on stdio and     *)
(* under the transport's mutex through the proxy, and answered by the      *)
(* reader, a timer or Close.  The child takes what it likes from a pipe    *)
(* that holds Slots requests; it may stop reading or die.  The daemon      *)
(* starts a client once; initialize is the request of Starter, and Close   *)
(* waits for it (startMu).  Events are in Sessions and Approvals.          *)
(***************************************************************************)
EXTENDS Naturals, FiniteSets

CONSTANTS
  Requests,       \* the calls of Request
  Starter,        \* the one Start makes
  Transports,     \* the transports to look at: stdio, proxy
  Slots           \* requests the pipe to the child holds

ASSUME RpcAssumption ==
  Starter \in Requests /\ Transports \subseteq {"stdio", "proxy"} /\ Slots \in Nat \ {0}

VARIABLES
  transport, \* of this client
  phase,     \* starting, up, and the steps of Close: closing, failing, killing, closed
  req,       \* Requests -> new, write, wait, result, error
  table,     \* the requests in c.pending
  reply,     \* Requests -> what is in its reply channel
  leaving,   \* the entries closeRunning took
  stdin,     \* written, not yet read by the child
  stdout,    \* answers written by the child, not yet read
  taken,     \* the requests the child has read
  child,     \* live, hung (reads no more), dead
  failed     \* history: requests whose write failed while they were in the table

rpcVars == <<transport, phase, req, table, reply, leaving, stdin, stdout, taken, child, failed>>

RpcInit ==
  /\ transport \in Transports /\ phase = "starting"
  /\ req = [r \in Requests |-> "new"] /\ reply = [r \in Requests |-> "none"]
  /\ table = {} /\ leaving = {} /\ stdin = {} /\ stdout = {} /\ taken = {}
  /\ child = "live" /\ failed = {}

Serving == phase \in {"starting", "up"}
StdinOpen == phase \in {"starting", "up", "closing"}
Begun(r) == req[r] \notin {"new"}
Ended(r) == req[r] \in {"result", "error"}
Full == Cardinality(stdin) >= Slots
To(r, where) == req' = [req EXCEPT ![r] = where]

(***************************************************************************)
(* Mutants (see PROJECT.json).                                             *)
(***************************************************************************)
AtClose_ClosedOnly == "result"  \* a closed channel reads as an empty response
Register_AfterClose(r) ==
  /\ req[r] = "new" /\ (r = Starter \/ phase # "starting")
  /\ table' = table \cup {r} /\ To(r, "write")
  /\ UNCHANGED <<transport, phase, reply, leaving, stdin, stdout, taken, child, failed>>
CanCloseStdin_WaitsForWriters == \A r \in Requests : req[r] # "write"

(***************************************************************************)
(* Request.                                                                *)
(***************************************************************************)
\* Registered if the client is started, else an error at once.
Register(r) ==
  /\ req[r] = "new" /\ (r = Starter \/ phase # "starting")
  /\ IF Serving THEN table' = table \cup {r} /\ To(r, "write") ELSE UNCHANGED table /\ To(r, "error")
  /\ UNCHANGED <<transport, phase, reply, leaving, stdin, stdout, taken, child, failed>>

CanWrite == child # "dead" /\ ~Full
Write(r) ==
  /\ req[r] = "write" /\ StdinOpen /\ CanWrite
  /\ stdin' = stdin \cup {r} /\ To(r, "wait")
  /\ UNCHANGED <<transport, phase, table, reply, leaving, stdout, taken, child, failed>>

\* A write to a closed pipe fails, one that waits for room included; the entry
\* of the request stays in the table.
WriteFails(r) ==
  /\ req[r] = "write" /\ (child = "dead" \/ ~StdinOpen)
  /\ To(r, "error") /\ failed' = failed \cup {r}
  /\ UNCHANGED <<transport, phase, table, reply, leaving, stdin, stdout, taken, child>>

Receive(r) ==
  /\ req[r] = "wait" /\ reply[r] # "none" /\ To(r, reply[r])
  /\ UNCHANGED <<transport, phase, table, reply, leaving, stdin, stdout, taken, child, failed>>

TimesOut(r) == /\ req[r] = "wait" /\ To(r, "error") /\ table' = table \ {r}
Timeout(r) ==
  /\ TimesOut(r)
  /\ UNCHANGED <<transport, phase, reply, leaving, stdin, stdout, taken, child, failed>>

(***************************************************************************)
(* The child, and the reader of its stdout.                                *)
(***************************************************************************)
Take(r) ==
  /\ child = "live" /\ r \in stdin /\ stdin' = stdin \ {r} /\ taken' = taken \cup {r}
  /\ stdout' \in {stdout, stdout \cup {r}}
  /\ UNCHANGED <<transport, phase, req, table, reply, leaving, child, failed>>

Fails == /\ child # "dead" /\ child' \in {"hung", "dead"} /\ child' # child
         /\ UNCHANGED <<transport, phase, req, table, reply, leaving, stdin, stdout, taken, failed>>

\* handlePayload: the entry is looked up and removed while the generation is
\* checked; an answer nobody waits for is dropped.
Dispatch(r) ==
  /\ r \in stdout /\ stdout' = stdout \ {r} /\ table' = table \ {r}
  /\ reply' = IF Serving /\ r \in table THEN [reply EXCEPT ![r] = "result"] ELSE reply
  /\ UNCHANGED <<transport, phase, req, leaving, stdin, taken, child, failed>>

(***************************************************************************)
(* Start and Close.                                                        *)
(***************************************************************************)
StartDone ==
  /\ phase = "starting" /\ req[Starter] = "result" /\ phase' = "up"
  /\ UNCHANGED <<transport, req, table, reply, leaving, stdin, stdout, taken, child, failed>>

\* closeRunning, by Close or by a Start whose initialize failed: the table is
\* taken over under mu.
CloseBegins ==
  /\ phase = "up" \/ (phase = "starting" /\ req[Starter] = "error")
  /\ phase' = "closing" /\ leaving' = table /\ table' = {}
  /\ UNCHANGED <<transport, req, reply, stdin, stdout, taken, child, failed>>

AtClose == "error"
\* The pipe's Close interrupts a blocked write.  The proxy transport first takes
\* the mutex the writers hold and writes a close frame.
CanCloseStdin == transport = "stdio" \/ child = "dead" \/ ~Full
CloseStdin ==
  /\ phase = "closing" /\ CanCloseStdin /\ phase' = "failing"
  /\ UNCHANGED <<transport, req, table, reply, leaving, stdin, stdout, taken, child, failed>>

FailPending ==
  /\ phase = "failing" /\ phase' = "killing" /\ leaving' = {}
  /\ reply' = [r \in Requests |-> IF r \in leaving /\ reply[r] = "none" THEN AtClose ELSE reply[r]]
  /\ UNCHANGED <<transport, req, table, stdin, stdout, taken, child, failed>>

Kill ==
  /\ phase = "killing" /\ phase' = "closed" /\ child' = "dead"
  /\ UNCHANGED <<transport, req, table, reply, leaving, stdin, stdout, taken, failed>>

CloseSteps == CloseBegins \/ CloseStdin \/ FailPending \/ Kill
Call(r) == Register(r) \/ Write(r) \/ WriteFails(r) \/ Receive(r) \/ Timeout(r)
RpcNext == \/ \E r \in Requests : Call(r) \/ Take(r) \/ Dispatch(r)
           \/ Fails \/ StartDone \/ CloseSteps

RpcSpec == RpcInit /\ [][RpcNext]_rpcVars
\* Goroutines that can run do, timers fire, and a child that is not hung reads.
RpcFairness ==
  /\ WF_rpcVars(CloseStdin) /\ WF_rpcVars(FailPending) /\ WF_rpcVars(Kill)
  /\ \A r \in Requests : WF_rpcVars(Write(r) \/ WriteFails(r)) /\ WF_rpcVars(Take(r))
  /\ \A r \in Requests : WF_rpcVars(Receive(r) \/ Timeout(r))

(***************************************************************************)
(* Properties.                                                             *)
(***************************************************************************)
\* Every variable has its type.
RpcTypeOK ==
  /\ transport \in Transports
  /\ phase \in {"starting", "up", "closing", "failing", "killing", "closed"}
  /\ req \in [Requests -> {"new", "write", "wait", "result", "error"}]
  /\ reply \in [Requests -> {"none", "result", "error"}]
  /\ table \subseteq Requests /\ leaving \subseteq Requests /\ stdin \subseteq Requests
  /\ stdout \subseteq taken /\ taken \subseteq Requests /\ failed \subseteq Requests
  /\ child \in {"live", "hung", "dead"} /\ Cardinality(stdin) <= Slots

\* No entry outlives its call, but for a call whose write failed, whose entry
\* stays until the client is closed (the return after io.WriteString).
EntriesOwned == \A r \in table : ~Ended(r) \/ r \in failed

\* When Close has returned no call is left to its timer: it is registered before
\* Close takes the table, or finds the client closed.
ClosedSettlesCalls == phase = "closed" => \A r \in Requests : req[r] = "wait" => reply[r] # "none"

\* The table and the calls agree, while the client runs and when it is closed.
TableSettled == EntriesOwned /\ ClosedSettlesCalls

\* A call ends with its answer, an error or its timer, except while it writes to
\* a child that has stopped reading: the timer starts only after the write.
RequestsEnd == \A r \in Requests : Begun(r) ~> (Ended(r) \/ child = "hung")

\* Close gets to its end, with writers blocked on a hung child too, except
\* through the proxy, whose mutex they hold (webSocketProxyTransport.Close).
CloseEnds == phase = "closing" ~> (phase = "closed" \/ (transport = "proxy" /\ child = "hung"))

\* Nobody waits for ever.
CallsEnd == RequestsEnd /\ CloseEnds

\* The promise of Calls.
AsCall(r) == IF req[r] \in {"write", "wait"} THEN "waiting" ELSE req[r]
Promise == INSTANCE Calls WITH Callers <- Requests, Shared <- {},
                               call <- [r \in Requests |-> AsCall(r)], heard <- taken
RequestKeepsPromise == Promise!Spec
=============================================================================
