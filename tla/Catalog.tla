------------------------------- MODULE Catalog --------------------------------
(***************************************************************************)
(* The thread catalog: the rows of threads that say which Codex threads    *)
(* there are (internal/daemon/service.go, internal/storage/store.go,       *)
(* internal/appserver/state_catalog.go).                                   *)
(*                                                                         *)
(* A pass reads Codex's state database, or else the pages of thread/list,  *)
(* and then writes the rows; the live loop writes them for the thread      *)
(* lifecycle events, the poll loop and the message handlers after          *)
(* thread/read, the attach loop after thread/resume.  Nothing serialises   *)
(* them: each reads, and writes what it read later.  Only the columns that *)
(* decide whether a thread is shown and polled are kept: archived, listed, *)
(* and what raw_json says of it (mark).                                    *)
(***************************************************************************)
EXTENDS Naturals, Sequences, FiniteSets, SequencesExt

CONSTANTS
  Threads,      \* the interactive ones: subagents and one-off runs are hidden from every list
  Pollers,      \* "poll": the poll loop; "refresh": refreshThread in a message handler
  Passes,       \* the index loop, and the commands that refresh the catalog
  Flagged,      \* thread/read says of an archived thread that it is archived
  Shared,       \* the app-server is shared with the desktop
  MaxChanges,   \* bound: threads created, closed and reopened
  MaxFaults     \* bound: pages that fail, notices not sent, passes of a command

ASSUME CatalogAssumption ==
  /\ Pollers \subseteq {"poll", "refresh"}
  /\ Flagged \in BOOLEAN /\ Shared \in BOOLEAN
  /\ MaxChanges \in Nat /\ MaxFaults \in Nat

VARIABLES
  codex,    \* Threads -> none, open, archived, deleted
  row,      \* Threads -> the row of threads
  pass,     \* Passes -> [at, limited: for a command, seen, batch,
            \*   steady: listable ever since the pass began]
  news,     \* lifecycle events on their way to the live loop
  live,     \* the event the live loop handles and the row it read
  poller,   \* Pollers -> the thread/read it holds and the row it started from
  attach,   \* the attach loop: the row it resumed and found archived
  told,     \* Threads -> feishu.thread_lifecycle_state.<thread>
  changes, faults
catVars == <<codex, row, pass, news, live, poller, attach, told, changes, faults>>

Happenings == {"archived", "deleted", "unarchived"}
Row == [known : BOOLEAN, archived : BOOLEAN, listed : BOOLEAN, mark : {"none", "archived", "deleted"}]
NoRow == [known |-> FALSE, archived |-> FALSE, listed |-> FALSE, mark |-> "none"]
NoPass == [at |-> "idle", limited |-> FALSE, seen |-> {}, batch |-> {}, steady |-> {}]
Free == [at |-> "idle"]

CatInit ==
  /\ codex \in [Threads -> {"none", "open"}]
  /\ row = [t \in Threads |-> NoRow] /\ pass = [p \in Passes |-> NoPass]
  /\ news = <<>> /\ live = Free /\ poller = [r \in Pollers |-> Free] /\ attach = Free
  /\ told = [t \in Threads |-> "none"] /\ changes = 0 /\ faults = 0

\* readStateThreads: the threads that are not archived.
Listable == {t \in Threads : codex[t] = "open"}
\* visibleThreadPredicateSQL and threadUnavailableForPolling
Visible(t) == row[t].known /\ ~row[t].archived /\ row[t].listed /\ row[t].mark = "none"
Tracked(t) == row[t].known /\ ~row[t].archived /\ row[t].mark = "none"

(***************************************************************************)
(* Mutants (see PROJECT.json).                                             *)
(***************************************************************************)
OnlyListed_Adds(seen) == [t \in Threads |-> [row[t] EXCEPT !.listed = row[t].listed \/ t \in seen]]
Listed_FirstPage(p, seen, more) == [pass[p] EXCEPT !.at = "reconcile", !.seen = seen, !.batch = {}]
Catalogued_KeepsMark(r) == [known |-> TRUE, archived |-> FALSE, listed |-> TRUE, mark |-> r.mark]

(***************************************************************************)
(* What the writes make of a row.                                          *)
(***************************************************************************)
\* UpsertThread: listed is set on insert only.
Upserted(r, archived, mark) ==
  [known |-> TRUE, archived |-> archived, listed |-> (~r.known \/ r.listed), mark |-> mark]
\* UpsertCatalogThreads: raw_json is replaced only in a row that was archived.
Catalogued(r) ==
  [known |-> TRUE, archived |-> FALSE, listed |-> TRUE, mark |-> IF r.archived THEN "none" ELSE r.mark]
Closed(mark) == [known |-> TRUE, archived |-> TRUE, listed |-> FALSE, mark |-> mark]
\* lifecycleUndeletedRaw takes the deletion out of raw_json, nothing else.
Opened(r) == [known |-> TRUE, archived |-> FALSE, listed |-> TRUE,
              mark |-> IF r.mark = "deleted" THEN "none" ELSE r.mark]
OnlyListed(seen) == [t \in Threads |-> [row[t] EXCEPT !.listed = row[t].known /\ t \in seen]]
\* An empty catalog is not believed.
Authoritative(seen) == seen # {}

(***************************************************************************)
(* Codex.  Its events are lost while the live session is down.             *)
(***************************************************************************)
Change(t, to, event) ==
  /\ changes < MaxChanges /\ changes' = changes + 1
  /\ codex' = [codex EXCEPT ![t] = to]
  /\ news' \in {news} \cup (IF event \in Happenings THEN {Append(news, <<t, event>>)} ELSE {})
  /\ pass' = [p \in Passes |-> [pass[p] EXCEPT !.steady = IF to = "open" THEN @ ELSE @ \ {t}]]
  /\ UNCHANGED <<row, live, poller, attach, told, faults>>
CreateThread(t) == codex[t] = "none" /\ Change(t, "open", "none")
Archive(t) == codex[t] = "open" /\ Change(t, "archived", "archived")
Delete(t) == codex[t] \in {"open", "archived"} /\ Change(t, "deleted", "deleted")
Unarchive(t) == codex[t] = "archived" /\ Change(t, "open", "unarchived")

(***************************************************************************)
(* syncThreads.                                                            *)
(***************************************************************************)
Step(p, next) == pass' = [pass EXCEPT ![p] = next]
PassOnly == UNCHANGED <<codex, news, live, poller, attach, told, changes>>

\* ReadStateCatalog: one query.
ReadState(p) ==
  /\ pass[p].at = "idle" /\ Listable # {}
  /\ Step(p, [NoPass EXCEPT !.at = "apply", !.seen = Listable, !.steady = Listable])
  /\ PassOnly /\ UNCHANGED <<row, faults>>
\* No database, or nothing in it: the sessions are asked.
StateUnreadable(p) ==
  /\ pass[p].at = "idle"
  /\ \E limited \in BOOLEAN :
       /\ Step(p, [NoPass EXCEPT !.at = "page", !.limited = limited, !.steady = Listable])
       /\ IF limited THEN faults < MaxFaults /\ faults' = faults + 1 ELSE UNCHANGED faults
  /\ PassOnly /\ UNCHANGED row
\* UpsertCatalogThreads: one transaction.
Apply(p) ==
  /\ pass[p].at = "apply" /\ Step(p, NoPass)
  /\ row' = [t \in Threads |-> IF t \in pass[p].seen THEN Catalogued(row[t]) ELSE [row[t] EXCEPT !.listed = FALSE]]
  /\ PassOnly /\ UNCHANGED faults

\* A page of thread/list: the cursor returns each thread that stays open once.
Page(p) ==
  /\ pass[p].at = "page"
  /\ \E batch \in SUBSET (Listable \ pass[p].seen) :
       /\ batch # {} \/ Listable \subseteq pass[p].seen
       /\ Step(p, [pass[p] EXCEPT !.at = "rows", !.batch = batch])
  /\ PassOnly /\ UNCHANGED <<row, faults>>
PageFails(p) ==
  /\ pass[p].at = "page" /\ faults < MaxFaults /\ faults' = faults + 1
  /\ Step(p, NoPass)
  /\ PassOnly /\ UNCHANGED row
Listed(p, seen, more) ==
  IF pass[p].limited /\ ~more THEN NoPass
  ELSE [pass[p] EXCEPT !.at = IF more THEN "page" ELSE "reconcile", !.seen = seen, !.batch = {}]
\* The rows of a page are written; at the last page a full pass goes on to the flags.
PageRows(p) ==
  /\ pass[p].at = "rows"
  /\ LET seen == pass[p].seen \cup pass[p].batch
         more == ~(pass[p].steady \subseteq seen) IN
     Step(p, Listed(p, seen, more))
  /\ row' = [t \in Threads |-> IF t \in pass[p].batch THEN Upserted(row[t], FALSE, "none") ELSE row[t]]
  /\ PassOnly /\ UNCHANGED faults
\* ReconcileListedThreads
ReconcilePass(p) ==
  /\ pass[p].at = "reconcile" /\ Step(p, NoPass)
  /\ row' = IF Authoritative(pass[p].seen) THEN OnlyListed(pass[p].seen) ELSE row
  /\ PassOnly /\ UNCHANGED faults

(***************************************************************************)
(* handleThreadLifecycleEvent, in the live loop.                           *)
(***************************************************************************)
LiveOnly == UNCHANGED <<codex, pass, poller, attach, changes>>
TakeEvent ==
  /\ live = Free /\ news # <<>> /\ news' = Tail(news)
  /\ live' = [at |-> "write", t |-> Head(news)[1], kind |-> Head(news)[2], copy |-> row[Head(news)[1]]]
  /\ LiveOnly /\ UNCHANGED <<row, told, faults>>
WriteEvent ==
  /\ live.at = "write"
  /\ row' = [row EXCEPT ![live.t] = CASE live.kind = "deleted" -> Closed("deleted")
                                      [] live.kind = "archived" -> Closed(live.copy.mark)
                                      [] live.kind = "unarchived" -> Opened(live.copy)]
  /\ live' = [at |-> "notify", t |-> live.t, kind |-> live.kind]
  /\ LiveOnly /\ UNCHANGED <<news, told, faults>>
\* notifyFeishuThreadLifecycle: once per state; not sent, it is not tried again.
Notify ==
  /\ live.at = "notify" /\ live' = Free
  /\ \/ told' = [told EXCEPT ![live.t] = live.kind] /\ UNCHANGED faults
     \/ /\ told[live.t] # live.kind /\ faults < MaxFaults
        /\ faults' = faults + 1 /\ UNCHANGED told
  /\ LiveOnly /\ UNCHANGED <<row, news>>

(***************************************************************************)
(* The loops that read one thread.                                         *)
(***************************************************************************)
ReadOnly == UNCHANGED <<codex, pass, news, live, told, changes, faults>>
\* A deleted thread cannot be read.
Begin(r, t) ==
  /\ poller[r] = Free /\ codex[t] \in {"open", "archived"} /\ (r = "poll" => Tracked(t))
  /\ poller' = [poller EXCEPT ![r] = [at |-> "write", t |-> t, flag |-> Flagged /\ codex[t] = "archived"]]
  /\ ReadOnly /\ UNCHANGED <<row, attach>>
\* The poll loop merges the row it chose, which was not archived; refreshThread reads it again.
StoreRead(r) ==
  /\ poller[r].at = "write" /\ poller' = [poller EXCEPT ![r] = Free]
  /\ LET old == row[poller[r].t]
         archived == poller[r].flag \/ (r = "refresh" /\ old.archived) IN
     row' = [row EXCEPT ![poller[r].t] = Upserted(old, archived, IF poller[r].flag THEN "archived" ELSE "none")]
  /\ ReadOnly /\ UNCHANGED attach
\* attachTracked resumes the threads with a panel or a topic; an archived one is marked so.
Resume(t) ==
  /\ ~Shared /\ attach = Free /\ Tracked(t) /\ codex[t] = "archived"
  /\ attach' = [at |-> "write", t |-> t, copy |-> row[t]]
  /\ ReadOnly /\ UNCHANGED <<row, poller>>
Resumed ==
  /\ attach.at = "write" /\ attach' = Free
  /\ row' = [row EXCEPT ![attach.t] = Upserted(@, TRUE, attach.copy.mark)]
  /\ ReadOnly /\ UNCHANGED poller

PassStep(p) == \/ ReadState(p) \/ StateUnreadable(p) \/ Apply(p) \/ Page(p) \/ PageFails(p)
               \/ PageRows(p) \/ ReconcilePass(p)
ThreadStep(t) == CreateThread(t) \/ Archive(t) \/ Delete(t) \/ Unarchive(t) \/ Resume(t)
CatNext ==
  \/ \E p \in Passes : PassStep(p)
  \/ \E t \in Threads : ThreadStep(t)
  \/ TakeEvent \/ WriteEvent \/ Notify \/ Resumed
  \/ \E r \in Pollers : StoreRead(r) \/ \E t \in Threads : Begin(r, t)

\* The loops go round, and a call that was sent returns: every request has a timeout.
CatSpec ==
  /\ CatInit /\ [][CatNext]_catVars
  /\ \A p \in Passes : WF_catVars(PassStep(p))
  /\ WF_catVars(TakeEvent \/ WriteEvent \/ Notify) /\ WF_catVars(Resumed)
  /\ \A r \in Pollers : WF_catVars(StoreRead(r))

(***************************************************************************)
(* Properties.                                                             *)
(***************************************************************************)
\* Type invariant of the catalog.
CatTypeOK ==
  /\ row \in [Threads -> Row] /\ told \in [Threads -> Happenings \cup {"none"}]
  /\ \A p \in Passes : /\ pass[p].at \in {"idle", "apply", "page", "rows", "reconcile"}
                       /\ pass[p].batch \cap pass[p].seen = {}
                       /\ pass[p].seen \cup pass[p].batch \subseteq Threads

\* A row whose payload says archived or deleted has its column set as well: the refresh from
\* the state database replaces the payload of archived rows only, so any other such thread
\* would stay hidden and unpolled (UpsertCatalogThreads, MarkThreadLifecycleOpen).
MarkedIsArchived == \A t \in Threads : row[t].mark # "none" => row[t].archived

\* A pass never takes a thread out of the list that was open all the while the pass ran:
\* not when a page failed, when it came back empty, when a limit stopped it, or when
\* another pass or the live loop wrote in between (syncThreads, ReconcileListedThreads).
OpenStaysListed ==
  [][\A p \in Passes : \A t \in pass[p].steady :
       pass'[p].at = "idle" /\ row[t].listed /\ pass[p].at # "idle" => row'[t].listed]_catVars

\* When Codex's threads stop changing, what the catalog shows is what Codex has open, whatever
\* stale rows the loops wrote and whichever events were lost; unless nothing is open, which
\* is not believed (syncThreadsFromStateCatalog, ReconcileListedThreads).
CatalogConverges == <>[](Listable = {} \/ \A t \in Threads : Visible(t) <=> t \in Listable)
=============================================================================
