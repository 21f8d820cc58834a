------------------------------- MODULE Polling --------------------------------
(***************************************************************************)
(* How one thread with a topic is followed (internal/daemon/service.go,    *)
(* pollTracked and handleLiveEvent; internal/storage/store.go, the         *)
(* snapshot rows).                                                         *)
(*                                                                         *)
(* The poll loop reads the thread when something says it may have changed; *)
(* the live loop marks the time of every event and refreshes the thread    *)
(* when its row looks active or lags behind the catalog.  Both read the    *)
(* thread, and store the row and the snapshot they made of it later.       *)
(* A version of the thread is a time: that of its last change.             *)
(***************************************************************************)
EXTENDS Naturals

CONSTANTS
  Connected,    \* the live session is there: Codex's events arrive
  MaxTime,      \* bound: changes of the thread
  MaxFailures   \* bound: reads that fail

ASSUME PollAssumption == Connected \subseteq BOOLEAN /\ MaxTime \in Nat \ {0} /\ MaxFailures \in Nat

VARIABLES
  online,    \* whether events arrive
  thread,    \* Codex: time of the last change, whether a turn is running
  events,    \* the live channel holds an event that is not taken yet
  entry,     \* row of threads: updatedAt, active
  snapshot,      \* thread_snapshots: seen (ThreadUpdatedAt), active, polledAt, recent live event, held (NextPollAfter)
  panel,     \* the status on the card of the current panel is that of a running turn
  poller, listener, \* the poll loop, the live loop: where each is and what it holds
  window,    \* the last change is within catchupWindow
  failures
pollVars == <<online, thread, events, entry, snapshot, panel, poller, listener, window, failures>>

Times == 0..MaxTime
PollViews == [at : Times, active : BOOLEAN]
Nothing == [at |-> 0, active |-> FALSE]
NoLoop == [at |-> "idle", view |-> Nothing, catchup |-> FALSE]
NoMark == [at |-> "idle", view |-> Nothing, copy |-> <<>>]

PollInit ==
  /\ online \in Connected /\ thread = Nothing /\ events = FALSE
  /\ entry = Nothing /\ snapshot = [seen |-> 0, active |-> FALSE, polledAt |-> 0, recent |-> FALSE, held |-> FALSE]
  /\ panel = FALSE /\ poller = NoLoop /\ listener = NoMark
  /\ window = FALSE /\ failures = 0

(***************************************************************************)
(* Mutants (see PROJECT.json).                                             *)
(***************************************************************************)
Chosen_Catchup(c) == c

(***************************************************************************)
(* The rules.                                                              *)
(***************************************************************************)
\* threadNeedsCatchupPolling: the row is newer than the time compared with it, or its status
\* is not the snapshot's.
CaughtUp(polled) == window /\ (entry.at > polled \/ snapshot.active # entry.active)
\* GetSnapshotMeta does not load ThreadUpdatedAt: the poll loop compares with LastPollAt.
Catchup == CaughtUp(snapshot.polledAt)
\* The live loop has the whole snapshot; one that was never stored has no ThreadUpdatedAt.
FullCatchup == CaughtUp(IF snapshot.seen > 0 THEN snapshot.seen ELSE snapshot.polledAt)
\* trackedThreads: a running panel, an active row, or a topic whose thread needs catching up.
Chosen(c) == panel \/ entry.active \/ c
\* shouldSkipTrackedPollUntilNextPollAfter
Skipped(c) == snapshot.held /\ ~c
NewEntry(v) == v
SnapshotOf(v) == [seen |-> v.at, active |-> v.active, polledAt |-> thread.at, recent |-> snapshot.recent, held |-> TRUE]

(***************************************************************************)
(* Codex, the catalog pass and the clock.                                  *)
(***************************************************************************)
\* A turn starts or ends, or something is added after its end.
ThreadChanges ==
  /\ thread.at < MaxTime
  /\ \E active \in BOOLEAN : thread' = [at |-> thread.at + 1, active |-> active]
  /\ window' = TRUE /\ events' = online
  /\ UNCHANGED <<online, entry, snapshot, panel, poller, listener, failures>>
\* UpsertCatalogThreads raises updated_at and leaves the status.
CatalogPass ==
  /\ entry' = [entry EXCEPT !.at = IF thread.at > @ THEN thread.at ELSE @]
  /\ entry' # entry
  /\ UNCHANGED <<online, thread, events, snapshot, panel, poller, listener, window, failures>>
\* NextPollAfter passes.
Due ==
  /\ snapshot.held /\ snapshot' = [snapshot EXCEPT !.held = FALSE]
  /\ UNCHANGED <<online, thread, events, entry, panel, poller, listener, window, failures>>
\* The last event is no longer recent.
Quiet ==
  /\ snapshot.recent /\ snapshot' = [snapshot EXCEPT !.recent = FALSE]
  /\ UNCHANGED <<online, thread, events, entry, panel, poller, listener, window, failures>>
NobodyReads == poller.at = "idle" /\ listener.at = "idle"
\* catchupWindow is 90 s or more, two rounds of the catalog, and far more than a read takes: it
\* does not end before the pass and the polls that follow it, nor in the middle of one.
WindowEnds ==
  /\ window /\ entry.at = thread.at /\ ~Catchup /\ NobodyReads
  /\ window' = FALSE
  /\ UNCHANGED <<online, thread, events, entry, snapshot, panel, poller, listener, failures>>

(***************************************************************************)
(* pollTracked                                                             *)
(***************************************************************************)
Poll ==
  /\ poller.at = "idle" /\ Chosen(Catchup) /\ ~Skipped(Catchup) /\ ~snapshot.recent
  /\ \/ /\ poller' = [at |-> "row", view |-> thread, catchup |-> Catchup]
        /\ UNCHANGED failures
     \/ failures < MaxFailures /\ failures' = failures + 1 /\ UNCHANGED poller
  /\ UNCHANGED <<online, thread, events, entry, snapshot, panel, listener, window>>
PollRow ==
  /\ poller.at = "row" /\ poller' = [poller EXCEPT !.at = "snapshot"]
  /\ entry' = NewEntry(poller.view)
  /\ UNCHANGED <<online, thread, events, snapshot, panel, listener, window, failures>>
PollSnapshot ==
  /\ poller.at = "snapshot" /\ poller' = [poller EXCEPT !.at = "sync"]
  /\ snapshot' = SnapshotOf(poller.view)
  /\ UNCHANGED <<online, thread, events, entry, panel, listener, window, failures>>
\* threadNeedsLiveSync: there is a topic.  syncThreadPanel loads the snapshot.
PollSync ==
  /\ poller.at = "sync" /\ poller' = NoLoop /\ panel' = snapshot.active
  /\ UNCHANGED <<online, thread, events, entry, snapshot, listener, window, failures>>

(***************************************************************************)
(* handleLiveEvent.  MarkLiveEvent reads the snapshot and writes it back.  *)
(***************************************************************************)
Take ==
  /\ listener.at = "idle" /\ events /\ events' = FALSE
  /\ listener' = [at |-> "mark", view |-> Nothing, copy |-> snapshot]
  /\ UNCHANGED <<online, thread, entry, snapshot, panel, poller, window, failures>>
Mark ==
  /\ listener.at = "mark" /\ snapshot' = [listener.copy EXCEPT !.recent = TRUE]
  /\ listener' = [NoMark EXCEPT !.at = "decide"]
  /\ UNCHANGED <<online, thread, events, entry, panel, poller, window, failures>>
Refresh ==
  /\ listener.at = "decide"
  /\ IF entry.active \/ FullCatchup
     THEN \/ listener' = [NoMark EXCEPT !.at = "row", !.view = thread] /\ UNCHANGED failures
          \/ failures < MaxFailures /\ failures' = failures + 1 /\ listener' = NoMark
     ELSE listener' = NoMark /\ UNCHANGED failures
  /\ UNCHANGED <<online, thread, events, entry, snapshot, panel, poller, window>>
RefreshRow ==
  /\ listener.at = "row" /\ listener' = [listener EXCEPT !.at = "snapshot"]
  /\ entry' = NewEntry(listener.view)
  /\ UNCHANGED <<online, thread, events, snapshot, panel, poller, window, failures>>
\* Only a refresh that sees the turn running sets NextPollAfter.
RefreshSnapshot ==
  /\ listener.at = "snapshot" /\ listener' = [listener EXCEPT !.at = "sync"]
  /\ snapshot' = [SnapshotOf(listener.view) EXCEPT !.held = listener.view.active]
  /\ UNCHANGED <<online, thread, events, entry, panel, poller, window, failures>>
RefreshSync ==
  /\ listener.at = "sync" /\ listener' = NoMark /\ panel' = snapshot.active
  /\ UNCHANGED <<online, thread, events, entry, snapshot, poller, window, failures>>

PollLoop == Poll \/ PollRow \/ PollSnapshot \/ PollSync
LiveLoop == Take \/ Mark \/ Refresh \/ RefreshRow \/ RefreshSnapshot \/ RefreshSync
PollNext == ThreadChanges \/ CatalogPass \/ Due \/ Quiet \/ WindowEnds \/ PollLoop \/ LiveLoop

(***************************************************************************)
(* Properties.                                                             *)
(***************************************************************************)
\* A card that shows a running turn does not stay so when the turn has ended: reads that fail,
\* stale rows and a snapshot that MarkLiveEvent wrote back do not end the polling of it, though
\* the catch-up window may be over (trackedThreads, pollTracked, MarkLiveEvent).
RunningCardEnds == panel /\ ~thread.active ~> (~panel \/ thread.active)

\* A change nobody was reading across is picked up once the catalog shows it, with or without
\* live events (threadNeedsCatchupPolling, shouldSkipTrackedPollUntilNextPollAfter).
ChangeIsFollowed ==
  \A c \in 1..MaxTime :
    thread.at = c /\ snapshot.polledAt < c /\ NobodyReads ~> (snapshot.seen >= c \/ thread.at > c)

\* The snapshot and the panel catch up with the thread in the end.
ThreadIsFollowed == RunningCardEnds /\ ChangeIsFollowed
=============================================================================
