------------------------------- MODULE Updater --------------------------------
(***************************************************************************)
(* Self update (internal/updater/updater.go, internal/daemon/              *)
(* auto_update.go and help_update.go).  The daemon's loop, the button of   *)
(* the version card and the command line may update at once; all write     *)
(* <binary>.new and rename it over the binary.  The daemon exits after an  *)
(* update and is started again by the service manager.                     *)
(***************************************************************************)
EXTENDS Naturals, Sequences, FiniteSets

CONSTANTS
  Inside,      \* updaters in the daemon: the loop, the button
  Outside,     \* ctr-go update
  Releases,    \* the versions, as sequences of numbers, in the order they are published
  MaxUpdCrashes, MaxErrors  \* bounds

ASSUME UpdaterAssumption ==
  /\ Inside \cap Outside = {} /\ Releases \in Seq(Seq(Nat)) /\ Releases # <<>>
  /\ MaxUpdCrashes \in Nat /\ MaxErrors \in Nat

Updaters == Inside \cup Outside
Numbers == 1..Len(Releases)
\* The content of a file: a release, nothing, or part of one.
Absent == 0
Torn == Len(Releases) + 1
File == 0..Torn

VARIABLES
  latest,   \* the release GitHub calls latest
  disk,     \* the binary
  spare,    \* <binary>.new
  running,  \* the release the daemon runs
  exiting,  \* exitAfterUpdateSoon sleeps
  updater,  \* Updaters -> [at, mine: the release it runs, rel: the one it installs]
  breaks    \* failures and crashes spent
updVars == <<latest, disk, spare, running, exiting, updater, breaks>>

Resting == [at |-> "idle", mine |-> 1, rel |-> 1]
UpdInit ==
  /\ latest = 1 /\ disk = 1 /\ spare = Absent /\ running = 1 /\ exiting = FALSE
  /\ updater = [u \in Updaters |-> Resting] /\ breaks = [failed |-> 0, crashed |-> 0]

\* versionParts: a missing part is 0.
Part(v, i) == IF i <= Len(v) THEN v[i] ELSE 0

(***************************************************************************)
(* Mutants (see PROJECT.json).                                             *)
(***************************************************************************)
Creatable_Any == TRUE
Newer_FirstPart(a, b) == Part(a, 1) > Part(b, 1)

\* compareVersions: the first part that differs decides.
Newer(a, b) ==
  \E i \in 1..(Len(a) + Len(b)) :
    Part(a, i) > Part(b, i) /\ \A j \in 1..(i - 1) : Part(a, j) = Part(b, j)

Where(u) == updater[u].at
Set(u, next) == updater' = [updater EXCEPT ![u] = next]
Fail == breaks.failed < MaxErrors /\ breaks' = [breaks EXCEPT !.failed = @ + 1]

Publish ==
  /\ latest < Len(Releases) /\ latest' = latest + 1
  /\ UNCHANGED <<disk, spare, running, exiting, updater, breaks>>

\* Check.  The command line is a process of its own, started from the binary.
Check(u) ==
  /\ Where(u) = "idle"
  /\ LET mine == IF u \in Outside THEN disk ELSE running IN
     /\ Newer(Releases[latest], Releases[mine])
     /\ Set(u, [at |-> "fetch", mine |-> mine, rel |-> latest])
  /\ UNCHANGED <<latest, disk, spare, running, exiting, breaks>>
\* Update asks for the release again.
Fetch(u) ==
  /\ Where(u) = "fetch" /\ Set(u, [updater[u] EXCEPT !.at = "download", !.rel = latest])
  /\ UNCHANGED <<latest, disk, spare, running, exiting, breaks>>
\* Into a directory of its own; a bad checksum or a failed download ends the update.
Download(u) ==
  /\ Where(u) = "download"
  /\ \/ Set(u, [updater[u] EXCEPT !.at = "create"]) /\ UNCHANGED breaks
     \/ Set(u, Resting) /\ Fail
  /\ UNCHANGED <<latest, disk, spare, running, exiting>>
\* copyBinary opens <binary>.new with O_EXCL.
Creatable == spare = Absent
CopyTarget(file) == spare' = file /\ UNCHANGED disk
Create(u) ==
  /\ Where(u) = "create"
  /\ IF Creatable
     THEN CopyTarget(Torn) /\ Set(u, [updater[u] EXCEPT !.at = "copy"])
     ELSE Set(u, Resting) /\ UNCHANGED <<disk, spare>>
  /\ UNCHANGED <<latest, running, exiting, breaks>>
\* A copy that fails leaves the file.
Copy(u) ==
  /\ Where(u) = "copy"
  /\ \/ CopyTarget(updater[u].rel) /\ Set(u, [updater[u] EXCEPT !.at = "rename"]) /\ UNCHANGED breaks
     \/ Set(u, Resting) /\ Fail /\ UNCHANGED <<disk, spare>>
  /\ UNCHANGED <<latest, running, exiting>>
Exits(u) == exiting' = (exiting \/ u \in Inside)
Rename(u) ==
  /\ Where(u) = "rename" /\ spare' = Absent /\ Set(u, Resting)
  /\ \/ disk' = spare /\ Exits(u) /\ UNCHANGED breaks
     \/ Fail /\ UNCHANGED <<disk, exiting>>
  /\ UNCHANGED <<latest, running>>

\* The daemon ends and is started again; what its goroutines did stops where it was.
Restart ==
  /\ running' = disk /\ exiting' = FALSE
  /\ updater' = [u \in Updaters |-> IF u \in Inside THEN Resting ELSE updater[u]]
Exit == exiting /\ Restart /\ UNCHANGED <<latest, disk, spare, breaks>>
UpdCrash ==
  /\ breaks.crashed < MaxUpdCrashes /\ breaks' = [breaks EXCEPT !.crashed = @ + 1]
  /\ \/ Restart
     \/ \E u \in Outside : Where(u) # "idle" /\ Set(u, Resting) /\ UNCHANGED <<running, exiting>>
  /\ UNCHANGED <<latest, disk, spare>>

UpdStep(u) == Check(u) \/ Fetch(u) \/ Download(u) \/ Create(u) \/ Copy(u) \/ Rename(u)
UpdNext == Publish \/ Exit \/ UpdCrash \/ \E u \in Updaters : UpdStep(u)
UpdSpec == UpdInit /\ [][UpdNext]_updVars

(***************************************************************************)
(* Properties.                                                             *)
(***************************************************************************)
\* The binary is a whole release at every moment, whatever was copied, cut short or killed in
\* the meantime: a restart always finds something it can run (replaceBinary).
BinaryIsWhole == disk \in Numbers

\* What is renamed over the binary is the file this updater copied: two updates at once never
\* install a mixture, or the file of one under the name of the other (copyBinary, O_EXCL).
RenamesItsOwn == \A u \in Updaters : Where(u) = "rename" => spare = updater[u].rel

\* What is installed is a release.
InstallsWhole == BinaryIsWhole /\ RenamesItsOwn

Leftover == spare # Absent /\ \A u \in Updaters : Where(u) \notin {"copy", "rename"}
\* The daemon runs the latest release in the end, unless a copy that was cut short left
\* <binary>.new behind, which no later update gets past (autoUpdateLoop, exitAfterUpdateSoon).
UpdateArrives == <>[](running = latest \/ Leftover)
=============================================================================
