----------------------------- MODULE MCSnapshots ------------------------------
EXTENDS Snapshots

\* The poll loop goes on polling (Polling) and the database follows; nothing of the live loop.
FairSpec ==
  SnapSpec /\ WF_snapVars(LoopStep("poll")) /\ WF_snapVars(Project)
=============================================================================
