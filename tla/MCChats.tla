------------------------------- MODULE MCChats --------------------------------
(* The chat's topics and its new threads; `which` says the one that runs.      *)
EXTENDS Topics, NewThreads
CONSTANTS a, b, t1, v1, v2, x1, x2, here, there, proj, temp

VARIABLE which
chatVars == <<which, topicVars, newVars>>

MCIncludes == {<<x1, x1>>, <<x2, x2>>, <<x1, x2>>}

Init == which \in {"topics", "new"} /\ TopicsInit /\ NewInit
Next ==
  \/ which = "topics" /\ TopicsNext /\ UNCHANGED <<which, newVars>>
  \/ which = "new" /\ NewNext /\ UNCHANGED <<which, topicVars>>
Spec == Init /\ [][Next]_chatVars
\* A handler goes on with what it has begun.
FairSpec ==
  /\ Spec
  /\ \A x \in Texts : WF_chatVars(which = "new" /\ TextStep(x) /\ UNCHANGED <<which, topicVars>>)
=============================================================================
