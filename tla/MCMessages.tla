------------------------------- MODULE MCMessages -------------------------------
(***************************************************************************)
(* A message of the chat: where it goes (Inbox) and how its text gets into *)
(* the thread (TurnInput).  The two share no state; `which` says the one   *)
(* that runs.                                                              *)
(***************************************************************************)
EXTENDS TurnInput, Inbox, TLC

CONSTANTS ta, tb, rootA, rootB, c1, m1, m2, d1, d2, d3
CONSTANT MaxFaults  \* bound: lost replies, failed calls and crashes of the input together

\* The first message is delivered twice, and its deliveries are alike.
MCMsgOf == [d \in {d1, d2, d3} |-> IF d = d3 THEN m2 ELSE m1]
MCMsgOfOne == [d \in {d1} |-> m1]
MCSymmetry == Permutations({d1, d2})
MCRoot == [t \in {ta, tb} |-> IF t = ta THEN rootA ELSE rootB]
MCSubject == [c \in {c1} |-> ta]
\* The card and the message want the same number first.
MCHash == [i \in {rootA, rootB, c1, m1} |->
  CASE i = rootA -> <<1>> [] i = rootB -> <<2>> [] i = c1 -> <<3, 4>> [] i = m1 -> <<3, 5>>]

VARIABLE which
\* Before the card is posted, the chat has no panel or one of the other thread.
MsgInit ==
  /\ Init /\ InboxInit /\ panel # ta
  /\ \/ which = "inbox" /\ desktop
     \/ which = "input" /\ ~group /\ topical = {} /\ panel = Nobody
MsgNext ==
  \/ which = "inbox" /\ InboxNext /\ UNCHANGED <<which, vars>>
  \/ which = "input" /\ Next /\ losses' + fails' + crashes' <= MaxFaults /\ UNCHANGED <<which, inboxVars>>
MsgSpec == MsgInit /\ [][MsgNext]_<<which, vars, inboxVars>>
InputSpec == MsgInit /\ which = "input" /\ [][MsgNext]_<<which, vars, inboxVars>>
=============================================================================
