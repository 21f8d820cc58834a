------------------------------- MODULE Outbox ---------------------------------
(***************************************************************************)
(* The delivery queue (deliveryLoop and processDeliveryBatch of            *)
(* internal/daemon/service.go, the delivery_queue table of                 *)
(* internal/storage/store.go).  Nothing enqueues at this commit: the items *)
(* are those an earlier release left in the database.                      *)
(***************************************************************************)
EXTENDS Naturals, FiniteSets

CONSTANTS
  Items,
  MaxAttempts,        \* DeliveryMaxAttempts
  MaxOutboxCrashes    \* bound

ASSUME OutboxAssumption == MaxAttempts \in Nat \ {0} /\ MaxOutboxCrashes \in Nat

VARIABLES
  status, tries, due,  \* Items -> status, retry_count, whether available_at has passed
  batch,    \* the claimed items still to be sent
  answer,   \* the item being sent and its answer, or nothing
  acked,    \* history: items whose sending Feishu confirmed
  posts,    \* history: Items -> times it was sent
  outages
outVars == <<status, tries, due, batch, answer, acked, posts, outages>>

Waiting == {"pending", "retry"}
OutInit ==
  /\ status \in [Items -> {"pending", "retry", "processing"}]
  /\ tries = [i \in Items |-> 0] /\ due = [i \in Items |-> TRUE]
  /\ batch = {} /\ answer = <<>> /\ acked = {} /\ posts = [i \in Items |-> 0] /\ outages = 0

(***************************************************************************)
(* Mutants (see PROJECT.json).                                             *)
(***************************************************************************)
Claimable_Processing == {i \in Items : status[i] \in Waiting \cup {"processing"} /\ due[i]}

\* ClaimDeliveryBatch: one transaction.
Claimable == {i \in Items : status[i] \in Waiting /\ due[i]}
Claim ==
  /\ batch = {} /\ Claimable # {} /\ batch' = Claimable
  /\ status' = [i \in Items |-> IF i \in Claimable THEN "processing" ELSE status[i]]
  /\ UNCHANGED <<tries, due, answer, acked, posts, outages>>
\* An error may come after the message was sent.
Post(i) ==
  /\ i \in batch /\ answer = <<>>
  /\ posts' = [posts EXCEPT ![i] = @ + 1]
  /\ \E a \in {"sent", "failed"} :
       answer' = <<i, a>> /\ acked' = IF a = "sent" THEN acked \cup {i} ELSE acked
  /\ UNCHANGED <<status, tries, due, batch, outages>>
Dead(attempt) == attempt >= MaxAttempts
\* CompleteDelivery, FailDelivery
Settle(i) ==
  /\ i \in batch /\ answer \in {<<i, "sent">>, <<i, "failed">>}
  /\ batch' = batch \ {i} /\ answer' = <<>>
  /\ LET attempt == tries[i] + 1 IN
     IF answer[2] = "sent"
     THEN status' = [status EXCEPT ![i] = "delivered"] /\ UNCHANGED <<tries, due>>
     ELSE /\ status' = [status EXCEPT ![i] = IF Dead(attempt) THEN "dead" ELSE "retry"]
          /\ tries' = [tries EXCEPT ![i] = attempt] /\ due' = [due EXCEPT ![i] = FALSE]
  /\ UNCHANGED <<acked, posts, outages>>
\* available_at passes.
Available(i) ==
  /\ ~due[i] /\ due' = [due EXCEPT ![i] = TRUE]
  /\ UNCHANGED <<status, tries, batch, answer, acked, posts, outages>>
\* Nothing gives a claimed item back after a restart.
OutCrash ==
  /\ outages < MaxOutboxCrashes /\ outages' = outages + 1 /\ batch' = {} /\ answer' = <<>>
  /\ UNCHANGED <<status, tries, due, acked, posts>>

Deliver == Claim \/ \E i \in Items : Post(i) \/ Settle(i)
OutNext == Deliver \/ OutCrash \/ \E i \in Items : Available(i)
OutSpec == OutInit /\ [][OutNext]_outVars

(***************************************************************************)
(* Properties.                                                             *)
(***************************************************************************)
\* A message Feishu confirmed is never sent again, and none is sent more often than the limit
\* says, through retries and crashes between the sending and the record of it
\* (processDeliveryBatch).
NoMoreThanPromised ==
  /\ \A i \in Items : posts[i] <= MaxAttempts
  /\ \A i \in acked : status[i] = "delivered" \/ (status[i] = "processing" /\ (i \in batch => answer = <<i, "sent">>))
=============================================================================
