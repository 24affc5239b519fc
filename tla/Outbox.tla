------------------------------- MODULE Outbox -------------------------------
(***************************************************************************)
(* What the message queue of a thread promises, without rows, claims or    *)
(* workers: a message is handed to the agent at most once, and one that    *)
(* left the queue was either handed over or deleted by the user.  Only a   *)
(* notice of the server itself may be handed over again, or late.          *)
(***************************************************************************)
CONSTANTS Id, Notices

VARIABLE fate   \* "new", "queued", "delivered", "duplicated" or "removed"

Init == fate = [i \in Id |-> "new"]

Queue(i) == fate[i] = "new" /\ fate' = [fate EXCEPT ![i] = "queued"]

\* One prompt carries every message of S: all of them or none.
Deliver(S) ==
    /\ S # {}
    /\ \A i \in S : fate[i] = "queued" \/ (i \in Notices /\ fate[i] # "new")
    /\ fate' = [i \in Id |->
          IF i \notin S THEN fate[i]
          ELSE IF fate[i] \in {"queued", "removed"} THEN "delivered" ELSE "duplicated"]

Withdraw(i) == fate[i] = "queued" /\ fate' = [fate EXCEPT ![i] = "removed"]

Next ==
    \/ \E i \in Id : Queue(i) \/ Withdraw(i)
    \/ \E S \in SUBSET Id : Deliver(S)

Spec == Init /\ [][Next]_fate
=============================================================================
