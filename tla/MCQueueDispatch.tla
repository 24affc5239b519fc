--------------------------- MODULE MCQueueDispatch ---------------------------
(* QueueDispatch on small instances.                                        *)
EXTENDS QueueDispatch, TLC

CONSTANTS m1, m2, m3

\* Every message may share a prompt with every other.
AllOfAKind == [i \in Id |-> "user"]

\* No message shares a prompt with another.
AllDifferent == [i \in Id |-> i]

Interchangeable == Permutations(Workers) \union Permutations(Tokens)
=============================================================================
