---------------------------- MODULE MCQueueStore ----------------------------
(***************************************************************************)
(* QueueStore on small instances: the messages, who may share a prompt     *)
(* with whom, and the symmetry of what is interchangeable.                 *)
(***************************************************************************)
EXTENDS QueueStore, TLC

CONSTANTS m1, m2, m3

\* m1 and m2 may share a prompt, m3 may not (another sender).
TwoOfAKind == [i \in Id |-> IF i = m3 THEN "agent" ELSE "user"]

\* Every message may share a prompt with every other.
AllOfAKind == [i \in Id |-> "user"]

Interchangeable == Permutations(Workers) \union Permutations(Tokens)
=============================================================================
