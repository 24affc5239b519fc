----------------------------- MODULE MCOrderKeys -----------------------------
(* Instances of OrderKeys for TLC. *)
EXTENDS OrderKeys

\* Three rows that a migration numbered in two digits; numerals use the first digits of
\* the alphabet only (binary here, decimal in the code), so the second ends with a zero.
MCMigrated == [r \in 1 .. 3 |-> <<r \div 2, r % 2>>]
=============================================================================
