--------------------------- MODULE MCInteractions ---------------------------
(***************************************************************************)
(* Interactions with two questions of a provider and one of a plugin, and  *)
(* what is interchangeable among them.                                     *)
(***************************************************************************)
EXTENDS Interactions, TLC

Interchangeable == Permutations(Request) \union Permutations(Answers)
=============================================================================
