------------------------------ MODULE MCQuest ------------------------------
(***************************************************************************)
(* Small instances of Quest for TLC.  Requests and users are               *)
(* interchangeable; so are the ids, which are drawn at random.             *)
(***************************************************************************)
EXTENDS Quest, TLC

Symmetry == Permutations(Users) \union Permutations(Quests) \union Permutations(Reqs)

=============================================================================
