----------------------------- MODULE MCResolver -----------------------------
(***************************************************************************)
(* Small instances of Resolver for TLC: the quests belong to user u1.      *)
(***************************************************************************)
EXTENDS Resolver, TLC

CONSTANT u1

OwnerOf == [q \in Quests |-> u1]

Symmetry == Permutations(Reqs) \union Permutations(Tasks) \union Permutations(Goals)

=============================================================================
