----------------------------- MODULE MCErasure ------------------------------
(***************************************************************************)
(* A small instance of Erasure for TLC: "a" and "b" are near each other.   *)
(***************************************************************************)
EXTENDS Erasure, TLC

NearPairs == {<<t, t>> : t \in Texts} \union {<<"a", "b">>, <<"b", "a">>}

Chunks == {<<"c">>, <<"b", "a">>}

Symmetry == Permutations(Calls) \union Permutations(Users)

=============================================================================
