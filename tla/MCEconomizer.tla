---------------------------- MODULE MCEconomizer ----------------------------
(***************************************************************************)
(* A small instance of Economizer for TLC: "A" and "a" have one key; "say" *)
(* is spoken.                                                              *)
(***************************************************************************)
EXTENDS Economizer, TLC

KeyOf == [t \in Texts |-> IF t = "A" THEN "a" ELSE t]

Sizes == ("embed" :> 2) @@ ("synth" :> 1)

Symmetry == Permutations(Calls)

Lists == {<<"a", "b", "c">>, <<"A", "a">>}

=============================================================================
