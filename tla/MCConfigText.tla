----------------------------- MODULE MCConfigText ------------------------------
(* Small instances of ConfigText: locations /, /a, /a/b and /a/b/c, with which *)
(* paths begin.                                                                *)
EXTENDS ConfigText, TLC

Paths    == {<<"/">>, <<"/", "a">>, <<"/", "a", "b">>, <<"/", "a", "b", "c">>}
TwoPaths == {<<"/", "a">>, <<"/", "a", "b">>}
TwoUris  == {<<"/", "a", "b">>, <<"/", "b">>}

\* No operator orders two values.
Symmetry == Permutations(Given)
=============================================================================
