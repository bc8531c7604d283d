----------------------------- MODULE MCRegions -----------------------------
(* Instances of Regions: small terminals, with the sizes at which regions   *)
(* stop fitting.                                                            *)
EXTENDS Regions

CONSTANTS r1, r2, r3

\* A region's id is the address of its canvas: any will do.
Alike == Permutations({r1, r2, r3})

SmallScreens == {<<5, 4>>, <<3, 7>>}
TwoCaptions == {[always |-> FALSE, top |-> FALSE], [always |-> TRUE, top |-> TRUE]}
SomeSizes == {<<"equal", 0>>, <<"min", 0>>, <<"max", 0>>, <<"to", 3>>, <<"by", -1>>}
SomeFlags == {{}, Orients}

=============================================================================
