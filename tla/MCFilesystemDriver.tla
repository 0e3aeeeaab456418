--------------------------- MODULE MCFilesystemDriver --------------------------
(* The constants of the TLC instances of FilesystemDriver. *)
EXTENDS FilesystemDriver, TLC

CONSTANTS p1, p2, p3, k1, k2, v1

OneCaller == {p1}
TwoCallers == {p1, p2}
ThreeCallers == {p1, p2, p3}
OneKey == {k1}
TwoKeys == {k1, k2}
OneBody == {v1}
OneBucket == {<<"a">>}
TwoBuckets == {<<"a">>, <<"b">>}
NestedBuckets == {<<"a">>, <<"a", "b">>}
ThreeBuckets == {<<"a">>, <<"a", "b">>, <<"a", "c">>}

Nothing == {}
OneObject == {[dir |-> <<"a">>, key |-> k1]}

AllOps == {"put", "create", "delete", "move", "removetree"}
PutDelete == {"put", "delete"}
OnlyMove == {"move"}

Symmetry == Permutations({p1, p2, p3}) \cup Permutations({k1, k2})
=============================================================================
