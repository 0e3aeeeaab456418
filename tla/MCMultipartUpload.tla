--------------------------- MODULE MCMultipartUpload ---------------------------
(* The constants of the TLC instances of MultipartUpload. *)
EXTENDS MultipartUpload, TLC

CONSTANTS s1, s2, h1, h2, w1

OneSession == {s1}
TwoSessions == {s1, s2}
OneHandler == {h1}
TwoHandlers == {h1, h2}
OneWorker == {w1}
NoWorker == {}
OneIndex == {0}
TwoIndices == {0, 1}

Symmetry == Permutations({h1, h2})
=============================================================================
