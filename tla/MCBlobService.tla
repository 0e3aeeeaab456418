----------------------------- MODULE MCBlobService -----------------------------
(* Instances of BlobService for TLC. *)
EXTENDS BlobService, TLC

CONSTANTS k1, k2, k3, a, b, x, y, h1, h2, w1

TwoIds == {k1, k2}
ThreeIds == {k1, k2, k3}
NoneStored == {}
OneStored == {k1}
TwoStored == {k1, k2}
TwoBuckets == {a, b}
OneBucket == {a}
OneContent == {x}
TwoContents == {x, y}
TwoHandlers == {h1, h2}
OneHandler == {h1}
OneWorker == {w1}
NoWorker == {}

NoDates == {}
SecondTick == {1}
BothTicks == {0, 1}

AllOps == {"upload", "edit", "delete", "open"}
UploadDelete == {"upload", "delete"}
EditDelete == {"edit", "delete"}
UploadOnly == {"upload"}
DeleteOnly == {"delete"}
EditOnly == {"edit"}

(* Symmetric values: ids that start alike, buckets, contents and handlers.  *)
(* Used where no liveness property is checked.                              *)
Symmetry ==
    Permutations(Buckets) \cup Permutations(Contents) \cup Permutations(Handlers)
        \cup Permutations(Stored) \cup Permutations(Ids \ Stored)
=============================================================================
