---------------------------- MODULE MCRegistry ----------------------------
(* Instances of Registry for TLC. *)
EXTENDS Registry, TLC

CONSTANTS b1, v1, v2, v3, x1, x2, x3, latest1, release

\* One bucket, one build slot per version, one user channel.
OneBucketOfVersion == (v1 :> b1 @@ v2 :> b1 @@ v3 :> b1)
OneBucketOfChannel == (latest1 :> b1 @@ release :> b1)
OneVersionOfBuild == (x1 :> v1 @@ x2 :> v2 @@ x3 :> v3)
OneLatest == (b1 :> latest1)
TwoBucketOfVersion == (v1 :> b1 @@ v2 :> b1)
TwoVersionOfBuild == (x1 :> v1 @@ x2 :> v2)
ChainVersionOfBuild == (x2 :> v2 @@ x3 :> v3)
ManagedBucketOfChannel == (latest1 :> b1)

\* Recorded ancestry: v2 is built from v1 and v3 from v2; v1 may close a cycle.
Chain == {<<v2, v1>>, <<v3, v2>>}
Cycle == {<<v2, v1>>, <<v1, v2>>}

===========================================================================
