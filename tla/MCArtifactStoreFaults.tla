------------------------ MODULE MCArtifactStoreFaults ------------------------
(* Two processes, one artifact, and each kind of fault once.                *)
EXTENDS ArtifactStoreFaults, TLC

CONSTANTS a, ka, d1, d2, p1, p2

MCDigest == a :> ka
MCSize == a :> 1
=============================================================================
