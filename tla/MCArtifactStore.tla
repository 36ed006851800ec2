--------------------------- MODULE MCArtifactStore ---------------------------
(* Two processes racing for one key: a and x are different bytes, of different *)
(* sizes, with the same digest, so that the collision paths are exercised.   *)
EXTENDS ArtifactStore, TLC

CONSTANTS a, x, ka, d1, d2, p1, p2

MCDigest == (a :> ka) @@ (x :> ka)
MCSize == (a :> 1) @@ (x :> 2)
=============================================================================
