-------------------------- MODULE DurableBridgeMC --------------------------
(* Small instances of DurableBridge for TLC. *)
EXTENDS DurableBridge, TLC

CONSTANTS i1, i2, s1, s2, s3

\* Two session objects in the first replica (one may be closing while the
\* next is created), one in the second.
TwoReplicas == s1 :> i1 @@ s2 :> i1 @@ s3 :> i2

\* One session object in each replica.
OneEach == s1 :> i1 @@ s3 :> i2

Symmetry == Permutations({s1, s2})

=============================================================================
