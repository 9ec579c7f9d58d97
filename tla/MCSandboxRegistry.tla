------------------------- MODULE MCSandboxRegistry -------------------------
(* Instances of SandboxRegistry for TLC. *)
EXTENDS SandboxRegistry, TLC

\* Ids are drawn at random; visitors who upload, the others and sweeps behave alike.
Interchangeable ==
    Permutations(Ids) \cup Permutations(Uploaders) \cup Permutations(Visitors \ Uploaders)
    \cup Permutations(Sweeps)
=============================================================================
