----------------------------- MODULE MCSessions -----------------------------
(* Instances of Sessions for TLC. *)
EXTENDS Sessions, TLC

\* Ids are drawn at random and the tabs of a browser are alike.
Interchangeable == Permutations(Tabs) \cup Permutations(Sids)
=============================================================================
