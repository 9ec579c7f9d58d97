---------------------------- MODULE MCLivePages ----------------------------
(* Instances of LivePages for TLC. *)
EXTENDS LivePages

\* Every operation; every query alone, and the page of a sale with its history.
AllOps == DOMAIN OpOf
EachQuery == {{q} : q \in Queries} \cup {{"sale", "sale-history"}}
=============================================================================
