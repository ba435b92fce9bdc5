---------------------------- MODULE MCVisitHistory ----------------------------
(* VisitHistory on small instances. *)
EXTENDS VisitHistory, TLC

\* Each address has a host of its own, named like it.
HostOfUrl == [u \in Urls |-> u]

\* Addresses and hosts are compared for equality only.
UrlSymmetry == Permutations(Urls)
=============================================================================
