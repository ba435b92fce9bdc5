----------------------------- MODULE MCEventLoop -----------------------------
(* EventLoop on small instances. *)
EXTENDS EventLoop, TLC

\* Addresses are compared for equality only.
AddressSymmetry == Permutations(Urls)
=============================================================================
