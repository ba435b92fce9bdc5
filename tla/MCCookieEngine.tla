---------------------------- MODULE MCCookieEngine ----------------------------
(* CookieEngine on small instances. *)
EXTENDS CookieEngine, TLC

\* Sites are compared for equality only.
SiteSymmetry == Permutations(Sites)
=============================================================================
