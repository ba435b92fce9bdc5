---------------------------- MODULE RememberedVisits ----------------------------
(***************************************************************************)
(* What the visit history on disk promises: a visit is remembered when it  *)
(* is made and forgotten for one of four reasons only.  The reader deletes *)
(* it, clears its site, or clears everything, or it is older than the      *)
(* retention window when the browser starts.                               *)
(***************************************************************************)
EXTENDS Naturals

CONSTANTS Urls, HostOf, Ids, Retention

VARIABLES
  kept,  \* the visits that are remembered
  now,   \* the clock
  start  \* how many times the browser was started

Init == kept = {} /\ now = 0 /\ start = 1

Tick == now' = now + 1 /\ UNCHANGED <<kept, start>>

Record ==
  /\ \E id \in Ids, u \in Urls :
       /\ \A v \in kept : v.id # id
       /\ kept' = kept \cup {[id |-> id, url |-> u, at |-> now]}
  /\ UNCHANGED <<now, start>>

Delete ==
  /\ \E v \in kept : kept' = kept \ {v}
  /\ UNCHANGED <<now, start>>

ClearSite ==
  /\ \E u \in Urls : kept' = {v \in kept : HostOf[v.url] # HostOf[u]}
  /\ UNCHANGED <<now, start>>

ClearAll == kept' = {} /\ UNCHANGED <<now, start>>

\* A start prunes what is too old, or leaves the database alone.
Start ==
  /\ start' = start + 1
  /\ kept' \in {kept, {v \in kept : now <= v.at + Retention}}
  /\ UNCHANGED now

Next == Tick \/ Record \/ Delete \/ ClearSite \/ ClearAll \/ Start

Spec == Init /\ [][Next]_<<kept, now, start>>
=============================================================================
