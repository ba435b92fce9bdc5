---------------------------- MODULE SessionHistory ----------------------------
(***************************************************************************)
(* What the navigation core promises of Back, whatever the terminal does   *)
(* around it: a page is visited after all those before it, Back returns to *)
(* the page left last, and a page is forgotten only when the trail is at   *)
(* its limit, the oldest ones first.  EventLoop implements it.             *)
(***************************************************************************)
EXTENDS Naturals, Sequences

CONSTANTS
  Pages,  \* pages: natural numbers, in the order of the loads that produce them,
          \* 0 the one that may be there from the start
  None,   \* no page yet
  Depth   \* how many pages Back can return to

VARIABLES
  current,  \* NavigationController.current_page
  trail     \* NavigationController.history_stack, oldest first

Init == current \in {None, 0} /\ trail = <<>>

\* The trail without its k oldest pages.
Forget(k) == SubSeq(trail, k + 1, Len(trail))

NewerThanTheTrail(p) ==
  /\ current # None => current < p
  /\ \A i \in 1..Len(trail) : trail[i] < p

\* finish_load: the page being left becomes the newest of the trail.
Visit ==
  \E p \in Pages :
    /\ NewerThanTheTrail(p)
    /\ current' = p
    /\ IF current = None THEN trail' = trail
       ELSE \E k \in 0..Len(trail) :
              /\ k > 0 => Len(trail) >= Depth
              /\ trail' = Append(Forget(k), current)
              /\ Len(trail') <= Depth

\* go_back: the current page is dropped, not pushed.
Return ==
  /\ trail # <<>>
  /\ current' = trail[Len(trail)]
  /\ trail' = SubSeq(trail, 1, Len(trail) - 1)

Next == Visit \/ Return

Spec == Init /\ [][Next]_<<current, trail>>
=============================================================================
