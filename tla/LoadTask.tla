------------------------------- MODULE LoadTask -------------------------------
(***************************************************************************)
(* The contract between the terminal and the navigation core: what a load  *)
(* may do to the page, and that it ends.  The terminal relies on it while  *)
(* the controller is away in the background task; the core's redirect      *)
(* chain keeps it.  EventLoop and CookieEngine both implement it.          *)
(***************************************************************************)
EXTENDS Naturals

CONSTANT None  \* no page

VARIABLES
  active,   \* a load task holds the controller
  started,  \* how many loads were started; the last one is the active one
  page      \* the load that produced the current page

Init == active = FALSE /\ started = 0 /\ page \in {None, 0}

Start == ~active /\ active' = TRUE /\ started' = started + 1 /\ page' = page

Succeed == active /\ active' = FALSE /\ started' = started /\ page' = started

\* The load failed, or nobody waits for it any more: the held page stays.
Fail == active /\ active' = FALSE /\ started' = started /\ page' = page

\* Back.
Return ==
  /\ ~active /\ active' = active
  /\ started' = started
  /\ page' \in 0..started

\* The process ends, with or without a load, and another one starts.
Restart == active' = FALSE /\ started' = started /\ page' = None

Next == Start \/ Succeed \/ Fail \/ Return \/ Restart

Safety == Init /\ [][Next]_<<active, started, page>>

Spec ==
  /\ Safety
  /\ WF_<<active, started, page>>(Succeed \/ Fail)
=============================================================================
