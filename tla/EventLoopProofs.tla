--------------------------- MODULE EventLoopProofs ---------------------------
(***************************************************************************)
(* Proofs about EventLoop, for every history depth, every set of addresses *)
(* and every number of loads, with or without a mouse.                     *)
(***************************************************************************)
EXTENDS EventLoop, SequenceTheorems, TLAPS

-----------------------------------------------------------------------------
(* Sequences used as stacks.                                               *)

\* The last element of a stack, and what is under it.
LEMMA PopFacts ==
  ASSUME NEW S, NEW s \in Seq(S), s # <<>>
  PROVE  /\ Len(s) \in Nat \ {0}
         /\ Last(s) \in S
         /\ Front(s) \in Seq(S)
         /\ Len(Front(s)) = Len(s) - 1
         /\ \A i \in 1..(Len(s) - 1) : Front(s)[i] = s[i]
<1> DEFINE n == Len(s) - 1
<1>1. Len(s) \in Nat \ {0} /\ n \in Nat
  BY EmptySeq
<1>2. \A i \in 1..Len(s) : s[i] \in S
  BY ElementOfSeq
<1>3. Last(s) \in S
  BY <1>1, <1>2 DEF Last
<1>4. \A i \in 1..n : s[i] \in S
  BY <1>1, <1>2
<1> HIDE DEF n
<1>5. /\ SubSeq(s, 1, n) \in Seq(S)
      /\ Len(SubSeq(s, 1, n)) = IF 1 <= n THEN n - 1 + 1 ELSE 0
      /\ \A i \in 1..(n - 1 + 1) : SubSeq(s, 1, n)[i] = s[1 + i - 1]
  BY <1>1, <1>4, SubSeqProperties
<1>6. Front(s) = SubSeq(s, 1, n)
  BY DEF Front, n
<1>7. Len(Front(s)) = n
  BY <1>1, <1>5, <1>6
<1>8. ASSUME NEW i \in 1..n PROVE Front(s)[i] = s[i]
  BY <1>1, <1>5, <1>6
<1> QED
  BY <1>1, <1>3, <1>5, <1>6, <1>7, <1>8 DEF n

\* What finish_load pushes: the page, over the stack without its oldest page if full.
LEMMA PushFacts ==
  ASSUME TypeOK, page # None, Len(back) <= MaxHistoryDepth
  PROVE  /\ PushPage \in Seq(Pages)
         /\ \E k \in 0..Len(back) :
              /\ k > 0 => Len(back) >= MaxHistoryDepth
              /\ PushPage = Append(SubSeq(back, k + 1, Len(back)), page)
              /\ Len(PushPage) = Len(back) - k + 1
              /\ Len(PushPage) <= MaxHistoryDepth
              /\ \A i \in 1..(Len(back) - k) : PushPage[i] = back[i + k]
              /\ PushPage[Len(back) - k + 1] = page
<1> DEFINE Pushed(k) ==
             /\ k > 0 => Len(back) >= MaxHistoryDepth
             /\ PushPage = Append(SubSeq(back, k + 1, Len(back)), page)
             /\ Len(PushPage) = Len(back) - k + 1
             /\ Len(PushPage) <= MaxHistoryDepth
             /\ \A i \in 1..(Len(back) - k) : PushPage[i] = back[i + k]
             /\ PushPage[Len(back) - k + 1] = page
<1>1. /\ back \in Seq(Pages) /\ Len(back) \in Nat /\ page \in Pages
      /\ MaxHistoryDepth \in Nat \ {0}
  BY LenProperties, DepthAssumption DEF TypeOK
<1>2. ASSUME Len(back) >= MaxHistoryDepth
      PROVE  PushPage \in Seq(Pages) /\ 1 \in 0..Len(back) /\ Pushed(1)
  <2>1. back # <<>>
    BY <1>1, <1>2, EmptySeq
  <2>2. PushPage = Append(Tail(back), page)
    BY <1>2 DEF PushPage
  <2>3. /\ Tail(back) = SubSeq(back, 2, Len(back))
        /\ Tail(back) \in Seq(Pages)
        /\ Len(Tail(back)) = Len(back) - 1
        /\ \A i \in 1..Len(Tail(back)) : Tail(back)[i] = back[i + 1]
    BY <1>1, <2>1, TailIsSubSeq, HeadTailProperties
  <2>4. /\ PushPage \in Seq(Pages)
        /\ Len(PushPage) = Len(Tail(back)) + 1
        /\ \A i \in 1..Len(Tail(back)) : PushPage[i] = Tail(back)[i]
        /\ PushPage[Len(Tail(back)) + 1] = page
    BY <1>1, <2>2, <2>3, AppendProperties
  <2>5. \A i \in 1..(Len(back) - 1) : PushPage[i] = back[i + 1]
    BY <1>1, <2>3, <2>4
  <2>6. Len(back) = MaxHistoryDepth
    BY <1>1, <1>2
  <2> QED
    BY <1>1, <1>2, <2>2, <2>3, <2>4, <2>5, <2>6
<1>3. ASSUME Len(back) < MaxHistoryDepth
      PROVE  PushPage \in Seq(Pages) /\ 0 \in 0..Len(back) /\ Pushed(0)
  <2>1. PushPage = Append(back, page)
    BY <1>1, <1>3 DEF PushPage
  <2>2. SubSeq(back, 1, Len(back)) = back
    BY <1>1, SubSeqFull
  <2>3. /\ PushPage \in Seq(Pages)
        /\ Len(PushPage) = Len(back) + 1
        /\ \A i \in 1..Len(back) : PushPage[i] = back[i]
        /\ PushPage[Len(back) + 1] = page
    BY <1>1, <2>1, AppendProperties
  <2> QED
    BY <1>1, <1>3, <2>1, <2>2, <2>3
<1>4. Len(back) >= MaxHistoryDepth \/ Len(back) < MaxHistoryDepth
  BY <1>1
<1> HIDE DEF Pushed
<1>5. PushPage \in Seq(Pages) /\ \E k \in 0..Len(back) : Pushed(k)
  BY <1>2, <1>3, <1>4
<1> QED
  BY <1>5 DEF Pushed

-----------------------------------------------------------------------------
(* Type correctness.                                                       *)

\* The variables that StartLoad, JumpToAnchor and ShowAddressError assign.
ViewportOK ==
  /\ load \in {"Idle", "Active"}
  /\ loads \in Pages
  /\ page \in Pages \cup {None}
  /\ view \in {"Blank", "Page", "Error"}
  /\ cache \in Pages \cup {None}
  /\ pending \in Pages \cup {None}
  /\ scroll \in Pages \cup {None}
  /\ anchors \in Seq(Pages)

\* The top of the loop lays out a page, takes a fragment and sets an offset, all typed.
LEMMA TopOfLoopType ==
  ASSUME NEW c \in Pages \cup {None}, NEW f \in Pages \cup {None},
         NEW s \in Pages \cup {None}, page' \in Pages \cup {None}, TopOfLoop(c, f, s)
  PROVE  /\ cache' \in Pages \cup {None}
         /\ pending' \in Pages \cup {None}
         /\ scroll' \in Pages \cup {None}
  BY DEF TopOfLoop

\* start_load keeps the types, and has a load left to number.
LEMMA StartLoadType ==
  ASSUME TypeOK, NEW f \in Pages \cup {None}, StartLoad(f)
  PROVE  ViewportOK'
<1>1. loads' \in Pages
  BY BoundsAssumption DEF StartLoad, TypeOK, Pages
<1>2. TopOfLoop(cache, f, scroll) /\ page' = page
  BY DEF StartLoad
<1>3. /\ cache' \in Pages \cup {None}
      /\ pending' \in Pages \cup {None}
      /\ scroll' \in Pages \cup {None}
  BY <1>2, TopOfLoopType DEF TypeOK
<1> QED
  BY <1>1, <1>2, <1>3 DEF StartLoad, ViewportOK, TypeOK

\* apply_navigation_target keeps the types, to a load, a jump or an error.
LEMMA FollowReferenceType ==
  ASSUME TypeOK, NEW u, NEW h, FollowReference(u, h)
  PROVE  ViewportOK'
<1>1. ASSUME JumpToAnchor PROVE ViewportOK'
  <2>1. cache # None => cache \in Pages /\ Append(anchors, cache) \in Seq(Pages)
    BY AppendProperties DEF TypeOK
  <2>2. anchors' \in Seq(Pages) /\ scroll' \in Pages \cup {None}
    BY <1>1, <2>1 DEF JumpToAnchor, TypeOK
  <2> QED
    BY <1>1, <2>2 DEF JumpToAnchor, ViewportOK, TypeOK
<1>2. ASSUME ShowAddressError PROVE ViewportOK'
  <2>1. TopOfLoop(None, pending, scroll) /\ page' = page
    BY <1>2 DEF ShowAddressError
  <2>2. /\ cache' \in Pages \cup {None}
        /\ pending' \in Pages \cup {None}
        /\ scroll' \in Pages \cup {None}
    BY <2>1, TopOfLoopType DEF TypeOK
  <2> QED
    BY <1>2, <2>1, <2>2 DEF ShowAddressError, ViewportOK, TypeOK
<1>3. ASSUME NEW f \in {loads + 1, None}, StartLoad(f) PROVE ViewportOK'
  <2>1. f \in Pages \cup {None}
    BY <1>3, BoundsAssumption DEF StartLoad, TypeOK, Pages
  <2> QED
    BY <1>3, <2>1, StartLoadType
<1> QED
  BY <1>1, <1>2, <1>3 DEF FollowReference

\* Every iteration of the loop keeps the variables in their types.
LEMMA TypeStep ==
  ASSUME TypeOK, [Next]_vars
  PROVE  TypeOK'
<1> USE DEF Modes, Panels
<1>1. CASE EnterCommand
  BY <1>1 DEF EnterCommand, SwitchMode, core, TypeOK
<1>2. CASE LeaveCommand
  BY <1>2 DEF LeaveCommand, SwitchMode, core, TypeOK
<1>3. CASE OpenPanel
  BY <1>3 DEF OpenPanel, SwitchMode, core, TypeOK
<1>4. CASE ClosePanel
  BY <1>4 DEF ClosePanel, SwitchMode, core, TypeOK
<1>5. CASE ScrollPage
  BY <1>5 DEF ScrollPage, core, TypeOK
<1>6. CASE SubmitAddress
  <2>1. ViewportOK'
    BY <1>6, FollowReferenceType DEF SubmitAddress
  <2> QED
    BY <1>6, <2>1 DEF SubmitAddress, ViewportOK, TypeOK
<1>7. CASE Search
  <2>1. ViewportOK'
    BY <1>7, StartLoadType DEF Search, TypeOK
  <2> QED
    BY <1>7, <2>1 DEF Search, ViewportOK, TypeOK
<1>8. CASE Reload
  <2>1. ViewportOK'
    BY <1>8, StartLoadType DEF Reload, TypeOK
  <2> QED
    BY <1>8, <2>1 DEF Reload, ViewportOK, TypeOK
<1>9. CASE NavigateBack
  <2>1. CASE UndoJump
    <3>1. Front(anchors) \in Seq(Pages) /\ Last(anchors) \in Pages
      BY <2>1, PopFacts DEF UndoJump, TypeOK
    <3> QED
      BY <1>9, <2>1, <3>1 DEF NavigateBack, UndoJump, TypeOK
  <2>2. CASE LeavePage
    <3>1. /\ Front(back) \in Seq(Pages) /\ Last(back) \in Pages
          /\ page' = Last(back) /\ back' = Front(back) /\ anchors' = anchors
      BY <2>2, PopFacts DEF LeavePage, GoBack, TypeOK
    <3>2. /\ cache' \in Pages \cup {None}
          /\ pending' \in Pages \cup {None}
          /\ scroll' \in Pages \cup {None}
      BY <2>2, <3>1, TopOfLoopType DEF LeavePage, TypeOK
    <3> QED
      BY <1>9, <2>2, <3>1, <3>2 DEF NavigateBack, LeavePage, TypeOK
  <2> QED
    BY <1>9, <2>1, <2>2 DEF NavigateBack
<1>10. CASE FocusTarget
  BY <1>10 DEF FocusTarget, core, TypeOK
<1>11. CASE LeaveFocus
  BY <1>11 DEF LeaveFocus, core, TypeOK
<1>12. CASE ActivateLink
  <2>1. ViewportOK' /\ mode' = "Reading" /\ focus' = None
    BY <1>12, FollowReferenceType DEF ActivateLink, StartLinkLoad
  <2> QED
    BY <1>12, <2>1 DEF ActivateLink, ViewportOK, TypeOK
<1>13. CASE OpenFieldEdit
  BY <1>13 DEF OpenFieldEdit, core, TypeOK
<1>14. CASE SubmitGet
  <2>1. ViewportOK'
    BY <1>14, StartLoadType DEF SubmitGet, TypeOK
  <2> QED
    BY <1>14, <2>1 DEF SubmitGet, ViewportOK, TypeOK
<1>15. CASE AskConfirmation
  BY <1>15 DEF AskConfirmation, core, TypeOK
<1>16. CASE DeclineSubmit
  BY <1>16 DEF DeclineSubmit, core, TypeOK
<1>17. CASE ConfirmSubmit
  <2>1. ViewportOK'
    BY <1>17, StartLoadType DEF ConfirmSubmit, TypeOK
  <2> QED
    BY <1>17, <2>1 DEF ConfirmSubmit, ViewportOK, TypeOK
<1>18. ASSUME KeysGoToEdit, WriteField PROVE typed' \in [Pages -> SUBSET Pages]
  BY <1>18 DEF KeysGoToEdit, WriteField, TypeOK
<1>19. CASE CommitFieldText
  BY <1>18, <1>19 DEF CommitFieldText, TypeOK
<1>20. CASE ToggleOption
  BY <1>18, <1>20 DEF ToggleOption, TypeOK
<1>21. CASE CloseFieldEdit
  BY <1>21 DEF CloseFieldEdit, core, TypeOK
<1>22. CASE MouseDown
  BY <1>22 DEF MouseDown, PointerOnPage, core, TypeOK
<1>23. CASE MouseDrag
  <2>1. sel' \in [page : Pages, moved : BOOLEAN]
    BY <1>23 DEF MouseDrag, TypeOK
  <2> QED
    BY <1>23, <2>1 DEF MouseDrag, core, TypeOK
<1>24. CASE ClickText
  BY <1>24 DEF ClickText, core, TypeOK
<1>25. CASE ClickLink
  <2>1. ViewportOK' /\ mode' = "Reading" /\ focus' = None
    BY <1>25, FollowReferenceType DEF ClickLink, StartLinkLoad
  <2> QED
    BY <1>25, <2>1 DEF ClickLink, ViewportOK, TypeOK
<1>26. CASE LoadSucceeds
  <2>1. /\ back' \in Seq(Pages)
        /\ page' \in Pages
        /\ url' \in [Pages -> Urls]
    <3>1. ASSUME page # None PROVE PushPage \in Seq(Pages)
      BY <3>1, AppendProperties, HeadTailProperties, DepthAssumption DEF PushPage, TypeOK
    <3>2. page = None => PushPage = back
      BY DEF PushPage
    <3> QED
      BY <1>26, <3>1, <3>2 DEF LoadSucceeds, TypeOK
  <2>2. /\ cache' \in Pages \cup {None}
        /\ pending' \in Pages \cup {None}
        /\ scroll' \in Pages \cup {None}
    BY <1>26, <2>1, TopOfLoopType DEF LoadSucceeds, TypeOK
  <2>3. anchors' \in Seq(Pages)
    BY <1>26, EmptySeq DEF LoadSucceeds, JoinLoad
  <2> QED
    BY <1>26, <2>1, <2>2, <2>3 DEF LoadSucceeds, JoinLoad, TypeOK
<1>27. CASE LoadFails
  <2>1. /\ cache' \in Pages \cup {None}
        /\ pending' \in Pages \cup {None}
        /\ scroll' \in Pages \cup {None}
    BY <1>27, TopOfLoopType DEF LoadFails, core, TypeOK
  <2>2. /\ load' = "Idle" /\ view' = "Error" /\ sel' = None
        /\ anchors' \in Seq(Pages)
    BY <1>27, EmptySeq DEF LoadFails, JoinLoad
  <2>3. UNCHANGED <<running, loads, page, back, url, typed, mode, focus, edit, confirm>>
    BY <1>27 DEF LoadFails, core
  <2>4. ViewportOK'
    BY <2>1, <2>2, <2>3 DEF ViewportOK, TypeOK
  <2> QED
    BY <2>2, <2>3, <2>4 DEF ViewportOK, TypeOK
<1>28. CASE Quit
  <2>1. running' \in BOOLEAN
    BY <1>28 DEF Quit
  <2>2. UNCHANGED <<load, loads, core, view, cache, pending, scroll, anchors, sel, mode,
                    focus, edit, confirm>>
    BY <1>28 DEF Quit
  <2> QED
    BY <2>1, <2>2 DEF core, TypeOK
<1>29. CASE UNCHANGED vars
  BY <1>29 DEF vars, core, TypeOK
<1> QED
  BY <1>1, <1>2, <1>3, <1>4, <1>5, <1>6, <1>7, <1>8, <1>9, <1>10, <1>11, <1>12,
     <1>13, <1>14, <1>15, <1>16, <1>17, <1>19, <1>20, <1>21, <1>22, <1>23, <1>24,
     <1>25, <1>26, <1>27, <1>28, <1>29
  DEF Next, BarAction, TargetAction, EditAction, MouseAction, LoadEnds

\* The loop starts well typed.
LEMMA TypeInit == Init => TypeOK
<1> SUFFICES ASSUME Init PROVE TypeOK
  OBVIOUS
<1>1. 0 \in Pages /\ <<>> \in Seq(Pages)
  BY BoundsAssumption, EmptySeq DEF Pages
<1> QED
  BY <1>1 DEF Init, TypeOK, Modes, Panels

\* TypeOK holds in every state of every session: each variable keeps the type its Rust
\* counterpart has, and what names a page names one.
THEOREM TypeCorrect == Spec => []TypeOK
<1>1. TypeOK /\ [Next]_vars => TypeOK'
  BY TypeStep
<1> QED
  BY <1>1, TypeInit, PTL DEF Spec

-----------------------------------------------------------------------------
(***************************************************************************)
(* What the screen shows and what the keys act on.  The six invariants are *)
(* inductive together, and only together: a focused target is one of the   *)
(* drawn page because the loop drops the focus before the controller       *)
(* leaves, the drawn page is the current one because nothing else is drawn *)
(* until the controller is back, and a jump is made in the drawn page.     *)
(***************************************************************************)
NothingOpenOverLoad == load = "Active" => mode = "Reading" /\ focus = None

ScreenInv ==
  /\ NothingOpenOverLoad
  /\ DrawnPageIsCurrent
  /\ FocusIsOnDrawnPage
  /\ ConfirmedFormIsDrawn
  /\ JumpsAreOfCurrentPage
  /\ FragmentFollowsItsLoad

\* The loop opens on a page, a blank or an error with the six in place.
LEMMA ScreenInit == Init => ScreenInv
  BY NoneAssumption
  DEF Init, ScreenInv, NothingOpenOverLoad, DrawnPageIsCurrent, FocusIsOnDrawnPage,
      ConfirmedFormIsDrawn, JumpsAreOfCurrentPage, FragmentFollowsItsLoad

\* Nothing moves in the page and the loop stays where it was.
Quiet == UNCHANGED <<load, loads, page, view, cache, pending>>

\* A load starts in reading mode with nothing focused.
LEMMA StartLoadScreen ==
  ASSUME TypeOK, ScreenInv, load = "Idle", NEW f \in {None, pending, loads + 1},
         StartLoad(f), mode' = "Reading", focus' = None
  PROVE  ScreenInv'
<1>1. /\ load' = "Active" /\ loads' = loads + 1 /\ page' = page /\ anchors' = anchors
      /\ TopOfLoop(cache, f, scroll)
  BY DEF StartLoad
<1>2. pending' = f
  BY <1>1 DEF TopOfLoop
<1>3. f # None => f = 0 \/ f = loads'
  BY <1>1 DEF ScreenInv, FragmentFollowsItsLoad
<1>4. FragmentFollowsItsLoad'
  BY <1>1, <1>2, <1>3 DEF FragmentFollowsItsLoad
<1>5. JumpsAreOfCurrentPage'
  BY <1>1 DEF ScreenInv, JumpsAreOfCurrentPage
<1> QED
  BY <1>1, <1>4, <1>5 DEF ScreenInv, NothingOpenOverLoad, DrawnPageIsCurrent,
     FocusIsOnDrawnPage, ConfirmedFormIsDrawn

\* A reference is followed, to a load, a jump or an error.
LEMMA FollowReferenceScreen ==
  ASSUME TypeOK, ScreenInv, load = "Idle", NEW u, NEW h,
         FollowReference(u, h), mode' = "Reading", focus' = None
  PROVE  ScreenInv'
<1>1. CASE JumpToAnchor
  <2>1. Quiet
    BY <1>1 DEF JumpToAnchor, Quiet
  <2>2. JumpsAreOfCurrentPage'
    <3>1. CASE anchors' = anchors
      BY <2>1, <3>1 DEF Quiet, ScreenInv, JumpsAreOfCurrentPage
    <3>2. CASE cache # None /\ anchors' = Append(anchors, cache)
      <4>1. cache = page
        BY <3>2 DEF ScreenInv, DrawnPageIsCurrent
      <4>2. anchors \in Seq(Pages) /\ cache \in Pages /\ Len(anchors) \in Nat
        BY <3>2, LenProperties DEF TypeOK
      <4>3. /\ Len(anchors') = Len(anchors) + 1
            /\ \A i \in 1..Len(anchors) : anchors'[i] = anchors[i]
            /\ anchors'[Len(anchors) + 1] = cache
        BY <3>2, <4>2, AppendProperties
      <4> QED
        BY <2>1, <4>1, <4>2, <4>3 DEF Quiet, ScreenInv, JumpsAreOfCurrentPage
    <3> QED
      BY <1>1, <3>1, <3>2 DEF JumpToAnchor
  <2> QED
    BY <2>1, <2>2 DEF Quiet, ScreenInv, NothingOpenOverLoad, DrawnPageIsCurrent,
       FocusIsOnDrawnPage, ConfirmedFormIsDrawn, FragmentFollowsItsLoad
<1>2. CASE ShowAddressError
  <2>1. /\ load' = "Idle" /\ page' = page /\ view' = "Error" /\ anchors' = anchors
        /\ TopOfLoop(None, pending, scroll)
    BY <1>2 DEF ShowAddressError
  <2>2. cache' = None /\ pending' = pending
    BY <2>1 DEF TopOfLoop
  <2>3. JumpsAreOfCurrentPage'
    BY <2>1 DEF ScreenInv, JumpsAreOfCurrentPage
  <2> QED
    BY <2>1, <2>2, <2>3 DEF ScreenInv, NothingOpenOverLoad, DrawnPageIsCurrent,
       FocusIsOnDrawnPage, ConfirmedFormIsDrawn, FragmentFollowsItsLoad
<1>3. CASE StartLoad(IF h THEN loads + 1 ELSE None)
  BY <1>3, StartLoadScreen
<1> QED
  BY <1>1, <1>2, <1>3 DEF FollowReference

\* An iteration that only moves between modes, or touches none of the six.
LEMMA QuietScreen ==
  ASSUME ScreenInv, load = "Idle", Quiet, anchors' = anchors,
         focus' # None => /\ focus' = cache
                          /\ mode' \in {"InteractiveNavigation", "SubmitConfirmation"},
         mode' = "SubmitConfirmation" =>
           confirm' # None /\ confirm' = page /\ confirm' = cache
  PROVE  ScreenInv'
  BY DEF Quiet, ScreenInv, NothingOpenOverLoad, DrawnPageIsCurrent,
     FocusIsOnDrawnPage, ConfirmedFormIsDrawn, JumpsAreOfCurrentPage, FragmentFollowsItsLoad

\* Every iteration of the loop preserves the six.
LEMMA ScreenStep ==
  ASSUME TypeOK, ScreenInv, [Next]_vars
  PROVE  ScreenInv'
<1> USE DEF KeysGoTo, KeysGoToEdit, PointerOnPage, IsClick, Idle
<1>1. ASSUME load = "Idle", Quiet, UNCHANGED <<anchors, mode, focus, confirm>>
      PROVE  ScreenInv'
  BY <1>1, QuietScreen DEF ScreenInv, FocusIsOnDrawnPage, ConfirmedFormIsDrawn
<1>2. ASSUME NEW from, NEW to \in {"Reading", "Command", "History", "Cookies", "Settings"},
             from \in Modes \ {"InteractiveNavigation", "SubmitConfirmation"},
             SwitchMode(from, to)
      PROVE  ScreenInv'
  <2>1. load = "Idle" /\ Quiet /\ anchors' = anchors /\ focus' = focus /\ mode = from
    BY <1>2 DEF SwitchMode, Quiet, core
  <2>2. focus = None
    BY <1>2, <2>1 DEF ScreenInv, FocusIsOnDrawnPage
  <2>3. mode' = to
    BY <1>2 DEF SwitchMode
  <2> QED
    BY <1>2, <2>1, <2>2, <2>3, QuietScreen
<1>3. CASE EnterCommand \/ LeaveCommand \/ OpenPanel \/ ClosePanel
  BY <1>2, <1>3 DEF EnterCommand, LeaveCommand, OpenPanel, ClosePanel, Modes, Panels
<1>4. CASE ScrollPage
  BY <1>1, <1>4 DEF ScrollPage, Quiet, core
<1>5. CASE SubmitAddress
  <2>1. PICK u, h : FollowReference(u, h)
    BY <1>5 DEF SubmitAddress
  <2>2. load = "Idle" /\ mode \in {"Command", "History"} /\ mode' = "Reading" /\ focus' = focus
    BY <1>5 DEF SubmitAddress
  <2>3. focus = None
    BY <2>2 DEF ScreenInv, FocusIsOnDrawnPage
  <2> QED
    BY <2>1, <2>2, <2>3, FollowReferenceScreen
<1>6. CASE Search \/ Reload
  <2>1. /\ load = "Idle" /\ mode \in {"Command", "Reading"} /\ mode' = "Reading"
        /\ focus' = focus /\ StartLoad(pending)
    BY <1>6 DEF Search, Reload
  <2>2. focus = None
    BY <2>1 DEF ScreenInv, FocusIsOnDrawnPage
  <2> QED
    BY <2>1, <2>2, StartLoadScreen
<1>7. CASE NavigateBack
  <2>0. /\ load = "Idle" /\ load' = load /\ loads' = loads /\ confirm' = confirm
        /\ mode \in {"Reading", "InteractiveNavigation", "Command"}
    BY <1>7 DEF NavigateBack
  <2>1. CASE UndoJump
    <3>1. /\ UNCHANGED <<page, view, cache, pending, focus>>
          /\ mode' = (IF mode = "Command" THEN "Reading" ELSE mode)
          /\ anchors # <<>> /\ anchors' = Front(anchors)
      BY <2>1 DEF UndoJump
    <3>2. /\ Len(anchors) \in Nat \ {0}
          /\ Len(Front(anchors)) = Len(anchors) - 1
          /\ \A i \in 1..(Len(anchors) - 1) : Front(anchors)[i] = anchors[i]
      BY <3>1, PopFacts DEF TypeOK
    <3>3. JumpsAreOfCurrentPage'
      BY <3>1, <3>2 DEF ScreenInv, JumpsAreOfCurrentPage
    <3> QED
      BY <2>0, <3>1, <3>3 DEF ScreenInv, NothingOpenOverLoad, DrawnPageIsCurrent,
         FocusIsOnDrawnPage, ConfirmedFormIsDrawn, FragmentFollowsItsLoad
  <2>2. CASE LeavePage
    <3>1. /\ back # <<>> /\ page' = Last(back) /\ anchors = <<>> /\ anchors' = anchors
          /\ view' = "Page" /\ mode' = "Reading" /\ focus' = None
          /\ TopOfLoop(None, pending, None)
      BY <2>2 DEF LeavePage, GoBack
    <3>2. page' \in Pages
      BY <3>1, PopFacts DEF TypeOK
    <3>3. page' # None
      BY <3>2, NoneAssumption, BoundsAssumption DEF Pages
    <3>4. cache' = page' /\ pending' = None
      BY <2>0, <3>1, <3>3 DEF TopOfLoop
    <3>5. JumpsAreOfCurrentPage'
      BY <3>1 DEF JumpsAreOfCurrentPage
    <3> QED
      BY <2>0, <3>1, <3>3, <3>4, <3>5 DEF ScreenInv, NothingOpenOverLoad,
         DrawnPageIsCurrent, FocusIsOnDrawnPage, ConfirmedFormIsDrawn, FragmentFollowsItsLoad
  <2> QED
    BY <1>7, <2>1, <2>2 DEF NavigateBack
<1>8. CASE FocusTarget
  BY <1>8, QuietScreen DEF FocusTarget, Quiet, core
<1>9. CASE LeaveFocus
  BY <1>9, QuietScreen DEF LeaveFocus, Quiet, core
<1>10. CASE ActivateLink \/ ClickLink
  <2>1. PICK u, h : FollowReference(u, h) /\ mode' = "Reading" /\ focus' = None
    BY <1>10 DEF ActivateLink, ClickLink, StartLinkLoad
  <2>2. load = "Idle"
    BY <1>10 DEF ActivateLink, ClickLink
  <2> QED
    BY <2>1, <2>2, FollowReferenceScreen
<1>11. CASE OpenFieldEdit
  BY <1>1, <1>11 DEF OpenFieldEdit, Quiet, core
<1>12. CASE SubmitGet \/ ConfirmSubmit
  BY <1>12, StartLoadScreen DEF SubmitGet, ConfirmSubmit
<1>13. CASE AskConfirmation
  <2>1. cache = page /\ cache # None
    BY <1>13 DEF AskConfirmation, ScreenInv, DrawnPageIsCurrent
  <2>2. focus # None => focus = cache
    BY DEF ScreenInv, FocusIsOnDrawnPage
  <2> QED
    BY <1>13, <2>1, <2>2, QuietScreen DEF AskConfirmation, Quiet, core
<1>14. CASE DeclineSubmit
  <2>1. focus # None => focus = cache
    BY DEF ScreenInv, FocusIsOnDrawnPage
  <2> QED
    BY <1>14, <2>1, QuietScreen DEF DeclineSubmit, Quiet, core
<1>15. CASE EditAction
  BY <1>1, <1>15 DEF EditAction, CommitFieldText, ToggleOption, CloseFieldEdit, Quiet, core
<1>16. CASE MouseDown \/ MouseDrag \/ ClickText
  BY <1>1, <1>16 DEF MouseDown, MouseDrag, ClickText, Quiet, core
<1>17. CASE LoadSucceeds
  <2>1. /\ load = "Active" /\ load' = "Idle" /\ page' = loads /\ view' = "Page"
        /\ anchors' = <<>> /\ mode' = mode /\ focus' = focus /\ confirm' = confirm
        /\ TopOfLoop(None, pending, None)
    BY <1>17 DEF LoadSucceeds, JoinLoad
  <2>2. page' # None
    BY <2>1, NoneAssumption, BoundsAssumption DEF TypeOK, Pages
  <2>3. cache' = page' /\ pending' = None
    BY <2>1, <2>2 DEF TopOfLoop
  <2>4. JumpsAreOfCurrentPage'
    BY <2>1 DEF JumpsAreOfCurrentPage
  <2>5. mode = "Reading" /\ focus = None
    BY <2>1 DEF ScreenInv, NothingOpenOverLoad
  <2> QED
    BY <2>1, <2>2, <2>3, <2>4, <2>5 DEF ScreenInv, NothingOpenOverLoad,
       DrawnPageIsCurrent, FocusIsOnDrawnPage, ConfirmedFormIsDrawn, FragmentFollowsItsLoad
<1>18. CASE LoadFails
  <2>1. /\ load = "Active" /\ load' = "Idle" /\ view' = "Error"
        /\ anchors' = <<>> /\ mode' = mode /\ focus' = focus /\ confirm' = confirm
        /\ TopOfLoop(None, None, None)
    BY <1>18 DEF LoadFails, JoinLoad
  <2>2. cache' = None /\ pending' = None
    BY <2>1 DEF TopOfLoop
  <2>3. JumpsAreOfCurrentPage'
    BY <2>1 DEF JumpsAreOfCurrentPage
  <2>4. mode = "Reading" /\ focus = None
    BY <2>1 DEF ScreenInv, NothingOpenOverLoad
  <2> QED
    BY <2>1, <2>2, <2>3, <2>4 DEF ScreenInv, NothingOpenOverLoad,
       DrawnPageIsCurrent, FocusIsOnDrawnPage, ConfirmedFormIsDrawn, FragmentFollowsItsLoad
<1>19. ASSUME Quiet, UNCHANGED <<anchors, mode, focus, confirm>>
       PROVE  ScreenInv'
  BY <1>19 DEF Quiet, ScreenInv, NothingOpenOverLoad, DrawnPageIsCurrent,
     FocusIsOnDrawnPage, ConfirmedFormIsDrawn, JumpsAreOfCurrentPage, FragmentFollowsItsLoad
<1>20. CASE Quit \/ UNCHANGED vars
  BY <1>19, <1>20 DEF Quit, Quiet, core, vars
<1> QED
  BY <1>3, <1>4, <1>5, <1>6, <1>7, <1>8, <1>9, <1>10, <1>11, <1>12, <1>13, <1>14,
     <1>15, <1>16, <1>17, <1>18, <1>20
  DEF Next, BarAction, TargetAction, MouseAction, LoadEnds

\* The six hold in every state of every session.
LEMMA ScreenCorrect == Spec => []ScreenInv
<1>1. TypeOK /\ ScreenInv /\ [Next]_vars => ScreenInv'
  BY ScreenStep
<1> QED
  BY <1>1, ScreenInit, TypeCorrect, PTL DEF Spec

\* While a load holds the controller, the draw alone asks the placeholder that
\* start_load puts in its place for anything: no panel with a timer is open, nor a list,
\* a confirmation or a target for the keys that follow the join.
THEOREM PlaceholderSafe == Spec => []PlaceholderIsOnlyDrawn
<1>1. NothingOpenOverLoad => PlaceholderIsOnlyDrawn
  BY DEF NothingOpenOverLoad, PlaceholderIsOnlyDrawn, DrawAsksFor, TickAsksFor
<1> QED
  BY <1>1, ScreenCorrect, PTL DEF ScreenInv

\* refresh_page_cache never leaves the buffer of another page on an idle screen.
THEOREM DrawnPageCorrect == Spec => []DrawnPageIsCurrent
  BY ScreenCorrect, PTL DEF ScreenInv

\* Enter activates a target of the page that is drawn.
THEOREM FocusCorrect == Spec => []FocusIsOnDrawnPage
  BY ScreenCorrect, PTL DEF ScreenInv

\* The POST confirmation stays with the page it was opened on.
THEOREM ConfirmationCorrect == Spec => []ConfirmedFormIsDrawn
  BY ScreenCorrect, PTL DEF ScreenInv

\* Every offset on the anchor return stack was taken in the current page.
THEOREM JumpsCorrect == Spec => []JumpsAreOfCurrentPage
  BY ScreenCorrect, PTL DEF ScreenInv

\* A fragment waits for the load in flight, or is the start address's.
THEOREM FragmentCorrect == Spec => []FragmentFollowsItsLoad
  BY ScreenCorrect, PTL DEF ScreenInv

-----------------------------------------------------------------------------
(***************************************************************************)
(* The session history.  A new page is newer than the whole trail because  *)
(* pages are numbered by their loads and only one load is in flight.       *)
(***************************************************************************)
\* Every page came from a load that has ended.
PagesWereLoaded ==
  page # None => page <= loads /\ (load = "Active" => page < loads)

\* The order of the stack, with where its pages came from: inductive together.
TrailInv == BackWalksIntoThePast /\ PagesWereLoaded

\* The session starts with nothing to go back to.
LEMMA TrailInit == Init => TrailInv
<1> SUFFICES ASSUME Init PROVE TrailInv
  OBVIOUS
<1>1. back = <<>> /\ Len(back) = 0 /\ page \in {0, None} /\ loads = 0 /\ load = "Idle"
  BY EmptySeq DEF Init
<1> QED
  BY <1>1, DepthAssumption DEF TrailInv, BackWalksIntoThePast, PagesWereLoaded

\* What a step does to the page and the stack: nothing, a successful load, or Back.
LEMMA TrailMoves ==
  ASSUME [Next]_vars
  PROVE  \/ LoadSucceeds
         \/ load = "Idle" /\ loads' = loads /\ load' = load /\ GoBack
         \/ /\ UNCHANGED <<page, back>>
            /\ \/ load' = "Idle" /\ loads' = loads
               \/ load' = load /\ loads' = loads
               \/ load' = "Active" /\ loads' = loads + 1
<1> DEFINE Kept == /\ UNCHANGED <<page, back>>
                   /\ \/ load' = "Idle" /\ loads' = loads
                      \/ load' = load /\ loads' = loads
                      \/ load' = "Active" /\ loads' = loads + 1
<1> USE DEF core, SwitchMode, StartLoad
<1>1. CASE EnterCommand \/ LeaveCommand \/ OpenPanel \/ ClosePanel \/ ScrollPage
  BY <1>1 DEF EnterCommand, LeaveCommand, OpenPanel, ClosePanel, ScrollPage
<1>2. ASSUME NEW u, NEW h, FollowReference(u, h), back' = back PROVE Kept
  BY <1>2 DEF FollowReference, JumpToAnchor, ShowAddressError
<1>3. CASE SubmitAddress \/ ActivateLink \/ ClickLink
  BY <1>2, <1>3 DEF SubmitAddress, ActivateLink, ClickLink, StartLinkLoad
<1>4. CASE Search \/ Reload \/ SubmitGet \/ ConfirmSubmit
  BY <1>4 DEF Search, Reload, SubmitGet, ConfirmSubmit
<1>5. CASE NavigateBack
  BY <1>5 DEF NavigateBack, UndoJump, LeavePage, KeysGoTo, Idle
<1>6. CASE FocusTarget \/ LeaveFocus \/ OpenFieldEdit \/ AskConfirmation \/ DeclineSubmit
  BY <1>6 DEF FocusTarget, LeaveFocus, OpenFieldEdit, AskConfirmation, DeclineSubmit
<1>7. CASE EditAction
  BY <1>7 DEF EditAction, CommitFieldText, ToggleOption, CloseFieldEdit
<1>8. CASE MouseDown \/ MouseDrag \/ ClickText
  BY <1>8 DEF MouseDown, MouseDrag, ClickText
<1>9. CASE LoadFails
  BY <1>9 DEF LoadFails, JoinLoad
<1>10. CASE Quit \/ UNCHANGED vars
  BY <1>10 DEF Quit, vars
<1> QED
  BY <1>1, <1>3, <1>4, <1>5, <1>6, <1>7, <1>8, <1>9, <1>10
  DEF Next, BarAction, TargetAction, MouseAction, LoadEnds

\* The page under the current one is older than it, and newer than the rest.
LEMMA GoBackTrail ==
  ASSUME TypeOK, TrailInv, load = "Idle", loads' = loads, load' = load, GoBack
  PROVE  TrailInv'
<1>1. back # <<>> /\ page' = Last(back) /\ back' = Front(back)
  BY DEF GoBack
<1>2. /\ Len(back) \in Nat \ {0}
      /\ Last(back) \in Pages
      /\ Len(back') = Len(back) - 1
      /\ \A i \in 1..(Len(back) - 1) : back'[i] = back[i]
      /\ page' = back[Len(back)]
  BY <1>1, PopFacts DEF TypeOK, Last
<1>3. page \in Pages /\ page # None /\ page <= loads /\ page' < page
  BY <1>2 DEF TrailInv, BackWalksIntoThePast, PagesWereLoaded, TypeOK
<1>4. page' # None
  BY <1>1, <1>2, NoneAssumption, BoundsAssumption DEF Pages
<1>5. \A i \in 1..Len(back) : back[i] \in Nat
  BY ElementOfSeq, BoundsAssumption DEF TypeOK, Pages
<1>6. MaxHistoryDepth \in Nat /\ loads \in Nat /\ page \in Nat /\ page' \in Nat
  BY <1>2, <1>3, DepthAssumption, BoundsAssumption DEF TypeOK, Pages
<1>7. BackWalksIntoThePast'
  <2>1. Len(back') <= MaxHistoryDepth
    BY <1>2, <1>6 DEF TrailInv, BackWalksIntoThePast
  <2>2. ASSUME NEW i \in 1..Len(back'), NEW j \in 1..Len(back'), i < j
        PROVE  back'[i] < back'[j]
    BY <1>2, <2>2 DEF TrailInv, BackWalksIntoThePast
  <2>3. ASSUME NEW i \in 1..Len(back') PROVE back'[i] < page'
    BY <1>2 DEF TrailInv, BackWalksIntoThePast
  <2> QED
    BY <1>4, <2>1, <2>2, <2>3 DEF BackWalksIntoThePast
<1>8. PagesWereLoaded'
  BY <1>3, <1>6 DEF PagesWereLoaded
<1> QED
  BY <1>7, <1>8 DEF TrailInv

\* The loaded page is newer than the one it replaces, which is newer than the trail.
LEMMA LoadTrail ==
  ASSUME TypeOK, TrailInv, LoadSucceeds
  PROVE  TrailInv'
<1>1. page' = loads /\ loads' = loads /\ load = "Active" /\ load' = "Idle" /\ back' = PushPage
  BY DEF LoadSucceeds, JoinLoad
<1>2. loads \in Nat /\ loads # None /\ MaxHistoryDepth \in Nat /\ Len(back) \in Nat
  BY NoneAssumption, BoundsAssumption, DepthAssumption, LenProperties DEF TypeOK, Pages
<1>3. PagesWereLoaded'
  BY <1>1, <1>2 DEF PagesWereLoaded
<1>4. CASE page = None
  <2>1. back' = back
    BY <1>1, <1>4 DEF PushPage
  <2>2. \A i \in 1..Len(back) : FALSE
    BY <1>4 DEF TrailInv, BackWalksIntoThePast
  <2> QED
    BY <1>3, <2>1, <2>2 DEF TrailInv, BackWalksIntoThePast
<1>5. CASE page # None
  <2>1. PICK k \in 0..Len(back) :
          /\ Len(back') = Len(back) - k + 1
          /\ Len(back') <= MaxHistoryDepth
          /\ \A i \in 1..(Len(back) - k) : back'[i] = back[i + k]
          /\ back'[Len(back) - k + 1] = page
    BY <1>1, <1>5, PushFacts DEF TrailInv, BackWalksIntoThePast
  <2>2. page < loads /\ page \in Nat
    BY <1>1, <1>5, BoundsAssumption DEF TrailInv, PagesWereLoaded, TypeOK, Pages
  <2>3. \A i \in 1..Len(back) : back[i] \in Nat
    BY ElementOfSeq, BoundsAssumption DEF TypeOK, Pages
  <2>4. ASSUME NEW i \in 1..Len(back'), NEW j \in 1..Len(back'), i < j
        PROVE  back'[i] < back'[j]
    <3>1. i + k \in 1..Len(back) /\ back'[i] = back[i + k]
      BY <1>2, <2>1, <2>4
    <3>2. CASE j = Len(back) - k + 1
      BY <2>1, <3>1, <3>2 DEF TrailInv, BackWalksIntoThePast
    <3>3. CASE j # Len(back) - k + 1
      <4>1. j + k \in 1..Len(back) /\ i + k < j + k /\ back'[j] = back[j + k]
        BY <1>2, <2>1, <2>4, <3>3
      <4> QED
        BY <3>1, <4>1 DEF TrailInv, BackWalksIntoThePast
    <3> QED
      BY <3>2, <3>3
  <2>5. ASSUME NEW i \in 1..Len(back') PROVE back'[i] < page'
    <3>1. CASE i = Len(back) - k + 1
      BY <1>1, <2>1, <2>2, <3>1
    <3>2. CASE i # Len(back) - k + 1
      <4>1. i \in 1..(Len(back) - k) /\ i + k \in 1..Len(back)
        BY <1>2, <2>1, <3>2
      <4>2. back[i + k] < page
        BY <4>1 DEF TrailInv, BackWalksIntoThePast
      <4> QED
        BY <1>1, <1>2, <2>1, <2>2, <2>3, <4>1, <4>2
    <3> QED
      BY <3>1, <3>2
  <2> QED
    BY <1>1, <1>2, <1>3, <2>1, <2>4, <2>5 DEF TrailInv, BackWalksIntoThePast
<1> QED
  BY <1>4, <1>5

\* Every iteration of the loop keeps the trail in order and its pages older than the load.
LEMMA TrailStep ==
  ASSUME TypeOK, TrailInv, [Next]_vars
  PROVE  TrailInv'
<1>1. ASSUME UNCHANGED <<page, back>>,
             \/ load' = "Idle" /\ loads' = loads
             \/ load' = load /\ loads' = loads
             \/ load' = "Active" /\ loads' = loads + 1
      PROVE  TrailInv'
  <2>1. BackWalksIntoThePast'
    BY <1>1 DEF TrailInv, BackWalksIntoThePast
  <2>2. loads \in Nat /\ (page # None => page \in Nat)
    BY BoundsAssumption DEF TypeOK, Pages
  <2>3. PagesWereLoaded'
    BY <1>1, <2>2 DEF TrailInv, PagesWereLoaded
  <2> QED
    BY <2>1, <2>3 DEF TrailInv
<1> QED
  BY <1>1, TrailMoves, GoBackTrail, LoadTrail

\* The trail is in order in every state of every session.
LEMMA TrailCorrect == Spec => []TrailInv
<1>1. TypeOK /\ TrailInv /\ [Next]_vars => TrailInv'
  BY TrailStep
<1> QED
  BY <1>1, TrailInit, TypeCorrect, PTL DEF Spec

\* Back only ever goes to older pages, each once, and the stack keeps to its limit.
THEOREM BackCorrect == Spec => []BackWalksIntoThePast
  BY TrailCorrect, PTL DEF TrailInv

\* The loop implements the session history: a successful load is a visit, leaving a page
\* is a return, and no other iteration touches the page or the trail.
THEOREM SessionHistoryImplemented == Spec => ImplementsSessionHistory
<1>1. Init => History!Init
  BY DEF Init, History!Init
<1>2. ASSUME TypeOK, TrailInv, LoadSucceeds PROVE History!Visit
  <2>1. page' = loads /\ load = "Active" /\ back' = PushPage /\ loads \in Pages
    BY <1>2 DEF LoadSucceeds, JoinLoad, TypeOK
  <2>2. \A i \in 1..Len(back) : back[i] \in Nat
    BY <1>2, ElementOfSeq, BoundsAssumption DEF TypeOK, Pages
  <2>3. page # None => page < loads /\ page \in Nat
    BY <1>2, <2>1, BoundsAssumption DEF TrailInv, PagesWereLoaded, TypeOK, Pages
  <2>4. History!NewerThanTheTrail(loads)
    <3>1. \A i \in 1..Len(back) : back[i] < loads
      BY <1>2, <2>1, <2>2, <2>3, BoundsAssumption
      DEF TrailInv, BackWalksIntoThePast, Pages
    <3> QED
      BY <2>3, <3>1 DEF History!NewerThanTheTrail
  <2>5. CASE page = None
    BY <2>1, <2>4, <2>5 DEF History!Visit, PushPage
  <2>6. CASE page # None
    <3>1. PICK k \in 0..Len(back) :
            /\ k > 0 => Len(back) >= MaxHistoryDepth
            /\ back' = Append(SubSeq(back, k + 1, Len(back)), page)
            /\ Len(back') <= MaxHistoryDepth
      BY <1>2, <2>1, <2>6, PushFacts DEF TrailInv, BackWalksIntoThePast
    <3> QED
      BY <2>1, <2>4, <2>6, <3>1 DEF History!Visit, History!Forget
  <2> QED
    BY <2>5, <2>6
<1>3. ASSUME GoBack PROVE History!Return
  BY <1>3 DEF GoBack, History!Return, Last, Front
<1>4. TypeOK /\ TrailInv /\ [Next]_vars => [History!Next]_<<page, back>>
  BY <1>2, <1>3, TrailMoves DEF History!Next
<1> QED
  BY <1>1, <1>4, TypeCorrect, TrailCorrect, PTL
  DEF Spec, ImplementsSessionHistory, History!Spec

-----------------------------------------------------------------------------
(***************************************************************************)
(* The safety half of the load task's contract: whatever the loop does, it *)
(* is a start, the end of a load, Back, or nothing the contract can see.   *)
(***************************************************************************)

\* A load is started by a running, idle loop, which waits for it; a loop that was left
\* does not run again.
LEMMA LoadsStartFromIdle ==
  ASSUME [Next]_vars
  PROVE  /\ running' = running \/ running' = FALSE
         /\ loads' # loads => Idle /\ running' = running /\ load' = "Active"
<1> DEFINE Goal == /\ running' = running \/ running' = FALSE
                   /\ loads' # loads => Idle /\ running' = running /\ load' = "Active"
<1> USE DEF core, SwitchMode, StartLoad
<1>1. CASE EnterCommand \/ LeaveCommand \/ OpenPanel \/ ClosePanel \/ ScrollPage
  BY <1>1 DEF EnterCommand, LeaveCommand, OpenPanel, ClosePanel, ScrollPage
<1>2. ASSUME NEW u, NEW h, FollowReference(u, h), Idle, running' = running PROVE Goal
  BY <1>2 DEF FollowReference, JumpToAnchor, ShowAddressError
<1>3. CASE SubmitAddress \/ ActivateLink \/ ClickLink
  BY <1>2, <1>3 DEF SubmitAddress, ActivateLink, ClickLink, StartLinkLoad, KeysGoTo, IsClick,
                    PointerOnPage
<1>4. CASE Search \/ Reload \/ SubmitGet \/ ConfirmSubmit
  BY <1>4 DEF Search, Reload, SubmitGet, ConfirmSubmit, KeysGoTo
<1>5. CASE NavigateBack
  BY <1>5 DEF NavigateBack
<1>6. CASE FocusTarget \/ LeaveFocus \/ OpenFieldEdit \/ AskConfirmation \/ DeclineSubmit
  BY <1>6 DEF FocusTarget, LeaveFocus, OpenFieldEdit, AskConfirmation, DeclineSubmit
<1>7. CASE EditAction
  BY <1>7 DEF EditAction, CommitFieldText, ToggleOption, CloseFieldEdit
<1>8. CASE MouseDown \/ MouseDrag \/ ClickText
  BY <1>8 DEF MouseDown, MouseDrag, ClickText
<1>9. CASE LoadEnds
  BY <1>9 DEF LoadEnds, LoadSucceeds, LoadFails
<1>10. CASE Quit \/ UNCHANGED vars
  BY <1>10 DEF Quit, vars
<1> QED
  BY <1>1, <1>3, <1>4, <1>5, <1>6, <1>7, <1>8, <1>9, <1>10
  DEF Next, BarAction, TargetAction, MouseAction

\* The page under the current one came from a load that was started.
LEMMA BackFindsALoadedPage ==
  ASSUME TypeOK, TrailInv, GoBack
  PROVE  page' \in 0..loads
<1>1. back \in Seq(Pages) /\ back # <<>> /\ page' = back[Len(back)]
  BY DEF GoBack, TypeOK, Last
<1>2. Len(back) \in 1..Len(back)
  BY <1>1, EmptySeq, LenProperties
<1>3. page # None /\ back[Len(back)] < page
  BY <1>2 DEF TrailInv, BackWalksIntoThePast
<1>4. back[Len(back)] \in Nat
  BY <1>1, <1>2, ElementOfSeq, BoundsAssumption DEF Pages
<1>5. page \in Nat /\ loads \in Nat
  BY <1>3, BoundsAssumption DEF TypeOK, Pages
<1>6. page <= loads
  BY <1>3, <1>5 DEF TrailInv, PagesWereLoaded
<1> QED
  BY <1>1, <1>3, <1>4, <1>5, <1>6

\* The loop keeps the contract between the terminal and the core's load task: a load
\* starts when none is under way, and only its success and Back change the page that the
\* controller holds.  (That each load ends is left to the model checker.)
THEOREM LoadTaskImplemented == Spec => Task!Safety
<1>1. Init => Task!Init
  BY DEF Init, Task!Init
<1>2. ASSUME TypeOK, TrailInv, [Next]_vars
      PROVE  [Task!Next]_<<running /\ load = "Active", loads, page>>
  <2> DEFINE active == running /\ load = "Active"
  <2>1. running \in BOOLEAN /\ load \in {"Idle", "Active"}
    BY <1>2 DEF TypeOK
  <2>2. CASE LoadSucceeds
    <3>1. active /\ ~active' /\ loads' = loads /\ page' = loads
      BY <2>2 DEF LoadSucceeds, JoinLoad
    <3> QED
      BY <3>1 DEF Task!Next, Task!Succeed
  <2>3. CASE load = "Idle" /\ loads' = loads /\ load' = load /\ GoBack
    <3>1. ~active /\ ~active' /\ page' \in 0..loads
      BY <1>2, <2>3, BackFindsALoadedPage
    <3> QED
      BY <2>3, <3>1 DEF Task!Next, Task!Return
  <2>4. CASE UNCHANGED page /\ loads' # loads
    <3>1. ~active /\ active' /\ loads' = loads + 1
      <4>1. Idle /\ running' = running /\ load' = "Active"
        BY <1>2, <2>4, LoadsStartFromIdle
      <4>2. LoadSucceeds => loads' = loads
        BY DEF LoadSucceeds
      <4>3. loads' = loads + 1
        BY <1>2, <2>4, <4>2, TrailMoves, Zenon
      <4> QED
        BY <4>1, <4>3 DEF Idle
    <3> QED
      BY <2>4, <3>1 DEF Task!Next, Task!Start
  <2>5. CASE UNCHANGED page /\ loads' = loads
    <3>1. active' => active
      <4>1. loads \in Nat
        BY <1>2, BoundsAssumption DEF TypeOK, Pages
      <4>2. load' = "Idle" \/ load' = load
        BY <1>2, <2>5, <4>1, TrailMoves DEF LoadSucceeds, JoinLoad
      <4> QED
        BY <1>2, <2>1, <4>2, LoadsStartFromIdle
    <3>2. CASE active <=> active'
      BY <2>5, <3>2
    <3>3. CASE active /\ ~active'
      BY <2>5, <3>3 DEF Task!Next, Task!Fail
    <3> QED
      BY <3>1, <3>2, <3>3
  <2> QED
    BY <1>2, <2>2, <2>3, <2>4, <2>5, TrailMoves
<1> QED
  BY <1>1, <1>2, TypeCorrect, TrailCorrect, PTL DEF Spec, Task!Safety

-----------------------------------------------------------------------------
(***************************************************************************)
(* Field drafts.  Without a mouse an open field edit takes every key, so   *)
(* the page cannot change under it: all it reaches is its own page.  (With *)
(* one, a click on a link starts a load under an open edit.)               *)
(***************************************************************************)
EditIsOfCurrentPage ==
  edit # None =>
    /\ load = "Idle"
    /\ mode \in {"Reading", "InteractiveNavigation"}
    /\ page # None /\ edit.page = page

\* What a session without a pointer maintains of drafts.
DraftInv == EditIsOfCurrentPage /\ DraftsStayOnTheirPage

\* Without a pointer, no iteration writes a draft into a page it was not typed on.
LEMMA DraftStep ==
  ASSUME Pointer = FALSE, TypeOK, ScreenInv, DraftInv, [Next]_vars
  PROVE  DraftInv'
<1> USE DEF KeysGoTo, KeysGoToEdit, Idle, core
<1>1. ASSUME edit = None, edit' = None, typed' = typed PROVE DraftInv'
  BY <1>1 DEF DraftInv, EditIsOfCurrentPage, DraftsStayOnTheirPage
<1>2. ASSUME edit' = edit \/ edit' = None, typed' = typed, page' = page, load' = load,
             mode' = mode \/ mode' \in {"Reading", "InteractiveNavigation"}
      PROVE  DraftInv'
  BY <1>2 DEF DraftInv, EditIsOfCurrentPage, DraftsStayOnTheirPage
<1>3. CASE EnterCommand \/ LeaveCommand \/ OpenPanel \/ ClosePanel
  <2>1. /\ mode \notin {"InteractiveNavigation", "SubmitConfirmation"}
        /\ mode = "Reading" => edit = None
        /\ edit' = edit /\ typed' = typed
    BY <1>3 DEF EnterCommand, LeaveCommand, OpenPanel, ClosePanel, SwitchMode, Panels
  <2>2. edit = None
    BY <2>1 DEF DraftInv, EditIsOfCurrentPage
  <2> QED
    BY <1>1, <2>1, <2>2
<1>4. CASE SubmitAddress \/ Search \/ Reload \/ ActivateLink \/ SubmitGet
  <2>1. /\ mode \in {"Command", "History", "Reading", "InteractiveNavigation"}
        /\ mode \in {"Reading", "InteractiveNavigation"} => edit = None
        /\ edit' = edit /\ typed' = typed
    BY <1>4 DEF SubmitAddress, Search, Reload, ActivateLink, SubmitGet
  <2>2. edit = None
    BY <2>1 DEF DraftInv, EditIsOfCurrentPage
  <2> QED
    BY <1>1, <2>1, <2>2
<1>5. CASE NavigateBack \/ FocusTarget \/ ScrollPage
  <2>1. /\ mode \in {"Reading", "InteractiveNavigation", "Command"}
        /\ mode \in {"Reading", "InteractiveNavigation"} => edit = None
        /\ edit' = edit /\ typed' = typed
    BY <1>5 DEF NavigateBack, FocusTarget, ScrollPage
  <2>2. edit = None
    BY <2>1 DEF DraftInv, EditIsOfCurrentPage
  <2> QED
    BY <1>1, <2>1, <2>2
<1>6. CASE LeaveFocus
  BY <1>2, <1>6 DEF LeaveFocus
<1>7. CASE AskConfirmation \/ DeclineSubmit \/ ConfirmSubmit
  <2>1. /\ mode \in {"InteractiveNavigation", "SubmitConfirmation"}
        /\ mode = "InteractiveNavigation" => edit = None
        /\ edit' = edit /\ typed' = typed
    BY <1>7 DEF AskConfirmation, DeclineSubmit, ConfirmSubmit
  <2>2. edit = None
    BY <2>1 DEF DraftInv, EditIsOfCurrentPage
  <2> QED
    BY <1>1, <2>1, <2>2
<1>8. CASE OpenFieldEdit
  <2>1. cache # None /\ cache = page
    BY <1>8 DEF OpenFieldEdit, ScreenInv, DrawnPageIsCurrent
  <2>2. /\ edit'.page = cache /\ page' = page /\ load' = "Idle" /\ typed' = typed
        /\ mode' = "InteractiveNavigation"
    BY <1>8 DEF OpenFieldEdit
  <2> QED
    BY <2>1, <2>2 DEF DraftInv, EditIsOfCurrentPage, DraftsStayOnTheirPage
<1>9. ASSUME KeysGoToEdit, WriteField, page' = page, load' = load, mode' = mode,
             edit' \in {edit, None}
      PROVE  DraftInv'
  <2>1. page # None /\ edit.page = page
    BY <1>9 DEF DraftInv, EditIsOfCurrentPage
  <2>2. typed' = [typed EXCEPT ![page] = @ \cup {page}]
    BY <1>9, <2>1 DEF WriteField
  <2>3. page \in Pages /\ typed \in [Pages -> SUBSET Pages]
    BY <2>1 DEF TypeOK
  <2>4. DraftsStayOnTheirPage'
    BY <2>2, <2>3 DEF DraftInv, DraftsStayOnTheirPage
  <2>5. EditIsOfCurrentPage'
    BY <1>9 DEF DraftInv, EditIsOfCurrentPage
  <2> QED
    BY <2>4, <2>5 DEF DraftInv
<1>10. CASE EditAction
  <2>1. CASE CommitFieldText \/ ToggleOption
    BY <1>9, <2>1 DEF CommitFieldText, ToggleOption
  <2>2. CASE CloseFieldEdit
    BY <1>2, <2>2 DEF CloseFieldEdit
  <2> QED
    BY <1>10, <2>1, <2>2 DEF EditAction
<1>11. CASE MouseAction
  BY <1>11 DEF MouseAction, MouseDown, MouseDrag, ClickText, ClickLink, IsClick, PointerOnPage
<1>12. CASE LoadEnds
  <2>1. load = "Active" /\ edit' = edit /\ typed' = typed
    BY <1>12 DEF LoadEnds, LoadSucceeds, LoadFails, JoinLoad
  <2>2. edit = None
    BY <2>1 DEF DraftInv, EditIsOfCurrentPage
  <2> QED
    BY <1>1, <2>1, <2>2
<1>13. CASE Quit \/ UNCHANGED vars
  BY <1>2, <1>13 DEF Quit, vars
<1> QED
  BY <1>3, <1>4, <1>5, <1>6, <1>7, <1>8, <1>10, <1>11, <1>12, <1>13
  DEF Next, BarAction, TargetAction

\* Driven from the keyboard alone, set_field_text and toggle_multi_select_option are
\* only ever given ids of the page that is current.
THEOREM KeyboardDraftsCorrect ==
  ASSUME Pointer = FALSE
  PROVE  Spec => []DraftsStayOnTheirPage
<1>1. Init => DraftInv
  BY DEF Init, DraftInv, EditIsOfCurrentPage, DraftsStayOnTheirPage
<1>2. TypeOK /\ ScreenInv /\ DraftInv /\ [Next]_vars => DraftInv'
  BY DraftStep
<1>3. DraftInv => DraftsStayOnTheirPage
  BY DEF DraftInv
<1> QED
  BY <1>1, <1>2, <1>3, TypeCorrect, ScreenCorrect, PTL DEF Spec

=============================================================================
