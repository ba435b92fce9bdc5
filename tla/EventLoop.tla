------------------------------ MODULE EventLoop ------------------------------
(***************************************************************************)
(* The terminal event loop of Puma Browser (browser-terminal, `drive`) and *)
(* the part of the navigation core it moves in and out of the load task.   *)
(*                                                                         *)
(* The loop owns one NavigationController.  Starting a load moves it into  *)
(* a background task and leaves an empty placeholder behind; the loop gets *)
(* it back when the task is joined.  Around that, the loop keeps a good    *)
(* deal of state that talks about "the page": the cached cell buffer, the  *)
(* scroll offset, anchor jumps to undo, a fragment waiting for a page, a   *)
(* mouse selection, the focused target, a form-field draft and a pending   *)
(* submission.  The module models when each of these is set, kept and      *)
(* dropped, so that one can ask whether it still means the page it was     *)
(* made for.                                                               *)
(*                                                                         *)
(* One action is one iteration of the loop, from the event to the point    *)
(* where the loop waits again; TopOfLoop is the part every iteration ends  *)
(* with.  A page is named by the load that produced it (0 is the page      *)
(* loaded before the loop starts), so two loads of one address are two     *)
(* pages.  An offset or a NodeId is abstracted to the page whose buffer or *)
(* document it was taken from.                                             *)
(***************************************************************************)
EXTENDS Naturals, SequencesExt

CONSTANTS
  Urls,             \* fragment-free addresses
  None,             \* Rust's Option::None
  MaxHistoryDepth,  \* MAX_HISTORY_DEPTH, 50 in the code
  MaxLoads,         \* bound: loads started by one session
  MaxAnchors,       \* bound: same-page jumps waiting to be undone
  Pointer           \* whether the terminal delivers mouse events

Pages == 0..MaxLoads

ASSUME NoneAssumption    == None \notin Nat /\ None \notin Urls
ASSUME DepthAssumption   == MaxHistoryDepth \in Nat \ {0}
ASSUME BoundsAssumption  == MaxLoads \in Nat /\ MaxAnchors \in Nat
ASSUME PointerAssumption == Pointer \in BOOLEAN

VARIABLES
  running,  \* FALSE once `drive` has returned
  load,     \* LoadState: "Idle", or "Active" while the task holds the controller
  loads,    \* how many loads were started; the last one is the active one
  page,     \* NavigationController.current_page
  back,     \* NavigationController.history_stack, oldest first
  url,      \* the address each page finally resolved to
  typed,    \* for each page, the pages whose drafts its FormFieldValues took in
  view,     \* ViewState
  cache,    \* CachedPage: the page laid out in the drawn buffer
  pending,  \* UiState.pending_fragment, named by the load it was meant for
  scroll,   \* ScrollState: None is the top, else an offset in that page's buffer
  anchors,  \* UiState.anchor_return_offsets
  sel,      \* TextSelection: the buffer its coordinates are in, and `moved`
  mode,     \* UiState.interaction_mode
  focus,    \* UiState.focused_interactive_index, an index into that page's targets
  edit,     \* UiState.focused_field_edit: sub-mode and the page of its NodeId
  confirm   \* UiState.submit_confirmation: the page of the submit button

core == <<page, back, url, typed>>
vars == <<running, load, loads, page, back, url, typed, view, cache, pending,
          scroll, anchors, sel, mode, focus, edit, confirm>>

Panels == {"History", "Cookies", "Settings"}
Modes == Panels \cup
         {"Reading", "Command", "InteractiveNavigation", "SubmitConfirmation"}

TypeOK ==
  /\ running \in BOOLEAN
  /\ load \in {"Idle", "Active"}
  /\ loads \in Pages
  /\ page \in Pages \cup {None}
  /\ back \in Seq(Pages)
  /\ url \in [Pages -> Urls]
  /\ typed \in [Pages -> SUBSET Pages]
  /\ view \in {"Blank", "Page", "Error"}
  /\ cache \in Pages \cup {None}
  /\ pending \in Pages \cup {None}
  /\ scroll \in Pages \cup {None}
  /\ anchors \in Seq(Pages)
  /\ sel \in [page: Pages, moved: BOOLEAN] \cup {None}
  /\ mode \in Modes
  /\ focus \in Pages \cup {None}
  /\ edit \in [kind: {"Text", "MultiSelect"}, page: Pages] \cup {None}
  /\ confirm \in Pages \cup {None}

(***************************************************************************)
(* The start of the loop.  run_terminal_with_url loads the start address   *)
(* before the loop runs, and the loop opens on the page or on the error;   *)
(* a fragment of the start address is seeded as pending either way, and    *)
(* the first iteration applies it when there is a page to lay out.         *)
(***************************************************************************)
Init ==
  /\ running = TRUE
  /\ load = "Idle"
  /\ loads = 0
  /\ back = <<>>
  /\ url \in {[p \in Pages |-> u] : u \in Urls}
  /\ typed = [p \in Pages |-> {}]
  /\ anchors = <<>>
  /\ sel = None
  /\ mode = "Reading"
  /\ focus = None
  /\ edit = None
  /\ confirm = None
  /\ \/ /\ view = "Blank"
        /\ page = None /\ cache = None /\ pending = None /\ scroll = None
     \/ /\ view = "Page"
        /\ page = 0 /\ cache = 0 /\ pending = None /\ scroll \in {None, 0}
     \/ /\ view = "Error"
        /\ page = None /\ cache = None /\ pending \in {None, 0} /\ scroll = None

-----------------------------------------------------------------------------
(***************************************************************************)
(* What every iteration ends with (the top of `loop` up to the wait):      *)
(* lay the page out if there is no buffer yet, clamp the scroll offset,    *)
(* and apply a pending fragment once its page is laid out.  c, f and s are *)
(* the cache, pending fragment and offset the event left; load', view' and *)
(* page' must be settled before it.                                        *)
(***************************************************************************)
\* Mutant: the page is laid out again also under an error view.
TopOfLoopIgnoringView(c, f, s) ==
  LET laidOut == IF load' = "Idle" /\ c = None THEN page' ELSE c
      applies == load' = "Idle" /\ f # None /\ laidOut # None
  IN  /\ cache' = laidOut
      /\ pending' = IF applies THEN None ELSE f
      /\ scroll' \in IF laidOut = None THEN {None}
                     ELSE IF applies THEN {f, s} ELSE {s}

TopOfLoop(c, f, s) ==
  LET laidOut == IF load' = "Idle" /\ view' = "Page" /\ c = None THEN page' ELSE c
      applies == load' = "Idle" /\ f # None /\ laidOut # None
  IN  /\ cache' = laidOut
      /\ pending' = IF applies THEN None ELSE f
      /\ scroll' \in IF laidOut = None THEN {None}
                     ELSE IF applies THEN {f, s} ELSE {s}

(***************************************************************************)
(* What an iteration asks self.controller for by itself, without a key or  *)
(* a click, also while a load is active.                                   *)
(***************************************************************************)
\* The draw: the counts of the title bar, and the chosen options of an open list.
DrawAsksFor ==
  {"counts"} \cup
    (IF edit # None /\ edit.kind = "MultiSelect" THEN {"choices"} ELSE {})

\* reconcile_settings_text_field and maybe_autosave_settings_text.
TickAsksFor == IF mode = "Settings" THEN {"save"} ELSE {}

(***************************************************************************)
(* start_load and start_submit_load: the controller moves into the task.   *)
(* f is the pending fragment the load starts with.                         *)
(***************************************************************************)
StartLoad(f) ==
  /\ loads < MaxLoads
  /\ load' = "Active"
  /\ loads' = loads + 1
  /\ UNCHANGED <<page, view, anchors>>
  /\ TopOfLoop(cache, f, scroll)

\* jump_to_anchor: silent without a buffer, else it moves or reports a missing anchor.
JumpToAnchor ==
  /\ \/ /\ cache # None
        /\ Len(anchors) < MaxAnchors
        /\ anchors' = Append(anchors, cache)
        /\ scroll' = cache
     \/ UNCHANGED <<anchors, scroll>>
  /\ UNCHANGED <<load, loads, page, view, cache, pending>>

\* The error branch of submit_address and start_link_load.
ShowAddressError ==
  /\ view' = "Error"
  /\ UNCHANGED <<load, loads, page, anchors>>
  /\ TopOfLoop(None, pending, scroll)

IsCurrentPage(u) == page # None /\ url[page] = u

(***************************************************************************)
(* classify_navigation and apply_navigation_target on a reference that     *)
(* resolves to the address u, None when it does not resolve.  A bare       *)
(* "#name" is the address of the current page, or None without one.        *)
(***************************************************************************)
FollowReference(u, hasFragment) ==
  \/ /\ u = None
     /\ ShowAddressError
  \/ /\ u # None /\ IsCurrentPage(u)
     /\ JumpToAnchor
  \/ /\ u # None /\ ~IsCurrentPage(u)
     /\ StartLoad(IF hasFragment THEN loads + 1 ELSE None)

-----------------------------------------------------------------------------
(***************************************************************************)
(* Key routing (map_key_event).  While a load is active only Ctrl+C is     *)
(* read.  An open field edit takes the keys of the reading and link modes. *)
(***************************************************************************)
Idle == running /\ load = "Idle"

KeysGoTo(m) ==
  /\ Idle
  /\ mode = m
  /\ m \in {"Reading", "InteractiveNavigation"} => edit = None

KeysGoToEdit ==
  /\ Idle
  /\ edit # None
  /\ mode \in {"Reading", "InteractiveNavigation"}

\* A key that only moves between modes.
SwitchMode(from, to) ==
  /\ KeysGoTo(from)
  /\ mode' = to
  /\ UNCHANGED <<running, load, loads, core, view, cache, pending, scroll,
                 anchors, sel, focus, edit, confirm>>

EnterCommand == SwitchMode("Reading", "Command")

\* Esc, or a command that only answers with a message.
LeaveCommand == SwitchMode("Command", "Reading")

\* /history, /cookies and /settings, with something to show.
OpenPanel == \E m \in Panels : SwitchMode("Command", m)

\* Esc, or deleting the last history entry.
ClosePanel == \E m \in Panels : SwitchMode(m, "Reading")

\* Tab and Shift+Tab on a laid-out page with at least one target.
FocusTarget ==
  /\ KeysGoTo("Reading") \/ KeysGoTo("InteractiveNavigation")
  /\ cache # None
  /\ mode' = "InteractiveNavigation"
  /\ focus' = cache
  /\ UNCHANGED <<running, load, loads, core, view, cache, pending, scroll,
                 anchors, sel, edit, confirm>>

\* Disarm while a target is focused; an open field edit stays open.
LeaveFocus ==
  /\ KeysGoTo("InteractiveNavigation") \/ KeysGoToEdit
  /\ mode = "InteractiveNavigation"
  /\ mode' = "Reading"
  /\ focus' = None
  /\ UNCHANGED <<running, load, loads, core, view, cache, pending, scroll,
                 anchors, sel, edit, confirm>>

ScrollPage ==
  /\ KeysGoTo("Reading") \/ KeysGoTo("InteractiveNavigation")
  /\ cache # None
  /\ scroll' \in {None, cache}
  /\ UNCHANGED <<running, load, loads, core, view, cache, pending, anchors, sel,
                 mode, focus, edit, confirm>>

-----------------------------------------------------------------------------
(* Navigation from the command bar, the history list and the keyboard.     *)

\* Enter on an address, /open, or Enter in the history list.
SubmitAddress ==
  \E from \in {"Command", "History"}, u \in Urls \cup {None}, f \in BOOLEAN :
    /\ KeysGoTo(from)
    /\ mode' = "Reading"
    /\ FollowReference(u, f)
    /\ UNCHANGED <<running, back, url, typed, sel, focus, edit, confirm>>

\* /search: straight to start_load, without touching the pending fragment.
Search ==
  /\ KeysGoTo("Command")
  /\ mode' = "Reading"
  /\ StartLoad(pending)
  /\ UNCHANGED <<running, back, url, typed, sel, focus, edit, confirm>>

\* /reload, or the second r: the held page is fetched again, whatever the view.
Reload ==
  /\ KeysGoTo("Command") \/ KeysGoTo("Reading")
  /\ page # None
  /\ mode' = "Reading"
  /\ StartLoad(pending)
  /\ UNCHANGED <<running, back, url, typed, sel, focus, edit, confirm>>

\* The first half of navigate_back: undo the latest jump within the page.
UndoJump ==
  /\ anchors # <<>>
  /\ anchors' = Front(anchors)
  /\ scroll' = IF cache = None THEN None ELSE Last(anchors)
  /\ mode' = IF mode = "Command" THEN "Reading" ELSE mode
  /\ UNCHANGED <<page, back, view, cache, pending, focus>>

\* go_back, reached only when no jump is left to undo.
GoBack ==
  /\ anchors = <<>> /\ back # <<>>
  /\ page' = Last(back)
  /\ back' = Front(back)
  /\ UNCHANGED anchors

\* Mutant: interactive navigation goes on over the restored page.
LeavePageKeepingFocus ==
  /\ GoBack
  /\ view' = "Page" /\ load' = load
  /\ mode' = (IF mode = "Command" THEN "Reading" ELSE mode) /\ UNCHANGED focus
  /\ TopOfLoop(None, pending, None)

\* The second half: the page under the current one, and a fresh viewport.
LeavePage ==
  /\ GoBack
  /\ view' = "Page" /\ load' = load /\ mode' = "Reading" /\ focus' = None
  /\ TopOfLoop(None, pending, None)

\* Backspace while reading or on a target, or /back.
NavigateBack ==
  /\ \E m \in {"Reading", "InteractiveNavigation", "Command"} : KeysGoTo(m)
  /\ UndoJump \/ LeavePage
  /\ UNCHANGED <<running, load, loads, url, typed, sel, edit, confirm>>

-----------------------------------------------------------------------------
(* Activating the focused target.                                          *)

\* Mutant: a link load leaves the mode and the focus as they are.
StartLinkLoadInPlace(u, hasFragment) ==
  /\ UNCHANGED <<mode, focus>>
  /\ FollowReference(u, hasFragment)

StartLinkLoad(u, hasFragment) ==
  /\ mode' = "Reading"
  /\ focus' = None
  /\ FollowReference(u, hasFragment)

ActivateLink ==
  \E u \in Urls \cup {None}, f \in BOOLEAN :
    /\ KeysGoTo("InteractiveNavigation") /\ cache # None
    /\ StartLinkLoad(u, f)
    /\ UNCHANGED <<running, back, url, typed, sel, edit, confirm>>

\* Enter on a text input, a textarea or a multiple select.
OpenFieldEdit ==
  /\ KeysGoTo("InteractiveNavigation") /\ cache # None
  /\ \E k \in {"Text", "MultiSelect"} : edit' = [kind |-> k, page |-> cache]
  /\ UNCHANGED <<running, load, loads, core, view, cache, pending, scroll,
                 anchors, sel, mode, focus, confirm>>

(***************************************************************************)
(* set_field_text and toggle_multi_select_option look the NodeId up in the *)
(* document of the current page: a known id takes the value in, an unknown *)
(* one is FieldNotFound, which the loop ignores.  Ids are numbered from    *)
(* the start in every document, so an id of another page may be known.     *)
(***************************************************************************)
WriteField ==
  \/ /\ page # None
     /\ typed' = [typed EXCEPT ![page] = @ \cup {edit.page}]
  \/ /\ page # edit.page
     /\ UNCHANGED typed

CommitFieldText ==
  /\ KeysGoToEdit /\ edit.kind = "Text"
  /\ WriteField
  /\ edit' = None
  /\ UNCHANGED <<running, load, loads, page, back, url, view, cache, pending,
                 scroll, anchors, sel, mode, focus, confirm>>

ToggleOption ==
  /\ KeysGoToEdit /\ edit.kind = "MultiSelect"
  /\ WriteField
  /\ UNCHANGED <<running, load, loads, page, back, url, view, cache, pending,
                 scroll, anchors, sel, mode, focus, edit, confirm>>

\* FieldTextCancel, FieldMultiSelectCommit and FieldMultiSelectCancel.
CloseFieldEdit ==
  /\ KeysGoToEdit
  /\ edit' = None
  /\ UNCHANGED <<running, load, loads, core, view, cache, pending, scroll,
                 anchors, sel, mode, focus, confirm>>

\* Enter on a submit button of a GET form.
SubmitGet ==
  /\ KeysGoTo("InteractiveNavigation") /\ cache # None
  /\ mode' = "Reading"
  /\ focus' = None
  /\ StartLoad(pending)
  /\ UNCHANGED <<running, back, url, typed, sel, edit, confirm>>

\* Enter on a submit button of a POST form.
AskConfirmation ==
  /\ KeysGoTo("InteractiveNavigation") /\ cache # None
  /\ mode' = "SubmitConfirmation"
  /\ confirm' = cache
  /\ UNCHANGED <<running, load, loads, core, view, cache, pending, scroll,
                 anchors, sel, focus, edit>>

\* Esc, or Enter on Cancel.
DeclineSubmit ==
  /\ KeysGoTo("SubmitConfirmation")
  /\ mode' = "InteractiveNavigation"
  /\ confirm' = None
  /\ UNCHANGED <<running, load, loads, core, view, cache, pending, scroll,
                 anchors, sel, focus, edit>>

\* Enter on Submit: exit_submit_confirmation, then exit_interactive_navigation.
ConfirmSubmit ==
  /\ KeysGoTo("SubmitConfirmation")
  /\ mode' = "Reading"
  /\ focus' = None
  /\ confirm' = None
  /\ StartLoad(pending)
  /\ UNCHANGED <<running, back, url, typed, sel, edit>>

-----------------------------------------------------------------------------
(* The mouse.  Events reach the page under every mode and every overlay.   *)

PointerOnPage == Pointer /\ Idle /\ cache # None

MouseDown ==
  /\ PointerOnPage
  /\ sel' = [page |-> cache, moved |-> FALSE]
  /\ UNCHANGED <<running, load, loads, core, view, cache, pending, scroll,
                 anchors, mode, focus, edit, confirm>>

MouseDrag ==
  /\ PointerOnPage
  /\ sel # None
  /\ sel' = [sel EXCEPT !.moved = TRUE]
  /\ UNCHANGED <<running, load, loads, core, view, cache, pending, scroll,
                 anchors, mode, focus, edit, confirm>>

\* A release after a drag copies and keeps the highlight; any other is a click.
IsClick == PointerOnPage /\ ~(sel # None /\ sel.moved)

ClickText ==
  /\ IsClick
  /\ sel' = None
  /\ UNCHANGED <<running, load, loads, core, view, cache, pending, scroll,
                 anchors, mode, focus, edit, confirm>>

ClickLink ==
  \E u \in Urls \cup {None}, f \in BOOLEAN :
    /\ IsClick
    /\ sel' = None
    /\ StartLinkLoad(u, f)
    /\ UNCHANGED <<running, back, url, typed, edit, confirm>>

-----------------------------------------------------------------------------
(* The end of a load.                                                      *)

\* Mutant: the stack is trimmed only once it has passed the limit.
PushPageLate ==
  IF page = None THEN back
  ELSE Append(IF Len(back) > MaxHistoryDepth THEN Tail(back) ELSE back, page)

\* finish_load: the page being left goes on the stack, the oldest one gives way.
PushPage ==
  IF page = None THEN back
  ELSE Append(IF Len(back) >= MaxHistoryDepth THEN Tail(back) ELSE back, page)

\* Mutant: the loop takes the controller back and stays in the loading state.
JoinLoadStayingActive ==
  /\ running /\ load = "Active"
  /\ load' = load
  /\ sel' = None /\ anchors' = <<>>

\* Mutant: jumps made in the old page stay on the return stack.
JoinLoadKeepingAnchors ==
  /\ running /\ load = "Active"
  /\ load' = "Idle"
  /\ sel' = None
  /\ UNCHANGED anchors

\* The task is joined and the controller comes back.
JoinLoad ==
  /\ running /\ load = "Active"
  /\ load' = "Idle"
  /\ sel' = None /\ anchors' = <<>>

\* The task returned Ok.  Redirects let the page end up at any address.
LoadSucceeds ==
  /\ JoinLoad
  /\ page' = loads
  /\ back' = PushPage
  /\ \E u \in Urls : url' = [url EXCEPT ![loads] = u]
  /\ view' = "Page"
  /\ UNCHANGED <<running, loads, typed, mode, focus, edit, confirm>>
  /\ TopOfLoop(None, pending, None)

\* Mutant: a failed load leaves its fragment waiting.
LoadFailsKeepingFragment ==
  /\ JoinLoad
  /\ view' = "Error"
  /\ UNCHANGED <<running, loads, core, mode, focus, edit, confirm>>
  /\ TopOfLoop(None, pending, None)

\* The task returned an error: the held page and the stack stay as they were.
LoadFails ==
  /\ JoinLoad
  /\ view' = "Error"
  /\ UNCHANGED <<running, loads, core, mode, focus, edit, confirm>>
  /\ TopOfLoop(None, None, None)

\* Ctrl+C at any time; /quit and the second Esc when idle.
Quit ==
  /\ running
  /\ running' = FALSE
  /\ UNCHANGED <<load, loads, core, view, cache, pending, scroll, anchors, sel,
                 mode, focus, edit, confirm>>

-----------------------------------------------------------------------------
EditAction ==
  CommitFieldText \/ ToggleOption \/ CloseFieldEdit

TargetAction ==
  \/ FocusTarget \/ LeaveFocus \/ ActivateLink \/ OpenFieldEdit
  \/ SubmitGet \/ AskConfirmation \/ DeclineSubmit \/ ConfirmSubmit

BarAction ==
  \/ EnterCommand \/ LeaveCommand \/ OpenPanel \/ ClosePanel \/ ScrollPage
  \/ SubmitAddress \/ Search \/ Reload \/ NavigateBack

MouseAction ==
  MouseDown \/ MouseDrag \/ ClickText \/ ClickLink

LoadEnds == LoadSucceeds \/ LoadFails

Next ==
  BarAction \/ TargetAction \/ EditAction \/ MouseAction \/ LoadEnds \/ Quit

(***************************************************************************)
(* The only fairness is the task's: every request of a load has a thirty   *)
(* second timeout and the redirect chain has a limit, so the task returns  *)
(* and select! polls it.  Users promise nothing.                           *)
(***************************************************************************)
Spec == Init /\ [][Next]_vars /\ WF_vars(LoadEnds)

-----------------------------------------------------------------------------
(* Properties.                                                             *)

\* While the task holds the controller, self.controller is the empty placeholder that
\* std::mem::take left, and all that reaches it is the draw: until the join the title bar
\* counts no script, byte or cookie and an open option list shows nothing chosen.  No
\* panel is open whose timer would save a draft into it, and no list, confirmation or
\* focused target that a key of the first iteration after the join would act on.
PlaceholderIsOnlyDrawn ==
  load = "Active" =>
    /\ mode = "Reading" /\ focus = None
    /\ DrawAsksFor \cup TickAsksFor \subseteq {"counts", "choices"}

\* What is drawn is what the controller holds: an idle loop showing a page has the
\* buffer of the current page, and no buffer under a blank or an error view.
DrawnPageIsCurrent ==
  load = "Idle" =>
    IF view = "Page" THEN page # None /\ cache = page ELSE cache = None

\* A focused target is one of the drawn page, so Enter never activates the target
\* of the same number on another page.
FocusIsOnDrawnPage ==
  focus # None =>
    /\ focus = cache
    /\ mode \in {"InteractiveNavigation", "SubmitConfirmation"}

\* The confirmation view submits a form of the page the reader is looking at.
ConfirmedFormIsDrawn ==
  mode = "SubmitConfirmation" => confirm # None /\ confirm = page /\ confirm = cache

\* Every jump Back would undo was made on the current page: offsets are rows of one
\* rendered buffer and mean nothing in another.
JumpsAreOfCurrentPage ==
  \A i \in 1..Len(anchors) : anchors[i] = page

\* Back walks strictly into the past: the stack holds each page once, oldest first,
\* all older than the current one, and never more than MAX_HISTORY_DEPTH of them.
BackWalksIntoThePast ==
  /\ Len(back) <= MaxHistoryDepth
  /\ \A i, j \in 1..Len(back) : i < j => back[i] < back[j]
  /\ \A i \in 1..Len(back) : page # None /\ back[i] < page

History == INSTANCE SessionHistory WITH
  Depth <- MaxHistoryDepth, current <- page, trail <- back

\* Of all that the loop does, only a successful load and Back change what Back returns
\* to, and they do it as the session history promises.
ImplementsSessionHistory == History!Spec

\* A waiting fragment is the one of the load in flight, or the start address's that
\* no page has answered yet; an idle loop has no other left over.
FragmentFollowsItsLoad ==
  pending # None =>
    \/ load = "Active" /\ pending = loads
    \/ pending = 0 /\ (view # "Page" \/ load = "Active")

\* A draft typed into a form field only ever reaches the page it was typed on.
DraftsStayOnTheirPage ==
  \A p \in Pages : typed[p] \subseteq {p}

Task == INSTANCE LoadTask WITH
  active <- running /\ load = "Active", started <- loads

\* Every load ends, the loop is idle again or was left, and only a load that succeeds
\* and Back change the page that the controller holds.
ImplementsLoadTask == Task!Spec

\* A fragment waiting for a load is used or dropped when that load ends.
FragmentsAreConsumed ==
  load = "Active" /\ pending # None ~> pending = None \/ ~running

=============================================================================
