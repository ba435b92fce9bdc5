----------------------------- MODULE SettingsPanel -----------------------------
(***************************************************************************)
(* The settings panel of Puma Browser: rows of controls over the settings  *)
(* that are in force, and the draft of the text row in focus, which is     *)
(* saved when the focus leaves it or when no key came for a while.         *)
(*                                                                         *)
(* One action is one iteration of the event loop: an event, then the draft *)
(* is brought in step with the focus, then it is saved if its time has     *)
(* come.  A save checks the value, puts it in force, and writes two rows   *)
(* of the configuration, either of which may fail.                         *)
(*                                                                         *)
(* One checkbox stands for the four.  The two cookie rows are in           *)
(* CookieEngine.  The cursor of the draft is left out, and so are keys     *)
(* that only move it.                                                      *)
(***************************************************************************)
EXTENDS Naturals, Sequences

CONSTANTS
  Values,      \* what a draft may hold
  ValidBases,  \* the values that are a web address
  Default,     \* the built-in values: a function from settings
  None,        \* Rust's Option::None
  StoreFails,  \* whether the configuration store can fail
  MaxKeys,     \* bound: keystrokes in drafts
  MaxSessions  \* bound: process starts

TextRows == {"base", "param"}
Settings == {"enabled"} \cup TextRows

\* The focus moves through the rows in this order, and around.
Rows == <<"enabled", "base", "param">>

ASSUME DefaultAssumption ==
  /\ Default \in [Settings -> BOOLEAN \cup Values]
  /\ Default["enabled"] \in BOOLEAN
  /\ Default["base"] \in ValidBases /\ Default["param"] \in Values
ASSUME ValuesAssumption ==
  /\ ValidBases \subseteq Values
  /\ None \notin BOOLEAN \cup Values \cup
                 [row: TextRows, value: Values, dirty: BOOLEAN, suppressed: BOOLEAN]
ASSUME LimitsAssumption ==
  StoreFails \in BOOLEAN /\ MaxKeys \in Nat /\ MaxSessions \in Nat

VARIABLES
  live,       \* the settings in force: TerminalSettings and the controller's SearchEngine
  saved,      \* the rows of the configuration store, None if there is none
  store,      \* whether the store on disk is open; one in memory keeps nothing either,
              \* and its writes do not fail
  locked,     \* whether an environment variable fixes the checkbox
  open,       \* whether the panel is open
  focus,      \* the row in focus
  shown,      \* SettingsModel: what the rows show
  draft,      \* SettingsTextEdit
  keys,       \* keystrokes so far
  session,    \* how many times the process was started
  tries,      \* automatic saves since the last keystroke: none, one, or (2) more
  confirmed,  \* what the user was shown as set while it could be stored, None if nothing
  broken      \* whether the store failed, at the start or since the panel was opened

panel == <<open, focus, shown, draft>>
session_vars == <<store, locked, session>>
seen == <<tries, confirmed, broken>>
vars == <<live, saved, panel, keys, session_vars, seen>>

Draft == [row: TextRows, value: Values, dirty: BOOLEAN, suppressed: BOOLEAN]

\* The values a setting may have: SearchEngine::new lets no other base in.
Allowed == [s \in Settings |->
  CASE s = "enabled" -> BOOLEAN [] s = "base" -> ValidBases [] s = "param" -> Values]

TypeOK ==
  /\ \A rows \in {live, shown} : DOMAIN rows = Settings /\ \A s \in Settings : rows[s] \in Allowed[s]
  /\ \A rows \in {saved, confirmed} :
       DOMAIN rows = Settings /\ \A s \in Settings : rows[s] \in Allowed[s] \cup {None}
  /\ store \in {"open", "none"}
  /\ locked \in BOOLEAN /\ open \in BOOLEAN /\ broken \in BOOLEAN
  /\ focus \in 1..Len(Rows)
  /\ draft \in Draft \cup {None}
  /\ keys \in Nat /\ session \in Nat /\ tries \in 0..2

-----------------------------------------------------------------------------
(* Starts.                                                                 *)

NoRows == [s \in Settings |-> None]

OrDefault(rows) == [s \in Settings |-> IF rows[s] = None THEN Default[s] ELSE rows[s]]

\* resolve_search_engine and resolve_toggle: a row that is missing or cannot be read is
\* the default.  An environment variable sets the checkbox.
Resolved(rows, env) ==
  IF env = None THEN OrDefault(rows) ELSE [OrDefault(rows) EXCEPT !["enabled"] = env]

Readable(rows) ==
  IF StoreFails THEN {r \in [Settings -> {None} \cup {rows[s] : s \in Settings}] :
                        \A s \in Settings : r[s] \in {None, rows[s]}}
  ELSE {rows}

Init ==
  /\ \E env \in BOOLEAN \cup {None} :
       live = Resolved(NoRows, env) /\ locked = (env # None)
  /\ saved = NoRows /\ confirmed = NoRows
  /\ store \in (IF StoreFails THEN {"open", "none"} ELSE {"open"})
  /\ open = FALSE /\ focus = 1 /\ shown = live /\ draft = None
  /\ keys = 0 /\ session = 1 /\ tries = 0 /\ broken = FALSE

Restart ==
  /\ session < MaxSessions
  /\ session' = session + 1
  /\ \E env \in BOOLEAN \cup {None} :
       /\ locked' = (env # None)
       /\ \/ /\ store' = "open"
             /\ \E rows \in Readable(saved) : live' = Resolved(rows, env) /\ broken' = (rows # saved)
          \/ /\ store' = "none" /\ StoreFails
             /\ live' = Resolved(NoRows, env) /\ broken' = TRUE
  /\ open' = FALSE /\ focus' = 1 /\ shown' = live' /\ draft' = None
  /\ tries' = 0
  /\ UNCHANGED <<saved, confirmed, keys>>

-----------------------------------------------------------------------------
(* Saving a draft (persist_settings_text, set_search_engine).              *)

\* SearchEngine::new.
IsEngine(engine) == engine["base"] \in ValidBases

\* The engine in force with the draft in its place.
Proposed(d) == [live EXCEPT ![d.row] = d.value]

\* rows with the engine's two of them, which are always written together.
WithEngine(rows, engine) == [s \in Settings |-> IF s \in TextRows THEN engine[s] ELSE rows[s]]

\* Mutant: the store gets the draft's row only, whatever it held of the other.
WriteOneRow(d, engine) == saved' = [saved EXCEPT ![d.row] = engine[d.row]]

WriteRows(d, engine) == saved' = WithEngine(saved, engine)

\* Mutant: the rows keep showing what they did.
ShowNothing(engine) == UNCHANGED shown

Show(engine) == shown' = WithEngine(shown, engine)

NothingSaved == UNCHANGED <<live, saved, shown, confirmed, broken>>

\* The value is not one of an engine: nothing changes, the row says it is not saved.
Reject(d) ==
  /\ ~IsEngine(Proposed(d))
  /\ NothingSaved

\* In force, and on disk if there is a store, and shown.
Save(d) ==
  LET engine == Proposed(d) IN
  /\ IsEngine(engine)
  /\ live' = engine
  /\ Show(engine)
  /\ \/ /\ store = "open"
        /\ WriteRows(d, engine)
        /\ confirmed' = WithEngine(confirmed, engine)
     \/ store = "none" /\ UNCHANGED <<saved, confirmed>>
  /\ UNCHANGED broken

\* In force, and on disk none of it or the first row.  The row says, as for Reject, that
\* the value is not valid and not saved.
SaveBreaks(d) ==
  LET engine == Proposed(d) IN
  /\ StoreFails /\ store = "open"
  /\ IsEngine(engine)
  /\ live' = engine
  /\ saved' \in {saved, [saved EXCEPT !["base"] = engine["base"]]}
  /\ confirmed' = WithEngine(confirmed, NoRows)
  /\ broken' = TRUE
  /\ UNCHANGED shown

-----------------------------------------------------------------------------
(* The end of an iteration.                                                *)

\* Mutant: a draft that is there stays, whichever row it is of.
FreshIfNone(row, rows) ==
  IF row \notin TextRows THEN None
  ELSE IF draft # None THEN draft
  ELSE [row |-> row, value |-> rows[row], dirty |-> FALSE, suppressed |-> FALSE]

\* begin_settings_text_edit, if the row in focus is one of text.
Fresh(row, rows) ==
  IF row \in TextRows
  THEN [row |-> row, value |-> rows[row], dirty |-> FALSE, suppressed |-> FALSE]
  ELSE None

\* Mutant: what was saved still counts as edited.
SettledStillDirty(d) == d

\* mark_settings_text_saved and mark_settings_text_save_failed.
Settled(d) == [d EXCEPT !.dirty = FALSE, !.suppressed = FALSE]
Refused(d) == [d EXCEPT !.suppressed = TRUE]

\* settings_text_due_save: late says whether the debounce has run out.
Due(d, late) == late /\ d.dirty /\ ~d.suppressed

\* The focus stays: the draft d is saved if it is due.
Stay(d, late) ==
  \/ /\ Due(d, late)
     /\ tries' = IF tries = 0 THEN 1 ELSE 2
     /\ \/ Save(d) /\ draft' = Settled(d)
        \/ (Reject(d) \/ SaveBreaks(d)) /\ draft' = Refused(d)
  \/ /\ ~Due(d, late)
     /\ NothingSaved /\ draft' = d
     /\ UNCHANGED tries

\* Mutant: a dirty draft is dropped when the focus moves on.
LeaveDropping == NothingSaved

\* commit_settings_text_field: a dirty draft is saved or dropped.
Leave ==
  \/ draft # None /\ draft.dirty /\ (Save(draft) \/ Reject(draft) \/ SaveBreaks(draft))
  \/ (draft # None => ~draft.dirty) /\ NothingSaved

-----------------------------------------------------------------------------
(* Events.                                                                 *)

OpenPanel ==
  /\ ~open
  /\ open' = TRUE /\ focus' = 1 /\ shown' = live /\ draft' = None
  /\ tries' = 0 /\ broken' = FALSE
  /\ UNCHANGED <<live, saved, confirmed, keys, session_vars>>

\* Space or Enter on the checkbox: in force and shown at once, then written.
Toggle ==
  /\ open /\ Rows[focus] = "enabled" /\ ~locked
  /\ LET checked == ~shown["enabled"] IN
       /\ shown' = [shown EXCEPT !["enabled"] = checked]
       /\ live' = [live EXCEPT !["enabled"] = checked]
       /\ \/ /\ store = "open"
             /\ saved' = [saved EXCEPT !["enabled"] = checked]
             /\ confirmed' = [confirmed EXCEPT !["enabled"] = checked]
             /\ UNCHANGED broken
          \/ store = "none" /\ UNCHANGED <<saved, confirmed, broken>>
          \/ /\ store = "open" /\ StoreFails
             /\ confirmed' = [confirmed EXCEPT !["enabled"] = None]
             /\ broken' = TRUE
             /\ UNCHANGED saved
  /\ UNCHANGED <<open, focus, draft, keys, session_vars, tries>>

\* A character or Backspace in the draft, which may then hold anything.
Type ==
  /\ open /\ draft # None /\ keys < MaxKeys
  /\ keys' = keys + 1
  /\ \E value \in Values :
       draft' = [draft EXCEPT !.value = value, !.dirty = TRUE, !.suppressed = FALSE]
  /\ tries' = 0
  /\ NothingSaved
  /\ UNCHANGED <<open, focus, session_vars>>

\* Up, Down, and Enter on a text row.
MoveFocus ==
  /\ open
  /\ focus' \in {(focus % Len(Rows)) + 1, ((focus + Len(Rows) - 2) % Len(Rows)) + 1}
  /\ Leave
  /\ draft' = Fresh(Rows[focus'], shown')
  /\ tries' = 0
  /\ UNCHANGED <<open, keys, session_vars>>

\* Mutant: the text goes back and the draft still counts as edited.
RevertText == [draft EXCEPT !.value = shown[draft.row]]

Revert == Settled([draft EXCEPT !.value = shown[draft.row]])

Close ==
  /\ open' = FALSE /\ focus' = 1 /\ draft' = None
  /\ NothingSaved
  /\ UNCHANGED tries

\* Esc reverts an edited draft and closes the panel otherwise; the timer may have run out
\* in the same iteration.
Esc ==
  /\ open
  /\ IF draft # None /\ draft.dirty
     THEN (\E late \in BOOLEAN : Stay(Revert, late)) /\ UNCHANGED <<open, focus>>
     ELSE Close
  /\ UNCHANGED <<keys, session_vars>>

\* A click on a link of the page under the panel: the iteration ends first, then the link
\* takes the mode, and the draft is dropped.
ClickLink ==
  /\ open
  /\ \/ draft # None /\ Due(draft, TRUE) /\ (Save(draft) \/ Reject(draft) \/ SaveBreaks(draft))
     \/ NothingSaved
  /\ open' = FALSE /\ draft' = None
  /\ UNCHANGED <<focus, keys, session_vars, tries>>

\* Nothing happens until the debounce has run out.
Idle ==
  /\ open /\ draft # None /\ Due(draft, TRUE)
  /\ Stay(draft, TRUE)
  /\ UNCHANGED <<open, focus, keys, session_vars>>

Next ==
  \/ Restart \/ OpenPanel \/ Toggle \/ Type \/ MoveFocus \/ Esc \/ ClickLink \/ Idle

\* The loop wakes every 80 ms, and keystrokes come to an end.
Spec == Init /\ [][Next]_vars /\ WF_vars(Idle)

-----------------------------------------------------------------------------
(* Properties.                                                             *)

\* The draft is that of the text row in focus, whenever keys go to one: the key map looks
\* at the row in focus and the keys change the draft.
DraftIsOfFocusedRow ==
  IF open /\ Rows[focus] \in TextRows
  THEN draft # None /\ draft.row = Rows[focus]
  ELSE draft = None

\* The panel shows what is in force, and an unedited draft is what is shown, unless the
\* store has failed under it.
PanelShowsWhatIsInForce ==
  open /\ ~broken =>
    /\ shown = live
    /\ draft # None /\ ~draft.dirty => draft.value = live[draft.row]

\* A rejected value is tried once by the timer, and not again before the next keystroke.
AutosaveTriesOnce == tries <= 1

\* Esc puts nothing in force and stores nothing, however late it comes.
EscSavesNothing == [][Esc => UNCHANGED <<live, saved>>]_vars

\* What the user was shown as set, with a store to keep it, is in force again after a
\* start that can read the store, unless the environment fixes it.
ConfirmedSettingsSurvive ==
  [][session' # session /\ ~broken' =>
       \A s \in Settings : confirmed[s] # None /\ (s = "enabled" => ~locked') =>
         live'[s] = confirmed[s]]_vars

\* Leaving a row saves what was typed into it: whatever the focus moves on from is in
\* force, if it is valid.
LeavingSaves ==
  [][MoveFocus /\ draft # None =>
       \/ live'[draft.row] = draft.value
       \/ draft.row = "base" /\ draft.value \notin ValidBases
       \/ ~draft.dirty]_vars

\* No draft waits forever: it is saved, refused, reverted or left.
DraftsAreSettled ==
  open /\ draft # None /\ draft.dirty /\ ~draft.suppressed ~>
    ~open \/ draft = None \/ ~draft.dirty \/ draft.suppressed
=============================================================================
