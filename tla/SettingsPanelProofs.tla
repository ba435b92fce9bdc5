-------------------------- MODULE SettingsPanelProofs --------------------------
(***************************************************************************)
(* Proofs about SettingsPanel, for any values, defaults and bounds.        *)
(***************************************************************************)
EXTENDS SettingsPanel, TLAPS

-----------------------------------------------------------------------------
(* Settings: in force, shown, stored and confirmed.                        *)

\* A value for each setting, of the setting's values.
Full(rows) == DOMAIN rows = Settings /\ \A s \in Settings : rows[s] \in Allowed[s]

\* The same where some may be missing.
Partial(rows) == DOMAIN rows = Settings /\ \A s \in Settings : rows[s] \in Allowed[s] \cup {None}

\* The part of the type invariant that a save can disturb.
RowsOK ==
  /\ Full(live) /\ Full(shown)
  /\ Partial(saved) /\ Partial(confirmed)
  /\ broken \in BOOLEAN

LEMMA TypeParts ==
  TypeOK <=> /\ RowsOK
             /\ store \in {"open", "none"}
             /\ locked \in BOOLEAN /\ open \in BOOLEAN
             /\ focus \in 1..Len(Rows)
             /\ draft \in Draft \cup {None}
             /\ keys \in Nat /\ session \in Nat /\ tries \in 0..2
BY Zenon DEF TypeOK, RowsOK, Full, Partial

LEMMA AllowedFacts ==
  /\ Allowed["enabled"] = BOOLEAN /\ Allowed["base"] = ValidBases /\ Allowed["param"] = Values
  /\ ValidBases \subseteq Values
  /\ Settings = {"enabled", "base", "param"}
  /\ \A s \in Settings : None \notin Allowed[s]
BY ValuesAssumption DEF Allowed, Settings, TextRows

\* A draft that is not None, its row and its value.
LEMMA DraftFacts ==
  ASSUME NEW d \in Draft
  PROVE  /\ d.row \in {"base", "param"} /\ d.row \in Settings /\ d.value \in Values
         /\ d.dirty \in BOOLEAN /\ d.suppressed \in BOOLEAN
         /\ d # None
BY ValuesAssumption DEF Draft, TextRows, Settings

\* Defaults fill what is missing, and the environment has the last word on the checkbox.
LEMMA ResolvedFacts ==
  ASSUME NEW rows, Partial(rows), NEW env \in BOOLEAN \cup {None}
  PROVE  /\ Full(Resolved(rows, env))
         /\ \A s \in Settings : rows[s] # None /\ (s = "enabled" => env = None) =>
              Resolved(rows, env)[s] = rows[s]
<1>1. \A s \in Settings : Default[s] \in Allowed[s]
  BY AllowedFacts, DefaultAssumption
<1>2. Full(OrDefault(rows))
  BY <1>1 DEF Full, Partial, OrDefault
<1>3. \A s \in Settings : rows[s] # None => OrDefault(rows)[s] = rows[s]
  BY DEF OrDefault
<1>4. CASE env = None
  BY <1>2, <1>3, <1>4 DEF Resolved
<1>5. CASE env # None
  <2>1. env \in BOOLEAN
    BY <1>5
  <2>2. Resolved(rows, env) = [OrDefault(rows) EXCEPT !["enabled"] = env]
    BY <1>5 DEF Resolved
  <2> QED
    BY <1>2, <1>3, <1>5, <2>1, <2>2, AllowedFacts DEF Full
<1> QED
  BY <1>4, <1>5

\* Unreadable rows are missing ones.
LEMMA ReadableFacts ==
  ASSUME NEW rows, Partial(rows), NEW read \in Readable(rows)
  PROVE  Partial(read)
BY DEF Readable, Partial

\* Built-in values alone.
LEMMA NoRowsFacts == Partial(NoRows)
BY DEF NoRows, Partial

-----------------------------------------------------------------------------
(* Saves.                                                                  *)

\* What was shown as set is stored.
ConfirmedIsStored == \A s \in Settings : confirmed[s] # None => saved[s] = confirmed[s]

\* All that a save of d may come to.
MaySave(d) == Save(d) \/ Reject(d) \/ SaveBreaks(d) \/ NothingSaved

\* The engine with a draft in its place differs in the draft's row only.
LEMMA ProposedFacts ==
  ASSUME RowsOK, NEW d \in Draft
  PROVE  /\ DOMAIN Proposed(d) = Settings
         /\ Proposed(d)[d.row] = d.value
         /\ \A s \in Settings \ {d.row} : Proposed(d)[s] = live[s]
         /\ IsEngine(Proposed(d)) => Full(Proposed(d))
<1>1. /\ DOMAIN Proposed(d) = Settings
      /\ Proposed(d)[d.row] = d.value
      /\ \A s \in Settings \ {d.row} : Proposed(d)[s] = live[s]
  BY DraftFacts DEF Proposed, RowsOK, Full
<1>2. ASSUME IsEngine(Proposed(d))
      PROVE  Full(Proposed(d))
  BY <1>1, <1>2, DraftFacts, AllowedFacts DEF IsEngine, RowsOK, Full
<1> QED
  BY <1>1, <1>2

\* A save keeps the types and what is confirmed, leaves a panel that shows what is in
\* force as one, and either puts the draft in force or finds it no engine.
LEMMA SaveFacts ==
  ASSUME RowsOK, NEW d \in Draft, MaySave(d)
  PROVE  /\ RowsOK'
         /\ ConfirmedIsStored => ConfirmedIsStored'
         /\ ~broken' => ~broken /\ (shown = live => shown' = live')
         /\ Save(d) => live'[d.row] = d.value
<1> DEFINE engine == Proposed(d)
<1>1. CASE Save(d)
  <2>1. Full(engine)
    BY <1>1, ProposedFacts DEF Save
  <2>2. live' = engine /\ shown' = WithEngine(shown, engine) /\ broken' = broken
    BY <1>1 DEF Save, Show
  <2>3. \/ saved' = WithEngine(saved, engine) /\ confirmed' = WithEngine(confirmed, engine)
        \/ saved' = saved /\ confirmed' = confirmed
    BY <1>1 DEF Save, WriteRows
  <2>4. Full(live')
    BY <2>1, <2>2
  <2> HIDE DEF engine
  <2>5. Full(shown')
    BY <2>1, <2>2, AllowedFacts DEF Full, WithEngine, TextRows, RowsOK
  <2>6. Partial(saved') /\ Partial(confirmed')
    BY <2>1, <2>3, AllowedFacts DEF Full, Partial, WithEngine, TextRows, RowsOK
  <2>7. ConfirmedIsStored => ConfirmedIsStored'
    BY <2>3 DEF ConfirmedIsStored, WithEngine
  <2>8. shown = live => shown' = live'
    <3>1. SUFFICES ASSUME shown = live
                   PROVE  WithEngine(live, engine) = engine
      BY <2>2
    <3>2. \A s \in Settings : WithEngine(live, engine)[s] = engine[s]
      BY ProposedFacts, DraftFacts DEF WithEngine, TextRows, engine
    <3>3. engine = [s \in Settings |-> engine[s]]
      BY DEF engine, Proposed, RowsOK, Full
    <3> QED
      BY <3>2, <3>3 DEF WithEngine
  <2>9. live'[d.row] = d.value
    BY <2>2, ProposedFacts DEF engine
  <2> QED
    BY <2>2, <2>4, <2>5, <2>6, <2>7, <2>8, <2>9 DEF RowsOK
<1>2. CASE SaveBreaks(d)
  <2>1. Full(engine)
    BY <1>2, ProposedFacts DEF SaveBreaks
  <2>2. /\ live' = engine /\ shown' = shown /\ broken' = TRUE
        /\ confirmed' = WithEngine(confirmed, NoRows)
        /\ saved' \in {saved, [saved EXCEPT !["base"] = engine["base"]]}
    BY <1>2 DEF SaveBreaks
  <2>3. Full(live') /\ Full(shown')
    BY <2>1, <2>2 DEF RowsOK
  <2>4. live'[d.row] = d.value
    BY <2>2, ProposedFacts
  <2> HIDE DEF engine
  <2>5. Partial(saved') /\ Partial(confirmed')
    BY <2>1, <2>2, AllowedFacts DEF Full, Partial, WithEngine, NoRows, TextRows, RowsOK
  <2>6. ConfirmedIsStored => ConfirmedIsStored'
    <3>1. \A s \in Settings : confirmed'[s] # None =>
            s = "enabled" /\ confirmed'[s] = confirmed[s] /\ saved'[s] = saved[s]
      BY <2>2, AllowedFacts DEF WithEngine, NoRows, TextRows, RowsOK, Partial
    <3> QED
      BY <3>1 DEF ConfirmedIsStored
  <2> QED
    BY <2>2, <2>3, <2>4, <2>5, <2>6 DEF RowsOK
<1>3. CASE Reject(d) \/ NothingSaved
  <2>1. UNCHANGED <<live, saved, shown, confirmed, broken>>
    BY <1>3 DEF Reject, NothingSaved
  <2>2. ~Save(d) \/ live'[d.row] = d.value
    BY <2>1, ProposedFacts DEF Save
  <2> QED
    BY <2>1, <2>2 DEF RowsOK, Full, Partial, ConfirmedIsStored
<1> QED
  BY <1>1, <1>2, <1>3 DEF MaySave

\* What an iteration does to the settings when no checkbox is toggled.
Saving == NothingSaved \/ \E d \in Draft : MaySave(d)

LEMMA SavingFacts ==
  ASSUME RowsOK, Saving
  PROVE  /\ RowsOK'
         /\ ConfirmedIsStored => ConfirmedIsStored'
         /\ ~broken' => ~broken /\ (shown = live => shown' = live')
<1>1. CASE NothingSaved
  BY <1>1 DEF NothingSaved, RowsOK, Full, Partial, ConfirmedIsStored
<1>2. CASE \E d \in Draft : MaySave(d)
  BY <1>2, SaveFacts
<1> QED
  BY <1>1, <1>2 DEF Saving

-----------------------------------------------------------------------------
(* The end of an iteration.                                                *)

\* A draft that is not to be tried by the timer.
Quiet(d) == d # None => ~d.dirty \/ d.suppressed

LEMMA SettledFacts ==
  ASSUME NEW d \in Draft
  PROVE  /\ Settled(d) \in Draft /\ Refused(d) \in Draft
         /\ Settled(d).row = d.row /\ Refused(d).row = d.row
         /\ Settled(d).value = d.value /\ Refused(d).dirty = d.dirty
         /\ Quiet(Settled(d)) /\ ~Settled(d).dirty /\ Quiet(Refused(d))
BY DEF Settled, Refused, Draft, Quiet

\* A draft that stays is still one of its row, and if it was tried it is quiet.  An
\* unedited one holds what is in force, if it did before.
LEMMA StayFacts ==
  ASSUME RowsOK, NEW d \in Draft, NEW late \in BOOLEAN, Stay(d, late)
  PROVE  /\ Saving
         /\ draft' \in Draft /\ draft'.row = d.row
         /\ \/ /\ d.dirty /\ ~d.suppressed /\ Quiet(draft')
               /\ (tries = 0 /\ tries' = 1) \/ (tries # 0 /\ tries' = 2)
            \/ NothingSaved /\ draft' = d /\ tries' = tries
         /\ ~draft'.dirty => (Save(d) /\ draft'.value = d.value) \/ (NothingSaved /\ draft' = d)
<1>1. CASE Due(d, late) /\ Save(d) /\ draft' = Settled(d) /\ tries' = IF tries = 0 THEN 1 ELSE 2
  <2>1. Saving
    BY <1>1 DEF Saving, MaySave
  <2>2. d.dirty /\ ~d.suppressed
    BY <1>1 DEF Due
  <2>3. draft' \in Draft /\ draft'.row = d.row /\ draft'.value = d.value /\ Quiet(draft')
    BY <1>1, SettledFacts
  <2>4. (tries = 0 /\ tries' = 1) \/ (tries # 0 /\ tries' = 2)
    BY <1>1
  <2> QED
    BY Zenon, <1>1, <2>1, <2>2, <2>3, <2>4
<1>2. CASE /\ Due(d, late) /\ (Reject(d) \/ SaveBreaks(d)) /\ draft' = Refused(d)
           /\ tries' = IF tries = 0 THEN 1 ELSE 2
  <2>1. Saving
    BY <1>2 DEF Saving, MaySave
  <2>2. d.dirty /\ ~d.suppressed /\ draft'.dirty
    BY <1>2, SettledFacts DEF Due
  <2>3. draft' \in Draft /\ draft'.row = d.row /\ Quiet(draft')
    BY <1>2, SettledFacts
  <2>4. (tries = 0 /\ tries' = 1) \/ (tries # 0 /\ tries' = 2)
    BY <1>2
  <2> QED
    BY Zenon, <2>1, <2>2, <2>3, <2>4
<1>3. CASE NothingSaved /\ draft' = d /\ tries' = tries
  BY <1>3 DEF Saving
<1> QED
  BY <1>1, <1>2, <1>3 DEF Stay

\* What moves on from a row saves or not.
LEMMA LeaveFacts ==
  ASSUME draft \in Draft \cup {None}, Leave
  PROVE  Saving
BY DEF Leave, Saving, MaySave

\* The rows that may come into focus, and the draft they come with.
LEMMA FreshFacts ==
  ASSUME NEW i \in 1..Len(Rows), NEW rows, Full(rows)
  PROVE  /\ Fresh(Rows[i], rows) \in Draft \cup {None}
         /\ Rows[i] \in TextRows => /\ Fresh(Rows[i], rows) \in Draft
                                    /\ Fresh(Rows[i], rows).row = Rows[i]
                                    /\ Fresh(Rows[i], rows).value = rows[Rows[i]]
         /\ Rows[i] \notin TextRows => Fresh(Rows[i], rows) = None
         /\ Quiet(Fresh(Rows[i], rows))
<1>1. CASE Rows[i] \in TextRows
  <2> DEFINE d == [row |-> Rows[i], value |-> rows[Rows[i]], dirty |-> FALSE, suppressed |-> FALSE]
  <2>1. rows[Rows[i]] \in Values
    BY <1>1, AllowedFacts DEF Full, TextRows
  <2>2. Fresh(Rows[i], rows) = d
    BY <1>1 DEF Fresh
  <2>3. d \in Draft
    BY <1>1, <2>1 DEF Draft
  <2> QED
    BY <1>1, <2>2, <2>3 DEF Quiet
<1>2. CASE Rows[i] \notin TextRows
  BY <1>2 DEF Fresh, Quiet
<1> QED
  BY <1>1, <1>2

\* The focus moves among the rows.
LEMMA FocusFacts ==
  /\ Len(Rows) = 3 /\ Rows[1] = "enabled" /\ "enabled" \notin TextRows
  /\ \A f \in 1..Len(Rows) :
       /\ (f % Len(Rows)) + 1 \in 1..Len(Rows)
       /\ ((f + Len(Rows) - 2) % Len(Rows)) + 1 \in 1..Len(Rows)
BY DEF Rows, TextRows

\* Esc brings an edited draft back to what is shown, which is nothing to be saved.
LEMMA RevertFacts ==
  ASSUME RowsOK, draft \in Draft
  PROVE  /\ Revert \in Draft /\ Revert.row = draft.row /\ Revert.value = shown[draft.row]
         /\ ~Revert.dirty /\ \A late : ~Due(Revert, late)
<1>1. shown[draft.row] \in Values
  BY DraftFacts, AllowedFacts DEF RowsOK, Full
<1>2. [draft EXCEPT !.value = shown[draft.row]] \in Draft
  BY <1>1 DEF Draft
<1>3. /\ [draft EXCEPT !.value = shown[draft.row]].row = draft.row
      /\ [draft EXCEPT !.value = shown[draft.row]].value = shown[draft.row]
  BY DEF Draft
<1>4. Revert \in Draft /\ Revert.row = draft.row /\ Revert.value = shown[draft.row] /\ ~Revert.dirty
  BY <1>2, <1>3, SettledFacts DEF Revert
<1> QED
  BY <1>4 DEF Due

LEMMA EscFacts ==
  ASSUME TypeOK, Esc
  PROVE  /\ NothingSaved
         /\ \/ draft \in Draft /\ draft' = Revert /\ UNCHANGED <<open, focus, tries>>
            \/ open' = FALSE /\ focus' = 1 /\ draft' = None /\ tries' = tries
<1>1. CASE draft # None /\ draft.dirty
  <2>1. draft \in Draft
    BY <1>1 DEF TypeOK
  <2>2. PICK late \in BOOLEAN : Stay(Revert, late)
    BY <1>1 DEF Esc
  <2> QED
    BY <1>1, <2>1, <2>2, RevertFacts, TypeParts DEF Stay, Esc
<1>2. CASE ~(draft # None /\ draft.dirty)
  BY <1>2 DEF Esc, Close
<1> QED
  BY <1>1, <1>2

-----------------------------------------------------------------------------
(* The type invariant.                                                     *)

\* Every variable keeps its type: no value that is not an engine's is in force, shown,
\* stored or confirmed (SearchEngine::new).
THEOREM TypeCorrect == Spec => []TypeOK
<1>1. Init => TypeOK
  <2> SUFFICES ASSUME Init PROVE TypeOK
    OBVIOUS
  <2>1. PICK env \in BOOLEAN \cup {None} : live = Resolved(NoRows, env) /\ locked = (env # None)
    BY DEF Init
  <2>2. Full(live) /\ Full(shown) /\ Partial(saved) /\ Partial(confirmed) /\ broken \in BOOLEAN
    BY <2>1, NoRowsFacts, ResolvedFacts DEF Init
  <2>3. store \in {"open", "none"} /\ locked \in BOOLEAN
    BY <2>1 DEF Init
  <2>4. focus \in 1..Len(Rows)
    BY FocusFacts DEF Init
  <2>5. draft = None /\ keys = 0 /\ session = 1 /\ tries = 0 /\ open = FALSE
    BY DEF Init
  <2>6. RowsOK
    BY <2>2 DEF RowsOK
  <2>7. draft \in Draft \cup {None} /\ open \in BOOLEAN
    BY <2>5
  <2>8. keys \in Nat /\ session \in Nat /\ tries \in 0..2
    BY <2>5
  <2> QED
    BY <2>3, <2>4, <2>6, <2>7, <2>8, TypeParts
<1>2. TypeOK /\ [Next]_vars => TypeOK'
  <2> SUFFICES ASSUME TypeOK, [Next]_vars PROVE TypeOK'
    OBVIOUS
  <2>0. RowsOK
    BY TypeParts
  <2> DEFINE Rest == /\ store \in {"open", "none"}
                     /\ locked \in BOOLEAN /\ open \in BOOLEAN
                     /\ focus \in 1..Len(Rows)
                     /\ draft \in Draft \cup {None}
                     /\ keys \in Nat /\ session \in Nat /\ tries \in 0..2
  <2>a. Rest
    BY TypeParts
  <2> SUFFICES RowsOK' /\ Rest'
    BY Zenon DEF TypeOK, RowsOK, Full, Partial
  <2>1. CASE Restart
    <3>1. PICK env \in BOOLEAN \cup {None} :
            /\ locked' = (env # None)
            /\ \/ /\ store' = "open"
                  /\ \E rows \in Readable(saved) : live' = Resolved(rows, env) /\ broken' = (rows # saved)
               \/ store' = "none" /\ live' = Resolved(NoRows, env) /\ broken' = TRUE
      BY <2>1 DEF Restart
    <3>2. Full(live') /\ broken' \in BOOLEAN
      BY <2>0, <3>1, NoRowsFacts, ReadableFacts, ResolvedFacts DEF RowsOK
    <3>3. RowsOK'
      BY <2>0, <2>1, <3>2 DEF Restart, RowsOK, Partial
    <3>4. /\ store' \in {"open", "none"} /\ locked' \in BOOLEAN
          /\ focus' \in 1..Len(Rows)
      BY <2>1, <3>1, FocusFacts DEF Restart
    <3>5. /\ open' = FALSE /\ draft' = None /\ keys' = keys /\ session' = session + 1
          /\ tries' = 0
      BY <2>1 DEF Restart
    <3>6. keys' \in Nat /\ session' \in Nat /\ tries' \in 0..2
      BY <2>a, <3>5
    <3>7. draft' \in Draft \cup {None}
      BY <2>a, <3>5
    <3>8. open' \in BOOLEAN
      BY <2>a, <3>5
    <3> QED
      BY <3>3, <3>4, <3>6, <3>7, <3>8
  <2>2. CASE OpenPanel
    <3>1. RowsOK'
      BY <2>0, <2>2 DEF OpenPanel, RowsOK, Full, Partial
    <3> QED
      BY <2>a, <2>2, <3>1, FocusFacts DEF OpenPanel, session_vars
  <2>3. CASE Toggle
    <3> DEFINE checked == ~shown["enabled"]
    <3>1. checked \in BOOLEAN
      OBVIOUS
    <3>2. /\ live' = [live EXCEPT !["enabled"] = checked]
          /\ shown' = [shown EXCEPT !["enabled"] = checked]
          /\ saved' \in {saved, [saved EXCEPT !["enabled"] = checked]}
          /\ confirmed' \in {confirmed, [confirmed EXCEPT !["enabled"] = checked],
                             [confirmed EXCEPT !["enabled"] = None]}
          /\ broken' \in {TRUE, broken}
      BY <2>3 DEF Toggle
    <3> HIDE DEF checked
    <3>3. RowsOK'
      BY <2>0, <3>1, <3>2, AllowedFacts DEF RowsOK, Full, Partial
    <3> QED
      BY <2>a, <2>3, <3>3 DEF Toggle, session_vars
  <2>4. CASE Type
    <3>1. Saving /\ draft' \in Draft
      BY <2>a, <2>4 DEF Type, Saving, Draft
    <3> QED
      BY <2>0, <2>a, <2>4, <3>1, SavingFacts DEF Type, session_vars
  <2>5. CASE MoveFocus
    <3>1. RowsOK'
      BY <2>0, <2>a, <2>5, LeaveFacts, SavingFacts DEF MoveFocus
    <3>2. focus' \in 1..Len(Rows)
      BY <2>a, <2>5, FocusFacts DEF MoveFocus
    <3>3. draft' \in Draft \cup {None}
      BY <2>5, <3>1, <3>2, FreshFacts DEF MoveFocus, RowsOK
    <3> QED
      BY <2>a, <2>5, <3>1, <3>2, <3>3 DEF MoveFocus, session_vars
  <2>6. CASE Esc
    <3>1. RowsOK'
      BY <2>0, <2>6, EscFacts, SavingFacts DEF Saving
    <3>2. UNCHANGED <<keys, store, locked, session>>
      BY <2>6 DEF Esc, session_vars
    <3>3. CASE draft \in Draft /\ draft' = Revert /\ UNCHANGED <<open, focus, tries>>
      BY <2>0, <2>a, <3>1, <3>2, <3>3, RevertFacts
    <3>4. CASE open' = FALSE /\ focus' = 1 /\ draft' = None /\ tries' = tries
      <4>1. focus' \in 1..Len(Rows)
        BY <3>4, FocusFacts
      <4>2. open' \in BOOLEAN /\ draft' \in Draft \cup {None} /\ tries' \in 0..2
        BY <2>a, <3>4
      <4> QED
        BY <2>a, <3>1, <3>2, <4>1, <4>2
    <3> QED
      BY <2>6, <3>3, <3>4, EscFacts
  <2>7. CASE ClickLink
    <3>1. Saving
      BY <2>a, <2>7 DEF ClickLink, Saving, MaySave
    <3> QED
      BY <2>0, <2>a, <2>7, <3>1, SavingFacts DEF ClickLink, session_vars
  <2>8. CASE Idle
    <3>1. draft \in Draft /\ Stay(draft, TRUE)
      BY <2>a, <2>8 DEF Idle
    <3>2. tries' \in {1, 2, tries}
      BY <2>0, <3>1, StayFacts
    <3>3. RowsOK' /\ draft' \in Draft
      BY <2>0, <3>1, StayFacts, SavingFacts
    <3>4. tries' \in 0..2
      BY <2>a, <3>2
    <3>5. UNCHANGED <<open, focus, keys, store, locked, session>>
      BY <2>8 DEF Idle, session_vars
    <3> QED
      BY <2>a, <3>3, <3>4, <3>5
  <2>9. CASE UNCHANGED vars
    BY <2>0, <2>a, <2>9 DEF vars, panel, session_vars, seen, RowsOK, Full, Partial
  <2> QED
    BY <2>1, <2>2, <2>3, <2>4, <2>5, <2>6, <2>7, <2>8, <2>9 DEF Next
<1> QED
  BY <1>1, <1>2, PTL DEF Spec

-----------------------------------------------------------------------------
(* Drafts.                                                                 *)

\* The keys change the draft of the row they are read for.
THEOREM DraftCorrect == Spec => []DraftIsOfFocusedRow
<1>1. Init => DraftIsOfFocusedRow
  BY DEF Init, DraftIsOfFocusedRow
<1>2. TypeOK /\ DraftIsOfFocusedRow /\ [Next]_vars => DraftIsOfFocusedRow'
  <2> SUFFICES ASSUME TypeOK, DraftIsOfFocusedRow, [Next]_vars PROVE DraftIsOfFocusedRow'
    OBVIOUS
  <2>0. RowsOK /\ draft \in Draft \cup {None} /\ focus \in 1..Len(Rows) /\ open \in BOOLEAN
    BY TypeParts
  <2>1. ASSUME open' = FALSE, draft' = None PROVE DraftIsOfFocusedRow'
    BY <2>1 DEF DraftIsOfFocusedRow
  <2>2. ASSUME UNCHANGED <<open, focus>>, draft \in Draft, draft' \in Draft, draft'.row = draft.row
        PROVE  DraftIsOfFocusedRow'
    <3>1. draft # None /\ draft' # None
      BY <2>2, DraftFacts
    <3> QED
      BY <2>2, <3>1 DEF DraftIsOfFocusedRow
  <2>3. CASE Restart \/ ClickLink
    BY <2>1, <2>3 DEF Restart, ClickLink
  <2>4. CASE OpenPanel
    BY <2>4, FocusFacts DEF OpenPanel, DraftIsOfFocusedRow
  <2>5. CASE Toggle \/ UNCHANGED vars
    BY <2>5 DEF Toggle, vars, panel, DraftIsOfFocusedRow
  <2>6. CASE Type
    <3>1. draft \in Draft /\ draft' \in Draft /\ draft'.row = draft.row
      BY <2>0, <2>6 DEF Type, Draft
    <3> QED
      BY <2>2, <2>6, <3>1 DEF Type
  <2>7. CASE MoveFocus
    <3>1. Full(shown')
      BY <2>0, <2>7, LeaveFacts, SavingFacts DEF MoveFocus, RowsOK
    <3>2. focus' \in 1..Len(Rows)
      BY <2>0, <2>7, FocusFacts DEF MoveFocus
    <3>3. draft' = Fresh(Rows[focus'], shown') /\ open /\ open' = open
      BY <2>7 DEF MoveFocus
    <3>4. IF Rows[focus'] \in TextRows THEN draft' \in Draft /\ draft'.row = Rows[focus']
                                       ELSE draft' = None
      BY <3>1, <3>2, <3>3, FreshFacts
    <3> QED
      BY <3>3, <3>4, DraftFacts DEF DraftIsOfFocusedRow
  <2>8. CASE Esc
    BY <2>0, <2>1, <2>2, <2>8, EscFacts, RevertFacts
  <2>9. CASE Idle
    <3>1. draft \in Draft /\ Stay(draft, TRUE) /\ UNCHANGED <<open, focus>>
      BY <2>0, <2>9 DEF Idle
    <3> QED
      BY <2>0, <2>2, <3>1, StayFacts
  <2> QED
    BY <2>3, <2>4, <2>5, <2>6, <2>7, <2>8, <2>9 DEF Next
<1> QED
  BY <1>1, <1>2, TypeCorrect, PTL DEF Spec

\* A draft that the timer has tried is not one it would try again.
TriesInv == tries <= 1 /\ (tries = 1 => Quiet(draft))

\* The timer tries a draft once between keystrokes.
THEOREM AutosaveCorrect == Spec => []AutosaveTriesOnce
<1>1. Init => TriesInv
  BY DEF Init, TriesInv
<1>2. TypeOK /\ TriesInv /\ [Next]_vars => TriesInv'
  <2> SUFFICES ASSUME TypeOK, TriesInv, [Next]_vars PROVE TriesInv'
    OBVIOUS
  <2>0. RowsOK /\ draft \in Draft \cup {None} /\ tries \in 0..2
    BY TypeParts
  <2>1. ASSUME tries' = 0 PROVE TriesInv'
    BY <2>1 DEF TriesInv
  <2>2. ASSUME tries' = tries, Quiet(draft) => Quiet(draft') PROVE TriesInv'
    BY <2>2 DEF TriesInv
  <2>3. CASE Restart \/ OpenPanel \/ Type \/ MoveFocus
    BY <2>1, <2>3 DEF Restart, OpenPanel, Type, MoveFocus
  <2>4. CASE Toggle \/ UNCHANGED vars
    <3>1. tries' = tries /\ draft' = draft
      BY <2>4 DEF Toggle, vars, seen, panel
    <3> QED
      BY <2>2, <3>1 DEF Quiet
  <2>5. CASE Esc
    <3>1. tries' = tries
      BY <2>5, EscFacts
    <3>2. draft' = None \/ (draft \in Draft /\ draft' = Revert)
      BY <2>5, EscFacts
    <3>3. Quiet(draft')
      BY <2>0, <3>2, RevertFacts DEF Quiet
    <3> QED
      BY <2>2, <3>1, <3>3
  <2>6. CASE ClickLink
    <3>1. tries' = tries /\ draft' = None
      BY <2>6 DEF ClickLink
    <3> QED
      BY <2>2, <3>1 DEF Quiet
  <2>7. CASE Idle
    <3>1. draft \in Draft /\ Stay(draft, TRUE) /\ Due(draft, TRUE)
      BY <2>0, <2>7 DEF Idle
    <3>2. ~Quiet(draft)
      BY <3>1, DraftFacts DEF Due, Quiet
    <3>3. \/ Quiet(draft') /\ tries = 0 /\ tries' = 1
          \/ Quiet(draft') /\ tries # 0
          \/ draft' = draft /\ tries' = tries
      BY <2>0, <3>1, StayFacts
    <3>4. tries = 0
      BY <2>0, <3>2 DEF TriesInv
    <3> QED
      BY <2>2, <3>3, <3>4 DEF TriesInv
  <2> QED
    BY <2>3, <2>4, <2>5, <2>6, <2>7 DEF Next
<1>3. TriesInv => AutosaveTriesOnce
  BY DEF TriesInv, AutosaveTriesOnce
<1> QED
  BY <1>1, <1>2, <1>3, TypeCorrect, PTL DEF Spec

\* Esc saves nothing, also when the timer runs out as it is pressed.
THEOREM EscCorrect == Spec => EscSavesNothing
<1>1. TypeOK /\ [Next]_vars => [Esc => UNCHANGED <<live, saved>>]_vars
  BY EscFacts DEF NothingSaved
<1> QED
  BY <1>1, TypeCorrect, PTL DEF Spec, EscSavesNothing

\* What the focus moves on from is in force, unless it is no engine or was not edited.
THEOREM LeavingCorrect == Spec => LeavingSaves
<1> DEFINE Left == MoveFocus /\ draft # None =>
                     \/ live'[draft.row] = draft.value
                     \/ draft.row = "base" /\ draft.value \notin ValidBases
                     \/ ~draft.dirty
<1>1. TypeOK /\ [Next]_vars => Left
  <2> SUFFICES ASSUME TypeOK, MoveFocus, draft # None, draft.dirty
               PROVE  \/ live'[draft.row] = draft.value
                      \/ draft.row = "base" /\ draft.value \notin ValidBases
    OBVIOUS
  <2>1. RowsOK /\ draft \in Draft
    BY TypeParts
  <2>2. Save(draft) \/ Reject(draft) \/ SaveBreaks(draft)
    BY DEF MoveFocus, Leave
  <2>3. CASE Save(draft) \/ SaveBreaks(draft)
    BY <2>1, <2>3, ProposedFacts DEF Save, SaveBreaks
  <2>4. CASE Reject(draft)
    <3>1. Proposed(draft)["base"] \notin ValidBases
      BY <2>4 DEF Reject, IsEngine
    <3>2. live["base"] \in ValidBases
      BY <2>1, AllowedFacts DEF RowsOK, Full
    <3> QED
      BY <2>1, <3>1, <3>2, ProposedFacts, AllowedFacts
  <2> QED
    BY <2>2, <2>3, <2>4
<1>2. TypeOK /\ [Next]_vars => [Left]_vars
  BY <1>1
<1> QED
  BY <1>2, TypeCorrect, PTL DEF Spec, LeavingSaves

-----------------------------------------------------------------------------
(* The panel, the settings and the store.                                  *)

\* An open panel shows what is in force, whatever was typed, saved or rejected, until the
\* store fails.
THEOREM PanelCorrect == Spec => []PanelShowsWhatIsInForce
<1> DEFINE CleanIsLive == draft # None /\ ~draft.dirty => draft.value = live[draft.row]
<1>1. Init => PanelShowsWhatIsInForce
  BY DEF Init, PanelShowsWhatIsInForce
<1>2. TypeOK /\ DraftIsOfFocusedRow /\ PanelShowsWhatIsInForce /\ [Next]_vars
        => PanelShowsWhatIsInForce'
  <2> SUFFICES ASSUME TypeOK, DraftIsOfFocusedRow, PanelShowsWhatIsInForce, [Next]_vars,
                      open', ~broken'
               PROVE  shown' = live' /\ CleanIsLive'
    BY DEF PanelShowsWhatIsInForce
  <2>0. RowsOK /\ draft \in Draft \cup {None} /\ focus \in 1..Len(Rows)
    BY TypeParts
  <2>a. ASSUME open, ~broken PROVE shown = live /\ CleanIsLive
    BY <2>a DEF PanelShowsWhatIsInForce
  <2> HIDE DEF PanelShowsWhatIsInForce
  <2>b. ASSUME open, Saving PROVE shown' = live' /\ shown = live /\ CleanIsLive
    BY <2>0, <2>a, <2>b, SavingFacts
  <2>1. CASE Restart \/ ClickLink
    BY <2>1 DEF Restart, ClickLink
  <2>2. CASE OpenPanel
    BY <2>2 DEF OpenPanel
  <2>3. CASE Toggle
    <3>1. draft' = None
      BY <2>3, FocusFacts DEF Toggle, DraftIsOfFocusedRow
    <3>2. shown = live
      BY <2>a, <2>3 DEF Toggle
    <3> QED
      BY <2>3, <3>1, <3>2 DEF Toggle
  <2>4. CASE Type
    <3>1. open /\ NothingSaved /\ draft \in Draft
      BY <2>0, <2>4 DEF Type
    <3>2. draft'.dirty
      BY <2>4, <3>1 DEF Type, Draft
    <3> QED
      BY <2>b, <3>1, <3>2 DEF Saving
  <2>5. CASE MoveFocus
    <3>1. Saving /\ open
      BY <2>0, <2>5, LeaveFacts DEF MoveFocus
    <3>2. Full(shown') /\ focus' \in 1..Len(Rows)
      BY <2>0, <2>5, <3>1, SavingFacts, FocusFacts DEF MoveFocus, RowsOK
    <3>3. draft' # None => draft'.value = shown'[draft'.row]
      BY <2>5, <3>2, FreshFacts DEF MoveFocus
    <3> QED
      BY <2>b, <3>1, <3>3
  <2>6. CASE Esc
    <3>1. NothingSaved /\ open /\ draft \in Draft /\ draft' = Revert
      BY <2>6, EscFacts DEF Esc
    <3>2. shown' = live' /\ shown = live /\ live' = live
      BY <2>b, <3>1 DEF Saving, NothingSaved
    <3> QED
      BY <2>0, <3>1, <3>2, RevertFacts
  <2>7. CASE Idle
    <3>1. draft \in Draft /\ Stay(draft, TRUE) /\ open
      BY <2>0, <2>7 DEF Idle
    <3>2. Saving /\ draft'.row = draft.row
      BY <2>0, <3>1, StayFacts
    <3>3. shown' = live' /\ shown = live /\ CleanIsLive
      BY <2>b, <3>1, <3>2
    <3>4. ~draft'.dirty =>
            (Save(draft) /\ draft'.value = draft.value) \/ (NothingSaved /\ draft' = draft)
      BY <2>0, <3>1, StayFacts
    <3>5. ASSUME Save(draft), draft'.value = draft.value
          PROVE  CleanIsLive'
      BY <2>0, <3>1, <3>2, <3>5, SaveFacts DEF MaySave
    <3>6. ASSUME NothingSaved, draft' = draft
          PROVE  CleanIsLive'
      BY <3>3, <3>6 DEF NothingSaved
    <3> QED
      BY <3>3, <3>4, <3>5, <3>6
  <2>8. CASE UNCHANGED vars
    BY <2>a, <2>8 DEF vars, panel, seen
  <2> QED
    BY <2>1, <2>2, <2>3, <2>4, <2>5, <2>6, <2>7, <2>8 DEF Next
<1> QED
  BY <1>1, <1>2, TypeCorrect, DraftCorrect, PTL DEF Spec

\* What was shown as set is stored, at all times.
LEMMA StoredCorrect == Spec => []ConfirmedIsStored
<1>1. Init => ConfirmedIsStored
  BY DEF Init, ConfirmedIsStored
<1>2. TypeOK /\ ConfirmedIsStored /\ [Next]_vars => ConfirmedIsStored'
  <2> SUFFICES ASSUME TypeOK, ConfirmedIsStored, [Next]_vars PROVE ConfirmedIsStored'
    OBVIOUS
  <2>0. RowsOK /\ draft \in Draft \cup {None}
    BY TypeParts
  <2>1. CASE Restart \/ OpenPanel \/ UNCHANGED vars
    BY <2>1 DEF Restart, OpenPanel, vars, seen, ConfirmedIsStored
  <2>2. CASE Toggle
    <3> DEFINE checked == ~shown["enabled"]
    <3>1. \/ /\ saved' = [saved EXCEPT !["enabled"] = checked]
             /\ confirmed' = [confirmed EXCEPT !["enabled"] = checked]
          \/ saved' = saved /\ confirmed' = confirmed
          \/ saved' = saved /\ confirmed' = [confirmed EXCEPT !["enabled"] = None]
      BY <2>2 DEF Toggle
    <3> HIDE DEF checked
    <3> QED
      BY <2>0, <3>1 DEF ConfirmedIsStored, RowsOK, Partial
  <2>3. CASE Type \/ MoveFocus \/ ClickLink
    <3>1. Saving
      BY <2>0, <2>3, LeaveFacts DEF Type, MoveFocus, ClickLink, Saving, MaySave
    <3> QED
      BY <2>0, <3>1, SavingFacts
  <2>4. CASE Esc
    BY <2>0, <2>4, EscFacts, SavingFacts DEF Saving
  <2>5. CASE Idle
    <3>1. draft \in Draft /\ Stay(draft, TRUE)
      BY <2>0, <2>5 DEF Idle
    <3> QED
      BY <2>0, <3>1, StayFacts, SavingFacts
  <2> QED
    BY <2>1, <2>2, <2>3, <2>4, <2>5 DEF Next
<1> QED
  BY <1>1, <1>2, TypeCorrect, PTL DEF Spec

\* A start that can read the store puts what was shown as set in force.
THEOREM SettingsSurvive == Spec => ConfirmedSettingsSurvive
<1> DEFINE Survive == session' # session /\ ~broken' =>
              \A s \in Settings : confirmed[s] # None /\ (s = "enabled" => ~locked') =>
                live'[s] = confirmed[s]
<1>1. TypeOK /\ ConfirmedIsStored /\ [Next]_vars => Survive
  <2> SUFFICES ASSUME TypeOK, ConfirmedIsStored, [Next]_vars, session' # session, ~broken',
                      NEW s \in Settings, confirmed[s] # None, s = "enabled" => ~locked'
               PROVE  live'[s] = confirmed[s]
    OBVIOUS
  <2>0. Partial(saved)
    BY TypeParts DEF RowsOK
  <2>1. Restart
    BY DEF Next, OpenPanel, Toggle, Type, MoveFocus, Esc, ClickLink, Idle, vars, session_vars
  <2>2. PICK env \in BOOLEAN \cup {None} :
          /\ locked' = (env # None)
          /\ \/ \E rows \in Readable(saved) : live' = Resolved(rows, env) /\ broken' = (rows # saved)
             \/ broken' = TRUE
    BY <2>1 DEF Restart
  <2>3. live' = Resolved(saved, env)
    BY <2>2
  <2>4. saved[s] # None /\ saved[s] = confirmed[s]
    BY DEF ConfirmedIsStored
  <2>5. s = "enabled" => env = None
    BY <2>2
  <2> QED
    BY <2>0, <2>3, <2>4, <2>5, ResolvedFacts
<1>2. TypeOK /\ ConfirmedIsStored /\ [Next]_vars => [Survive]_vars
  BY <1>1
<1> QED
  BY <1>2, TypeCorrect, StoredCorrect, PTL DEF Spec, ConfirmedSettingsSurvive
=============================================================================
