----------------------------- MODULE FormFields -----------------------------
(***************************************************************************)
(* The live values of a page's form controls: seeded from the page, edited *)
(* by the keys of interactive navigation, drawn over the placeholders and  *)
(* sent with the form (browser-core form_field_values.rs, form_controls.rs *)
(* and lib.rs; browser-terminal lib.rs, the field activations).            *)
(*                                                                         *)
(* A text is its number of characters, 0 the empty one.  A NodeId is the   *)
(* place of the control on its page.  What may carry an edit to another    *)
(* page is the subject of EventLoop: here a page is left with no edit open *)
(* only, as the keys do.                                                   *)
(***************************************************************************)
EXTENDS Naturals, SequencesExt

CONSTANTS
    Pages,      \* the pages that may be loaded: see PageType
    MaxLength,  \* bound: the characters of a draft
    None        \* no name, no form, no edit, nothing sent

ASSUME NoneAssumption == None \notin Nat
ASSUME LengthAssumption == MaxLength \in Nat

Toggle == {"checkbox", "radio"}
Select == {"select", "multiselect"}
Written == {"text", "hidden", "textarea"}
Button == {"submit", "reset"}
Kind == Toggle \cup Select \cup Written \cup Button \cup {"password"}

Option == [value : Nat, selected : BOOLEAN]

ControlType ==
    [kind    : Kind,
     form    : Nat \cup {None},  \* the enclosing form
     name    : Nat \cup {None},  \* None for a control without a name
     value   : Nat,
     checked : BOOLEAN,
     options : Seq(Option)]

PageType == [controls : Seq(ControlType), posts : SUBSET Nat]

ASSUME PagesAssumption == Pages \subseteq PageType

VARIABLES
    page,     \* the current page: its controls, and the forms whose method is POST
    fields,   \* FormFieldValues
    edit,     \* FieldEditState: the control, and its draft or its cursor
    confirm,  \* SubmitConfirmation: the button, and whether Submit is highlighted
    sent,     \* the submission under way: its button and its pairs
    edited    \* observation: the controls edited since the page or a reset seeded them

vars == <<page, fields, edit, confirm, sent, edited>>

Control == page.controls
Ids == DOMAIN Control

\* find_enclosing_form and collect_controls.
InForm(id) == Control[id].form # None
ControlsOf(form) == {id \in Ids : Control[id].form = form /\ Control[id].kind \notin Button}

\* FieldState
TextState(t) == [is |-> "text", value |-> t]
SecretState(t) == [is |-> "secret", value |-> t]
CheckedState(b) == [is |-> "checked", value |-> b]
SelectedState(s) == [is |-> "selected", value |-> s]
Unset == [is |-> "unset", value |-> None]

ValueAs(kind, id, default) == IF fields[id].is = kind THEN fields[id].value ELSE default
TextOf(id) == ValueAs("text", id, 0)
SecretOf(id) == ValueAs("secret", id, 0)
IsChecked(id) == ValueAs("checked", id, FALSE)
SelectedValues(id) == ValueAs("selected", id, <<>>)

-----------------------------------------------------------------------------

\* The values a select starts with, in the order of its options.
SelectedOptions(options) ==
    LET upTo[n \in 0 .. Len(options)] ==
          IF n = 0 THEN <<>>
          ELSE IF options[n].selected THEN Append(upTo[n - 1], options[n].value)
          ELSE upTo[n - 1]
    IN  upTo[Len(options)]

\* seed_control: a password has no default to be seeded from.
Seed(c) ==
    CASE c.kind \in Written -> TextState(c.value)
      [] c.kind \in Toggle  -> CheckedState(c.checked)
      [] c.kind \in Select  -> SelectedState(SelectedOptions(c.options))
      [] OTHER              -> Unset

\* seed_form_field_values, into an empty map.
Seeds(p) ==
    [id \in DOMAIN p.controls |->
       IF p.controls[id].form = None THEN Unset ELSE Seed(p.controls[id])]

\* For the mutants: a reset does not come to the selects.
SeedFormButSelects(form) ==
    [id \in Ids |-> IF Control[id].form = form /\ Control[id].kind \in Written \cup Toggle
                    THEN Seed(Control[id]) ELSE fields[id]]

\* seed_form, over the values the form has.
SeedForm(form) ==
    [id \in Ids |-> IF Control[id].form = form /\ Seed(Control[id]) # Unset
                    THEN Seed(Control[id]) ELSE fields[id]]

\* For the mutants: the radios of a name, whichever form they are in.
RadiosOfThePage(form, name) ==
    {id \in Ids : Control[id].kind = "radio" /\ Control[id].name = name}

\* radio_sibling_ids
RadioSiblings(form, name) ==
    {id \in ControlsOf(form) : Control[id].kind = "radio" /\ Control[id].name = name}

\* toggle_value
ToggleValue(values, v) ==
    IF v \in ToSet(values) THEN RemoveFirst(values, v) ELSE Append(values, v)

\* next_select_value: the option after the first one with the current value.
NextOption(options, values) ==
    LET holding == {i \in DOMAIN options : values # <<>> /\ options[i].value = values[1]}
    IN  CASE options = <<>> -> 0
          [] options # <<>> /\ holding = {} -> options[1].value
          [] options # <<>> /\ holding # {} ->
               options[(Min(holding) % Len(options)) + 1].value

-----------------------------------------------------------------------------

\* The pairs of a submission; each carries the control it is of.
Pair(id, v) == [of |-> id, name |-> Control[id].name, value |-> v]
On == 2  \* the text "on"

\* For the mutants: a toggle sends what the page had checked.
ControlPairsByDefault(id) ==
    CASE Control[id].name = None -> <<>>
      [] Control[id].name # None /\ Control[id].kind \in Toggle ->
           IF Control[id].checked THEN <<Pair(id, Control[id].value)>> ELSE <<>>
      [] OTHER -> <<Pair(id, TextOf(id))>>

\* push_control_pairs
ControlPairs(id) ==
    LET c == Control[id]
    IN  CASE c.name = None -> <<>>
          [] c.name # None /\ c.kind \in Toggle ->
               IF IsChecked(id) THEN <<Pair(id, IF c.value = 0 THEN On ELSE c.value)>>
               ELSE <<>>
          [] c.name # None /\ c.kind \in Select ->
               [i \in DOMAIN SelectedValues(id) |-> Pair(id, SelectedValues(id)[i])]
          [] c.name # None /\ c.kind = "password" -> <<Pair(id, SecretOf(id))>>
          [] c.name # None /\ c.kind \in Written -> <<Pair(id, TextOf(id))>>

ButtonPairs(id) == IF Control[id].name = None THEN <<>> ELSE <<Pair(id, Control[id].value)>>

\* The controls of a form up to the n-th of the page, as the walk comes to them.
PairsUpTo(form) ==
    LET pairs[n \in 0 .. Len(Control)] ==
          IF n = 0 THEN <<>>
          ELSE IF n \in ControlsOf(form) THEN pairs[n - 1] \o ControlPairs(n)
          ELSE pairs[n - 1]
    IN  pairs

\* build_submission_pairs
SubmissionPairs(button) ==
    PairsUpTo(Control[button].form)[Len(Control)] \o ButtonPairs(button)

\* build_field_overlay: what is drawn over each control; of a secret only its
\* length, a select by the labels of the options that have a selected value (here
\* by their places).
Overlay(id) ==
    LET c == Control[id]
    IN  CASE c.kind \in Written   -> [shows |-> "text", of |-> TextOf(id)]
          [] c.kind = "password"  -> [shows |-> "mask", of |-> SecretOf(id)]
          [] c.kind \in Toggle    -> [shows |-> "mark", of |-> IsChecked(id)]
          [] c.kind \in Select    -> [shows |-> "labels",
               of |-> {i \in DOMAIN c.options :
                         c.options[i].value \in ToSet(SelectedValues(id))}]

-----------------------------------------------------------------------------

Init ==
    /\ page \in Pages
    /\ fields = Seeds(page)
    /\ edit = None
    /\ confirm = None
    /\ sent = None
    /\ edited = {}

\* The keys of interactive navigation are read.
Navigating == edit = None /\ confirm = None /\ sent = None

Set(id, state) ==
    /\ fields' = [fields EXCEPT ![id] = state]
    /\ edited' = edited \cup {id}

\* activate_input_field
ToggleCheckbox(id) ==
    /\ Navigating
    /\ Control[id].kind = "checkbox" /\ InForm(id)
    /\ Set(id, CheckedState(~IsChecked(id)))
    /\ UNCHANGED <<page, edit, confirm, sent>>

\* select_radio: a radio without a name is refused.
SelectRadio(id) ==
    /\ Navigating
    /\ Control[id].kind = "radio" /\ InForm(id) /\ Control[id].name # None
    /\ LET group == RadioSiblings(Control[id].form, Control[id].name)
       IN  fields' = [r \in Ids |-> IF r \in group THEN CheckedState(r = id) ELSE fields[r]]
    /\ edited' = edited \cup RadioSiblings(Control[id].form, Control[id].name)
    /\ UNCHANGED <<page, edit, confirm, sent>>

\* enter_text_edit: a secret is never put back into a draft.
OpenTextEdit(id) ==
    /\ Navigating
    /\ \/ Control[id].kind \in {"text", "password"} /\ InForm(id)
       \/ Control[id].kind = "textarea"
    /\ edit' = [id |-> id, secret |-> Control[id].kind = "password",
                at |-> IF Control[id].kind = "password" THEN 0 ELSE TextOf(id)]
    /\ UNCHANGED <<page, fields, confirm, sent, edited>>

IsTextEdit == edit # None /\ Control[edit.id].kind # "multiselect"
IsMultiSelect == edit # None /\ Control[edit.id].kind = "multiselect"

\* field_text_input, field_text_delete_back
Type(draft) ==
    /\ IsTextEdit
    /\ draft \in 0 .. MaxLength
    /\ draft = edit.at + 1 \/ draft + 1 = edit.at
    /\ edit' = [edit EXCEPT !.at = draft]
    /\ UNCHANGED <<page, fields, confirm, sent, edited>>

\* commit_field_text_edit: a control outside every form is not known.
CommitTextEdit ==
    /\ IsTextEdit
    /\ IF InForm(edit.id)
       THEN Set(edit.id, IF edit.secret THEN SecretState(edit.at) ELSE TextState(edit.at))
       ELSE UNCHANGED <<fields, edited>>
    /\ edit' = None
    /\ UNCHANGED <<page, confirm, sent>>

\* Esc, and the end of the multi-select, whose toggles are in force already.
CloseEdit ==
    /\ edit # None
    /\ edit' = None
    /\ UNCHANGED <<page, fields, confirm, sent, edited>>

\* activate_select_field
CycleSelect(id) ==
    /\ Navigating
    /\ Control[id].kind = "select" /\ InForm(id)
    /\ Set(id, SelectedState(<<NextOption(Control[id].options, SelectedValues(id))>>))
    /\ UNCHANGED <<page, edit, confirm, sent>>

OpenMultiSelect(id) ==
    /\ Navigating
    /\ Control[id].kind = "multiselect" /\ InForm(id)
    /\ edit' = [id |-> id, secret |-> FALSE, at |-> 1]
    /\ UNCHANGED <<page, fields, confirm, sent, edited>>

\* field_multi_select_move_up, field_multi_select_move_down
MoveCursor ==
    /\ IsMultiSelect
    /\ \E i \in DOMAIN Control[edit.id].options :
          /\ i = edit.at + 1 \/ i + 1 = edit.at
          /\ edit' = [edit EXCEPT !.at = i]
    /\ UNCHANGED <<page, fields, confirm, sent, edited>>

\* apply_field_multi_select_toggle
ToggleOption ==
    /\ IsMultiSelect
    /\ edit.at \in DOMAIN Control[edit.id].options
    /\ Set(edit.id, SelectedState(ToggleValue(SelectedValues(edit.id),
                                              Control[edit.id].options[edit.at].value)))
    /\ UNCHANGED <<page, edit, confirm, sent>>

\* reset_form
ResetForm(id) ==
    /\ Navigating
    /\ Control[id].kind = "reset" /\ InForm(id)
    /\ fields' = SeedForm(Control[id].form)
    /\ edited' = {k \in edited : Control[k].form # Control[id].form}
    /\ UNCHANGED <<page, edit, confirm, sent>>

\* submit_with_progress, up to the request.
Send(button) == sent' = [button |-> button, pairs |-> SubmissionPairs(button)]

\* dispatch_submit_activation: a GET form goes out at once, a POST form asks.
ActivateSubmit(id) ==
    /\ Navigating
    /\ Control[id].kind = "submit" /\ InForm(id)
    /\ IF Control[id].form \in page.posts
       THEN confirm' = [button |-> id, submit |-> FALSE] /\ UNCHANGED sent
       ELSE Send(id) /\ UNCHANGED confirm
    /\ UNCHANGED <<page, fields, edit, edited>>

\* submit_confirmation_toggle
ToggleChoice ==
    /\ confirm # None
    /\ confirm' = [confirm EXCEPT !.submit = ~@]
    /\ UNCHANGED <<page, fields, edit, sent, edited>>

\* activate_submit_confirmation, and Esc
ActivateChoice ==
    /\ confirm # None
    /\ IF confirm.submit THEN Send(confirm.button) ELSE UNCHANGED sent
    /\ confirm' = None
    /\ UNCHANGED <<page, fields, edit, edited>>

\* finish_load of the answer: a new page has values of its own.
LoadSucceeds(p) ==
    /\ sent # None
    /\ page' = p
    /\ fields' = Seeds(p)
    /\ edited' = {}
    /\ sent' = None
    /\ UNCHANGED <<edit, confirm>>

LoadFails ==
    /\ sent # None
    /\ sent' = None
    /\ UNCHANGED <<page, fields, edit, confirm, edited>>

Next ==
    \/ \E id \in Ids : ToggleCheckbox(id)
    \/ \E id \in Ids : SelectRadio(id)
    \/ \E id \in Ids : OpenTextEdit(id)
    \/ \E draft \in 0 .. MaxLength : Type(draft)
    \/ CommitTextEdit
    \/ CloseEdit
    \/ \E id \in Ids : CycleSelect(id)
    \/ \E id \in Ids : OpenMultiSelect(id)
    \/ MoveCursor
    \/ ToggleOption
    \/ \E id \in Ids : ResetForm(id)
    \/ \E id \in Ids : ActivateSubmit(id)
    \/ ToggleChoice
    \/ ActivateChoice
    \/ \E p \in Pages : LoadSucceeds(p)
    \/ LoadFails

Spec == Init /\ [][Next]_vars

-----------------------------------------------------------------------------

FieldStateOK(state) ==
    /\ state.is \in {"text", "secret"} => state.value \in Nat
    /\ state.is = "checked" => state.value \in BOOLEAN
    /\ state.is = "selected" => state.value \in Seq(Nat)

TypeOK ==
    /\ page \in Pages
    /\ DOMAIN fields = Ids
    /\ \A id \in Ids : FieldStateOK(fields[id])
    /\ edit = None \/ edit \in [id : Ids, secret : BOOLEAN, at : Nat]
    /\ confirm = None \/ confirm \in [button : Ids, submit : BOOLEAN]
    /\ edited \subseteq Ids

(***************************************************************************)
(* Radio buttons exclude each other: once one of a form's radios of a name *)
(* was selected, exactly one of them is checked, whatever is edited, reset *)
(* or sent in between and whatever other forms use the name for (core      *)
(* lib.rs, select_radio).  Before that, a page may have checked several.   *)
(***************************************************************************)
SameGroup(id) ==
    {r \in Ids : /\ Control[r].kind = "radio"
                 /\ Control[r].form = Control[id].form
                 /\ Control[r].name = Control[id].name}

RadiosExcludeEachOther ==
    \A id \in edited : Control[id].kind = "radio" =>
       \E r \in SameGroup(id) : \A q \in SameGroup(id) : IsChecked(q) <=> q = r

(***************************************************************************)
(* What nobody edited since the page was loaded or its form reset has the  *)
(* value the page gave it: editing or resetting one form leaves the others *)
(* alone, and a hidden control goes back to the server as it came (core    *)
(* lib.rs, seed_form_field_values: "This is what makes a hidden field      *)
(* round-trip").  Passwords are left out: see ResetDiscardsEdits.          *)
(***************************************************************************)
UntouchedFieldsKeepTheirDefault ==
    \A id \in Ids \ edited : Control[id].kind # "password" => fields[id] = Seeds(page)[id]

(***************************************************************************)
(* A submission is what the page shows: of each control of the form, and   *)
(* of no other, the pairs are those that the overlay drawn over it says,   *)
(* in the order of the page and the button's last.  Two walks compute the  *)
(* two apart (core lib.rs, build_field_overlay and build_submission_pairs).*)
(* A select without options is left out: Enter gives it the empty value,   *)
(* which goes out and is not drawn (terminal lib.rs, next_select_value).   *)
(***************************************************************************)
ShownPairs(id) ==
    LET over == Overlay(id)
    IN  CASE Control[id].name = None -> {}
          [] Control[id].name # None /\ over.shows \in {"text", "mask"} -> {Pair(id, over.of)}
          [] Control[id].name # None /\ over.shows = "mark" ->
               IF ~over.of THEN {}
               ELSE {Pair(id, IF Control[id].value = 0 THEN On ELSE Control[id].value)}
          [] Control[id].name # None /\ over.shows = "labels" ->
               {Pair(id, Control[id].options[i].value) : i \in over.of}

HasNoOptions(id) == Control[id].kind = "select" /\ Control[id].options = <<>>
ShownControls(form) == {id \in ControlsOf(form) : ~HasNoOptions(id)}

AreShown(pairs, button) ==
    /\ {pair \in ToSet(pairs) : ~HasNoOptions(pair.of)}
       = (UNION {ShownPairs(id) : id \in ShownControls(Control[button].form)})
         \cup ToSet(ButtonPairs(button))
    /\ \A i, j \in DOMAIN pairs :
          i < j => /\ pairs[i].of # button
                   /\ pairs[j].of = button \/ pairs[i].of <= pairs[j].of

WhatIsSentIsShown == sent # None => AreShown(sent.pairs, sent.button)

(***************************************************************************)
(* "Resets the form enclosing `id` back to its parsed defaults, discarding *)
(* every edit the user made to its controls" (core lib.rs, reset_form).    *)
(***************************************************************************)
ResetDiscardsEdits ==
    \A id \in Ids \ edited : fields[id] = Seeds(page)[id]
=============================================================================
