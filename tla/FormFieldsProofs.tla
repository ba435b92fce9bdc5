--------------------------- MODULE FormFieldsProofs ---------------------------
(***************************************************************************)
(* Proofs about FormFields, for any pages and drafts of any length.  What  *)
(* a walk over the options of a select or the controls of a page collects  *)
(* is proved by induction on how far the walk has come: its function is    *)
(* shown to satisfy its own equation first, since TLA+ chooses it.         *)
(***************************************************************************)
EXTENDS FormFields, SequenceTheorems, WellFoundedInduction, TLAPS

-----------------------------------------------------------------------------
(* Induction over the length of a walk.                                    *)

\* A set of numbers that is not empty has a least one.
LEMMA LeastNumber ==
  ASSUME NEW S \in SUBSET Nat, S # {}
  PROVE  \E n \in S : \A m \in S : n <= m
<1>1. PICK n \in S : \A m \in S : ~ (<<m, n>> \in OpToRel(<, Nat))
  BY NatLessThanWellFounded, WFMin
<1>2. \A m \in S : ~ (m < n)
  BY <1>1 DEF OpToRel
<1> QED
  BY <1>2

\* A set that holds zero, and every number after one of its own, holds them all.
LEMMA Induction ==
  ASSUME NEW S, 0 \in S, NEW N \in Nat, \A n \in 1 .. N : n - 1 \in S => n \in S
  PROVE  0 .. N \subseteq S
<1> SUFFICES ASSUME ~(0 .. N \subseteq S) PROVE FALSE
  OBVIOUS
<1> DEFINE T == (0 .. N) \ S
<1>1. T \in SUBSET Nat /\ T # {}
  OBVIOUS
<1>2. PICK n \in T : \A m \in T : n <= m
  BY <1>1, LeastNumber
<1> QED
  BY <1>2

\* A walk of N steps through X: where it starts, and what each step makes of the last place.
IsWalk(f, X, N, start, step) ==
  /\ f \in [0 .. N -> X]
  /\ f[0] = start
  /\ \A n \in 1 .. N : f[n] = step[n][f[n - 1]]

LEMMA WalkExists ==
  ASSUME NEW X, NEW N \in Nat, NEW start \in X, NEW step \in [1 .. N -> [X -> X]]
  PROVE  \E f : IsWalk(f, X, N, start, step)
<1> DEFINE Steps(n, f) == f[0] = start /\ \A i \in 1 .. n : f[i] = step[i][f[i - 1]]
           S == {n \in 0 .. N : \E f \in [0 .. n -> X] : Steps(n, f)}
<1>1. 0 \in S
  <2> DEFINE f == [i \in 0 .. 0 |-> start]
  <2>1. f \in [0 .. 0 -> X] /\ Steps(0, f)
    OBVIOUS
  <2> HIDE DEF Steps, f
  <2> QED
    BY <2>1
<1>2. ASSUME NEW n \in 1 .. N, n - 1 \in S PROVE n \in S
  <2>1. PICK f \in [0 .. n - 1 -> X] : Steps(n - 1, f)
    BY <1>2
  <2> DEFINE g == [i \in 0 .. n |-> IF i = n THEN step[n][f[n - 1]] ELSE f[i]]
  <2>2. n - 1 \in 0 .. n - 1 /\ n - 1 # n /\ 0 \in 0 .. n - 1 /\ 0 # n /\ n \in 0 .. n
    OBVIOUS
  <2>3. f[n - 1] \in X /\ step[n][f[n - 1]] \in X
    BY <2>2
  <2>4. /\ g \in [0 .. n -> X]
        /\ g[n] = step[n][f[n - 1]]
        /\ \A i \in 0 .. n - 1 : g[i] = f[i]
    BY <2>3
  <2> HIDE DEF g
  <2>5. g[0] = start /\ g[n] = step[n][g[n - 1]]
    BY <2>1, <2>2, <2>4
  <2>6. ASSUME NEW i \in 1 .. n - 1 PROVE g[i] = step[i][g[i - 1]]
    <3>1. i \in 0 .. n - 1 /\ i - 1 \in 0 .. n - 1
      OBVIOUS
    <3> QED
      BY <2>1, <2>4, <3>1
  <2>7. \A i \in 1 .. n : i = n \/ i \in 1 .. n - 1
    OBVIOUS
  <2>8. Steps(n, g)
    BY <2>5, <2>6, <2>7
  <2> HIDE DEF Steps
  <2> QED
    BY <2>4, <2>8
<1>3. N \in S
  <2> HIDE DEF S
  <2>1. 0 .. N \subseteq S
    BY <1>1, <1>2, Induction, Zenon
  <2> QED
    BY <2>1
<1> QED
  BY <1>3 DEF IsWalk

-----------------------------------------------------------------------------
(* The options of a select.                                                *)

OptionValues(options) == {options[i].value : i \in DOMAIN options}

\* The walk over the options satisfies its equation, and collects values they have.
LEMMA SelectedFacts ==
  ASSUME NEW options \in Seq(Option)
  PROVE  SelectedOptions(options) \in Seq(OptionValues(options))
<1> DEFINE N == Len(options)
           X == Seq(OptionValues(options))
           Step(n, s) == IF options[n].selected THEN Append(s, options[n].value) ELSE s
           step == [n \in 1 .. N |-> [s \in X |-> Step(n, s)]]
           Walk(f) == [n \in 0 .. N |-> IF n = 0 THEN <<>> ELSE Step(n, f[n - 1])]
           walk == CHOOSE f : f = Walk(f)
<1>1. SelectedOptions(options) = walk[N]
  BY DEF SelectedOptions
<1>2. N \in Nat /\ <<>> \in X
  OBVIOUS
<1>3. \A n \in 1 .. N, s \in X : Step(n, s) \in X
  BY DEF OptionValues
<1> HIDE DEF Step, X, N
<1>4. step \in [1 .. N -> [X -> X]]
  BY <1>3
<1>5. PICK f : IsWalk(f, X, N, <<>>, step)
  BY <1>2, <1>4, WalkExists
<1>6. f = Walk(f)
  <2>1. f \in [0 .. N -> X] /\ \A n \in 1 .. N : f[n - 1] \in X
    BY <1>2, <1>5 DEF IsWalk
  <2>2. \A n \in 1 .. N : f[n] = Step(n, f[n - 1])
    BY <1>5, <2>1 DEF IsWalk
  <2> QED
    BY <1>2, <1>5, <2>1, <2>2 DEF IsWalk
<1>7. walk = Walk(walk)
  BY <1>6
<1> HIDE DEF walk
<1>8. \A n \in 0 .. N : walk[n] = IF n = 0 THEN <<>> ELSE Step(n, walk[n - 1])
  BY <1>7
<1> DEFINE S == {n \in 0 .. N : walk[n] \in X}
<1>9. 0 \in S /\ \A n \in 1 .. N : n - 1 \in S => n \in S
  BY <1>2, <1>3, <1>8
<1>10. N \in S
  <2> HIDE DEF S
  <2>1. 0 .. N \subseteq S
    BY <1>2, <1>9, Induction
  <2> QED
    BY <1>2, <2>1
<1> QED
  BY <1>1, <1>10 DEF X

\* What a select offers; one without options is given the empty value by Enter.
Offers(c) == IF c.kind = "select" /\ c.options = <<>> THEN Nat ELSE OptionValues(c.options)

LEMMA OffersFacts ==
  ASSUME NEW c \in ControlType
  PROVE  /\ c.options \in Seq(Option)
         /\ OptionValues(c.options) \subseteq Offers(c)
         /\ Offers(c) \subseteq Nat
<1>1. c.options \in Seq(Option)
  BY DEF ControlType
<1>2. OptionValues(c.options) \subseteq Nat
  <2>1. \A i \in DOMAIN c.options : c.options[i] \in Option
    BY <1>1
  <2> QED
    BY <2>1 DEF OptionValues, Option
<1> QED
  BY <1>1, <1>2 DEF Offers

\* Taking a value out of the selection, or putting one in, leaves a selection.
LEMMA ToggleFacts ==
  ASSUME NEW V, NEW values \in Seq(V), NEW v \in V
  PROVE  ToggleValue(values, v) \in Seq(V)
<1>1. Append(values, v) \in Seq(V)
  OBVIOUS
<1>2. \A i \in 1 .. Len(values) : RemoveAt(values, i) \in Seq(V)
  <2> SUFFICES ASSUME NEW i \in 1 .. Len(values) PROVE RemoveAt(values, i) \in Seq(V)
    OBVIOUS
  <2>1. SubSeq(values, 1, i - 1) \in Seq(V) /\ SubSeq(values, i + 1, Len(values)) \in Seq(V)
    OBVIOUS
  <2> QED
    BY <2>1 DEF RemoveAt
<1>3. RemoveFirst(values, v) \in Seq(V)
  <2> DEFINE I == {i \in 1 .. Len(values) : values[i] = v}
  <2>1. CASE I = {}
    BY <2>1 DEF RemoveFirst
  <2>2. CASE I # {}
    <3>1. Min(I) \in I
      <4>1. I \in SUBSET Nat
        OBVIOUS
      <4> QED
        BY <2>2, <4>1, LeastNumber DEF Min
    <3>2. RemoveFirst(values, v) = RemoveAt(values, Min(I))
      BY <2>2 DEF RemoveFirst, SelectInSeq
    <3> QED
      BY <1>2, <3>1, <3>2
  <2> QED
    BY <2>1, <2>2
<1> QED
  BY <1>1, <1>3 DEF ToggleValue

\* Enter on a select goes to one of its options.
LEMMA NextFacts ==
  ASSUME NEW c \in ControlType, c.kind = "select", NEW values
  PROVE  NextOption(c.options, values) \in Offers(c)
<1>1. c.options \in Seq(Option)
  BY OffersFacts
<1>2. CASE c.options = <<>>
  BY <1>2 DEF NextOption, Offers
<1>3. CASE c.options # <<>>
  <2> DEFINE holding == {i \in DOMAIN c.options : values # <<>> /\ c.options[i].value = values[1]}
             at == (Min(holding) % Len(c.options)) + 1
  <2>1. Len(c.options) \in Nat \ {0} /\ DOMAIN c.options = 1 .. Len(c.options)
    BY <1>1, <1>3, EmptySeq
  <2>2. \A i \in DOMAIN c.options : c.options[i].value \in Offers(c)
    BY <1>3 DEF Offers, OptionValues
  <2>3. CASE holding = {}
    <3>1. NextOption(c.options, values) = c.options[1].value
      BY <1>3, <2>3 DEF NextOption
    <3> QED
      BY <2>1, <2>2, <3>1
  <2>4. CASE holding # {}
    <3>1. Min(holding) \in Nat
      <4>1. holding \in SUBSET Nat
        BY <2>1
      <4> QED
        BY <2>4, <4>1, LeastNumber DEF Min
    <3>2. at \in DOMAIN c.options
      BY <2>1, <3>1
    <3>3. NextOption(c.options, values) = c.options[at].value
      BY <1>3, <2>4 DEF NextOption
    <3> QED
      BY <2>2, <3>2, <3>3
  <2> QED
    BY <2>3, <2>4
<1> QED
  BY <1>2, <1>3

-----------------------------------------------------------------------------
(* Pages and their controls.                                               *)

LEMMA SeedFacts ==
  ASSUME NEW c \in ControlType
  PROVE  /\ FieldStateOK(Seed(c))
         /\ c.kind \in Written \cup Toggle \cup Select => Seed(c) # Unset
         /\ c.kind \in Button \cup {"password"} => Seed(c) = Unset
<1> USE DEF ControlType, Kind, Written, Toggle, Select, Button
<1>1. CASE c.kind \in Written
  <2>1. Seed(c) = TextState(c.value)
    BY <1>1 DEF Seed
  <2> QED
    BY <1>1, <2>1 DEF TextState, FieldStateOK, Unset
<1>2. CASE c.kind \in Toggle
  <2>1. Seed(c) = CheckedState(c.checked)
    BY <1>2 DEF Seed
  <2> QED
    BY <1>2, <2>1 DEF CheckedState, FieldStateOK, Unset
<1>3. CASE c.kind \in Select
  <2>1. Seed(c) = SelectedState(SelectedOptions(c.options))
    BY <1>3 DEF Seed
  <2>2. SelectedOptions(c.options) \in Seq(Nat)
    <3>1. OptionValues(c.options) \subseteq Nat /\ c.options \in Seq(Option)
      BY OffersFacts
    <3> QED
      BY <3>1, SelectedFacts
  <2> HIDE DEF ControlType
  <2> QED
    BY <1>3, <2>1, <2>2 DEF SelectedState, FieldStateOK, Unset
<1>4. CASE c.kind \in Button \cup {"password"}
  <2>1. Seed(c) = Unset
    BY <1>4 DEF Seed
  <2> QED
    BY <1>4, <2>1 DEF FieldStateOK, Unset
<1> QED
  BY <1>1, <1>2, <1>3, <1>4

\* A page that was just loaded.
LEMMA SeedsFacts ==
  ASSUME NEW p \in Pages
  PROVE  /\ DOMAIN Seeds(p) = DOMAIN p.controls
         /\ \A id \in DOMAIN p.controls :
              /\ p.controls[id] \in ControlType
              /\ FieldStateOK(Seeds(p)[id])
              /\ p.controls[id].form # None => Seeds(p)[id] = Seed(p.controls[id])
<1>1. p.controls \in Seq(ControlType)
  BY PagesAssumption DEF PageType
<1>2. \A id \in DOMAIN p.controls : p.controls[id] \in ControlType
  BY <1>1
<1>3. \A id \in DOMAIN p.controls : FieldStateOK(Seed(p.controls[id]))
  BY <1>2, SeedFacts
<1>4. FieldStateOK(Unset)
  BY DEF FieldStateOK, Unset
<1> QED
  BY <1>2, <1>3, <1>4 DEF Seeds

-----------------------------------------------------------------------------
(* The invariant.                                                          *)

\* A draft is of a control that takes one; a button is never edited; a draft, the
\* confirmation and a submission under way exclude each other.
EditableKind == {"text", "password", "textarea", "multiselect"}
EditsAreOfEditables == edit # None => Control[edit.id].kind \in EditableKind
OneMode == /\ sent # None => edit = None /\ confirm = None
           /\ edit # None => confirm = None
ButtonsAreNotEdited == \A id \in edited : Control[id].kind \notin Button

\* What is selected in a select is offered by it: this is why what its overlay leaves
\* out, a value none of its options has, is never sent.
SelectionsAreOffered ==
  \A id \in Ids : Control[id].kind \in Select => SelectedValues(id) \in Seq(Offers(Control[id]))

\* Only a submit button asks for a confirmation.
ConfirmsASubmit == confirm # None => Control[confirm.button].kind = "submit"

IInv ==
  /\ TypeOK
  /\ OneMode
  /\ EditsAreOfEditables
  /\ ButtonsAreNotEdited
  /\ RadiosExcludeEachOther
  /\ UntouchedFieldsKeepTheirDefault

\* The same for the submissions, inductive together with IInv.
SentInv ==
  /\ SelectionsAreOffered
  /\ ConfirmsASubmit
  /\ WhatIsSentIsShown

-----------------------------------------------------------------------------
(***************************************************************************)
(* The walk over the controls of a page.  Of every control, what goes out  *)
(* is what its overlay shows; of the controls so far, in their order.      *)
(***************************************************************************)

PairType == [of : Ids, name : Nat, value : Nat]

LEMMA ConcatFacts ==
  ASSUME NEW V, NEW s \in Seq(V), NEW t \in Seq(V)
  PROVE  /\ s \o t \in Seq(V)
         /\ ToSet(s \o t) = ToSet(s) \cup ToSet(t)
         /\ Len(s \o t) = Len(s) + Len(t)
         /\ \A i \in 1 .. Len(s) : (s \o t)[i] = s[i]
         /\ \A i \in 1 .. Len(t) : (s \o t)[Len(s) + i] = t[i]
<1>1. s \o t \in Seq(V) /\ Len(s \o t) = Len(s) + Len(t) /\ Len(s) \in Nat /\ Len(t) \in Nat
  OBVIOUS
<1>2. \A i \in 1 .. Len(s) : (s \o t)[i] = s[i]
  OBVIOUS
<1>3. \A i \in 1 .. Len(t) : (s \o t)[Len(s) + i] = t[i]
  BY <1>1
<1>4. \A i \in 1 .. Len(s) + Len(t) :
         i \in 1 .. Len(s) \/ \E j \in 1 .. Len(t) : i = Len(s) + j
  <2> SUFFICES ASSUME NEW i \in 1 .. Len(s) + Len(t), i \notin 1 .. Len(s)
               PROVE  \E j \in 1 .. Len(t) : i = Len(s) + j
    OBVIOUS
  <2>1. i - Len(s) \in 1 .. Len(t) /\ i = Len(s) + (i - Len(s))
    BY <1>1
  <2> QED
    BY <2>1
<1>5. ToSet(s \o t) = ToSet(s) \cup ToSet(t)
  <2>1. /\ ToSet(s) = {s[i] : i \in 1 .. Len(s)} /\ ToSet(t) = {t[i] : i \in 1 .. Len(t)}
        /\ ToSet(s \o t) = {(s \o t)[i] : i \in 1 .. Len(s) + Len(t)}
    BY <1>1 DEF ToSet
  <2>2. \A i \in 1 .. Len(s) : i \in 1 .. Len(s) + Len(t)
    BY <1>1
  <2>3. \A i \in 1 .. Len(t) : Len(s) + i \in 1 .. Len(s) + Len(t)
    BY <1>1
  <2>4. \A x \in ToSet(s) \cup ToSet(t) : x \in ToSet(s \o t)
    <3>1. \A i \in 1 .. Len(s) : s[i] \in ToSet(s \o t)
      BY <1>2, <2>1, <2>2
    <3>2. \A i \in 1 .. Len(t) : t[i] \in ToSet(s \o t)
      BY <1>3, <2>1, <2>3
    <3> QED
      BY <2>1, <3>1, <3>2
  <2>5. \A i \in 1 .. Len(s) + Len(t) : (s \o t)[i] \in ToSet(s) \cup ToSet(t)
    BY <1>2, <1>3, <1>4, <2>1
  <2> QED
    BY <2>1, <2>4, <2>5
<1> QED
  BY <1>1, <1>2, <1>3, <1>5

LEMMA ControlIds ==
  ASSUME TypeOK
  PROVE  /\ Len(Control) \in Nat
         /\ Ids = 1 .. Len(Control)
         /\ \A id \in Ids : Control[id] \in ControlType
<1>1. Control \in Seq(ControlType)
  BY PagesAssumption DEF TypeOK, PageType, Control
<1> QED
  BY <1>1 DEF Ids

LEMMA OneOf == \A x : ToSet(<<x>>) = {x} /\ ToSet(<<>>) = {}
BY DEF ToSet

\* The pairs of one control.
LEMMA ControlPairsFacts ==
  ASSUME TypeOK, SelectionsAreOffered, NEW id \in Ids, Control[id].kind \notin Button
  PROVE  /\ ControlPairs(id) \in Seq(PairType)
         /\ \A pair \in ToSet(ControlPairs(id)) : pair.of = id
         /\ ~HasNoOptions(id) => ToSet(ControlPairs(id)) = ShownPairs(id)
<1> DEFINE c == Control[id]
<1>1. c \in ControlType
  BY ControlIds
<1>2. /\ c.kind \in Kind /\ c.value \in Nat /\ (c.name # None => c.name \in Nat)
      /\ TextOf(id) \in Nat /\ SecretOf(id) \in Nat /\ IsChecked(id) \in BOOLEAN
  <2>1. FieldStateOK(fields[id])
    BY DEF TypeOK
  <2> QED
    BY <1>1, <2>1 DEF ControlType, FieldStateOK, TextOf, SecretOf, IsChecked, ValueAs
<1>3. ASSUME c.name # None, NEW v \in Nat
      PROVE  /\ Pair(id, v) \in PairType /\ Pair(id, v).of = id
             /\ <<Pair(id, v)>> \in Seq(PairType)
  BY <1>2, <1>3 DEF Pair, PairType
<1> HIDE DEF c
<1> USE DEF Kind, Toggle, Select, Written, Button
<1>4. CASE c.name = None
  <2>1. ControlPairs(id) = <<>> /\ ShownPairs(id) = {}
    BY <1>4 DEF ControlPairs, ShownPairs, c
  <2> QED
    BY <2>1, OneOf
<1>5. CASE c.name # None /\ c.kind \in Toggle
  <2> DEFINE v == IF c.value = 0 THEN On ELSE c.value
  <2>1. /\ ControlPairs(id) = IF IsChecked(id) THEN <<Pair(id, v)>> ELSE <<>>
        /\ ShownPairs(id) = IF IsChecked(id) THEN {Pair(id, v)} ELSE {}
    BY <1>5 DEF ControlPairs, ShownPairs, Overlay, c
  <2>2. v \in Nat
    BY <1>2 DEF On
  <2> HIDE DEF v
  <2>3. Pair(id, v).of = id /\ <<Pair(id, v)>> \in Seq(PairType) /\ <<>> \in Seq(PairType)
    BY <1>3, <1>5, <2>2
  <2>4. CASE IsChecked(id)
    BY <2>1, <2>3, <2>4, OneOf
  <2>5. CASE ~IsChecked(id)
    BY <2>1, <2>3, <2>5, OneOf
  <2> QED
    BY <2>4, <2>5
<1>6. CASE c.name # None /\ c.kind = "password"
  <2>1. ControlPairs(id) = <<Pair(id, SecretOf(id))>> /\ ShownPairs(id) = {Pair(id, SecretOf(id))}
    BY <1>6 DEF ControlPairs, ShownPairs, Overlay, c
  <2> QED
    BY <1>2, <1>3, <1>6, <2>1, OneOf
<1>7. CASE c.name # None /\ c.kind \in Written
  <2>1. ControlPairs(id) = <<Pair(id, TextOf(id))>> /\ ShownPairs(id) = {Pair(id, TextOf(id))}
    BY <1>7 DEF ControlPairs, ShownPairs, Overlay, c
  <2> QED
    BY <1>2, <1>3, <1>7, <2>1, OneOf
<1>8. CASE c.name # None /\ c.kind \in Select
  <2> DEFINE values == SelectedValues(id)
  <2>1. values \in Seq(Offers(c)) /\ Offers(c) \subseteq Nat
    BY <1>1, <1>8, OffersFacts DEF SelectionsAreOffered, c
  <2>2. ControlPairs(id) = [i \in DOMAIN values |-> Pair(id, values[i])]
    BY <1>8 DEF ControlPairs, c
  <2>3. ShownPairs(id) =
          {Pair(id, c.options[i].value) :
             i \in {k \in DOMAIN c.options : c.options[k].value \in ToSet(values)}}
    BY <1>8 DEF ShownPairs, Overlay, c
  <2> HIDE DEF values
  <2>4. Len(values) \in Nat /\ DOMAIN values = 1 .. Len(values)
        /\ \A i \in DOMAIN values : values[i] \in Offers(c) /\ values[i] \in Nat
    BY <2>1
  <2>5. ControlPairs(id) \in Seq(PairType)
    BY <1>3, <1>8, <2>2, <2>4
  <2>6. ToSet(ControlPairs(id)) = {Pair(id, values[i]) : i \in DOMAIN values}
    BY <2>2 DEF ToSet
  <2>7. ASSUME ~HasNoOptions(id) PROVE ToSet(ControlPairs(id)) = ShownPairs(id)
    <3>1. \A i \in DOMAIN values : \E k \in DOMAIN c.options : c.options[k].value = values[i]
      BY <2>4, <2>7 DEF Offers, OptionValues, HasNoOptions, c
    <3> QED
      BY <2>3, <2>6, <3>1 DEF ToSet
  <2> QED
    BY <1>3, <1>8, <2>4, <2>5, <2>6, <2>7
<1> QED
  BY <1>2, <1>4, <1>5, <1>6, <1>7, <1>8 DEF c

\* What the walk has collected after the n-th control of the page.
SoFar(form, n, s) ==
  /\ s \in Seq(PairType)
  /\ \A pair \in ToSet(s) : pair.of \in ControlsOf(form) /\ pair.of <= n
  /\ \A i, j \in DOMAIN s : i < j => s[i].of <= s[j].of
  /\ {pair \in ToSet(s) : ~HasNoOptions(pair.of)}
     = UNION {ShownPairs(id) : id \in {k \in ShownControls(form) : k <= n}}

LEMMA NextControl ==
  ASSUME TypeOK, SelectionsAreOffered, NEW form, NEW n \in Ids, NEW s, SoFar(form, n - 1, s)
  PROVE  SoFar(form, n, IF n \in ControlsOf(form) THEN s \o ControlPairs(n) ELSE s)
<1>1. n \in Nat /\ ControlsOf(form) \subseteq Nat /\ ShownControls(form) \subseteq ControlsOf(form)
  BY ControlIds DEF ControlsOf, ShownControls
<1>2. /\ s \in Seq(PairType) /\ Len(s) \in Nat /\ DOMAIN s = 1 .. Len(s)
      /\ \A pair \in ToSet(s) : pair.of \in ControlsOf(form) /\ pair.of <= n - 1
      /\ \A i \in DOMAIN s : s[i] \in ToSet(s)
  BY DEF SoFar, ToSet
<1>3. CASE n \notin ControlsOf(form)
  <2>1. \A pair \in ToSet(s) : pair.of <= n
    BY <1>1, <1>2
  <2>2. {k \in ShownControls(form) : k <= n} = {k \in ShownControls(form) : k <= n - 1}
    BY <1>1, <1>3
  <2> QED
    BY <1>3, <2>1, <2>2 DEF SoFar
<1>4. CASE n \in ControlsOf(form)
  <2> DEFINE own == ControlPairs(n)
             both == s \o own
  <2>1. /\ own \in Seq(PairType)
        /\ \A pair \in ToSet(own) : pair.of = n
        /\ ~HasNoOptions(n) => ToSet(own) = ShownPairs(n)
    BY <1>4, ControlPairsFacts DEF ControlsOf
  <2>2. Len(own) \in Nat /\ \A i \in 1 .. Len(own) : own[i] \in ToSet(own)
    BY <2>1 DEF ToSet
  <2> HIDE DEF own
  <2>3. /\ both \in Seq(PairType)
        /\ ToSet(both) = ToSet(s) \cup ToSet(own)
        /\ Len(both) = Len(s) + Len(own) /\ DOMAIN both = 1 .. Len(both)
        /\ \A i \in 1 .. Len(s) : both[i] = s[i]
        /\ \A i \in 1 .. Len(own) : both[Len(s) + i] = own[i]
    BY <1>2, <2>1, ConcatFacts
  <2> HIDE DEF both
  <2>4. \A pair \in ToSet(both) : pair.of \in ControlsOf(form) /\ pair.of <= n
    BY <1>1, <1>2, <1>4, <2>1, <2>3
  <2>5. ASSUME NEW i \in DOMAIN both, NEW j \in DOMAIN both, i < j
        PROVE  both[i].of <= both[j].of
    <3>1. CASE j \in 1 .. Len(s)
      <4>1. i \in 1 .. Len(s)
        BY <1>2, <2>2, <2>3, <2>5, <3>1
      <4> QED
        BY <1>2, <2>3, <2>5, <3>1, <4>1 DEF SoFar
    <3>2. CASE j \notin 1 .. Len(s)
      <4>1. j - Len(s) \in 1 .. Len(own) /\ j = Len(s) + (j - Len(s))
        BY <1>2, <2>2, <2>3, <2>5, <3>2
      <4>2. both[j].of = n
        BY <2>1, <2>2, <2>3, <4>1
      <4>3. both[i] \in ToSet(both)
        BY DEF ToSet
      <4> QED
        BY <2>4, <4>2, <4>3
    <3> QED
      BY <3>1, <3>2
  <2>6. {pair \in ToSet(both) : ~HasNoOptions(pair.of)}
        = UNION {ShownPairs(id) : id \in {k \in ShownControls(form) : k <= n}}
    <3> DEFINE old == {k \in ShownControls(form) : k <= n - 1}
    <3>1. {pair \in ToSet(s) : ~HasNoOptions(pair.of)} = UNION {ShownPairs(id) : id \in old}
      BY DEF SoFar
    <3>2. CASE HasNoOptions(n)
      <4>1. {k \in ShownControls(form) : k <= n} = old
        BY <1>1, <3>2 DEF ShownControls
      <4>2. {pair \in ToSet(both) : ~HasNoOptions(pair.of)}
            = {pair \in ToSet(s) : ~HasNoOptions(pair.of)}
        BY <2>1, <2>3, <3>2
      <4> QED
        BY <3>1, <4>1, <4>2
    <3>3. CASE ~HasNoOptions(n)
      <4>1. {k \in ShownControls(form) : k <= n} = old \cup {n}
        BY <1>1, <1>4, <3>3 DEF ShownControls
      <4>2. {pair \in ToSet(both) : ~HasNoOptions(pair.of)}
            = {pair \in ToSet(s) : ~HasNoOptions(pair.of)} \cup ShownPairs(n)
        BY <2>1, <2>3, <3>3
      <4> HIDE DEF old
      <4> QED
        BY <3>1, <4>1, <4>2
    <3> QED
      BY <3>2, <3>3
  <2>7. SoFar(form, n, both)
    BY <2>3, <2>4, <2>5, <2>6 DEF SoFar
  <2> QED
    BY <1>4, <2>7 DEF both, own
<1> QED
  BY <1>3, <1>4

\* The walk ends with what the overlays of the form show.
LEMMA WalkFacts ==
  ASSUME TypeOK, SelectionsAreOffered, NEW form
  PROVE  SoFar(form, Len(Control), PairsUpTo(form)[Len(Control)])
<1> DEFINE N == Len(Control)
           X == Seq(PairType)
           Step(n, s) == IF n \in ControlsOf(form) THEN s \o ControlPairs(n) ELSE s
           step == [n \in 1 .. N |-> [s \in X |-> Step(n, s)]]
           Walk(f) == [n \in 0 .. N |-> IF n = 0 THEN <<>> ELSE Step(n, f[n - 1])]
           walk == PairsUpTo(form)
<1>1. walk = CHOOSE f : f = Walk(f)
  BY DEF PairsUpTo
<1>2. N \in Nat /\ <<>> \in X /\ Ids = 1 .. N
  BY ControlIds
<1>3. \A n \in 1 .. N, s \in X : Step(n, s) \in X
  BY <1>2, ControlPairsFacts DEF ControlsOf
<1>a. \A n \in 1 .. N : \A s : SoFar(form, n - 1, s) => SoFar(form, n, Step(n, s))
  BY <1>2, NextControl
<1>b. SoFar(form, 0, <<>>)
  <2>1. {k \in ShownControls(form) : k <= 0} = {}
    BY <1>2 DEF ShownControls, ControlsOf
  <2> QED
    BY <2>1, OneOf DEF SoFar
<1> HIDE DEF Step, X, N
<1>4. step \in [1 .. N -> [X -> X]]
  BY <1>3
<1>5. PICK f : IsWalk(f, X, N, <<>>, step)
  BY <1>2, <1>4, WalkExists
<1>6. f = Walk(f)
  <2>1. f \in [0 .. N -> X] /\ \A n \in 1 .. N : f[n - 1] \in X
    BY <1>2, <1>5 DEF IsWalk
  <2>2. \A n \in 1 .. N : f[n] = Step(n, f[n - 1])
    BY <1>5, <2>1 DEF IsWalk
  <2> QED
    BY <1>2, <1>5, <2>1, <2>2 DEF IsWalk
<1> HIDE DEF walk
<1>7. walk = Walk(walk)
  BY <1>1, <1>6
<1>8. \A n \in 0 .. N : walk[n] = IF n = 0 THEN <<>> ELSE Step(n, walk[n - 1])
  BY <1>7
<1> DEFINE S == {n \in 0 .. N : SoFar(form, n, walk[n])}
<1>9. 0 \in S /\ \A n \in 1 .. N : n - 1 \in S => n \in S
  BY <1>2, <1>8, <1>a, <1>b
<1>10. N \in S
  <2> HIDE DEF S
  <2>1. 0 .. N \subseteq S
    BY <1>2, <1>9, Induction
  <2> QED
    BY <1>2, <2>1
<1> QED
  BY <1>10 DEF N, walk

\* A submission is what the page shows.
LEMMA SubmissionFacts ==
  ASSUME TypeOK, SelectionsAreOffered, NEW button \in Ids, Control[button].kind = "submit"
  PROVE  AreShown(SubmissionPairs(button), button)
<1> DEFINE form == Control[button].form
           s == PairsUpTo(form)[Len(Control)]
           own == ButtonPairs(button)
           both == s \o own
<1>1. SoFar(form, Len(Control), s)
  BY WalkFacts
<1>2. /\ Len(Control) \in Nat /\ Ids = 1 .. Len(Control)
      /\ Control[button] \in ControlType
  BY ControlIds
<1>3. /\ own \in Seq(PairType) /\ Len(own) \in {0, 1}
      /\ \A pair \in ToSet(own) : pair.of = button
  <2>1. CASE Control[button].name = None
    BY <2>1, OneOf DEF ButtonPairs
  <2>2. CASE Control[button].name # None
    <3>1. own = <<Pair(button, Control[button].value)>>
      BY <2>2 DEF ButtonPairs
    <3>2. Pair(button, Control[button].value) \in PairType
          /\ Pair(button, Control[button].value).of = button
      BY <1>2, <2>2 DEF Pair, PairType, ControlType
    <3> HIDE DEF own
    <3> QED
      BY <3>1, <3>2, OneOf
  <2> QED
    BY <2>1, <2>2
<1>4. button \notin ControlsOf(form) /\ ~HasNoOptions(button)
  BY DEF ControlsOf, Button, HasNoOptions
<1>5. {k \in ShownControls(form) : k <= Len(Control)} = ShownControls(form)
  BY <1>2 DEF ShownControls, ControlsOf
<1>6. /\ s \in Seq(PairType) /\ Len(s) \in Nat /\ DOMAIN s = 1 .. Len(s)
      /\ \A pair \in ToSet(s) : pair.of \in ControlsOf(form)
      /\ \A i \in DOMAIN s : s[i] \in ToSet(s)
  BY <1>1 DEF SoFar, ToSet
<1>7. SubmissionPairs(button) = both
  BY DEF SubmissionPairs
<1>8. own # <<>> => own[1] \in ToSet(own)
  BY <1>3 DEF ToSet
<1> HIDE DEF own, s
<1>9. /\ ToSet(both) = ToSet(s) \cup ToSet(own)
      /\ Len(both) = Len(s) + Len(own) /\ DOMAIN both = 1 .. Len(both)
      /\ \A i \in 1 .. Len(s) : both[i] = s[i]
      /\ \A i \in 1 .. Len(own) : both[Len(s) + i] = own[i]
  BY <1>3, <1>6, ConcatFacts
<1> HIDE DEF both, form
<1>10. {pair \in ToSet(both) : ~HasNoOptions(pair.of)}
       = (UNION {ShownPairs(id) : id \in ShownControls(form)}) \cup ToSet(own)
  <2>1. {pair \in ToSet(s) : ~HasNoOptions(pair.of)}
        = UNION {ShownPairs(id) : id \in ShownControls(form)}
    BY <1>1, <1>5 DEF SoFar
  <2>2. {pair \in ToSet(both) : ~HasNoOptions(pair.of)}
        = {pair \in ToSet(s) : ~HasNoOptions(pair.of)} \cup ToSet(own)
    BY <1>3, <1>4, <1>9
  <2> QED
    BY <2>1, <2>2
<1>11. ASSUME NEW i \in DOMAIN both, NEW j \in DOMAIN both, i < j
       PROVE  /\ both[i].of # button
              /\ both[j].of = button \/ both[i].of <= both[j].of
  <2>1. i \in 1 .. Len(s)
    BY <1>3, <1>6, <1>9, <1>11
  <2>2. both[i].of # button
    BY <1>4, <1>6, <1>9, <2>1
  <2>3. CASE j \in 1 .. Len(s)
    BY <1>1, <1>6, <1>9, <1>11, <2>1, <2>2, <2>3 DEF SoFar
  <2>4. CASE j \notin 1 .. Len(s)
    <3>1. j = Len(s) + 1 /\ Len(own) = 1
      BY <1>3, <1>6, <1>9, <1>11, <2>4
    <3>2. both[j] = own[1] /\ own # <<>>
      BY <1>3, <1>9, <3>1
    <3> QED
      BY <1>3, <1>8, <2>2, <3>2
  <2> QED
    BY <2>3, <2>4
<1> QED
  BY <1>7, <1>10, <1>11 DEF AreShown, own, form

\* What was sent stays what is shown as long as the page and its values stay.
LEMMA ShownStays ==
  ASSUME UNCHANGED <<page, fields>>
  PROVE  \A pairs, button : AreShown(pairs, button)' <=> AreShown(pairs, button)
<1>1. Control' = Control /\ Ids' = Ids
  BY DEF Control, Ids
<1>2. \A id : ShownPairs(id)' = ShownPairs(id)
  BY <1>1 DEF ShownPairs, Overlay, Pair, TextOf, SecretOf, IsChecked, SelectedValues, ValueAs
<1>3. \A form : ShownControls(form)' = ShownControls(form)
  BY <1>1 DEF ShownControls, ControlsOf, HasNoOptions
<1>4. \A id : ButtonPairs(id)' = ButtonPairs(id) /\ (HasNoOptions(id)' <=> HasNoOptions(id))
  BY <1>1 DEF ButtonPairs, Pair, HasNoOptions
<1> QED
  BY <1>1, <1>2, <1>3, <1>4 DEF AreShown

LEMMA InitIInv == Init => IInv
<1> SUFFICES ASSUME Init PROVE IInv
  OBVIOUS
<1> USE DEF Init
<1>1. TypeOK
  BY SeedsFacts DEF TypeOK, Ids, Control
<1> QED
  BY <1>1, Zenon DEF IInv, OneMode, EditsAreOfEditables, ButtonsAreNotEdited,
        RadiosExcludeEachOther, UntouchedFieldsKeepTheirDefault

\* A step that leaves the page and its values alone.
LEMMA ValuesStay ==
  ASSUME IInv, UNCHANGED <<page, fields, edited>>
  PROVE  /\ Ids' = Ids /\ Control' = Control
         /\ page' \in Pages /\ DOMAIN fields' = Ids /\ edited' \subseteq Ids
         /\ \A id \in Ids : FieldStateOK(fields'[id])
         /\ ButtonsAreNotEdited'
         /\ RadiosExcludeEachOther'
         /\ UntouchedFieldsKeepTheirDefault'
<1>1. Ids' = Ids /\ Control' = Control
  BY DEF Ids, Control
<1>2. \A id : IsChecked(id)' = IsChecked(id)
  BY DEF IsChecked, ValueAs
<1>3. \A id : SameGroup(id)' = SameGroup(id)
  BY <1>1 DEF SameGroup
<1>4. RadiosExcludeEachOther'
  BY <1>1, <1>2, <1>3, Zenon DEF IInv, RadiosExcludeEachOther
<1>5. UntouchedFieldsKeepTheirDefault'
  BY <1>1 DEF IInv, UntouchedFieldsKeepTheirDefault
<1> QED
  BY <1>1, <1>4, <1>5 DEF IInv, TypeOK, ButtonsAreNotEdited

\* One control other than a radio gets a value.
LEMMA SetFacts ==
  ASSUME IInv, NEW id \in Ids, NEW state, FieldStateOK(state), UNCHANGED page,
         Control[id].kind \notin Button \cup {"radio"}, Set(id, state)
  PROVE  /\ Ids' = Ids /\ Control' = Control
         /\ page' \in Pages /\ DOMAIN fields' = Ids /\ edited' \subseteq Ids
         /\ \A k \in Ids : FieldStateOK(fields'[k])
         /\ ButtonsAreNotEdited'
         /\ RadiosExcludeEachOther'
         /\ UntouchedFieldsKeepTheirDefault'
<1>0. TypeOK
  BY DEF IInv
<1>1. Ids' = Ids /\ Control' = Control
  BY DEF Ids, Control
<1>2. /\ edited' = edited \cup {id}
      /\ DOMAIN fields' = Ids /\ fields'[id] = state
      /\ \A k \in Ids \ {id} : fields'[k] = fields[k]
  BY <1>0 DEF Set, TypeOK
<1>3. \A k : SameGroup(k)' = SameGroup(k)
  BY <1>1 DEF SameGroup
<1>4. \A k, q : q \in SameGroup(k) => (IsChecked(q)' <=> IsChecked(q))
  <2> SUFFICES ASSUME NEW k, NEW q \in SameGroup(k)
               PROVE  IsChecked(q)' <=> IsChecked(q)
    OBVIOUS
  <2>1. q \in Ids /\ q # id
    BY DEF SameGroup
  <2> QED
    BY <1>2, <2>1 DEF IsChecked, ValueAs
<1>5. RadiosExcludeEachOther'
  <2> SUFFICES ASSUME NEW k \in edited', Control'[k].kind = "radio"
               PROVE  \E r \in SameGroup(k)' : \A q \in SameGroup(k)' : IsChecked(q)' <=> q = r
    BY Zenon DEF RadiosExcludeEachOther
  <2>1. k \in edited /\ Control[k].kind = "radio"
    BY <1>1, <1>2
  <2>2. PICK r \in SameGroup(k) : \A q \in SameGroup(k) : IsChecked(q) <=> q = r
    BY <2>1, Zenon DEF IInv, RadiosExcludeEachOther
  <2> QED
    BY <1>3, <1>4, <2>2, Zenon
<1>6. UntouchedFieldsKeepTheirDefault'
  BY <1>1, <1>2 DEF IInv, UntouchedFieldsKeepTheirDefault
<1>7. ButtonsAreNotEdited'
  BY <1>1, <1>2 DEF IInv, ButtonsAreNotEdited
<1>8. \A k \in Ids : FieldStateOK(fields'[k])
  BY <1>0, <1>2 DEF TypeOK
<1> QED
  BY <1>0, <1>1, <1>2, <1>5, <1>6, <1>7, <1>8 DEF TypeOK

LEMMA CheckedFacts == \A b : CheckedState(b).is = "checked" /\ CheckedState(b).value = b
BY DEF CheckedState

\* Selecting a radio clears the others of its name in its form, and no other.
LEMMA RadioFacts ==
  ASSUME IInv, NEW id \in Ids, SelectRadio(id)
  PROVE  IInv'
<1>0. TypeOK /\ page' = page
  BY DEF IInv, SelectRadio
<1>1. Ids' = Ids /\ Control' = Control
  BY <1>0 DEF Ids, Control
<1> DEFINE group == RadioSiblings(Control[id].form, Control[id].name)
<1>2. group = SameGroup(id) /\ id \in group /\ group \subseteq Ids
  BY DEF RadioSiblings, ControlsOf, SameGroup, SelectRadio, Button
<1>3. /\ edited' = edited \cup group
      /\ DOMAIN fields' = Ids
      /\ \A r \in group : fields'[r] = CheckedState(r = id)
      /\ \A r \in Ids \ group : fields'[r] = fields[r]
  BY <1>2 DEF SelectRadio
<1> HIDE DEF group
<1>4. \A r \in group : IsChecked(r)' <=> r = id
  <2> SUFFICES ASSUME NEW r \in group PROVE IsChecked(r)' <=> r = id
    OBVIOUS
  <2>1. fields'[r].is = "checked" /\ fields'[r].value = (r = id)
    BY <1>3, CheckedFacts, Zenon
  <2> QED
    BY <2>1, Zenon DEF IsChecked, ValueAs
<1>5. \A k : SameGroup(k)' = SameGroup(k)
  BY <1>1 DEF SameGroup
<1>6. RadiosExcludeEachOther'
  <2> SUFFICES ASSUME NEW k \in edited', Control'[k].kind = "radio"
               PROVE  \E r \in SameGroup(k)' : \A q \in SameGroup(k)' : IsChecked(q)' <=> q = r
    BY Zenon DEF RadiosExcludeEachOther
  <2>1. CASE k \in group
    <3>1. SameGroup(k) = group
      BY <1>2, <2>1 DEF SameGroup
    <3> QED
      BY <1>2, <1>4, <1>5, <3>1, Zenon
  <2>2. CASE k \notin group
    <3>1. k \in edited /\ Control[k].kind = "radio" /\ k \in Ids
      BY <1>0, <1>1, <1>3, <2>2 DEF TypeOK
    <3>2. PICK r \in SameGroup(k) : \A q \in SameGroup(k) : IsChecked(q) <=> q = r
      BY <3>1, Zenon DEF IInv, RadiosExcludeEachOther
    <3>3. \A q \in SameGroup(k) : q \in Ids \ group
      BY <1>2, <2>2, <3>1 DEF SameGroup
    <3>4. \A q \in SameGroup(k) : IsChecked(q)' <=> IsChecked(q)
      BY <1>3, <3>3 DEF IsChecked, ValueAs
    <3> QED
      BY <1>5, <3>2, <3>4, Zenon
  <2> QED
    BY <2>1, <2>2
<1>7. UntouchedFieldsKeepTheirDefault'
  BY <1>0, <1>1, <1>2, <1>3 DEF IInv, UntouchedFieldsKeepTheirDefault
<1>8. ButtonsAreNotEdited'
  <2>1. \A r \in group : Control[r].kind = "radio"
    BY <1>2 DEF SameGroup
  <2> QED
    BY <1>1, <1>3, <2>1 DEF IInv, ButtonsAreNotEdited, Button
<1>9. TypeOK'
  <2>1. \A r \in Ids : FieldStateOK(fields'[r])
    <3>1. \A r \in group : FieldStateOK(CheckedState(r = id))
      BY DEF FieldStateOK, CheckedState
    <3> QED
      BY <1>0, <1>3, <3>1 DEF TypeOK
  <2>2. UNCHANGED <<edit, confirm>>
    BY DEF SelectRadio
  <2> QED
    BY <1>0, <1>1, <1>2, <1>3, <2>1, <2>2 DEF TypeOK
<1>10. EditsAreOfEditables' /\ OneMode'
  BY <1>1 DEF IInv, EditsAreOfEditables, OneMode, SelectRadio
<1> QED
  BY <1>6, <1>7, <1>8, <1>9, <1>10 DEF IInv

\* A reset seeds the controls of one form.
LEMMA ResetFacts ==
  ASSUME IInv, NEW id \in Ids, ResetForm(id)
  PROVE  IInv'
<1>0. TypeOK /\ page' = page
  BY DEF IInv, ResetForm
<1>1. Ids' = Ids /\ Control' = Control /\ Seeds(page)' = Seeds(page)
  BY <1>0 DEF Ids, Control, Seeds
<1> DEFINE form == Control[id].form
<1>2. /\ edited' = {k \in edited : Control[k].form # form}
      /\ fields' = SeedForm(form) /\ DOMAIN fields' = Ids
      /\ form # None
  BY DEF ResetForm, SeedForm, InForm
<1> HIDE DEF form
<1>3. \A k \in Ids : Control[k].form # form => fields'[k] = fields[k]
  BY <1>2 DEF SeedForm
<1>4. \A k \in Ids : /\ Control[k].form = form
                     /\ Seed(Control[k]) # Unset
                     => fields'[k] = Seeds(page)[k]
  BY <1>0, <1>2, SeedsFacts DEF SeedForm, Ids, Control, TypeOK
<1>5. \A k : SameGroup(k)' = SameGroup(k)
  BY <1>1 DEF SameGroup
<1>6. RadiosExcludeEachOther'
  <2> SUFFICES ASSUME NEW k \in edited', Control'[k].kind = "radio"
               PROVE  \E r \in SameGroup(k)' : \A q \in SameGroup(k)' : IsChecked(q)' <=> q = r
    BY Zenon DEF RadiosExcludeEachOther
  <2>1. k \in edited /\ Control[k].kind = "radio" /\ Control[k].form # form
    BY <1>1, <1>2
  <2>2. PICK r \in SameGroup(k) : \A q \in SameGroup(k) : IsChecked(q) <=> q = r
    BY <2>1, Zenon DEF IInv, RadiosExcludeEachOther
  <2>3. \A q \in SameGroup(k) : q \in Ids /\ Control[q].form # form
    BY <2>1 DEF SameGroup
  <2>4. \A q \in SameGroup(k) : IsChecked(q)' <=> IsChecked(q)
    BY <1>3, <2>3 DEF IsChecked, ValueAs
  <2> QED
    BY <1>5, <2>2, <2>4, Zenon
<1>7. UntouchedFieldsKeepTheirDefault'
  <2> SUFFICES ASSUME NEW k \in Ids, k \notin edited', Control[k].kind # "password"
               PROVE  fields'[k] = Seeds(page)[k]
    BY <1>1 DEF UntouchedFieldsKeepTheirDefault
  <2>1. CASE Control[k].form # form
    BY <1>2, <1>3, <2>1 DEF IInv, UntouchedFieldsKeepTheirDefault
  <2>2. CASE Control[k].form = form /\ Seed(Control[k]) # Unset
    BY <1>4, <2>2
  <2>3. CASE Control[k].form = form /\ Seed(Control[k]) = Unset
    <3>1. Control[k] \in ControlType
      BY <1>0, SeedsFacts DEF TypeOK, Ids, Control
    <3>2. Control[k].kind \in Button
      BY <2>3, <3>1, SeedFacts DEF ControlType, Kind
    <3>3. k \notin edited
      BY <3>2 DEF IInv, ButtonsAreNotEdited
    <3>4. fields[k] = Seeds(page)[k]
      BY <3>3 DEF IInv, UntouchedFieldsKeepTheirDefault
    <3>5. fields'[k] = fields[k]
      BY <1>2, <2>3 DEF SeedForm
    <3> QED
      BY <3>4, <3>5
  <2> QED
    BY <2>1, <2>2, <2>3
<1>8. TypeOK'
  <2>1. \A k \in Ids : FieldStateOK(fields'[k])
    <3>1. \A k \in Ids : Control[k] \in ControlType
      BY <1>0, SeedsFacts DEF TypeOK, Ids, Control
    <3>2. \A k \in Ids : FieldStateOK(Seed(Control[k])) /\ FieldStateOK(fields[k])
      BY <1>0, <3>1, SeedFacts DEF TypeOK
    <3> QED
      BY <1>2, <3>2 DEF SeedForm
  <2>2. UNCHANGED <<edit, confirm>>
    BY DEF ResetForm
  <2> QED
    BY <1>0, <1>1, <1>2, <2>1, <2>2 DEF TypeOK
<1>9. ButtonsAreNotEdited' /\ EditsAreOfEditables' /\ OneMode'
  BY <1>1, <1>2 DEF IInv, ButtonsAreNotEdited, EditsAreOfEditables, OneMode, ResetForm
<1> QED
  BY <1>6, <1>7, <1>8, <1>9 DEF IInv

\* A page that arrives brings its own values.
LEMMA LoadFacts ==
  ASSUME IInv, NEW p \in Pages, LoadSucceeds(p)
  PROVE  IInv'
<1>1. /\ page' \in Pages /\ fields' = Seeds(page)' /\ edited' = {}
      /\ edit' = None /\ confirm' = None /\ sent' = None
  BY DEF LoadSucceeds, Seeds, IInv, OneMode
<1>2. TypeOK'
  <2>1. page' = p /\ Ids' = DOMAIN p.controls
    BY DEF LoadSucceeds, Ids, Control
  <2> QED
    BY <1>1, <2>1, SeedsFacts DEF TypeOK
<1> QED
  BY <1>1, <1>2, Zenon DEF IInv, OneMode, EditsAreOfEditables, ButtonsAreNotEdited,
        RadiosExcludeEachOther, UntouchedFieldsKeepTheirDefault

-----------------------------------------------------------------------------
(* The steps.                                                              *)

LEMMA NextIInv == IInv /\ [Next]_vars => IInv'
<1> SUFFICES ASSUME IInv, [Next]_vars PROVE IInv'
  OBVIOUS
<1>0. TypeOK /\ OneMode /\ EditsAreOfEditables
  BY DEF IInv
<1>1. ASSUME NEW id \in Ids, ToggleCheckbox(id) PROVE IInv'
  <2>1. FieldStateOK(CheckedState(~IsChecked(id)))
    BY DEF FieldStateOK, CheckedState
  <2>2. /\ Set(id, CheckedState(~IsChecked(id)))
        /\ Control[id].kind \notin Button \cup {"radio"}
        /\ UNCHANGED <<page, edit, confirm, sent>>
    BY <1>1 DEF ToggleCheckbox, Button
  <2> QED
    BY <1>0, <2>1, <2>2, SetFacts DEF IInv, TypeOK, OneMode, EditsAreOfEditables
<1>2. ASSUME NEW id \in Ids, SelectRadio(id) PROVE IInv'
  BY <1>2, RadioFacts
<1>3. ASSUME NEW id \in Ids, OpenTextEdit(id) PROVE IInv'
  <2>1. TextOf(id) \in Nat
    BY <1>0 DEF TypeOK, FieldStateOK, TextOf, ValueAs
  <2>2. /\ edit' \in [id : Ids, secret : BOOLEAN, at : Nat]
        /\ Control[edit'.id].kind \in EditableKind
    BY <1>3, <2>1 DEF OpenTextEdit, EditableKind
  <2>3. UNCHANGED <<page, fields, edited, confirm, sent>> /\ confirm = None /\ sent = None
    BY <1>3 DEF OpenTextEdit, Navigating
  <2> QED
    BY <1>0, <2>2, <2>3, ValuesStay DEF IInv, TypeOK, OneMode, EditsAreOfEditables
<1>4. ASSUME NEW draft \in 0 .. MaxLength, Type(draft) PROVE IInv'
  <2>1. edit # None /\ edit \in [id : Ids, secret : BOOLEAN, at : Nat]
    BY <1>0, <1>4 DEF Type, IsTextEdit, TypeOK
  <2>2. edit' = [edit EXCEPT !.at = draft] /\ draft \in Nat
    BY <1>4, LengthAssumption DEF Type
  <2>3. edit' \in [id : Ids, secret : BOOLEAN, at : Nat] /\ edit'.id = edit.id
    BY <2>1, <2>2
  <2>4. UNCHANGED <<page, fields, edited, confirm, sent>>
    BY <1>4 DEF Type
  <2> QED
    BY <1>0, <2>1, <2>3, <2>4, ValuesStay DEF IInv, TypeOK, OneMode, EditsAreOfEditables
<1>5. ASSUME CommitTextEdit PROVE IInv'
  <2> DEFINE state == IF edit.secret THEN SecretState(edit.at) ELSE TextState(edit.at)
  <2>1. /\ edit \in [id : Ids, secret : BOOLEAN, at : Nat]
        /\ Control[edit.id].kind \in EditableKind
        /\ UNCHANGED <<page, confirm, sent>> /\ edit' = None
    BY <1>0, <1>5 DEF CommitTextEdit, IsTextEdit, TypeOK, EditsAreOfEditables
  <2>2. FieldStateOK(state)
    BY <2>1 DEF FieldStateOK, SecretState, TextState
  <2>3. Control[edit.id].kind \notin Button \cup {"radio"}
    BY <2>1 DEF EditableKind, Button
  <2>4. Set(edit.id, state) \/ UNCHANGED <<fields, edited>>
    BY <1>5 DEF CommitTextEdit
  <2> HIDE DEF state
  <2>5. CASE Set(edit.id, state)
    BY <1>0, <2>1, <2>2, <2>3, <2>5, SetFacts DEF IInv, TypeOK, OneMode, EditsAreOfEditables
  <2>6. CASE UNCHANGED <<fields, edited>>
    BY <1>0, <2>1, <2>6, ValuesStay DEF IInv, TypeOK, OneMode, EditsAreOfEditables
  <2> QED
    BY <2>4, <2>5, <2>6
<1>6. ASSUME CloseEdit PROVE IInv'
  BY <1>0, <1>6, ValuesStay DEF CloseEdit, IInv, TypeOK, OneMode, EditsAreOfEditables
<1>7. ASSUME NEW id \in Ids, CycleSelect(id) PROVE IInv'
  <2> DEFINE next == NextOption(Control[id].options, SelectedValues(id))
             state == SelectedState(<<next>>)
  <2>1. FieldStateOK(state)
    <3>1. Control[id] \in ControlType /\ Control[id].kind = "select"
      BY <1>0, <1>7, ControlIds DEF CycleSelect
    <3>2. next \in Nat
      BY <3>1, NextFacts, OffersFacts
    <3> HIDE DEF next
    <3> QED
      BY <3>2 DEF FieldStateOK, SelectedState
  <2>2. /\ Set(id, state)
        /\ Control[id].kind \notin Button \cup {"radio"}
        /\ UNCHANGED <<page, edit, confirm, sent>>
    BY <1>7 DEF CycleSelect, Button
  <2> HIDE DEF state
  <2> QED
    BY <1>0, <2>1, <2>2, SetFacts DEF IInv, TypeOK, OneMode, EditsAreOfEditables
<1>8. ASSUME NEW id \in Ids, OpenMultiSelect(id) PROVE IInv'
  <2>1. /\ edit' \in [id : Ids, secret : BOOLEAN, at : Nat]
        /\ Control[edit'.id].kind \in EditableKind
    BY <1>8 DEF OpenMultiSelect, EditableKind
  <2>2. UNCHANGED <<page, fields, edited, confirm, sent>> /\ confirm = None /\ sent = None
    BY <1>8 DEF OpenMultiSelect, Navigating
  <2> QED
    BY <1>0, <2>1, <2>2, ValuesStay DEF IInv, TypeOK, OneMode, EditsAreOfEditables
<1>9. ASSUME MoveCursor PROVE IInv'
  <2>1. edit # None /\ edit \in [id : Ids, secret : BOOLEAN, at : Nat]
    BY <1>0, <1>9 DEF MoveCursor, IsMultiSelect, TypeOK
  <2>2. PICK i \in DOMAIN Control[edit.id].options : edit' = [edit EXCEPT !.at = i]
    BY <1>9 DEF MoveCursor
  <2>3. Control[edit.id].options \in Seq(Option)
    BY <1>0, <2>1, SeedsFacts DEF TypeOK, Ids, Control, ControlType
  <2>4. edit' \in [id : Ids, secret : BOOLEAN, at : Nat] /\ edit'.id = edit.id
    BY <2>1, <2>2, <2>3
  <2>5. UNCHANGED <<page, fields, edited, confirm, sent>>
    BY <1>9 DEF MoveCursor
  <2> QED
    BY <1>0, <2>1, <2>4, <2>5, ValuesStay DEF IInv, TypeOK, OneMode, EditsAreOfEditables
<1>10. ASSUME ToggleOption PROVE IInv'
  <2>1. edit \in [id : Ids, secret : BOOLEAN, at : Nat] /\ Control[edit.id].kind = "multiselect"
    BY <1>0, <1>10 DEF ToggleOption, IsMultiSelect, TypeOK
  <2> DEFINE values == ToggleValue(SelectedValues(edit.id),
                                   Control[edit.id].options[edit.at].value)
             state == SelectedState(values)
  <2>2. FieldStateOK(state)
    <3>1. edit.at \in DOMAIN Control[edit.id].options /\ edit.id \in Ids
      BY <1>10, <2>1 DEF ToggleOption
    <3>2. Control[edit.id].options[edit.at].value \in Nat
      <4>1. Control[edit.id].options \in Seq(Option)
        BY <1>0, <3>1, ControlIds DEF ControlType
      <4>2. Control[edit.id].options[edit.at] \in Option
        BY <3>1, <4>1
      <4> QED
        BY <4>2 DEF Option
    <3>3. SelectedValues(edit.id) \in Seq(Nat)
      BY <1>0, <3>1 DEF TypeOK, FieldStateOK, SelectedValues, ValueAs
    <3>4. values \in Seq(Nat)
      BY <3>2, <3>3, ToggleFacts
    <3> HIDE DEF values
    <3> QED
      BY <3>4 DEF FieldStateOK, SelectedState
  <2>3. /\ Set(edit.id, state)
        /\ Control[edit.id].kind \notin Button \cup {"radio"}
        /\ UNCHANGED <<page, edit, confirm, sent>>
    BY <1>10, <2>1 DEF ToggleOption, Button
  <2> HIDE DEF state
  <2> QED
    BY <1>0, <2>1, <2>2, <2>3, SetFacts DEF IInv, TypeOK, OneMode, EditsAreOfEditables
<1>11. ASSUME NEW id \in Ids, ResetForm(id) PROVE IInv'
  BY <1>11, ResetFacts
<1>12. ASSUME NEW id \in Ids, ActivateSubmit(id) PROVE IInv'
  <2>1. /\ UNCHANGED <<page, fields, edit, edited>> /\ edit = None /\ confirm = None /\ sent = None
        /\ \/ confirm' = [button |-> id, submit |-> FALSE] /\ UNCHANGED sent
           \/ UNCHANGED confirm
    BY <1>12 DEF ActivateSubmit, Navigating
  <2>2. confirm' = None \/ confirm' \in [button : Ids, submit : BOOLEAN]
    <3>1. [button |-> id, submit |-> FALSE] \in [button : Ids, submit : BOOLEAN]
      OBVIOUS
    <3> QED
      BY <2>1, <3>1, Zenon
  <2>3. OneMode'
    BY <2>1 DEF OneMode
  <2> QED
    BY <1>0, <2>1, <2>2, <2>3, ValuesStay DEF IInv, TypeOK, EditsAreOfEditables
<1>13. ASSUME ToggleChoice PROVE IInv'
  <2>1. confirm \in [button : Ids, submit : BOOLEAN] /\ confirm # None
    BY <1>0, <1>13 DEF ToggleChoice, TypeOK
  <2>2. confirm' \in [button : Ids, submit : BOOLEAN]
    BY <1>13, <2>1 DEF ToggleChoice
  <2> QED
    BY <1>0, <1>13, <2>1, <2>2, ValuesStay
    DEF ToggleChoice, IInv, TypeOK, OneMode, EditsAreOfEditables
<1>14. ASSUME ActivateChoice PROVE IInv'
  <2>1. /\ UNCHANGED <<page, fields, edit, edited>>
        /\ confirm # None /\ confirm' = None
    BY <1>14 DEF ActivateChoice
  <2>2. edit = None
    BY <1>0, <2>1 DEF OneMode
  <2> QED
    BY <1>0, <2>1, <2>2, ValuesStay DEF IInv, TypeOK, OneMode, EditsAreOfEditables
<1>15. ASSUME NEW p \in Pages, LoadSucceeds(p) PROVE IInv'
  BY <1>15, LoadFacts
<1>16. ASSUME LoadFails PROVE IInv'
  BY <1>0, <1>16, ValuesStay DEF LoadFails, IInv, TypeOK, OneMode, EditsAreOfEditables
<1>17. ASSUME UNCHANGED vars PROVE IInv'
  BY <1>0, <1>17, ValuesStay DEF vars, IInv, TypeOK, OneMode, EditsAreOfEditables
<1> QED
  BY <1>1, <1>2, <1>3, <1>4, <1>5, <1>6, <1>7, <1>8, <1>9, <1>10, <1>11, <1>12,
     <1>13, <1>14, <1>15, <1>16, <1>17 DEF Next

-----------------------------------------------------------------------------
(* What is selected, and what is sent.                                     *)

\* Selections of a control that got the values of another place, or kept its own.
LEMMA KeepsItsSelection ==
  ASSUME SelectionsAreOffered, UNCHANGED page, NEW id \in Ids, fields'[id] = fields[id],
         Control'[id].kind \in Select
  PROVE  SelectedValues(id)' \in Seq(Offers(Control'[id]))
<1>1. Control' = Control
  BY DEF Control
<1> QED
  BY <1>1 DEF SelectionsAreOffered, SelectedValues, ValueAs

\* A select as its page gave it.
LEMMA SeededSelections ==
  ASSUME NEW c \in ControlType, c.kind \in Select
  PROVE  /\ Seed(c).is = "selected"
         /\ Seed(c).value \in Seq(Offers(c))
         /\ Unset.is # "selected" /\ <<>> \in Seq(Offers(c))
<1>1. Seed(c) = SelectedState(SelectedOptions(c.options))
  BY DEF Seed, Select, Written, Toggle
<1>2. SelectedOptions(c.options) \in Seq(Offers(c))
  <2>1. c.options \in Seq(Option) /\ OptionValues(c.options) \subseteq Offers(c)
    BY OffersFacts
  <2> QED
    BY <2>1, SelectedFacts
<1> QED
  BY <1>1, <1>2 DEF SelectedState, Unset

\* A page that was just loaded.
LEMMA LoadedSelections ==
  ASSUME NEW p \in Pages, NEW id \in DOMAIN p.controls, p.controls[id].kind \in Select
  PROVE  (IF Seeds(p)[id].is = "selected" THEN Seeds(p)[id].value ELSE <<>>)
         \in Seq(Offers(p.controls[id]))
<1>1. p.controls[id] \in ControlType
  BY SeedsFacts
<1>2. Seeds(p)[id] = IF p.controls[id].form = None THEN Unset ELSE Seed(p.controls[id])
  BY DEF Seeds
<1> QED
  BY <1>1, <1>2, SeededSelections

\* One control gets a value; it is a select's only if the select offers it.
LEMMA SetSelections ==
  ASSUME TypeOK, SelectionsAreOffered, UNCHANGED page, NEW id \in Ids, NEW state,
         Set(id, state),
         Control[id].kind \in Select =>
           state.is = "selected" /\ state.value \in Seq(Offers(Control[id]))
  PROVE  SelectionsAreOffered'
<1>1. Ids' = Ids /\ Control' = Control
  BY DEF Ids, Control
<1>2. fields'[id] = state /\ \A k \in Ids \ {id} : fields'[k] = fields[k]
  BY DEF Set, TypeOK
<1> SUFFICES ASSUME NEW k \in Ids, Control'[k].kind \in Select
             PROVE  SelectedValues(k)' \in Seq(Offers(Control'[k]))
  BY <1>1 DEF SelectionsAreOffered
<1>3. CASE k = id
  BY <1>1, <1>2, <1>3 DEF SelectedValues, ValueAs
<1>4. CASE k # id
  BY <1>2, <1>4, KeepsItsSelection
<1> QED
  BY <1>3, <1>4

LEMMA SelectionsStay ==
  ASSUME IInv, SelectionsAreOffered, [Next]_vars
  PROVE  SelectionsAreOffered'
<1>0. TypeOK /\ EditsAreOfEditables /\ \A id \in Ids : Control[id] \in ControlType
  BY ControlIds DEF IInv
<1>1. ASSUME UNCHANGED <<page, fields>> PROVE SelectionsAreOffered'
  <2>1. Ids' = Ids /\ Control' = Control
    BY <1>1 DEF Ids, Control
  <2> QED
    BY <1>1, <2>1 DEF SelectionsAreOffered, SelectedValues, ValueAs
<1>2. ASSUME NEW id \in Ids, ToggleCheckbox(id) PROVE SelectionsAreOffered'
  <2>1. Control[id].kind \notin Select /\ UNCHANGED page /\ Set(id, CheckedState(~IsChecked(id)))
    BY <1>2 DEF ToggleCheckbox, Select
  <2> QED
    BY <1>0, <2>1, SetSelections
<1>3. ASSUME NEW id \in Ids, SelectRadio(id) PROVE SelectionsAreOffered'
  <2>1. Ids' = Ids /\ Control' = Control /\ page' = page
    BY <1>3 DEF Ids, Control, SelectRadio
  <2>2. \A k \in Ids : Control[k].kind \in Select => fields'[k] = fields[k]
    BY <1>3 DEF SelectRadio, RadioSiblings, Select
  <2> QED
    BY <2>1, <2>2, KeepsItsSelection DEF SelectionsAreOffered
<1>4. ASSUME CommitTextEdit PROVE SelectionsAreOffered'
  <2> DEFINE state == IF edit.secret THEN SecretState(edit.at) ELSE TextState(edit.at)
  <2>1. /\ edit.id \in Ids /\ Control[edit.id].kind \notin Select /\ UNCHANGED page
        /\ Set(edit.id, state) \/ UNCHANGED fields
    BY <1>0, <1>4
    DEF CommitTextEdit, IsTextEdit, TypeOK, EditsAreOfEditables, EditableKind, Select
  <2> HIDE DEF state
  <2> QED
    BY <1>0, <1>1, <2>1, SetSelections
<1>5. ASSUME NEW id \in Ids, CycleSelect(id) PROVE SelectionsAreOffered'
  <2> DEFINE next == NextOption(Control[id].options, SelectedValues(id))
  <2>1. Control[id].kind = "select" /\ UNCHANGED page /\ Set(id, SelectedState(<<next>>))
    BY <1>5 DEF CycleSelect
  <2>2. next \in Offers(Control[id])
    BY <1>0, <2>1, NextFacts
  <2> HIDE DEF next
  <2>3. SelectedState(<<next>>).is = "selected"
        /\ SelectedState(<<next>>).value \in Seq(Offers(Control[id]))
    BY <2>2 DEF SelectedState
  <2> QED
    BY <1>0, <2>1, <2>3, SetSelections
<1>6. ASSUME ToggleOption PROVE SelectionsAreOffered'
  <2> DEFINE c == Control[edit.id]
             values == ToggleValue(SelectedValues(edit.id), c.options[edit.at].value)
  <2>1. /\ edit.id \in Ids /\ c.kind = "multiselect" /\ edit.at \in DOMAIN c.options
        /\ UNCHANGED page /\ Set(edit.id, SelectedState(values))
    BY <1>0, <1>6 DEF ToggleOption, IsMultiSelect, TypeOK
  <2>2. c.options[edit.at].value \in Offers(c)
    BY <2>1 DEF Offers, OptionValues
  <2>3. SelectedValues(edit.id) \in Seq(Offers(c))
    BY <2>1 DEF SelectionsAreOffered, Select
  <2>4. values \in Seq(Offers(c))
    BY <2>2, <2>3, ToggleFacts
  <2> HIDE DEF values
  <2>5. SelectedState(values).is = "selected" /\ SelectedState(values).value \in Seq(Offers(c))
    BY <2>4 DEF SelectedState
  <2> QED
    BY <1>0, <2>1, <2>5, SetSelections
<1>7. ASSUME NEW id \in Ids, ResetForm(id) PROVE SelectionsAreOffered'
  <2>1. Ids' = Ids /\ Control' = Control /\ page' = page
    BY <1>7 DEF Ids, Control, ResetForm
  <2>2. \A k \in Ids : fields'[k] \in {fields[k], Seed(Control[k])}
    BY <1>7 DEF ResetForm, SeedForm
  <2> SUFFICES ASSUME NEW k \in Ids, Control'[k].kind \in Select
               PROVE  SelectedValues(k)' \in Seq(Offers(Control'[k]))
    BY <2>1 DEF SelectionsAreOffered
  <2>3. CASE fields'[k] = fields[k]
    BY <2>1, <2>3, KeepsItsSelection
  <2>4. CASE fields'[k] = Seed(Control[k])
    BY <1>0, <2>1, <2>4, SeededSelections DEF SelectedValues, ValueAs
  <2> QED
    BY <2>2, <2>3, <2>4
<1>8. ASSUME NEW p \in Pages, LoadSucceeds(p) PROVE SelectionsAreOffered'
  <2>1. Ids' = DOMAIN p.controls /\ Control' = p.controls /\ fields' = Seeds(p)
    BY <1>8 DEF Ids, Control, LoadSucceeds
  <2> QED
    BY <2>1, LoadedSelections DEF SelectionsAreOffered, SelectedValues, ValueAs
<1>9. ASSUME \/ \E id \in Ids : OpenTextEdit(id) \/ OpenMultiSelect(id) \/ ActivateSubmit(id)
             \/ \E draft \in 0 .. MaxLength : Type(draft)
             \/ CloseEdit \/ MoveCursor \/ ToggleChoice \/ ActivateChoice \/ LoadFails
             \/ UNCHANGED vars
      PROVE  UNCHANGED <<page, fields>>
  BY <1>9 DEF OpenTextEdit, OpenMultiSelect, ActivateSubmit, Type, CloseEdit, MoveCursor,
              ToggleChoice, ActivateChoice, LoadFails, vars
<1> QED
  BY <1>1, <1>2, <1>3, <1>4, <1>5, <1>6, <1>7, <1>8, <1>9 DEF Next

\* The confirmation is opened by a submit button, for itself.
LEMMA ConfirmationStays ==
  ASSUME IInv, ConfirmsASubmit, [Next]_vars
  PROVE  ConfirmsASubmit'
<1>1. CASE UNCHANGED <<page, confirm>>
  BY <1>1 DEF ConfirmsASubmit, Control
<1>2. ASSUME confirm' = None PROVE ConfirmsASubmit'
  BY <1>2 DEF ConfirmsASubmit
<1>3. ASSUME NEW id \in Ids, ActivateSubmit(id) PROVE ConfirmsASubmit'
  <2>1. /\ page' = page /\ Control[id].kind = "submit" /\ confirm = None
        /\ confirm' = confirm \/ confirm' = [button |-> id, submit |-> FALSE]
    BY <1>3 DEF ActivateSubmit, Navigating
  <2> QED
    BY <2>1 DEF ConfirmsASubmit, Control
<1>4. ASSUME ToggleChoice PROVE ConfirmsASubmit'
  <2>1. confirm # None /\ confirm \in [button : Ids, submit : BOOLEAN]
    BY <1>4 DEF ToggleChoice, IInv, TypeOK
  <2>2. confirm'.button = confirm.button /\ page' = page
    BY <1>4, <2>1 DEF ToggleChoice
  <2> QED
    BY <2>1, <2>2 DEF ConfirmsASubmit, Control
<1>5. ASSUME NEW p \in Pages, LoadSucceeds(p) PROVE confirm' = None
  BY <1>5 DEF LoadSucceeds, IInv, OneMode
<1>6. ASSUME ActivateChoice PROVE confirm' = None
  BY <1>6 DEF ActivateChoice
<1>7. ASSUME \/ \E id \in Ids : \/ ToggleCheckbox(id) \/ SelectRadio(id) \/ OpenTextEdit(id)
                               \/ CycleSelect(id) \/ OpenMultiSelect(id) \/ ResetForm(id)
             \/ \E draft \in 0 .. MaxLength : Type(draft)
             \/ CommitTextEdit \/ CloseEdit \/ MoveCursor \/ ToggleOption \/ LoadFails
             \/ UNCHANGED vars
      PROVE  UNCHANGED <<page, confirm>>
  BY <1>7 DEF ToggleCheckbox, SelectRadio, OpenTextEdit, CycleSelect, OpenMultiSelect,
              ResetForm, Type, CommitTextEdit, CloseEdit, MoveCursor, ToggleOption,
              LoadFails, vars
<1> QED
  BY <1>1, <1>2, <1>3, <1>4, <1>5, <1>6, <1>7 DEF Next

\* What is sent is shown when it is sent, and nothing is edited until the answer.
LEMMA SubmissionStays ==
  ASSUME IInv, SentInv, [Next]_vars
  PROVE  WhatIsSentIsShown'
<1>0. TypeOK /\ OneMode /\ SelectionsAreOffered /\ ConfirmsASubmit
  BY DEF IInv, SentInv
<1>1. ASSUME sent' = None PROVE WhatIsSentIsShown'
  BY <1>1 DEF WhatIsSentIsShown
<1>2. ASSUME UNCHANGED <<page, fields, sent>> PROVE WhatIsSentIsShown'
  BY <1>2, ShownStays DEF SentInv, WhatIsSentIsShown
<1>3. ASSUME NEW button \in Ids, Control[button].kind = "submit", Send(button),
             UNCHANGED <<page, fields>>
      PROVE  WhatIsSentIsShown'
  <2>1. AreShown(SubmissionPairs(button), button)
    BY <1>0, <1>3, SubmissionFacts
  <2>2. sent'.pairs = SubmissionPairs(button) /\ sent'.button = button
    BY <1>3 DEF Send
  <2>3. \A pairs : AreShown(pairs, button)' <=> AreShown(pairs, button)
    BY <1>3, ShownStays
  <2> QED
    BY <1>3, <2>1, <2>2, <2>3 DEF WhatIsSentIsShown
<1>4. ASSUME NEW id \in Ids, ActivateSubmit(id) PROVE WhatIsSentIsShown'
  <2>1. /\ Control[id].kind = "submit" /\ UNCHANGED <<page, fields>>
        /\ Send(id) \/ UNCHANGED sent
    BY <1>4 DEF ActivateSubmit
  <2> QED
    BY <1>2, <1>3, <2>1
<1>5. ASSUME ActivateChoice PROVE WhatIsSentIsShown'
  <2>1. /\ confirm.button \in Ids /\ Control[confirm.button].kind = "submit"
        /\ UNCHANGED <<page, fields>>
        /\ Send(confirm.button) \/ UNCHANGED sent
    BY <1>0, <1>5 DEF ActivateChoice, TypeOK, ConfirmsASubmit
  <2> QED
    BY <1>2, <1>3, <2>1
<1>6. ASSUME \/ \E id \in Ids : ToggleCheckbox(id) \/ SelectRadio(id) \/ CycleSelect(id)
                               \/ ResetForm(id)
             \/ CommitTextEdit \/ ToggleOption
             \/ LoadFails
             \/ \E p \in Pages : LoadSucceeds(p)
      PROVE  sent' = None
  BY <1>0, <1>6 DEF ToggleCheckbox, SelectRadio, CycleSelect, ResetForm, CommitTextEdit,
       ToggleOption, LoadFails, LoadSucceeds, Navigating, OneMode, IsTextEdit, IsMultiSelect
<1>7. ASSUME \/ \E id \in Ids : OpenTextEdit(id) \/ OpenMultiSelect(id)
             \/ \E draft \in 0 .. MaxLength : Type(draft)
             \/ CloseEdit \/ MoveCursor \/ ToggleChoice
             \/ UNCHANGED vars
      PROVE  UNCHANGED <<page, fields, sent>>
  BY <1>7 DEF OpenTextEdit, OpenMultiSelect, Type, CloseEdit, MoveCursor, ToggleChoice, vars
<1> QED
  BY <1>1, <1>2, <1>4, <1>5, <1>6, <1>7 DEF Next

LEMMA NextSentInv == IInv /\ SentInv /\ [Next]_vars => SentInv'
BY SelectionsStay, ConfirmationStays, SubmissionStays DEF SentInv

LEMMA InitSentInv == Init => SentInv
<1> SUFFICES ASSUME Init PROVE SentInv
  OBVIOUS
<1>1. SelectionsAreOffered
  BY LoadedSelections DEF Init, SelectionsAreOffered, SelectedValues, ValueAs, Ids, Control
<1> QED
  BY <1>1 DEF Init, SentInv, ConfirmsASubmit, WhatIsSentIsShown

-----------------------------------------------------------------------------

\* What every theorem below rests on.
THEOREM IInvCorrect == Spec => []IInv
BY InitIInv, NextIInv, PTL DEF Spec

\* The state keeps its shape.
THEOREM TypeCorrect == Spec => []TypeOK
<1>1. IInv => TypeOK
  BY DEF IInv
<1> QED
  BY <1>1, IInvCorrect, PTL

\* Selecting a radio leaves exactly one of its name in its form checked, until
\* the form is reset.
THEOREM RadiosCorrect == Spec => []RadiosExcludeEachOther
<1>1. IInv => RadiosExcludeEachOther
  BY DEF IInv
<1> QED
  BY <1>1, IInvCorrect, PTL

\* What nobody edited has the page's default.
THEOREM DefaultsCorrect == Spec => []UntouchedFieldsKeepTheirDefault
<1>1. IInv => UntouchedFieldsKeepTheirDefault
  BY DEF IInv
<1> QED
  BY <1>1, IInvCorrect, PTL

\* Whatever was edited, a submission holds what the overlays of its form show, of
\* no other control, in the order of the page.
THEOREM SubmissionsCorrect == Spec => []WhatIsSentIsShown
<1>1. SentInv => WhatIsSentIsShown
  BY DEF SentInv
<1> QED
  BY <1>1, IInvCorrect, InitSentInv, NextSentInv, PTL DEF Spec
=============================================================================
