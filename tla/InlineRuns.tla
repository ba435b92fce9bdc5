----------------------------- MODULE InlineRuns -----------------------------
(***************************************************************************)
(* How the text of a block becomes inline runs: RunBuilder                 *)
(* (src/crates/browser-html/src/parser.rs).  A segment is a stretch of the *)
(* page's text with the style it stands in and the anchor names that wait  *)
(* before it; a run is what is left of the text in one style, with the     *)
(* names bound to it.                                                      *)
(*                                                                         *)
(* A builder is a record: the finished runs, the current one, whether the  *)
(* last character was a space, and the names that wait.  Each loop of the  *)
(* code is a function of how far it has come.                              *)
(***************************************************************************)
EXTENDS Naturals, SequencesExt, Characters

Visible(c) == c # Space

\* push_unique_anchors
AddName(names, n) == IF n \in ToSet(names) THEN names ELSE Append(names, n)

AddedUpTo(names, more) ==
    LET added[n \in 0 .. Len(more)] ==
          IF n = 0 THEN names ELSE AddName(added[n - 1], more[n])
    IN  added

AppendUnique(names, more) == AddedUpTo(names, more)[Len(more)]

\* A run without text is not kept: as the current one it stands for none.
NewRun(style) == [text |-> <<>>, style |-> style, names |-> <<>>]

NewBuilder ==
    [runs |-> <<>>, current |-> NewRun(Plain), spaced |-> TRUE, waiting |-> <<>>]

FlushCurrent(b) ==
    [b EXCEPT !.runs = IF b.current.text = <<>> THEN @ ELSE Append(@, b.current),
              !.current = NewRun(Plain)]

RunMatches(b, style) == b.current.text # <<>> /\ b.current.style = style

OpenRun(b, style) ==
    IF RunMatches(b, style) THEN b
    ELSE [FlushCurrent(b) EXCEPT !.current = NewRun(style)]

\* Names are bound by visible text only.
Bind(run, c, names) ==
    [run EXCEPT !.text = Append(@, c), !.names = AppendUnique(@, names)]

PushVisible(b, c, style) ==
    [OpenRun(b, style) EXCEPT !.current = Bind(@, c, b.waiting),
                              !.spaced = FALSE, !.waiting = <<>>]

PushSpace(b, style) ==
    [OpenRun(b, style) EXCEPT !.current.text = Append(@, Space), !.spaced = TRUE]

\* For the mutants: whitespace is collapsed within a run only.
PushCharacterByRun(b, c, style) ==
    CASE Visible(c) -> PushVisible(b, c, style)
      [] ~Visible(c) /\ b.spaced /\ RunMatches(b, style) -> b
      [] OTHER -> PushSpace(b, style)

PushCharacter(b, c, style) ==
    CASE Visible(c) -> PushVisible(b, c, style)
      [] ~Visible(c) /\ b.spaced -> b
      [] ~Visible(c) /\ ~b.spaced -> PushSpace(b, style)

TakeNames(b, names) == [b EXCEPT !.waiting = AppendUnique(@, names)]

PushedUpTo(b, segment) ==
    LET pushed[n \in 0 .. Len(segment.text)] ==
          IF n = 0 THEN TakeNames(b, segment.names)
          ELSE PushCharacter(pushed[n - 1], segment.text[n], segment.style)
    IN  pushed

PushSegment(b, segment) == PushedUpTo(b, segment)[Len(segment.text)]

TrimTrailingSpace(b) ==
    IF b.current.text # <<>> /\ Last(b.current.text) = Space
    THEN [b EXCEPT !.current.text = Front(@)]
    ELSE b

AttachTrailingAnchors(b) ==
    CASE b.waiting = <<>> -> b.runs
      [] b.waiting # <<>> /\ b.runs = <<>> -> <<[NewRun(Plain) EXCEPT !.names = b.waiting]>>
      [] b.waiting # <<>> /\ b.runs # <<>> ->
           [b.runs EXCEPT ![Len(b.runs)].names = AppendUnique(@, b.waiting)]

Finish(b) == AttachTrailingAnchors(FlushCurrent(TrimTrailingSpace(b)))

BuiltUpTo(segs) ==
    LET built[n \in 0 .. Len(segs)] ==
          IF n = 0 THEN NewBuilder ELSE PushSegment(built[n - 1], segs[n])
    IN  built

CollapseSegments(segs) == Finish(BuiltUpTo(segs)[Len(segs)])

-----------------------------------------------------------------------------

\* What segments and runs read as: each character in its style.
Tagged(text, style) == [i \in DOMAIN text |-> [char |-> text[i], style |-> style]]

StyledUpTo(items) ==
    LET styled[n \in 0 .. Len(items)] ==
          IF n = 0 THEN <<>>
          ELSE styled[n - 1] \o Tagged(items[n].text, items[n].style)
    IN  styled

StyledText(items) == StyledUpTo(items)[Len(items)]

\* Whitespace collapsed, by position: a space stays where it follows a visible
\* character and another one comes later.
Keeps(t, i) ==
    \/ Visible(t[i].char)
    \/ /\ i > 1
       /\ Visible(t[i - 1].char)
       /\ \E j \in i + 1 .. Len(t) : Visible(t[j].char)

CollapsedUpTo(t) ==
    LET collapsed[n \in 0 .. Len(t)] ==
          IF n = 0 THEN <<>>
          ELSE IF Keeps(t, n) THEN Append(collapsed[n - 1], t[n]) ELSE collapsed[n - 1]
    IN  collapsed

Collapsed(t) == CollapsedUpTo(t)[Len(t)]

\* How many visible characters a text has, and the items before the nth have.
CountUpTo(text) ==
    LET count[n \in 0 .. Len(text)] ==
          IF n = 0 THEN 0 ELSE count[n - 1] + (IF Visible(text[n]) THEN 1 ELSE 0)
    IN  count

VisibleIn(text) == CountUpTo(text)[Len(text)]

CountsUpTo(items) ==
    LET counts[n \in 0 .. Len(items)] ==
          IF n = 0 THEN 0 ELSE counts[n - 1] + VisibleIn(items[n].text)
    IN  counts

VisibleBefore(items, n) == CountsUpTo(items)[n - 1]

(***************************************************************************)
(* The runs of a block read as its segments do, with whitespace collapsed, *)
(* each character in the style it stands in, whatever cuts the text and    *)
(* wherever the spaces are.                                                *)
(***************************************************************************)
ReadsCollapsed(runs, segs) == StyledText(runs) = Collapsed(StyledText(segs))

(***************************************************************************)
(* Each name is bound to a run that starts no later than the text it stood *)
(* before: no visible character that follows the name comes before the run.*)
(***************************************************************************)
NamesFindTheirText(runs, segs) ==
    \A i \in DOMAIN segs : \A n \in ToSet(segs[i].names) :
       \E j \in DOMAIN runs :
          /\ n \in ToSet(runs[j].names)
          /\ VisibleBefore(runs, j) <= VisibleBefore(segs, i)
=============================================================================
