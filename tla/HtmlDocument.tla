---------------------------- MODULE HtmlDocument ----------------------------
(***************************************************************************)
(* What browser-html makes of a finished arena: the tree of semantic nodes *)
(* TreeExtractor walks out of it (src/crates/browser-html/src/parser.rs).  *)
(*                                                                         *)
(* The walk is a recursive descent over one mutable extractor.  Here an    *)
(* operation takes the extractor e, a record of                            *)
(*   pending  the anchor names seen and not yet attached                   *)
(*   marked   element_with_emitted_marker                                  *)
(*   next     next_node_id                                                 *)
(*   scripts  script_count                                                 *)
(* and yields what it made, the nodes, segments or characters it pushes to *)
(* its caller's vector, and the extractor it leaves.  A recursive function *)
(* of the code is a function of how many levels it may still go down; it   *)
(* starts with as many as there are handles, more than any page is deep.   *)
(*                                                                         *)
(* A name is the handle of the element that carries it, so names are       *)
(* unique, as ids are in a valid page.  A link is the handle of its <a>, a *)
(* citation that of its <q>.  Whitespace is a line feed: it ends a line in *)
(* preformatted text and is a space elsewhere.  Templates, landmark roles, *)
(* labels of controls and URLs are left out.                               *)
(***************************************************************************)
EXTENDS DomBuilder, InlineRuns

CONSTANTS
    MaxTableRows, MaxTableColumns, MaxSelectOptions  \* the constants of parser.rs

ASSUME TableLimitsAssumption ==
    MaxTableRows \in Nat /\ MaxTableColumns \in Nat /\ MaxSelectOptions \in Nat

VARIABLES
    phase,      \* "parsing", "failed", "parsed"
    document    \* the Document: its nodes, and how many scripts it suppressed

\* The marks around a <q>, and what the browser itself draws.
OpenMark == 1001
CloseMark == 1002

Heading == {"h1"}
TextBlock == Heading \cup {"p", "summary"}
Lists == {"ul", "ol"}
Landmark == {"section"}
Container == Landmark \cup {"blockquote", "details"}
VerbatimBlock == {"pre", "code"}
Leaf == {"hr", "img", "iframe"}
Control == {"input", "hidden", "textarea", "select"}
Section == {"thead", "tbody"}
CellName == {"td", "th"}

\* is_block_tag: code is inline unless it is walked as a block.
BlockTag == TextBlock \cup Lists \cup Container \cup Leaf \cup Control
            \cup {"pre", "table", "figure", "form", "button"}

Styled == TextBlock \cup Lists \cup CellName \cup {"li", "blockquote", "button"}

\* As many levels as there are handles; and the levels of nodes: a table, its
\* row and its cell for each level of the walk, and the text in the last.
Levels == MaxNodeCount + 2
Height == 3 * Levels + 1

Style == [strong : BOOLEAN, link : Handle \cup {None}, cite : Handle \cup {None}]

Kinds == TextBlock \cup Lists \cup Container \cup Leaf \cup Control \cup CellName
         \cup {"anchor", "warning", "pre", "li", "tr", "table", "figure", "form", "button"}

Node(kind, h) ==
    [kind |-> kind, of |-> <<h>>, runs |-> <<>>, kids |-> <<>>, id |-> None,
     names |-> <<>>, text |-> <<>>, options |-> <<>>,
     hide |-> name[h] \in grammar.hidden \cap Styled]

\* The nodes of at most n levels, their text in runs.
Run == [text : Seq(Nat), style : Style, names : Seq(Handle)]
Option == [of : Handle, selected : BOOLEAN]

NodesOver(below) ==
    [kind : Kinds, of : Seq(Handle), runs : Seq(Run), kids : Seq(below),
     id : Nat \cup {None}, names : Seq(Handle), text : Seq(Nat),
     options : Seq(Option), hide : BOOLEAN]

NodesOf[n \in 0 .. Height] == IF n = 0 THEN {} ELSE NodesOver(NodesOf[n - 1])

AnyNode == NodesOf[Height]

AnonymousParagraph(hs) == [Node("p", hs[1]) EXCEPT !.of = hs, !.hide = FALSE]

-----------------------------------------------------------------------------

\* TreeExtractor, and the levels a walk may go down.
Extractor ==
    [pending : Seq(Handle), marked : Handle \cup {None}, next : Nat, scripts : Nat]

NewExtractor == [pending |-> <<>>, marked |-> None, next |-> 0, scripts |-> 0]

\* What an operation yields, and what it does after another one.
Yield(made, e) == [made |-> made, self |-> e]
Nothing(e) == Yield(<<>>, e)
Idle == [h \in Handle |-> [e \in Extractor |-> Nothing(e)]]
Continue(r, s) == Yield(r.made \o s.made, s.self)

\* The nodes of a list one after the other; walk[h][e] is one of them.
Proceed(r, step) == Continue(r, step[r.self])

WalkedUpTo(walk, hs, e) ==
    LET walked[n \in 0 .. Len(hs)] ==
          IF n = 0 THEN Nothing(e) ELSE Proceed(walked[n - 1], walk[hs[n]])
    IN  walked

InTurn(walk, hs, e) == WalkedUpTo(walk, hs, e)[Len(hs)]

-----------------------------------------------------------------------------

\* Anchor names wait in pending until a run or a marker takes them.

EnterAnchorNames(h, e) ==
    IF name[h] \in grammar.ids THEN [e EXCEPT !.pending = AppendUnique(@, <<h>>)] ELSE e

TakePending(e) == [e EXCEPT !.pending = <<>>]

EmitAnchorMarker(h, e) ==
    IF e.pending = <<>>
    THEN Nothing(e)
    ELSE Yield(<<[Node("anchor", h) EXCEPT !.names = e.pending]>>, TakePending(e))

Mark(h, e) ==
    LET marker == EmitAnchorMarker(h, EnterAnchorNames(h, e))
    IN  [marker EXCEPT !.self.marked = h]

Suppress(e) == [e EXCEPT !.scripts = @ + 1]

-----------------------------------------------------------------------------

\* The inline walk: every text node below h becomes a segment.

ChildContext(h, style) ==
    CASE name[h] = "b" -> [style EXCEPT !.strong = TRUE]
      [] name[h] = "a" -> [style EXCEPT !.link = h]
      [] name[h] = "q" -> [style EXCEPT !.cite = h]
      [] OTHER -> style

Segment(chars, style, names) == [text |-> chars, style |-> style, names |-> names]

Between(open, r, close) == Yield(<<open>> \o r.made \o <<close>>, r.self)

SegmentsOf(gather, style, h, e) ==
    LET entered == IF e.marked = h THEN e ELSE EnterAnchorNames(h, e)
        inner   == ChildContext(h, style)
        below   == InTurn(gather[inner], kids[h], entered)
    IN  CASE name[h] = Text ->
               Yield(<<Segment(text[h], style, e.pending)>>, TakePending(e))
          [] name[h] = "script" -> Nothing(Suppress(entered))
          [] name[h] = "style" -> Nothing(entered)
          [] name[h] = "q" ->
               Between(Segment(<<OpenMark>>, inner, <<>>), below,
                       Segment(<<CloseMark>>, inner, <<>>))
          [] OTHER -> below

GatherSegments[n \in 0 .. Levels] ==
    IF n = 0
    THEN [style \in Style |-> Idle]
    ELSE [style \in Style |-> [h \in Handle |-> [e \in Extractor |->
            SegmentsOf(GatherSegments[n - 1], style, h, e)]]]

\* block_runs: the segments of a list of nodes, and what is still pending on a
\* segment of its own.
SegmentPending(r) ==
    IF r.self.pending = <<>>
    THEN r
    ELSE Yield(Append(r.made, Segment(<<>>, Plain, r.self.pending)), TakePending(r.self))

Gather(hs, e) == SegmentPending(InTurn(GatherSegments[Levels][Plain], hs, e))

\* The runs of what was gathered, if there are any, are those of a node.
PushRuns(runs, node, e) ==
    IF runs = <<>> THEN Nothing(e) ELSE Yield(<<[node EXCEPT !.runs = runs]>>, e)

PushGathered(r, node) == PushRuns(CollapseSegments(r.made), node, r.self)

FlushInlineParagraph(hs, e) ==
    IF hs = <<>> THEN Nothing(e) ELSE PushGathered(Gather(hs, e), AnonymousParagraph(hs))

PushTextBlock(h, e) == PushGathered(Gather(<<h>>, e), Node(name[h], h))

-----------------------------------------------------------------------------

\* Preformatted text keeps its line feeds, but for those at its two ends.

CharactersOf(gather, h, e) ==
    CASE name[h] = Text -> Yield(text[h], e)
      [] name[h] = "script" -> Nothing(Suppress(e))
      [] name[h] = "style" -> Nothing(e)
      [] OTHER -> InTurn(gather, kids[h], e)

GatherText[n \in 0 .. Levels] ==
    IF n = 0
    THEN Idle
    ELSE [h \in Handle |-> [e \in Extractor |-> CharactersOf(GatherText[n - 1], h, e)]]

TrimLineFeeds(t) ==
    LET visible == {i \in DOMAIN t : Visible(t[i])}
    IN  IF visible = {} THEN <<>> ELSE SubSeq(t, Min(visible), Max(visible))

PushText(t, node, e) ==
    IF t = <<>> THEN Nothing(e) ELSE Yield(<<[node EXCEPT !.text = t]>>, e)

PushVerbatim(h, e) ==
    LET Keep(r) == PushText(TrimLineFeeds(r.made), Node("pre", h), r.self)
    IN  Keep(GatherText[Levels][h][e])

-----------------------------------------------------------------------------

\* The options of a select: an "option" is unselected in the page, an "option
\* selected" selected; a group is transparent.  A select offers a single choice:
\* those with the multiple attribute are left out.

OptionOf(k) == [of |-> k, selected |-> name[k] = "option selected"]

CollectOption(collect, options, k) ==
    CASE Len(options) >= MaxSelectOptions -> options
      [] Len(options) < MaxSelectOptions /\ name[k] \in {"option", "option selected"} ->
           Append(options, OptionOf(k))
      [] Len(options) < MaxSelectOptions /\ name[k] = Text -> options
      [] OTHER -> collect[k][options]

CollectedUpTo(collect, hs, options) ==
    LET collected[n \in 0 .. Len(hs)] ==
          IF n = 0 THEN options ELSE CollectOption(collect, collected[n - 1], hs[n])
    IN  collected

CollectOptions[n \in 0 .. Levels] ==
    IF n = 0
    THEN [h \in Handle |-> [options \in Seq(Option) |-> options]]
    ELSE [h \in Handle |-> [options \in Seq(Option) |->
            CollectedUpTo(CollectOptions[n - 1], kids[h], options)[Len(kids[h])]]]

KeepLastSelected(options) ==
    LET last == Max({i \in DOMAIN options : options[i].selected} \cup {0})
    IN  IF last = 0
        THEN options
        ELSE [i \in DOMAIN options |-> [options[i] EXCEPT !.selected = (i = last)]]

Options(h) ==
    IF name[h] = "select" THEN KeepLastSelected(CollectOptions[Levels][h][<<>>]) ELSE <<>>

\* allocate_node_id, for the node a control or a form will be.
Allocate(e) == [e EXCEPT !.next = @ + 1]

PushControl(h, e) ==
    Yield(<<[Node(name[h], h) EXCEPT !.id = e.next, !.options = Options(h)]>>, Allocate(e))

\* push_button: a button is pushed with or without runs.
PushButton(h, e) ==
    LET Keep(r) == Yield(<<[Node("button", h) EXCEPT
                              !.id = e.next, !.runs = CollapseSegments(r.made)]>>, r.self)
    IN  Keep(Gather(<<h>>, Allocate(e)))

-----------------------------------------------------------------------------

\* A container is dropped when nothing was collected for it.
Enclose(r, node) ==
    IF r.made = <<>> THEN r ELSE Yield(<<[node EXCEPT !.kids = r.made]>>, r.self)

\* child_is_block_level
BlockWithin(blocks, h) ==
    name[h] \in BlockTag \/ \E i \in DOMAIN kids[h] : blocks[kids[h][i]]

BlockLevel[n \in 0 .. Levels] ==
    IF n = 0
    THEN [h \in Handle |-> FALSE]
    ELSE [h \in Handle |-> BlockWithin(BlockLevel[n - 1], h)]

\* block_children: bare inline content between blocks is an anonymous paragraph.
\* r.inline is the content since the last block.
WithInline(r, hs) == [made |-> r.made, self |-> r.self, inline |-> hs]

Flush(r) == Continue(r, FlushInlineParagraph(r.inline, r.self))

\* For the mutants: what was flushed stays in the list.
BlockChildTwice(walk, r, k) ==
    IF BlockLevel[Levels][k]
    THEN WithInline(Proceed(Flush(r), walk[k]), r.inline)
    ELSE [r EXCEPT !.inline = Append(@, k)]

BlockChild(walk, r, k) ==
    IF BlockLevel[Levels][k]
    THEN WithInline(Proceed(Flush(r), walk[k]), <<>>)
    ELSE [r EXCEPT !.inline = Append(@, k)]

ChildrenUpTo(walk, hs, e) ==
    LET pushed[n \in 0 .. Len(hs)] ==
          IF n = 0 THEN WithInline(Nothing(e), <<>>)
          ELSE BlockChild(walk, pushed[n - 1], hs[n])
    IN  pushed

BlockChildren(walk, h, e) == Flush(ChildrenUpTo(walk, kids[h], e)[Len(kids[h])])

-----------------------------------------------------------------------------

\* Lists and tables; w holds the walks of a node and of the rows below one, a
\* level down.

PushListItem(w, k, e) ==
    IF name[k] = "li" THEN Enclose(BlockChildren(w.node, k, e), Node("li", k))
    ELSE Nothing(e)

ListItems(w) == [k \in Handle |-> [e \in Extractor |-> PushListItem(w, k, e)]]

PushCell(w, k, e) ==
    LET Fill(r) == Continue(r, BlockChildren(w.node, k, r.self))
        Keep(r) == Yield(<<[Node(name[k], k) EXCEPT !.kids = r.made]>>, r.self)
    IN  IF name[k] \in CellName THEN Keep(Fill(Mark(k, e))) ELSE Nothing(e)

RowCells(w) == [k \in Handle |-> [e \in Extractor |-> PushCell(w, k, e)]]

PushRow(w, k, e) ==
    CASE name[k] = "tr" -> Enclose(InTurn(RowCells(w), kids[k], e), Node("tr", k))
      [] name[k] \in Section -> w.rows[k][e]
      [] OTHER -> Nothing(e)

CollectRows(w, h, e) ==
    InTurn([k \in Handle |-> [e2 \in Extractor |-> PushRow(w, k, e2)]], kids[h], e)

AtMost(n, s) == SubSeq(s, 1, IF Len(s) < n THEN Len(s) ELSE n)

Narrowed(n, rows) == [i \in DOMAIN rows |-> [rows[i] EXCEPT !.kids = AtMost(n, @)]]

TruncateTable(rows) == Narrowed(MaxTableColumns, AtMost(MaxTableRows, rows))

TableNodes(h, rows) ==
    LET kept == TruncateTable(rows)
    IN  IF kept = <<>> THEN <<>>
        ELSE <<[Node("table", h) EXCEPT !.kids = kept]>>
             \o (IF kept = rows THEN <<>> ELSE <<Node("warning", h)>>)

PushTable(w, h, e) ==
    LET Keep(r) == Yield(TableNodes(h, r.made), r.self)
    IN  Keep(CollectRows(w, h, e))

\* The caption is lifted out of the figure's children; the last one counts.
Captioned(r, runs) == [made |-> r.made, self |-> r.self, caption |-> runs]

FigureChild(walk, r, k) ==
    LET Lift(g) == Captioned(Yield(r.made, g.self), CollapseSegments(g.made))
    IN  IF name[k] = "figcaption" THEN Lift(Gather(<<k>>, r.self))
        ELSE Captioned(Proceed(r, walk[k]), r.caption)

FigureUpTo(walk, hs, e) ==
    LET pushed[n \in 0 .. Len(hs)] ==
          IF n = 0 THEN Captioned(Nothing(e), <<>>)
          ELSE FigureChild(walk, pushed[n - 1], hs[n])
    IN  pushed

PushFigure(walk, h, e) ==
    LET Keep(r) == IF r.made = <<>> /\ r.caption = <<>> THEN Nothing(r.self)
                   ELSE Yield(<<[Node("figure", h) EXCEPT
                                   !.kids = r.made, !.runs = r.caption]>>, r.self)
    IN  Keep(FigureUpTo(walk, kids[h], e)[Len(kids[h])])

\* For the mutants: the form is numbered when its controls have been.
PushFormAfterwards(walk, h, e) ==
    LET Number(r) == Enclose(Yield(r.made, Allocate(r.self)),
                             [Node("form", h) EXCEPT !.id = r.self.next])
    IN  Number(BlockChildren(walk, h, e))

PushForm(walk, h, e) ==
    Enclose(BlockChildren(walk, h, Allocate(e)), [Node("form", h) EXCEPT !.id = e.next])

\* map_named_element
HandleElement(w, h, e) ==
    CASE name[h] = "script"         -> Nothing(Suppress(e))
      [] name[h] \in {"style", "title"} -> Nothing(e)
      [] name[h] \in TextBlock      -> PushTextBlock(h, e)
      [] name[h] \in Lists          ->
           Enclose(InTurn(ListItems(w), kids[h], e), Node(name[h], h))
      [] name[h] \in Container      ->
           Enclose(BlockChildren(w.node, h, e), Node(name[h], h))
      [] name[h] \in VerbatimBlock  -> PushVerbatim(h, e)
      [] name[h] = "table"          -> PushTable(w, h, e)
      [] name[h] \in Leaf           -> Yield(<<Node(name[h], h)>>, e)
      [] name[h] = "figure"         -> PushFigure(w.node, h, e)
      [] name[h] = "form"           -> PushForm(w.node, h, e)
      [] name[h] \in Control        -> PushControl(h, e)
      [] name[h] = "button"         -> PushButton(h, e)
      [] OTHER                      -> InTurn(w.node, kids[h], e)

\* The block walk drops text that stands in no block; an element's marker
\* stands before what it becomes.
WalkNode(w, h, e) ==
    LET Handle_(r) == Continue(r, HandleElement(w, h, r.self))
    IN  CASE name[h] = Text -> Nothing(e)
          [] name[h] = Root -> InTurn(w.node, kids[h], e)
          [] OTHER -> Handle_(Mark(h, e))

Walks[n \in 0 .. Levels] ==
    IF n = 0
    THEN [node |-> Idle, rows |-> Idle]
    ELSE [node |-> [h \in Handle |-> [e \in Extractor |-> WalkNode(Walks[n - 1], h, e)]],
          rows |-> [h \in Handle |-> [e \in Extractor |-> CollectRows(Walks[n - 1], h, e)]]]

\* finish: the nodes, and a warning where scripts were suppressed.
Finished(r) ==
    [nodes |-> IF r.self.scripts = 0 THEN r.made
               ELSE Append(r.made, Node("warning", Document)),
     scripts |-> r.self.scripts]

Extract == Finished(Walks[Levels].node[Document][NewExtractor])

NoDocument == [nodes |-> <<>>, scripts |-> 0]

-----------------------------------------------------------------------------

InitDocument == InitDom /\ phase = "parsing" /\ document = NoDocument

Parse == phase = "parsing" /\ NextDom /\ UNCHANGED <<grammar, phase, document>>

\* parse_html_with_base, once html5ever is through.
FinishParsing ==
    /\ phase = "parsing"
    /\ OverLimit \/ Loose = {}
    /\ IF LimitError
       THEN phase' = "failed" /\ document' = NoDocument
       ELSE phase' = "parsed" /\ document' = Extract
    /\ UNCHANGED <<dom, grammar>>

SpecDocument ==
    InitDocument /\ [][Parse \/ FinishParsing]_<<dom, grammar, phase, document>>

-----------------------------------------------------------------------------

\* The page, as the properties look at it: the text below a node without
\* scripts and styles, and the nodes below some nodes, n levels down or any.

JoinedUpTo(texts, hs) ==
    LET joined[n \in 0 .. Len(hs)] ==
          IF n = 0 THEN <<>> ELSE joined[n - 1] \o texts[hs[n]]
    IN  joined

Joined(texts, hs) == JoinedUpTo(texts, hs)[Len(hs)]

TextOf(texts, h) ==
    CASE name[h] = Text -> text[h]
      [] name[h] \in {"script", "style"} -> <<>>
      [] name[h] = "q" -> <<OpenMark>> \o Joined(texts, kids[h]) \o <<CloseMark>>
      [] OTHER -> Joined(texts, kids[h])

RawText[n \in 0 .. Levels] ==
    IF n = 0
    THEN [h \in Handle |-> <<>>]
    ELSE [h \in Handle |-> TextOf(RawText[n - 1], h)]

Kids(nodes) == UNION {ToSet(m.kids) : m \in nodes}

NodesDownTo(roots, bottom) ==
    LET level[n \in 0 .. bottom] ==
          IF n = 0 THEN roots ELSE Kids(level[n - 1])
    IN  level

NodesAt(roots, n) == NodesDownTo(roots, n)[n]

AllNodes(roots) == UNION {NodesAt(roots, n) : n \in 0 .. Levels}

\* What styled characters are without their style, and a text with its
\* whitespace collapsed.
Unstyled(t) == [i \in DOMAIN t |-> t[i].char]
RunsText(runs) == Unstyled(StyledText(runs))
CollapsedText(t) == Unstyled(Collapsed(Tagged(t, Plain)))

\* What a node's runs come from: for a figure, its last caption.
LastCaption(hs) == Max({i \in DOMAIN hs : name[hs[i]] = "figcaption"} \cup {0})
Source(n) ==
    IF n.kind # "figure" THEN n.of
    ELSE LET hs == kids[n.of[1]]
         IN  IF LastCaption(hs) = 0 THEN <<>> ELSE <<hs[LastCaption(hs)]>>

(***************************************************************************)
(* A text block of the document reads as its part of the page does: the    *)
(* runs, put together, are the text below its source with whitespace       *)
(* collapsed, whatever elements cut it into runs and wherever the spaces   *)
(* stand (parser.rs, gather_segments and RunBuilder).                      *)
(***************************************************************************)
ReadsAsItsSource(n) ==
    RunsText(n.runs) = CollapsedText(Joined(RawText[Levels], Source(n)))

TextIsCollapsedFaithfully ==
    \A n \in AllNodes(ToSet(document.nodes)) :
       n.kind \in TextBlock \cup {"button", "figure"} => ReadsAsItsSource(n)

(***************************************************************************)
(* Forms and controls are numbered as the page reads: a form before its    *)
(* controls, and what stands below an earlier node before what stands      *)
(* below a later one (parser.rs push_form, "so the form's own id precedes  *)
(* its controls' ids").                                                    *)
(***************************************************************************)
IdsOf(roots) == {n.id : n \in AllNodes(roots)} \ {None}

Precede(A, B) == \A a \in A, b \in B : a < b

InOrder(nodes) ==
    \A i, j \in 1 .. Len(nodes) :
       i < j => Precede(IdsOf({nodes[i]}), IdsOf({nodes[j]}))

NumberedAsItReads(n) == InOrder(n.kids) /\ Precede({n.id} \ {None}, IdsOf(ToSet(n.kids)))

NumbersFollowThePage ==
    /\ InOrder(document.nodes)
    /\ \A n \in AllNodes(ToSet(document.nodes)) : NumberedAsItReads(n)

(***************************************************************************)
(* What a page may make the layout work for is bounded: a table has at     *)
(* most MaxTableRows rows of MaxTableColumns cells, and a select of one    *)
(* choice has at most MaxSelectOptions options, of which at most one is    *)
(* selected (parser.rs push_table, collect_options, keep_last_selected).   *)
(***************************************************************************)
WithinLimits(n) ==
    /\ n.kind = "table" =>
          /\ Len(n.kids) <= MaxTableRows
          /\ \A i \in 1 .. Len(n.kids) : Len(n.kids[i].kids) <= MaxTableColumns
    /\ Len(n.options) <= MaxSelectOptions
    /\ \A i, j \in 1 .. Len(n.options) :
          n.options[i].selected /\ n.options[j].selected => i = j

DocumentIsBounded ==
    \A n \in AllNodes(ToSet(document.nodes)) : WithinLimits(n)
=============================================================================
