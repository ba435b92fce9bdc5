----------------------------- MODULE PageLayout -----------------------------
(***************************************************************************)
(* How a document becomes rows of terminal cells: browser-layout, its      *)
(* render.rs (blocks, word wrap, spans) and table.rs (columns or records). *)
(* A page can be laid out again at another width; every layout starts from *)
(* the document.                                                           *)
(*                                                                         *)
(* A cell is the character it shows with the marks layout leaves on it:    *)
(* link, citation, field, anchor names.  Style is left out, except         *)
(* display: none and the blank row the user-agent style puts after a block *)
(* (browser-css cascade.rs).  What the browser writes itself (bullets,     *)
(* rules, brackets, placeholders, warnings) is Ink, one column each.       *)
(***************************************************************************)
EXTENDS HtmlDocument, GridRows

CONSTANTS
    Widths,          \* bound: the terminal widths pages are laid out to
    PlaceholderSize, \* bound: the columns of every placeholder and warning
    RuleSize         \* MIN_RULE_WIDTH, made small

ASSUME LayoutAssumption ==
    Widths \subseteq Nat /\ PlaceholderSize \in Nat /\ RuleSize \in Nat

VARIABLE
    width  \* the width of the last layout, 0 before the first

vars == <<dom, grammar, phase, document, width, rows>>

QuoteIndent == 2
-----------------------------------------------------------------------------

\* runs_to_cells: the names of a run go on its first cell; those of a run
\* without text on the first cell that follows.
RunCells(run) ==
    [i \in DOMAIN run.text |->
       [Blank EXCEPT !.char = run.text[i], !.link = run.style.link,
                     !.cite = run.style.cite]]

NameFirst(cells, names) ==
    [cells EXCEPT ![1].names = AppendUnique(@, names)]

AddRun(r, run) ==
    LET waiting == AppendUnique(r.waiting, run.names)
    IN  IF run.text = <<>>
        THEN [cells |-> r.cells, waiting |-> waiting]
        ELSE [cells |-> r.cells \o NameFirst(RunCells(run), waiting), waiting |-> <<>>]

AddedRuns(runs) ==
    LET added[n \in 0 .. Len(runs)] ==
          IF n = 0 THEN [cells |-> <<>>, waiting |-> <<>>] ELSE AddRun(added[n - 1], runs[n])
    IN  added

RunsToCells(runs) == AddedRuns(runs)[Len(runs)].cells

-----------------------------------------------------------------------------

\* The rows of the blocks.

MarkField(cells, id) == [i \in DOMAIN cells |-> [cells[i] EXCEPT !.field = id]]

Wrap(runs, w) == WrapCells(RunsToCells(runs), w)

Placeholder(w) == Clip(Cells(PlaceholderSize, Ink), w)

\* render_verbatim: one clipped row per line.
AddCharacter(lines, c) ==
    IF c = Space THEN Append(lines, <<>>)
    ELSE [lines EXCEPT ![Len(lines)] = Append(@, [Blank EXCEPT !.char = c])]

LinesUpTo(t) ==
    LET lines[n \in 0 .. Len(t)] ==
          IF n = 0 THEN <<<<>>>> ELSE AddCharacter(lines[n - 1], t[n])
    IN  lines

Lines(t) == LinesUpTo(t)[Len(t)]

ClipAll(lines, w) == [i \in DOMAIN lines |-> Clip(lines[i], w)]
VerbatimRows(t, w) == ClipAll(Lines(t), w)

\* separator_row, rule_width
SeparatorRow(w) ==
    LET rule == IF RuleSize < w THEN RuleSize ELSE w
    IN  Spaces((w - rule) \div 2) \o Cells(rule, Ink)

ButtonRow(runs, w) == Clip(Cells(2, Ink) \o RunsToCells(runs) \o Cells(2, Ink), w)

\* trim_trailing_blanks
TrimBlankRows(rs) ==
    SubSeq(rs, 1, Max({i \in DOMAIN rs : rs[i] # <<>>} \cup {0}))

QuoteIndentFor(w) == IF w > QuoteIndent THEN QuoteIndent ELSE 0

\* list_marker: a bullet or a number with its dot, and a space.
Digits(n) == Max({1} \cup {k \in 2 .. n : 10^(k - 1) <= n})
ListMarker(kind, ordinal) ==
    Cells(IF kind = "ol" THEN Digits(ordinal) + 1 ELSE 1, Ink) \o Spaces(1)
ListContentWidth(w, marker) == IF w > Len(marker) THEN w - Len(marker) ELSE w

\* The blank row after a block, from the user-agent declarations.
SpacingAfter(kind) ==
    IF kind \in {"h1", "p", "pre", "blockquote", "hr", "ul", "ol", "table",
                 "figure", "details", "form"} \cup Landmark
    THEN 1 ELSE 0

\* For the mutants: the names wait for the end of what is drawn.
MarkPendingLast(rs, pending) ==
    LET drawn == {i \in DOMAIN rs : rs[i] # <<>>}
    IN  IF pending = <<>> \/ drawn = {}
        THEN [rows |-> rs, pending |-> pending]
        ELSE [rows |-> [rs EXCEPT ![Max(drawn)] = NameFirst(@, pending)],
              pending |-> <<>>]

\* mark_pending_anchors: onto the first row that has a cell, of those given.
MarkPending(rs, pending) ==
    LET drawn == {i \in DOMAIN rs : rs[i] # <<>>}
    IN  IF pending = <<>> \/ drawn = {}
        THEN [rows |-> rs, pending |-> pending]
        ELSE [rows |-> [rs EXCEPT ![Min(drawn)] = NameFirst(@, pending)],
              pending |-> <<>>]

\* mark_trailing_anchors: onto the last row that has a cell.
MarkTrailing(r) ==
    LET drawn == {i \in DOMAIN r.rows : r.rows[i] # <<>>}
    IN  IF r.pending = <<>> \/ drawn = {}
        THEN r.rows
        ELSE [r.rows EXCEPT ![Max(drawn)] = NameFirst(@, r.pending)]

-----------------------------------------------------------------------------

\* The cells of a table that holds data, as lines of cells.

LayoutChild == {"table", "form", "textarea", "details"} \cup Lists \cup Landmark

IsLayoutTable(trs) ==
    \E i \in DOMAIN trs : \E j \in DOMAIN trs[i].kids :
       LET children == trs[i].kids[j].kids
       IN  \E k \in DOMAIN children : children[k].kind \in LayoutChild

SpaceRun == [text |-> <<Space>>, style |-> Plain, names |-> <<>>]
AnchorOnlyRun(names) == [text |-> <<>>, style |-> Plain, names |-> names]

AppendBlockRuns(runs, block) ==
    IF block = <<>> THEN runs
    ELSE runs \o (IF runs = <<>> THEN <<>> ELSE <<SpaceRun>>) \o block

\* collect_node_runs: below holds what is collected of the nodes a level down.
RunsUpTo(below, nodes, runs) ==
    LET collected[n \in 0 .. Len(nodes)] ==
          IF n = 0 THEN runs ELSE below[nodes[n]][collected[n - 1]]
    IN  collected

CollectNodeRuns(below, node, runs) ==
    CASE node.kind \in Heading \cup {"p"} -> AppendBlockRuns(runs, node.runs)
      [] node.kind \in Lists \cup {"li", "blockquote"} ->
           RunsUpTo(below, node.kids, runs)[Len(node.kids)]
      [] node.kind = "anchor" -> Append(runs, AnchorOnlyRun(node.names))
      [] OTHER -> runs

NodeRuns[n \in 0 .. Height] ==
    IF n = 0
    THEN [node \in AnyNode |-> [runs \in Seq(Run) |-> runs]]
    ELSE [node \in AnyNode |-> [runs \in Seq(Run) |->
            CollectNodeRuns(NodeRuns[n - 1], node, runs)]]

CellRuns(nodes) == RunsUpTo(NodeRuns[Height], nodes, <<>>)[Len(nodes)]

GridCell(cell) ==
    [header |-> cell.kind = "th",
     content |-> RunsToCells(CellRuns(cell.kids))]

Grid(trs) ==
    [i \in DOMAIN trs |-> [j \in DOMAIN trs[i].kids |-> GridCell(trs[i].kids[j])]]

DataTableRows(trs, w) ==
    LET Fit(grid) == ColumnsOrRecords(grid, ColumnWidths(grid), w)
    IN  IF trs = <<>> THEN <<>> ELSE Fit(Grid(trs))

-----------------------------------------------------------------------------

\* Rows with the names that still wait for one.
Pass(rs, pending) == [rows |-> rs, pending |-> pending]
After(rs, content) == Pass(rs \o content.rows, content.pending)

\* append_node_rows: r is the rows so far and the names that wait; below holds
\* the rows of the nodes a level down.
AddRows(r, content, node) ==
    Pass(r.rows \o content.rows
         \o (IF content.rows = <<>> THEN <<>>
             ELSE [i \in 1 .. SpacingAfter(node.kind) |-> <<>>]),
         content.pending)

AppendNodeRows(below, r, node, w) ==
    LET Marked(content) == AddRows(r, MarkPending(content.rows, content.pending), node)
    IN  CASE node.kind = "anchor" -> Pass(r.rows, AppendUnique(r.pending, node.names))
          [] node.kind # "anchor" /\ node.hide -> r
          [] node.kind # "anchor" /\ ~node.hide -> Marked(below[node][w][r.pending])

RenderedUpTo(below, nodes, w, pending) ==
    LET rendered[n \in 0 .. Len(nodes)] ==
          IF n = 0 THEN Pass(<<>>, pending)
          ELSE AppendNodeRows(below, rendered[n - 1], nodes[n], w)
    IN  rendered

RenderChildren(below, nodes, w, pending) ==
    RenderedUpTo(below, nodes, w, pending)[Len(nodes)]

\* render_list: the display of an item is not consulted.
ListItemRows(below, item, marker, w, pending) ==
    LET Marked(content) == Pass(Indent(TrimBlankRows(content.rows), marker), content.pending)
    IN  Marked(RenderChildren(below, item.kids, ListContentWidth(w, marker), pending))

ListUpTo(below, kind, items, w, pending) ==
    LET listed[n \in 0 .. Len(items)] ==
          IF n = 0 THEN Pass(<<>>, pending)
          ELSE After(listed[n - 1].rows,
                     ListItemRows(below, items[n], ListMarker(kind, n), w,
                                  listed[n - 1].pending))
    IN  listed

ListRows(below, node, w, pending) ==
    ListUpTo(below, node.kind, node.kids, w, pending)[Len(node.kids)]

\* render_blockquote
QuoteRows(below, node, w, pending) ==
    LET indent == QuoteIndentFor(w)
        Quote(content) ==
            Pass(Indent(TrimBlankRows(content.rows), Spaces(indent)), content.pending)
    IN  Quote(RenderChildren(below, node.kids, w - indent, pending))

\* render_layout_table: the cells of a layout table are blocks, one by one.
LayoutRowUpTo(below, cells, w, r) ==
    LET laid[n \in 0 .. Len(cells)] ==
          IF n = 0 THEN r
          ELSE After(laid[n - 1].rows,
                     RenderChildren(below, cells[n].kids, w, laid[n - 1].pending))
    IN  laid

LayoutTableUpTo(below, trs, w, pending) ==
    LET laid[n \in 0 .. Len(trs)] ==
          IF n = 0 THEN Pass(<<>>, pending)
          ELSE LayoutRowUpTo(below, trs[n].kids, w, laid[n - 1])[Len(trs[n].kids)]
    IN  laid

TableRows(below, trs, w, pending) ==
    IF IsLayoutTable(trs)
    THEN LayoutTableUpTo(below, trs, w, pending)[Len(trs)]
    ELSE Pass(DataTableRows(trs, w), pending)

\* render_figure
FigureRows(below, node, w, pending) ==
    LET WithCaption(content) ==
            Pass(content.rows \o Wrap(node.runs, w), content.pending)
    IN  WithCaption(RenderChildren(below, node.kids, w, pending))

\* node_rows, with the names that wait once its rows are there.
RowsOfNode(below, node, w, pending) ==
    CASE node.kind \in TextBlock   -> Pass(Wrap(node.runs, w), pending)
      [] node.kind = "blockquote"  -> QuoteRows(below, node, w, pending)
      [] node.kind \in Lists       -> ListRows(below, node, w, pending)
      [] node.kind = "table"       -> TableRows(below, node.kids, w, pending)
      [] node.kind = "pre"         -> Pass(VerbatimRows(node.text, w), pending)
      [] node.kind = "hr"          -> Pass(<<SeparatorRow(w)>>, pending)
      [] node.kind \in {"warning", "iframe"} -> Pass(<<Placeholder(w)>>, pending)
      [] node.kind = "figure"      -> FigureRows(below, node, w, pending)
      [] node.kind \in {"li", "details", "form"} \cup Landmark ->
           RenderChildren(below, node.kids, w, pending)
      [] node.kind \in {"input", "textarea", "select"} ->
           Pass(<<MarkField(Placeholder(w), node.id)>>, pending)
      [] node.kind = "button"      ->
           Pass(<<MarkField(ButtonRow(node.runs, w), node.id)>>, pending)
      [] OTHER                     -> Pass(<<>>, pending)

NodeRows[n \in 0 .. Height] ==
    IF n = 0
    THEN [node \in AnyNode |-> [w \in Nat |-> [pending \in Seq(Handle) |->
            Pass(<<>>, pending)]]]
    ELSE [node \in AnyNode |-> [w \in Nat |-> [pending \in Seq(Handle) |->
            RowsOfNode(NodeRows[n - 1], node, w, pending)]]]

-----------------------------------------------------------------------------

\* The spans extracted from the rows.

AnchorSpans ==
    {span \in Handle \X DOMAIN rows :
       \E cell \in ToSet(rows[span[2]]) : span[1] \in ToSet(cell.names)}

-----------------------------------------------------------------------------

Init == InitDocument /\ width = 0 /\ rows = <<>>

\* render_document
Rendered(nodes, w) == MarkTrailing(RenderChildren(NodeRows[Height], nodes, w, <<>>))

Draw(w) ==
    /\ phase = "parsed"
    /\ w # width
    /\ width' = w
    /\ rows' = Rendered(document.nodes, w)
    /\ UNCHANGED <<dom, grammar, phase, document>>

Next ==
    \/ Parse /\ UNCHANGED <<width, rows>>
    \/ FinishParsing /\ UNCHANGED <<width, rows>>
    \/ \E w \in Widths : Draw(w)

Spec == Init /\ [][Next]_vars

-----------------------------------------------------------------------------

\* The page, as the properties look at it: the nodes below a node in page
\* order, and their characters.

PageOrder[n \in 0 .. Levels] ==
    [h \in Handle |->
       <<h>> \o (IF n = 0 THEN <<>>
                 ELSE FlattenSeq([i \in DOMAIN kids[h] |-> PageOrder[n - 1][kids[h][i]]]))]

Ordered(h) == PageOrder[Levels][h]
PageText == Joined(text, Ordered(Document))
CharsBelow(h) == (UNION {ToSet(text[k]) : k \in ToSet(Ordered(h))}) \ {Space}
OfPage(c) == c \in 1 .. written
CaptionChars == UNION {CharsBelow(h) : h \in {k \in Elements : name[k] = "figcaption"}}

\* What is drawn, in reading order, and where a character is drawn.
Drawn == FlattenSeq(rows)
DrawnText == [i \in DOMAIN Drawn |-> Drawn[i].char]
RowsOf(c) == {i \in DOMAIN rows : \E j \in DOMAIN rows[i] : rows[i][j].char = c}

\* The fields on the screen, row by row.
FieldsOnScreen ==
    FlattenSeq([i \in DOMAIN rows |->
       [k \in DOMAIN FieldSpans(rows[i]) |-> FieldSpans(rows[i])[k].mark]])

Increasing(s) == \A i, j \in DOMAIN s : i < j => s[i] < s[j]

\* The tables of data with a row of headers, and the text of that row.
HeaderTables ==
    {t \in AllNodes(ToSet(document.nodes)) :
       /\ t.kind = "table" /\ ~IsLayoutTable(t.kids)
       /\ \A j \in DOMAIN t.kids[1].kids : t.kids[1].kids[j].kind = "th"}

HeaderChars == UNION {CharsBelow(t.kids[1].of[1]) : t \in HeaderTables}

\* The text of such a table as records: each field after the first stands
\* behind the text of its header.
TextOfCell(cell) == SelectSeq(Joined(text, Ordered(cell.of[1])), LAMBDA c : RowsOf(c) # {} /\ OfPage(c))

LabelledField(t, i, j) ==
    LET field == t.kids[i].kids[j]
        labelled == /\ j \in 2 .. Len(t.kids[1].kids)
                    /\ GridCell(field).content # <<>>
    IN  (IF labelled THEN TextOfCell(t.kids[1].kids[j]) ELSE <<>>) \o TextOfCell(field)

LabelledRecord(t, i) ==
    FlattenSeq([j \in DOMAIN t.kids[i].kids |-> LabelledField(t, i, j)])

TextAsRecords(t) ==
    FlattenSeq([i \in 1 .. Len(t.kids) - 1 |-> LabelledRecord(t, i + 1)])

ReadsAsThePage(chars) ==
    LET drawn == SelectSeq(DrawnText, LAMBDA c : c \in chars)
    IN  drawn = SelectSeq(PageText, LAMBDA c : c \in ToSet(drawn))

ReadsAsRecords(t) ==
    SelectSeq(DrawnText, LAMBDA c : c \in CharsBelow(t.of[1])) = TextAsRecords(t)

(***************************************************************************)
(* No character of the page is drawn twice, and they are read in page      *)
(* order, captions apart, which follow their figure, and but for one case: *)
(* a table with a row of headers that is drawn as records has the text of  *)
(* a header before each field of its column, as often as there are such    *)
(* fields, and nowhere else (table.rs, append_record).  And the fields of  *)
(* the page's forms stand in the order of their numbers, so that the first *)
(* and the next field of the keyboard are those of the page.  The block    *)
(* walk, the inline walk and the table reach the same nodes by different   *)
(* paths.  The labels of controls, which repeat text too, are left out.    *)
(***************************************************************************)
PageIsDrawnOnceInOrder ==
    /\ ReadsAsThePage(CaptionChars)
    /\ ReadsAsThePage((1 .. written) \ (CaptionChars \cup HeaderChars))
    /\ \A t \in HeaderTables : ReadsAsThePage(CharsBelow(t.of[1])) \/ ReadsAsRecords(t)
    /\ Increasing(FieldsOnScreen)

\* The text of a node's runs that has a column of its own, and that of some
\* nodes.
OwnText(node) == {c \in ToSet(RunsText(node.runs)) : OfPage(c) /\ CharColumns(c) > 0}
Within(texts, nodes) == UNION {texts[m] : m \in nodes}

\* The text that a cell of a data table shows on its line: paragraphs and
\* headings, also in lists and quotations.
LineTextOf(below, node) ==
    CASE node.kind \in {"p", "h1"} -> OwnText(node)
      [] node.kind \in Lists \cup {"li", "blockquote"} -> Within(below, ToSet(node.kids))
      [] OTHER -> {}

LineText[n \in 0 .. Height] ==
    IF n = 0
    THEN [node \in AnyNode |-> {}]
    ELSE [node \in AnyNode |-> LineTextOf(LineText[n - 1], node)]

DataText(trs) ==
    UNION {Within(LineText[Height], ToSet(cell.kids)) :
             cell \in {k \in Kids(ToSet(trs)) : k.kind = "td"}}

\* The nodes that are laid out as a node's content: an item of a list and a
\* cell of a table stand for what is in them, whatever their own display is.
Content(node) ==
    CASE node.kind \in Lists -> Kids(ToSet(node.kids))
      [] node.kind = "table" -> Kids(Kids(ToSet(node.kids)))
      [] OTHER -> ToSet(node.kids)

\* The text of paragraphs and headings, where nothing may hide or replace it:
\* not hidden, not in a figure, not in a header cell.
FlowTextOf(below, node) ==
    CASE node.hide -> {}
      [] ~node.hide /\ node.kind \in {"p", "h1"} -> OwnText(node)
      [] ~node.hide /\ node.kind = "table" /\ ~IsLayoutTable(node.kids) -> DataText(node.kids)
      [] ~node.hide /\ node.kind = "table" /\ IsLayoutTable(node.kids) ->
           Within(below, Content(node))
      [] ~node.hide /\ node.kind \in Lists \cup Landmark \cup {"li", "blockquote", "details", "form"} ->
           Within(below, Content(node))
      [] OTHER -> {}

FlowText[n \in 0 .. Height] ==
    IF n = 0
    THEN [node \in AnyNode |-> {}]
    ELSE [node \in AnyNode |-> FlowTextOf(FlowText[n - 1], node)]

\* The columns that markers, indents and labels take from the width.
FirstRow(trs) == IF trs = <<>> THEN <<>> ELSE trs[1].kids
LabelWidths(trs) == {Columns(GridCell(cell).content) : cell \in ToSet(FirstRow(trs))}

MarkerColumns(node) == Max({Len(ListMarker(node.kind, i)) : i \in DOMAIN node.kids} \cup {0})

NeedsOf(below, node) ==
    LET inside == Max({below[m] : m \in Content(node)} \cup {0})
    IN  CASE node.kind \in Lists     -> MarkerColumns(node) + inside
          [] node.kind = "blockquote" -> QuoteIndent + inside
          [] node.kind = "table"      ->
               Max({RecordIndent + n + 2 : n \in LabelWidths(node.kids) \cup {0}} \cup {inside})
          [] OTHER                    -> inside

Needs[n \in 0 .. Height] ==
    IF n = 0
    THEN [node \in AnyNode |-> 0]
    ELSE [node \in AnyNode |-> NeedsOf(Needs[n - 1], node)]

(***************************************************************************)
(* Where a page leaves room for a character of two columns, every          *)
(* character of its flowing text that takes a column is in the cell        *)
(* buffer: wrapping, breaking a long word, indenting under a marker or a   *)
(* label and the switch from columns to records lose none of it past the   *)
(* right edge (render.rs, LineWrapper; table.rs, render_records).  One of  *)
(* no column gets no cell of its own: write_row puts what follows over it. *)
(***************************************************************************)
FlowTextIsInTheBuffer ==
    width # 0 =>
       \A k \in DOMAIN document.nodes :
          Needs[Height][document.nodes[k]] + 2 <= width =>
             FlowText[Height][document.nodes[k]] \subseteq
                UNION {{cell.char : cell \in ToSet(Buffer(rows[i], width, Blank))} :
                         i \in DOMAIN rows}

(***************************************************************************)
(* A fragment never lands below the start of its element: no text of the   *)
(* element is drawn above the row of its anchor.  The name travels through *)
(* the pending lists of the extractor, of the run builder and of the       *)
(* renderer (parser.rs enter_anchor_names, render.rs mark_pending_anchors) *)
(* and waits past blocks that draw nothing.                                *)
(***************************************************************************)
AnchorsAreNotBelowTheirText ==
    \A span \in AnchorSpans : \A c \in CharsBelow(span[1]) :
       \A i \in RowsOf(c) : span[2] <= i

(***************************************************************************)
(* Two words that whitespace separates in a block are not drawn as one:    *)
(* LineWrapper holds the space back "until the following word joins the    *)
(* same row".                                                              *)
(***************************************************************************)
Adjacent(c, d) ==
    \E n \in AllNodes(ToSet(document.nodes)) :
       LET t == IF n.kind = "pre" THEN n.text ELSE RunsText(n.runs)
       IN  \E k \in 1 .. Len(t) - 1 : t[k] = c /\ t[k + 1] = d

WordsStaySeparate ==
    \A i \in DOMAIN rows : \A j \in 1 .. Len(rows[i]) - 1 :
       /\ OfPage(rows[i][j].char) /\ OfPage(rows[i][j + 1].char)
       => Adjacent(rows[i][j].char, rows[i][j + 1].char)
=============================================================================
