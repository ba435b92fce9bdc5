------------------------------ MODULE CellRows ------------------------------
(***************************************************************************)
(* Rows of terminal cells, whatever they show: how wide they are, how a    *)
(* line of cells is cut into rows, and which columns of a row belong to a  *)
(* link or a field (browser-layout, width.rs and render.rs).               *)
(*                                                                         *)
(* A cell is any record with a char, and with a link, a citation and a     *)
(* field where its spans are looked at.  Each loop of the code is a        *)
(* function of how many cells it has come past.                            *)
(***************************************************************************)
EXTENDS Naturals, SequencesExt, Characters

CONSTANTS
    Wide,       \* the characters that are two columns wide
    ZeroWidth   \* those that take no column, as a zero width space does

VARIABLES
    rows    \* the rows of the last layout: sequences of cells

\* grapheme_columns
CharColumns(c) ==
    CASE c \in ZeroWidth -> 0
      [] c \in Wide \ ZeroWidth -> 2
      [] OTHER -> 1

\* count_columns: the columns of the first n cells.
ColumnsUpTo(cells) ==
    LET columns[n \in 0 .. Len(cells)] ==
          IF n = 0 THEN 0 ELSE columns[n - 1] + CharColumns(cells[n].char)
    IN  columns

Columns(cells) == ColumnsUpTo(cells)[Len(cells)]

-----------------------------------------------------------------------------

\* LineWrapper: done rows, the current row and its width, and the space held
\* back between two words.  A word that is wider than the line is broken
\* between cells.

IsSpace(cell) == cell.char = Space

FlushRow(l) ==
    [l EXCEPT !.done = Append(@, l.current), !.current = <<>>, !.columns = 0,
              !.space = <<>>]

\* push_grapheme_breaking
PushBreaking(l, cell, w) ==
    LET columns == CharColumns(cell.char)
        open == IF l.current # <<>> /\ l.columns + columns > w THEN FlushRow(l) ELSE l
    IN  [open EXCEPT !.current = Append(@, cell), !.columns = @ + columns]

PushBrokenWord(l, word, w) ==
    LET broken[n \in 0 .. Len(word)] ==
          IF n = 0 THEN [l EXCEPT !.space = <<>>]
          ELSE PushBreaking(broken[n - 1], word[n], w)
    IN  broken[Len(word)]

StartRow(l, word) ==
    [l EXCEPT !.current = word, !.columns = Columns(word), !.space = <<>>]

AppendWithSpace(l, word) ==
    [l EXCEPT !.current = @ \o l.space \o word,
              !.columns = @ + Len(l.space) + Columns(word), !.space = <<>>]

PlaceWord(l, word, w) ==
    CASE l.current = <<>> -> StartRow(l, word)
      [] l.current # <<>> /\ l.columns + 1 + Columns(word) > w -> StartRow(FlushRow(l), word)
      [] l.current # <<>> /\ l.columns + 1 + Columns(word) <= w -> AppendWithSpace(l, word)

\* For the mutants: a word is measured in characters.
PushWordByLength(l, word, w) ==
    IF Len(word) > w THEN PushBrokenWord(l, word, w) ELSE PlaceWord(l, word, w)

PushWord(l, word, w) ==
    IF Columns(word) > w THEN PushBrokenWord(l, word, w) ELSE PlaceWord(l, word, w)

\* flush_word: two spaces in a row have no word between them.
FlushWord(l, w) ==
    IF l.word = <<>> THEN l ELSE [PushWord(l, l.word, w) EXCEPT !.word = <<>>]

\* tokenize_line and wrap_cells in one pass: a space ends a word and is held.
WrapCell(l, cell, w) ==
    IF IsSpace(cell) THEN [FlushWord(l, w) EXCEPT !.space = <<cell>>]
    ELSE [l EXCEPT !.word = Append(@, cell)]

NewWrapper == [done |-> <<>>, current |-> <<>>, columns |-> 0, space |-> <<>>, word |-> <<>>]

WrapUpTo(cells, w) ==
    LET wrapper[n \in 0 .. Len(cells)] ==
          IF n = 0 THEN NewWrapper ELSE WrapCell(wrapper[n - 1], cells[n], w)
    IN  wrapper

FinishRows(l) == IF l.current = <<>> THEN l.done ELSE Append(l.done, l.current)

WrapCells(cells, w) == FinishRows(FlushWord(WrapUpTo(cells, w)[Len(cells)], w))

\* clip_cells: up to the first cell that crosses the width.
Clip(cells, w) ==
    LET fits == {n \in 0 .. Len(cells) : ColumnsUpTo(cells)[n] <= w}
    IN  SubSeq(cells, 1, Max(fits))

-----------------------------------------------------------------------------

\* extract_link_spans and extract_field_spans: one scan of a row, closing the
\* open span where the mark changes and once more at the end of the row.  The
\* marks are those of the row's cells, None where a cell has none.  A span ends
\* a column before the scan, but no further left than the row: saturating_sub.
LastColumn(col) == IF col = 0 THEN 0 ELSE col - 1

CloseSpan(r) ==
    IF r.open = None THEN r.spans
    ELSE Append(r.spans,
                [mark |-> r.open, first |-> r.start, last |-> LastColumn(r.col)])

Advance(r, mark, columns) ==
    IF mark = r.open
    THEN [r EXCEPT !.col = @ + columns]
    ELSE [spans |-> CloseSpan(r), open |-> mark, start |-> r.col, col |-> r.col + columns]

\* For the mutants: one column for each character.
ScanByCell(r, cell, mark) == Advance(r, mark, 1)
ScanCell(r, cell, mark) == Advance(r, mark, CharColumns(cell.char))

NewScan == [spans |-> <<>>, open |-> None, start |-> 0, col |-> 0]

ScanUpTo(row, marks) ==
    LET scan[n \in 0 .. Len(row)] ==
          IF n = 0 THEN NewScan ELSE ScanCell(scan[n - 1], row[n], marks[n])
    IN  scan

Spans(row, marks) == CloseSpan(ScanUpTo(row, marks)[Len(row)])

\* effective_link: a hyperlink wins over the citation around it.
EffectiveLink(cell) ==
    CASE cell.link # None -> <<"link", cell.link>>
      [] cell.link = None /\ cell.cite # None -> <<"cite", cell.cite>>
      [] OTHER -> None
FieldMarker(cell) == cell.field

Links(row) == [j \in DOMAIN row |-> EffectiveLink(row[j])]
Fields(row) == [j \in DOMAIN row |-> FieldMarker(row[j])]

LinkSpans(row) == Spans(row, Links(row))
FieldSpans(row) == Spans(row, Fields(row))

-----------------------------------------------------------------------------

\* write_row and set_cell: each cell at its column, over the one of no column
\* that was written there before it; the second column of a wide character
\* blank; and nothing past the width.
WriteUpTo(row, blank) ==
    LET written[n \in 0 .. Len(row)] ==
          IF n = 0 THEN <<>>
          ELSE SubSeq(written[n - 1], 1, ColumnsUpTo(row)[n - 1]) \o <<row[n]>>
               \o [i \in 1 .. CharColumns(row[n].char) - 1 |-> blank]
    IN  written

Buffer(row, w, blank) ==
    LET columns == WriteUpTo(row, blank)[Len(row)]
    IN  SubSeq(columns, 1, IF Len(columns) < w THEN Len(columns) ELSE w)

-----------------------------------------------------------------------------

\* The spans of a row are right for the marks of its cells.
ColumnsOfCell(row, j) == ColumnsUpTo(row)[j - 1] .. ColumnsUpTo(row)[j] - 1
SpansAt(spans, k) == {s \in ToSet(spans) : s.first <= k /\ k <= s.last}

\* Where a row starts with characters of no column, the spans of their marks
\* are drawn nowhere, and the code gives them the first column.
SpansOfNothing(row, marks) ==
    {[mark |-> marks[j], first |-> 0, last |-> 0] :
       j \in {i \in DOMAIN row : ColumnsUpTo(row)[i] = 0 /\ marks[i] # None}}

SpansMatch(spans, row, marks) ==
    \A j \in DOMAIN row : \A k \in ColumnsOfCell(row, j) :
       IF marks[j] = None
       THEN SpansAt(spans, k) \subseteq SpansOfNothing(row, marks)
       ELSE \E s \in SpansAt(spans, k) :
               /\ s.mark = marks[j]
               /\ SpansAt(spans, k) \ {s} \subseteq SpansOfNothing(row, marks)

(***************************************************************************)
(* A click and the focus ring find what is drawn: at each column of a row  *)
(* there is exactly one link span, with the target of the character there, *)
(* or none where the character has no target; the same for fields          *)
(* (render.rs extract_link_spans), also over characters of two columns and *)
(* past characters of none.  The exception is the first column of a row    *)
(* that starts with marked characters of no column: saturating_sub gives   *)
(* the span of such a mark that column, whatever is drawn there.           *)
(***************************************************************************)
SpansMatchTheCells ==
    \A i \in DOMAIN rows :
       /\ SpansMatch(LinkSpans(rows[i]), rows[i], Links(rows[i]))
       /\ SpansMatch(FieldSpans(rows[i]), rows[i], Fields(rows[i]))

(***************************************************************************)
(* The rows of a wrapped line: none is wider than the line but for a       *)
(* character that is, and none starts or ends with a space (render.rs,     *)
(* LineWrapper, whose width is a counter kept beside the row).             *)
(***************************************************************************)
RowFits(row, w) ==
    /\ row # <<>> /\ ~IsSpace(row[1]) /\ ~IsSpace(row[Len(row)])
    /\ Columns(row) <= w \/ Len(row) = 1

\* The cells of a line but for its spaces, in order.
Shown(cell) == IF IsSpace(cell) THEN <<>> ELSE <<cell>>

VisibleUpTo(cells) ==
    LET visible[n \in 0 .. Len(cells)] ==
          IF n = 0 THEN <<>> ELSE visible[n - 1] \o Shown(cells[n])
    IN  visible

VisibleCells(cells) == VisibleUpTo(cells)[Len(cells)]

\* Those of several rows, read from the first to the last.
ReadUpTo(rs) ==
    LET read[n \in 0 .. Len(rs)] ==
          IF n = 0 THEN <<>> ELSE read[n - 1] \o VisibleCells(rs[n])
    IN  read

ReadRows(rs) == ReadUpTo(rs)[Len(rs)]
=============================================================================
