------------------------------ MODULE GridRows ------------------------------
(***************************************************************************)
(* A table of cells that hold one line each, as rows: columns where they   *)
(* fit, records of labelled fields where they do not (browser-layout,      *)
(* table.rs).                                                              *)
(*                                                                         *)
(* A grid is a list of rows of [header, content]; rows may differ in       *)
(* length.  What the browser writes itself (bullets, rules, brackets,      *)
(* placeholders, the colon after a label) is Ink, one column each.         *)
(***************************************************************************)
EXTENDS CellRows

CONSTANT
    MaxColumnWidth  \* MAX_COLUMN_WIDTH_COLUMNS, made small

Ink == 1000
ColumnGap == 2
RecordIndent == 2

\* What the browser writes, spaces too, is one column wide.
ASSUME InkAssumption == {Space, Ink} \cap (Wide \cup ZeroWidth) = {}

ASSUME ColumnLimitAssumption == MaxColumnWidth \in Nat

Blank == [char |-> Space, link |-> None, cite |-> None, field |-> None, names |-> <<>>]
Cells(n, c) == [i \in 1 .. n |-> [Blank EXCEPT !.char = c]]
Spaces(n) == Cells(n, Space)

\* The first row after a prefix, the others under it.
Indent(rs, prefix) ==
    [i \in DOMAIN rs |->
       (IF i = 1 THEN prefix ELSE Spaces(Columns(prefix))) \o rs[i]]

-----------------------------------------------------------------------------

ColumnWidths(grid) ==
    LET count == Max({Len(grid[i]) : i \in DOMAIN grid})
        column(j) == {Columns(grid[i][j].content) :
                        i \in {k \in DOMAIN grid : j <= Len(grid[k])}}
    IN  [j \in 1 .. count |-> Max(column(j))]

\* The columns of the first n widths, with the gaps between them.
TotalUpTo(widths) ==
    LET total[n \in 0 .. Len(widths)] ==
          IF n = 0 THEN 0
          ELSE total[n - 1] + (IF n > 1 THEN ColumnGap ELSE 0) + widths[n]
    IN  total

TableFits(widths, w) ==
    /\ \A j \in DOMAIN widths : widths[j] <= MaxColumnWidth
    /\ TotalUpTo(widths)[Len(widths)] <= w

\* Every column but the last is filled up to its width.
FitCell(row, j, widths) ==
    LET content == IF j <= Len(row) THEN row[j].content ELSE <<>>
    IN  IF j < Len(widths) THEN content \o Spaces(widths[j] - Columns(content)) ELSE content

ColumnsRowUpTo(row, widths) ==
    LET cells[n \in 0 .. Len(widths)] ==
          IF n = 0 THEN <<>>
          ELSE cells[n - 1] \o (IF n > 1 THEN Spaces(ColumnGap) ELSE <<>>)
               \o FitCell(row, n, widths)
    IN  cells

ColumnRow(row, widths) == ColumnsRowUpTo(row, widths)[Len(widths)]

\* A record field: the label of the column before its first line.
FieldRows(content, prefix, w) ==
    Indent(WrapCells(content, IF w > Columns(prefix) THEN w - Columns(prefix) ELSE 1),
           prefix)

\* The label is the text of the header cell, drawn again for each record,
\* without its links, citations and names.
Plainly(cells) == [i \in DOMAIN cells |-> [Blank EXCEPT !.char = cells[i].char]]

FieldLabel(label) == IF label = <<>> THEN <<>> ELSE Plainly(label) \o Cells(2, Ink)

\* field_prefix; the first field of a record has none.
FieldPrefix(j, labels) ==
    IF j = 1 THEN <<>>
    ELSE Spaces(RecordIndent) \o
         (IF j <= Len(labels) THEN FieldLabel(labels[j]) ELSE <<>>)

RecordUpTo(row, labels, w) ==
    LET record[n \in 0 .. Len(row)] ==
          IF n = 0 THEN <<>>
          ELSE record[n - 1] \o FieldRows(row[n].content, FieldPrefix(n, labels), w)
    IN  record

RecordsUpTo(data, labels, w) ==
    LET records[n \in 0 .. Len(data)] ==
          IF n = 0 THEN <<>>
          ELSE records[n - 1] \o (IF n > 1 THEN <<<<>>>> ELSE <<>>)
               \o RecordUpTo(data[n], labels, w)[Len(data[n])]
    IN  records

RecordRows(data, labels, w) == RecordsUpTo(data, labels, w)[Len(data)]

RowIsHeader(row) == row # <<>> /\ \A j \in DOMAIN row : row[j].header
Labels(row) == [j \in DOMAIN row |-> row[j].content]

Records(grid, w) ==
    IF RowIsHeader(grid[1])
    THEN RecordRows(Tail(grid), Labels(grid[1]), w)
    ELSE RecordRows(grid, <<>>, w)

ColumnsOrRecords(grid, widths, w) ==
    IF TableFits(widths, w)
    THEN [i \in DOMAIN grid |-> ColumnRow(grid[i], widths)]
    ELSE Records(grid, w)
=============================================================================
