---------------------------- MODULE MultiHeaderView ----------------------------
(* A table header whose cells can be merged: utilgui/MultiHeaderView.cpp.      *)
(* The header has a section per column (or per row) and in each section one    *)
(* cell per level. Spans and size hints are kept cell by cell; the sizes of    *)
(* the sections belong to QHeaderView.                                         *)
EXTENDS Integers, Sequences, FiniteSetsExt

CONSTANTS Rows, Columns,
          RowSpans, ColumnSpans,   \* spans asked for
          SizeHints,               \* sizes asked for
          DefaultSize,             \* defaultSectionSize()
          LevelSize,               \* the other dimension of a new cell
          MaxSpans, MaxResizes     \* bounds on the number of calls

\* Sizes are positive.

VARIABLES
  orientation,                \* of the view
  rowSpan, columnSpan,        \* RowSpanRole and ColumnSpanRole of the cells that have one
  height, width,              \* SizeHintRole of a cell
  sectionSize,                \* QHeaderView: the size of each section
  spans, resizes              \* calls so far

vars == <<orientation, rowSpan, columnSpan, height, width, sectionSize, spans, resizes>>

Cells      == (0 .. Rows - 1) \X (0 .. Columns - 1)
Horizontal == orientation = "horizontal"
Sections   == 0 .. (IF Horizontal THEN Columns ELSE Rows) - 1
Levels     == IF Horizontal THEN Rows ELSE Columns
CellAt(section, level) == IF Horizontal THEN <<level, section>> ELSE <<section, level>>

-------------------------------------------------------------------------------
(* Sizes and spans of cells *)

\* The QSize() of an invalid index is -1 by -1.
SizeOf(size, cell) == IF cell \in Cells THEN size[cell] ELSE -1

ColumnSpanSize(row, from, count) ==
  MapThenSumSet(LAMBDA c : SizeOf(width, <<row, c>>), from .. from + count - 1)

RowSpanSize(column, from, count) ==
  MapThenSumSet(LAMBDA r : SizeOf(height, <<r, column>>), from .. from + count - 1)

\* QHeaderView::sectionViewportPosition() of a view that is not scrolled.
SectionPosition(section) == MapThenSumSet(LAMBDA s : sectionSize[s], 0 .. section - 1)

\* The nearest cell to the left, or above, whose span reaches this cell; <<>> if
\* there is none.
ColumnSpanIndex(cell) ==
  LET reaching == {c \in 0 .. cell[2] : /\ <<cell[1], c>> \in DOMAIN columnSpan
                                        /\ c + columnSpan[cell[1], c] - 1 >= cell[2]}
  IN IF reaching = {} THEN <<>> ELSE <<cell[1], Max(reaching)>>

RowSpanIndex(cell) ==
  LET reaching == {r \in 0 .. cell[1] : /\ <<r, cell[2]>> \in DOMAIN rowSpan
                                        /\ r + rowSpan[r, cell[2]] - 1 >= cell[1]}
  IN IF reaching = {} THEN <<>> ELSE <<Max(reaching), cell[2]>>

-------------------------------------------------------------------------------
(* Painting *)

\* What paintSection() knows of the cell it draws: the rectangle, the cell whose
\* label it shows and the last level it stands for.
Plain(section, level) ==
  LET cell == CellAt(section, level)
  IN [cell |-> cell, last |-> level,
      left   |-> IF Horizontal THEN SectionPosition(section)
                               ELSE ColumnSpanSize(section, 0, level),
      top    |-> IF Horizontal THEN RowSpanSize(section, 0, level)
                               ELSE SectionPosition(section),
      width  |-> width[cell], height |-> height[cell]]

\* The columns, or rows, that the span of cell `at` stands for. The offset along
\* the levels is measured in the line `line`.
Across(piece, at, line) ==
  [piece EXCEPT !.left  = IF Horizontal THEN SectionPosition(at[2])
                                        ELSE ColumnSpanSize(line, 0, at[2]),
                !.width = ColumnSpanSize(at[1], at[2], columnSpan[at]),
                !.last  = IF Horizontal THEN @ ELSE at[2] + columnSpan[at] - 1]

Down(piece, at, line) ==
  [piece EXCEPT !.top    = IF Horizontal THEN RowSpanSize(line, 0, at[1])
                                         ELSE SectionPosition(at[1]),
                !.height = RowSpanSize(piece.cell[2], at[1], rowSpan[at]),
                !.last   = IF Horizontal THEN at[1] + rowSpan[at] - 1 ELSE @]

\* A bug to try: the rows of a span that is found along its columns are ignored.
AcrossOnly(piece, at, section) ==
  IF at = <<>> THEN piece ELSE [Across(piece, at, section) EXCEPT !.cell = at]

WithColumnSpan(piece, at, section) ==
  IF at = <<>> THEN piece
  ELSE LET across == [Across(piece, at, section) EXCEPT !.cell = at]
       IN IF at \in DOMAIN rowSpan THEN Down(across, at, at[2]) ELSE across

WithRowSpan(piece, at, section) ==
  IF at = <<>> THEN piece
  ELSE LET down == [Down(piece, at, section) EXCEPT !.cell = at]
       IN IF at \in DOMAIN columnSpan THEN Across(down, at, at[1]) ELSE down

Piece(section, level) ==
  LET cell == CellAt(section, level)
  IN WithRowSpan(WithColumnSpan(Plain(section, level), ColumnSpanIndex(cell), section),
                 RowSpanIndex(cell), section)

\* paintSection(): the pieces of a section, from the first level to the last.
PaintSection(section) ==
  LET From[level \in 0 .. Levels + Rows + Columns] ==
        IF level >= Levels THEN <<>>
        ELSE LET piece == Piece(section, level)
             IN <<piece>> \o From[piece.last + 1]
  IN From[0]

-------------------------------------------------------------------------------
(* Size hints and clicks *)

\* sectionSizeFromContents(), along the sections: the cell looked at last decides.
SectionSizeFromContents(section) ==
  LET Hint(level) ==
        LET cell == CellAt(section, level)
            at   == IF Horizontal THEN ColumnSpanIndex(cell) ELSE RowSpanIndex(cell)
        IN IF at = <<>> THEN (IF Horizontal THEN width[cell] ELSE height[cell])
           ELSE IF Horizontal THEN ColumnSpanSize(at[1], at[2], columnSpan[at])
           ELSE RowSpanSize(at[2], at[1], rowSpan[at])
      Skip(level) ==
        LET cell == CellAt(section, level)
            at   == IF Horizontal THEN RowSpanIndex(cell) ELSE ColumnSpanIndex(cell)
        IN IF at = <<>> THEN level
           ELSE IF Horizontal THEN at[1] + rowSpan[at] - 1 ELSE at[2] + columnSpan[at] - 1
      From[level \in 0 .. Levels] ==
        IF Skip(level) + 1 >= Levels THEN Hint(level) ELSE From[Skip(level) + 1]
  IN From[0]

\* indexAt() of a point in a section, `offset` along the levels: a cell ends with
\* the pixel after its last one. <<>> if there is no cell.
IndexAt(section, offset) ==
  LET End(level)  == IF Horizontal THEN RowSpanSize(section, 0, level + 1)
                                   ELSE ColumnSpanSize(section, 0, level + 1)
      reached     == {level \in 0 .. Levels - 1 : offset <= End(level)}
  IN IF reached = {} THEN <<>> ELSE CellAt(section, Min(reached))

\* getSectionRange(): the sections a cell is merged over; without a span its own.
SectionRange(cell) ==
  LET across    == ColumnSpanIndex(cell)
      down      == RowSpanIndex(cell)
      Over(at)  == <<at[2], at[2] + columnSpan[at] - 1>>
      Along(at) == <<at[1], at[1] + rowSpan[at] - 1>>
  IN IF Horizontal
     THEN IF across # <<>> THEN Over(across)
          ELSE IF down # <<>> /\ down \in DOMAIN columnSpan THEN Over(down)
          ELSE <<cell[2], cell[2]>>
     ELSE IF across # <<>> /\ across \in DOMAIN rowSpan THEN Along(across)
          ELSE IF down # <<>> THEN Along(down)
          ELSE <<cell[1], cell[1]>>

\* mousePressEvent(): the sections it says were pressed, <<>> for no signal.
SectionPressed(section, offset) ==
  LET cell == IndexAt(section, offset)
  IN IF cell = <<>> THEN <<>> ELSE SectionRange(cell)

-------------------------------------------------------------------------------
(* Operations *)

Init ==
  /\ orientation \in {"horizontal", "vertical"}
  /\ rowSpan = <<>> /\ columnSpan = <<>>
  /\ height      = [cell \in Cells |-> IF Horizontal THEN LevelSize ELSE DefaultSize]
  /\ width       = [cell \in Cells |-> IF Horizontal THEN DefaultSize ELSE LevelSize]
  /\ sectionSize = [s \in Sections |-> DefaultSize]
  /\ spans = 0 /\ resizes = 0

\* setData() keeps columns inside the header. Rows are compared with the number
\* of rows itself and then cut to the number of columns: a span of rows may reach
\* a row too far, and be empty or less in a header with more rows than columns.
FittingColumns(column, count) ==
  IF column + count - 1 >= Columns THEN Columns - column ELSE count
FittingRows(row, count) ==
  IF row + count - 1 > Rows THEN Columns - row ELSE count

With(span, cell, count) ==
  [c \in DOMAIN span \cup {cell} |-> IF c = cell THEN count ELSE span[c]]

\* Both counts of setSpan() may be given, or one may be zero.
SetSpan(row, column, rowCount, columnCount) ==
  /\ spans < MaxSpans /\ spans' = spans + 1
  /\ rowSpan'    = IF rowCount = 0 THEN rowSpan
                   ELSE With(rowSpan, <<row, column>>, FittingRows(row, rowCount))
  /\ columnSpan' = IF columnCount = 0 THEN columnSpan
                   ELSE With(columnSpan, <<row, column>>, FittingColumns(column, columnCount))
  /\ UNCHANGED <<orientation, height, width, sectionSize, resizes>>

\* setSpan() without counts: all levels of a section.
SetSectionSpan(row, column) ==
  SetSpan(row, column, IF Horizontal THEN Rows ELSE 1, IF Horizontal THEN 1 ELSE Columns)

\* QHeaderView::resizeSection() with the onSectionResized() it calls.
ResizeSection(section, size) ==
  /\ sectionSize' = [sectionSize EXCEPT ![section] = size]
  /\ IF Horizontal
     THEN /\ width'  = [cell \in Cells |-> IF cell[2] = section THEN size ELSE width[cell]]
          /\ UNCHANGED height
     ELSE /\ height' = [cell \in Cells |-> IF cell[1] = section THEN size ELSE height[cell]]
          /\ UNCHANGED width

Resize ==
  /\ resizes < MaxResizes /\ resizes' = resizes + 1
  /\ UNCHANGED <<orientation, rowSpan, columnSpan, spans>>

SectionResized(section, size) == Resize /\ ResizeSection(section, size)

SetRowHeight(row, size) ==
  /\ Resize
  /\ IF Horizontal
     THEN /\ height' = [cell \in Cells |-> IF cell[1] = row THEN size ELSE height[cell]]
          /\ UNCHANGED <<width, sectionSize>>
     ELSE ResizeSection(row, size)

SetColumnWidth(column, size) ==
  /\ Resize
  /\ IF Horizontal
     THEN ResizeSection(column, size)
     ELSE /\ width' = [cell \in Cells |-> IF cell[2] = column THEN size ELSE width[cell]]
          /\ UNCHANGED <<height, sectionSize>>

Next ==
  \/ \E cell \in Cells :
       \/ \E rowCount \in RowSpans \cup {0}, columnCount \in ColumnSpans \cup {0} :
            SetSpan(cell[1], cell[2], rowCount, columnCount)
       \/ SetSectionSpan(cell[1], cell[2])
  \/ \E size \in SizeHints :
       \/ \E section \in Sections : SectionResized(section, size)
       \/ \E row \in 0 .. Rows - 1 : SetRowHeight(row, size)
       \/ \E column \in 0 .. Columns - 1 : SetColumnWidth(column, size)

Spec == Init /\ [][Next]_vars

-------------------------------------------------------------------------------
(* Properties *)

\* The cells that the span of a cell merges, itself if it has none.
Merged(cell) ==
  LET Count(span) == IF cell \in DOMAIN span THEN span[cell] ELSE 1
  IN (cell[1] .. cell[1] + Count(rowSpan) - 1) \X (cell[2] .. cell[2] + Count(columnSpan) - 1)

Anchors == DOMAIN rowSpan \cup DOMAIN columnSpan

\* Spans that fit into the header, their own cell among what they merge, and do
\* not overlap.
Regular ==
  /\ \A cell \in Anchors : cell \in Merged(cell) /\ Merged(cell) \subseteq Cells
  /\ \A a, b \in Anchors : a # b => Merged(a) \cap Merged(b) = {}

AnchorOf(cell) ==
  LET over == {a \in Anchors : cell \in Merged(a)}
  IN IF over = {} THEN cell ELSE CHOOSE a \in over : TRUE

\* Every cell has a size in both dimensions, and spans of columns end inside.
TypeOK ==
  /\ orientation \in {"horizontal", "vertical"}
  /\ DOMAIN rowSpan \subseteq Cells /\ rowSpan \in [DOMAIN rowSpan -> Int]
  /\ DOMAIN columnSpan \subseteq Cells
  /\ \A cell \in DOMAIN columnSpan : columnSpan[cell] \in 1 .. Columns - cell[2]
  /\ height \in [Cells -> Nat \ {0}] /\ width \in [Cells -> Nat \ {0}]
  /\ sectionSize \in [Sections -> Nat \ {0}]
  /\ spans \in 0 .. MaxSpans /\ resizes \in 0 .. MaxResizes

\* With spans that fit and do not overlap, paintSection() draws every merged
\* rectangle of its section once and whole, at its place and with the label of
\* the cell the span was set on, whichever of its sections is painted.
PaintedWhole ==
  Regular =>
    \A section \in Sections :
      LET pieces  == PaintSection(section)
          anchors == {AnchorOf(CellAt(section, level)) : level \in 0 .. Levels - 1}
      IN /\ Len(pieces) = Cardinality(anchors)
         /\ {pieces[i].cell : i \in DOMAIN pieces} = anchors
         /\ \A i \in DOMAIN pieces :
              LET p    == pieces[i]
                  rows == {c[1] : c \in Merged(p.cell)}
                  cols == {c[2] : c \in Merged(p.cell)}
              IN /\ p.left   = ColumnSpanSize(0, 0, p.cell[2])
                 /\ p.top    = RowSpanSize(0, 0, p.cell[1])
                 /\ p.width  = ColumnSpanSize(0, p.cell[2], Cardinality(cols))
                 /\ p.height = RowSpanSize(0, p.cell[1], Cardinality(rows))

\* A press inside a cell in the first row or first column of a merged rectangle
\* reports all of its sections. Not so for the cells further inside, whose span
\* neither columnSpanIndex() nor rowSpanIndex() finds, and for the first pixel of
\* a cell, which indexAt() takes for the cell before.
PressReportsMerged ==
  Regular =>
    \A section \in Sections, level \in 0 .. Levels - 1 :
      LET cell   == CellAt(section, level)
          anchor == AnchorOf(cell)
          over   == {IF Horizontal THEN c[2] ELSE c[1] : c \in Merged(anchor)}
          Start(n) == IF Horizontal THEN RowSpanSize(0, 0, n) ELSE ColumnSpanSize(0, 0, n)
      IN cell[1] = anchor[1] \/ cell[2] = anchor[2]
           => \A offset \in Start(level) + 1 .. Start(level + 1) - 1 :
                SectionPressed(section, offset) = <<Min(over), Max(over)>>

\* Cells of a row have one height and cells of a column one width, and where the
\* sections are that is the size of the section.
Grid ==
  /\ \A a, b \in Cells : /\ a[1] = b[1] => height[a] = height[b]
                         /\ a[2] = b[2] => width[a] = width[b]
  /\ \A cell \in Cells : IF Horizontal THEN width[cell] = sectionSize[cell[2]]
                                       ELSE height[cell] = sectionSize[cell[1]]

\* The sizes of cells, changed by the user or by the program, always form a grid
\* that agrees with the sections; a section whose cells are not merged with
\* others asks for the size it has.
SizesAgree ==
  /\ Grid
  /\ \A section \in Sections :
       Anchors = {} => SectionSizeFromContents(section) = sectionSize[section]
=============================================================================
