---------------------------- MODULE ParmDatabase ----------------------------
(***************************************************************************)
(* The parameter database: its axes and grids, the values on them, its     *)
(* tables, and what uses it.  Frequencies and times are in ticks; a        *)
(* channel and a time slot are 2 ticks wide.                               *)
(***************************************************************************)
EXTENDS Integers, Sequences, SequencesExt, FiniteSetsExt, Functions, TLC

CONSTANTS
    MeasurementSets,  \* [start, ntime]: the first slot and the number of slots
    Settings,         \* of GainCal: mode, solint, the intervals in a chunk, and nchan, by
                      \* which NChan can be divided (else a row is not as wide as its grid)
    NChan,            \* channels of each measurement set
    MaxTimes,         \* bound: the slots that values are added and read for
    MaxRuns           \* bound: the times that the database is written to

VARIABLES config, step

-----------------------------------------------------------------------------
(***************************************************************************)
(* Axes, grids and boxes (parmdb/Axis.cc, AxisMapping.cc, Grid.cc, Box.cc) *)
(* and the extension of a block of scalar values (ParmValue.cc).  An axis  *)
(* is a sequence of cells in ticks, whose centres are whole; cell numbers  *)
(* count from 0, as in the code.                                           *)
(***************************************************************************)
Cell(lo, hi) == [lo |-> lo, hi |-> hi]
Centre(c) == (c.lo + c.hi) \div 2
Width(c) == c.hi - c.lo
Lower(axis) == axis[1].lo
Upper(axis) == axis[Len(axis)].hi
\* What a failed assertion or a thrown exception leaves.
Failed == <<>>

\* RegularAxis::setup
RegularAxis(start, width, n) ==
    [i \in 1 .. n |-> Cell(start + (i - 1) * width, start + i * width)]

\* The check of Axis::setup for the bounds that an OrderedAxis is given.
Ordered(axis) ==
    \A i \in DOMAIN axis : Width(axis[i]) > 0 /\ (i > 1 => axis[i - 1].hi <= axis[i].lo)

\* Axis::makeAxis: cells of one width make a regular axis, gaps or not.
MakeAxis(cells) ==
    IF \A i \in DOMAIN cells : Width(cells[i]) = Width(cells[1])
    THEN RegularAxis(cells[1].lo, Width(cells[1]), Len(cells)) ELSE cells

\* The cell x falls in or before, and does it hold x?  An edge belongs to the
\* cell at its right or at its left.
Hit(cell, x, bias_right) == IF bias_right THEN x < cell.hi ELSE x <= cell.hi
Holds(cell, x, bias_right) == Hit(cell, x, bias_right) /\ IF bias_right THEN cell.lo <= x ELSE cell.lo < x

FirstHit(axis, x, bias_right, hits) ==
    IF hits = {} THEN [index |-> Len(axis), found |-> FALSE]
    ELSE [index |-> Min(hits), found |-> Holds(axis[Min(hits) + 1], x, bias_right)]

\* Faulty variant: the search starts at the hint even if the value is before it.
MutantFind(axis, x, bias_right, start) ==
    FirstHit(axis, x, bias_right, {i \in start .. Len(axis) - 1 : Hit(axis[i + 1], x, bias_right)})
\* Axis::find; the search starts at cell start unless x may be before it.
Find(axis, x, bias_right, start) ==
    LET first == IF start < Len(axis)
                    /\ axis[start + 1].lo <= x /\ (x = axis[start + 1].lo => bias_right)
                 THEN start ELSE 0
    IN  FirstHit(axis, x, bias_right, {i \in first .. Len(axis) - 1 : Hit(axis[i + 1], x, bias_right)})

\* Axis::add: a hole between the axes becomes a cell.
Added(a, b) ==
    MakeAxis(a \o (IF Upper(a) = Lower(b) THEN <<>> ELSE <<Cell(Upper(a), Lower(b))>>) \o b)

\* The cell of an axis that holds the centre of a cell of another one.
CellOf(axis, cell) == Find(axis, Centre(cell), TRUE, 0).index

\* Two axes in one: a takes its cells s1 .. e1 - 1, b its cells s2 .. e2 - 1.
Joint(axis, s1, e1, s2, e2) == [axis |-> axis, s1 |-> s1, e1 |-> e1, s2 |-> s2, e2 |-> e2]

Appended(a, b, axis) == Joint(axis, 0, Len(a), Len(axis) - Len(b), Len(axis))
Swapped(j) == Joint(j.axis, j.s2, j.e2, j.s1, j.e1)

\* The axes overlap from cell s2 of a and s1 of b on, in nr cells.  Cells past
\* the end of an axis, which the code reads, are taken to be unlike any cell.
Overlapped(a, b, s1, s2, nr) ==
    IF \E i \in 0 .. nr - 1 : s2 + i >= Len(a) \/ s1 + i >= Len(b) \/ a[s2 + i + 1] # b[s1 + i + 1]
    THEN Failed
    ELSE IF s1 = 0 /\ nr = Len(b) THEN Joint(a, 0, Len(a), s2, s2 + nr)
    ELSE IF s2 = 0 /\ nr = Len(a) THEN Joint(b, s1, s1 + nr, 0, Len(b))
    ELSE IF s1 = 0 THEN Joint(MakeAxis(SubSeq(a, 1, s2) \o b), 0, Len(a), s2, s2 + Len(b))
    ELSE Joint(MakeAxis(SubSeq(b, 1, s1) \o a), s1, s1 + Len(a), 0, Len(b))

\* Axis::combine
Combined(a, b) ==
    LET s1 == IF Lower(a) < Lower(b) THEN 0 ELSE CellOf(b, a[1])
        s2 == IF Lower(a) < Lower(b) THEN CellOf(a, b[1]) ELSE 0
        nr == 1 + (IF Upper(a) > Upper(b) THEN CellOf(a, b[Len(b)]) - s2 ELSE CellOf(b, a[Len(a)]) - s1)
    IN  IF Upper(a) <= Lower(b) THEN Appended(a, b, Added(a, b))
        ELSE IF Upper(b) <= Lower(a) THEN Swapped(Appended(b, a, Added(b, a)))
        ELSE Overlapped(a, b, s1, s2, nr)

\* Axis::subset: the cells that overlap start .. end, none before the first one
\* (then the code gives an axis of all values).
Subset(axis, start, end) ==
    LET first == IF start > Lower(axis) THEN Find(axis, start, TRUE, 0).index ELSE 0
        last == IF end < Upper(axis) THEN Find(axis, end, FALSE, 0)
                ELSE [index |-> Len(axis) - 1, found |-> TRUE]
    IN  IF last.index = 0 /\ ~last.found THEN <<>>
        ELSE SubSeq(axis, first + 1, last.index + 1)

\* Axis::checkIntervals: the axes have the same cells where they overlap.
CheckIntervals(a, b) == Subset(a, Lower(b), Upper(b)) = Subset(b, Lower(a), Upper(a))

\* RegularAxis::compress and OrderedAxis::compress: the last cell may be smaller.
Compressed(axis, factor) ==
    [i \in 1 .. (Len(axis) + factor - 1) \div factor |->
        Cell(axis[(i - 1) * factor + 1].lo, axis[Min({i * factor, Len(axis)})].hi)]

\* AxisMapping: for every cell of an axis the cell of the other one that holds
\* its centre; those past the end get the last cell.
AxisMapping(from, to) ==
    FoldLeft(LAMBDA m, c : Append(m, Min({Len(to) - 1,
                 Find(to, Centre(c), TRUE, IF m = <<>> THEN 0 ELSE m[Len(m)]).index})),
             <<>>, from)

-----------------------------------------------------------------------------
\* Grids have an x (frequency) and a y (time) axis; cell (x, y) is number y * nx + x.
Grid(xs, ys) == [x |-> xs, y |-> ys]
CellId(g, loc) == loc.y * Len(g.x) + loc.x
Box(sx, ex, sy, ey) == [sx |-> sx, ex |-> ex, sy |-> sy, ey |-> ey]
BoundingBox(g) == Box(Lower(g.x), Upper(g.x), Lower(g.y), Upper(g.y))

\* Box::operator<, and Grid's: startY, then startX.
Before(b, c) == b.sy < c.sy \/ (b.sy = c.sy /\ b.sx < c.sx)

\* The boxes in front that start in the same row.
RowLength(boxes) ==
    CHOOSE n \in 1 .. Len(boxes) :
        /\ \A i \in 1 .. n : boxes[i].sy = boxes[1].sy
        /\ n < Len(boxes) => boxes[n + 1].sy # boxes[1].sy

\* Of number i, the first one of its column and of its row.
ColumnHead(i, nx) == ((i - 1) % nx) + 1
RowHead(i, nx) == ((i - 1) \div nx) * nx + 1

\* GridRep::setup: boxes in the order given make a grid, or an assertion fails.
GridOfBoxes(boxes) ==
    LET nx == RowLength(boxes)
        column(i) == boxes[ColumnHead(i, nx)]
        row(i) == boxes[RowHead(i, nx)]
        xs == [i \in 1 .. nx |-> Cell(boxes[i].sx, boxes[i].ex)]
        ys == [j \in 1 .. Len(boxes) \div nx |->
                  Cell(boxes[(j - 1) * nx + 1].sy, boxes[(j - 1) * nx + 1].ey)]
    IN  IF /\ Len(boxes) % nx = 0
           /\ \A i \in DOMAIN boxes :
                 /\ boxes[i].sx = column(i).sx /\ boxes[i].ex = column(i).ex
                 /\ boxes[i].sy = row(i).sy /\ boxes[i].ey = row(i).ey
           /\ Ordered(xs) /\ Ordered(ys)
        THEN Grid(xs, ys) ELSE Failed

\* GridRep::combineAxes for the grids at 1, 1 + step, ... (n of them).
CombinedAxes(axes) == FlattenSeq(axes)

\* Grid(grids, unsorted = TRUE): the grids in order of their boxes.
GridOfGrids(grids) ==
    LET sorted == SortSeq(grids, LAMBDA g, h : Before(BoundingBox(g), BoundingBox(h)))
        boxes == GridOfBoxes([i \in DOMAIN sorted |-> BoundingBox(sorted[i])])
        nx == Len(boxes.x)
        ny == Len(boxes.y)
    IN  IF Len(grids) = 1 THEN grids[1]
        ELSE IF boxes = Failed THEN Failed
        ELSE IF \E i \in DOMAIN sorted :
                   \/ sorted[i].x # sorted[ColumnHead(i, nx)].x
                   \/ sorted[i].y # sorted[RowHead(i, nx)].y
        THEN Failed
        ELSE Grid(CombinedAxes([i \in 1 .. nx |-> sorted[i].x]),
                  CombinedAxes([j \in 1 .. ny |-> sorted[(j - 1) * nx + 1].y]))

\* ParmFacadeLocal::getGrid
SubGrid(g, box) == Grid(Subset(g.x, box.sx, box.ex), Subset(g.y, box.sy, box.ey))

-----------------------------------------------------------------------------
Edges(axis) == {axis[i].lo : i \in DOMAIN axis} \cup {axis[i].hi : i \in DOMAIN axis}
Common(a, b) == {e \in Edges(a) \cup Edges(b) :
                    Max({Lower(a), Lower(b)}) <= e /\ e <= Min({Upper(a), Upper(b)})}
IsConsecutive(axis) == \A i \in 2 .. Len(axis) : axis[i - 1].hi = axis[i].lo

\* Do the axes have the same edges where they overlap?
Match(a, b) == Common(a, b) \subseteq Edges(a) \cap Edges(b)

JointIsRight(a, b, j) ==
    /\ IsConsecutive(j.axis) /\ Edges(j.axis) = Edges(a) \cup Edges(b)
    /\ SubSeq(j.axis, j.s1 + 1, j.e1) = a /\ SubSeq(j.axis, j.s2 + 1, j.e2) = b

\* The cells that are mapped to each other have a centre in common, or are last.
MappingIsRight(a, b, mapping) ==
    \A i \in DOMAIN a : LET x == Centre(a[i])
                            cell == b[mapping[i] + 1]
                        IN  IF x < Lower(b) THEN mapping[i] = 0
                            ELSE IF x >= Upper(b) THEN mapping[i] = Len(b) - 1
                            ELSE cell.lo <= x /\ x < cell.hi

(* Two axes without holes are combined to one that has the cells of both,     *)
(* with the hole between them as a cell, unless their cells differ where they *)
(* overlap; and the search for a cell gives the same from any cell that it is *)
(* started at, as the mapping of axes does (Axis.cc:147, 206, AxisMapping.cc:13). *)
AxesAgree(a, b) ==
    /\ IF Upper(a) <= Lower(b) \/ Upper(b) <= Lower(a) \/ Match(a, b)
       THEN JointIsRight(a, b, Combined(a, b)) ELSE Combined(a, b) = Failed
    /\ MappingIsRight(a, b, AxisMapping(a, b))
    /\ CheckIntervals(a, b) <=> Match(a, b)
    /\ \A factor \in 1 .. 3 :
          LET c == Compressed(a, factor)
          IN  /\ IsConsecutive(c) /\ Lower(c) = Lower(a) /\ Upper(c) = Upper(a)
              /\ Edges(c) \subseteq Edges(a)

-----------------------------------------------------------------------------
(***************************************************************************)
(* The database (parmdb/ParmDBCasa.cc, ParmDB.cc, ParmValue.cc, Parm.cc,   *)
(* ParmCache.cc, ParmSet.cc) with what uses it: GainCal deletes the values *)
(* of the domain of its measurement set and writes solutions chunk after   *)
(* chunk, the Demixer makes a new database and solves in it, and tools     *)
(* add, delete, extend and read values and default values                  *)
(* (ParmFacadeLocal.cc).                                                   *)
(***************************************************************************)
NoValue == <<>>
\* What extended values have where nothing was solved.
Guessed == <<"guessed">>
Zero == <<0>>
One == <<1>>
Empty == [n \in {} |-> NoValue]

\* What GainCal solves for, and the part that it gives a default value.
Modes == [phase |-> [parts |-> {"Phase"}, other |-> {"Ampl"}, value |-> One],
          amplitude |-> [parts |-> {"Ampl"}, other |-> {"Phase"}, value |-> Zero],
          gain |-> [parts |-> {"Real", "Imag"}, other |-> {"Real"}, value |-> One],
          tec |-> [parts |-> {"TEC"}, other |-> {}, value |-> Zero]]
Mode == Modes[config.mode]

\* A name has parts, of which the first ones name a category.
Names == {<<part, "CS1">> : part \in Mode.parts}
Parms == Names \cup {<<part, "CS1">> : part \in Mode.other}
Categories == {<<part>> : part \in Mode.parts \cup Mode.other} \cup Names
\* A pattern ends in a star and matches the names that begin with it.
Patterns == Categories \cup {<<>>}
Matches(pattern, name) == IsPrefix(pattern, name)

\* step.written is what a reader should find, for each channel and tick.
Cells == (0 .. NChan - 1) \X (0 .. 2 * MaxTimes - 1)
NothingWritten == [p \in Parms |-> [c \in Cells |-> NoValue]]

DatabaseInit ==
    /\ config \in Settings
    /\ step = [rows |-> <<>>, names |-> {}, defaults |-> <<>>, filled |-> FALSE,
               def_map |-> Empty, writing |-> FALSE, ms |-> Failed, slot |-> 0,
               runs |-> 0, written |-> NothingWritten]

\* ParmDBCasa::makeExpr: an edge in common is not enough; an axis without
\* extent selects everything.
Overlaps(row, box) ==
    /\ box.sx < box.ex => box.sx < row.box.ex /\ box.ex > row.box.sx
    /\ box.sy < box.ey => box.sy < row.box.ey /\ box.ey > row.box.sy

SelectedRows(s, name, box) ==
    SelectSeq(s.rows, LAMBDA row : row.name = name /\ Overlaps(row, box))

\* The channels and ticks in a box, and the value of one.
CellsOf(box) ==
    {c \in Cells : box.sx < 2 * c[1] + 1 /\ 2 * c[1] + 1 < box.ex /\ box.sy <= c[2] /\ c[2] < box.ey}
CellsOfRows(rows) == UNION {CellsOf(r.box) : r \in ToSet(rows)}

ValueAt(grid, values, c) ==
    values[Find(grid.x, 2 * c[1] + 1, TRUE, 0).index, Find(grid.y, c[2], TRUE, 0).index]

\* Values are written to rows, which were others before.
Wrote(s, name, grid, values, old, new) ==
    LET solved == CellsOf(BoundingBox(grid)) \cap CellsOfRows(new)
        guessed == CellsOfRows(new) \ CellsOfRows(old)
    IN  [s EXCEPT !.written[name] =
            [c \in Cells |-> IF c \in solved THEN ValueAt(grid, values, c)
                             ELSE IF c \in guessed THEN Guessed ELSE @[c]]]

\* ParmDBCasa::putInterval, getInterval: regular axes are not kept, they are
\* made of the box of the row.
Kept(axis, lo, hi) ==
    IF \A i \in DOMAIN axis : Width(axis[i]) = Width(axis[1])
    THEN RegularAxis(lo, (hi - lo) \div Len(axis), Len(axis)) ELSE axis

Row(name, box, grid, values) ==
    [name |-> name, box |-> box, values |-> values,
     grid |-> Grid(Kept(grid.x, box.sx, box.ex), Kept(grid.y, box.sy, box.ey))]

\* ParmDBCasa::doPutValue, putNewValue: values without a row id get a row.
Stored(s, name, box, grid, values) ==
    LET row == Row(name, box, grid, values)
    IN  [Wrote(s, name, grid, values, <<>>, <<row>>) EXCEPT !.rows = Append(@, row), !.names = @ \cup {name}]

\* ParmDBCasa::deleteValues: all rows that overlap the domain, as a whole; the
\* names stay.
Deleted(s, pattern, box) ==
    LET gone(row) == Matches(pattern, row.name) /\ Overlaps(row, box)
        lost(name) == CellsOfRows(SelectSeq(s.rows, LAMBDA row : row.name = name /\ gone(row)))
    IN  [s EXCEPT !.rows = SelectSeq(@, LAMBDA row : ~gone(row)),
                  !.written = [p \in Parms |->
                      [c \in Cells |-> IF c \in lost(p) THEN NoValue ELSE @[p][c]]]]

-----------------------------------------------------------------------------
(* Default values, in a table of their own.                                  *)
ClearDefFilled(s) == [s EXCEPT !.filled = FALSE, !.def_map = Empty]

DefRows(s, name) == {i \in DOMAIN s.defaults : s.defaults[i].name = name}

\* ParmDBCasa::putDefValue, which throws if a name is there twice.
PutDefValue(s, name, value, check) ==
    LET def == [name |-> name, value |-> value]
        same == DefRows(s, name)
    IN  IF ~check \/ same = {} THEN ClearDefFilled([s EXCEPT !.defaults = Append(@, def)])
        ELSE IF Cardinality(same) = 1 THEN ClearDefFilled([s EXCEPT !.defaults[Min(same)] = def])
        ELSE s

\* ParmDBCasa::deleteDefValues
DeletedDefValues(s, pattern) ==
    ClearDefFilled([s EXCEPT !.defaults = SelectSeq(@, LAMBDA def : ~Matches(pattern, def.name))])

\* ParmDBCasa::fillDefMap: the last row of a name counts.
DefTable(s) == [n \in {def.name : def \in ToSet(s.defaults)} |-> s.defaults[Max(DefRows(s, n))].value]

\* ParmDBRep::getDefValue: the default values are read once; the first parts of
\* a name are a category, and the value of the smallest one counts.
DefMap(s) == IF s.filled THEN s.def_map ELSE DefTable(s)

DefValue(def_map, name) ==
    LET known == {n \in 1 .. Len(name) : SubSeq(name, 1, n) \in DOMAIN def_map}
    IN  IF known = {} THEN Zero ELSE def_map[SubSeq(name, 1, Max(known))]

\* ParmCache, ParmSet::getValues for a box: without rows the default is taken,
\* for which the map of default values is filled.
Cached(s, name, box) ==
    IF SelectedRows(s, name, box) = <<>> THEN [s EXCEPT !.filled = TRUE, !.def_map = DefMap(s)] ELSE s

\* The grid of a set of values; an assertion fails if the rows make none.
DomainGrid(rows) == GridOfBoxes([i \in DOMAIN rows |-> rows[i].box])

-----------------------------------------------------------------------------
(* Parm::getResult for the rows that ParmDBCasa::getValues selects.          *)

\* Parm::getResultScalar for one block of values: the nearest cell at the end.
ResultOfBlock(row, mapx, mapy) == [x \in DOMAIN mapx, y \in DOMAIN mapy |-> row.values[mapx[x], mapy[y]]]

\* Parm::fillArrayPV searches on from the cell it found before: for column x in
\* the one before, for the first column of a block in the last one of the block.
Column(axis, grid, mapx, x) ==
    LET columns == {i \in DOMAIN mapx : mapx[i] = mapx[x]}
        before == IF x = Min(columns) THEN Max(columns) ELSE x - 1
    IN  Find(axis, Centre(grid.x[x]), TRUE, Find(axis, Centre(grid.x[before]), TRUE, 0).index)

RowFound(axis, grid, y) == Find(axis, Centre(grid.y[y]), TRUE, 0)

\* Parm::getResultScalar for more blocks, which make a grid; it throws if a
\* block does not hold a centre.
ResultOfBlocks(rows, grid, domains, mapx, mapy) ==
    LET result == [x \in DOMAIN mapx, y \in DOMAIN mapy |->
            LET block == rows[CellId(domains, [x |-> mapx[x], y |-> mapy[y]]) + 1]
                fx == Column(block.grid.x, grid, mapx, x)
                fy == RowFound(block.grid.y, grid, y)
            IN  IF fx.found /\ fy.found THEN block.values[fx.index, fy.index] ELSE Failed]
    IN  IF Failed \in Range(result) THEN Failed ELSE result

ResultOfGrid(rows, grid, domains) ==
    IF domains = Failed THEN Failed
    ELSE ResultOfBlocks(rows, grid, domains, AxisMapping(grid.x, domains.x), AxisMapping(grid.y, domains.y))

Result(s, name, grid, rows) ==
    IF rows = <<>> THEN [x \in DOMAIN grid.x, y \in DOMAIN grid.y |-> DefValue(DefMap(s), name)]
    ELSE IF Len(rows) = 1
    THEN ResultOfBlock(rows[1], AxisMapping(grid.x, rows[1].grid.x), AxisMapping(grid.y, rows[1].grid.y))
    ELSE ResultOfGrid(rows, grid, DomainGrid(rows))

\* ParmFacadeLocal::doGetValues; without default values nothing may be found.
Values(s, name, grid, include_defaults) ==
    LET rows == SelectedRows(s, name, BoundingBox(grid))
    IN  IF rows = <<>> /\ ~include_defaults THEN Failed ELSE Result(s, name, grid, rows)

\* ParmFacadeLocal::getGrid: the cells that getValuesGrid and getCoeff use.
ValuesGrid(rows, box) ==
    LET grid == GridOfGrids([i \in DOMAIN rows |-> rows[i].grid])
    IN  IF grid = Failed THEN Failed ELSE SubGrid(grid, box)

\* ParmFacadeLocal::getCoeff takes the way for more blocks for a single one.
Coeff(rows, grid) == ResultOfGrid(rows, grid, DomainGrid(rows))

\* ParmFacadeLocal::getNames
NamesOf(s, include_defaults) ==
    s.names \cup IF include_defaults THEN {def.name : def \in ToSet(s.defaults)} ELSE {}

\* ParmDBCasa::findRange
RangeOf(rows) ==
    LET boxes == {r.box : r \in ToSet(rows)}
    IN  Box(Min({b.sx : b \in boxes}), Max({b.ex : b \in boxes}),
            Min({b.sy : b \in boxes}), Max({b.ey : b \in boxes}))

-----------------------------------------------------------------------------
Fresh(n, grid) == [x \in 0 .. Len(grid.x) - 1, y \in 0 .. Len(grid.y) - 1 |-> <<n, x, y>>]
AllChannels == Cell(0, 2 * NChan)
DomainOf(ms) == Box(0, 2 * NChan, 2 * ms.start, 2 * (ms.start + ms.ntime))

Idle == ~step.writing /\ step.runs < MaxRuns
Ran == step.runs + 1

\* GainCal::initParmDB: all names are gains.
InitParmDB(s, ms) ==
    LET kept == IF s.names = {} THEN s ELSE Deleted(s, <<>>, DomainOf(ms))
        undefined == {<<part>> : part \in Mode.other} \ {def.name : def \in ToSet(s.defaults)}
    IN  FoldSet(LAMBDA name, t : PutDefValue(t, name, Mode.value, TRUE), kept, undefined)

\* The grid of the solutions of a chunk, and the domain they are stored for.
ChunkIntervals(ms, slot) == Min({config.chunk, (ms.ntime - slot + config.solint - 1) \div config.solint})
EndTime(ms, slot) ==
    Min({2 * (ms.start + slot + ChunkIntervals(ms, slot) * config.solint), 2 * (ms.start + ms.ntime)})

SolutionGrid(ms, slot) ==
    LET low(t) == 2 * (ms.start + slot + config.solint * t)
    IN  Grid(RegularAxis(0, 2 * config.nchan, NChan \div config.nchan),
             MakeAxis([t \in 1 .. ChunkIntervals(ms, slot) |-> Cell(low(t - 1), Min({low(t), EndTime(ms, slot)}))]))

ChunkDomain(ms, slot) == Box(0, 2 * NChan, 2 * (ms.start + slot), EndTime(ms, slot))

PutSolutions(s, ms, slot) ==
    LET grid == SolutionGrid(ms, slot)
        put(name, t) == Stored(t, name, ChunkDomain(ms, slot), grid, Fresh(<<name[1], s.runs, slot>>, grid))
    IN  FoldSet(put, s, Names)

\* GainCal::writeSolutionsParmDB: the first chunk opens the database.
WriteSolutionsParmDB ==
    /\ \E ms \in MeasurementSets :
          LET s == IF step.writing THEN step ELSE [InitParmDB(step, ms) EXCEPT !.runs = Ran]
              next_slot == s.slot + config.chunk * config.solint
              done == next_slot >= ms.ntime
          IN  /\ IF step.writing THEN ms = step.ms ELSE Idle
              /\ step' = [PutSolutions(s, ms, s.slot) EXCEPT
                            !.writing = ~done, !.slot = IF done THEN 0 ELSE next_slot,
                            !.ms = IF done THEN Failed ELSE ms]
    /\ UNCHANGED config

-----------------------------------------------------------------------------
(* A client that solves on a grid of its own: ParmValueSet::setSolveGrid      *)
(* makes, checks or extends the values, Parm::setCoeff sets them one by one,  *)
(* and ParmCache::flush writes them back.                                     *)
TimeAxes ==
    {axis \in {RegularAxis(2 * start, 2 * width, n) :
                  start \in 0 .. MaxTimes - 1, width \in 1 .. 2, n \in 1 .. MaxTimes} :
        Upper(axis) <= 2 * MaxTimes}

\* Old values at the cells they had; the others get the nearest of them.
Spread(values, x, y, new) ==
    [i \in 0 .. new.nx - 1, j \in 0 .. new.ny - 1 |->
        values[Max({0, Min({i, x.e1 - 1}) - x.s1}), Max({0, Min({j, y.e1 - 1}) - y.s1})]]

\* ParmValueSet::addValues; the axes do not combine if their cells differ.
Extended(row, x, y) ==
    IF x = Failed \/ y = Failed THEN Failed
    ELSE LET grid == Grid(x.axis, y.axis)
         IN  Row(row.name, BoundingBox(grid), grid,
                 Spread(row.values, x, y, [nx |-> Len(x.axis), ny |-> Len(y.axis)]))

BoxContains(box, other) ==
    box.sx <= other.sx /\ other.ex <= box.ex /\ box.sy <= other.sy /\ other.ey <= box.ey

ChecksIntervals(row, grid) == CheckIntervals(row.grid.x, grid.x) /\ CheckIntervals(row.grid.y, grid.y)

\* ParmValueSet::setSolveGrid for values that are there; an assertion or an
\* exception ends the client.
SolveRows(rows, grid) ==
    IF BoxContains(BoundingBox(DomainGrid(rows)), BoundingBox(grid))
    THEN IF \A r \in ToSet(rows) : ChecksIntervals(r, grid) THEN rows ELSE <<Failed>>
    ELSE IF Len(rows) > 1 THEN <<Failed>>
    ELSE <<Extended(rows[1], Combined(rows[1].grid.x, grid.x), Combined(rows[1].grid.y, grid.y))>>

\* GridMapping::findCellId: where the cells of a grid are in another one.
CellIds(grid, other) ==
    LET mapx == AxisMapping(grid.x, other.x)
        mapy == AxisMapping(grid.y, other.y)
    IN  [x \in DOMAIN mapx, y \in DOMAIN mapy |-> CellId(other, [x |-> mapx[x], y |-> mapy[y]])]

\* Parm::setCoeff for all cells of a grid, time after time: the value of a cell
\* goes to the row that it is mapped to, and to a cell of that row.
LastSet(cells) == CHOOSE c \in cells : \A d \in cells : d[2] < c[2] \/ (d[2] = c[2] /\ d[1] <= c[1])
WithCoeff(rows, i, grid, values) ==
    LET ids == CellIds(grid, DomainGrid(rows))
        own == CellIds(grid, rows[i].grid)
        from(c) == {d \in DOMAIN ids : ids[d] = i - 1 /\ own[d] = CellId(rows[i].grid, [x |-> c[1], y |-> c[2]])}
    IN  [rows[i] EXCEPT !.values = [c \in DOMAIN @ |->
            IF from(c) = {} THEN @[c] ELSE LET d == LastSet(from(c)) IN values[d[1] - 1, d[2] - 1]]]

\* ParmDBCasa::putOldValue: the domain of a row is as old as its shape.
Updated(old, new) == IF DOMAIN new.values = DOMAIN old.values THEN [old EXCEPT !.values = new.values] ELSE new

\* Rows keep their place in the table.
PutRows(s, name, old, new, grid, values) ==
    LET place(row) == CHOOSE k \in DOMAIN old : old[k] = row
        updated(row) == Updated(row, WithCoeff(new, place(row), grid, values))
    IN  [Wrote(s, name, grid, values, old, new) EXCEPT
            !.rows = [i \in DOMAIN @ |-> IF @[i] \in ToSet(old) THEN updated(@[i]) ELSE @[i]]]

Solve(s, name, grid, values) ==
    LET rows == SelectedRows(s, name, BoundingBox(grid))
        cached == Cached(s, name, BoundingBox(grid))
    IN  IF rows = <<>> THEN Stored(cached, name, BoundingBox(grid), grid, values)
        ELSE IF DomainGrid(rows) = Failed THEN cached
        ELSE IF Failed \in ToSet(SolveRows(rows, grid)) THEN cached
        ELSE PutRows(cached, name, rows, SolveRows(rows, grid), grid, values)

SolveOnGrid ==
    /\ Idle
    /\ \E name \in Names, times \in TimeAxes :
          LET grid == Grid(RegularAxis(0, 2 * config.nchan, NChan \div config.nchan), times)
          IN  step' = [Solve(step, name, grid, Fresh(<<name[1], Ran, 0>>, grid)) EXCEPT !.runs = Ran]
    /\ UNCHANGED config

\* Demixer::dumpSolutions: the tables are made anew.  The grid has the first
\* channel of the output, and begins half an interval of the output before the
\* measurement set.
DumpGrid(ms, averaged) ==
    Grid(<<Cell(0, 2 * config.nchan)>>,
         RegularAxis(2 * ms.start - averaged, 2 * config.solint, (ms.ntime + config.solint - 1) \div config.solint))

DumpSolutions ==
    /\ Idle
    /\ \E ms \in MeasurementSets, averaged \in {n \in 1 .. config.solint : config.solint % n = 0} :
          LET new == [step EXCEPT !.rows = <<>>, !.names = {}, !.defaults = <<>>, !.filled = FALSE,
                                  !.def_map = Empty, !.written = NothingWritten, !.runs = Ran]
              grid == DumpGrid(ms, averaged)
          IN  step' = FoldSet(LAMBDA name, s : Solve(s, name, grid, Fresh(<<name[1], Ran, 0>>, grid)), new, Names)
    /\ UNCHANGED config

-----------------------------------------------------------------------------
(* The tools.                                                                 *)

\* The last interval may be shorter.
AddedAxes == TimeAxes \cup {MakeAxis(<<Cell(0, 2 * MaxTimes - 2), Cell(2 * MaxTimes - 2, 2 * MaxTimes)>>)}

\* ParmFacadeLocal::addValue refuses a domain that has values.
AddedValue(s, name, grid, values) ==
    LET box == BoundingBox(grid)
    IN  IF SelectedRows(s, name, box) # <<>> THEN s ELSE Stored(Cached(s, name, box), name, box, grid, values)

AddValue ==
    /\ Idle
    /\ \E name \in Names, times \in AddedAxes :
          LET grid == Grid(<<AllChannels>>, times)
          IN  step' = [AddedValue(step, name, grid, Fresh(<<name[1], Ran, 0>>, grid)) EXCEPT !.runs = Ran]
    /\ UNCHANGED config

Everywhere == Box(0, 0, 0, 0)

DeleteValues ==
    /\ Idle
    /\ \E pattern \in Patterns, box \in {DomainOf(ms) : ms \in MeasurementSets} \cup {Everywhere} :
          step' = [Deleted(step, pattern, box) EXCEPT !.runs = Ran]
    /\ UNCHANGED config

AddDefValue ==
    /\ Idle
    /\ \E name \in Categories, check \in BOOLEAN :
          step' = [PutDefValue(step, name, <<2, Ran>>, check) EXCEPT !.runs = Ran]
    /\ UNCHANGED config

DeleteDefValues ==
    /\ Idle
    /\ \E pattern \in Patterns : step' = [DeletedDefValues(step, pattern) EXCEPT !.runs = Ran]
    /\ UNCHANGED config

PredictGrids ==
    {Grid(RegularAxis(0, 2 * (NChan \div n), n), times) :
        n \in {k \in 1 .. NChan : NChan % k = 0}, times \in TimeAxes}

\* ParmFacadeLocal::getValues: what it finds is below, this is what it changes.
GetValues ==
    /\ Idle
    /\ \E name \in NamesOf(step, TRUE), grid \in PredictGrids : step' = Cached(step, name, BoundingBox(grid))
    /\ UNCHANGED config

DatabaseNext ==
    \/ WriteSolutionsParmDB \/ SolveOnGrid \/ DumpSolutions \/ AddValue \/ DeleteValues
    \/ AddDefValue \/ DeleteDefValues \/ GetValues

DatabaseSpec == DatabaseInit /\ [][DatabaseNext]_<<config, step>>
-----------------------------------------------------------------------------
\* GridRep::setup relies on it; nothing in the code makes it so.
InOrder(rows) ==
    /\ \A i \in 2 .. Len(rows) : Before(rows[i - 1].box, rows[i].box)
    /\ \A r, q \in ToSet(rows) : r.box.sx = q.box.sx /\ r.box.ex = q.box.ex

\* What should be found at the centres of the cells of a grid.
Expected(name, grid) ==
    [x \in DOMAIN grid.x, y \in DOMAIN grid.y |->
        LET c == <<Centre(grid.x[x]) \div 2, Centre(grid.y[y])>>
        IN  IF c \in Cells THEN step.written[name][c] ELSE NoValue]

IsWritten(name, grid) == Range(Expected(name, grid)) \cap {NoValue, Guessed} = {}
IsUnwritten(name, box) == \A c \in CellsOf(box) : step.written[name][c] = NoValue

\* Rows of which the channels differ make no grid.
SameChannels(rows) == \A r, q \in ToSet(rows) : r.grid.x = q.grid.x

(* What is read for channels and times that have values at their centres is    *)
(* what was written last there, whatever was written in how many pieces,       *)
(* extended and deleted before, on any grid or on that of the values; without  *)
(* values it is the default value of the smallest category, also if that was   *)
(* changed after it was read; what was written is in the range that is told    *)
(* (ParmDB.cc:45, ParmDBCasa.cc:240, Parm.cc:398, ParmFacadeLocal.cc:331).     *)
ReadIsWhatWasWritten ==
    ~step.writing =>
    \A name \in Parms :
        LET own == SelectSeq(step.rows, LAMBDA row : row.name = name)
            written == {c \in Cells : step.written[name][c] # NoValue}
        IN  /\ written # {} => name \in NamesOf(step, FALSE) /\ written \subseteq CellsOf(RangeOf(own))
            /\ \A grid \in PredictGrids :
                  LET box == BoundingBox(grid)
                      rows == SelectedRows(step, name, box)
                  IN  InOrder(rows) =>
                      /\ IsWritten(name, grid) =>
                            \A defaults \in BOOLEAN : Values(step, name, grid, defaults) = Expected(name, grid)
                      /\ IsWritten(name, grid) /\ SameChannels(rows) =>
                            LET g == ValuesGrid(rows, box)
                            IN  /\ g # Failed
                                /\ IsWritten(name, g) =>
                                      Result(step, name, g, rows) = Expected(name, g) /\ Coeff(rows, g) = Expected(name, g)
                      /\ IsUnwritten(name, box) =>
                            /\ Range(Values(step, name, grid, TRUE)) = {DefValue(DefTable(step), name)}
                            /\ Values(step, name, grid, FALSE) = Failed
=============================================================================
