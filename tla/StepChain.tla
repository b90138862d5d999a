------------------------------ MODULE StepChain ------------------------------
(***************************************************************************)
(* A chain of steps from the reader to the outputs (base/DP3.cc): the      *)
(* outputs are made, the steps tell each other what their buffers hold,    *)
(* the slots are processed and written, and in the end the steps add what  *)
(* they changed to the subtables of the measurement sets.                  *)
(*                                                                         *)
(* The places of a chain are numbered; place 0 is the reader.  Visibilities*)
(* are known by the pairs of stations that are summed in them, their       *)
(* channels in the input, their slot, and the places that changed them.    *)
(***************************************************************************)
EXTENDS StepCalls, SequencesExt, FiniteSetsExt

CONSTANT Chains    \* the chains: the first channel that is read, the steps, the branches of a split

-----------------------------------------------------------------------------
(***************************************************************************)
(* What the steps of a chain tell each other about their buffers before    *)
(* the first one is processed: the information (base/DPInfo.h) that each   *)
(* gets from the one before, changes, and hands on (updateInfo).  It names *)
(* the stations and baselines of the buffers, their channels, and what an  *)
(* output step has to write.                                               *)
(***************************************************************************)
Stations == <<"a", "b", "c", "d">>     \* d has no baselines
InputChannels == 0 .. 2
Baselines == <<<<1, 1>>, <<1, 2>>, <<1, 3>>, <<2, 2>>, <<2, 3>>, <<3, 3>>>>

(* The information of a step on its buffers (DPInfo).                         *)
(* write: the columns that are to be written again; start: the first channel. *)
Elementary(name) == [name |-> name, of |-> {name}]
Used(info) == {info.ant1[i] : i \in DOMAIN info.ant1} \cup {info.ant2[i] : i \in DOMAIN info.ant2}

ReaderInfo(start) ==
    [ants |-> [i \in DOMAIN Stations |-> Elementary(Stations[i])],
     ant1 |-> [i \in DOMAIN Baselines |-> Baselines[i][1]],
     ant2 |-> [i \in DOMAIN Baselines |-> Baselines[i][2]],
     chans |-> [c \in 1 .. Cardinality(InputChannels) - start |-> {start + c - 1}],
     start |-> start, write |-> {}, need |-> FALSE, meta |-> FALSE,
     centre |-> "original", beam |-> "none"]

Needing(info) == [info EXCEPT !.need = TRUE]
Writing(info, columns) == [info EXCEPT !.write = @ \cup columns]
MetaChanged(info) == [info EXCEPT !.meta = TRUE]
Cleared(info) == [info EXCEPT !.write = {}, !.meta = FALSE]

\* DPInfo::update for a selection of channels and baselines.
Selected(info, start, nchan, baselines) ==
    LET of(ants) == IF baselines = <<>> THEN ants ELSE [i \in DOMAIN baselines |-> ants[baselines[i]]]
    IN  [info EXCEPT !.start = start, !.chans = SubSeq(@, start + 1, start + nchan),
                     !.ant1 = of(@), !.ant2 = of(@)]

\* DPInfo::removeUnusedAnt: the unused stations go, the others are renumbered.
RemoveUnusedAnt(info) ==
    LET used == SelectSeq([i \in DOMAIN info.ants |-> i], LAMBDA i : i \in Used(info))
        new(ant) == CHOOSE i \in DOMAIN used : used[i] = ant
    IN  [info EXCEPT !.ants = [i \in DOMAIN used |-> info.ants[used[i]]],
                     !.ant1 = [i \in DOMAIN @ |-> new(@[i])],
                     !.ant2 = [i \in DOMAIN @ |-> new(@[i])]]

\* DPInfo::update for averaging by k channels; k divides their number.
AveragedBy(info, k) ==
    [info EXCEPT !.chans = [c \in 1 .. Len(@) \div k |->
        UNION {@[i] : i \in (c - 1) * k + 1 .. c * k}]]

(* What updateInfo makes of the information, and what the step remembers.     *)
Nothing == [kind |-> "nothing"]
Tells(info, own) == [info |-> info, own |-> own, fails |-> FALSE]
Fails(info) == [info |-> info, own |-> Nothing, fails |-> TRUE]

AveragerInfo(info) ==
    LET k == Min({2, Len(info.chans)})
        new == MetaChanged(Writing(Needing(info), {"data", "flags"}))
    IN  IF Len(info.chans) % k # 0 THEN Fails(info)
        ELSE Tells(AveragedBy(new, k), [kind |-> "averager", factor |-> k])

PhaseShiftInfo(info) ==
    Tells([MetaChanged(Writing(Needing(info), {"data"})) EXCEPT !.centre = "shifted"], Nothing)

\* With invert, the beam that was applied before is undone in process().
ApplyBeamInfo(info, invert, update_weights) ==
    LET new == Writing(Needing(info), {"data"} \cup IF update_weights THEN {"weights"} ELSE {})
    IN  IF invert THEN Tells([new EXCEPT !.beam = "applied"], Nothing)
        ELSE IF info.beam = "none" THEN Fails(info)
        ELSE Tells([new EXCEPT !.beam = "none"], Nothing)

ApplyCalInfo(info, update_weights) ==
    Tells(Writing(Needing(info), {"data", "flags"} \cup IF update_weights THEN {"weights"} ELSE {}),
          Nothing)

PredictInfo(info) == Tells(Writing(Needing(info), {"data"}), Nothing)
UVWFlaggerInfo(info) == Tells(Writing(info, {"flags"}), Nothing)
AOFlaggerInfo(info) ==
    Tells(Writing(Needing(info), {"flags"}), [kind |-> "aoflagger", ant1 |-> info.ant1, ant2 |-> info.ant2, stats |-> <<>>])
CounterInfo(info) == Tells(Needing(info), Nothing)

(* Filter: the channels from number start on, and the baselines without the   *)
(* stations in drop.  Without any such baseline all of them are kept.         *)
FilterSettings(kind) ==
    CASE kind = "filter_channels" -> [start |-> 1, drop |-> {}, remove |-> FALSE]
      [] kind = "filter_baselines" -> [start |-> 0, drop |-> {"a"}, remove |-> FALSE]
      [] kind = "filter_remove" -> [start |-> 0, drop |-> {"a"}, remove |-> TRUE]
      [] kind = "filter_clean" -> [start |-> 0, drop |-> {}, remove |-> TRUE]

FilterInfo(info, settings) ==
    LET nchan == Len(info.chans) - settings.start
        name(ant) == info.ants[ant].name
        kept(i) == {name(info.ant1[i]), name(info.ant2[i])} \cap settings.drop = {}
        baselines == IF settings.drop = {} THEN <<>>
                     ELSE SelectSeq([i \in DOMAIN info.ant1 |-> i], kept)
        select == settings.start > 0 \/ (settings.drop # {} /\ Len(baselines) < Len(info.ant1))
        flagged == Writing(Needing(info), {"data", "flags"})
        new == IF settings.remove THEN MetaChanged(flagged) ELSE flagged
        selected == Selected(new, settings.start, nchan, baselines)
        own == [kind |-> "filter", select |-> select, start |-> settings.start, nchan |-> nchan,
                baselines |-> baselines, remove |-> settings.remove]
    IN  IF settings.start >= Len(info.chans) THEN Fails(info)
        ELSE IF ~select /\ ~settings.remove THEN Tells(new, own)
        ELSE Tells(IF settings.remove THEN RemoveUnusedAnt(selected) ELSE selected, own)

(* StationAdder: the superstations, of the stations in parts.  Autocorrelations *)
(* are made of the autocorrelations of the parts, or of their baselines.        *)
SuperStations(kind) ==
    CASE kind \in {"stationadd", "stationadd_auto", "stationadd_cross"} ->
            <<[name |-> "n", parts |-> {"b", "c"}]>>
      [] kind = "stationadd_two" ->
            <<[name |-> "n", parts |-> {"b", "d"}], [name |-> "o", parts |-> {"a", "c"}]>>
      [] kind = "stationadd_more" -> <<[name |-> "m", parts |-> {"a", "n"}]>>

\* The station at the other end of a new baseline, and the sign with which a
\* baseline counts; 0 if it does not.
Take(kind, parts, new, a1, a2) ==
    LET auto == kind = "stationadd_auto" /\ a1 = a2
        cross == kind = "stationadd_cross" /\ a1 # a2
    IN  CASE a1 \in parts /\ a2 \in parts -> [ant |-> new, sign |-> IF auto \/ cross THEN 1 ELSE 0]
          [] a1 \in parts /\ a2 \notin parts -> [ant |-> a2, sign |-> -1]
          [] a1 \notin parts /\ a2 \in parts -> [ant |-> a1, sign |-> 1]
          [] OTHER -> [ant |-> new, sign |-> 0]

\* The new baselines of one superstation: the other station, and what is summed.
NewBaselines(kind, parts, new, ant1, ant2) ==
    LET add(found, i) ==
            LET t == Take(kind, parts, new, ant1[i], ant2[i])
                term == <<t.sign * i>>
                at == {j \in DOMAIN found : found[j].ant = t.ant}
            IN  IF t.sign = 0 THEN found
                ELSE IF at = {} THEN Append(found, [ant |-> t.ant, sum |-> term])
                ELSE [found EXCEPT ![Max(at)].sum = @ \o term]
    IN  FoldLeft(add, <<>>, [i \in DOMAIN ant1 |-> i])

StationAdderInfo(info, kind) ==
    LET PartsOf(super) == {i \in DOMAIN info.ants : info.ants[i].name \in super.parts}
        supers == SelectSeq(SuperStations(kind), LAMBDA s : PartsOf(s) # {})
        parts == [j \in DOMAIN supers |-> PartsOf(supers[j])]
        old == Len(info.ants)
        ants == info.ants \o [j \in DOMAIN supers |->
                    [name |-> supers[j].name, of |-> UNION {info.ants[i].of : i \in parts[j]}]]
        extend(acc, j) ==
            LET new == NewBaselines(kind, parts[j], old + j, acc.ant1, acc.ant2)
            IN  [ant1 |-> acc.ant1 \o [i \in DOMAIN new |-> new[i].ant],
                 ant2 |-> acc.ant2 \o [i \in DOMAIN new |-> old + j],
                 sums |-> acc.sums \o [i \in DOMAIN new |-> new[i].sum]]
        all == FoldLeft(extend, [ant1 |-> info.ant1, ant2 |-> info.ant2, sums |-> <<>>],
                        [j \in DOMAIN supers |-> j])
        new == MetaChanged(Writing(Needing(info), {"data"}))
    IN  IF \/ \E s \in Range(SuperStations(kind)), i \in DOMAIN info.ants : info.ants[i].name = s.name
           \/ \E j, k \in DOMAIN parts : j # k /\ parts[j] \cap parts[k] # {}
        THEN Fails(info)
        ELSE Tells([new EXCEPT !.ants = ants, !.ant1 = all.ant1, !.ant2 = all.ant2],
                   [kind |-> "stationadder", sums |-> all.sums, parts |-> parts, ants |-> ants])

-----------------------------------------------------------------------------
Missing == {1}        \* bound: the slots that are not in the input; the reader inserts them

Columns == {"data", "corrected", "flags", "weights"}
Input == "in"

Unnamed == ""

\* The output steps: those in the list of steps, and msout after it.
Msout == {"msout", "msout_column", "msout_A"}
Outputs == {"update", "update_column", "out_A", "out_B"} \cup Msout
InColumn == {"update_column", "msout_column"}

\* The name that an output step is given; "." asks for an update.
NameOf(kind) ==
    CASE kind \in {"update", "update_column", "msout", "msout_column"} -> "."
      [] kind \in {"out_A", "msout_A"} -> "A"
      [] kind = "out_B" -> "B"

-----------------------------------------------------------------------------
(* Trees of steps.  A sequence of steps is numbered on from first; the places *)
(* of a sequence have the same first.                                         *)
Numbered(kinds, first, before) ==
    [i \in 1 .. Len(kinds) |->
        [kind |-> kinds[i], first |-> first, before |-> IF i = 1 THEN before ELSE first + i - 2,
         next |-> IF i = Len(kinds) THEN <<>> ELSE <<first + i>>]]

Line(kinds) == Numbered(kinds, 1, 0)

Fork(kinds, left, right) ==
    LET n == Len(kinds) + 1
        stem == Numbered(Append(kinds, "split"), 1, 0)
    IN  [stem EXCEPT ![n].next = <<n + 1, n + 1 + Len(left)>>]
        \o Numbered(left, n + 1, n) \o Numbered(right, n + 1 + Len(left), n)

Kind(p) == config.tree[p].kind
Before(p) == config.tree[p].before
IsOutput(p) == Kind(p) \in Outputs
LastOf(p) == Max({q \in DOMAIN config.tree : config.tree[q].first = config.tree[p].first})

\* The places from the reader to p.
Path(p) == LET path[q \in 0 .. p] == IF q = 0 THEN {} ELSE {q} \cup path[Before(q)]
           IN  path[p]

\* makeStepsFromParset starts with no measurement set and keeps the last one;
\* makeMainSteps gives msout that of the reader.
Current(p) ==
    LET named == {q \in config.tree[p].first .. p - 1 : IsOutput(q) /\ NameOf(Kind(q)) # "."}
    IN  CASE Kind(p) \in Msout -> Input
          [] Kind(p) \notin Msout /\ named = {} -> Unnamed
          [] OTHER -> NameOf(Kind(Max(named)))

\* makeOutputStep: which measurement set output p makes or updates.
Target(p) == IF NameOf(Kind(p)) = "." THEN Current(p) ELSE NameOf(Kind(p))
IsUpdate(p) == NameOf(Kind(p)) \in {".", Current(p)}

-----------------------------------------------------------------------------
(* A measurement set: the main table with a value per column, row and         *)
(* channel, and the subtables.  Rows of subtables are numbered from 1.        *)
Value(slot, of, chans, by) == [slot |-> slot, of |-> of, chans |-> chans, by |-> by]
Unset == Value(-1, {}, {}, {})

InputRows ==
    LET n == Len(Baselines)
        slots == SelectSeq([i \in 1 .. config.ntime |-> i - 1], LAMBDA slot : slot \notin Missing)
        baseline(r) == Baselines[1 + ((r - 1) % n)]
    IN  [r \in 1 .. n * Len(slots) |->
            [ANTENNA1 |-> baseline(r)[1], ANTENNA2 |-> baseline(r)[2],
             slot |-> slots[1 + ((r - 1) \div n)]]]

PairOf(row) == {<<Stations[row.ANTENNA1], Stations[row.ANTENNA2]>>}

InputSet ==
    LET n == DOMAIN Stations
        chans == [c \in 1 .. Cardinality(InputChannels) |-> {c - 1}]
        rows == InputRows
        filled == [i \in DOMAIN rows |-> [c \in DOMAIN chans |->
                      Value(rows[i].slot, PairOf(rows[i]), chans[c], {})]]
    IN  [rows |-> rows, chans |-> chans, centre |-> "original",
         cells |-> [f \in Columns |-> IF f = "corrected"
                       THEN [i \in DOMAIN filled |-> [c \in DOMAIN chans |-> Unset]] ELSE filled],
         beam |-> [f \in {"data", "corrected"} |-> "none"],
         ANTENNA |-> [i \in n |-> [name |-> Stations[i], of |-> {Stations[i]}, station |-> i]],
         FEED |-> [i \in n |-> [ANTENNA_ID |-> i]],
         FIELDS |-> [i \in n |-> [ANTENNA_ID |-> Len(Stations) + 1 - i, of |-> Reverse(Stations)[i]]],
         FAILURES |-> <<[FIELD_ID |-> 2, of |-> "c"], [FIELD_ID |-> 3, of |-> "b"]>>,
         STATIONS |-> [i \in n |-> [name |-> Stations[i], clock |-> IF i < 3 THEN 1 ELSE 2]],
         QUALITY |-> [i \in DOMAIN Baselines |->
            [ANTENNA1 |-> Baselines[i][1], ANTENNA2 |-> Baselines[i][2],
             of |-> {<<Stations[Baselines[i][1]], Stations[Baselines[i][2]]>>}]]]

\* MSWriter::createMS: the subtables are those of the reader's set.  A set that
\* exists is not overwritten (WriterInfo).
Created(set, info) ==
    [set EXCEPT !.rows = <<>>, !.cells = [f \in Columns |-> <<>>], !.chans = info.chans,
                !.centre = info.centre, !.beam = [f \in {"data", "corrected"} |-> info.beam]]

-----------------------------------------------------------------------------
(* A world: the information and the members (own) of each place, the          *)
(* measurement sets, is the data read, did the split add to the sets, did a   *)
(* step throw, and did each buffer match the information on it.               *)
WriterInfo(w, p, info) ==
    IF Target(p) \in DOMAIN w.sets THEN [w EXCEPT !.failed = TRUE]
    ELSE [w EXCEPT !.sets = (Target(p) :> Created(w.sets[Input], info)) @@ @,
                   !.info[p] = Cleared(info), !.read = TRUE]

\* Without a column name the updater writes to the column that was read.
UpdaterInfo(w, p, info) ==
    LET column == IF Kind(p) \in InColumn THEN "corrected" ELSE "data"
        asked == IF column = "data" THEN info ELSE Writing(Needing(info), {"data"})
    IN  IF info.meta \/ Target(p) = Unnamed THEN [w EXCEPT !.failed = TRUE]
        ELSE [w EXCEPT !.info[p] = Cleared(asked),
                       !.own[p] = [kind |-> "updater", column |-> column, write |-> asked.write],
                       !.sets[Target(p)].beam[column] = info.beam]

Told(info, kind) ==
    CASE kind = "average" -> AveragerInfo(info)
      [] kind = "phaseshift" -> PhaseShiftInfo(info)
      [] kind = "applybeam" -> ApplyBeamInfo(info, TRUE, FALSE)
      [] kind = "applybeam_weights" -> ApplyBeamInfo(info, TRUE, TRUE)
      [] kind = "undobeam" -> ApplyBeamInfo(info, FALSE, FALSE)
      [] kind = "applycal" -> ApplyCalInfo(info, FALSE)
      [] kind = "applycal_weights" -> ApplyCalInfo(info, TRUE)
      [] kind = "predict" -> PredictInfo(info)
      [] kind = "uvwflagger" -> UVWFlaggerInfo(info)
      [] kind = "aoflagger" -> AOFlaggerInfo(info)
      [] kind = "counter" -> CounterInfo(info)
      [] kind = "split" -> Tells(info, Nothing)
      [] kind \in {"filter_channels", "filter_baselines", "filter_remove", "filter_clean"} ->
            FilterInfo(info, FilterSettings(kind))
      [] kind \in {"stationadd", "stationadd_auto", "stationadd_cross", "stationadd_two",
                   "stationadd_more"} -> StationAdderInfo(info, kind)

Adopted(w, p, told) ==
    IF told.fails THEN [w EXCEPT !.failed = TRUE]
    ELSE [w EXCEPT !.info[p] = told.info, !.own[p] = told.own]

UpdateInfo(w, p, info) ==
    CASE IsOutput(p) /\ IsUpdate(p) -> UpdaterInfo(w, p, info)
      [] IsOutput(p) /\ ~IsUpdate(p) -> WriterInfo(w, p, info)
      [] OTHER -> Adopted(w, p, Told(info, Kind(p)))

RECURSIVE SetInfo(_, _, _)

\* The steps behind p get what p made of the information.
HandedOn(w, p) ==
    IF w.failed THEN w
    ELSE FoldLeft(LAMBDA u, q : SetInfo(u, q, w.info[p]), w, config.tree[p].next)

\* Step::setInfo, and that of a split for each of its branches.
SetInfo(w, p, info) == IF w.failed THEN w ELSE HandedOn(UpdateInfo(w, p, info), p)

-----------------------------------------------------------------------------
(* Processing: the world after a step, and the buffer for the next one.       *)
To(w, buf) == [world |-> w, buf |-> buf]

FilterProcess(own, buf) ==
    LET of(seq) == IF own.baselines = <<>> \/ seq = <<>> THEN seq
                   ELSE [i \in DOMAIN own.baselines |-> seq[own.baselines[i]]]
    IN  IF ~own.select THEN buf
        ELSE [buf EXCEPT !.of = of(@), !.rows = of(@),
                         !.chans = SubSeq(@, own.start + 1, own.start + own.nchan)]

Swapped(pairs) == {<<x[2], x[1]>> : x \in pairs}

\* The new baselines are sums of those of the buffer, the new ones included.
StationAdderProcess(own, buf) ==
    LET term(of, i) == IF i > 0 THEN of[i] ELSE Swapped(of[-i])
        sum(of, terms) == Append(of, UNION {term(of, terms[k]) : k \in DOMAIN terms})
    IN  [buf EXCEPT !.of = FoldLeft(sum, @, own.sums), !.rows = <<>>]

AveragerProcess(own, buf) ==
    [buf EXCEPT !.rows = <<>>,
                !.chans = [c \in 1 .. Len(@) \div own.factor |->
                    UNION {@[i] : i \in (c - 1) * own.factor + 1 .. c * own.factor}]]

\* What process() of the other steps changes.
Effects(kind) ==
    CASE kind \in {"phaseshift", "predict", "applybeam", "undobeam"} -> {"data"}
      [] kind = "applybeam_weights" -> {"data", "weights"}
      [] kind = "applycal" -> {"data", "flags"}
      [] kind = "applycal_weights" -> {"data", "flags", "weights"}
      [] kind \in {"uvwflagger", "aoflagger"} -> {"flags"}
      [] OTHER -> {}

InPlace(p, buf) == [buf EXCEPT !.by = [f \in DOMAIN @ |-> IF f \in Effects(Kind(p)) THEN @[f] \cup {p} ELSE @[f]]]

\* What is written of baseline i and channel c of a buffer to a column.
Written(buf, column, i, c) ==
    Value(buf.slot, buf.of[i], buf.chans[c],
          buf.by[IF column = "corrected" THEN "data" ELSE column])

\* The rows are added at the end; the buffer gets their numbers.
WriterProcess(w, p, buf) ==
    LET info == w.info[p]
        set == w.sets[Target(p)]
        n == Len(info.ant1)
        new == [i \in 1 .. n |-> [ANTENNA1 |-> info.ant1[i], ANTENNA2 |-> info.ant2[i], slot |-> buf.slot]]
        values(f) == [i \in 1 .. n |-> [c \in DOMAIN buf.chans |->
                        IF f = "corrected" THEN Unset ELSE Written(buf, f, i, c)]]
    IN  To([w EXCEPT !.sets[Target(p)] =
                [set EXCEPT !.rows = @ \o new, !.cells = [f \in Columns |-> @[f] \o values(f)]]],
           [buf EXCEPT !.rows = [i \in 1 .. n |-> Len(set.rows) + i]])

MutantPutColumn(cells, column, buf, start) ==
    LET row(r) == CHOOSE i \in DOMAIN buf.rows : buf.rows[i] = r
    IN  [r \in DOMAIN cells |-> IF r \notin Range(buf.rows) THEN cells[r]
            ELSE [c \in DOMAIN cells[r] |->
                    IF c \in DOMAIN buf.chans THEN Written(buf, column, row(r), c) ELSE cells[r][c]]]

\* MSUpdater::putData, putFlags, putWeights; nothing is put for an inserted slot.
PutColumn(cells, column, buf, start) ==
    LET row(r) == CHOOSE i \in DOMAIN buf.rows : buf.rows[i] = r
    IN  [r \in DOMAIN cells |-> IF r \notin Range(buf.rows) THEN cells[r]
            ELSE [c \in DOMAIN cells[r] |->
                    IF c - start \in DOMAIN buf.chans THEN Written(buf, column, row(r), c - start)
                    ELSE cells[r][c]]]

UpdaterProcess(w, p, buf) ==
    LET set == w.sets[Target(p)]
        own == w.own[p]
        start == w.info[p].start
        columns == {IF f = "data" THEN own.column ELSE f : f \in own.write}
        exceeds == \/ start + Len(buf.chans) > Len(set.chans)
                   \/ \E i \in DOMAIN buf.rows : buf.rows[i] > Len(set.rows)
        noData == "data" \in own.write /\ ~w.read
    IN  IF columns = {} \/ buf.rows = <<>> THEN To(w, buf)
        ELSE IF exceeds \/ noData THEN To([w EXCEPT !.failed = TRUE], buf)
        ELSE To([w EXCEPT !.sets[Target(p)].cells =
                    [f \in Columns |-> IF f \in columns THEN PutColumn(@[f], f, buf, start) ELSE @[f]]],
                buf)

Transform(w, p, buf) ==
    LET own == w.own[p]
    IN  CASE IsOutput(p) /\ IsUpdate(p) -> UpdaterProcess(w, p, buf)
          [] IsOutput(p) /\ ~IsUpdate(p) -> WriterProcess(w, p, buf)
          [] own.kind = "filter" -> To(w, FilterProcess(own, buf))
          [] own.kind = "stationadder" -> To(w, StationAdderProcess(own, buf))
          [] own.kind = "averager" -> To(w, AveragerProcess(own, buf))
          [] own.kind = "aoflagger" -> To([w EXCEPT !.own[p].stats = buf.of], InPlace(p, buf))
          [] own.kind = "nothing" -> To(w, InPlace(p, buf))

\* The pairs of stations that a baseline can be made of.
PairsOf(ants, ant1, ant2) == ants[ant1].of \X ants[ant2].of

Matches(info, buf) ==
    /\ buf.chans = info.chans
    /\ Len(buf.of) = Len(info.ant1)
    /\ \A i \in DOMAIN buf.of : buf.of[i] \subseteq PairsOf(info.ants, info.ant1[i], info.ant2[i])

Checked(r, p) == [r.world EXCEPT !.matched = @ /\ Matches(r.world.info[p], r.buf)]

RECURSIVE Process(_, _, _)

SentOn(r, p) ==
    IF r.world.failed THEN r.world
    ELSE FoldLeft(LAMBDA u, q : Process(u, q, r.buf), Checked(r, p), config.tree[p].next)

Process(w, p, buf) == IF w.failed THEN w ELSE SentOn(Transform(w, p, buf), p)

-----------------------------------------------------------------------------
(* What steps add to a measurement set in the end.                            *)

MutantIdMap(n, removed) == [i \in 1 .. n |-> IF i \in removed THEN 0 ELSE i - Cardinality(removed)]

\* Filter::createIdMap: the new numbers of the rows that are not removed.
IdMap(n, removed) == [i \in 1 .. n |-> IF i \in removed THEN 0
                                       ELSE i - Cardinality({j \in removed : j < i})]

\* Filter::renumberSubTable.
Renumbered(rows, column, removed, ids) ==
    LET kept == SelectSeq(rows, LAMBDA r : r[column] \notin removed)
    IN  [i \in DOMAIN kept |-> [kept[i] EXCEPT ![column] = ids[@]]]

RowsWhere(rows, Test(_)) == {i \in DOMAIN rows : Test(rows[i])}

\* Rows of stations that an earlier filter left unused are removed as well.
FilterAdds(set, info) ==
    LET names == {info.ants[i].name : i \in DOMAIN info.ants}
        removed == RowsWhere(set.ANTENNA, LAMBDA r : r.name \notin names)
        ids == IdMap(Len(set.ANTENNA), removed)
        fields == RowsWhere(set.FIELDS, LAMBDA r : r.ANTENNA_ID \in removed)
    IN  IF removed = {} THEN set
        ELSE [set EXCEPT
                !.ANTENNA = SelectSeq(@, LAMBDA r : r.name \in names),
                !.FEED = Renumbered(@, "ANTENNA_ID", removed, ids),
                !.QUALITY = Renumbered(Renumbered(@, "ANTENNA1", removed, ids), "ANTENNA2", removed, ids),
                !.FIELDS = Renumbered(@, "ANTENNA_ID", removed, ids),
                !.FAILURES = Renumbered(@, "FIELD_ID", fields, IdMap(Len(set.FIELDS), fields))]

\* StationAdder::updateBeamInfo: the antenna fields of the parts are copied; the
\* new station has the clock of its parts, or a new one if they differ.
NewFields(set, parts) ==
    LET copies(row) == [j \in DOMAIN parts |-> [row EXCEPT !.ANTENNA_ID = Len(set.ANTENNA) + j]]
        of(i) == SelectSeq(copies(set.FIELDS[i]),
                    LAMBDA r : set.FIELDS[i].ANTENNA_ID \in parts[r.ANTENNA_ID - Len(set.ANTENNA)])
    IN  FlattenSeq([i \in DOMAIN set.FIELDS |-> of(i)])

NewStations(set, parts, names) ==
    LET ClocksOf(j) == {set.STATIONS[set.ANTENNA[i].station].clock : i \in parts[j]}
        largest == Max({set.STATIONS[i].clock : i \in DOMAIN set.STATIONS})
        differ(j) == {k \in 1 .. j : Cardinality(ClocksOf(k)) > 1}
    IN  [j \in DOMAIN parts |->
            [name |-> names[j],
             clock |-> IF j \in differ(j) THEN largest + Cardinality(differ(j))
                       ELSE CHOOSE c \in ClocksOf(j) : TRUE]]

StationAdderAdds(set, own) ==
    LET n == Len(set.ANTENNA)
        new == SubSeq(own.ants, n + 1, Len(own.ants))
        names == [j \in DOMAIN new |-> new[j].name]
    IN  [set EXCEPT
            !.ANTENNA = @ \o [j \in DOMAIN new |->
                [name |-> names[j], of |-> new[j].of, station |-> Len(set.STATIONS) + j]],
            !.FEED = @ \o [j \in DOMAIN new |-> [ANTENNA_ID |-> n + j]],
            !.FIELDS = @ \o NewFields(set, own.parts),
            !.STATIONS = @ \o NewStations(set, own.parts, names)]

\* The statistics replace those that were there.
AOFlaggerAdds(set, own) ==
    [set EXCEPT !.QUALITY = [i \in DOMAIN own.stats |->
        [ANTENNA1 |-> own.ant1[i], ANTENNA2 |-> own.ant2[i], of |-> own.stats[i]]]]

RECURSIVE AddToMS(_, _, _)

\* Each step calls the one before it: first, but for the AOFlagger.
AddToMS(w, p, name) ==
    LET own == w.own[p]
        added == AddToMS(w, Before(p), name)
    IN  IF p = 0 THEN w
        ELSE CASE IsOutput(p) -> AddToMS(w, Before(p), Target(p))
               [] Kind(p) = "split" ->
                    IF w.added THEN added
                    ELSE FoldLeft(LAMBDA u, q : AddToMS(u, LastOf(q), name),
                                  [w EXCEPT !.added = TRUE], config.tree[p].next)
               [] own.kind = "filter" ->
                    IF own.remove THEN [added EXCEPT !.sets[name] = FilterAdds(@, w.info[p])] ELSE added
               [] own.kind = "stationadder" -> [added EXCEPT !.sets[name] = StationAdderAdds(@, own)]
               [] own.kind = "aoflagger" ->
                    AddToMS([w EXCEPT !.sets[name] = AOFlaggerAdds(@, own)], Before(p), name)
               [] OTHER -> added

-----------------------------------------------------------------------------
ChainInit ==
    \E c \in Chains :
        /\ config = [ntime |-> MaxSlots, start |-> c.start,
                     tree |-> IF c.branches = <<>> THEN Line(c.steps)
                              ELSE Fork(c.steps, c.branches[1], c.branches[2])]
        /\ step = [phase |-> "made", info |-> [p \in DOMAIN config.tree |-> ReaderInfo(c.start)],
                   own |-> [p \in DOMAIN config.tree |-> Nothing],
                   sets |-> (Input :> InputSet), read |-> FALSE, added |-> FALSE,
                   failed |-> FALSE, matched |-> TRUE]
        /\ fed = 0 /\ sent = <<>> /\ finished = FALSE

\* The data are read if the last step of the main chain tells so, or for a writer.
ChainSetInfo ==
    /\ step.phase = "made"
    /\ LET w == SetInfo([step EXCEPT !.phase = "ready"], 1, ReaderInfo(config.start))
       IN  step' = [w EXCEPT !.read = @ \/ w.info[LastOf(1)].need]
    /\ UNCHANGED <<config, fed, sent, finished>>

ReaderBuffer(slot) ==
    LET info == ReaderInfo(config.start)
        rows == step.sets[Input].rows
        numbers == SelectSeq([i \in DOMAIN rows |-> i], LAMBDA i : rows[i].slot = slot)
    IN  [slot |-> slot, rows |-> numbers, chans |-> info.chans,
         of |-> [i \in DOMAIN Baselines |-> {<<Stations[Baselines[i][1]], Stations[Baselines[i][2]]>>}],
         by |-> [f \in {"data", "flags", "weights"} |-> {}]]

ChainProcess ==
    /\ step.phase = "ready" /\ ~step.failed
    /\ Processed(Process(step, 1, ReaderBuffer(fed)))
    /\ Send(<<>>)

ChainFinish ==
    /\ step.phase = "ready" /\ ~step.failed /\ fed = config.ntime
    /\ Ended(AddToMS(step, LastOf(1), ""))
    /\ Send(<<>>)

ChainNext == ChainSetInfo \/ ChainProcess \/ ChainFinish

ChainSpec == ChainInit /\ [][ChainNext]_calls
-----------------------------------------------------------------------------
\* The places before p whose changes of column f are in the buffers of p.
ChangedBefore(p, f) == {q \in Path(p) \ {p} : f \in Effects(Kind(q))}

\* The output before p, or the reader.
OutputBefore(p) == LET outputs == {q \in Path(p) \ {p} : IsOutput(q)}
                   IN  IF outputs = {} THEN 0 ELSE Max(outputs)

ColumnOf(p, f) == IF f = "data" /\ Kind(p) \in InColumn THEN "corrected" ELSE f

\* Must p write column f: is it new, or was it changed since it was last written?
MustWrite(p, f) ==
    \/ ~IsUpdate(p)
    \/ ColumnOf(p, f) = "corrected"
    \/ \E q \in ChangedBefore(p, f) : q > OutputBefore(p)

\* The output that wrote a value last: of all that have it in their buffers.
WrittenBy(name, f, value) ==
    {p \in DOMAIN config.tree :
        /\ IsOutput(p) /\ Target(p) = name
        /\ \E g \in {"data", "flags", "weights"} : ColumnOf(p, g) = f /\ MustWrite(p, g)
        /\ value.chans \in Range(step.info[p].chans)
        /\ \E i \in DOMAIN step.info[p].ant1 :
              value.of \subseteq PairsOf(step.info[p].ants, step.info[p].ant1[i], step.info[p].ant2[i])}

(* The buffers have the baselines and channels that the information tells,    *)
(* and no step throws once the first slot is processed (Step.h:35).  In the   *)
(* end all columns of all measurement sets have, for each row and channel, the*)
(* value of that baseline, channel and slot with the changes of all steps     *)
(* before the last output that writes it, although outputs may follow each    *)
(* other, rows and channels may be filtered out, and a slot may be missing    *)
(* (MSUpdater.cc:350, MSWriter.cc:131).                                       *)
ChangesAreWritten ==
    /\ step.matched /\ (fed > 0 => ~step.failed)
    /\ finished =>
        \A name \in DOMAIN step.sets :
            LET set == step.sets[name]
            IN  \A f \in Columns : \A i \in DOMAIN set.rows : \A c \in DOMAIN set.chans :
                  LET value == set.cells[f][i][c]
                      row == set.rows[i]
                      outputs == WrittenBy(name, f, value)
                      g == IF f = "corrected" THEN "data" ELSE f
                  IN  value # Unset =>
                        /\ value.slot = row.slot
                        /\ name = Input => value.of = PairOf(row)
                        /\ value.chans = set.chans[c]
                        /\ value.by = IF outputs = {} THEN {} ELSE ChangedBefore(Max(outputs), g)

\* The stations of the rows in a table are those that the antenna ids name.
NamesRight(set, row, of) ==
    /\ {row.ANTENNA1, row.ANTENNA2} \subseteq DOMAIN set.ANTENNA
    /\ of \subseteq PairsOf(set.ANTENNA, row.ANTENNA1, row.ANTENNA2)

RowsOf(rows, column, id) == {k \in DOMAIN rows : rows[k][column] = id}

(* "A name equal to . or the last name means an update of the last MS."       *)
(* (DP3.cc:435): of the set that the output before it made or updated, or of  *)
(* the input.                                                                 *)
LastOutputIsUpdated ==
    step.phase = "ready" =>
        \A p \in {q \in DOMAIN config.tree : IsOutput(q)} :
            LET last == IF OutputBefore(p) = 0 THEN Input ELSE Target(OutputBefore(p))
            IN  NameOf(Kind(p)) \in {".", last} => IsUpdate(p) /\ Target(p) = last /\ ~step.failed

\* The rows and the statistics are of the stations that their ids name.
RowsAreRight(set, info) ==
    /\ Len(set.rows) = config.ntime * Len(info.ant1)
    /\ set.chans = info.chans
    /\ \A r \in DOMAIN set.rows : NamesRight(set, set.rows[r], set.cells["data"][r][1].of)
    /\ \A r \in DOMAIN set.QUALITY : NamesRight(set, set.QUALITY[r], set.QUALITY[r].of)

\* An antenna has one feed, and the fields of all stations in it.
AntennaIsRight(set, i, antenna, fields) ==
    /\ Cardinality(RowsOf(set.FEED, "ANTENNA_ID", i)) = 1
    /\ {set.FIELDS[k].of : k \in fields} = antenna.of
    /\ Cardinality(fields) = Cardinality(antenna.of)

FailuresAreRight(set) ==
    \A k \in DOMAIN set.FAILURES :
        /\ set.FAILURES[k].FIELD_ID \in DOMAIN set.FIELDS
        /\ set.FIELDS[set.FAILURES[k].FIELD_ID].of = set.FAILURES[k].of

ClocksOfParts(antenna) ==
    {step.sets[Input].STATIONS[k].clock : k \in {j \in DOMAIN Stations : Stations[j] \in antenna.of}}

\* The clock is that of the parts, or of no other station if theirs differ.
ClockIsRight(stations, station, name, clocks) ==
    /\ station.name = name
    /\ IF Cardinality(clocks) = 1 THEN station.clock \in clocks
       ELSE \A k \in DOMAIN stations : stations[k].clock = station.clock => stations[k].name = name

BeamsBefore(p) ==
    {q \in ChangedBefore(p, "data") : Kind(q) \in {"applybeam", "applybeam_weights", "undobeam"}}

DirectionIsRight(set, p, beams) ==
    /\ (set.centre = "shifted") <=> \E q \in Path(p) : Kind(q) = "phaseshift"
    /\ (set.beam["data"] = "applied") <=> beams # {} /\ Kind(Max(beams)) # "undobeam"

SetIsRight(set, p) ==
    /\ RowsAreRight(set, step.info[p])
    /\ \A i \in DOMAIN set.ANTENNA :
        /\ set.ANTENNA[i].name = step.info[p].ants[i].name
        /\ AntennaIsRight(set, i, set.ANTENNA[i], RowsOf(set.FIELDS, "ANTENNA_ID", i))
        /\ ClockIsRight(set.STATIONS, set.STATIONS[set.ANTENNA[i].station], set.ANTENNA[i].name,
                         ClocksOfParts(set.ANTENNA[i]))
    /\ FailuresAreRight(set)
    /\ DirectionIsRight(set, p, BeamsBefore(p))

(* The subtables of a new measurement set describe its data: the antennas of  *)
(* its rows and statistics, one feed per antenna, the antenna fields of all   *)
(* stations in it and their failures, the clock of its station, and the beam  *)
(* and phase centre of the data (DP3.cc:199, Filter.cc:236, StationAdder.cc:488). *)
TablesDescribeTheData ==
    finished => \A p \in {q \in DOMAIN config.tree : IsOutput(q) /\ ~IsUpdate(q)} :
                    SetIsRight(step.sets[Target(p)], p)

=============================================================================
