----------------------------- MODULE DemixerNew -----------------------------
(***************************************************************************)
(* The smart demixer (steps/DemixerNew.cc) with its workers                *)
(* (base/DemixWorker.cc): time slots are collected for a batch of chunks,  *)
(* which the workers process in parallel, each chunk on its own.  Of an    *)
(* output or a solution, the slots that it was made of are kept; a batch   *)
(* finds those of the batch before in the same places.                     *)
(* The second part is about a worker: the sky models it gets from          *)
(* base/DemixInfo.cc, and what it does for one chunk after the other.      *)
(***************************************************************************)
EXTENDS StepCalls, FiniteSetsExt, SequencesExt

CONSTANTS
    DemixTimeSteps,   \* setting demixtimestep
    OutputTimeSteps,  \* setting timestep
    ChunkFactors,     \* setting chunksize, in solve intervals
    TimeChunks,       \* setting ntimechunk
    WorkerSettings,   \* the settings and models of a worker
    Chunks,           \* what a worker may be given for a chunk
    MaxChunks         \* bound: chunks of a worker

AtMost(a, b) == IF a < b THEN a ELSE b

\* DemixInfo::update, with what it refuses; the places for results are empty.
NewInit ==
    \E n \in 1 .. MaxSlots, t \in DemixTimeSteps, o \in OutputTimeSteps,
       f \in ChunkFactors, c \in TimeChunks :
        LET avg == AtMost(t, n)
            subtr == AtMost(o, n)
        IN  /\ avg % subtr = 0 /\ (t * f) % avg = 0
            /\ Start([ntime |-> n, avg |-> avg, subtr |-> subtr, chunk_size |-> t * f,
                      time_chunk |-> c],
                     [buf_in |-> <<>>, n_chunk |-> 0,
                      buf_out |-> [k \in 0 .. c * ((t * f) \div subtr) - 1 |-> {}]])

\* DemixWorker::process: average number k of the slots given.
Averaged(slots, n, k) == {slots[i] : i \in k * n + 1 .. AtMost((k + 1) * n, Len(slots))}

ChunkOf(s, i) ==
    SubSeq(s.buf_in, i * config.chunk_size + 1,
           AtMost((i + 1) * config.chunk_size, Len(s.buf_in)))

LastChunk(s) == (Len(s.buf_in) - 1) \div config.chunk_size

\* The chunks that the parallel loop runs over; its end is not included.
ProcessedChunks(s) == 0 .. LastChunk(s) - 1

\* Where the workers put the outputs; other places keep what they hold.
BufOut(s) ==
    LET window == config.chunk_size \div config.subtr
    IN  [k \in DOMAIN s.buf_out |->
            IF k \div window \in ProcessedChunks(s)
            THEN Averaged(ChunkOf(s, k \div window), config.subtr, k % window)
            ELSE s.buf_out[k]]

\* processData()
ProcessedData(s) ==
    [s EXCEPT !.buf_in = <<>>, !.n_chunk = @ + LastChunk(s) + 1, !.buf_out = BufOut(s)]

BatchOutputs(s) ==
    [k \in 1 .. (Len(s.buf_in) + config.subtr - 1) \div config.subtr |-> BufOut(s)[k - 1]]

NewProcess ==
    LET s == [step EXCEPT !.buf_in = Append(@, fed)]
        full == Len(s.buf_in) >= config.time_chunk * config.chunk_size
    IN  /\ Processed(IF full THEN ProcessedData(s) ELSE s)
        /\ Send(IF full THEN BatchOutputs(s) ELSE <<>>)

NewFinish ==
    /\ Ended(IF step.buf_in = <<>> THEN step ELSE ProcessedData(step))
    /\ Send(IF step.buf_in = <<>> THEN <<>> ELSE BatchOutputs(step))

NewNext == NewProcess \/ NewFinish
NewSpec == NewInit /\ [][NewNext]_calls

-----------------------------------------------------------------------------
\* Outputs that left, and the batch, chunk and slots each belongs to.
BatchSize == config.time_chunk * config.chunk_size
SlotsOf(k) == (k - 1) * config.subtr .. AtMost(k * config.subtr, fed) - 1
IsLastChunk(k) ==
    LET slot == (k - 1) * config.subtr
        end == AtMost((slot \div BatchSize + 1) * BatchSize, fed)
    IN  slot \div config.chunk_size = (end - 1) \div config.chunk_size

(* Outputs of all chunks but the last one of a batch are of their own slots. *)
EarlierChunksAreDemixed ==
    \A k \in DOMAIN sent : ~IsLastChunk(k) => sent[k] = SlotsOf(k)

(* The function of the loop "is called (end-start) times"                    *)
(* (parallelfor.h:43), and the last call may be for fewer slots              *)
(* (DemixerNew.cc:338): all chunks are demixed.                              *)
EveryChunkIsDemixed == \A k \in DOMAIN sent : sent[k] = SlotsOf(k)

-----------------------------------------------------------------------------
(* A worker.  Places in the sky are degrees on a circle; two within one     *)
(* degree are as near as target.delta.  config: the settings.  step: the    *)
(* lists of patches, the solution that EstimateNew keeps, statistics, and   *)
(* the last chunk with what it gave.  Directions count from 0, the target   *)
(* is last; stations are the antennas of the selected baselines, renumbered. *)

\* The angle with the cosine of angle d.
Angle(d) == IF d % 360 > 180 THEN 360 - (d % 360) ELSE d % 360
Near(p, q) == Angle(p.place - q.place) <= 1
NearOnes(list, p) == SelectSeq(list, LAMBDA q : Near(p, q))

\* DemixInfo::makePatchList: the patches with these names, or all.
Named(list, name) == SelectSeq(list, LAMBDA p : p.name = name)
NamesOf(list) == [i \in DOMAIN list |-> list[i].name]
IsKnown(model, names) == \A i \in DOMAIN names : Named(model, names[i]) # <<>>
PatchList(model, names) ==
    IF names = <<>> THEN model ELSE [i \in DOMAIN names |-> Named(model, names[i])[1]]

\* Faulty variant: the source stays in the list of the detailed models.
MutantWithTarget(lists, p) ==
    LET detailed == NearOnes(config.ateam, p)
        k == SelectInSeq(lists.ateam, LAMBDA q : Near(detailed[1], q))
    IN  IF detailed = <<>> \/ k = 0 THEN [lists EXCEPT !.target_demix = Append(@, p)]
        ELSE [lists EXCEPT !.target_demix = Append(@, detailed[1]), !.ateam = RemoveAt(@, k)]

\* DemixInfo::makeTargetDemixList, one patch p of the target: a detailed patch
\* near it replaces it; the first source near that one is not demixed.
WithTarget(lists, p) ==
    LET detailed == NearOnes(config.ateam, p)
        k == SelectInSeq(lists.ateam, LAMBDA q : Near(detailed[1], q))
    IN  IF detailed = <<>> THEN [lists EXCEPT !.target_demix = Append(@, p)]
        ELSE IF k = 0 THEN [lists EXCEPT !.target_demix = Append(@, detailed[1])]
        ELSE [target_demix |-> Append(lists.target_demix, detailed[1]),
              ateam |-> RemoveAt(lists.ateam, k),
              ateam_demix |-> RemoveAt(lists.ateam_demix, k)]

Target == IF config.handling = 3 THEN <<>> ELSE config.target
SourceNames == IF config.sources = <<>> THEN NamesOf(config.estimate) ELSE config.sources
Estimated ==
    IF config.estimate = <<>> THEN PatchList(config.ateam, SourceNames)
    ELSE PatchList(config.estimate, SourceNames)
Lists ==
    FoldLeft(WithTarget,
             [ateam |-> Estimated, ateam_demix |-> PatchList(config.ateam, SourceNames),
              target_demix |-> <<>>],
             Target)

NoCounts == [d \in {"none", "strong", "close", "ignore", "deproject"} |-> 0]

\* An element of a Jones matrix: what it is, the derivatives that it was solved
\* with, what the solve started from, and when that was.
Constant(is) == [is |-> is, derivs |-> {}, from |-> is, chunk |-> 0, slot |-> 0]
Diagonal(is) == <<Constant(is), Constant("0"), Constant("0"), Constant(is)>>
Zeros == Diagonal("0")

Antennas == UNION {{config.baselines[b][1], config.baselines[b][2]} : b \in Range(config.selected)}
Station(a) == Cardinality({x \in Antennas : x < a})
Selected == DOMAIN config.selected

WorkerInit == \E c \in WorkerSettings : Start(c, [state |-> "new"])

\* The constructor of DemixWorker: all places for results are empty.
WorkerMembers(sources, stations) ==
    [state |-> "ready", lists |-> Lists, stations |-> stations,
     ends |-> [j \in Selected |->
                  [e \in {1, 2} |-> Station(config.baselines[config.selected[j]][e])]],
     chunks |-> 0, last |-> <<>>, counts |-> NoCounts,
     solution |-> [p \in (sources \cup {Cardinality(sources)}) \X stations |-> Zeros],
     demixed |-> [p \in sources \X stations |-> 0],
     sources_demixed |-> [dr \in sources |-> 0],
     stations_demixed |-> [st \in stations |-> 0],
     use |-> {}, solutions |-> <<>>, outputs |-> <<>>]

\* The constructor of DemixInfo, with what it refuses.
ReadModels ==
    /\ step.state = "new"
    /\ step' =
        IF /\ config.estimate # <<>> => IsKnown(config.estimate, SourceNames)
           /\ IsKnown(config.ateam, SourceNames)
           /\ \A i \in DOMAIN Estimated : Near(Estimated[i], PatchList(config.ateam, SourceNames)[i])
        THEN WorkerMembers(0 .. Len(Lists.ateam) - 1, 0 .. Cardinality(Antennas) - 1)
        ELSE [state |-> "failed"]
    /\ UNCHANGED <<config, fed, sent, finished>>

NSources == Len(step.lists.ateam)
Sources == 0 .. NSources - 1
Source(dr) == step.lists.ateam[dr + 1]
Stations == step.stations
Ends(j) == step.ends[j]
IsCross(j) == Ends(j)[1] # Ends(j)[2]

\* DemixInfo::update: default thresholds, and is a source near the target's
\* mean direction, with the distance scaled by the frequency?
AteamThreshold ==
    IF config.ateam_threshold > 0 THEN config.ateam_threshold ELSE IF config.low THEN 50 ELSE 5
TargetThreshold ==
    IF config.target_threshold > 0 THEN config.target_threshold ELSE IF config.low THEN 200 ELSE 100
TargetPlace ==
    IF Target = <<>> THEN 0 ELSE FoldLeft(LAMBDA s, p : s + p.place, 0, Target) \div Len(Target)
IsAteamNearby ==
    Angle((Min({Angle(Source(dr).place - TargetPlace) : dr \in Sources}) * config.freq_percent) \div 100)
        < config.distance

\* DemixWorker::predictAteam: the stations of the baselines with enough
\* amplitude; a source with too few stations keeps its direction without any.
Strong(chunk, dr) == {j \in Selected : chunk.ateam[Source(dr).name][j] >= AteamThreshold}
Occurrences(chunk, dr, st) == Cardinality({x \in Strong(chunk, dr) \X {1, 2} : Ends(x[1])[x[2]] = st})
Frequent(chunk, dr) == {st \in Stations : Occurrences(chunk, dr, st) >= config.min_baselines}
StationsToUse(chunk, dr) ==
    IF Cardinality(Frequent(chunk, dr)) >= config.min_stations THEN Frequent(chunk, dr) ELSE {}

\* Intervals of a chunk, and those that a whole one has.
Intervals(n, length) == (n + length - 1) \div length
WholeIntervals == config.chunk \div config.avg

\* findMedian(): over the baselines sel and all places for a whole chunk; those
\* that the chunk does not fill are zero.
UpTo(chunk, ampl, sel, v) ==
    LET filled == Intervals(chunk.n, config.avg)
    IN  (WholeIntervals - filled) * Cardinality(sel) + filled * Cardinality({j \in sel : ampl[j] <= v})
Median(chunk, ampl, sel) ==
    IF sel = {} THEN 0
    ELSE Min({v \in {0} \cup {ampl[j] : j \in sel} :
                 UpTo(chunk, ampl, sel, v) > (Cardinality(sel) * WholeIntervals - 1) \div 2})

\* setupDemix(): what is done with the target.
AteamMedians(chunk) ==
    {Median(chunk, chunk.ateam[Source(dr).name], Strong(chunk, dr)) : dr \in Sources}
Exceeds(a, percent, b) == a * 100 > percent * b
Handling(chunk) ==
    LET median == Median(chunk, chunk.target, config.sel_target)
    IN  CASE config.handling = 1 -> "close"
          [] config.handling = 2 -> "deproject"
          [] config.handling = 3 -> "ignore"
          [] OTHER ->
                IF \/ Exceeds(median, config.ratio1, Max(AteamMedians(chunk)))
                   \/ Max(Range(chunk.target)) > TargetThreshold
                THEN "strong"
                ELSE IF ~IsAteamNearby THEN "deproject"
                ELSE IF Exceeds(median, config.ratio2, Min(AteamMedians(chunk))) THEN "close"
                ELSE "ignore"
IsIncluded(handling) == handling \in {"strong", "close"}

\* The directions in the equations, and the pairs of a direction and a station
\* that are solved; unknowns are numbered in this order, four for each pair
\* (here complex: an element of a Jones matrix is one unknown).
Directions(handling) == IF IsIncluded(handling) THEN 0 .. NSources ELSE Sources
SolvedPairs(chunk, handling) ==
    UNION {{<<dr, st>> : st \in IF dr = NSources THEN Stations ELSE StationsToUse(chunk, dr)} :
              dr \in Directions(handling)}
Place(p) == p[1] * Cardinality(Stations) + p[2]
UnknownsIndex(use, p) == IF p \in use THEN 4 * Cardinality({q \in use : Place(q) < Place(p)}) ELSE -1

\* Faulty variant: the buffer is not cleared after an interval.
MutantFactorSlots(n, length) ==
    [k \in 1 .. (n + length - 1) \div length |-> 1 .. AtMost(k * length, n)]

\* addFactors() for slot i of n, and makeFactors() at the end of an interval:
\* the slots that each interval's factors are made of.
FactorSlots(n, length) ==
    LET Add(f, i) ==
            IF i % length = 0 \/ i = n
            THEN [buf |-> {}, made |-> Append(f.made, f.buf \cup {i})]
            ELSE [f EXCEPT !.buf = @ \cup {i}]
    IN  FoldLeft(Add, [buf |-> {}, made |-> <<>>], [i \in 1 .. n |-> i]).made

\* Averager: slots and channels of output channel ch, and those it uses: the
\* ones without a flag, or all.
CellOf(slots, ch, width) == slots \X (ch * width .. AtMost((ch + 1) * width, config.nchan) - 1)
Unflagged(chunk, j, cell) == {x \in cell : <<x[1], x[2], j>> \notin chunk.flagged}
HasNoWeight(chunk, j, cell) ==
    \A x \in (IF Unflagged(chunk, j, cell) = {} THEN cell ELSE Unflagged(chunk, j, cell)) :
        <<x[1], x[2], j>> \in chunk.unweighted

\* makeFactors(): the visibilities whose phases are averaged for baseline j and
\* channel ch.  After a weight of zero the baseline's weights are not moved on.
NoFactor == [phases |-> {}, weights |-> {}]
Factor(chunk, slots, j, ch, width) ==
    IF \E c \in 0 .. ch : HasNoWeight(chunk, j, CellOf(slots, c, width)) THEN NoFactor
    ELSE [phases |-> Unflagged(chunk, j, CellOf(slots, ch, width)), weights |-> CellOf(slots, ch, width)]

\* Faulty variant: the solution of the chunk before is kept.
MutantInitSolution(solution, directions, use) ==
    [p \in DOMAIN solution |->
        IF p[1] \in directions /\ p \notin use THEN Diagonal("gain")
        ELSE IF p[1] \in directions /\ solution[p][1].is = "0" THEN Diagonal("1")
        ELSE solution[p]]

\* EstimateNew::initSolution.
InitSolution(solution, directions, use) ==
    [p \in DOMAIN solution |->
        IF p[1] \notin directions THEN Zeros
        ELSE IF p \notin use THEN Diagonal("gain")
        ELSE IF config.propagate /\ solution[p][1].is # "0" THEN solution[p]
        ELSE Diagonal("1")]

\* fillDerivIndex(): the unknowns of baseline <<p, q>> in the equations of
\* correlation cr, and the derivatives that estimate() gives for them.
Pair(x) == <<x, x + 1>>
DirectionSeq(directions) == [i \in 1 .. Cardinality(directions) |-> i - 1]
\* Faulty variant: rows of the Jones matrices are taken for columns.
MutantDerivIndex(use, directions, p, q, cr) ==
    LET Of(dr) ==
            (IF <<dr, p>> \in use THEN Pair(UnknownsIndex(use, <<dr, p>>) + 2 * (cr % 2)) ELSE <<>>)
            \o (IF <<dr, q>> \in use THEN Pair(UnknownsIndex(use, <<dr, q>>) + 2 * (cr \div 2)) ELSE <<>>)
    IN  FlattenSeq([i \in DOMAIN DirectionSeq(directions) |-> Of(i - 1)])

DerivIndex(use, directions, p, q, cr) ==
    LET Of(dr) ==
            (IF <<dr, p>> \in use THEN Pair(UnknownsIndex(use, <<dr, p>>) + 2 * (cr \div 2)) ELSE <<>>)
            \o (IF <<dr, q>> \in use THEN Pair(UnknownsIndex(use, <<dr, q>>) + 2 * (cr % 2)) ELSE <<>>)
    IN  FlattenSeq([i \in DOMAIN DirectionSeq(directions) |-> Of(i - 1)])
Derivatives(use, directions, p, q, cr) ==
    LET Wrt(does, dr, st, k) == IF does THEN <<<<dr, st, k>>>> ELSE <<>>
        Of(dr) ==
            LET do1 == <<dr, p>> \in use
                do2 == <<dr, q>> \in use
            IN  IF (do1 /\ do2) \/ (~config.solve_both /\ (do1 \/ do2))
                THEN Wrt(do1, dr, p, 2 * (cr \div 2)) \o Wrt(do2, dr, p, 2 * (cr \div 2) + 1)
                     \o Wrt(do1, dr, q, 2 * (cr % 2)) \o Wrt(do2, dr, q, 2 * (cr % 2) + 1)
                ELSE <<>>
    IN  FlattenSeq([i \in DOMAIN DirectionSeq(directions) |-> Of(i - 1)])

\* The baselines with equations: of solved stations, and not all flagged.
SolveStations(use) == {p[2] : p \in use}
IsUsed(chunk, use, slots, j) ==
    /\ IsCross(j)
    /\ \E e \in {1, 2} : Ends(j)[e] \in SolveStations(use)
    /\ config.solve_both => \A e \in {1, 2} : Ends(j)[e] \in SolveStations(use)
    /\ \E ch \in 0 .. config.nchan \div config.navg - 1 :
           Unflagged(chunk, j, CellOf(slots, ch, config.navg)) # {}

\* The equations that estimate() makes in each interval: which derivative for
\* which unknown.
\* Those that none is made for are left from another direction or baseline.
Stale == <<-1, -1, -1>>
EquationsOf(index, derivs) ==
    {<<index[i], IF i \in DOMAIN derivs THEN derivs[i] ELSE Stale>> : i \in DOMAIN index}
Equations(chunk, use, directions) ==
    UNION {{<<x[1], e[1], e[2]>> :
               e \in EquationsOf(DerivIndex(use, directions, Ends(x[2])[1], Ends(x[2])[2], x[3]),
                                 Derivatives(use, directions, Ends(x[2])[1], Ends(x[2])[2], x[3]))} :
              x \in {y \in (1 .. Intervals(chunk.n, config.avg)) \X Selected \X (0 .. 3) :
                        IsUsed(chunk, use, FactorSlots(chunk.n, config.avg)[y[1]], y[2])}}

\* estimate() for interval ts: initSolution(), the solve, fillSolution().
Estimate(solution, directions, use, equations, ts) ==
    LET start == InitSolution(solution, directions, use)
        Solved(p, k) ==
            [is |-> "solved", from |-> start[p][k].is, chunk |-> step.chunks, slot |-> ts,
             derivs |-> {e[3] : e \in {x \in equations :
                                          x[1] = ts /\ x[2] = UnknownsIndex(use, p) + k - 1}}]
    IN  [p \in DOMAIN start |-> IF p \in use THEN [k \in 1 .. 4 |-> Solved(p, k)] ELSE start[p]]

\* The solutions of the intervals, each started from the one before.
Solutions(chunk, directions, use, equations) ==
    Tail(FoldLeft(LAMBDA s, ts : Append(s, Estimate(s[Len(s)], directions, use, equations, ts)),
                  <<step.solution>>, [ts \in 1 .. Intervals(chunk.n, config.avg) |-> ts]))

\* demix() and subtract(): what output number k of baseline j loses in channel ch:
\* the places of the solutions for both stations, and the factors.  The model is
\* simulated again if the resolutions differ.
Multiplier == config.avg \div config.subtr
Resimulates == Multiplier # 1 \/ config.navg # config.navg_subtr
\* Faulty variant: an interval's solution is used for the next output, too.
MutantSubtractTimes(ts, noutputs) == Multiplier * (ts - 1) + 1 .. AtMost(Multiplier * ts + 1, noutputs)

SubtractTimes(ts, noutputs) == Multiplier * (ts - 1) + 1 .. AtMost(Multiplier * ts, noutputs)
Subtracted(chunk, k, j, ch) ==
    {[source |-> x[1], model |-> IF Resimulates THEN k ELSE 0,
      jones |-> [e \in {1, 2} |-> <<x[2], x[1], Ends(j)[e]>>],
      mix |-> Factor(chunk, FactorSlots(chunk.n, config.subtr)[k], j, ch, config.navg_subtr)] :
        x \in {y \in Sources \X (1 .. Intervals(chunk.n, config.avg)) :
                   k \in SubtractTimes(y[2], Intervals(chunk.n, config.subtr))}}

SubtrChannels == 0 .. config.nchan \div config.navg_subtr - 1
SubtractedRow(chunk, k, j) ==
    [baseline |-> config.selected[j],
     loses |-> [ch \in SubtrChannels |->
                   IF config.do_subtract /\ IsCross(j) THEN Subtracted(chunk, k, j, ch) ELSE {}]]
AveragedRow(b) == [baseline |-> b, loses |-> [ch \in SubtrChannels |-> {}]]
AveragedRows == [b \in DOMAIN config.baselines |-> AveragedRow(b)]

\* handleDemix() and mergeSubtractResult(): the selected baselines alone, or put
\* among the averages of all.
Rows(chunk, k) ==
    LET rows == [j \in Selected |-> SubtractedRow(chunk, k, j)]
    IN  IF config.do_subtract /\ config.has_selection
        THEN [b \in DOMAIN config.baselines |->
                 IF b \in Range(config.selected) THEN rows[SelectInSeq(config.selected, LAMBDA x : x = b)]
                 ELSE AveragedRow(b)]
        ELSE rows
Outputs(chunk) ==
    [k \in 1 .. Intervals(chunk.n, config.subtr) |->
        [slots |-> Averaged([i \in 1 .. chunk.n |-> i], config.subtr, k - 1),
         rows |-> Rows(chunk, k)]]

\* A chunk is as long as the settings say; only the last one may be shorter.
MayFollow(chunk) ==
    /\ step.state = "ready" /\ step.chunks < MaxChunks
    /\ chunk.n <= config.chunk
    /\ step.chunks > 0 => step.last.n = config.chunk

\* process() of a chunk when there are no sources to demix: average().
AverageChunk(chunk) ==
    /\ MayFollow(chunk) /\ NSources = 0
    /\ step' = [step EXCEPT
           !.chunks = @ + 1, !.counts["none"] = @ + 1, !.use = {}, !.last = chunk,
           !.solutions = [ts \in 1 .. Intervals(chunk.n, config.avg) |-> [p \in {0} \X Stations |-> Zeros]],
           !.outputs = [k \in 1 .. Intervals(chunk.n, config.subtr) |->
               [slots |-> Averaged([i \in 1 .. chunk.n |-> i], config.subtr, k - 1), rows |-> AveragedRows]]]
    /\ UNCHANGED <<config, fed, sent, finished>>

\* process() of a chunk.
DemixChunkAs(chunk, handling, use, solutions) ==
    step' = [step EXCEPT
        !.chunks = @ + 1, !.counts[handling] = @ + 1, !.use = use, !.last = chunk,
        !.demixed = [p \in DOMAIN @ |-> @[p] + IF p \in use THEN 1 ELSE 0],
        !.sources_demixed = [dr \in DOMAIN @ |->
            @[dr] + IF Cardinality(Frequent(chunk, dr)) >= config.min_stations THEN 1 ELSE 0],
        !.stations_demixed = [st \in DOMAIN @ |->
            @[st] + IF \E dr \in Sources : <<dr, st>> \in use THEN 1 ELSE 0],
        !.solution = solutions[Len(solutions)], !.solutions = solutions,
        !.outputs = Outputs(chunk)]

DemixChunk(chunk) ==
    /\ MayFollow(chunk) /\ NSources > 0
    /\ \E handling \in {Handling(chunk)} : \E use \in {SolvedPairs(chunk, handling)} :
       \E equations \in {Equations(chunk, use, Directions(handling))} :
           DemixChunkAs(chunk, handling, use, Solutions(chunk, Directions(handling), use, equations))
    /\ UNCHANGED <<config, fed, sent, finished>>

WorkerNext ==
    \/ ReadModels
    \/ \E chunk \in Chunks : AverageChunk(chunk) \/ DemixChunk(chunk)

\* DemixerNew::writeSolutions: the name of each place in the solutions.
Antenna(st) == CHOOSE a \in Antennas : Station(a) = st
ParameterOf(p) == <<IF p[1] = NSources THEN "Target" ELSE Source(p[1]).name, Antenna(p[2])>>
Written(ts) == {[parameter |-> ParameterOf(p), value |-> step.solutions[ts][p]] : p \in DOMAIN step.solutions[ts]}

-----------------------------------------------------------------------------
HasRun == step.state = "ready" /\ step.chunks > 0

(* In each interval, the place of a source and a station has what was solved *)
(* for it then, with its own derivatives, or the gain of those not solved    *)
(* for; without propagation solves do not start from earlier chunks.  Not    *)
(* so for a source that some station of a used baseline is not solved for,   *)
(* whose equations get derivatives of other elements.                        *)
SolvesAreUniform ==
    \A j \in Selected : IsCross(j) =>
        \A dr \in 0 .. NSources : <<dr, Ends(j)[1]>> \in step.use <=> <<dr, Ends(j)[2]>> \in step.use
SolutionsAreOfTheirPlace ==
    HasRun /\ SolvesAreUniform =>
        \A ts \in DOMAIN step.solutions : \A p \in DOMAIN step.solutions[ts] : \A k \in 1 .. 4 :
            LET x == step.solutions[ts][p][k]
            IN  IF p \in step.use
                THEN /\ x.is = "solved" /\ x.chunk = step.chunks - 1 /\ x.slot = ts
                     /\ x.derivs \subseteq {<<p[1], p[2], k - 1>>}
                     /\ config.propagate \/ x.from # "solved"
                ELSE x.is # "solved"

(* Each output of a demixed baseline loses each source once, with the       *)
(* solution of the interval that its slots are in, and mixed with the phases *)
(* of its own visibilities.  Other baselines are there, and lose nothing.   *)
(* Not so for a chunk with the same resolution in both (the models of        *)
(* subtracted sources are then never filled), or with weights of zero.      *)
IntervalOf(slots) == (Min(slots) - 1) \div config.avg + 1
OutputsLoseTheirSources ==
    HasRun => \A o \in Range(step.outputs) :
        /\ {o.rows[i].baseline : i \in DOMAIN o.rows} =
               IF config.do_subtract \/ NSources = 0 THEN DOMAIN config.baselines ELSE Range(config.selected)
        /\ \A i \in DOMAIN o.rows : \A ch \in SubtrChannels :
               LET loses == o.rows[i].loses[ch]
                   b == config.baselines[o.rows[i].baseline]
               IN  IF /\ config.do_subtract /\ b[1] # b[2]
                      /\ o.rows[i].baseline \in Range(config.selected)
                   THEN /\ {x.source : x \in loses} = Sources
                        /\ Cardinality(loses) = NSources
                        /\ \A x \in loses :
                               /\ Resimulates => x.model # 0
                               /\ \A e \in {1, 2} :
                                      x.jones[e] = <<IntervalOf(o.slots), x.source, Station(b[e])>>
                               /\ step.last.unweighted = {} =>
                                      x.mix.phases = {y \in o.slots \X (0 .. config.nchan - 1) :
                                          y[2] \div config.navg_subtr = ch /\
                                          \A j \in Selected : config.selected[j] = o.rows[i].baseline =>
                                              <<y[1], y[2], j>> \notin step.last.flagged}
                   ELSE loses = {}

(* A solution is written under the names of the source and the antenna that *)
(* it was solved for, one for each.                                         *)
ParametersAreOfTheirAntenna ==
    HasRun => \A ts \in DOMAIN step.solutions :
        /\ Cardinality(Written(ts)) = (NSources + 1) * Cardinality(Antennas)
        /\ SolvesAreUniform =>
              \A w \in Written(ts) : \A k \in 1 .. 4 : \A d \in w.value[k].derivs :
                  w.parameter = <<IF d[1] = NSources THEN "Target" ELSE Source(d[1]).name, Antenna(d[2])>>

(* The models for the estimate and for the solve are of the same sources,   *)
(* at the same places; when the sources are apart, none of them is near a   *)
(* patch of the target: there it is in the model of the target.             *)
AteamIsApart ==
    \A i, j \in DOMAIN config.ateam :
        i # j => Angle(config.ateam[i].place - config.ateam[j].place) > 4
ModelsAreOfOneSource ==
    step.state = "ready" =>
        /\ NamesOf(step.lists.ateam) = NamesOf(step.lists.ateam_demix)
        /\ \A i \in DOMAIN step.lists.ateam : Near(step.lists.ateam[i], step.lists.ateam_demix[i])
        /\ AteamIsApart =>
              \A i \in DOMAIN step.lists.ateam : NearOnes(Target, step.lists.ateam_demix[i]) = <<>>
        /\ Len(step.lists.target_demix) = Len(Target)

(* Every chunk is counted once; a source or a station at most once a chunk. *)
ChunksAreCounted ==
    HasRun =>
        /\ FoldLeft(+, 0, <<step.counts["none"], step.counts["strong"], step.counts["close"],
                            step.counts["ignore"], step.counts["deproject"]>>) = step.chunks
        /\ \A p \in DOMAIN step.demixed :
               step.demixed[p] <= step.sources_demixed[p[1]] /\ step.demixed[p] <= step.stations_demixed[p[2]]

=============================================================================
