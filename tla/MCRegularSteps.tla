--------------------------- MODULE MCRegularSteps ---------------------------
(* Checks the steps for regular data one by one: those of RegularSteps, and   *)
(* more of them; kind is the step under test, config and step are its.        *)
EXTENDS RegularSteps

CONSTANTS
    ChainKinds, BranchKinds,    \* the steps of BufferFields
    ChainEnds                   \* the ends of the chains of StepChain

\* The settings of the steps of RegularSteps that are records.
MCGivenSizes ==
    {[window |-> w, overlap |-> o, percentage |-> p] : w \in 0 .. 3, o \in 0 .. 3, p \in {-1, 0, 40}}
    \ {[window |-> 0, overlap |-> 0, percentage |-> 0]}
MCModes ==
    {[subtract |-> s, only_predict |-> p, propagate |-> s, converged_only |-> s] :
        s \in BOOLEAN, p \in BOOLEAN}

\* Bounds: the most slots of the steps with many states.
SlotsFor == [upsample |-> 4, ddecal |-> 4, gaincal |-> 5]

\* Two cells of two stations, for one interval.
Pair == INSTANCE GainCal WITH GainSolInts <- {}, ChunkSizes <- {},
    NCells <- 2, NStations <- 2, MaxIter <- 7, NSolutions <- 1

\* Chunks and settings of a worker of the smart demixer: three stations; sources
\* that are weak on some baselines, or at a place of the target; partial chunks.
DemixPatch(n, p) == [name |-> n, place |-> p]
DetailedSources == <<DemixPatch("A", 10), DemixPatch("B", 100), DemixPatch("C", 200)>>
CoarseSources == <<DemixPatch("A", 11), DemixPatch("B", 99)>>
WorkerBaselines == <<<<0, 0>>, <<0, 1>>, <<0, 2>>, <<1, 2>>>>
Worker ==
    [estimate |-> <<>>, ateam |-> DetailedSources, target |-> <<DemixPatch("T", 50)>>,
     sources |-> <<"A", "B">>, handling |-> 0, baselines |-> WorkerBaselines,
     selected |-> <<2, 3, 4>>, has_selection |-> TRUE, sel_target |-> {1, 2},
     min_baselines |-> 1, min_stations |-> 2, ratio1 |-> 500, ratio2 |-> 25,
     ateam_threshold |-> 0, target_threshold |-> 0, low |-> FALSE, distance |-> 60,
     freq_percent |-> 100, solve_both |-> FALSE, propagate |-> FALSE, do_subtract |-> TRUE,
     avg |-> 2, subtr |-> 1, chunk |-> 4, nchan |-> 2, navg |-> 2, navg_subtr |-> 1]
WorkerSettings == {
    Worker,
    [Worker EXCEPT !.estimate = CoarseSources, !.sources = <<>>, !.selected = <<4>>, !.sel_target = {1}, !.handling = 1],
    [Worker EXCEPT !.estimate = CoarseSources, !.sources = <<"C">>],
    [Worker EXCEPT !.estimate = <<DemixPatch("A", 20)>>, !.sources = <<"A">>],
    [Worker EXCEPT !.target = <<DemixPatch("T", 9), DemixPatch("U", 12)>>, !.handling = 1, !.propagate = TRUE],
    [Worker EXCEPT !.target = <<DemixPatch("T", 10)>>, !.sources = <<"A">>, !.avg = 1, !.navg = 1],
    [Worker EXCEPT !.propagate = TRUE, !.solve_both = TRUE, !.min_stations = 3,
                   !.selected = <<1, 2, 3, 4>>, !.has_selection = FALSE],
    [Worker EXCEPT !.do_subtract = FALSE, !.handling = 2, !.avg = 1, !.chunk = 3],
    [Worker EXCEPT !.avg = 1, !.navg = 1, !.chunk = 2, !.handling = 3],
    [Worker EXCEPT !.low = TRUE, !.freq_percent = 300, !.min_baselines = 2, !.avg = 1, !.navg_subtr = 2]}
Even(x) == <<x, x, x, x>>
Chunk(n, a, b, target, flagged, unweighted) ==
    [n |-> n, ateam |-> [s \in {"A", "B", "C"} |-> IF s = "A" THEN a ELSE b], target |-> target,
     flagged |-> flagged, unweighted |-> unweighted]
Chunks == {
    Chunk(4, Even(60), Even(8), Even(1), {}, {}),
    Chunk(3, Even(60), <<2, 6, 2, 0>>, <<300, 0, 0, 0>>, {}, {}),
    Chunk(4, <<6, 2, 2, 2>>, Even(6), Even(8), {}, {}),
    Chunk(2, Even(6), Even(0), Even(6), {<<1, 0, 1>>, <<1, 1, 2>>, <<2, 1, 2>>, <<1, 0, 2>>, <<2, 0, 2>>}, {}),
    Chunk(2, <<9, 9, 0, 0>>, Even(6), Even(0), {}, {<<1, 0, 1>>, <<2, 0, 1>>, <<1, 0, 3>>}),
    Chunk(2, Even(60), Even(9), <<1, 1, 90, 1>>, {<<1, 0, 2>>}, {}),
    Chunk(3, Even(60), Even(3), <<1, 1, 90, 1>>, {}, {}),
    Chunk(1, Even(60), <<5, 7, 9, 9>>, <<3, 3, 40, 40>>, {}, {})}

Smart == INSTANCE DemixerNew WITH DemixTimeSteps <- 1 .. 2, OutputTimeSteps <- 1 .. 2,
    ChunkFactors <- 1 .. 2, TimeChunks <- 1 .. 3, MaxChunks <- 2

Buf == INSTANCE BufferFields WITH MaxSlots <- 3

Pre == INSTANCE PreFlagger WITH
    MaxSlots <- 1, Antennas <- <<<<0, 1>>, <<0, 2>>, <<1, 2>>>>, NrChan <- 2, Day <- 12,
    MaxTokens <- 5, ChannelLists <- {{0}, {0, 1, 5}},
    Modes <- {"set", "clear", "setcomplement", "clearcomplement"}

\* The chains of StepChain: two steps and what follows them, or a split in two
\* after one step.  Left out is what the README notes as going wrong: a filter
\* that removes stations before an AOFlagger, and updates after a selection of
\* channels that another filter or a new measurement set follows.
ChainFilters == {"filter_channels", "filter_baselines", "filter_remove", "filter_clean"}
ChainSteps == ChainFilters \cup
    {"stationadd", "stationadd_auto", "stationadd_cross", "stationadd_two", "stationadd_more",
     "average", "phaseshift", "applybeam", "undobeam", "applybeam_weights", "applycal_weights",
     "predict", "uvwflagger", "aoflagger", "counter"}
IsSettled(s) ==
    \A i, j \in DOMAIN s : i < j =>
        /\ ~(s[i] = "filter_remove" /\ s[j] = "aoflagger")
        /\ ~(s[i] = "filter_channels" /\ s[j] \in ChainFilters \cup {"out_A"}
             /\ s[Len(s)] \in {"update", "msout"})
ChainEnd ==
    [update |-> <<"msout">>, new |-> <<"out_A">>,
     columns |-> <<"out_A", "update_column", "uvwflagger", "update">>,
     again |-> <<"out_A", "applycal", "msout_A">>]
Line(start, steps) == [start |-> start, steps |-> steps, branches |-> <<>>]
StepChains ==
    {Line(0, s) : s \in
        {t \in {<<a, b>> \o ChainEnd[e] : a \in ChainSteps, b \in ChainSteps, e \in ChainEnds} : IsSettled(t)}}
    \cup {Line(1, <<a, b, "msout_column">>) : a \in ChainSteps \ ChainFilters, b \in {"applycal", "uvwflagger"}}
    \cup {[start |-> 0, steps |-> <<f[1]>>, branches |-> <<<<f[2], "out_A">>, <<f[3], "out_B">>>>] :
        f \in {g \in ChainSteps \X {"filter_remove", "stationadd_two", "aoflagger", "average"}
                                \X {"applycal", "stationadd_cross", "filter_remove"} : IsSettled(g)}}

Chain == INSTANCE StepChain WITH MaxSlots <- 3, Chains <- StepChains

\* One iteration for an interval: rows of regular data (with an autocorrelation),
\* of BDA data, and numbers of solutions that divide its time slots.
BaselineRow(a, b, t, n) == [antennas |-> <<a, b>>, time |-> t, nchan |-> n]
RegularRows(ntimes) ==
    [r \in 1 .. 4 * ntimes |->
        LET b == <<<<0, 1>>, <<0, 2>>, <<1, 2>>, <<0, 0>>>>[((r - 1) % 4) + 1]
        IN  BaselineRow(b[1], b[2], (r - 1) \div 4, 3)]
Problem(rows, nantennas, ntimes, solutions) ==
    [rows |-> rows, nblocks |-> 2, nantennas |-> nantennas, ntimes |-> ntimes, solutions |-> solutions]
SolverProblems ==
    {Problem(RegularRows(t), 4, t, s) :
        t \in {1, 2, 6}, s \in {<<1>>, <<1, 1>>, <<2, 1>>, <<1, 2>>, <<2, 2>>, <<3, 2>>}}
    \cup {Problem(r, 3, 1, <<1, 1>>) :
        r \in {<<BaselineRow(0, 1, 0, 4), BaselineRow(0, 1, 0, 4), BaselineRow(1, 2, 0, 1), BaselineRow(0, 2, 0, 3)>>,
               <<BaselineRow(1, 1, 0, 4), BaselineRow(0, 1, 0, 1)>>}}
Iteration == INSTANCE GainSolvers WITH
    Problems <- {p \in SolverProblems : \A d \in DOMAIN p.solutions : p.ntimes % p.solutions[d] = 0}

MCInit ==
    \/ Init /\ (kind \in DOMAIN SlotsFor => config.ntime <= SlotsFor[kind])
    \/ kind = "smartdemixer" /\ Smart!NewInit
    \/ kind = "demixworker" /\ Smart!WorkerInit
    \/ kind = "fields" /\ Buf!FieldsInit
    \/ kind = "preflagger" /\ Pre!PreInit
    \/ kind = "chain" /\ Chain!ChainInit
    \/ kind = "iteration" /\ Iteration!SolversInit /\ NoCalls
    \/ kind = "pair" /\ Pair!GainsInit /\ NoCalls

MCNext ==
    \/ Next
    \/ /\ UNCHANGED kind
       /\ \/ kind = "smartdemixer" /\ Smart!NewNext
          \/ kind = "demixworker" /\ Smart!WorkerNext
          \/ kind = "fields" /\ Buf!FieldsNext
          \/ kind = "preflagger" /\ Pre!PreNext
          \/ kind = "chain" /\ Chain!ChainNext
          \/ kind = "iteration" /\ Iteration!SolversNext /\ UNCHANGED <<fed, sent, finished>>
          \/ kind = "pair" /\ Pair!GainsNext

MCSpec == MCInit /\ [][MCNext]_vars

-----------------------------------------------------------------------------
(* The properties of RegularSteps are checked as they are; each of these is  *)
(* that of the module of its step.                                           *)

\* DDECal, its documentation on minvisratio: too few visibilities are flagged.
MCFewVisibilitiesAreFlagged == kind = "ddecal" => FewVisibilitiesAreFlagged

\* DemixerNew: a slot loses the sources solved for its time, with the solutions
\* of its baseline's stations; each solution is of what it is written as.
SmartSourcesAreRemoved ==
    /\ kind = "smartdemixer" => Smart!EarlierChunksAreDemixed
    /\ kind = "demixworker" =>
          /\ Smart!SolutionsAreOfTheirPlace /\ Smart!OutputsLoseTheirSources
          /\ Smart!ParametersAreOfTheirAntenna /\ Smart!ModelsAreOfOneSource
          /\ Smart!ChunksAreCounted

\* DemixerNew, its documentation: no slot leaves with its sources in it.
EveryChunkIsDemixed == kind = "smartdemixer" => Smart!EveryChunkIsDemixed

\* The buffers that steps share: each field is of the slot in which it arrives.
FieldsAreOfTheSlot == kind = "fields" => Buf!FieldsAreOfTheSlot

\* PreFlagger: what its criteria, time ranges and expressions select is flagged,
\* and nothing else.
SelectionIsFlagged ==
    kind = "preflagger" =>
        Pre!ExpressionsAreRead /\ Pre!SelectionIsFlagged /\ Pre!TimesAreInRange

\* A chain of steps: what the steps change is written, and nothing else is; the
\* subtables of new measurement sets describe the data that are in them.
ChangesAreWritten ==
    kind = "chain" => Chain!ChangesAreWritten /\ Chain!TablesDescribeTheData

\* A chain of steps, a comment in its code: outputs update the last one.
LastOutputIsUpdated == kind = "chain" => Chain!LastOutputIsUpdated

\* An iteration of a solver between true solutions gives the true one, of the
\* time, direction and channels it is for.  Of two cells of GainCal, the one that
\* is done first keeps its solution.
TrueSolutionsAreFound ==
    /\ kind = "iteration" => Iteration!TrueSolutionsAreFound
    /\ kind = "pair" => Pair!NaNsAreNotPropagated /\ Pair!CellsSettle
=============================================================================
