------------------------------ MODULE GainCal ------------------------------
(***************************************************************************)
(* Gain calibration of regular data (steps/GainCal.cc).  Time slots fill   *)
(* the matrices of a solution interval; at its end calibrate() adds one    *)
(* solution.  Solutions are written in chunks to a ParmDB, or at the end   *)
(* to an H5Parm, with the times that they hold for.  Times count slots     *)
(* from the start of the observation.  A solution is the slots it was made *)
(* of and the solution that it started with.                               *)
(*                                                                         *)
(* And the iterations of calibrate() with the solutions of the frequency   *)
(* cells (base/GainCalAlgorithm.cc), as a specification of its own: a gain *)
(* is zero, another value, or not a number; how much the gains change in   *)
(* an iteration is any choice.  config is then the settings, step the      *)
(* state of the current calibrate(), and no step is called.                *)
(***************************************************************************)
EXTENDS StepCalls

CONSTANTS
    GainSolInts,     \* setting solint; 0 is the whole observation
    ChunkSizes,      \* setting timeslotsperparmupdate
    NCells,          \* frequency cells, each with a GainCalAlgorithm
    NStations,
    MaxIter,         \* setting maxiter
    NSolutions       \* bound: solution intervals that are solved

\* An interval of all slots has no buffers to apply the solution in: the
\* constructor gives itsBuf its size before the 0 is replaced.
GainInit ==
    \E n \in 1 .. MaxSlots, s \in GainSolInts, c \in ChunkSizes, h5, apply, propagate \in BOOLEAN :
        /\ ~(s = 0 /\ apply)
        /\ Start([ntime |-> n, solint |-> IF s = 0 THEN n ELSE s, chunk |-> c, h5 |-> h5,
                  apply |-> apply, propagate |-> propagate],
                 [buf |-> <<>>, vis |-> <<>>, sols |-> <<>>, made |-> 0, inUpdate |-> 0,
                  chunkStart |-> 0, written |-> <<>>, failed |-> FALSE, input |-> <<>>])

Least(a, b) == IF a < b THEN a ELSE b

\* calibrate(): the matrices of the interval, from the last solution or from unity.
Calibrated(vis) ==
    Append(step.sols,
           [number |-> step.made + 1, vis |-> vis,
            start |-> IF config.propagate THEN step.made ELSE 0])

\* applySolution() to the kept slots.
Applied(buf, number) == [i \in 1 .. Len(buf) |-> [buf[i] EXCEPT !.sol = number]]

\* writeSolutionsParmDB(): the last interval ends with the observation.
ChunkEnd(sols) == Least(step.chunkStart + Len(sols) * config.solint, config.ntime)

ParmDBSolutions(sols) ==
    [t \in 1 .. Len(sols) |->
        [low |-> step.chunkStart + config.solint * (t - 1),
         high |-> Least(step.chunkStart + config.solint * t, ChunkEnd(sols)),
         sol |-> sols[t]]]

\* writeSolutionsH5Parm(): twice the middle of each interval, of the announced number.
AnnouncedSolutions == (config.ntime + config.solint - 1) \div config.solint

H5Rows(sols) ==
    [t \in 1 .. AnnouncedSolutions |->
        [middle |-> (2 * t - 1) * config.solint, sol |-> sols[t]]]

\* Faulty variant: the chunk was of slots instead of intervals.
MutantNextChunkStart == step.chunkStart + config.chunk
NextChunkStart == step.chunkStart + config.solint * config.chunk

\* A slot that is flagged, also by the UVW flagger, leaves its place in the
\* matrices empty.  The flags of the UVW flagger stay in the buffer.
GainProcess ==
    \E flagged, uvwflagged \in BOOLEAN :
        LET b == [slot |-> fed, flagged |-> flagged \/ uvwflagged, sol |-> 0]
            buf == Append(step.buf, b)
            vis == Append(step.vis, IF b.flagged THEN -1 ELSE fed)
            full == Len(vis) = config.solint
            sols == IF full THEN Calibrated(vis) ELSE step.sols
            made == step.made + IF full THEN 1 ELSE 0
            inUpdate == step.inUpdate + IF full THEN 1 ELSE 0
            write == ~config.h5 /\ inUpdate = config.chunk
        IN  /\ Processed([step EXCEPT
                  !.buf = IF config.apply /\ ~full THEN buf ELSE <<>>,
                  !.vis = IF full THEN <<>> ELSE vis,
                  !.sols = IF write THEN <<>> ELSE sols,
                  !.made = made,
                  !.inUpdate = IF write THEN 0 ELSE inUpdate,
                  !.chunkStart = IF write THEN NextChunkStart ELSE @,
                  !.written = IF write THEN @ \o ParmDBSolutions(sols) ELSE @,
                  !.input = Append(@, [flagged |-> flagged, used |-> ~b.flagged])])
            /\ Send(IF ~config.apply THEN <<b>> ELSE IF full THEN Applied(buf, made) ELSE <<>>)

\* What finish() writes; the H5Parm asserts that all announced solutions are there.
LastRows(sols) ==
    IF sols = <<>> THEN <<>> ELSE IF config.h5 THEN H5Rows(sols) ELSE ParmDBSolutions(sols)

GainFinish ==
    /\ ~finished /\ ~step.failed
    /\ LET partial == step.vis # <<>>
           sols == IF partial THEN Calibrated(step.vis) ELSE step.sols
           made == step.made + IF partial THEN 1 ELSE 0
           fails == config.h5 /\ sols # <<>> /\ Len(sols) # AnnouncedSolutions
       IN  /\ Send(IF partial /\ config.apply THEN Applied(step.buf, made) ELSE <<>>)
           /\ IF fails
              THEN step' = [step EXCEPT !.failed = TRUE] /\ UNCHANGED <<config, fed, finished>>
              ELSE Ended([step EXCEPT !.made = made, !.sols = sols, !.written = @ \o LastRows(sols)])

GainNext == (~step.failed /\ GainProcess) \/ GainFinish

GainSpec == GainInit /\ [][GainNext]_calls

-----------------------------------------------------------------------------
IntervalOf(slot) == slot \div config.solint + 1
SolutionsFor(n) == (n + config.solint - 1) \div config.solint

PromisedSolution(k) ==
    LET first == (k - 1) * config.solint
    IN  [number |-> k, start |-> IF config.propagate THEN k - 1 ELSE 0,
         vis |-> [i \in 1 .. Least(config.solint, fed - first) |->
                     IF step.input[first + i].used THEN first + i - 1 ELSE -1]]

PromisedRow(k) ==
    IF config.h5 THEN [middle |-> (2 * k - 1) * config.solint, sol |-> PromisedSolution(k)]
    ELSE [low |-> (k - 1) * config.solint, high |-> Least(k * config.solint, config.ntime),
          sol |-> PromisedSolution(k)]

(* What is written has for each interval of the observation its own time and *)
(* the solution of its own unflagged slots, none twice and in the end none   *)
(* missing, whatever the size of the chunks; and every slot leaves once, in  *)
(* order, after the solution of its own interval was applied to it           *)
(* (GainCal.cc:457).                                                         *)
SolutionsAreOfTheirTime ==
    /\ \A k \in 1 .. Len(step.written) : step.written[k] = PromisedRow(k)
    /\ finished => Len(step.written) = SolutionsFor(fed)
    /\ step.failed => fed < config.ntime
    /\ \A i \in 1 .. Len(sent) :
        sent[i].slot = i - 1 /\ (config.apply => sent[i].sol = IntervalOf(i - 1))
    /\ finished \/ ~config.apply => Len(sent) = fed

-----------------------------------------------------------------------------
Cells == 1 .. NCells
Stations == 1 .. NStations

\* getAverageUnflaggedSolution: of those that are numbers.
AverageUnflaggedSolution(g) ==
    IF \E st \in Stations : g[st] = "value" THEN "value" ELSE "zero"

\* init(): from unity, or from the last solution, of which NaNs are replaced;
\* the average is computed for the first station that may need it.
StartingGains(g, flagged) ==
    LET asks == {st \in Stations \ flagged : g[st] = "nan"}
    IN  IF ~config.propagate \/ (asks # {} /\ AverageUnflaggedSolution(g) = "zero")
        THEN [st \in Stations |-> "value"]
        ELSE [st \in Stations |-> IF g[st] # "nan" THEN g[st]
                                  ELSE IF \E a \in asks : a <= st THEN "value" ELSE "zero"]

\* Faulty variant: flags are kept, as the solutions are.
MutantClearStationFlagged(c) == c.flagged

\* Called when the first time slot of an interval arrives.
ClearStationFlagged(c) == {}

StartedCell(c, unused) ==
    [g |-> StartingGains(c.g, ClearStationFlagged(c)), unused |-> unused,
     flagged |-> ClearStationFlagged(c), status |-> "NOTCONVERGED", trend |-> "better",
     bad |-> 0, very_bad |-> 0]

GainsInit ==
    /\ config \in [propagate : BOOLEAN, detect_stalling : BOOLEAN]
    /\ step = [pc |-> "idle", interval |-> 0, iter |-> 0, cell |-> 1, all |-> TRUE,
                cells |-> [c \in Cells |-> [g |-> [st \in Stations |-> "value"],
                                            flagged |-> {}]],
                settled |-> {}]

\* calibrate() starts; some stations have no visibilities in the interval.
Calibrate ==
    /\ step.pc = "idle" /\ step.interval < NSolutions
    /\ \E unused \in [Cells -> SUBSET Stations] :
        step' = [step EXCEPT
            !.pc = "iterate", !.interval = @ + 1, !.iter = 0, !.settled = {},
            !.cells = [c \in Cells |-> StartedCell(step.cells[c], unused[c])]]
    /\ UNCHANGED <<config, fed, sent, finished>>

\* Is all that a sweep sums for the station zero?
IsZero(c, st) ==
    st \in c.unused \/ \A o \in Stations \ ({st} \cup c.unused) : c.g[o] = "zero"

\* doStep_polarized and doStep_unpolarized: each gain from all the others; a
\* NaN among those is a NaN in all sums.
Swept(c) ==
    LET zero == {st \in Stations \ c.flagged : IsZero(c, st)}
    IN  [c EXCEPT
            !.flagged = @ \cup zero,
            !.g = [st \in Stations |->
                      IF st \in c.flagged THEN c.g[st]
                      ELSE IF \E o \in Stations : c.g[o] = "nan" THEN "nan"
                      ELSE IF st \in zero THEN "zero" ELSE "value"]]

\* relax(), the counts of iterations without improvement.
Judged(c, iter) ==
    IF ~(config.detect_stalling /\ iter > 3) THEN c
    ELSE CASE c.trend = "little" -> [c EXCEPT !.bad = @ + 1]
           [] c.trend = "worse" -> [c EXCEPT !.very_bad = @ + 1]
           [] c.trend = "better" -> [c EXCEPT !.bad = 0]

HasStalled(c) == c.bad >= 3 \/ c.very_bad > 3

\* relax(), after that: the norms are updated, and gains are mixed with those
\* before, which may be zero or not for a station that was flagged in between.
Relaxed(c, converged, trend, mixed) ==
    IF HasStalled(c) THEN [c EXCEPT !.status = "STALLED", !.bad = 3, !.very_bad = 0]
    ELSE IF converged THEN [c EXCEPT !.status = "CONVERGED", !.trend = "better", !.bad = 0, !.very_bad = 0]
    ELSE [c EXCEPT
            !.status = "NOTCONVERGED",
            !.trend = trend,
            !.g = [st \in Stations |-> IF st \in c.flagged /\ c.g[st] = "zero" THEN mixed
                                       ELSE c.g[st]]]

\* doStep(): two sweeps, but for a cell that is done or has no stations left.
Stepped(c, iter, converged, trend, mixed) ==
    CASE c.status = "CONVERGED" -> c
      [] c.status # "CONVERGED" /\ c.flagged = Stations -> [c EXCEPT !.status = "CONVERGED"]
      [] OTHER -> Relaxed(Judged(Swept(Swept(c)), 2 * iter), converged, trend, mixed)

\* One cell in the parallel loop.
DoStep ==
    /\ step.pc = "iterate" /\ step.cell <= NCells
    /\ UNCHANGED <<config, fed, sent, finished>>
    /\ \E converged \in BOOLEAN, trend \in {"little", "worse", "better"},
          mixed \in {"zero", "value"} :
            /\ converged => trend = "better" /\ mixed = "zero"
            /\ LET next == Stepped(step.cells[step.cell], step.iter, converged, trend, mixed)
               IN  step' = [step EXCEPT
                        !.cells[step.cell] = next,
                        !.cell = @ + 1,
                        !.settled = IF next.status = "NOTCONVERGED" THEN @
                                    ELSE @ \cup {step.cell},
                        !.all = @ /\ next.status # "NOTCONVERGED"]

EndIteration ==
    /\ step.pc = "iterate" /\ step.cell > NCells
    /\ step' = [step EXCEPT
          !.iter = IF step.all THEN @ ELSE @ + 1,
          !.cell = 1,
          !.all = TRUE,
          !.pc = IF step.all \/ step.iter + 1 = MaxIter THEN "end" ELSE "iterate"]
    /\ UNCHANGED <<config, fed, sent, finished>>

\* getSolution(true): stations that are flagged get NaN.
Solution(c) == [st \in Stations |-> IF st \in c.flagged THEN "nan" ELSE c.g[st]]

EndCalibrate ==
    /\ step.pc = "end"
    /\ step' = [step EXCEPT
          !.pc = "idle", !.iter = 0, !.settled = {},
          !.cells = [c \in Cells |-> [g |-> Solution(step.cells[c]),
                                      flagged |-> step.cells[c].flagged,
                                      unused |-> step.cells[c].unused]]]
    /\ UNCHANGED <<config, fed, sent, finished>>

GainsNext == Calibrate \/ DoStep \/ EndIteration \/ EndCalibrate

GainsSpec == GainsInit /\ [][GainsNext]_calls

-----------------------------------------------------------------------------
(* The NaNs that mark flagged stations in a solution never spread: in the    *)
(* next interval, which may start from that solution, each station with      *)
(* visibilities to another station gets a solution again, and only the       *)
(* others get a NaN (GainCalAlgorithm.cc:127).                               *)
Solvable(c, st) == st \notin c.unused /\ \E o \in Stations \ {st} : o \notin c.unused

NaNsAreNotPropagated ==
    step.pc = "idle" /\ step.interval > 0 =>
        \A c \in Cells, st \in Stations :
            Solvable(step.cells[c], st) => step.cells[c].g[st] = "value"

(* A cell that stalled or converged stays so, however often it is stepped     *)
(* again, and iterations end early only when no cell can improve             *)
(* (GainCal.cc:630).                                                         *)
CellsSettle ==
    /\ \A c \in step.settled : step.cells[c].status # "NOTCONVERGED"
    /\ step.pc = "end" /\ step.iter < MaxIter => step.settled = Cells
=============================================================================
