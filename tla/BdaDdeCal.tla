----------------------------- MODULE BdaDdeCal -----------------------------
(***************************************************************************)
(* dp3::steps::BdaDdeCal: direction-dependent calibration of BDA data.     *)
(* Every input buffer is given to one predict step per direction; a step   *)
(* may hold buffers back and return them with a later call.  When all      *)
(* directions of the oldest input buffer are predicted, the buffer enters  *)
(* the solver buffer; complete solution intervals are solved and the       *)
(* buffers that become free go to the next step.                           *)
(*                                                                         *)
(* process() and finish() run to their end before the next call; pc says   *)
(* how far the running call is.  A predict step is modelled by what        *)
(* BdaDdeCal relies on: it returns its buffers in order, all of them when  *)
(* its finish() was called.  BdaPredict and BdaGroupPredict model them.    *)
(***************************************************************************)
EXTENDS BdaSolverBuffer

CONSTANTS
    Directions,  \* settings_.directions
    None         \* an empty std::unique_ptr<BDABuffer>

ASSUME DirectionsAssumption == Directions # {}
ASSUME NoneAssumption == None \notin InputBuffers

VARIABLES
    only_predict,   \* settings_.only_predict
    pc,             \* the loop that the current process() or finish() is in
    finishing,      \* was finish() called?
    fed,            \* history: the buffers given to process()
    read,           \* history: per baseline, the end of the last row in fed
    inside,         \* per direction, the buffers its predict step holds back
    input_buffers,  \* input_buffers_
    model_buffers,  \* model_buffers_: per input buffer, a buffer per direction
    solutions,      \* solutions_: per solved interval, the rows it was solved from
    forwarded       \* the buffers given to the next step

calVars == <<only_predict, pc, finishing, fed, read, inside, input_buffers, model_buffers,
             solutions, forwarded>>
vars == <<bufVars, calVars>>

inputVars == <<only_predict, fed, read, inside>>
queueVars == <<input_buffers, model_buffers>>

CalInit ==
    /\ Init
    /\ only_predict \in BOOLEAN
    /\ pc = "idle"
    /\ finishing = FALSE
    /\ fed = <<>>
    /\ read = [b \in Baselines |-> 0]
    /\ inside = [d \in Directions |-> <<>>]
    /\ input_buffers = <<>>
    /\ model_buffers = <<>>
    /\ solutions = <<>>
    /\ forwarded = <<>>

-----------------------------------------------------------------------------
(***************************************************************************)
(* ExtractResults: out[d] are the buffers that the predict step of         *)
(* direction d returned; they go to the first places free for d.           *)
(***************************************************************************)
MutantFirstFree(d) == Len(model_buffers) + 1

FirstFree(d) ==
    CHOOSE i \in 1 .. (Len(model_buffers) + 1) :
        /\ \A j \in 1 .. (i - 1) : model_buffers[j][d] # None
        /\ i <= Len(model_buffers) => model_buffers[i][d] = None

Extracted(out) ==
    LET ends == {FirstFree(d) + Len(out[d]) - 1 : d \in Directions} \cup {Len(model_buffers)}
        size == CHOOSE n \in ends : \A m \in ends : m <= n
        At(i, d) ==
            IF i \in FirstFree(d) .. (FirstFree(d) + Len(out[d]) - 1)
            THEN out[d][i - FirstFree(d) + 1]
            ELSE IF i <= Len(model_buffers) THEN model_buffers[i][d] ELSE None
    IN  [i \in 1 .. size |-> [d \in Directions |-> At(i, d)]]

ReadAfter(rows) ==
    [b \in Baselines |-> IF b \in BaselinesOf(rows) THEN EndOf(LastRow(rows, b))
                                                    ELSE read[b]]

(***************************************************************************)
(* process(): feed the predict steps, store the buffer, extract results.   *)
(***************************************************************************)
Process(rows) ==
    LET held == [d \in Directions |-> Append(inside[d], rows)]
    IN  /\ pc = "idle" /\ status = "ok"
        /\ \E n \in [Directions -> 0 .. (Len(fed) + 1)] :
              /\ \A d \in Directions : n[d] <= Len(held[d])
              /\ inside' = [d \in Directions |-> SubSeq(held[d], n[d] + 1, Len(held[d]))]
              /\ model_buffers' = Extracted([d \in Directions |-> SubSeq(held[d], 1, n[d])])
        /\ input_buffers' = Append(input_buffers, rows)
        /\ fed' = Append(fed, rows)
        /\ read' = ReadAfter(rows)
        /\ pc' = "append"
        /\ UNCHANGED <<bufVars, only_predict, finishing, solutions, forwarded>>

(***************************************************************************)
(* ProcessCompleteDirections: its three loops.                             *)
(***************************************************************************)
FrontIsPredicted ==
    model_buffers # <<>> /\ \A d \in Directions : Head(model_buffers)[d] # None

AppendFront ==
    /\ pc = "append" /\ FrontIsPredicted
    /\ input_buffers # <<>>
    /\ IF only_predict
       THEN /\ forwarded' = Append(forwarded, Head(input_buffers))
            /\ UNCHANGED bufVars
       ELSE /\ AppendAndWeight(Head(input_buffers))
            /\ UNCHANGED forwarded
    /\ input_buffers' = Tail(input_buffers)
    /\ model_buffers' = Tail(model_buffers)
    /\ UNCHANGED <<inputVars, pc, finishing, solutions>>

AppendEnds ==
    /\ pc = "append" /\ ~FrontIsPredicted
    /\ pc' = IF ~only_predict THEN "solve" ELSE IF finishing THEN "close" ELSE "idle"
    /\ UNCHANGED <<bufVars, inputVars, finishing, queueVars, solutions, forwarded>>

SolveCurrentInterval == solutions' = Append(solutions, data_rows[1])

SolveComplete ==
    /\ pc = "solve" /\ IntervalIsComplete
    /\ SolveCurrentInterval
    /\ AdvanceInterval
    /\ UNCHANGED <<inputVars, pc, finishing, queueVars, forwarded>>

SolveEnds ==
    /\ pc = "solve" /\ ~IntervalIsComplete
    /\ pc' = "forward"
    /\ UNCHANGED <<bufVars, inputVars, finishing, queueVars, solutions, forwarded>>

ForwardDone ==
    /\ pc = "forward"
    /\ forwarded' = forwarded \o done
    /\ GetDone
    /\ pc' = IF finishing THEN "drain" ELSE "idle"
    /\ UNCHANGED <<inputVars, finishing, queueVars, solutions>>

(***************************************************************************)
(* finish(): flush the predict steps, process what they return, then solve *)
(* the remaining intervals, complete or not, and close the next step.      *)
(***************************************************************************)
MutantFinish ==
    /\ pc = "idle" /\ status = "ok"
    /\ finishing' = TRUE
    /\ pc' = "append"
    /\ UNCHANGED <<bufVars, inputVars, queueVars, solutions, forwarded>>

Finish ==
    /\ pc = "idle" /\ status = "ok"
    /\ finishing' = TRUE
    /\ inside' = [d \in Directions |-> <<>>]
    /\ model_buffers' = Extracted(inside)
    /\ pc' = "append"
    /\ UNCHANGED <<bufVars, only_predict, fed, read, input_buffers, solutions, forwarded>>

BuffersRemain == data # <<>>

\* Drains only complete intervals, as process() does.
MutantSolveRemaining ==
    /\ pc = "drain" /\ BuffersRemain /\ IntervalIsComplete
    /\ SolveCurrentInterval
    /\ AdvanceInterval
    /\ UNCHANGED <<inputVars, pc, finishing, queueVars, forwarded>>

SolveRemaining ==
    /\ pc = "drain" /\ BuffersRemain
    /\ SolveCurrentInterval
    /\ AdvanceInterval
    /\ UNCHANGED <<inputVars, pc, finishing, queueVars, forwarded>>

MutantForwardRemaining ==
    /\ pc = "drain" /\ ~BuffersRemain
    /\ GetDone
    /\ pc' = "close"
    /\ UNCHANGED <<inputVars, finishing, queueVars, solutions, forwarded>>

ForwardRemaining ==
    /\ pc = "drain" /\ ~BuffersRemain
    /\ forwarded' = forwarded \o done
    /\ GetDone
    /\ pc' = "close"
    /\ UNCHANGED <<inputVars, finishing, queueVars, solutions>>

FinishNextStep ==
    /\ pc = "close"
    /\ pc' = "finished"
    /\ UNCHANGED <<bufVars, inputVars, finishing, queueVars, solutions, forwarded>>

CalNext ==
    \/ \E rows \in InputBuffers : RowsInOrder(rows, read) /\ Process(rows)
    \/ AppendFront \/ AppendEnds \/ SolveComplete \/ SolveEnds \/ ForwardDone
    \/ Finish \/ SolveRemaining \/ ForwardRemaining \/ FinishNextStep

\* DP3::execute calls process() until the input ends, then finish(); every
\* call returns.
CalSpec == CalInit /\ [][CalNext]_vars /\ WF_vars(CalNext)

-----------------------------------------------------------------------------
AllRows(bufs) == UNION {Rng(bufs[i]) : i \in DOMAIN bufs}

CalTypeOK ==
    /\ TypeOK
    /\ only_predict \in BOOLEAN
    /\ pc \in {"idle", "append", "solve", "forward", "drain", "close", "finished"}
    /\ finishing \in BOOLEAN
    /\ {fed, input_buffers, forwarded} \subseteq Seq(Seq(Row))
    /\ read \in [Baselines -> Nat]
    /\ inside \in [Directions -> Seq(Seq(Row))]
    /\ model_buffers \in Seq([Directions -> Seq(Row) \cup {None}])
    /\ solutions \in Seq(SUBSET Row)

\* NothingIsLost: every input buffer is, once and in order, at the next step,
\* in done_, in data_ or in input_buffers_.
NothingIsLost == forwarded \o done \o data \o input_buffers = fed

\* ModelMatchesData: the predicted buffers stand next to the input buffer that
\* they were predicted for, whatever the delays of the directions (the
\* IsMetadataEqual assertion of ProcessCompleteDirections).
ModelMatchesData ==
    \A i \in DOMAIN model_buffers : \A d \in Directions :
        model_buffers[i][d] # None => /\ i <= Len(input_buffers)
                                      /\ model_buffers[i][d] = input_buffers[i]

\* IntervalsAreWhole: a solve uses every row of its interval, the rows that
\* arrive after it included: there are none.  So a row is used by one solve.
IntervalsAreWhole ==
    \A k \in DOMAIN solutions :
        solutions[k] = {r \in AllRows(fed) : CentreInterval(r) = k - 1}

\* ForwardedIsSolved: the next step gets a row only after the solve (and the
\* subtraction of the model) of its interval.
ForwardedIsSolved ==
    ~only_predict =>
        \A r \in AllRows(forwarded) : CentreInterval(r) < Len(solutions)

\* BdaDdeCal is a step that forwards each buffer once and in order.
Stream == INSTANCE StepStream WITH
    Item <- InputBuffers, input <- fed, output <- forwarded, finished <- (pc = "finished")
ImplementsStream == Stream!Spec

\* finish() ends: every interval that holds a buffer is solved and left.
Terminates == <>(pc = "finished")
=============================================================================
