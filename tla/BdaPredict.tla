----------------------------- MODULE BdaPredict -----------------------------
(***************************************************************************)
(* dp3::steps::Predict for BDA data: a BDAExpander, the prediction on      *)
(* regular buffers, and a BDAAverager that gets the averaging factors of   *)
(* the input, in one chain.  process() announces the size of the input     *)
(* buffer to the averager, so that the output gets the shape of the input. *)
(*                                                                         *)
(* BDAExpander::process calls the averager's process() for every slot that *)
(* it completes; the prediction itself changes no shape and is left out.   *)
(***************************************************************************)
EXTENDS BdaInput

CONSTANTS
    None,
    InputOf(_, _)   \* the input buffers for the given factors and row sizes

VARIABLES
    \* the averager's, besides factor and elements
    pool_size, fixed_sizes, bda_buffer, baseline_buffers, pc, bl, slot, sent, dropped,
    \* the expander's
    elements_by_slot, next_time_slot_to_process, calls, expanded, rows_read

avgVars == <<factor, elements, pool_size, fixed_sizes, bda_buffer, baseline_buffers, pc,
             bl, slot, sent, dropped>>
expVars == <<elements_by_slot, next_time_slot_to_process, calls, expanded, rows_read>>
vars == <<avgVars, expVars, input, fed>>

Averager == INSTANCE BdaAverager WITH Sizes <- Nat
Expander == INSTANCE BdaExpander WITH
    MaxLength <- MaxFactor, NoData <- None

ASSUME PredictAssumption ==
    None \notin Expander!Row \cup [cap : Int, free : Int, rows : Seq(Averager!Row)]

\* The input is buffers of rows, whatever the sizes and the order of the rows.
ASSUME InputAssumption ==
    \A f \in [Baselines -> 1 .. MaxFactor], e \in [Baselines -> 1 .. MaxElements] :
        InputOf(f, e) \in Seq(Seq(Expander!Row))

-----------------------------------------------------------------------------
(***************************************************************************)
(* updateInfo gives the averager the factors and channels of the input.    *)
(***************************************************************************)
Init ==
    /\ Averager!Init
    /\ Expander!Init
    /\ input = InputOf(factor, elements)
    /\ fed = 0

\* BDABuffer::GetNumberOfElements
NumberOfElements(rows) ==
    LET sum[i \in 0 .. Len(rows)] == IF i = 0 THEN 0 ELSE sum[i - 1] + elements[rows[i].bl]
    IN  sum[Len(rows)]

(***************************************************************************)
(* process(): set_next_desired_buffersize, then BDAExpander::process.      *)
(***************************************************************************)
Process ==
    /\ fed < Len(input)
    /\ fed' = fed + 1
    /\ Averager!SetNextDesiredBufferSize(NumberOfElements(input[fed + 1]))
    /\ Expander!Process(input[fed + 1])
    /\ UNCHANGED input

\* The expander sends a slot; BDAAverager::process starts.
SendSlot ==
    /\ Expander!SendNext
    /\ Averager!Process
    /\ UNCHANGED <<input, fed>>

Average ==
    /\ Averager!AddTime \/ Averager!EndProcess
    /\ UNCHANGED <<expVars, input, fed>>

EndProcess ==
    /\ pc = "idle"
    /\ Expander!EndProcess
    /\ UNCHANGED <<avgVars, input, fed>>

(***************************************************************************)
(* finish(): the expander's, which calls the averager's.                   *)
(***************************************************************************)
Finish ==
    /\ fed = Len(input)
    /\ Expander!Finish
    /\ Averager!Finish
    /\ UNCHANGED <<input, fed>>

Flush ==
    /\ Averager!FlushBaseline \/ Averager!EndFinish
    /\ UNCHANGED <<expVars, input, fed>>

Next == Process \/ SendSlot \/ Average \/ EndProcess \/ Finish \/ Flush

\* process() and finish() are called until the input ends, and return.
Spec == Init /\ [][Next]_vars /\ WF_vars(Next)
-----------------------------------------------------------------------------
Given == SubSeq(input, 1, fed)
Returned == [k \in DOMAIN sent |-> sent[k].rows]

\* SlotsAreTheirRows: the k-th regular buffer between expander and averager is
\* time slot k - 1, and each of its baselines has the data of the row that
\* covers that slot.
SlotsAreTheirRows == Expander!SlotsAreTheirRows

\* NothingReadyWaits: the expander holds a slot back only while a baseline of
\* it, or of an earlier slot, is missing.
NothingReadyWaits == Expander!NothingReadyWaits

\* EverySlotOnceInOrder: of every regular buffer that the averager gets, each
\* baseline is in one row, or still in its sum; rows come out as they end.
EverySlotOnceInOrder == Averager!EverySlotOnceInOrder

\* ShapesAreKept: "The BDABuffers from the sub-steps should have the same
\* shape": the k-th buffer returned has the rows of the k-th buffer given.
ShapesAreKept == \A k \in DOMAIN sent : k <= fed /\ Returned[k] = input[k]

\* Seen from its neighbours the step forwards every buffer once and in order.
Stream == INSTANCE StepStream WITH
    Item <- Seq(Averager!Row), input <- Given, output <- Returned,
    finished <- (pc = "finished")
ImplementsStream == Stream!Spec

\* EveryBufferReturns: the delay ends: BdaDdeCal waits for every buffer.
EveryBufferReturns == <>(pc = "finished" /\ Len(sent) = Len(input))
=============================================================================
