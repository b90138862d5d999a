---------------------------- MODULE RegularSteps ----------------------------
(***************************************************************************)
(* The steps for regular data that keep slots, or solutions of slots,      *)
(* between calls: the flaggers with windows, upsampler and averager,       *)
(* OneApplyCal, DDECal, GainCal, the iterations of the solvers of the two, *)
(* and Demixer.  kind is the step that runs, config and step are its       *)
(* settings and members.  What each promises is stated as one property for *)
(* each kind of promise.                                                   *)
(***************************************************************************)
EXTENDS WindowFlaggers, TimeResampling, OneApplyCal, DDECal, GainCal, Demixer

CONSTANTS
    MaxIterations, MaxApproxIterations, NIntervals  \* those of SolverLoop

VARIABLE kind

vars == <<kind, calls>>

\* The loop of a solver runs by itself here, as do the cells of GainCalAlgorithm.
Loop == INSTANCE SolverLoop WITH settings <- config, solve <- step

NoCalls == fed = 0 /\ sent = <<>> /\ finished = FALSE

Init ==
    \/ kind = "medflagger" /\ MedInit
    \/ kind = "aoflagger" /\ AOInit
    \/ kind = "upsample" /\ UpInit
    \/ kind = "averager" /\ AvgInit
    \/ kind = "applycal" /\ ApplyInit
    \/ kind = "ddecal" /\ CalInit
    \/ kind = "gaincal" /\ GainInit
    \/ kind = "demixer" /\ DemixInit
    \/ kind = "cells" /\ GainsInit /\ NoCalls
    \/ kind = "solver" /\ Loop!LoopInit /\ NoCalls

Next ==
    /\ UNCHANGED kind
    /\ \/ kind = "medflagger" /\ MedNext
       \/ kind = "aoflagger" /\ AONext
       \/ kind = "upsample" /\ UpNext
       \/ kind = "averager" /\ AvgNext
       \/ kind = "applycal" /\ ApplyNext
       \/ kind = "ddecal" /\ CalNext
       \/ kind = "gaincal" /\ GainNext
       \/ kind = "demixer" /\ DemixNext
       \/ kind = "cells" /\ GainsNext
       \/ kind = "solver" /\ Loop!LoopNext /\ UNCHANGED <<fed, sent, finished>>

Spec == Init /\ [][Next]_vars

-----------------------------------------------------------------------------
(* MedFlagger and AOFlaggerStep: a slot is flagged by the median of the      *)
(* slots in its window, or once with the overlap of its window, and sent     *)
(* once (MedFlagger.cc:155, AOFlaggerStep.cc:343).  Averager: a slot is in   *)
(* the average of its time only, also in a last one of fewer slots           *)
(* (Averager.cc:157).                                                        *)
SlotsMeetTheirWindow ==
    /\ kind = "medflagger" => SlotsAreJudgedByTheirWindow
    /\ kind = "aoflagger" => SlotsAreFlaggedWithOverlap
    /\ kind = "averager" => AveragesAreOfTheirTime

(* Upsample: every upsampled time is sent once and in order, whatever the    *)
(* times of the input, and with data if an input slot has it                 *)
(* (Upsample.cc:107).                                                        *)
UpsampledTimesAreRight == kind = "upsample" => EveryTimeOnce

(* DDECal and GainCal: each slot meets the solutions and the model of its    *)
(* own interval; solutions and the times that are written with them belong   *)
(* together.  OneApplyCal: a slot is corrected with the parameters of its    *)
(* own time (DDECal.cc:715, GainCal.cc:457, OneApplyCal.cc:350).  Demixer:   *)
(* from an averaged slot the sources are removed with the solution and the   *)
(* factors of its interval (Demixer.cc:500).                                 *)
SolutionsMeetTheirInterval ==
    /\ kind = "applycal" => ParametersAreOfTheirTime
    /\ kind = "ddecal" => SlotsMeetTheirInterval
    /\ kind = "gaincal" => SolutionsAreOfTheirTime
    /\ kind = "demixer" => SourcesAreRemovedInTime

(* The solvers: a solution that converged met its constraints exactly, and   *)
(* the iterations that are reported tell what converged (SolverBase.cc:116). *)
(* GainCalAlgorithm: a flagged station does not spoil the next interval, and *)
(* a frequency cell that is done stays done (GainCalAlgorithm.cc:127).       *)
SolutionsAreExact ==
    /\ kind = "solver" => Loop!SolutionsAreExact /\ Loop!IterationsTellConvergence
    /\ kind = "cells" => NaNsAreNotPropagated /\ CellsSettle
=============================================================================
