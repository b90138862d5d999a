------------------------------- MODULE DDECal -------------------------------
(***************************************************************************)
(* Direction-dependent calibration of regular data (steps/DDECal.cc) with  *)
(* its buffers (base/SolutionInterval.cc, SolverBuffer.cc).  Time slots    *)
(* are collected in solution intervals, of which a batch is solved when    *)
(* the predictions of all its slots are there.  Of two directions, the     *)
(* first may be predicted by IDGPredict, which buffers; only then a batch  *)
(* has more than one interval.  A visibility is its slot; a slot is        *)
(* flagged as a whole.  A solution is what it was solved from.             *)
(***************************************************************************)
EXTENDS StepCalls, FiniteSets

CONSTANTS
    SolInts,       \* itsRequestedSolInt
    SolIntCounts,  \* itsSolIntCount with IDGPredict
    MinVisRatios,  \* setting minvisratio, in percent
    Modes          \* settings subtract, onlypredict, propagatesolutions, propagateconvergedonly

Directions == {1, 2}

CalInit ==
    \E n \in 1 .. MaxSlots, s \in SolInts, idg \in BOOLEAN, c \in SolIntCounts,
       mode \in Modes, r \in MinVisRatios :
        /\ ~idg => c = 1
        /\ Start([ntime |-> n, solint |-> IF s = 0 THEN n ELSE s, count |-> c, idg |-> idg,
                  mode |-> mode, minvis |-> r],
                 [pc |-> "process", intervals |-> <<>>, buffered |-> 0, nsolints |-> 0,
                  waiting |-> <<>>, results |-> [d \in Directions |-> <<>>], at |-> 1,
                  vis |-> [used |-> 0, total |-> 0], sols |-> <<>>, input |-> <<>>])

\* What a place of a SolutionInterval holds; flagged and weight change while it waits.
Buffer(slot, flagged) ==
    [slot |-> slot, flagged |-> flagged, weight |-> 1, original |-> flagged, minus |-> <<>>]

\* A new interval when there is none or the last one is full.
Opened ==
    LET all == step.intervals
    IN  IF all = <<>> \/ Len(all[Len(all)].buffers) = config.solint
        THEN Append(all, [n_solution |-> step.nsolints, buffers |-> <<>>])
        ELSE all

\* doPrepare(): UVW flags, predictions, counts, and no weight for what is flagged.
Prepared(b, uvwflagged) ==
    LET flagged == b.flagged \/ uvwflagged
    IN  [b EXCEPT !.flagged = flagged, !.weight = IF flagged THEN 0 ELSE 1]

Counted(b) ==
    [used |-> step.vis.used + IF b.flagged THEN 0 ELSE 1, total |-> step.vis.total + 1]

Predicted(slot) ==
    [d \in Directions |->
        IF d = 1 /\ config.idg THEN step.results[d] ELSE Append(step.results[d], slot)]

IsFull(buffers) == Len(buffers) = config.solint

\* The slot is put into the interval with index itsBufferedSolInts, but
\* prepared at the place of the last one.
Process ==
    /\ step.pc = "process"
    /\ \E flagged, uvwflagged \in BOOLEAN :
        LET opened == Opened
            last == Len(opened)
            current == Len(opened[last].buffers) + 1
            pushed == [opened EXCEPT ![step.buffered + 1].buffers = Append(@, Buffer(fed, flagged))]
            b == Prepared(pushed[last].buffers[current], uvwflagged)
            full == IsFull(pushed[last].buffers)
            buffered == step.buffered + IF full THEN 1 ELSE 0
        IN  Processed([step EXCEPT
                !.intervals = [pushed EXCEPT ![last].buffers[current] = b],
                !.vis = Counted(b),
                !.results = Predicted(fed),
                !.waiting = IF config.idg THEN Append(@, fed) ELSE @,
                !.buffered = buffered,
                !.nsolints = @ + IF full THEN 1 ELSE 0,
                !.input = Append(@, [flagged |-> flagged, used |-> ~(flagged \/ uvwflagged)]),
                !.pc = IF buffered = config.count THEN "flush" ELSE "process"])
    /\ UNCHANGED sent

Skip == UNCHANGED <<config, fed, finished>>

\* doSolve() starts: IDGPredict hands over what it has.
FlushPredictions ==
    /\ step.pc \in {"flush", "flushlast"}
    /\ step' = [step EXCEPT !.results[1] = @ \o step.waiting, !.waiting = <<>>, !.at = 1,
                            !.pc = IF @ = "flush" THEN "solve" ELSE "solvelast"]
    /\ UNCHANGED sent /\ Skip

\* Faulty variant: every interval of the batch takes the predictions of the first.
MutantModelOf(k, t) == [d \in Directions |-> step.results[d][t]]
\* The predictions of slot t of interval k; the results are a list over the batch.
ModelOf(k, t) == [d \in Directions |-> step.results[d][(k - 1) * config.solint + t]]

\* SolverBuffer::AssignAndWeight: data and models with the weights they have now.
Weighted(k) ==
    [t \in 1 .. Len(step.intervals[k].buffers) |->
        [slot |-> step.intervals[k].buffers[t].slot,
         weight |-> step.intervals[k].buffers[t].weight, model |-> ModelOf(k, t)]]

\* The interval whose solutions this one starts with; itself for unity.
StartsWith(n) ==
    IF n > 0 /\ config.mode.propagate /\ (config.mode.converged_only => step.sols[n].converged) THEN n - 1 ELSE n

\* flagChannelBlock() when too few visibilities of the batch are not flagged.
WithMinimumVisibilities(buffers) ==
    IF 100 * step.vis.used < config.minvis * step.vis.total
    THEN [t \in 1 .. Len(buffers) |-> [buffers[t] EXCEPT !.weight = 0]] ELSE buffers

\* subtractCorrectedModel(): the data minus, or only, the model with the solution.
Subtracted(k, buffers) ==
    [t \in 1 .. Len(buffers) |->
        IF config.mode.subtract \/ config.mode.only_predict
        THEN [buffers[t] EXCEPT !.minus =
                 <<ModelOf(k, t), IF config.mode.only_predict THEN -1 ELSE step.intervals[k].n_solution>>]
        ELSE buffers[t]]

SolveInterval ==
    /\ step.pc \in {"solve", "solvelast"}
    /\ step.at <= Len(step.intervals)
    /\ \E converged \in (IF config.mode.propagate THEN BOOLEAN ELSE {TRUE}) :
        LET k == step.at
            n == step.intervals[k].n_solution
            solution == [data |-> Weighted(k), start |-> StartsWith(n), converged |-> converged]
            buffers == step.intervals[k].buffers
            flagged == IF config.mode.only_predict THEN buffers ELSE WithMinimumVisibilities(buffers)
        IN  step' = [step EXCEPT
                        !.at = k + 1,
                        !.intervals[k].buffers = Subtracted(k, flagged),
                        !.sols = IF config.mode.only_predict THEN @
                                 ELSE [i \in DOMAIN @ \cup {n + 1} |->
                                          IF i = n + 1 THEN solution ELSE @[i]]]
    /\ UNCHANGED sent /\ Skip

\* All intervals of the batch are solved.
EndSolve ==
    /\ step.pc \in {"solve", "solvelast"}
    /\ step.at > Len(step.intervals)
    /\ step' = [step EXCEPT !.at = 1, !.pc = IF @ = "solve" THEN "send" ELSE "sendlast"]
    /\ UNCHANGED sent /\ Skip

\* RestoreFlagsAndWeights() and the next step's process().
Restored(b) == [slot |-> b.slot, flagged |-> b.original, weight |-> 1, minus |-> b.minus]

SendInterval ==
    /\ step.pc \in {"send", "sendlast"}
    /\ step.at <= Len(step.intervals)
    /\ LET buffers == step.intervals[step.at].buffers
       IN  Send([t \in 1 .. Len(buffers) |-> Restored(buffers[t])])
    /\ step' = [step EXCEPT !.at = @ + 1]
    /\ Skip

\* doSolve() ended in process(), which clears everything for the next batch.
NextBatch ==
    /\ step.pc = "send" /\ step.at > Len(step.intervals)
    /\ step' = [step EXCEPT !.pc = "process", !.intervals = <<>>, !.buffered = 0,
                            !.results = [d \in Directions |-> <<>>],
                            !.vis = [used |-> 0, total |-> 0]]
    /\ UNCHANGED sent /\ Skip

\* finish() solves what is left, be it a whole batch or not.
Finish ==
    /\ step.pc = "process" /\ ~finished
    /\ step' = [step EXCEPT !.pc = IF step.intervals = <<>> THEN "finish" ELSE "flushlast"]
    /\ UNCHANGED sent /\ Skip

ClearLast ==
    /\ step.pc = "sendlast" /\ step.at > Len(step.intervals)
    /\ step' = [step EXCEPT !.pc = "finish", !.intervals = <<>>]
    /\ UNCHANGED sent /\ Skip

FinishNextStep ==
    /\ step.pc = "finish"
    /\ Ended(step)
    /\ UNCHANGED sent

CalNext ==
    \/ Process \/ FlushPredictions \/ SolveInterval \/ EndSolve \/ SendInterval \/ NextBatch
    \/ Finish \/ ClearLast \/ FinishNextStep

CalSpec == CalInit /\ [][CalNext]_calls

-----------------------------------------------------------------------------
SlotsOf(n) == {s \in n * config.solint .. (n + 1) * config.solint - 1 : s < fed}

PromisedSlot(s) ==
    [slot |-> s, flagged |-> step.input[s + 1].flagged, weight |-> 1,
     minus |-> IF config.mode.subtract \/ config.mode.only_predict
               THEN <<[d \in Directions |-> s],
                      IF config.mode.only_predict THEN -1 ELSE s \div config.solint>>
               ELSE <<>>]

PromisedData(n) ==
    [t \in 1 .. Cardinality(SlotsOf(n)) |->
        LET s == n * config.solint + t - 1
        IN  [slot |-> s, weight |-> IF step.input[s + 1].used THEN 1 ELSE 0,
             model |-> [d \in Directions |-> s]]]

(* Solution n is solved once, from all slots of interval n and their models  *)
(* with the weights of the flagged ones zero; every slot leaves once and in  *)
(* order with its original flags and weights, minus its own models with the  *)
(* solution of its own interval.  So it is for batches of several intervals, *)
(* the partial one at the end, and predictions that come late (DDECal.cc:715).*)
SlotsMeetTheirInterval ==
    /\ Keeps([i \in 1 .. fed |-> PromisedSlot(i - 1)])
    /\ \A n \in DOMAIN step.sols : step.sols[n].data = PromisedData(n - 1)
    /\ finished /\ ~config.mode.only_predict =>
        DOMAIN step.sols = 1 .. (fed + config.solint - 1) \div config.solint

\* The visibilities of interval n that are not flagged are less than the setting allows.
HasFewVisibilities(n) ==
    100 * Cardinality({s \in SlotsOf(n) : step.input[s + 1].used})
        < config.minvis * Cardinality(SlotsOf(n))

(* "Intervals with fewer vis will be flagged" (docs/schemas/DDECal.yml:58):  *)
(* their visibilities take no part in the solution.                          *)
FewVisibilitiesAreFlagged ==
    \A n \in DOMAIN step.sols : HasFewVisibilities(n - 1) =>
        \A t \in DOMAIN step.sols[n].data : step.sols[n].data[t].weight = 0
=============================================================================
