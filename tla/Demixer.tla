------------------------------ MODULE Demixer ------------------------------
(***************************************************************************)
(* Demixing of strong sources (steps/Demixer.cc).  The input is averaged   *)
(* twice: per direction for the solve, and for the output, from which the  *)
(* sources are subtracted.  A chunk of solve intervals is solved at once,  *)
(* in parallel, and each solution is subtracted from the outputs of its    *)
(* interval.  Of averages, factors and solutions, the time slots that they *)
(* were made of are kept; the directions are alike and one is modelled.    *)
(***************************************************************************)
EXTENDS StepCalls, FiniteSets

CONSTANTS
    DemixTimeSteps,   \* setting demixtimestep
    OutputTimeSteps,  \* setting timestep
    TimeChunks        \* setting ntimechunk

AtMost(a, b) == IF a < b THEN a ELSE b

Averaging(n) == [n |-> n, sum |-> {}, results |-> <<>>]

\* The constructor and updateInfo(), with what they refuse.
DemixInit ==
    \E n \in 1 .. MaxSlots, t \in DemixTimeSteps, o \in OutputTimeSteps, c \in TimeChunks,
       model, selection \in BOOLEAN :
        LET avg == AtMost(t, n)
            subtr == AtMost(o, n)
        IN  /\ (c * t) % o = 0
            /\ avg % subtr = 0
            /\ Start([ntime |-> n, avg |-> avg, subtr |-> subtr, chunk |-> c,
                      model |-> model, selection |-> selection],
                     [n_in |-> 0, n_out |-> 0, n_out_subtr |-> 0, time_index |-> 0,
                      demix |-> Averaging(avg), output |-> Averaging(subtr),
                      factor_buf |-> {}, factor_buf_subtr |-> {},
                      factors |-> <<>>, factors_subtr |-> <<>>, unknowns |-> <<>>])

\* Averager and MultiResultStep.
Averaged(a, slot) ==
    LET sum == a.sum \cup {slot}
    IN  IF Cardinality(sum) = a.n
        THEN [a EXCEPT !.sum = {}, !.results = Append(@, sum)]
        ELSE [a EXCEPT !.sum = sum]

FinishAverage(a) ==
    IF a.sum = {} THEN a ELSE [a EXCEPT !.sum = {}, !.results = Append(@, a.sum)]

ClearResults(a) == [a EXCEPT !.results = <<>>]

\* makeFactors(): summed phases over the summed weights of result number k.
Factors(buf, a, k) == [phases |-> buf, weights |-> a.results[k]]

MakeFactors(s) ==
    [s EXCEPT !.factors = Append(SubSeq(@, 1, s.n_out), Factors(s.factor_buf, s.demix, s.n_out + 1)),
              !.factor_buf = {},
              !.n_out = @ + 1]

\* The same, for the output.
MakeFactorsSubtr(s) ==
    [s EXCEPT !.factors_subtr = Append(SubSeq(@, 1, s.n_out_subtr),
                                       Factors(s.factor_buf_subtr, s.output, s.n_out_subtr + 1)),
              !.factor_buf_subtr = {},
              !.n_out_subtr = @ + 1]

\* estimate(): interval ts of the chunk.
Estimated(s, ts) == [of |-> s.demix.results[ts + 1], mix |-> s.factors[ts + 1]]

\* demix(), the residual of output k: what was subtracted from it.
Multiplier == config.avg \div config.subtr

Residual(s, k) ==
    {[solution |-> Estimated(s, ts), mix |-> s.factors_subtr[k + 1]] :
        ts \in {t \in 0 .. Len(s.demix.results) - 1 :
                    k \in Multiplier * t .. AtMost(Multiplier * (t + 1), Len(s.output.results)) - 1}}

Unknowns(s) ==
    LET solved == s.time_index .. s.time_index + Len(s.demix.results) - 1
    IN  [k \in DOMAIN s.unknowns \cup solved |->
            IF k \in solved THEN Estimated(s, k - s.time_index) ELSE s.unknowns[k]]

\* mergeSubtractResult(): without selection all baselines are selected.
Output(s, k) ==
    [of |-> s.output.results[k + 1],
     minus |-> IF config.model THEN Residual(s, k) ELSE {},
     deselected |-> IF config.selection THEN s.output.results[k + 1] ELSE {}]

\* Faulty variant: the counter of the outputs.
MutantNextTimeIndex(s) == s.time_index + s.n_out_subtr
NextTimeIndex(s) == s.time_index + config.chunk

HandledDemix(s) ==
    [s EXCEPT !.unknowns = IF config.model THEN Unknowns(s) ELSE @,
              !.demix = ClearResults(@), !.output = ClearResults(@),
              !.n_in = 0, !.n_out = 0, !.n_out_subtr = 0,
              !.time_index = NextTimeIndex(s)]

Outputs(s) == [k \in 1 .. s.n_out_subtr |-> Output(s, k - 1)]

Collected(slot) ==
    [step EXCEPT !.n_in = @ + 1,
                 !.demix = Averaged(@, slot), !.output = Averaged(@, slot),
                 !.factor_buf = @ \cup {slot}, !.factor_buf_subtr = @ \cup {slot}]

DemixProcess ==
    LET s1 == Collected(fed)
        s2 == IF s1.n_in % config.avg = 0 THEN MakeFactors(s1) ELSE s1
        s3 == IF s1.n_in % config.subtr = 0 THEN MakeFactorsSubtr(s2) ELSE s2
        full == s3.n_out = config.chunk
    IN  /\ Processed(IF full THEN HandledDemix(s3) ELSE s3)
        /\ Send(IF full THEN Outputs(s3) ELSE <<>>)

\* finish(): the partial averages; then the lists of factors are cut.
DemixFinish ==
    LET s1 == [step EXCEPT !.demix = FinishAverage(@), !.output = FinishAverage(@)]
        s2 == IF s1.n_in % config.avg # 0 THEN MakeFactors(s1) ELSE s1
        s3 == IF s1.n_in % config.subtr # 0 THEN MakeFactorsSubtr(s2) ELSE s2
    IN  /\ Ended(IF step.n_in > 0 THEN HandledDemix(s3) ELSE step)
        /\ Send(IF step.n_in > 0 THEN Outputs(s3) ELSE <<>>)

DemixNext == DemixProcess \/ DemixFinish
DemixSpec == DemixInit /\ [][DemixNext]_calls

-----------------------------------------------------------------------------
\* The slots that were given of interval k of n slots.
IntervalSlots(k, n) == k * n .. AtMost((k + 1) * n, fed) - 1

Mixing(slots) == [phases |-> slots, weights |-> slots]

Solved(k) == [of |-> IntervalSlots(k, config.avg), mix |-> Mixing(IntervalSlots(k, config.avg))]

PromisedOutput(k) ==
    LET slots == IntervalSlots(k, config.subtr)
    IN  [of |-> slots,
         minus |-> IF config.model
                   THEN {[solution |-> Solved((k * config.subtr) \div config.avg),
                          mix |-> Mixing(slots)]}
                   ELSE {},
         deselected |-> IF config.selection THEN slots ELSE {}]

(* From each output the sources are subtracted once, with the solution of the *)
(* interval it lies in and the mixing factors of its own slots; and solution  *)
(* k of those that are written is of interval k, however the intervals, the   *)
(* outputs and the chunks end (Demixer.cc:500).                               *)
SourcesAreRemovedInTime ==
    /\ Keeps([k \in 1 .. (fed + config.subtr - 1) \div config.subtr |-> PromisedOutput(k - 1)])
    /\ \A k \in DOMAIN step.unknowns : step.unknowns[k] = Solved(k)
    /\ finished /\ config.model =>
          DOMAIN step.unknowns = 0 .. (fed + config.avg - 1) \div config.avg - 1
=============================================================================
