---------------------------- MODULE MCBdaPredict ----------------------------
(***************************************************************************)
(* TLC instance of BdaPredict.  The input holds, for every baseline, rows  *)
(* of factor[b] slots up to LastSlot, in the order in which they end.      *)
(* ReaderInput cuts them as MSBDAReader does: NBaselines rows per buffer.  *)
(* AveragerInput cuts them as a BDAAverager with its default size does.    *)
(*                                                                         *)
(* The other kinds of behaviour are the averager alone, with regular input *)
(* and desired sizes at any moment, whose buffers are then written to an   *)
(* MS and read; and BdaGroupPredict, with either input, of which one row   *)
(* may be missing.                                                         *)
(***************************************************************************)
EXTENDS BdaPredict, BdaGroupPredict

CONSTANTS LastSlot, Uniform, Kinds

VARIABLES
    kind,   \* "predict", "averager" or "group"
    asked,  \* averager: the number of calls of set_next_desired_buffersize
    ms_, nchanToDescId, factors, written, nread_, last, read, file  \* of MSBDA

fileVars == <<ms_, nchanToDescId, factors, written, nread_, last, read, file>>

\* The row of baseline b that holds slot t - 1 and ends with it.
RowEnding(f, b, t) ==
    [bl |-> b, start |-> ((t - 1) \div f[b]) * f[b], len |-> t - ((t - 1) \div f[b]) * f[b]]

RowsEnding(f, t, which) ==
    LET all[b \in 0 .. NBaselines] ==
            IF b = 0 THEN <<>>
            ELSE IF b \in which THEN Append(all[b - 1], RowEnding(f, b, t)) ELSE all[b - 1]
    IN  all[NBaselines]

\* Baselines that complete a row at t; at the end the others follow.
CompleteAt(f, t) == {b \in Baselines : t % f[b] = 0}

AllRows(f) ==
    LET all[t \in 0 .. LastSlot] ==
            IF t = 0 THEN <<>> ELSE all[t - 1] \o RowsEnding(f, t, CompleteAt(f, t))
    IN  all[LastSlot] \o RowsEnding(f, LastSlot, Baselines \ CompleteAt(f, LastSlot))

CutByReader(rows, e) ==
    LET n == (Len(rows) + NBaselines - 1) \div NBaselines
        Last(k) == IF k * NBaselines < Len(rows) THEN k * NBaselines ELSE Len(rows)
    IN  [k \in 1 .. n |-> SubSeq(rows, (k - 1) * NBaselines + 1, Last(k))]

\* First fit, in order, into buffers of the default size.
CutByAverager(rows, f, e) ==
    LET pool == Averager!PoolSize(f, e)
        fits(s, r) == s.used + e[r.bl] <= pool
        filled[i \in 0 .. Len(rows)] ==
            IF i = 0 THEN [bufs |-> <<>>, used |-> pool]
            ELSE LET s == filled[i - 1]
                     r == rows[i]
                 IN  IF fits(s, r)
                     THEN [bufs |-> [s.bufs EXCEPT ![Len(s.bufs)] = Append(@, r)],
                           used |-> s.used + e[r.bl]]
                     ELSE [bufs |-> Append(s.bufs, <<r>>), used |-> e[r.bl]]
    IN  filled[Len(rows)].bufs

ReaderInput(f, e) == CutByReader(AllRows(f), e)
AveragerInput(f, e) == CutByAverager(AllRows(f), f, e)

Without(rows, i) == SubSeq(rows, 1, i - 1) \o SubSeq(rows, i + 1, Len(rows))
CutAll(rows) == {CutByReader(rows, elements), CutByAverager(rows, factor, elements)}
Inputs == LET rows == AllRows(factor) IN
    CutAll(rows) \union UNION {CutAll(Without(rows, i)) : i \in DOMAIN rows}

Alone == INSTANCE MSBDA WITH NBaselines <- 2, MaxElements <- 3, Sizes <- {2, 3}
MaxSlots == 4
MaxAsked == 2

\* Uniform: all baselines have the same number of channels.
MCInit ==
    /\ asked = 0
    /\ Alone!FileInit
    /\ kind \in Kinds
    /\ kind # "group" => groups = [front |-> 1, failed |-> FALSE, finished |-> FALSE]
    /\ \/ /\ kind = "predict"
          /\ Init
          /\ Uniform => \A b \in Baselines : elements[b] = elements[1]
       \/ /\ kind = "averager"
          /\ Alone!Init
          /\ Expander!Init
          /\ input = <<>> /\ fed = 0
       \/ /\ kind = "group"
          /\ Averager!Init
          /\ Expander!Init
          /\ input \in Inputs
          /\ GroupInit

AloneNext ==
    /\ UNCHANGED <<expVars, input, fed>>
    /\ \/ /\ asked < MaxAsked
          /\ \E n \in {2, 3} : Alone!SetNextDesiredBufferSize(n)
          /\ asked' = asked + 1
       \/ slot < MaxSlots /\ Alone!Process /\ UNCHANGED asked
       \/ /\ Alone!AddTime \/ Alone!EndProcess \/ Alone!Finish \/ Alone!FlushBaseline
             \/ Alone!EndFinish
          /\ UNCHANGED asked

\* An MS without rows is not read.
FileNext ==
    /\ kind = "averager" /\ pc = "finished"
    /\ Alone!FileNext
    /\ UNCHANGED <<vars, kind, asked, groups>>

MCNext ==
    \/ FileNext
    \/ /\ UNCHANGED <<kind, fileVars>>
       /\ \/ kind = "predict" /\ Next /\ UNCHANGED <<asked, groups>>
          \/ kind = "averager" /\ AloneNext /\ UNCHANGED groups
          \/ /\ kind = "group" /\ GroupNext
             /\ UNCHANGED <<asked, bda_buffer, baseline_buffers, pool_size, fixed_sizes,
                            pc, bl, slot, sent, dropped, expVars>>

MCSpec == MCInit /\ [][MCNext]_<<vars, kind, asked, groups, fileVars>> /\ WF_vars(kind = "predict" /\ Next)

-----------------------------------------------------------------------------
\* BdaPredict: predicted rows are returned in buffers like those that came in.
MCShapesAreKept == kind = "predict" => ShapesAreKept

\* BdaPredict implements the stream of rows; other kinds have an empty one.
MCStream == INSTANCE StepStream WITH
    Item <- Seq(Averager!Row),
    input <- IF kind = "predict" THEN Given ELSE <<>>,
    output <- IF kind = "predict" THEN Returned ELSE <<>>,
    finished <- kind = "predict" /\ pc = "finished"
MCImplementsStream == MCStream!Spec

\* BdaPredict: every buffer that came in leaves.
MCEveryBufferReturns == kind = "predict" => EveryBufferReturns

\* BdaAverager: rows are dropped only if it is asked for sizes that are too small;
\* and when MSBDAWriter writes its rows, MSBDAReader reads the same rows.
RowsAreKept == kind = "averager" => Alone!NoRowIsDropped /\ Alone!RowsAreReadBack
=============================================================================
