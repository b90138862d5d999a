------------------------------ MODULE BdaInput ------------------------------
(***************************************************************************)
(* What a step for BDA data is given: the averaging of each baseline, from *)
(* updateInfo(), and the buffers, from process().  A row is its baseline   *)
(* and its time slots.                                                     *)
(***************************************************************************)
EXTENDS Integers, Sequences

CONSTANTS
    NBaselines,
    MaxFactor,    \* bound on the time averaging factors
    MaxElements   \* bound on the elements (channels x correlations) of a row

VARIABLES
    factor,    \* info().ntimeAvg(bl)
    elements,  \* info().chanFreqs(bl).size(), as elements of a row
    input,     \* the buffers that the step is given: sequences of rows
    fed        \* how many of them it was given

Baselines == 1 .. NBaselines
BdaRow == [bl : Baselines, start : Nat, len : 1 .. MaxFactor]

ASSUME SizeAssumption == {NBaselines, MaxFactor, MaxElements} \subseteq Nat \ {0}
=============================================================================
