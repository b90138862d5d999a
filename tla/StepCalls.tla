------------------------------ MODULE StepCalls ------------------------------
(***************************************************************************)
(* The calls that a step for regular data gets, and what it hands on.  The *)
(* main loop of base/DP3.cc calls process() once per time slot and then    *)
(* finish(); each step does the same to the next one.  A module of a       *)
(* single step extends this one and defines its Init, one action per       *)
(* handler, and in Promised what the next step should have been given      *)
(* for the slots 0 .. fed-1, written without the step's own bookkeeping.   *)
(***************************************************************************)
EXTENDS Integers, Sequences

CONSTANT MaxSlots     \* bound: time slots of an observation

ASSUME MaxSlotsAssumption == MaxSlots \in Nat \ {0}

VARIABLES
    config,    \* the step's settings and the announced number of slots, ntime
    step,      \* the step's own members
    fed,       \* how many slots process() was given; slots count from 0
    sent,      \* what the next step's process() was given
    finished   \* was the next step's finish() called?

calls == <<config, step, fed, sent, finished>>

Start(settings, members) ==
    /\ config = settings
    /\ step = members
    /\ fed = 0
    /\ sent = <<>>
    /\ finished = FALSE

\* The step's process() is called with slot number fed.
Given ==
    /\ ~finished
    /\ fed < config.ntime
    /\ fed' = fed + 1
    /\ UNCHANGED <<config, finished>>

\* The call leaves the step's members so.
Processed(members) == Given /\ step' = members

\* The step's finish() ends: it calls the next step's finish().
Ended(members) ==
    /\ ~finished
    /\ finished' = TRUE
    /\ step' = members
    /\ UNCHANGED <<config, fed>>

Send(buffers) == sent' = sent \o buffers

\* What was handed on so far is what should be; nothing is missing in the end.
Keeps(promised) ==
    /\ Len(sent) <= Len(promised)
    /\ \A i \in 1 .. Len(sent) : sent[i] = promised[i]
    /\ finished => Len(sent) = Len(promised)
=============================================================================
