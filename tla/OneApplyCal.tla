----------------------------- MODULE OneApplyCal -----------------------------
(***************************************************************************)
(* dp3::steps::OneApplyCal: which parameters are applied to which slot.    *)
(* Parameters are read for a block of slots at once and found again by a   *)
(* counter of calls.  From a ParmDB a block has as many slots as the       *)
(* setting says; an H5Parm is read at once for the whole observation.      *)
(*                                                                         *)
(* Times are in ticks from the start of the observation.  When the MS has  *)
(* an irregular time, the reader moves its grid of times: that slot and    *)
(* all later ones come earlier (MSReader.cc:323).                          *)
(***************************************************************************)
EXTENDS StepCalls

CONSTANTS
    BlockSizes,   \* timeslotsperparmupdate
    Interval,     \* itsTimeInterval, even
    Moves         \* how much earlier slots may come, in ticks

\* moved: how much earlier they come now.
TimeOf(slot, moved) == slot * Interval + Interval \div 2 - moved

\* itsLastTime; -1 before the first block.  rows: the slots that the rows of
\* itsJonesParameters are for, without the rows that are never filled in.
ApplyInit ==
    \E n \in 1 .. MaxSlots, b \in BlockSizes, h5 \in BOOLEAN :
        Start([ntime |-> n, h5 |-> h5, block |-> IF h5 THEN n ELSE b],
              [last_time |-> -1, time_step |-> 0, rows |-> <<>>, failed |-> FALSE, moved |-> 0])

LastMSTime == config.ntime * Interval
BlockEnd(time) == time - Interval \div 2 + config.block * Interval
PastTheEnd(time) == BlockEnd(time) > LastMSTime

LastTime(time) == IF PastTheEnd(time) THEN LastMSTime ELSE BlockEnd(time)

\* ParmFacadeLocal: the number of steps in the range, rounded; at least one.
RowsInParmDB(time) ==
    LET range == LastTime(time) - (time - Interval \div 2)
        rounded == (2 * range + Interval) \div (2 * Interval)
    IN  IF rounded > 1 THEN rounded ELSE 1

NumTimes(time) == IF PastTheEnd(time) THEN config.ntime % config.block ELSE config.block

\* The values of a ParmDB are for the times from that of the slot on.
ParmDBRows(time) ==
    [k \in 1 .. RowsInParmDB(time) |-> (time + (k - 1) * Interval) \div Interval]

\* A range with another number of values throws.
UpdateParmsParmDB(time) ==
    [step EXCEPT !.last_time = LastTime(time), !.time_step = 0, !.rows = ParmDBRows(time),
                 !.failed = RowsInParmDB(time) # NumTimes(time)]

UpdateParmsH5(time) ==
    [step EXCEPT !.last_time = LastTime(time), !.time_step = 0,
                 !.rows = [t \in 1 .. config.ntime |-> t - 1]]

\* Faulty variant: the counter goes on from block to block.
MutantUpdated(time) ==
    IF time <= step.last_time THEN [step EXCEPT !.time_step = @ + 1]
    ELSE [(IF config.h5 THEN UpdateParmsH5(time) ELSE UpdateParmsParmDB(time))
          EXCEPT !.time_step = step.time_step]
Updated(time) ==
    IF time <= step.last_time THEN [step EXCEPT !.time_step = @ + 1]
    ELSE IF config.h5 THEN UpdateParmsH5(time) ELSE UpdateParmsParmDB(time)

ApplyProcess ==
    \E moved \in Moves :
        /\ ~step.failed
        /\ moved >= step.moved
        /\ Processed([Updated(TimeOf(fed, moved)) EXCEPT !.moved = moved])
        /\ IF step'.failed THEN UNCHANGED sent
           ELSE Send(<<[slot |-> fed,
                        parms |-> IF step'.time_step < Len(step'.rows)
                                  THEN step'.rows[step'.time_step + 1] ELSE -1]>>)

ApplyFinish == ~step.failed /\ fed = config.ntime /\ Ended(step) /\ Send(<<>>)

ApplyNext == ApplyProcess \/ ApplyFinish

ApplySpec == ApplyInit /\ [][ApplyNext]_calls
-----------------------------------------------------------------------------
(* Each slot gets the parameters of its own time, through full blocks and a   *)
(* last one that is not, and when slots come earlier than the grid: no        *)
(* parameters of another block, and none beyond those that were read; reading *)
(* never fails (OneApplyCal.cc:350, 473, 508).                                *)
ParametersAreOfTheirTime ==
    /\ ~step.failed
    /\ Keeps([i \in 1 .. fed |-> [slot |-> i - 1, parms |-> i - 1]])
=============================================================================
