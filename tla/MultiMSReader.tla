---------------------------- MODULE MultiMSReader ----------------------------
(***************************************************************************)
(* dp3::steps::MultiMSReader: the bands of several MSs that are read as    *)
(* one.  Each MS has an MSReader of its own; a slot of the result is what  *)
(* these readers give, one call of process() each, under the time of the   *)
(* first.  Two MSs are modelled: the first reader and one of the others.   *)
(* For an MS that does not exist fully flagged bands are filled in, which  *)
(* needs no reader.                                                        *)
(***************************************************************************)
EXTENDS MSReader

VARIABLES
    \* the other reader's
    o_times, o_iter, o_first_time, o_last_time, o_next_time, o_last_ms_time,
    o_nr_read, o_nr_inserted, o_ntime, o_n_times, o_pc, o_slots,
    \* the step's
    turn,     \* what is done: "open", "first", "other", "combine", "finished", "failed"
    combined  \* the slots given to the next step: a time and the slot of either MS

otherVars == <<o_times, o_iter, o_first_time, o_last_time, o_next_time, o_last_ms_time,
               o_nr_read, o_nr_inserted, o_ntime, o_n_times, o_pc, o_slots>>
multiVars == <<vars, otherVars, turn, combined>>

Other == INSTANCE MSReader WITH
    times <- o_times, iter <- o_iter, first_time <- o_first_time, last_time <- o_last_time,
    next_time <- o_next_time, last_ms_time <- o_last_ms_time, nr_read <- o_nr_read,
    nr_inserted <- o_nr_inserted, ntime <- o_ntime, n_times <- o_n_times, pc <- o_pc,
    slots <- o_slots

-----------------------------------------------------------------------------
(***************************************************************************)
(* All readers have the settings of the same parset: a start and an end    *)
(* are times, or counted in slots of the MS.                               *)
(***************************************************************************)
MultiInit ==
    /\ Init
    /\ Other!Init
    /\ o_n_times = n_times
    /\ \/ o_first_time = first_time
       \/ o_first_time - o_times[1] = first_time - times[1]
    /\ \/ o_last_time = last_time
       \/ last_time = times[Len(times)] /\ o_last_time = o_times[Len(o_times)]
    /\ turn = "open"
    /\ combined = <<>>

Open ==
    /\ turn = "open"
    /\ UNCHANGED <<turn, combined>>
    /\ \/ (SkipFirstTime \/ EndSkipFirstTimes) /\ UNCHANGED otherVars
       \/ /\ pc = "idle"
          /\ Other!SkipFirstTime \/ Other!EndSkipFirstTimes
          /\ UNCHANGED vars

\* Faulty variant: does not compare the start times.
MutantSameRange == o_last_time = last_time
SameRange == o_first_time = first_time /\ o_last_time = last_time

\* Throws if the MSs differ.
UpdateInfo ==
    /\ turn = "open" /\ pc = "idle" /\ o_pc = "idle"
    /\ turn' = IF SameRange THEN "first" ELSE "failed"
    /\ UNCHANGED <<vars, otherVars, combined>>

\* process() of the first reader; stop if that is at its end.
ReadFirst ==
    /\ turn = "first"
    /\ Next
    /\ turn' = CASE pc' = "idle" -> "other" [] pc' = "finished" -> "finished" [] OTHER -> turn
    /\ UNCHANGED <<otherVars, combined>>

\* process() of the other reader; whether that is at its end is not looked at.
ReadOther ==
    /\ turn = "other"
    /\ IF o_pc = "finished" THEN UNCHANGED otherVars ELSE Other!Next
    /\ turn' = IF o_pc' \in {"idle", "finished"} THEN "combine" ELSE turn
    /\ UNCHANGED <<vars, combined>>

\* An inserted slot has no row numbers; neither has a reader that gave nothing.
HasRows(given) == given # <<>> /\ given[Len(given)].ms # 0

Combine ==
    /\ turn = "combine"
    /\ IF HasRows(slots) /\ HasRows(o_slots)
       THEN /\ combined' = Append(combined, [time |-> slots[Len(slots)].time,
                                             first |-> slots[Len(slots)].ms,
                                             other |-> o_slots[Len(o_slots)].ms])
            /\ turn' = "first"
       ELSE turn' = "failed" /\ UNCHANGED combined
    /\ UNCHANGED <<vars, otherVars>>

MultiNext == Open \/ UpdateInfo \/ ReadFirst \/ ReadOther \/ Combine

MultiSpec == MultiInit /\ [][MultiNext]_multiVars
-----------------------------------------------------------------------------
Within(a, b) == a - b <= Tolerance /\ b - a <= Tolerance

(* The bands of a slot are of one time, and no band of a slot is used twice,  *)
(* if the times of an MS are on a grid, within the tolerance: the readers     *)
(* stay together although each looks for the slot itself and the end of the   *)
(* others is not noticed (MultiMSReader.cc:230).  All slots are combined, or  *)
(* the step fails; it does not if the MSs have all slots at the same times.   *)
BandsAreOfOneTime ==
    (Tolerated /\ Other!Tolerated) =>
        /\ \A i \in DOMAIN combined :
              /\ Within(times[combined[i].first], combined[i].time)
              /\ Within(o_times[combined[i].other], combined[i].time)
              /\ i > 1 => combined[i].other > combined[i - 1].other
        /\ turn = "finished" => Len(combined) = Len(slots)
        /\ turn = "failed" => times # o_times \/ \E i \in DOMAIN slots : slots[i].ms = 0
=============================================================================
