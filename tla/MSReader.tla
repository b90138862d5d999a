------------------------------ MODULE MSReader ------------------------------
(***************************************************************************)
(* dp3::steps::MSReader: the time axis of a regular measurement set (MS).  *)
(* The MS is iterated by time; process() gives the next step one time slot *)
(* per call, either one of the MS or, where the MS has none, an inserted   *)
(* and fully flagged one.                                                  *)
(*                                                                         *)
(* Time is counted in ticks.  casacore::near is taken as equality: it      *)
(* tolerates a relative 1e-13, less than a tick.  Reading columns and the  *)
(* flags of NaN data are left out.                                         *)
(***************************************************************************)
EXTENDS Integers, Sequences, FiniteSets

CONSTANTS
    Interval,    \* itsTimeInterval
    Tolerance,   \* itsTimeTolerance (msin.timetolerance)
    TimeLists,   \* the times of the slots of an MS, in the order of the MS
    StartSlots,  \* msin.starttimeslot, or msin.starttime counted in slots
    EndSlots,    \* slots that msin.endtime, if given, cuts off (or adds, if < 0)
    NTimes       \* msin.ntimes; 0 means not given

ASSUME ReaderAssumption ==
    /\ Interval \in Nat \ {0}
    /\ Tolerance \in 0 .. (Interval - 1)
    /\ TimeLists \subseteq Seq(Nat \ {0}) \ {<<>>}
    /\ StartSlots \subseteq Int
    /\ EndSlots \subseteq Int
    /\ NTimes \subseteq Nat

\* process() takes the time 0 for a reader without data; times are seconds since
\* 1858, and no range starts there.
ASSUME StartAssumption ==
    \A t \in TimeLists, s \in StartSlots : t[1] + s * Interval > 0

VARIABLES
    times,        \* the times in the MS
    iter,         \* itsIter: index of the slot that is looked at
    first_time,   \* itsFirstTime
    last_time,    \* itsLastTime
    next_time,    \* itsNextTime
    last_ms_time, \* itsLastMSTime
    nr_read,      \* itsNrRead
    nr_inserted,  \* itsNrInserted
    ntime,        \* info().ntime(): the number of slots announced
    n_times,      \* msin.ntimes
    pc,           \* where the constructor or process() is
    slots         \* the slots given to the next step; ms = 0 if inserted

vars == <<times, iter, first_time, last_time, next_time, last_ms_time, nr_read,
          nr_inserted, ntime, n_times, pc, slots>>

ms_time == times[iter]
PastEnd == iter > Len(times)

-----------------------------------------------------------------------------
(***************************************************************************)
(* The constructor: the time range from the parset, then skipFirstTimes.   *)
(* A start before the MS makes slots to insert; a start after the end of   *)
(* the range is refused with an exception.                                 *)
(***************************************************************************)
Init ==
    /\ times \in TimeLists
    /\ \E s \in StartSlots : first_time = times[1] + s * Interval
    /\ n_times \in NTimes
    /\ \/ last_time = times[Len(times)]
       \/ /\ n_times = 0
          /\ \E e \in EndSlots :
                last_time = times[1]
                            + ((times[Len(times)] - times[1]) \div Interval - e) * Interval
    /\ first_time <= last_time /\ times[1] <= last_time
    /\ iter = 1
    /\ next_time = 0
    /\ last_ms_time = 0
    /\ nr_read = 0
    /\ nr_inserted = 0
    /\ ntime = 0
    /\ pc = "skip"
    /\ slots = <<>>

MutantSkip == last_ms_time' = ms_time /\ iter' = iter

Skip ==
    /\ last_ms_time' = ms_time
    /\ iter' = iter + 1

InTimeOrder == ms_time >= last_ms_time

SkipFirstTime ==
    /\ pc = "skip" /\ ~PastEnd
    /\ ~InTimeOrder \/ ms_time < first_time
    /\ Skip
    /\ UNCHANGED <<times, first_time, last_time, next_time, nr_read, nr_inserted, ntime,
                   n_times, pc, slots>>

\* itsFirstTime moves to the first time after it on the grid of the MS.
TrueFirstTime ==
    IF PastEnd THEN first_time
    ELSE LET nrt == (ms_time - first_time) \div Interval IN ms_time - nrt * Interval

\* Faulty variant: the number of steps between the slots.
MutantNrSlots(first, last) == (last - first) \div Interval
NrSlots(first, last) == (2 * (last - first) + 3 * Interval) \div (2 * Interval)

LastTime(first) == IF n_times > 0 THEN first + (n_times - 1) * Interval ELSE last_time

EndSkipFirstTimes ==
    /\ pc = "skip"
    /\ ~PastEnd => InTimeOrder /\ ms_time >= first_time
    /\ first_time' = TrueFirstTime
    /\ next_time' = first_time'
    /\ last_time' = LastTime(first_time')
    /\ ntime' = NrSlots(first_time', last_time')
    /\ pc' = "idle"
    /\ UNCHANGED <<times, iter, last_ms_time, nr_read, nr_inserted, n_times, slots>>

(***************************************************************************)
(* process(): look for the slot of next_time.                              *)
(***************************************************************************)
Process ==
    /\ pc = "idle"
    /\ pc' = "search"
    /\ UNCHANGED <<times, iter, first_time, last_time, next_time, last_ms_time, nr_read,
                   nr_inserted, ntime, n_times, slots>>

IsNear == next_time - Tolerance <= ms_time /\ ms_time <= next_time + Tolerance

\* An irregular time: first_time moves, so that the slot is on the grid.
IsEarly == ~IsNear /\ first_time < ms_time /\ ms_time < next_time

SkipTime ==
    /\ pc = "search" /\ ~PastEnd
    /\ InTimeOrder => ~IsNear /\ ~IsEarly /\ ms_time <= next_time
    /\ Skip
    /\ UNCHANGED <<times, first_time, last_time, next_time, nr_read, nr_inserted, ntime,
                   n_times, pc, slots>>

FindNear ==
    /\ pc = "search" /\ ~PastEnd /\ InTimeOrder /\ IsNear
    /\ pc' = "use"
    /\ UNCHANGED <<times, iter, first_time, last_time, next_time, last_ms_time, nr_read,
                   nr_inserted, ntime, n_times, slots>>

MutantFindEarly ==
    /\ pc = "search" /\ ~PastEnd /\ InTimeOrder /\ IsEarly
    /\ pc' = "use"
    /\ UNCHANGED <<times, iter, first_time, last_time, next_time, last_ms_time, nr_read,
                   nr_inserted, ntime, n_times, slots>>

FindEarly ==
    /\ pc = "search" /\ ~PastEnd /\ InTimeOrder /\ IsEarly
    /\ first_time' = first_time - (next_time - ms_time)
    /\ next_time' = ms_time
    /\ pc' = "use"
    /\ UNCHANGED <<times, iter, last_time, last_ms_time, nr_read, nr_inserted, ntime,
                   n_times, slots>>

FindNone ==
    /\ pc = "search"
    /\ ~PastEnd => InTimeOrder /\ ~IsNear /\ ms_time > next_time
    /\ pc' = "insert"
    /\ UNCHANGED <<times, iter, first_time, last_time, next_time, last_ms_time, nr_read,
                   nr_inserted, ntime, n_times, slots>>

(***************************************************************************)
(* Stop after last_time, or give the slot to the next step.                *)
(***************************************************************************)
AtEnd == next_time > last_time \/ next_time = 0

Stop ==
    /\ pc \in {"use", "insert"} /\ AtEnd
    /\ pc' = "finished"
    /\ UNCHANGED <<times, iter, first_time, last_time, next_time, last_ms_time, nr_read,
                   nr_inserted, ntime, n_times, slots>>

NextTime == first_time + (nr_read' + nr_inserted') * Interval

\* Does not advance the iterator.
MutantUseSlot ==
    /\ pc = "use" /\ ~AtEnd
    /\ slots' = Append(slots, [time |-> next_time, ms |-> iter])
    /\ last_ms_time' = next_time
    /\ nr_read' = nr_read + 1
    /\ nr_inserted' = nr_inserted
    /\ next_time' = NextTime
    /\ pc' = "idle"
    /\ UNCHANGED <<times, iter, first_time, last_time, ntime, n_times>>

UseSlot ==
    /\ pc = "use" /\ ~AtEnd
    /\ slots' = Append(slots, [time |-> next_time, ms |-> iter])
    /\ last_ms_time' = next_time
    /\ nr_read' = nr_read + 1
    /\ nr_inserted' = nr_inserted
    /\ iter' = iter + 1
    /\ next_time' = NextTime
    /\ pc' = "idle"
    /\ UNCHANGED <<times, first_time, last_time, ntime, n_times>>

InsertSlot ==
    /\ pc = "insert" /\ ~AtEnd
    /\ slots' = Append(slots, [time |-> next_time, ms |-> 0])
    /\ nr_inserted' = nr_inserted + 1
    /\ nr_read' = nr_read
    /\ next_time' = NextTime
    /\ pc' = "idle"
    /\ UNCHANGED <<times, iter, first_time, last_time, last_ms_time, ntime, n_times>>

Next ==
    \/ SkipFirstTime \/ EndSkipFirstTimes
    \/ Process \/ SkipTime \/ FindNear \/ FindEarly \/ FindNone
    \/ Stop \/ UseSlot \/ InsertSlot

\* DP3::execute calls process() until it returns false.
Spec == Init /\ [][Next]_vars /\ WF_vars(Next)
-----------------------------------------------------------------------------

\* An MS slot that goes back in time is skipped, so that the times given to the
\* next step increase ("Skip time slot and give warning if MS data is not in
\* time order."); for an MS that is not in order this does not hold.
TimesNeverGoBack ==
    \A i, j \in DOMAIN slots :
        i < j => /\ slots[i].time < slots[j].time
                 /\ (slots[i].ms # 0 /\ slots[j].ms # 0) => slots[i].ms < slots[j].ms

\* Are the times of the MS in order, further apart than the tolerance?
InOrder(t) == \A i \in 2 .. Len(t) : t[i] - t[i - 1] > Tolerance

\* TimesIncrease: of an MS in time order, the slots given to the next step
\* have increasing times, and each slot of the MS is given at most once, also
\* when slots are at irregular times.
TimesIncrease == InOrder(times) => TimesNeverGoBack

\* DataKeepsItsTime: a slot of the MS is passed on with its own time, within
\* the tolerance.
DataKeepsItsTime ==
    \A i \in DOMAIN slots :
        slots[i].ms # 0 => /\ times[slots[i].ms] >= slots[i].time - Tolerance
                           /\ times[slots[i].ms] <= slots[i].time + Tolerance

\* Are the times of the MS in order and on one grid?
Regular ==
    \A i \in DOMAIN times : /\ (times[i] - times[1]) % Interval = 0
                            /\ i > 1 => times[i - 1] < times[i]

\* GapsAreFilled: of a regular MS every slot of the time range is given: the
\* slot of the MS where there is one, an inserted one where it is missing;
\* there are as many as info().ntime() announces, which the steps rely on.
GapsAreFilled ==
    (Regular /\ pc = "finished") =>
        /\ Len(slots) = ntime
        /\ \A i \in DOMAIN slots :
              /\ slots[i].time = first_time + (i - 1) * Interval
              /\ slots[i].ms = 0 => \A k \in DOMAIN times : times[k] # slots[i].time

\* Do the times of the MS differ by a multiple of the interval, within the
\* tolerance, and is there at most one of them for a slot?
Tolerated ==
    \A i, j \in DOMAIN times :
        /\ (times[i] - times[j] + Tolerance) % Interval <= 2 * Tolerance
        /\ i > j => times[i] - times[j] > 2 * Tolerance

\* Reading ends.
Terminates == <>(pc = "finished")
=============================================================================
