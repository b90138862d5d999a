--------------------------- MODULE MSReaderProofs ---------------------------
(***************************************************************************)
(* What MSReader guarantees for every interval and tolerance, every MS and *)
(* every range of times.                                                   *)
(***************************************************************************)
EXTENDS MSReader, WellFoundedInduction, TLAPS

USE ReaderAssumption

Slot == [time : Int, ms : Nat]

TypeOK ==
    /\ times \in TimeLists
    /\ iter \in Nat \ {0}
    /\ first_time \in Int
    /\ last_time \in Int
    /\ next_time \in Int
    /\ last_ms_time \in Int
    /\ nr_read \in Nat
    /\ nr_inserted \in Nat
    /\ ntime \in Int
    /\ n_times \in Nat
    /\ pc \in {"skip", "idle", "search", "use", "insert", "finished"}
    /\ slots \in Seq(Slot)

(***************************************************************************)
(* The MS, integer division, and sequences.                                *)
(***************************************************************************)
LEMMA TimesOfMS ==
  ASSUME times \in TimeLists
  PROVE  /\ Len(times) \in Nat \ {0}
         /\ DOMAIN times = 1 .. Len(times)
         /\ \A i \in 1 .. Len(times) : times[i] \in Nat \ {0}
<1>1. times \in Seq(Nat \ {0}) /\ times # <<>> OBVIOUS
<1> QED BY <1>1

LEMMA TimeOfSlot ==
  ASSUME TypeOK, ~PastEnd
  PROVE  ms_time \in Int
BY TimesOfMS DEF PastEnd, ms_time, TypeOK

LEMMA Quotient ==
  ASSUME NEW a \in Int, NEW d \in Nat \ {0}
  PROVE  a \div d \in Int
OBVIOUS

LEMMA AppendedSlot ==
  ASSUME NEW s \in Seq(Slot), NEW e \in Slot
  PROVE  /\ Append(s, e) \in Seq(Slot)
         /\ Len(Append(s, e)) = Len(s) + 1 /\ Len(s) \in Nat
         /\ DOMAIN s = 1 .. Len(s) /\ DOMAIN Append(s, e) = 1 .. Len(s) + 1
         /\ \A i \in DOMAIN s : s[i] \in Slot /\ Append(s, e)[i] = s[i]
         /\ Append(s, e)[Len(s) + 1] = e
OBVIOUS

(***************************************************************************)
(* Type correctness.                                                       *)
(***************************************************************************)
LEMMA InitType == Init => TypeOK
<1> SUFFICES ASSUME Init PROVE TypeOK OBVIOUS
<1> USE DEF Init
<1>1. /\ Len(times) \in Nat \ {0} /\ times[1] \in Int /\ times[Len(times)] \in Int
      BY TimesOfMS
<1>2. first_time \in Int
  <2>1. PICK s \in StartSlots : first_time = times[1] + s * Interval OBVIOUS
  <2> QED BY <2>1, <1>1
<1>3. last_time \in Int
  <2>1. CASE last_time = times[Len(times)] BY <2>1, <1>1
  <2>2. CASE \E e \in EndSlots :
                last_time = times[1]
                            + ((times[Len(times)] - times[1]) \div Interval - e) * Interval
    <3>1. PICK e \in EndSlots :
             last_time = times[1]
                         + ((times[Len(times)] - times[1]) \div Interval - e) * Interval
          BY <2>2
    <3>2. (times[Len(times)] - times[1]) \div Interval \in Int BY <1>1, Quotient
    <3> QED BY <3>1, <3>2, <1>1
  <2> QED BY <2>1, <2>2
<1>4. n_times \in Nat /\ times \in TimeLists /\ slots \in Seq(Slot) OBVIOUS
<1> QED BY <1>2, <1>3, <1>4 DEF TypeOK

LEMMA NextTimeType ==
  ASSUME TypeOK, nr_read' \in Nat, nr_inserted' \in Nat
  PROVE  NextTime \in Int
BY DEF TypeOK, NextTime

LEMMA FirstTimeType ==
  ASSUME TypeOK
  PROVE  /\ TrueFirstTime \in Int /\ LastTime(TrueFirstTime) \in Int
         /\ NrSlots(TrueFirstTime, LastTime(TrueFirstTime)) \in Int
<1>1. TrueFirstTime \in Int
  <2>1. CASE PastEnd BY <2>1 DEF TrueFirstTime, TypeOK
  <2>2. CASE ~PastEnd
    <3>1. ms_time \in Int BY <2>2, TimesOfMS DEF PastEnd, ms_time, TypeOK
    <3>2. (ms_time - first_time) \div Interval \in Int BY <3>1, Quotient DEF TypeOK
    <3> QED BY <2>2, <3>1, <3>2 DEF TrueFirstTime
  <2> QED BY <2>1, <2>2
<1>2. ASSUME NEW f \in Int PROVE LastTime(f) \in Int BY DEF LastTime, TypeOK
<1>3. ASSUME NEW f \in Int, NEW l \in Int PROVE NrSlots(f, l) \in Int BY Quotient DEF NrSlots
<1> QED BY <1>1, <1>2, <1>3

LEMMA NextType == TypeOK /\ [Next]_vars => TypeOK'
<1> SUFFICES ASSUME TypeOK, [Next]_vars PROVE TypeOK' OBVIOUS
<1>0. ~PastEnd => ms_time \in Int BY TimeOfSlot
<1>1. CASE SkipFirstTime BY <1>0, <1>1 DEF SkipFirstTime, Skip, TypeOK
<1>2. CASE EndSkipFirstTimes
  <2>1. first_time' \in Int /\ last_time' \in Int /\ ntime' \in Int
        BY <1>2, FirstTimeType DEF EndSkipFirstTimes
  <2> QED BY <1>2, <2>1 DEF EndSkipFirstTimes, TypeOK
<1>3. CASE Process BY <1>3 DEF Process, TypeOK
<1>4. CASE SkipTime BY <1>0, <1>4 DEF SkipTime, Skip, TypeOK
<1>5. CASE FindNear BY <1>5 DEF FindNear, TypeOK
<1>6. CASE FindEarly BY <1>0, <1>6 DEF FindEarly, TypeOK
<1>7. CASE FindNone BY <1>7 DEF FindNone, TypeOK
<1>8. CASE Stop BY <1>8 DEF Stop, TypeOK
<1>9. CASE UseSlot
  <2>1. nr_read' \in Nat /\ nr_inserted' \in Nat BY <1>9 DEF UseSlot, TypeOK
  <2>2. NextTime \in Int BY <2>1, NextTimeType
  <2>3. slots' \in Seq(Slot)
    <3>1. [time |-> next_time, ms |-> iter] \in Slot BY DEF TypeOK, Slot
    <3> QED BY <1>9, <3>1, AppendedSlot DEF UseSlot, TypeOK
  <2> QED BY <1>9, <2>1, <2>2, <2>3 DEF UseSlot, TypeOK
<1>10. CASE InsertSlot
  <2>1. nr_read' \in Nat /\ nr_inserted' \in Nat BY <1>10 DEF InsertSlot, TypeOK
  <2>2. NextTime \in Int BY <2>1, NextTimeType
  <2>3. slots' \in Seq(Slot)
    <3>1. [time |-> next_time, ms |-> 0] \in Slot BY DEF TypeOK, Slot
    <3> QED BY <1>10, <3>1, AppendedSlot DEF InsertSlot, TypeOK
  <2> QED BY <1>10, <2>1, <2>2, <2>3 DEF InsertSlot, TypeOK
<1>11. CASE UNCHANGED vars BY <1>11 DEF vars, TypeOK
<1> QED BY <1>1, <1>2, <1>3, <1>4, <1>5, <1>6, <1>7, <1>8, <1>9, <1>10, <1>11 DEF Next

(* Every reachable state has the types of the variables, whatever the MS.     *)
THEOREM ReaderTypeCorrect == Spec => []TypeOK
BY InitType, NextType, PTL DEF Spec

(***************************************************************************)
(* A slot that is looked for is passed on at its own time: the time that   *)
(* is read is compared, or taken, before.                                  *)
(***************************************************************************)
FoundIsNear == pc = "use" => ~PastEnd /\ IsNear
DataInv == TypeOK /\ FoundIsNear /\ DataKeepsItsTime

LEMMA InitData == Init => DataInv
<1> SUFFICES ASSUME Init PROVE DataInv OBVIOUS
<1>1. pc = "skip" /\ slots = <<>> BY DEF Init
<1> QED BY <1>1, InitType DEF DataInv, FoundIsNear, DataKeepsItsTime

LEMMA DataUnchanged ==
  ASSUME DataInv, UNCHANGED <<times, slots>>
  PROVE  DataKeepsItsTime'
BY DEF DataInv, DataKeepsItsTime

LEMMA NextData == DataInv /\ [Next]_vars => DataInv'
<1> SUFFICES ASSUME DataInv, [Next]_vars PROVE DataInv' OBVIOUS
<1>0. TypeOK /\ TypeOK' BY NextType DEF DataInv
<1>t. ~PastEnd => ms_time \in Int BY <1>0, TimeOfSlot
<1>1. CASE SkipFirstTime
  <2> USE <1>1 DEF SkipFirstTime
  <2> QED BY <1>0, DataUnchanged DEF DataInv, FoundIsNear
<1>2. CASE EndSkipFirstTimes
  <2> USE <1>2 DEF EndSkipFirstTimes
  <2> QED BY <1>0, DataUnchanged DEF DataInv, FoundIsNear
<1>3. CASE Process
  <2> USE <1>3 DEF Process
  <2> QED BY <1>0, DataUnchanged DEF DataInv, FoundIsNear
<1>4. CASE SkipTime
  <2> USE <1>4 DEF SkipTime
  <2> QED BY <1>0, DataUnchanged DEF DataInv, FoundIsNear
<1>5. CASE FindNear
  <2> USE <1>5 DEF FindNear
  <2>1. FoundIsNear' BY DEF FoundIsNear, IsNear, PastEnd, ms_time
  <2> QED BY <1>0, <2>1, DataUnchanged DEF DataInv
<1>6. CASE FindEarly
  <2> USE <1>6 DEF FindEarly
  <2>1. FoundIsNear' BY <1>0, <1>t DEF FoundIsNear, IsNear, PastEnd, ms_time, TypeOK
  <2> QED BY <1>0, <2>1, DataUnchanged DEF DataInv
<1>7. CASE FindNone
  <2> USE <1>7 DEF FindNone
  <2> QED BY <1>0, DataUnchanged DEF DataInv, FoundIsNear
<1>8. CASE Stop
  <2> USE <1>8 DEF Stop
  <2> QED BY <1>0, DataUnchanged DEF DataInv, FoundIsNear
<1>9. CASE UseSlot
  <2> USE <1>9 DEF UseSlot
  <2> DEFINE e == [time |-> next_time, ms |-> iter]
  <2>1. e \in Slot BY <1>0 DEF TypeOK, Slot
  <2>2. slots' = Append(slots, e) /\ slots \in Seq(Slot) BY <1>0 DEF TypeOK
  <2>3. /\ times[e.ms] >= e.time - Tolerance
        /\ times[e.ms] <= e.time + Tolerance
    <3>1. ~PastEnd /\ IsNear BY DEF DataInv, FoundIsNear
    <3> QED BY <1>0, <1>t, <3>1 DEF IsNear, ms_time, TypeOK
  <2>4. DataKeepsItsTime'
    <3>1. SUFFICES ASSUME NEW i \in DOMAIN slots', slots'[i].ms # 0
                   PROVE  /\ times[slots'[i].ms] >= slots'[i].time - Tolerance
                          /\ times[slots'[i].ms] <= slots'[i].time + Tolerance
          BY DEF DataKeepsItsTime
    <3> HIDE DEF e
    <3>2. CASE i \in DOMAIN slots
      <4>1. slots'[i] = slots[i] BY <2>1, <2>2, <3>2, AppendedSlot
      <4> QED BY <3>1, <3>2, <4>1 DEF DataInv, DataKeepsItsTime
    <3>3. CASE i = Len(slots) + 1
      <4>1. slots'[i] = e BY <2>1, <2>2, <3>3, AppendedSlot
      <4> QED BY <2>3, <4>1
    <3> QED BY <2>1, <2>2, <3>1, <3>2, <3>3, AppendedSlot
  <2> QED BY <1>0, <2>4 DEF DataInv, FoundIsNear
<1>10. CASE InsertSlot
  <2> USE <1>10 DEF InsertSlot
  <2> DEFINE e == [time |-> next_time, ms |-> 0]
  <2>1. e \in Slot /\ e.ms = 0 BY <1>0 DEF TypeOK, Slot
  <2>2. slots' = Append(slots, e) /\ slots \in Seq(Slot) BY <1>0 DEF TypeOK
  <2>3. DataKeepsItsTime'
    <3>1. SUFFICES ASSUME NEW i \in DOMAIN slots', slots'[i].ms # 0
                   PROVE  /\ times[slots'[i].ms] >= slots'[i].time - Tolerance
                          /\ times[slots'[i].ms] <= slots'[i].time + Tolerance
          BY DEF DataKeepsItsTime
    <3> HIDE DEF e
    <3>2. i \in DOMAIN slots /\ slots'[i] = slots[i] BY <2>1, <2>2, <3>1, AppendedSlot
    <3> QED BY <3>1, <3>2 DEF DataInv, DataKeepsItsTime
  <2> QED BY <1>0, <2>3 DEF DataInv, FoundIsNear
<1>11. CASE UNCHANGED vars
  <2>1. FoundIsNear' BY <1>11 DEF vars, DataInv, FoundIsNear, PastEnd, IsNear, ms_time
  <2> QED BY <1>0, <1>11, <2>1, DataUnchanged DEF vars, DataInv
<1> QED BY <1>1, <1>2, <1>3, <1>4, <1>5, <1>6, <1>7, <1>8, <1>9, <1>10, <1>11 DEF Next

(* Data is never passed on under the time of another slot, whatever the times *)
(* in the MS: irregular ones, gaps, or times that go back.                    *)
THEOREM DataIsOfItsTime == Spec => []DataKeepsItsTime
<1>1. DataInv => DataKeepsItsTime BY DEF DataInv
<1> QED BY <1>1, InitData, NextData, PTL DEF Spec

(***************************************************************************)
(* Increasing times.  The slots given are before the time that comes next, *)
(* and before the slot of the MS that is looked at; a slot of the MS is    *)
(* looked at once.                                                         *)
(***************************************************************************)
OnGrid == pc # "skip" => next_time = first_time + (nr_read + nr_inserted) * Interval

Ahead ==
    \A i \in DOMAIN slots :
        /\ slots[i].time < next_time
        /\ slots[i].ms < iter
        /\ ~PastEnd => slots[i].time < ms_time

InsertsBefore == (pc = "insert" /\ ~PastEnd) => next_time < ms_time

OrderInv ==
    /\ DataInv
    /\ pc = "skip" => slots = <<>> /\ nr_read = 0 /\ nr_inserted = 0
    /\ OnGrid
    /\ InOrder(times) => Ahead /\ InsertsBefore /\ TimesNeverGoBack

LEMMA InitOrder == Init => OrderInv
<1> SUFFICES ASSUME Init PROVE OrderInv OBVIOUS
<1>1. pc = "skip" /\ slots = <<>> /\ nr_read = 0 /\ nr_inserted = 0 BY DEF Init
<1> QED BY <1>1, InitData DEF OrderInv, OnGrid, Ahead, InsertsBefore, TimesNeverGoBack

LEMMA NextOfMS ==
  ASSUME TypeOK, InOrder(times), ~PastEnd, iter + 1 <= Len(times)
  PROVE  ms_time \in Int /\ times[iter + 1] \in Int /\ times[iter + 1] - ms_time > Tolerance
BY TimesOfMS DEF TypeOK, InOrder, PastEnd, ms_time

LEMMA NextOnGrid ==
  ASSUME NEW f \in Int, NEW n \in Nat
  PROVE  f + (n + 1) * Interval = f + n * Interval + Interval
OBVIOUS

LEMMA SlotsType ==
  ASSUME TypeOK, NEW i \in DOMAIN slots
  PROVE  slots[i].time \in Int /\ slots[i].ms \in Nat
<1>1. slots[i] \in Slot BY DEF TypeOK
<1> QED BY <1>1 DEF Slot

(* The slots stay, and so does, or goes on, the slot of the MS.               *)
LEMMA AheadAfterSkip ==
  ASSUME OrderInv, InOrder(times), ~PastEnd, UNCHANGED <<times, slots, next_time>>,
         iter' = iter + 1
  PROVE  Ahead'
<1>0. TypeOK /\ Ahead BY DEF OrderInv, DataInv
<1> SUFFICES ASSUME NEW i \in DOMAIN slots
             PROVE  /\ slots[i].time < next_time
                    /\ slots[i].ms < iter + 1
                    /\ iter + 1 <= Len(times) => slots[i].time < times[iter + 1]
    BY <1>0, TimesOfMS DEF Ahead, PastEnd, ms_time, TypeOK
<1>1. slots[i].time \in Int /\ slots[i].ms \in Nat BY <1>0, SlotsType
<1>2. slots[i].time < next_time /\ slots[i].ms < iter /\ slots[i].time < ms_time
      BY <1>0 DEF Ahead
<1> QED BY <1>0, <1>1, <1>2, NextOfMS DEF TypeOK

LEMMA NeverBackAfterAppend ==
  ASSUME OrderInv, InOrder(times), TimesNeverGoBack, NEW e \in Slot,
         e.time = next_time, e.ms \in {0, iter}, slots' = Append(slots, e)
  PROVE  TimesNeverGoBack'
<1>0. TypeOK /\ Ahead /\ slots \in Seq(Slot) BY DEF OrderInv, DataInv, TypeOK
<1> SUFFICES ASSUME NEW i \in DOMAIN slots', NEW j \in DOMAIN slots', i < j
             PROVE  /\ slots'[i].time < slots'[j].time
                    /\ (slots'[i].ms # 0 /\ slots'[j].ms # 0) => slots'[i].ms < slots'[j].ms
    BY DEF TimesNeverGoBack
<1>1. i \in DOMAIN slots /\ slots'[i] = slots[i] BY <1>0, AppendedSlot
<1>2. CASE j \in DOMAIN slots
  <2>1. slots'[j] = slots[j] BY <1>0, <1>2, AppendedSlot
  <2> QED BY <1>1, <1>2, <2>1 DEF TimesNeverGoBack
<1>3. CASE j = Len(slots) + 1
  <2>1. slots'[j] = e BY <1>0, <1>3, AppendedSlot
  <2> QED BY <1>0, <1>1, <2>1 DEF Ahead
<1> QED BY <1>0, <1>2, <1>3, AppendedSlot

LEMMA NextOrder == OrderInv /\ [Next]_vars => OrderInv'
<1> SUFFICES ASSUME OrderInv, [Next]_vars PROVE OrderInv' OBVIOUS
<1>0. TypeOK /\ TypeOK' /\ DataInv /\ DataInv' BY NextData DEF OrderInv, DataInv
<1>t. ~PastEnd => ms_time \in Int BY <1>0, TimeOfSlot
<1>1. CASE SkipFirstTime
  <2> USE <1>1 DEF SkipFirstTime
  <2>1. slots' = <<>> BY DEF OrderInv
  <2> QED BY <1>0, <2>1 DEF OrderInv, OnGrid, Ahead, InsertsBefore, TimesNeverGoBack
<1>2. CASE EndSkipFirstTimes
  <2> USE <1>2 DEF EndSkipFirstTimes
  <2>1. slots' = <<>> BY DEF OrderInv
  <2>2. OnGrid'
    <3>1. nr_read' = 0 /\ nr_inserted' = 0 BY DEF OrderInv
    <3>2. first_time' \in Int /\ next_time' = first_time' BY <1>0 DEF TypeOK
    <3>3. (0 + 0) * Interval = 0 OBVIOUS
    <3> QED BY <3>1, <3>2, <3>3 DEF OnGrid
  <2> QED BY <1>0, <2>1, <2>2 DEF OrderInv, Ahead, InsertsBefore, TimesNeverGoBack
<1>3. CASE Process
  <2> USE <1>3 DEF Process
  <2> QED BY <1>0 DEF OrderInv, OnGrid, Ahead, PastEnd, ms_time, InsertsBefore, TimesNeverGoBack, InOrder
<1>4. CASE SkipTime
  <2> USE <1>4 DEF SkipTime, Skip
  <2>1. InOrder(times) => Ahead' BY AheadAfterSkip
  <2> QED BY <1>0, <2>1 DEF OrderInv, OnGrid, InsertsBefore, TimesNeverGoBack, InOrder
<1>5. CASE FindNear
  <2> USE <1>5 DEF FindNear
  <2> QED BY <1>0 DEF OrderInv, OnGrid, Ahead, PastEnd, ms_time, InsertsBefore, TimesNeverGoBack, InOrder
<1>6. CASE FindEarly
  <2> USE <1>6 DEF FindEarly
  <2>1. OnGrid'
    <3> DEFINE n == (nr_read + nr_inserted) * Interval
    <3>1. n \in Int /\ next_time = first_time + n BY <1>0 DEF OrderInv, OnGrid, TypeOK
    <3>2. n' = n OBVIOUS
    <3> HIDE DEF n
    <3>3. ms_time = first_time - (next_time - ms_time) + n BY <1>0, <1>t, <3>1 DEF TypeOK
    <3>4. next_time' = first_time' + n' BY <3>2, <3>3
    <3> QED BY <3>4 DEF OnGrid, n
  <2>2. InOrder(times) => Ahead'
        BY DEF OrderInv, Ahead, PastEnd, ms_time
  <2> QED BY <1>0, <2>1, <2>2 DEF OrderInv, InsertsBefore, TimesNeverGoBack, InOrder
<1>7. CASE FindNone
  <2> USE <1>7 DEF FindNone
  <2>1. InOrder(times) => InsertsBefore' BY <1>0, <1>t DEF InsertsBefore, PastEnd, ms_time, TypeOK
  <2> QED BY <1>0, <2>1 DEF OrderInv, OnGrid, Ahead, PastEnd, ms_time, TimesNeverGoBack, InOrder
<1>8. CASE Stop
  <2> USE <1>8 DEF Stop
  <2> QED BY <1>0 DEF OrderInv, OnGrid, Ahead, PastEnd, ms_time, InsertsBefore, TimesNeverGoBack, InOrder
<1>9. CASE UseSlot
  <2> USE <1>9 DEF UseSlot
  <2> DEFINE e == [time |-> next_time, ms |-> iter]
  <2>1. e \in Slot /\ e.time = next_time /\ e.ms = iter BY <1>0 DEF TypeOK, Slot
  <2>2. slots' = Append(slots, e) /\ slots \in Seq(Slot) BY <1>0 DEF TypeOK
  <2> HIDE DEF e
  <2>3. OnGrid' /\ next_time' = next_time + Interval
    <3>1. first_time \in Int /\ nr_read + nr_inserted \in Nat BY <1>0 DEF TypeOK
    <3>2. nr_read' + nr_inserted' = (nr_read + nr_inserted) + 1 BY <1>0 DEF TypeOK
    <3>3. next_time = first_time + (nr_read + nr_inserted) * Interval BY DEF OrderInv, OnGrid
    <3>4. next_time' = first_time + ((nr_read + nr_inserted) + 1) * Interval
          BY <3>2 DEF NextTime
    <3>5. next_time' = next_time + Interval BY <3>1, <3>3, <3>4, NextOnGrid
    <3> QED BY <3>2, <3>4, <3>5 DEF OnGrid
  <2>4. ASSUME InOrder(times) PROVE Ahead' /\ TimesNeverGoBack'
    <3>1. TimesNeverGoBack' BY <2>1, <2>2, <2>4, NeverBackAfterAppend DEF OrderInv
    <3>2. ~PastEnd /\ IsNear BY <1>0 DEF DataInv, FoundIsNear
    <3>3. SUFFICES ASSUME NEW i \in DOMAIN slots'
                   PROVE  /\ slots'[i].time < next_time + Interval
                          /\ slots'[i].ms < iter + 1
                          /\ iter + 1 <= Len(times) => slots'[i].time < times[iter + 1]
          BY <1>0, <2>3, <3>1, TimesOfMS DEF Ahead, PastEnd, ms_time, TypeOK
    <3>4. next_time \in Int /\ iter \in Nat BY <1>0 DEF TypeOK
    <3>5. CASE i \in DOMAIN slots
      <4>1. slots'[i] = slots[i] BY <2>1, <2>2, <3>5, AppendedSlot
      <4>2. slots[i].time \in Int /\ slots[i].ms \in Nat BY <1>0, <3>5, SlotsType
      <4>3. slots[i].time < next_time /\ slots[i].ms < iter /\ slots[i].time < ms_time
            BY <2>4, <3>2, <3>5 DEF OrderInv, Ahead
      <4>4. iter + 1 <= Len(times) => slots[i].time < times[iter + 1]
            BY <1>0, <1>t, <2>4, <3>2, <4>2, <4>3, NextOfMS
      <4> QED BY <3>4, <4>1, <4>2, <4>3, <4>4
    <3>6. CASE i = Len(slots) + 1
      <4>1. slots'[i] = e BY <2>1, <2>2, <3>6, AppendedSlot
      <4>2. next_time <= ms_time + Tolerance BY <1>t, <3>2, <3>4 DEF IsNear
      <4>3. next_time < next_time + Interval BY <3>4
      <4>4. iter < iter + 1 BY <3>4
      <4>5. iter + 1 <= Len(times) => next_time < times[iter + 1]
            BY <1>0, <1>t, <2>4, <3>2, <3>4, <4>2, NextOfMS
      <4> QED BY <2>1, <4>1, <4>3, <4>4, <4>5
    <3> QED BY <2>1, <2>2, <3>5, <3>6, AppendedSlot
  <2> QED BY <1>0, <2>3, <2>4 DEF OrderInv, InsertsBefore, InOrder
<1>10. CASE InsertSlot
  <2> USE <1>10 DEF InsertSlot
  <2> DEFINE e == [time |-> next_time, ms |-> 0]
  <2>1. e \in Slot /\ e.time = next_time /\ e.ms = 0 BY <1>0 DEF TypeOK, Slot
  <2>2. slots' = Append(slots, e) /\ slots \in Seq(Slot) BY <1>0 DEF TypeOK
  <2> HIDE DEF e
  <2>3. OnGrid' /\ next_time' = next_time + Interval
    <3>1. first_time \in Int /\ nr_read + nr_inserted \in Nat BY <1>0 DEF TypeOK
    <3>2. nr_read' + nr_inserted' = (nr_read + nr_inserted) + 1 BY <1>0 DEF TypeOK
    <3>3. next_time = first_time + (nr_read + nr_inserted) * Interval BY DEF OrderInv, OnGrid
    <3>4. next_time' = first_time + ((nr_read + nr_inserted) + 1) * Interval
          BY <3>2 DEF NextTime
    <3>5. next_time' = next_time + Interval BY <3>1, <3>3, <3>4, NextOnGrid
    <3> QED BY <3>2, <3>4, <3>5 DEF OnGrid
  <2>4. ASSUME InOrder(times) PROVE Ahead' /\ TimesNeverGoBack'
    <3>1. TimesNeverGoBack' BY <2>1, <2>2, <2>4, NeverBackAfterAppend DEF OrderInv
    <3>2. ~PastEnd => next_time < ms_time BY <2>4 DEF OrderInv, InsertsBefore
    <3>3. SUFFICES ASSUME NEW i \in DOMAIN slots'
                   PROVE  /\ slots'[i].time < next_time + Interval
                          /\ slots'[i].ms < iter
                          /\ ~PastEnd => slots'[i].time < ms_time
          BY <2>3, <3>1 DEF Ahead, PastEnd, ms_time
    <3>4. next_time \in Int /\ iter \in Nat /\ iter > 0 BY <1>0 DEF TypeOK
    <3>5. CASE i \in DOMAIN slots
      <4>1. slots'[i] = slots[i] BY <2>1, <2>2, <3>5, AppendedSlot
      <4>2. slots[i].time \in Int BY <1>0, <3>5, SlotsType
      <4>3. /\ slots[i].time < next_time /\ slots[i].ms < iter
            /\ ~PastEnd => slots[i].time < ms_time
            BY <2>4, <3>5 DEF OrderInv, Ahead
      <4> QED BY <3>4, <4>1, <4>2, <4>3
    <3>6. CASE i = Len(slots) + 1
      <4>1. slots'[i] = e BY <2>1, <2>2, <3>6, AppendedSlot
      <4>2. next_time < next_time + Interval BY <3>4
      <4> QED BY <2>1, <3>2, <3>4, <4>1, <4>2
    <3> QED BY <2>1, <2>2, <3>5, <3>6, AppendedSlot
  <2> QED BY <1>0, <2>3, <2>4 DEF OrderInv, InsertsBefore, InOrder
<1>11. CASE UNCHANGED vars
  BY <1>0, <1>11 DEF vars, OrderInv, OnGrid, Ahead, PastEnd, ms_time, InsertsBefore,
     TimesNeverGoBack, InOrder
<1> QED BY <1>1, <1>2, <1>3, <1>4, <1>5, <1>6, <1>7, <1>8, <1>9, <1>10, <1>11 DEF Next

(* Of every MS in time order, with irregular times and gaps, the slots that   *)
(* are given have increasing times, and none is given twice.                  *)
THEOREM GivenTimesIncrease == Spec => []TimesIncrease
<1>1. OrderInv => TimesIncrease BY DEF OrderInv, TimesIncrease
<1> QED BY <1>1, InitOrder, NextOrder, PTL DEF Spec

-----------------------------------------------------------------------------
(***************************************************************************)
(* Regular MSs.  All times are a whole number of intervals from the first  *)
(* time of the MS, so two of them are equal or an interval apart.          *)
(***************************************************************************)
OfGrid(t) == \E k \in Int : t = times[1] + k * Interval

LEMMA Apart ==
  ASSUME NEW k \in Int, NEW m \in Int, k < m
  PROVE  k * Interval + Interval <= m * Interval
<1>1. (m - k - 1) \in Nat OBVIOUS
<1>2. (m - k - 1) * Interval >= 0 BY <1>1
<1>3. (m - k - 1) * Interval = m * Interval - k * Interval - Interval OBVIOUS
<1> QED BY <1>2, <1>3

LEMMA GridStep ==
  ASSUME times[1] \in Int, NEW a, NEW b, OfGrid(a), OfGrid(b), a < b
  PROVE  a + Interval <= b
<1>1. PICK k \in Int : a = times[1] + k * Interval BY DEF OfGrid
<1>2. PICK m \in Int : b = times[1] + m * Interval BY DEF OfGrid
<1>3. k < m
  <2>1. SUFFICES ASSUME m <= k PROVE FALSE OBVIOUS
  <2>2. k * Interval \in Int /\ m * Interval \in Int OBVIOUS
  <2>3. CASE m = k BY <1>1, <1>2, <2>2, <2>3
  <2>4. CASE m < k BY <1>1, <1>2, <2>2, <2>4, Apart
  <2> QED BY <2>1, <2>3, <2>4
<1>4. k * Interval \in Int /\ m * Interval \in Int OBVIOUS
<1> QED BY <1>1, <1>2, <1>3, <1>4, Apart

LEMMA GridMoves ==
  ASSUME times[1] \in Int, NEW a, OfGrid(a), NEW n \in Int
  PROVE  OfGrid(a + n * Interval) /\ a \in Int
<1>1. PICK k \in Int : a = times[1] + k * Interval BY DEF OfGrid
<1>2. a + n * Interval = times[1] + (k + n) * Interval /\ a \in Int BY <1>1
<1>3. k + n \in Int OBVIOUS
<1>4. OfGrid(a + n * Interval) BY <1>2, <1>3 DEF OfGrid
<1> QED BY <1>2, <1>4

LEMMA DividesGrid ==
  ASSUME NEW x \in Int, x % Interval = 0
  PROVE  x = (x \div Interval) * Interval /\ x \div Interval \in Int
OBVIOUS

(***************************************************************************)
(* The times of a regular MS increase, not only from one to the next.      *)
(***************************************************************************)
LEMMA RegularTimes ==
  ASSUME TypeOK, Regular
  PROVE  /\ \A i \in DOMAIN times : OfGrid(times[i])
         /\ \A i, j \in DOMAIN times : i < j => times[i] < times[j]
<1> DEFINE L == Len(times)
           less == {ss \in Nat \X Nat : ss[1] < ss[2]}
<1>1. /\ L \in Nat \ {0} /\ DOMAIN times = 1 .. L
      /\ \A i \in 1 .. L : times[i] \in Nat \ {0}
  BY TimesOfMS DEF TypeOK
<1>2. ASSUME NEW i \in DOMAIN times PROVE OfGrid(times[i])
  <2>1. times[i] - times[1] \in Int BY <1>1, <1>2
  <2>2. (times[i] - times[1]) % Interval = 0 BY <1>2 DEF Regular
  <2> DEFINE k == (times[i] - times[1]) \div Interval
  <2>3. times[i] - times[1] = k * Interval /\ k \in Int BY <2>1, <2>2, DividesGrid
  <2> HIDE DEF k
  <2>4. times[i] = times[1] + k * Interval BY <1>1, <1>2, <2>3
  <2> QED BY <2>3, <2>4 DEF OfGrid
<1>3. ASSUME NEW i \in DOMAIN times PROVE \A j \in DOMAIN times : i < j => times[i] < times[j]
  <2> DEFINE B == {j \in DOMAIN times : i < j /\ ~(times[i] < times[j])}
  <2>1. SUFFICES ASSUME B # {} PROVE FALSE OBVIOUS
  <2>2. B \subseteq Nat BY <1>1
  <2>3. IsWellFoundedOn(less, Nat) BY NatLessThanWellFounded DEF OpToRel
  <2>4. PICK m \in B : \A j \in B : ~ (<<j, m>> \in less)
    <3> HIDE DEF B, less
    <3> QED BY <2>1, <2>2, <2>3, WFMin
  <2>5. /\ m \in 1 .. L /\ i \in 1 .. L /\ i < m /\ m - 1 \in 1 .. L
        /\ times[m - 1] < times[m]
    <3>1. m \in 1 .. L /\ i \in 1 .. L /\ i < m BY <1>1, <1>3
    <3>2. m > 1 /\ m - 1 \in 1 .. L BY <1>1, <3>1
    <3> QED BY <1>1, <3>1, <3>2 DEF Regular
  <2>6. CASE m - 1 = i BY <1>1, <2>5, <2>6
  <2>7. CASE i < m - 1
    <3>1. m - 1 \in Nat /\ m \in Nat /\ m - 1 < m BY <1>1, <2>5
    <3>2. m - 1 \notin B BY <2>4, <3>1
    <3>3. times[i] < times[m - 1] BY <1>1, <2>5, <2>7, <3>2
    <3> QED BY <1>1, <2>5, <3>3
  <2> QED BY <1>1, <2>5, <2>6, <2>7
<1> QED BY <1>2, <1>3

LEMMA RegularIsInOrder ==
  ASSUME TypeOK, Regular
  PROVE  InOrder(times)
<1>1. /\ Len(times) \in Nat \ {0} /\ DOMAIN times = 1 .. Len(times)
      /\ \A i \in 1 .. Len(times) : times[i] \in Nat \ {0}
  BY TimesOfMS DEF TypeOK
<1> SUFFICES ASSUME NEW i \in 2 .. Len(times) PROVE times[i] - times[i - 1] > Tolerance
  BY DEF InOrder
<1>2. i \in 1 .. Len(times) /\ i - 1 \in 1 .. Len(times) /\ i - 1 < i BY <1>1
<1>3. times[i - 1] + Interval <= times[i]
  BY <1>1, <1>2, RegularTimes, GridStep
<1>4. times[i] \in Int /\ times[i - 1] \in Int BY <1>1, <1>2
<1> QED BY <1>3, <1>4

(***************************************************************************)
(* From a time of the grid to a later one is a number of intervals.        *)
(***************************************************************************)
LEMMA GridDistance ==
  ASSUME times[1] \in Int, NEW a, NEW b, OfGrid(a), OfGrid(b), a <= b
  PROVE  \E n \in Nat : b = a + n * Interval
<1>1. PICK k \in Int : a = times[1] + k * Interval BY DEF OfGrid
<1>2. PICK m \in Int : b = times[1] + m * Interval BY DEF OfGrid
<1>3. k <= m
  <2>1. SUFFICES ASSUME m < k PROVE FALSE OBVIOUS
  <2>2. k * Interval \in Int /\ m * Interval \in Int OBVIOUS
  <2> QED BY <1>1, <1>2, <2>1, <2>2, Apart
<1>4. m - k \in Nat BY <1>3
<1>5. b = a + (m - k) * Interval BY <1>1, <1>2
<1> QED BY <1>4, <1>5

LEMMA QuotientIs ==
  ASSUME NEW x \in Int, NEW d \in Nat \ {0}, NEW q \in Int, q * d <= x, x < q * d + d
  PROVE  x \div d = q
<1> DEFINE p == x \div d
<1>1. p \in Int /\ p * d <= x /\ x < p * d + d OBVIOUS
<1> HIDE DEF p
<1>2. ~(p < q)
  <2>1. SUFFICES ASSUME p < q PROVE FALSE OBVIOUS
  <2>2. q - p - 1 \in Nat BY <1>1, <2>1
  <2>3. (q - p - 1) * d >= 0 BY <2>2
  <2>4. (q - p - 1) * d = q * d - p * d - d BY <1>1
  <2>5. q * d \in Int /\ p * d \in Int BY <1>1
  <2> QED BY <1>1, <2>3, <2>4, <2>5
<1>3. ~(q < p)
  <2>1. SUFFICES ASSUME q < p PROVE FALSE OBVIOUS
  <2>2. p - q - 1 \in Nat BY <1>1, <2>1
  <2>3. (p - q - 1) * d >= 0 BY <2>2
  <2>4. (p - q - 1) * d = p * d - q * d - d BY <1>1
  <2>5. q * d \in Int /\ p * d \in Int BY <1>1
  <2> QED BY <1>1, <2>3, <2>4, <2>5
<1>4. p = q BY <1>1, <1>2, <1>3
<1> QED BY <1>4 DEF p

(***************************************************************************)
(* The number of slots that is announced.                                  *)
(***************************************************************************)
LEMMA NrSlotsOfGrid ==
  ASSUME NEW f \in Int, NEW n \in Nat
  PROVE  NrSlots(f, f + n * Interval) = n + 1
<1> DEFINE l == f + n * Interval
           x == 2 * (l - f) + 3 * Interval
           d == 2 * Interval
<1>1. n * Interval \in Int OBVIOUS
<1>2. x = 2 * (n * Interval) + 3 * Interval BY <1>1
<1>3. (n + 1) * d = 2 * (n * Interval) + 2 * Interval OBVIOUS
<1>4. x \in Int /\ d \in Nat \ {0} /\ n + 1 \in Int BY <1>1, <1>2
<1>5. (n + 1) * d <= x /\ x < (n + 1) * d + d BY <1>1, <1>2, <1>3
<1> HIDE DEF x, d
<1>6. x \div d = n + 1 BY <1>4, <1>5, QuotientIs
<1> QED BY <1>6 DEF NrSlots, x, d, l

(***************************************************************************)
(* What is given of a regular MS: the slots before next_time are given,    *)
(* the MS is at the first of its slots that is not before next_time, and   *)
(* the slots that were inserted are not in the MS.                         *)
(***************************************************************************)
Reached == IF pc = "skip" THEN first_time ELSE next_time

RangeIsOfGrid ==
    /\ OfGrid(first_time) /\ OfGrid(last_time)
    /\ first_time > 0 /\ first_time <= last_time

MSIsReached ==
    /\ \A k \in DOMAIN times : k < iter => times[k] < Reached
    /\ (pc # "skip" /\ ~PastEnd) => next_time <= ms_time
    /\ ~PastEnd => InTimeOrder

Counted ==
    /\ nr_read + nr_inserted = Len(slots)
    /\ pc # "skip" =>
          /\ ntime * Interval = last_time - first_time + Interval
          /\ Len(slots) <= ntime
    /\ pc = "finished" => Len(slots) = ntime

SlotsOfGrid ==
    \A i \in DOMAIN slots :
        /\ slots[i].time = first_time + (i - 1) * Interval
        /\ slots[i].ms = 0 => \A k \in DOMAIN times : times[k] # slots[i].time

GapInv ==
    /\ OrderInv
    /\ Regular => RangeIsOfGrid /\ MSIsReached /\ Counted /\ SlotsOfGrid

LEMMA InitGap == Init => GapInv
<1> SUFFICES ASSUME Init PROVE GapInv OBVIOUS
<1> USE DEF Init
<1>0. OrderInv /\ TypeOK BY InitOrder, InitType
<1>1. /\ Len(times) \in Nat \ {0} /\ DOMAIN times = 1 .. Len(times)
      /\ \A i \in 1 .. Len(times) : times[i] \in Nat \ {0}
  BY TimesOfMS
<1> SUFFICES ASSUME Regular PROVE RangeIsOfGrid /\ MSIsReached /\ Counted /\ SlotsOfGrid
  BY <1>0 DEF GapInv
<1>2. OfGrid(times[1]) /\ OfGrid(times[Len(times)]) BY <1>0, <1>1, RegularTimes
<1>3. RangeIsOfGrid
  <2>1. OfGrid(first_time) /\ first_time > 0
    <3>1. PICK s \in StartSlots : first_time = times[1] + s * Interval OBVIOUS
    <3>2. s \in Int OBVIOUS
    <3>3. first_time > 0 BY <3>1, StartAssumption
    <3> QED BY <3>1, <3>2, <3>3 DEF OfGrid
  <2>2. OfGrid(last_time)
    <3>1. CASE last_time = times[Len(times)] BY <1>2, <3>1
    <3>2. CASE \E e \in EndSlots :
                  last_time = times[1]
                              + ((times[Len(times)] - times[1]) \div Interval - e) * Interval
      <4>1. PICK e \in EndSlots :
               last_time = times[1]
                           + ((times[Len(times)] - times[1]) \div Interval - e) * Interval
        BY <3>2
      <4>2. times[Len(times)] - times[1] \in Int BY <1>1
      <4>3. (times[Len(times)] - times[1]) \div Interval - e \in Int BY <4>2, Quotient
      <4> QED BY <4>1, <4>3 DEF OfGrid
    <3> QED BY <3>1, <3>2
  <2> QED BY <2>1, <2>2 DEF RangeIsOfGrid
<1>4. MSIsReached BY <1>1 DEF MSIsReached, InTimeOrder, ms_time
<1>5. Counted /\ SlotsOfGrid BY DEF Counted, SlotsOfGrid
<1> QED BY <1>3, <1>4, <1>5

(***************************************************************************)
(* The range is settled: a regular MS moves no start.                      *)
(***************************************************************************)
LEMMA FirstTimeStays ==
  ASSUME TypeOK, Regular, RangeIsOfGrid, ~PastEnd => ms_time >= first_time
  PROVE  /\ TrueFirstTime = first_time
         /\ OfGrid(LastTime(first_time)) /\ first_time <= LastTime(first_time)
         /\ NrSlots(first_time, LastTime(first_time)) * Interval
               = LastTime(first_time) - first_time + Interval
         /\ NrSlots(first_time, LastTime(first_time)) \in Nat
<1>0. /\ Len(times) \in Nat \ {0} /\ DOMAIN times = 1 .. Len(times) /\ times[1] \in Int
      /\ first_time \in Int /\ last_time \in Int
  BY TimesOfMS DEF TypeOK
<1>1. TrueFirstTime = first_time
  <2>1. CASE PastEnd BY <2>1 DEF TrueFirstTime
  <2>2. CASE ~PastEnd
    <3>1. iter \in DOMAIN times BY <1>0, <2>2 DEF PastEnd, TypeOK
    <3>2. OfGrid(ms_time) /\ first_time <= ms_time /\ ms_time \in Int
      BY <1>0, <2>2, <3>1, RegularTimes, TimeOfSlot DEF ms_time
    <3>3. PICK n \in Nat : ms_time = first_time + n * Interval
      BY <1>0, <3>2, GridDistance DEF RangeIsOfGrid
    <3>4. n * Interval \in Int /\ ms_time - first_time = n * Interval BY <1>0, <3>3
    <3>5. (ms_time - first_time) \div Interval = n
      <4>1. n * Interval <= n * Interval /\ n * Interval < n * Interval + Interval BY <3>4
      <4>2. (n * Interval) \div Interval = n BY <3>4, <4>1, QuotientIs
      <4> QED BY <3>4, <4>2
    <3> QED BY <1>0, <2>2, <3>2, <3>4, <3>5 DEF TrueFirstTime
  <2> QED BY <2>1, <2>2
<1>2. PICK n \in Nat : LastTime(first_time) = first_time + n * Interval
  <2>1. CASE n_times > 0
    <3>1. n_times - 1 \in Nat BY <2>1 DEF TypeOK
    <3> QED BY <2>1, <3>1 DEF LastTime
  <2>2. CASE ~(n_times > 0)
    <3>1. LastTime(first_time) = last_time BY <2>2 DEF LastTime
    <3> QED BY <1>0, <3>1, GridDistance DEF RangeIsOfGrid
  <2> QED BY <2>1, <2>2
<1>3. n * Interval \in Nat OBVIOUS
<1>4. OfGrid(LastTime(first_time)) BY <1>0, <1>2, GridMoves DEF RangeIsOfGrid
<1>5. NrSlots(first_time, LastTime(first_time)) = n + 1 BY <1>0, <1>2, NrSlotsOfGrid
<1>6. (n + 1) * Interval = n * Interval + Interval OBVIOUS
<1> QED BY <1>0, <1>1, <1>2, <1>3, <1>4, <1>5, <1>6

LEMMA Fewer ==
  ASSUME NEW k \in Int, NEW m \in Int, k * Interval + Interval <= m * Interval
  PROVE  k + 1 <= m
<1>1. SUFFICES ASSUME m <= k PROVE FALSE OBVIOUS
<1>2. k * Interval \in Int /\ m * Interval \in Int OBVIOUS
<1>3. CASE m = k BY <1>2, <1>3
<1>4. CASE m < k BY <1>2, <1>4, Apart
<1> QED BY <1>1, <1>3, <1>4

(***************************************************************************)
(* While process() runs: the time it looks for is on the grid and not yet  *)
(* in the MS, or it is the time of the slot at which the MS is.            *)
(***************************************************************************)
LEMMA WhileReading ==
  ASSUME GapInv, Regular, pc # "skip"
  PROVE  /\ OfGrid(next_time) /\ next_time \in Int /\ next_time > 0
         /\ next_time - first_time = Len(slots) * Interval
         /\ first_time \in Int /\ last_time \in Int /\ Len(slots) \in Nat
         /\ ~PastEnd => /\ iter \in DOMAIN times
                        /\ ms_time \in Int /\ OfGrid(ms_time) /\ next_time <= ms_time
         /\ \A k \in DOMAIN times : k < iter \/ ~PastEnd
<1>0. TypeOK /\ OrderInv /\ RangeIsOfGrid /\ MSIsReached /\ Counted
  BY DEF GapInv, OrderInv, DataInv
<1>1. /\ Len(times) \in Nat \ {0} /\ DOMAIN times = 1 .. Len(times) /\ times[1] \in Int
      /\ first_time \in Int /\ last_time \in Int /\ next_time \in Int /\ iter \in Nat \ {0}
      /\ Len(slots) \in Nat
  BY <1>0, TimesOfMS DEF TypeOK
<1>2. next_time = first_time + Len(slots) * Interval
  BY <1>0 DEF OrderInv, OnGrid, Counted
<1>3. Len(slots) * Interval \in Nat BY <1>1
<1>4. OfGrid(next_time) BY <1>0, <1>1, <1>2, GridMoves DEF RangeIsOfGrid
<1>5. next_time > 0 BY <1>0, <1>1, <1>2, <1>3 DEF RangeIsOfGrid
<1>6. ASSUME ~PastEnd
      PROVE  /\ iter \in DOMAIN times
             /\ ms_time \in Int /\ OfGrid(ms_time) /\ next_time <= ms_time
  <2>1. iter \in DOMAIN times BY <1>1, <1>6 DEF PastEnd
  <2> QED BY <1>0, <1>6, <2>1, RegularTimes, TimeOfSlot DEF ms_time, MSIsReached
<1>7. \A k \in DOMAIN times : k < iter \/ ~PastEnd BY <1>1 DEF PastEnd
<1> QED BY <1>1, <1>2, <1>3, <1>4, <1>5, <1>6, <1>7

LEMMA UsedIsNext ==
  ASSUME GapInv, Regular, pc # "skip", ~PastEnd, IsNear
  PROVE  ms_time = next_time
<1>1. /\ next_time \in Int /\ ms_time \in Int /\ OfGrid(next_time) /\ OfGrid(ms_time)
      /\ next_time <= ms_time
  BY WhileReading
<1>2. ms_time <= next_time + Tolerance BY <1>1 DEF IsNear
<1>3. times[1] \in Int BY TimesOfMS DEF GapInv, OrderInv, DataInv, TypeOK
<1>4. next_time < ms_time => next_time + Interval <= ms_time BY <1>1, <1>3, GridStep
<1> QED BY <1>1, <1>2, <1>4

(***************************************************************************)
(* A slot is added: there is room for it in the number that was announced. *)
(***************************************************************************)
LEMMA RoomForSlot ==
  ASSUME GapInv, Regular, pc # "skip", ~AtEnd
  PROVE  Len(slots) + 1 <= ntime
<1>1. /\ next_time \in Int /\ first_time \in Int /\ last_time \in Int /\ Len(slots) \in Nat
      /\ next_time - first_time = Len(slots) * Interval
  BY WhileReading
<1>2. next_time <= last_time BY <1>1 DEF AtEnd
<1>3. ntime \in Int /\ ntime * Interval = last_time - first_time + Interval
  BY DEF GapInv, Counted, OrderInv, DataInv, TypeOK
<1>4. Len(slots) * Interval + Interval <= ntime * Interval BY <1>1, <1>2, <1>3
<1> QED BY <1>1, <1>3, <1>4, Fewer

LEMMA AddedSlot ==
  ASSUME GapInv, Regular, pc # "skip", NEW e \in Slot, slots' = Append(slots, e),
         e.time = next_time, UNCHANGED <<times, first_time>>,
         e.ms = 0 => \A k \in DOMAIN times : times[k] # next_time
  PROVE  SlotsOfGrid' /\ Len(slots') = Len(slots) + 1
<1>0. SlotsOfGrid /\ slots \in Seq(Slot) BY DEF GapInv, OrderInv, DataInv, TypeOK
<1>1. /\ Len(slots) \in Nat /\ first_time \in Int /\ next_time \in Int
      /\ next_time - first_time = Len(slots) * Interval
  BY WhileReading
<1>2. SUFFICES ASSUME NEW i \in DOMAIN slots'
               PROVE  /\ slots'[i].time = first_time + (i - 1) * Interval
                      /\ slots'[i].ms = 0 => \A k \in DOMAIN times : times[k] # slots'[i].time
  BY <1>0, AppendedSlot DEF SlotsOfGrid
<1>3. CASE i \in DOMAIN slots
  <2>1. slots'[i] = slots[i] BY <1>0, <1>3, AppendedSlot
  <2> QED BY <1>0, <1>3, <2>1 DEF SlotsOfGrid
<1>4. CASE i = Len(slots) + 1
  <2>1. slots'[i] = e /\ i - 1 = Len(slots) BY <1>0, <1>1, <1>4, AppendedSlot
  <2>2. Len(slots) * Interval \in Int BY <1>1
  <2>3. (i - 1) * Interval = Len(slots) * Interval BY <2>1
  <2>4. next_time = first_time + (i - 1) * Interval BY <1>1, <2>2, <2>3
  <2> QED BY <2>1, <2>4
<1> QED BY <1>0, <1>2, <1>3, <1>4, AppendedSlot

LEMMA NextGap == GapInv /\ [Next]_vars => GapInv'
<1> SUFFICES ASSUME GapInv, [Next]_vars PROVE GapInv' OBVIOUS
<1>0. OrderInv /\ OrderInv' /\ TypeOK /\ TypeOK'
  BY NextOrder DEF GapInv, OrderInv, DataInv
<1>r. times' = times /\ Regular' = Regular
  <2>1. times' = times
    BY DEF Next, vars, SkipFirstTime, EndSkipFirstTimes, Process, SkipTime, FindNear,
           FindEarly, FindNone, Stop, UseSlot, InsertSlot
  <2> QED BY <2>1 DEF Regular
<1> SUFFICES ASSUME Regular
             PROVE  RangeIsOfGrid' /\ MSIsReached' /\ Counted' /\ SlotsOfGrid'
  BY <1>0, <1>r DEF GapInv
<1>g. RangeIsOfGrid /\ MSIsReached /\ Counted /\ SlotsOfGrid BY DEF GapInv
<1>m. /\ Len(times) \in Nat \ {0} /\ DOMAIN times = 1 .. Len(times) /\ times[1] \in Int
      /\ iter \in Nat \ {0} /\ \A i \in DOMAIN times : times[i] \in Int
  <2>1. times \in TimeLists /\ iter \in Nat \ {0} BY <1>0 DEF TypeOK
  <2> QED BY <2>1, TimesOfMS
<1>o. InsertsBefore /\ FoundIsNear
  BY <1>0, RegularIsInOrder DEF OrderInv, DataInv
\* The slot of the MS that follows.
<1>n. ASSUME ~PastEnd, iter + 1 \in DOMAIN times
      PROVE  ms_time \in Int /\ times[iter + 1] \in Int /\ ms_time < times[iter + 1]
             /\ OfGrid(ms_time) /\ OfGrid(times[iter + 1])
  <2>1. iter \in DOMAIN times /\ iter < iter + 1 BY <1>m, <1>n DEF PastEnd
  <2> QED BY <1>0, <1>m, <1>n, <2>1, RegularTimes DEF ms_time
<1>1. CASE SkipFirstTime
  <2> USE <1>1 DEF SkipFirstTime, Skip
  <2>1. RangeIsOfGrid' /\ Counted' /\ SlotsOfGrid'
    BY <1>g, <1>r DEF RangeIsOfGrid, OfGrid, Counted, SlotsOfGrid
  <2>2. ms_time < first_time BY <1>g DEF MSIsReached
  <2>3. MSIsReached'
    <3>1. ASSUME NEW k \in DOMAIN times, k < iter + 1 PROVE times[k] < first_time
      <4>1. k = iter \/ k < iter BY <1>m, <3>1
      <4> QED BY <1>g, <2>2, <4>1 DEF MSIsReached, Reached, ms_time
    <3>2. ASSUME ~PastEnd' PROVE InTimeOrder'
      <4>1. iter + 1 \in DOMAIN times BY <1>m, <3>2 DEF PastEnd
      <4> QED BY <1>n, <4>1 DEF InTimeOrder, ms_time
    <3> QED BY <1>r, <3>1, <3>2 DEF MSIsReached, Reached
  <2> QED BY <2>1, <2>3
<1>2. CASE EndSkipFirstTimes
  <2> USE <1>2 DEF EndSkipFirstTimes
  <2>1. /\ first_time' = first_time /\ next_time' = first_time
        /\ OfGrid(last_time') /\ first_time <= last_time'
        /\ ntime' * Interval = last_time' - first_time + Interval /\ ntime' \in Nat
    BY <1>0, <1>g, FirstTimeStays
  <2>2. slots' = <<>> /\ nr_read' = 0 /\ nr_inserted' = 0 BY <1>0 DEF OrderInv
  <2>3. RangeIsOfGrid' BY <1>g, <1>r, <2>1 DEF RangeIsOfGrid, OfGrid
  <2>4. MSIsReached' BY <1>g, <2>1 DEF MSIsReached, Reached, PastEnd, ms_time, InTimeOrder
  <2>5. Counted' BY <2>1, <2>2 DEF Counted
  <2>6. SlotsOfGrid' BY <2>2 DEF SlotsOfGrid
  <2> QED BY <2>3, <2>4, <2>5, <2>6
\* Actions that look, and change no more than pc.
<1>s. ASSUME pc # "skip", pc' \notin {"skip", "finished"},
             UNCHANGED <<times, iter, first_time, last_time, next_time, last_ms_time, nr_read,
                         nr_inserted, ntime, slots>>
      PROVE  RangeIsOfGrid' /\ MSIsReached' /\ Counted' /\ SlotsOfGrid'
  BY <1>g, <1>s DEF RangeIsOfGrid, OfGrid, MSIsReached, Reached, PastEnd, ms_time, InTimeOrder,
                    Counted, SlotsOfGrid
<1>3. CASE Process BY <1>3, <1>s DEF Process
<1>4. CASE SkipTime
  <2> USE <1>4 DEF SkipTime
  <2>1. /\ next_time \in Int /\ ms_time \in Int /\ next_time <= ms_time
    BY WhileReading
  <2>2. ~IsNear /\ ms_time <= next_time BY <1>g DEF MSIsReached
  <2>3. IsNear BY <2>1, <2>2 DEF IsNear
  <2> QED BY <2>2, <2>3
<1>5. CASE FindNear BY <1>5, <1>s DEF FindNear
<1>6. CASE FindEarly
  <2> USE <1>6 DEF FindEarly
  <2>1. next_time \in Int /\ ms_time \in Int /\ next_time <= ms_time BY WhileReading
  <2> QED BY <2>1 DEF IsEarly
<1>7. CASE FindNone BY <1>7, <1>s DEF FindNone
<1>8. CASE Stop
  <2> USE <1>8 DEF Stop
  <2>1. RangeIsOfGrid' /\ MSIsReached' /\ SlotsOfGrid'
    BY <1>g DEF RangeIsOfGrid, OfGrid, MSIsReached, Reached, PastEnd, ms_time, InTimeOrder,
                SlotsOfGrid
  <2>2. /\ OfGrid(next_time) /\ next_time \in Int /\ next_time > 0
        /\ next_time - first_time = Len(slots) * Interval
        /\ first_time \in Int /\ last_time \in Int /\ Len(slots) \in Nat
    BY WhileReading
  <2>3. last_time < next_time BY <2>2 DEF AtEnd
  <2>4. last_time + Interval <= next_time BY <1>g, <1>m, <2>2, <2>3, GridStep DEF RangeIsOfGrid
  <2>5. ntime \in Int /\ ntime * Interval = last_time - first_time + Interval /\ Len(slots) <= ntime
    BY <1>0, <1>g DEF Counted, TypeOK
  <2>6. ntime * Interval + Interval <= (Len(slots) + 1) * Interval
    <3>1. (Len(slots) + 1) * Interval = Len(slots) * Interval + Interval BY <2>2
    <3>2. Len(slots) * Interval \in Int BY <2>2
    <3> QED BY <2>2, <2>4, <2>5, <3>1, <3>2
  <2>7. ntime + 1 <= Len(slots) + 1 BY <2>2, <2>5, <2>6, Fewer
  <2>8. Len(slots) = ntime BY <2>2, <2>5, <2>7
  <2>9. Counted' BY <1>g, <2>8 DEF Counted
  <2> QED BY <2>1, <2>9
<1>9. CASE UseSlot
  <2> USE <1>9 DEF UseSlot
  <2> DEFINE e == [time |-> next_time, ms |-> iter]
  <2>0. ~PastEnd /\ ms_time = next_time /\ next_time \in Int
    BY <1>o, UsedIsNext, WhileReading DEF FoundIsNear
  <2>1. e \in Slot /\ e.time = next_time /\ e.ms # 0 BY <1>m, <2>0 DEF Slot
  <2>2. slots' = Append(slots, e) OBVIOUS
  <2> HIDE DEF e
  <2>3. SlotsOfGrid' /\ Len(slots') = Len(slots) + 1
    BY <1>r, <2>1, <2>2, AddedSlot
  <2>4. RangeIsOfGrid' BY <1>g DEF RangeIsOfGrid, OfGrid
  <2>5. Counted'
    <3>1. Len(slots) + 1 <= ntime BY RoomForSlot
    <3>2. nr_read' + nr_inserted' = Len(slots) + 1
      BY <1>0, <1>g DEF Counted, TypeOK
    <3>3. ntime * Interval = last_time - first_time + Interval BY <1>g DEF Counted
    <3> QED BY <2>3, <3>1, <3>2, <3>3 DEF Counted
  <2>6. next_time' = next_time + Interval
    <3>1. Len(slots) \in Nat /\ first_time \in Int
          /\ next_time - first_time = Len(slots) * Interval
      BY WhileReading
    <3>2. next_time' = first_time + (Len(slots) + 1) * Interval
      <4>1. nr_read' + nr_inserted' = Len(slots) + 1 BY <1>0, <1>g DEF Counted, TypeOK
      <4> QED BY <4>1 DEF NextTime
    <3>3. Len(slots) * Interval \in Int BY <3>1
    <3> QED BY <2>0, <3>1, <3>2, <3>3, NextOnGrid
  <2>7. MSIsReached'
    <3>1. ASSUME NEW k \in DOMAIN times, k < iter + 1 PROVE times[k] < next_time + Interval
      <4>1. k = iter \/ k < iter BY <1>m, <3>1
      <4>2. times[k] <= next_time
        BY <1>g, <1>m, <2>0, <4>1 DEF MSIsReached, Reached, ms_time
      <4> QED BY <1>m, <2>0, <4>2
    <3>2. ASSUME ~PastEnd' PROVE next_time + Interval <= times[iter + 1] /\ InTimeOrder'
      <4>1. iter + 1 \in DOMAIN times BY <1>m, <3>2 DEF PastEnd
      <4>2. ms_time + Interval <= times[iter + 1] BY <1>m, <1>n, <2>0, <4>1, GridStep
      <4> QED BY <1>n, <2>0, <4>1, <4>2 DEF InTimeOrder, ms_time
    <3> QED BY <1>r, <2>6, <3>1, <3>2 DEF MSIsReached, Reached, ms_time
  <2> QED BY <2>3, <2>4, <2>5, <2>7
<1>10. CASE InsertSlot
  <2> USE <1>10 DEF InsertSlot
  <2> DEFINE e == [time |-> next_time, ms |-> 0]
  <2>0. next_time \in Int /\ (~PastEnd => ms_time \in Int /\ OfGrid(ms_time) /\ iter \in DOMAIN times)
        /\ OfGrid(next_time)
    BY WhileReading
  <2>1. e \in Slot /\ e.time = next_time /\ e.ms = 0 BY <2>0 DEF Slot
  <2>2. slots' = Append(slots, e) OBVIOUS
  <2> HIDE DEF e
  <2>3. ~PastEnd => next_time < ms_time BY <1>o DEF InsertsBefore
  <2>4. ASSUME NEW k \in DOMAIN times PROVE times[k] # next_time
    <3>1. CASE k < iter BY <1>g, <1>m, <2>0, <3>1 DEF MSIsReached, Reached
    <3>2. CASE ~(k < iter)
      <4>1. ~PastEnd /\ (k = iter \/ iter < k) BY <1>m, <2>4, <3>2 DEF PastEnd
      <4>2. ms_time <= times[k]
        BY <1>0, <1>m, <2>0, <2>4, <4>1, RegularTimes DEF ms_time
      <4> QED BY <1>m, <2>0, <2>3, <4>1, <4>2
    <3> QED BY <3>1, <3>2
  <2>5. SlotsOfGrid' /\ Len(slots') = Len(slots) + 1
    BY <1>r, <2>1, <2>2, <2>4, AddedSlot
  <2>6. RangeIsOfGrid' BY <1>g DEF RangeIsOfGrid, OfGrid
  <2>7. Counted'
    <3>1. Len(slots) + 1 <= ntime BY RoomForSlot
    <3>2. nr_read' + nr_inserted' = Len(slots) + 1
      BY <1>0, <1>g DEF Counted, TypeOK
    <3>3. ntime * Interval = last_time - first_time + Interval BY <1>g DEF Counted
    <3> QED BY <2>5, <3>1, <3>2, <3>3 DEF Counted
  <2>8. next_time' = next_time + Interval
    <3>1. Len(slots) \in Nat /\ first_time \in Int
          /\ next_time - first_time = Len(slots) * Interval
      BY WhileReading
    <3>2. next_time' = first_time + (Len(slots) + 1) * Interval
      <4>1. nr_read' + nr_inserted' = Len(slots) + 1 BY <1>0, <1>g DEF Counted, TypeOK
      <4> QED BY <4>1 DEF NextTime
    <3>3. Len(slots) * Interval \in Int BY <3>1
    <3> QED BY <2>0, <3>1, <3>2, <3>3, NextOnGrid
  <2>9. MSIsReached'
    <3>1. ASSUME NEW k \in DOMAIN times, k < iter PROVE times[k] < next_time + Interval
      <4>1. times[k] < next_time BY <1>g, <3>1 DEF MSIsReached, Reached
      <4> QED BY <1>m, <2>0, <4>1
    <3>2. ASSUME ~PastEnd PROVE next_time + Interval <= ms_time
      BY <1>m, <2>0, <2>3, <3>2, GridStep
    <3> QED BY <1>g, <1>r, <2>8, <3>1, <3>2 DEF MSIsReached, Reached, PastEnd, ms_time, InTimeOrder
  <2> QED BY <2>5, <2>6, <2>7, <2>9
<1>11. CASE UNCHANGED vars
  BY <1>g, <1>11 DEF vars, RangeIsOfGrid, OfGrid, MSIsReached, Reached, PastEnd, ms_time,
     InTimeOrder, Counted, SlotsOfGrid
<1> QED BY <1>1, <1>2, <1>3, <1>4, <1>5, <1>6, <1>7, <1>8, <1>9, <1>10, <1>11 DEF Next

(* Of every regular MS, for every range of times before, in or after it, the  *)
(* slots are the times of the range one by one: those of the MS where it has  *)
(* them, inserted ones where it does not, as many as info().ntime() says.     *)
THEOREM EveryGapIsFilled == Spec => []GapsAreFilled
<1>1. GapInv => GapsAreFilled BY DEF GapInv, GapsAreFilled, Counted, SlotsOfGrid
<1> QED BY <1>1, InitGap, NextGap, PTL DEF Spec

-----------------------------------------------------------------------------
(***************************************************************************)
(* MSs whose times are within the tolerance of a grid.  No slot of such an *)
(* MS is early or passed over while it is read, so the grid that the       *)
(* reader starts with stays, and slot n is the one of its time n.          *)
(***************************************************************************)
LEMMA TolerableTimes ==
  ASSUME TypeOK, Tolerated
  PROVE  /\ InOrder(times)
         /\ \A i \in DOMAIN times : times[i] \in Int
         /\ \A i \in DOMAIN times : i + 1 \in DOMAIN times =>
               times[i + 1] > times[i] + 2 * Tolerance
<1>1. /\ Len(times) \in Nat \ {0} /\ DOMAIN times = 1 .. Len(times)
      /\ \A i \in 1 .. Len(times) : times[i] \in Nat \ {0}
  BY TimesOfMS DEF TypeOK
<1>2. ASSUME NEW i \in DOMAIN times, i + 1 \in DOMAIN times
      PROVE  times[i + 1] > times[i] + 2 * Tolerance
  <2>1. times[i + 1] - times[i] > 2 * Tolerance BY <1>1, <1>2 DEF Tolerated
  <2> QED BY <1>1, <1>2, <2>1
<1>3. ASSUME NEW i \in 2 .. Len(times) PROVE times[i] - times[i - 1] > Tolerance
  <2>1. i \in DOMAIN times /\ i - 1 \in DOMAIN times /\ (i - 1) + 1 = i BY <1>1
  <2>2. times[i] > times[i - 1] + 2 * Tolerance BY <1>2, <2>1
  <2>3. times[i] \in Int /\ times[i - 1] \in Int BY <1>1, <2>1
  <2> QED BY <2>2, <2>3
<1> QED BY <1>1, <1>2, <1>3 DEF InOrder

LEMMA Remainder ==
  ASSUME NEW x \in Int, NEW k \in Int
  PROVE  (x + k * Interval) % Interval = x % Interval
<1> DEFINE q == x \div Interval
           r == x % Interval
           y == x + k * Interval
<1>1. q \in Int /\ r \in Int /\ 0 <= r /\ r < Interval /\ x = q * Interval + r OBVIOUS
<1> HIDE DEF q, r
<1>2. q * Interval \in Int /\ k * Interval \in Int /\ (q + k) * Interval = q * Interval + k * Interval
  BY <1>1
<1>3. y = (q + k) * Interval + r /\ y \in Int /\ q + k \in Int BY <1>1, <1>2
<1> HIDE DEF y
<1>4. (q + k) * Interval <= y /\ y < (q + k) * Interval + Interval BY <1>1, <1>2, <1>3
<1>5. y \div Interval = q + k BY <1>3, <1>4, QuotientIs
<1>6. y = (y \div Interval) * Interval + (y % Interval) /\ (y % Interval) \in Int BY <1>3
<1>7. y % Interval = r BY <1>1, <1>2, <1>3, <1>5, <1>6
<1> QED BY <1>7 DEF y, r

(* A time after the tolerance of slot n is not before that of the next slot.  *)
LEMMA NotBeforeNext ==
  ASSUME NEW f \in Int, NEW n \in Nat, NEW a \in Int,
         (a - f + Tolerance) % Interval <= 2 * Tolerance,
         a > f + n * Interval + Tolerance
  PROVE  a >= f + n * Interval + Interval - Tolerance
<1> DEFINE x == a - f + Tolerance
           q == x \div Interval
           r == x % Interval
<1>1. x \in Int /\ Tolerance \in Nat OBVIOUS
<1> HIDE DEF x
<1>2. q \in Int /\ r \in Int /\ 0 <= r /\ x = q * Interval + r BY <1>1
<1>3. r <= 2 * Tolerance BY DEF x
<1> HIDE DEF q, r
<1>4. q * Interval \in Int /\ n * Interval \in Int BY <1>2
<1>5. q * Interval > n * Interval BY <1>1, <1>2, <1>3, <1>4 DEF x
<1>6. n < q
  <2>1. SUFFICES ASSUME q <= n PROVE FALSE BY <1>2
  <2>2. CASE q = n BY <1>5, <2>2, <1>4
  <2>3. CASE q < n BY <1>2, <1>4, <1>5, <2>3, Apart
  <2> QED BY <1>2, <2>1, <2>2, <2>3
<1>7. n * Interval + Interval <= q * Interval BY <1>2, <1>6, Apart
<1> QED BY <1>1, <1>2, <1>4, <1>7 DEF x

(***************************************************************************)
(* The invariant.  The slots that are not read yet are on the grid, and    *)
(* the first of them is not before the tolerance of the time looked for.   *)
(***************************************************************************)
Rest == {i \in DOMAIN times : i >= iter}

RestOnGrid ==
    pc # "skip" => \A i \in Rest : (times[i] - first_time + Tolerance) % Interval <= 2 * Tolerance

NotYet ==
    ~PastEnd =>
        /\ InTimeOrder
        /\ pc # "skip" => ms_time >= next_time - Tolerance
        /\ pc = "insert" => ms_time > next_time + Tolerance

SlotsInStep ==
    /\ nr_read + nr_inserted = Len(slots)
    /\ \A i \in DOMAIN slots : slots[i].time = first_time + (i - 1) * Interval

Skipped ==
    /\ iter <= Len(times) + 1
    /\ pc = "skip" => \A i \in DOMAIN times : i < iter => times[i] < first_time

StepInv ==
    /\ OrderInv
    /\ Tolerated => RestOnGrid /\ NotYet /\ SlotsInStep /\ Skipped

LEMMA InitStep == Init => StepInv
<1> SUFFICES ASSUME Init PROVE StepInv OBVIOUS
<1> USE DEF Init
<1>0. OrderInv /\ TypeOK BY InitOrder, InitType
<1>1. /\ Len(times) \in Nat \ {0} /\ times[1] \in Nat BY TimesOfMS
<1>2. RestOnGrid /\ SlotsInStep BY DEF RestOnGrid, SlotsInStep
<1>3. NotYet /\ Skipped BY <1>1, TimesOfMS DEF NotYet, InTimeOrder, ms_time, Skipped
<1> QED BY <1>0, <1>2, <1>3 DEF StepInv

(* Actions of process() that look, and change no more than pc.                *)
LEMMA LookKeeps ==
  ASSUME StepInv, Tolerated, pc # "skip", pc' # "skip",
         UNCHANGED <<times, iter, first_time, next_time, last_ms_time, nr_read, nr_inserted,
                     slots>>,
         (pc' = "insert" /\ ~PastEnd) => ms_time > next_time + Tolerance
  PROVE  RestOnGrid' /\ NotYet' /\ SlotsInStep' /\ Skipped'
<1>0. RestOnGrid /\ NotYet /\ SlotsInStep /\ Skipped BY DEF StepInv
<1>1. RestOnGrid' BY <1>0 DEF RestOnGrid, Rest
<1>2. NotYet' BY <1>0 DEF NotYet, PastEnd, ms_time, InTimeOrder
<1>3. SlotsInStep' /\ Skipped' BY <1>0 DEF SlotsInStep, Skipped
<1> QED BY <1>1, <1>2, <1>3

LEMMA InTolerance ==
  ASSUME StepInv, Tolerated, pc # "skip"
  PROVE  /\ next_time \in Int /\ first_time \in Int /\ iter \in Nat \ {0}
         /\ Len(slots) \in Nat /\ next_time = first_time + Len(slots) * Interval
         /\ ~PastEnd => /\ iter \in DOMAIN times /\ ms_time \in Int
                        /\ ms_time >= next_time - Tolerance
                        /\ ~IsEarly /\ (ms_time <= next_time => IsNear)
<1>0. TypeOK /\ OrderInv /\ NotYet /\ SlotsInStep BY DEF StepInv, OrderInv, DataInv
<1>1. /\ next_time \in Int /\ first_time \in Int /\ iter \in Nat \ {0} /\ Len(slots) \in Nat
      /\ next_time = first_time + Len(slots) * Interval
  <2>1. slots \in Seq(Slot) /\ next_time \in Int /\ first_time \in Int /\ iter \in Nat \ {0}
    BY <1>0 DEF TypeOK
  <2>2. next_time = first_time + Len(slots) * Interval
    BY <1>0 DEF OrderInv, OnGrid, SlotsInStep
  <2> QED BY <2>1, <2>2
<1>2. ASSUME ~PastEnd
      PROVE  /\ iter \in DOMAIN times /\ ms_time \in Int
             /\ ms_time >= next_time - Tolerance
             /\ ~IsEarly /\ (ms_time <= next_time => IsNear)
  <2>1. iter \in DOMAIN times BY <1>0, <1>1, <1>2, TimesOfMS DEF PastEnd, TypeOK
  <2>2. ms_time \in Int BY <1>0, <1>2, TimeOfSlot
  <2>3. ms_time >= next_time - Tolerance BY <1>0, <1>2 DEF NotYet
  <2>4. ms_time <= next_time => IsNear BY <1>1, <2>2, <2>3 DEF IsNear
  <2>5. ~IsEarly BY <1>1, <2>2, <2>4 DEF IsEarly
  <2> QED BY <2>1, <2>2, <2>3, <2>4, <2>5
<1> QED BY <1>1, <1>2

(* A slot is given: the next one of the MS is one of a later time.            *)
LEMMA GiveKeeps ==
  ASSUME StepInv, Tolerated, pc # "skip", pc' = "idle", NEW e \in Slot,
         slots' = Append(slots, e), e.time = next_time,
         UNCHANGED <<times, first_time>>,
         nr_read' + nr_inserted' = nr_read + nr_inserted + 1,
         iter' >= iter, iter' \in Nat, iter' <= Len(times) + 1, next_time' = NextTime,
         ~PastEnd' => times[iter'] > next_time + Tolerance /\ times[iter'] >= last_ms_time'
  PROVE  RestOnGrid' /\ NotYet' /\ SlotsInStep' /\ Skipped'
<1>0. TypeOK /\ OrderInv /\ RestOnGrid /\ SlotsInStep BY DEF StepInv, OrderInv, DataInv
<1>1. /\ next_time \in Int /\ first_time \in Int /\ iter \in Nat \ {0} /\ Len(slots) \in Nat
      /\ next_time = first_time + Len(slots) * Interval
  BY InTolerance
<1>2. nr_read' + nr_inserted' = Len(slots) + 1 BY <1>0 DEF SlotsInStep
<1>3. next_time' = next_time + Interval
  <2>1. next_time' = first_time + (Len(slots) + 1) * Interval BY <1>2 DEF NextTime
  <2> QED BY <1>1, <2>1, NextOnGrid
<1>4. SlotsInStep'
  <2>1. slots \in Seq(Slot) BY <1>0 DEF TypeOK
  <2>2. Len(slots') = Len(slots) + 1 BY <2>1, AppendedSlot
  <2>3. ASSUME NEW i \in DOMAIN slots' PROVE slots'[i].time = first_time + (i - 1) * Interval
    <3>1. CASE i \in DOMAIN slots
      <4>1. slots'[i] = slots[i] BY <2>1, <3>1, AppendedSlot
      <4> QED BY <1>0, <3>1, <4>1 DEF SlotsInStep
    <3>2. CASE i = Len(slots) + 1
      <4>1. slots'[i] = e /\ i - 1 = Len(slots) BY <1>1, <2>1, <3>2, AppendedSlot
      <4> QED BY <1>1, <4>1
    <3> QED BY <2>1, <2>3, <3>1, <3>2, AppendedSlot
  <2> QED BY <1>2, <2>2, <2>3 DEF SlotsInStep
<1>5. Rest' \subseteq Rest
  <2>1. DOMAIN times = 1 .. Len(times) /\ Len(times) \in Nat BY <1>0, TimesOfMS DEF TypeOK
  <2> QED BY <1>1, <2>1 DEF Rest
<1>6. RestOnGrid' BY <1>0, <1>5 DEF RestOnGrid
<1>7. ASSUME ~PastEnd'
      PROVE  InTimeOrder' /\ times[iter'] >= next_time + Interval - Tolerance
  <2>1. times[iter'] > next_time + Tolerance /\ times[iter'] >= last_ms_time' BY <1>7
  <2>2. iter' \in Rest
    <3>1. Len(times) \in Nat /\ DOMAIN times = 1 .. Len(times) BY <1>0, TimesOfMS DEF TypeOK
    <3> QED BY <1>1, <1>7, <3>1 DEF Rest, PastEnd
  <2>3. times[iter'] \in Int
        /\ (times[iter'] - first_time + Tolerance) % Interval <= 2 * Tolerance
    BY <1>0, <2>2, TolerableTimes DEF RestOnGrid, Rest
  <2>4. times[iter'] >= first_time + Len(slots) * Interval + Interval - Tolerance
    BY <1>1, <2>1, <2>3, NotBeforeNext
  <2> QED BY <1>1, <2>1, <2>4 DEF InTimeOrder, ms_time
<1>8. NotYet'
  <2>1. ASSUME ~PastEnd' PROVE InTimeOrder' /\ ms_time' >= next_time' - Tolerance
    <3>1. ms_time' = times[iter'] BY DEF ms_time
    <3>2. InTimeOrder' /\ times[iter'] >= next_time + Interval - Tolerance BY <1>7, <2>1
    <3>3. next_time' - Tolerance = next_time + Interval - Tolerance BY <1>1, <1>3
    <3> QED BY <3>1, <3>2, <3>3
  <2> QED BY <2>1 DEF NotYet
<1>9. Skipped' BY DEF Skipped
<1> QED BY <1>4, <1>6, <1>8, <1>9

LEMMA NextStep == StepInv /\ [Next]_vars => StepInv'
<1> SUFFICES ASSUME StepInv, [Next]_vars PROVE StepInv' OBVIOUS
<1>0. OrderInv /\ OrderInv' /\ TypeOK /\ TypeOK'
  BY NextOrder DEF StepInv, OrderInv, DataInv
<1>r. times' = times /\ Tolerated' = Tolerated
  <2>1. times' = times
    BY DEF Next, vars, SkipFirstTime, EndSkipFirstTimes, Process, SkipTime, FindNear,
           FindEarly, FindNone, Stop, UseSlot, InsertSlot
  <2> QED BY <2>1 DEF Tolerated
<1> SUFFICES ASSUME Tolerated PROVE RestOnGrid' /\ NotYet' /\ SlotsInStep' /\ Skipped'
  BY <1>0, <1>r DEF StepInv
<1>g. RestOnGrid /\ NotYet /\ SlotsInStep /\ Skipped BY DEF StepInv
<1>m. /\ Len(times) \in Nat \ {0} /\ DOMAIN times = 1 .. Len(times)
      /\ iter \in Nat \ {0} /\ \A i \in DOMAIN times : times[i] \in Int
  <2>1. times \in TimeLists /\ iter \in Nat \ {0} BY <1>0 DEF TypeOK
  <2> QED BY <2>1, TimesOfMS
<1>o. FoundIsNear BY <1>0 DEF OrderInv, DataInv
<1>n. ASSUME ~PastEnd, iter + 1 \in DOMAIN times
      PROVE  ms_time \in Int /\ times[iter + 1] \in Int
             /\ times[iter + 1] > ms_time + 2 * Tolerance
  <2>1. iter \in DOMAIN times BY <1>m, <1>n DEF PastEnd
  <2> QED BY <1>0, <1>m, <1>n, <2>1, TolerableTimes DEF ms_time
<1>1. CASE SkipFirstTime
  <2> USE <1>1 DEF SkipFirstTime, Skip
  <2>1. RestOnGrid' /\ SlotsInStep' BY <1>g DEF RestOnGrid, SlotsInStep
  <2>2. ASSUME ~PastEnd' PROVE InTimeOrder'
    <3>1. iter + 1 \in DOMAIN times BY <1>m, <1>r, <2>2 DEF PastEnd
    <3> QED BY <1>n, <3>1 DEF InTimeOrder, ms_time
  <2>3. Skipped'
    <3>1. ms_time < first_time /\ iter <= Len(times) BY <1>g, <1>m DEF NotYet, PastEnd
    <3>2. ASSUME NEW k \in DOMAIN times, k < iter + 1 PROVE times[k] < first_time
      <4>1. k = iter \/ k < iter BY <1>m, <3>2
      <4> QED BY <1>g, <3>1, <4>1 DEF Skipped, ms_time
    <3> QED BY <1>m, <1>r, <3>1, <3>2 DEF Skipped
  <2> QED BY <2>1, <2>2, <2>3 DEF NotYet
<1>2. CASE EndSkipFirstTimes
  <2> USE <1>2 DEF EndSkipFirstTimes
  <2>1. slots' = <<>> /\ nr_read' = 0 /\ nr_inserted' = 0 BY <1>0 DEF OrderInv
  <2>2. SlotsInStep' BY <2>1 DEF SlotsInStep
  <2>3. ASSUME ~PastEnd
        PROVE  /\ ms_time >= next_time'
               /\ \A i \in Rest : (times[i] - first_time' + Tolerance) % Interval <= 2 * Tolerance
    <3> DEFINE n == (ms_time - first_time) \div Interval
    <3>1. ms_time \in Int /\ first_time \in Int /\ ms_time >= first_time
          /\ iter \in DOMAIN times
      BY <1>0, <1>m, <2>3, TimeOfSlot DEF TypeOK, PastEnd
    <3>2. n \in Nat
      <4> DEFINE d == ms_time - first_time
      <4>1. d \in Nat BY <3>1
      <4> HIDE DEF d
      <4>2. d \div Interval \in Nat BY <4>1
      <4> QED BY <4>2 DEF d
    <3> HIDE DEF n
    <3>3. first_time' = ms_time - n * Interval BY <2>3 DEF TrueFirstTime, n
    <3>4. n * Interval \in Nat BY <3>2
    <3>5. ms_time >= next_time' BY <3>1, <3>3, <3>4
    <3>6. ASSUME NEW i \in Rest
          PROVE  (times[i] - first_time' + Tolerance) % Interval <= 2 * Tolerance
      <4>1. i \in DOMAIN times /\ times[i] \in Int BY <1>m DEF Rest
      <4>2. (times[i] - times[iter] + Tolerance) % Interval <= 2 * Tolerance
        BY <3>1, <4>1 DEF Tolerated
      <4> DEFINE x == times[i] - ms_time + Tolerance
      <4>3. x \in Int /\ x % Interval <= 2 * Tolerance BY <3>1, <4>1, <4>2 DEF ms_time
      <4>4. times[i] - first_time' + Tolerance = x + n * Interval
        BY <3>1, <3>3, <3>4, <4>1
      <4> HIDE DEF x
      <4>5. n \in Int BY <3>2
      <4>6. (x + n * Interval) % Interval = x % Interval BY <4>3, <4>5, Remainder
      <4> QED BY <4>3, <4>4, <4>6
    <3> QED BY <3>5, <3>6
  <2>4. RestOnGrid'
    <3>1. Rest' = Rest BY DEF Rest
    <3>2. PastEnd => Rest = {} BY <1>m DEF Rest, PastEnd
    <3> QED BY <1>r, <2>3, <3>1, <3>2 DEF RestOnGrid
  <2>5. NotYet'
    <3>1. PastEnd' = PastEnd /\ ms_time' = ms_time /\ InTimeOrder' = InTimeOrder
      BY DEF PastEnd, ms_time, InTimeOrder
    <3>2. next_time' \in Int BY <1>0 DEF TypeOK
    <3>3. ~PastEnd => ms_time \in Int BY <1>0, TimeOfSlot
    <3> QED BY <1>g, <2>3, <3>1, <3>2, <3>3 DEF NotYet
  <2>6. Skipped' BY <1>g DEF Skipped
  <2> QED BY <2>2, <2>4, <2>5, <2>6
<1>3. CASE Process BY <1>3, LookKeeps DEF Process
<1>4. CASE SkipTime
  <2> USE <1>4 DEF SkipTime
  <2>1. ~IsNear /\ ms_time <= next_time BY <1>g DEF NotYet
  <2> QED BY <2>1, InTolerance
<1>5. CASE FindNear BY <1>5, LookKeeps DEF FindNear
<1>6. CASE FindEarly BY <1>6, InTolerance DEF FindEarly
<1>7. CASE FindNone
  <2> USE <1>7 DEF FindNone
  <2>1. ~PastEnd => ms_time > next_time + Tolerance BY InTolerance DEF IsNear
  <2> QED BY <2>1, LookKeeps
<1>8. CASE Stop
  <2> USE <1>8 DEF Stop
  <2> QED BY LookKeeps
<1>9. CASE UseSlot
  <2> USE <1>9 DEF UseSlot
  <2> DEFINE e == [time |-> next_time, ms |-> iter]
  <2>1. e \in Slot /\ e.time = next_time BY <1>0 DEF TypeOK, Slot
  <2>2. slots' = Append(slots, e) OBVIOUS
  <2> HIDE DEF e
  <2>3. nr_read' + nr_inserted' = nr_read + nr_inserted + 1 BY <1>0 DEF TypeOK
  <2>4. ~PastEnd /\ IsNear /\ ms_time \in Int /\ next_time \in Int
    BY <1>o, InTolerance DEF FoundIsNear
  <2>5. ASSUME ~PastEnd'
        PROVE  times[iter + 1] > next_time + Tolerance /\ times[iter + 1] >= next_time
    <3>1. iter + 1 \in DOMAIN times BY <1>m, <1>r, <2>5 DEF PastEnd
    <3> QED BY <1>n, <2>4, <3>1 DEF IsNear
  <2>6. iter' >= iter /\ iter' \in Nat /\ iter' <= Len(times) + 1 BY <1>m, <2>4 DEF PastEnd
  <2> QED BY <2>1, <2>2, <2>3, <2>5, <2>6, GiveKeeps
<1>10. CASE InsertSlot
  <2> USE <1>10 DEF InsertSlot
  <2> DEFINE e == [time |-> next_time, ms |-> 0]
  <2>1. e \in Slot /\ e.time = next_time BY <1>0 DEF TypeOK, Slot
  <2>2. slots' = Append(slots, e) OBVIOUS
  <2> HIDE DEF e
  <2>3. nr_read' + nr_inserted' = nr_read + nr_inserted + 1 BY <1>0 DEF TypeOK
  <2>4. ~PastEnd' => times[iter] > next_time + Tolerance /\ times[iter] >= last_ms_time
    BY <1>g DEF NotYet, PastEnd, ms_time, InTimeOrder
  <2>5. iter' >= iter /\ iter' \in Nat /\ iter' <= Len(times) + 1 BY <1>g, <1>m DEF Skipped
  <2> QED BY <2>1, <2>2, <2>3, <2>4, <2>5, GiveKeeps
<1>11. CASE UNCHANGED vars
  BY <1>g, <1>11 DEF vars, RestOnGrid, Rest, NotYet, PastEnd, ms_time, InTimeOrder, SlotsInStep,
     Skipped
<1> QED BY <1>1, <1>2, <1>3, <1>4, <1>5, <1>6, <1>7, <1>8, <1>9, <1>10, <1>11 DEF Next

(***************************************************************************)
(* What a step does, in terms of what another reader can be compared by.   *)
(***************************************************************************)
Reading == pc \in {"idle", "search", "use", "insert"}

\* No slot is given; pc moves.
Looks == UNCHANGED <<times, iter, first_time, last_time, next_time, slots>>

\* Is slot e the one of next_time: of the MS, if that has it?
IsNext(e) ==
    /\ e \in Slot /\ e.time = next_time
    /\ \/ e.ms = iter /\ ~PastEnd /\ ms_time <= next_time + Tolerance
       \/ e.ms = 0 /\ (~PastEnd => ms_time > next_time + Tolerance)

Gives(e) ==
    /\ IsNext(e)
    /\ slots' = Append(slots, e)
    /\ iter' = IF e.ms = 0 THEN iter ELSE iter + 1
    /\ UNCHANGED <<times, first_time, last_time>>

LEMMA ReadStep ==
  ASSUME StepInv, Tolerated, Reading, Next
  PROVE  \/ Looks /\ pc' \in {"search", "use", "insert"}
         \/ Looks /\ pc' = "finished" /\ AtEnd
         \/ ~AtEnd /\ pc' = "idle" /\ \E e : Gives(e)
<1>0. TypeOK /\ NotYet /\ FoundIsNear BY DEF StepInv, OrderInv, DataInv
<1>1. pc # "skip" /\ pc # "finished" BY DEF Reading
<1>2. CASE SkipFirstTime \/ EndSkipFirstTimes BY <1>1, <1>2 DEF SkipFirstTime, EndSkipFirstTimes
<1>3. CASE Process BY <1>3 DEF Process, Looks
<1>4. CASE SkipTime
  <2> USE <1>4 DEF SkipTime
  <2>1. ~IsNear /\ ms_time <= next_time BY <1>0 DEF NotYet
  <2> QED BY <1>1, <2>1, InTolerance
<1>5. CASE FindNear BY <1>5 DEF FindNear, Looks
<1>6. CASE FindEarly BY <1>1, <1>6, InTolerance DEF FindEarly
<1>7. CASE FindNone BY <1>7 DEF FindNone, Looks
<1>8. CASE Stop BY <1>8 DEF Stop, Looks
<1>9. CASE UseSlot
  <2> USE <1>9 DEF UseSlot
  <2> DEFINE e == [time |-> next_time, ms |-> iter]
  <2>1. e \in Slot /\ e.time = next_time /\ e.ms = iter /\ e.ms # 0 BY <1>0 DEF TypeOK, Slot
  <2>2. slots' = Append(slots, e) OBVIOUS
  <2> HIDE DEF e
  <2>3. ~PastEnd /\ ms_time <= next_time + Tolerance BY <1>0 DEF FoundIsNear, IsNear
  <2>4. Gives(e) BY <2>1, <2>2, <2>3 DEF Gives, IsNext
  <2> QED BY <2>4
<1>10. CASE InsertSlot
  <2> USE <1>10 DEF InsertSlot
  <2> DEFINE e == [time |-> next_time, ms |-> 0]
  <2>1. e \in Slot /\ e.time = next_time /\ e.ms = 0 BY <1>0 DEF TypeOK, Slot
  <2>2. slots' = Append(slots, e) OBVIOUS
  <2> HIDE DEF e
  <2>3. ~PastEnd => ms_time > next_time + Tolerance BY <1>0 DEF NotYet
  <2>4. Gives(e) BY <2>1, <2>2, <2>3 DEF Gives, IsNext
  <2> QED BY <2>4
<1> QED BY <1>2, <1>3, <1>4, <1>5, <1>6, <1>7, <1>8, <1>9, <1>10 DEF Next

\* The reader is at the first slot that is not before f, and the range starts
\* less than an interval after f.
OpenedAt(f) ==
    /\ iter \in Nat \ {0} /\ iter <= Len(times) + 1
    /\ \A i \in DOMAIN times : i < iter => times[i] < f
    /\ ~PastEnd => ms_time >= f
    /\ first_time = IF PastEnd THEN f ELSE ms_time - ((ms_time - f) \div Interval) * Interval

LEMMA OpenStep ==
  ASSUME StepInv, Tolerated, EndSkipFirstTimes
  PROVE  /\ \A f : f = first_time => OpenedAt(f)'
         /\ last_time' = LastTime(first_time') /\ n_times' = n_times /\ iter' = iter
<1>0. TypeOK /\ Skipped BY DEF StepInv, OrderInv, DataInv
<1> USE DEF EndSkipFirstTimes
<1>1. SUFFICES ASSUME NEW f, f = first_time PROVE OpenedAt(f)'
  OBVIOUS
<1>2. PastEnd' = PastEnd /\ ms_time' = ms_time BY DEF PastEnd, ms_time
<1>3. iter \in Nat \ {0} /\ iter <= Len(times) + 1
      /\ \A i \in DOMAIN times : i < iter => times[i] < f
  BY <1>0, <1>1 DEF TypeOK, Skipped
<1>4. first_time' = IF PastEnd THEN f ELSE ms_time - ((ms_time - f) \div Interval) * Interval
  BY <1>1 DEF TrueFirstTime
<1>5. ~PastEnd => ms_time >= f BY <1>1
<1> QED BY <1>2, <1>3, <1>4, <1>5 DEF OpenedAt

=============================================================================
