------------------------ MODULE MultiMSReaderProofs ------------------------
(***************************************************************************)
(* What MultiMSReader guarantees for every interval and tolerance, and     *)
(* every two MSs: the readers, which look for their slots on their own,    *)
(* stay together.                                                          *)
(***************************************************************************)
EXTENDS MultiMSReader, MSReaderProofs

USE ReaderAssumption

\* What is proved of a reader holds for the other one.
OtherProofs == INSTANCE MSReaderProofs WITH
    times <- o_times, iter <- o_iter, first_time <- o_first_time, last_time <- o_last_time,
    next_time <- o_next_time, last_ms_time <- o_last_ms_time, nr_read <- o_nr_read,
    nr_inserted <- o_nr_inserted, ntime <- o_ntime, n_times <- o_n_times, pc <- o_pc,
    slots <- o_slots

-----------------------------------------------------------------------------
(***************************************************************************)
(* The other reader is the reader of the proofs.                           *)
(***************************************************************************)
LEMMA OtherInit == Other!Init => OtherProofs!Init
BY DEF Other!Init, OtherProofs!Init

LEMMA OtherTolerated == Other!Tolerated => OtherProofs!Tolerated
BY DEF Other!Tolerated, OtherProofs!Tolerated

LEMMA OtherSkipFirst == Other!SkipFirstTime => OtherProofs!SkipFirstTime
BY DEF Other!SkipFirstTime, OtherProofs!SkipFirstTime, Other!PastEnd, OtherProofs!PastEnd,
       Other!InTimeOrder, OtherProofs!InTimeOrder, Other!ms_time, OtherProofs!ms_time,
       Other!Skip, OtherProofs!Skip

LEMMA OtherEndSkip == Other!EndSkipFirstTimes => OtherProofs!EndSkipFirstTimes
BY DEF Other!EndSkipFirstTimes, OtherProofs!EndSkipFirstTimes, Other!PastEnd,
       OtherProofs!PastEnd, Other!InTimeOrder, OtherProofs!InTimeOrder, Other!ms_time,
       OtherProofs!ms_time, Other!TrueFirstTime, OtherProofs!TrueFirstTime, Other!LastTime,
       OtherProofs!LastTime, Other!NrSlots, OtherProofs!NrSlots

LEMMA OtherSearch ==
  /\ Other!Process => OtherProofs!Process
  /\ Other!SkipTime => OtherProofs!SkipTime
  /\ Other!FindNear => OtherProofs!FindNear
  /\ Other!FindEarly => OtherProofs!FindEarly
  /\ Other!FindNone => OtherProofs!FindNone
<1> USE DEF Other!PastEnd, OtherProofs!PastEnd, Other!InTimeOrder, OtherProofs!InTimeOrder,
            Other!ms_time, OtherProofs!ms_time, Other!IsNear, OtherProofs!IsNear,
            Other!IsEarly, OtherProofs!IsEarly
<1>1. Other!Process => OtherProofs!Process BY DEF Other!Process, OtherProofs!Process
<1>2. Other!SkipTime => OtherProofs!SkipTime
  BY DEF Other!SkipTime, OtherProofs!SkipTime, Other!Skip, OtherProofs!Skip
<1>3. Other!FindNear => OtherProofs!FindNear BY DEF Other!FindNear, OtherProofs!FindNear
<1>4. Other!FindEarly => OtherProofs!FindEarly BY DEF Other!FindEarly, OtherProofs!FindEarly
<1>5. Other!FindNone => OtherProofs!FindNone BY DEF Other!FindNone, OtherProofs!FindNone
<1> QED BY <1>1, <1>2, <1>3, <1>4, <1>5

LEMMA OtherGive ==
  /\ Other!Stop => OtherProofs!Stop
  /\ Other!UseSlot => OtherProofs!UseSlot
  /\ Other!InsertSlot => OtherProofs!InsertSlot
<1> USE DEF Other!AtEnd, OtherProofs!AtEnd, Other!NextTime, OtherProofs!NextTime
<1>1. Other!Stop => OtherProofs!Stop BY DEF Other!Stop, OtherProofs!Stop
<1>2. Other!UseSlot => OtherProofs!UseSlot BY DEF Other!UseSlot, OtherProofs!UseSlot
<1>3. Other!InsertSlot => OtherProofs!InsertSlot
  BY DEF Other!InsertSlot, OtherProofs!InsertSlot
<1> QED BY <1>1, <1>2, <1>3

LEMMA OtherStep == Other!Next => OtherProofs!Next
BY OtherSkipFirst, OtherEndSkip, OtherSearch, OtherGive DEF Other!Next, OtherProofs!Next

(***************************************************************************)
(* Each reader keeps what it keeps alone.                                  *)
(***************************************************************************)
BothInv ==
    /\ StepInv
    /\ OtherProofs!StepInv

LEMMA InitBoth == MultiInit => BothInv
<1> SUFFICES ASSUME MultiInit PROVE BothInv OBVIOUS
<1>1. StepInv BY InitStep DEF MultiInit
<1>2. OtherProofs!StepInv
  BY ReaderAssumption, StartAssumption, OtherInit, OtherProofs!InitStep DEF MultiInit
<1> QED BY <1>1, <1>2 DEF BothInv

LEMMA NextBoth == BothInv /\ [MultiNext]_multiVars => BothInv'
<1> SUFFICES ASSUME BothInv, [MultiNext]_multiVars PROVE BothInv' OBVIOUS
<1>1. [Next]_vars
  BY DEF MultiNext, Open, UpdateInfo, ReadFirst, ReadOther, Combine, multiVars, Next
<1>2. Other!Next \/ UNCHANGED otherVars
  BY DEF MultiNext, Open, UpdateInfo, ReadFirst, ReadOther, Combine, multiVars, Other!Next
<1>3. UNCHANGED otherVars => UNCHANGED OtherProofs!vars BY DEF otherVars, OtherProofs!vars
<1>4. StepInv' BY <1>1, NextStep DEF BothInv
<1>5. OtherProofs!StepInv'
  BY <1>2, <1>3, ReaderAssumption, StartAssumption, OtherStep, OtherProofs!NextStep DEF BothInv
<1> QED BY <1>4, <1>5 DEF BothInv

-----------------------------------------------------------------------------
(***************************************************************************)
(* The invariant.  The readers are opened one after the other.  Then they  *)
(* have given the same number of slots, or the first one is ahead by one,  *)
(* of a time in the range that they share; what was combined is what they  *)
(* gave.                                                                   *)
(***************************************************************************)
BandsSlot == [time : Int, first : Nat, other : Nat]

Opening ==
    turn = "open" =>
        /\ pc \in {"skip", "idle"} /\ o_pc \in {"skip", "idle"}
        /\ pc = "skip" => o_pc = "skip"
        /\ slots = <<>> /\ o_slots = <<>> /\ combined = <<>>

SharedRange == turn \in {"first", "other", "combine"} => SameRange

InTurn ==
    /\ turn = "first" =>
          /\ Reading /\ o_pc = "idle"
          /\ Len(slots) = Len(combined) /\ Len(o_slots) = Len(combined)
    /\ turn = "other" =>
          /\ pc = "idle" /\ OtherProofs!Reading
          /\ Len(slots) = Len(combined) + 1 /\ Len(o_slots) = Len(combined)
          /\ slots[Len(slots)].time <= last_time /\ slots[Len(slots)].time # 0
    /\ turn = "combine" =>
          /\ pc = "idle" /\ o_pc = "idle"
          /\ Len(slots) = Len(combined) + 1 /\ Len(o_slots) = Len(combined) + 1
    /\ turn = "finished" => Len(slots) = Len(combined)

Bands(i) ==
    /\ i \in DOMAIN slots /\ i \in DOMAIN o_slots
    /\ combined[i].time = slots[i].time /\ combined[i].time = o_slots[i].time
    /\ combined[i].first = slots[i].ms /\ slots[i].ms # 0
    /\ combined[i].other = o_slots[i].ms /\ o_slots[i].ms # 0

AllBands == \A i \in DOMAIN combined : Bands(i)

Together == SharedRange /\ InTurn /\ AllBands

(***************************************************************************)
(* MSs with the same times: the other reader finds what the first found.   *)
(***************************************************************************)
Follows ==
    LET e == slots[Len(slots)]
    IN  \/ /\ e.ms = o_iter /\ iter = o_iter + 1
           /\ ~OtherProofs!PastEnd /\ OtherProofs!ms_time <= o_next_time + Tolerance
        \/ /\ e.ms = 0 /\ iter = o_iter
           /\ ~OtherProofs!PastEnd => OtherProofs!ms_time > o_next_time + Tolerance

RangeToCome == last_time = IF n_times > 0 THEN first_time + (n_times - 1) * Interval
                                          ELSE o_last_time

Lockstep ==
    /\ turn = "open" =>
          /\ pc = "skip" => first_time = o_first_time /\ last_time = o_last_time
          /\ (pc = "idle" /\ o_pc = "skip") => OpenedAt(o_first_time) /\ RangeToCome
          /\ o_pc = "idle" => iter = o_iter /\ SameRange
    /\ turn \in {"first", "combine"} => iter = o_iter
    /\ turn = "other" => Follows
    /\ turn = "combine" => (HasRows(slots) <=> HasRows(o_slots))
    /\ turn = "failed" => \E i \in DOMAIN slots : slots[i].ms = 0

AllTolerated == Tolerated /\ OtherProofs!Tolerated

MultiInv ==
    /\ BothInv
    /\ turn \in {"open", "first", "other", "combine", "finished", "failed"}
    /\ n_times = o_n_times
    /\ combined \in Seq(BandsSlot)
    /\ Opening
    /\ AllTolerated => Together /\ (times = o_times => Lockstep)

LEMMA InitMulti == MultiInit => MultiInv
<1> SUFFICES ASSUME MultiInit PROVE MultiInv OBVIOUS
<1>1. BothInv BY InitBoth
<1>2. /\ turn = "open" /\ combined = <<>> /\ n_times = o_n_times
      /\ pc = "skip" /\ o_pc = "skip" /\ slots = <<>> /\ o_slots = <<>>
  BY DEF MultiInit, Init, Other!Init
<1>3. Opening BY <1>2 DEF Opening
<1>4. Together BY <1>2 DEF Together, SharedRange, InTurn, AllBands
<1>5. times = o_times => first_time = o_first_time /\ last_time = o_last_time
  <2>1. TypeOK /\ OtherProofs!TypeOK
    BY <1>1 DEF BothInv, StepInv, OtherProofs!StepInv, OrderInv, OtherProofs!OrderInv,
                DataInv, OtherProofs!DataInv
  <2>2. SUFFICES ASSUME times = o_times
                 PROVE  first_time = o_first_time /\ last_time = o_last_time
    OBVIOUS
  <2>3. times[1] \in Int /\ first_time \in Int /\ o_first_time \in Int
    BY <2>1, TimesOfMS DEF TypeOK, OtherProofs!TypeOK
  <2>4. o_first_time = first_time \/ o_first_time - times[1] = first_time - times[1]
    BY <2>2 DEF MultiInit
  <2>5. last_time = o_last_time BY <2>2 DEF MultiInit
  <2> QED BY <2>3, <2>4, <2>5
<1>6. times = o_times => Lockstep BY <1>2, <1>5 DEF Lockstep
<1>7. combined \in Seq(BandsSlot) BY <1>2
<1> QED BY <1>1, <1>2, <1>3, <1>4, <1>6, <1>7 DEF MultiInv

(***************************************************************************)
(* Facts of a state.                                                       *)
(***************************************************************************)
LEMMA ReaderFacts ==
  ASSUME StepInv, Tolerated, pc # "skip"
  PROVE  /\ first_time \in Int /\ next_time \in Int /\ last_time \in Int
         /\ slots \in Seq(Slot) /\ Len(slots) \in Nat
         /\ next_time = first_time + Len(slots) * Interval
         /\ \A i \in DOMAIN slots : slots[i].time = first_time + (i - 1) * Interval
<1>1. TypeOK /\ SlotsInStep BY DEF StepInv, OrderInv, DataInv
<1>2. slots \in Seq(Slot) /\ last_time \in Int BY <1>1 DEF TypeOK
<1> QED BY <1>1, <1>2, InTolerance DEF SlotsInStep

LEMMA OtherFacts ==
  ASSUME OtherProofs!StepInv, OtherProofs!Tolerated, o_pc # "skip"
  PROVE  /\ o_first_time \in Int /\ o_next_time \in Int /\ o_last_time \in Int
         /\ o_slots \in Seq(Slot) /\ Len(o_slots) \in Nat
         /\ o_next_time = o_first_time + Len(o_slots) * Interval
         /\ \A i \in DOMAIN o_slots : o_slots[i].time = o_first_time + (i - 1) * Interval
<1>1. OtherProofs!TypeOK /\ OtherProofs!SlotsInStep
  BY DEF OtherProofs!StepInv, OtherProofs!OrderInv, OtherProofs!DataInv
<1>2. o_slots \in Seq(Slot) /\ o_last_time \in Int
  BY <1>1 DEF OtherProofs!TypeOK, Slot, OtherProofs!Slot
<1> QED BY <1>1, <1>2, ReaderAssumption, StartAssumption, OtherProofs!InTolerance
        DEF OtherProofs!SlotsInStep

LEMMA OtherReadStep ==
  ASSUME OtherProofs!StepInv, OtherProofs!Tolerated, OtherProofs!Reading, Other!Next
  PROVE  \/ OtherProofs!Looks /\ o_pc' \in {"search", "use", "insert"}
         \/ OtherProofs!Looks /\ o_pc' = "finished" /\ OtherProofs!AtEnd
         \/ ~OtherProofs!AtEnd /\ o_pc' = "idle" /\ \E e : OtherProofs!Gives(e)
BY ReaderAssumption, StartAssumption, OtherStep, OtherProofs!ReadStep

(***************************************************************************)
(* The operations.                                                         *)
(***************************************************************************)
LEMMA MSsStay ==
  [MultiNext]_multiVars =>
      /\ times' = times /\ o_times' = o_times /\ AllTolerated' = AllTolerated
      /\ n_times' = n_times /\ o_n_times' = o_n_times
<1> SUFFICES ASSUME [MultiNext]_multiVars
             PROVE  /\ times' = times /\ o_times' = o_times /\ AllTolerated' = AllTolerated
                    /\ n_times' = n_times /\ o_n_times' = o_n_times
    OBVIOUS
<1>1. [Next]_vars
  BY DEF MultiNext, Open, UpdateInfo, ReadFirst, ReadOther, Combine, multiVars, Next
<1>2. Other!Next \/ UNCHANGED otherVars
  BY DEF MultiNext, Open, UpdateInfo, ReadFirst, ReadOther, Combine, multiVars, Other!Next
<1>3. times' = times /\ n_times' = n_times
  BY <1>1 DEF Next, vars, SkipFirstTime, EndSkipFirstTimes, Process, SkipTime, FindNear,
              FindEarly, FindNone, Stop, UseSlot, InsertSlot
<1>4. o_times' = o_times /\ o_n_times' = o_n_times
  BY <1>2 DEF Other!Next, otherVars, Other!SkipFirstTime, Other!EndSkipFirstTimes,
              Other!Process, Other!SkipTime, Other!FindNear, Other!FindEarly,
              Other!FindNone, Other!Stop, Other!UseSlot, Other!InsertSlot
<1>5. Tolerated' = Tolerated BY <1>3 DEF Tolerated
<1>6. OtherProofs!Tolerated' = OtherProofs!Tolerated BY <1>4 DEF OtherProofs!Tolerated
<1> QED BY <1>3, <1>4, <1>5, <1>6 DEF AllTolerated

LEMMA OpenFirstKeeps ==
  ASSUME MultiInv, MultiNext, BothInv', turn = "open", UNCHANGED <<turn, combined>>,
         SkipFirstTime \/ EndSkipFirstTimes, UNCHANGED otherVars
  PROVE  MultiInv'
<1>1. /\ times' = times /\ o_times' = o_times /\ AllTolerated' = AllTolerated
      /\ n_times' = n_times /\ o_n_times' = o_n_times
  BY MSsStay
<1>2. /\ pc = "skip" /\ o_pc = "skip" /\ o_pc' = "skip" /\ pc' \in {"skip", "idle"}
      /\ slots' = <<>> /\ o_slots' = <<>> /\ combined' = <<>> /\ turn' = "open"
  BY DEF SkipFirstTime, EndSkipFirstTimes, otherVars, MultiInv, Opening
<1>3. Opening' BY <1>2 DEF Opening
<1>4. Together' BY <1>2 DEF Together, SharedRange, InTurn, AllBands
<1>5. ASSUME AllTolerated, times = o_times PROVE Lockstep'
  <2>1. first_time = o_first_time /\ last_time = o_last_time
    BY <1>2, <1>5 DEF MultiInv, Lockstep
  <2>2. o_first_time' = o_first_time /\ o_last_time' = o_last_time BY DEF otherVars
  <2>3. CASE SkipFirstTime BY <1>2, <2>1, <2>2, <2>3 DEF SkipFirstTime, Lockstep
  <2>4. CASE EndSkipFirstTimes
    <3>1. StepInv /\ Tolerated BY <1>5 DEF MultiInv, BothInv, AllTolerated
    <3>2. /\ \A f : f = first_time => OpenedAt(f)'
          /\ last_time' = LastTime(first_time')
      BY <2>4, <3>1, OpenStep
    <3>3. OpenedAt(o_first_time)' BY <2>1, <2>2, <3>2 DEF OpenedAt
    <3>4. RangeToCome' BY <1>1, <2>1, <2>2, <3>2 DEF RangeToCome, LastTime
    <3>5. pc' = "idle" BY <2>4 DEF EndSkipFirstTimes
    <3> QED BY <1>2, <3>3, <3>4, <3>5 DEF Lockstep
  <2> QED BY <2>3, <2>4
<1> QED BY <1>1, <1>2, <1>3, <1>4, <1>5 DEF MultiInv

(* Two readers of the same times are opened at the same slot.                 *)
LEMMA OpenedTogether ==
  ASSUME times' = times, o_times' = times, times \in TimeLists,
         NEW f \in Int, OpenedAt(f)', OtherProofs!OpenedAt(f)'
  PROVE  iter' = o_iter' /\ first_time' = o_first_time'
<1> USE DEF OpenedAt, OtherProofs!OpenedAt, PastEnd, OtherProofs!PastEnd, ms_time,
            OtherProofs!ms_time
<1>1. /\ Len(times) \in Nat /\ DOMAIN times = 1 .. Len(times)
      /\ \A i \in DOMAIN times : times[i] \in Int
  BY TimesOfMS
<1>2. iter' = o_iter'
  <2>1. CASE iter' < o_iter'
    <3>1. iter' \in DOMAIN times BY <1>1, <2>1
    <3>2. times[iter'] < f BY <2>1, <3>1
    <3>3. times[iter'] >= f BY <1>1, <3>1
    <3> QED BY <1>1, <3>1, <3>2, <3>3
  <2>2. CASE o_iter' < iter'
    <3>1. o_iter' \in DOMAIN times BY <1>1, <2>2
    <3>2. times[o_iter'] < f BY <2>2, <3>1
    <3>3. times[o_iter'] >= f BY <1>1, <3>1
    <3> QED BY <1>1, <3>1, <3>2, <3>3
  <2> QED BY <2>1, <2>2
<1> QED BY <1>2

LEMMA OpenOtherKeeps ==
  ASSUME MultiInv, MultiNext, BothInv', turn = "open", UNCHANGED <<turn, combined>>,
         pc = "idle", Other!SkipFirstTime \/ Other!EndSkipFirstTimes, UNCHANGED vars
  PROVE  MultiInv'
<1>1. /\ times' = times /\ o_times' = o_times /\ AllTolerated' = AllTolerated
      /\ n_times' = n_times /\ o_n_times' = o_n_times
  BY MSsStay
<1>2. /\ pc' = "idle" /\ o_pc = "skip" /\ o_pc' \in {"skip", "idle"}
      /\ slots' = <<>> /\ o_slots' = <<>> /\ combined' = <<>> /\ turn' = "open"
  BY DEF Other!SkipFirstTime, Other!EndSkipFirstTimes, vars, MultiInv, Opening
<1>3. Opening' BY <1>2 DEF Opening
<1>4. Together' BY <1>2 DEF Together, SharedRange, InTurn, AllBands
<1>5. ASSUME AllTolerated, times = o_times PROVE Lockstep'
  <2>1. OpenedAt(o_first_time) /\ RangeToCome BY <1>2, <1>5 DEF MultiInv, Lockstep
  <2>2. CASE Other!SkipFirstTime
    <3>1. o_first_time' = o_first_time /\ o_last_time' = o_last_time /\ o_pc' = "skip"
      BY <2>2 DEF Other!SkipFirstTime
    <3>2. OpenedAt(o_first_time)' BY <2>1, <3>1 DEF OpenedAt, vars, PastEnd, ms_time
    <3>3. RangeToCome' BY <2>1, <3>1 DEF RangeToCome, vars
    <3> QED BY <1>2, <3>1, <3>2, <3>3 DEF Lockstep
  <2>3. CASE Other!EndSkipFirstTimes
    <3>1. OtherProofs!StepInv /\ OtherProofs!Tolerated
      BY <1>5 DEF MultiInv, BothInv, AllTolerated
    <3>2. OtherProofs!EndSkipFirstTimes BY <2>3, OtherEndSkip
    <3>3. /\ \A f : f = o_first_time => OtherProofs!OpenedAt(f)'
          /\ o_last_time' = OtherProofs!LastTime(o_first_time')
      BY <3>1, <3>2, ReaderAssumption, StartAssumption, OtherProofs!OpenStep
    <3>4. o_first_time \in Int
      BY <3>1 DEF OtherProofs!StepInv, OtherProofs!OrderInv, OtherProofs!DataInv,
                  OtherProofs!TypeOK
    <3>5. PICK f \in Int : f = o_first_time BY <3>4
    <3>6. OtherProofs!OpenedAt(f)' BY <3>3, <3>5
    <3>7. OpenedAt(f)' BY <2>1, <3>5 DEF OpenedAt, vars, PastEnd, ms_time
    <3>8. times' = times /\ o_times' = times /\ times \in TimeLists
      BY <1>1, <1>5 DEF MultiInv, BothInv, StepInv, OrderInv, DataInv, TypeOK
    <3>9. iter' = o_iter' /\ first_time' = o_first_time'
      BY <3>6, <3>7, <3>8, OpenedTogether
    <3>10. last_time' = o_last_time'
      <4>1. n_times = o_n_times /\ first_time' = first_time /\ last_time' = last_time
        BY DEF MultiInv, vars
      <4> QED BY <2>1, <3>3, <3>9, <4>1 DEF RangeToCome, OtherProofs!LastTime
    <3>11. o_pc' = "idle" BY <2>3 DEF Other!EndSkipFirstTimes
    <3> QED BY <1>2, <3>9, <3>10, <3>11 DEF Lockstep, SameRange
  <2> QED BY <2>2, <2>3
<1> QED BY <1>1, <1>2, <1>3, <1>4, <1>5 DEF MultiInv

LEMMA UpdateInfoKeeps ==
  ASSUME MultiInv, MultiNext, BothInv', UpdateInfo
  PROVE  MultiInv'
<1> USE DEF UpdateInfo
<1>1. /\ times' = times /\ o_times' = o_times /\ AllTolerated' = AllTolerated
      /\ n_times' = n_times /\ o_n_times' = o_n_times
  BY MSsStay
<1>2. /\ pc' = "idle" /\ o_pc' = "idle" /\ slots' = <<>> /\ o_slots' = <<>>
      /\ combined' = <<>> /\ combined = <<>> /\ turn' \in {"first", "failed"}
  BY DEF vars, otherVars, MultiInv, Opening
<1>3. Opening' BY <1>2 DEF Opening
<1>4. SharedRange' BY <1>2 DEF SharedRange, SameRange, vars, otherVars
<1>5. InTurn' BY <1>2 DEF InTurn, Reading
<1>6. AllBands' BY <1>2 DEF AllBands
<1>7. ASSUME AllTolerated, times = o_times PROVE Lockstep'
  <2>1. iter = o_iter /\ SameRange BY <1>7 DEF MultiInv, Lockstep
  <2>2. turn' = "first" /\ iter' = o_iter' BY <2>1 DEF vars, otherVars
  <2> QED BY <2>2 DEF Lockstep
<1>8. combined' \in Seq(BandsSlot) BY <1>2
<1> QED BY <1>1, <1>2, <1>3, <1>4, <1>5, <1>6, <1>7, <1>8 DEF MultiInv, Together

LEMMA BandsStay ==
  ASSUME AllBands, combined' = combined,
         \A i \in DOMAIN slots : i \in DOMAIN slots' /\ slots'[i] = slots[i],
         \A i \in DOMAIN o_slots : i \in DOMAIN o_slots' /\ o_slots'[i] = o_slots[i]
  PROVE  AllBands'
<1> SUFFICES ASSUME NEW i \in DOMAIN combined PROVE Bands(i)' BY DEF AllBands
<1>1. Bands(i) BY DEF AllBands
<1> QED BY <1>1 DEF Bands

(* What the first reader gives, the other one finds next.                     *)
LEMMA ReadFirstKeeps ==
  ASSUME MultiInv, MultiNext, BothInv', ReadFirst
  PROVE  MultiInv'
<1>1. /\ times' = times /\ o_times' = o_times /\ AllTolerated' = AllTolerated
      /\ n_times' = n_times /\ o_n_times' = o_n_times
  BY MSsStay
<1>2. /\ turn = "first" /\ Next /\ combined' = combined
      /\ turn' \in {"first", "other", "finished"}
      /\ turn' = CASE pc' = "idle" -> "other" [] pc' = "finished" -> "finished"
                   [] OTHER -> "first"
      /\ o_times' = o_times /\ o_iter' = o_iter /\ o_first_time' = o_first_time
      /\ o_last_time' = o_last_time /\ o_next_time' = o_next_time /\ o_pc' = o_pc
      /\ o_slots' = o_slots
  BY DEF ReadFirst, otherVars
<1>3. Opening' BY <1>2 DEF Opening
<1>4. ASSUME AllTolerated PROVE Together' /\ (times = o_times => Lockstep')
  <2>1. /\ StepInv /\ Tolerated /\ OtherProofs!StepInv /\ OtherProofs!Tolerated
        /\ SameRange /\ AllBands /\ Reading /\ o_pc = "idle"
        /\ Len(slots) = Len(combined) /\ Len(o_slots) = Len(combined)
        /\ times = o_times => iter = o_iter
    BY <1>2, <1>4 DEF MultiInv, BothInv, AllTolerated, Together, SharedRange, InTurn, Lockstep
  <2>2. /\ first_time \in Int /\ next_time \in Int /\ last_time \in Int
        /\ slots \in Seq(Slot) /\ Len(slots) \in Nat
        /\ next_time = first_time + Len(slots) * Interval
    BY <2>1, ReaderFacts DEF Reading
  <2>3. CASE Looks /\ pc' \in {"search", "use", "insert"}
    <3>1. turn' = "first" /\ slots' = slots /\ iter' = iter /\ SameRange'
      BY <1>2, <2>1, <2>3 DEF Looks, SameRange
    <3>2. InTurn' BY <1>2, <2>1, <2>3, <3>1 DEF InTurn, Reading
    <3>3. AllBands' BY <1>2, <2>1, <3>1, BandsStay
    <3>4. Together' BY <3>1, <3>2, <3>3 DEF Together, SharedRange
    <3>5. times = o_times => Lockstep' BY <1>2, <2>1, <3>1 DEF Lockstep
    <3> QED BY <3>4, <3>5
  <2>4. CASE Looks /\ pc' = "finished"
    <3>1. turn' = "finished" /\ slots' = slots BY <1>2, <2>4 DEF Looks
    <3>2. InTurn' BY <1>2, <2>1, <3>1 DEF InTurn
    <3>3. AllBands' BY <1>2, <2>1, <3>1, BandsStay
    <3>4. Together' BY <3>1, <3>2, <3>3 DEF Together, SharedRange
    <3>5. Lockstep' BY <3>1 DEF Lockstep
    <3> QED BY <3>4, <3>5
  <2>5. CASE ~AtEnd /\ pc' = "idle" /\ \E e : Gives(e)
    <3>1. PICK e : Gives(e) BY <2>5
    <3>2. /\ e \in Slot /\ e.time = next_time /\ slots' = Append(slots, e)
          /\ first_time' = first_time /\ last_time' = last_time
      BY <3>1 DEF Gives, IsNext
    <3>3. turn' = "other" BY <1>2, <2>5
    <3>4. /\ Len(slots') = Len(slots) + 1 /\ slots'[Len(slots')] = e
          /\ \A i \in DOMAIN slots : i \in DOMAIN slots' /\ slots'[i] = slots[i]
      BY <2>2, <3>2, AppendedSlot
    <3>5. SameRange' BY <1>2, <2>1, <3>2 DEF SameRange
    <3>6. e.time <= last_time /\ e.time # 0 BY <2>2, <2>5, <3>2 DEF AtEnd
    <3>7. OtherProofs!Reading' BY <1>2, <2>1 DEF OtherProofs!Reading
    <3>8. InTurn' BY <1>2, <2>1, <2>5, <3>2, <3>3, <3>4, <3>6, <3>7 DEF InTurn
    <3>9. AllBands' BY <1>2, <2>1, <3>4, BandsStay
    <3>10. Together' BY <3>3, <3>5, <3>8, <3>9 DEF Together, SharedRange
    <3>11. ASSUME times = o_times PROVE Follows'
      <4>1. o_next_time = next_time
        <5>1. o_next_time = o_first_time + Len(o_slots) * Interval BY <2>1, OtherFacts
        <5> QED BY <2>1, <2>2, <5>1 DEF SameRange
      <4>2. iter = o_iter BY <2>1, <3>11
      <4>3. /\ OtherProofs!PastEnd' = PastEnd /\ OtherProofs!ms_time' = ms_time
        BY <1>2, <3>11, <4>2 DEF PastEnd, ms_time, OtherProofs!PastEnd, OtherProofs!ms_time
      <4>4. iter' = IF e.ms = 0 THEN iter ELSE iter + 1 BY <3>1 DEF Gives
      <4>5. iter # 0
        BY <2>1 DEF StepInv, OrderInv, DataInv, TypeOK
      <4>6. \/ e.ms = iter /\ ~PastEnd /\ ms_time <= next_time + Tolerance
            \/ e.ms = 0 /\ (~PastEnd => ms_time > next_time + Tolerance)
        BY <3>1 DEF Gives, IsNext
      <4> QED BY <1>2, <3>4, <4>1, <4>2, <4>3, <4>4, <4>5, <4>6 DEF Follows
    <3>12. times = o_times => Lockstep' BY <3>3, <3>11 DEF Lockstep
    <3> QED BY <3>10, <3>12
  <2> QED BY <1>2, <2>1, <2>3, <2>4, <2>5, ReadStep
<1>5. combined' \in Seq(BandsSlot) BY <1>2 DEF MultiInv
<1> QED BY <1>1, <1>2, <1>3, <1>4, <1>5 DEF MultiInv

LEMMA ReadOtherKeeps ==
  ASSUME MultiInv, MultiNext, BothInv', ReadOther
  PROVE  MultiInv'
<1>1. /\ times' = times /\ o_times' = o_times /\ AllTolerated' = AllTolerated
      /\ n_times' = n_times /\ o_n_times' = o_n_times
  BY MSsStay
<1>2. /\ turn = "other" /\ combined' = combined
      /\ turn' = IF o_pc' \in {"idle", "finished"} THEN "combine" ELSE "other"
      /\ iter' = iter /\ first_time' = first_time /\ last_time' = last_time
      /\ pc' = pc /\ slots' = slots
  BY DEF ReadOther, vars
<1>3. Opening' BY <1>2 DEF Opening
<1>4. ASSUME AllTolerated PROVE Together' /\ (times = o_times => Lockstep')
  <2>1. /\ StepInv /\ Tolerated /\ OtherProofs!StepInv /\ OtherProofs!Tolerated
        /\ SameRange /\ AllBands /\ pc = "idle" /\ OtherProofs!Reading
        /\ Len(slots) = Len(combined) + 1 /\ Len(o_slots) = Len(combined)
        /\ slots[Len(slots)].time <= last_time /\ slots[Len(slots)].time # 0
        /\ times = o_times => Follows
    BY <1>2, <1>4 DEF MultiInv, BothInv, AllTolerated, Together, SharedRange, InTurn, Lockstep
  <2>2. Other!Next BY <2>1 DEF ReadOther, OtherProofs!Reading
  <2>3. /\ o_slots \in Seq(Slot) /\ Len(o_slots) \in Nat
        /\ o_next_time = o_first_time + Len(o_slots) * Interval
        /\ first_time \in Int /\ Len(slots) \in Nat
        /\ \A i \in DOMAIN slots : slots[i].time = first_time + (i - 1) * Interval
    <3>1. pc # "skip" /\ o_pc # "skip" BY <2>1 DEF OtherProofs!Reading
    <3> QED BY <2>1, <3>1, ReaderFacts, OtherFacts
  <2>4. slots[Len(slots)].time = o_next_time
    <3>1. slots \in Seq(Slot) BY <2>1 DEF StepInv, OrderInv, DataInv, TypeOK
    <3>2. Len(slots) \in DOMAIN slots BY <2>1, <2>3, <3>1
    <3>3. Len(slots) - 1 = Len(o_slots) BY <2>1, <2>3
    <3> QED BY <2>1, <2>3, <3>2, <3>3 DEF SameRange
  <2>5. CASE OtherProofs!Looks /\ o_pc' \in {"search", "use", "insert"}
    <3>1. turn' = "other" /\ o_slots' = o_slots /\ o_iter' = o_iter /\ SameRange'
      BY <1>2, <2>1, <2>5 DEF OtherProofs!Looks, SameRange
    <3>2. InTurn' BY <1>2, <2>1, <2>5, <3>1 DEF InTurn, OtherProofs!Reading
    <3>3. AllBands' BY <1>2, <2>1, <3>1, BandsStay
    <3>4. Together' BY <3>1, <3>2, <3>3 DEF Together, SharedRange
    <3>5. Follows => Follows'
      BY <1>1, <1>2, <2>5 DEF Follows, OtherProofs!Looks, OtherProofs!PastEnd,
                              OtherProofs!ms_time
    <3>6. times = o_times => Lockstep' BY <2>1, <3>1, <3>5 DEF Lockstep
    <3> QED BY <3>4, <3>6
  <2>6. CASE OtherProofs!Looks /\ o_pc' = "finished" /\ OtherProofs!AtEnd
    <3>1. o_next_time > o_last_time \/ o_next_time = 0 BY <2>6 DEF OtherProofs!AtEnd
    <3>2. o_last_time \in Int /\ last_time = o_last_time /\ o_next_time \in Int
      <4>1. o_pc # "skip" BY <2>1 DEF OtherProofs!Reading
      <4> QED BY <2>1, <4>1, OtherFacts DEF SameRange
    <3> QED BY <2>1, <2>4, <3>1, <3>2
  <2>7. CASE o_pc' = "idle" /\ \E e : OtherProofs!Gives(e)
    <3>1. PICK e : OtherProofs!Gives(e) BY <2>7
    <3>2. /\ e \in Slot /\ o_slots' = Append(o_slots, e)
          /\ o_first_time' = o_first_time /\ o_last_time' = o_last_time
      BY <3>1 DEF OtherProofs!Gives, OtherProofs!IsNext, Slot, OtherProofs!Slot
    <3>3. turn' = "combine" BY <1>2, <2>7
    <3>4. /\ Len(o_slots') = Len(o_slots) + 1 /\ o_slots'[Len(o_slots')] = e
          /\ \A i \in DOMAIN o_slots : i \in DOMAIN o_slots' /\ o_slots'[i] = o_slots[i]
      BY <2>3, <3>2, AppendedSlot
    <3>5. SameRange' BY <1>2, <2>1, <3>2 DEF SameRange
    <3>6. InTurn' BY <1>2, <2>1, <2>7, <3>3, <3>4 DEF InTurn
    <3>7. AllBands' BY <1>2, <2>1, <3>4, BandsStay
    <3>8. Together' BY <3>3, <3>5, <3>6, <3>7 DEF Together, SharedRange
    <3>9. ASSUME times = o_times
          PROVE  /\ iter' = o_iter'
                 /\ e.ms # 0 <=> slots[Len(slots)].ms # 0
      <4>1. /\ o_iter \in Int /\ o_iter # 0 /\ o_next_time \in Int
        <5>1. OtherProofs!TypeOK
          BY <2>1 DEF OtherProofs!StepInv, OtherProofs!OrderInv, OtherProofs!DataInv
        <5> QED BY <5>1 DEF OtherProofs!TypeOK
      <4>2. \/ /\ slots[Len(slots)].ms = o_iter /\ iter = o_iter + 1
               /\ ~OtherProofs!PastEnd /\ OtherProofs!ms_time <= o_next_time + Tolerance
            \/ /\ slots[Len(slots)].ms = 0 /\ iter = o_iter
               /\ ~OtherProofs!PastEnd => OtherProofs!ms_time > o_next_time + Tolerance
        BY <2>1, <3>9 DEF Follows
      <4>3. /\ \/ /\ e.ms = o_iter /\ ~OtherProofs!PastEnd
                  /\ OtherProofs!ms_time <= o_next_time + Tolerance
               \/ /\ e.ms = 0
                  /\ ~OtherProofs!PastEnd => OtherProofs!ms_time > o_next_time + Tolerance
            /\ o_iter' = IF e.ms = 0 THEN o_iter ELSE o_iter + 1
        BY <3>1 DEF OtherProofs!Gives, OtherProofs!IsNext
      <4>4. ~OtherProofs!PastEnd => OtherProofs!ms_time \in Int
        <5>1. OtherProofs!TypeOK
          BY <2>1 DEF OtherProofs!StepInv, OtherProofs!OrderInv, OtherProofs!DataInv
        <5> QED BY <5>1, ReaderAssumption, StartAssumption, OtherProofs!TimeOfSlot
      <4> QED BY <1>2, <4>1, <4>2, <4>3, <4>4
    <3>10. times = o_times => Lockstep'
      <4>1. slots' # <<>> /\ o_slots' # <<>> BY <1>2, <2>1, <2>3, <3>4
      <4> QED BY <1>2, <3>3, <3>4, <3>9, <4>1 DEF Lockstep, HasRows
    <3> QED BY <3>8, <3>10
  <2> QED BY <2>1, <2>2, <2>5, <2>6, <2>7, OtherReadStep
<1>5. combined' \in Seq(BandsSlot) BY <1>2 DEF MultiInv
<1> QED BY <1>1, <1>2, <1>3, <1>4, <1>5 DEF MultiInv

(* What is combined are the slots of one time.                                *)
LEMMA CombineKeeps ==
  ASSUME MultiInv, MultiNext, BothInv', Combine
  PROVE  MultiInv'
<1>1. /\ times' = times /\ o_times' = o_times /\ AllTolerated' = AllTolerated
      /\ n_times' = n_times /\ o_n_times' = o_n_times
  BY MSsStay
<1>2. /\ turn = "combine" /\ turn' \in {"first", "failed"}
      /\ iter' = iter /\ first_time' = first_time /\ last_time' = last_time
      /\ pc' = pc /\ slots' = slots /\ o_iter' = o_iter /\ o_first_time' = o_first_time
      /\ o_last_time' = o_last_time /\ o_pc' = o_pc /\ o_slots' = o_slots
  BY DEF Combine, vars, otherVars
<1>3. Opening' BY <1>2 DEF Opening
<1>4. combined \in Seq(BandsSlot) BY DEF MultiInv
<1>5. slots \in Seq(Slot) /\ o_slots \in Seq(Slot)
  <2>1. TypeOK /\ OtherProofs!TypeOK
    BY DEF MultiInv, BothInv, StepInv, OtherProofs!StepInv, OrderInv, OtherProofs!OrderInv,
           DataInv, OtherProofs!DataInv
  <2> QED BY <2>1 DEF TypeOK, OtherProofs!TypeOK, Slot, OtherProofs!Slot
<1>6. CASE HasRows(slots) /\ HasRows(o_slots)
  <2> DEFINE a == slots[Len(slots)]
             b == o_slots[Len(o_slots)]
             c == [time |-> a.time, first |-> a.ms, other |-> b.ms]
  <2>1. /\ combined' = Append(combined, c) /\ turn' = "first"
        /\ a.ms # 0 /\ b.ms # 0 /\ slots # <<>> /\ o_slots # <<>>
    BY <1>6 DEF Combine, HasRows
  <2>2. Len(slots) \in DOMAIN slots /\ Len(o_slots) \in DOMAIN o_slots
        /\ Len(slots) \in Nat /\ Len(o_slots) \in Nat
    BY <1>5, <2>1
  <2>3. a \in Slot /\ b \in Slot BY <1>5, <2>2
  <2>4. c \in BandsSlot BY <2>3 DEF Slot, BandsSlot
  <2>5. c.time = a.time /\ c.first = a.ms /\ c.other = b.ms OBVIOUS
  <2> HIDE DEF c
  <2>6. /\ combined' \in Seq(BandsSlot) /\ Len(combined') = Len(combined) + 1
        /\ Len(combined) \in Nat /\ DOMAIN combined' = 1 .. Len(combined) + 1
        /\ \A i \in 1 .. Len(combined) : i \in DOMAIN combined /\ combined'[i] = combined[i]
        /\ combined'[Len(combined) + 1] = c
    BY <1>4, <2>1, <2>4
  <2>7. ASSUME AllTolerated PROVE Together' /\ (times = o_times => Lockstep')
    <3>1. /\ StepInv /\ Tolerated /\ OtherProofs!StepInv /\ OtherProofs!Tolerated
          /\ SameRange /\ AllBands /\ pc = "idle" /\ o_pc = "idle"
          /\ Len(slots) = Len(combined) + 1 /\ Len(o_slots) = Len(combined) + 1
          /\ times = o_times => iter = o_iter
      BY <1>2, <2>7 DEF MultiInv, BothInv, AllTolerated, Together, SharedRange, InTurn,
                        Lockstep
    <3>2. SharedRange' BY <1>2, <3>1 DEF SharedRange, SameRange
    <3>3. InTurn' BY <1>2, <2>1, <2>6, <3>1 DEF InTurn, Reading
    <3>4. a.time = b.time
      <4>1. \A i \in DOMAIN slots : slots[i].time = first_time + (i - 1) * Interval
        BY <3>1, ReaderFacts
      <4>2. \A i \in DOMAIN o_slots : o_slots[i].time = o_first_time + (i - 1) * Interval
        BY <3>1, OtherFacts
      <4> QED BY <2>2, <3>1, <4>1, <4>2 DEF SameRange
    <3>5. ASSUME NEW i \in DOMAIN combined' PROVE Bands(i)'
      <4>1. CASE i \in 1 .. Len(combined)
        <5>1. i \in DOMAIN combined /\ combined'[i] = combined[i] BY <2>6, <4>1
        <5>2. Bands(i) BY <3>1, <5>1 DEF AllBands
        <5> QED BY <1>2, <5>1, <5>2 DEF Bands
      <4>2. CASE i = Len(combined) + 1
        <5>1. i = Len(slots) /\ i = Len(o_slots) /\ combined'[i] = c BY <2>6, <3>1, <4>2
        <5> QED BY <1>2, <2>1, <2>2, <2>5, <3>4, <5>1 DEF Bands
      <4> QED BY <2>6, <4>1, <4>2
    <3>6. AllBands' BY <3>5 DEF AllBands
    <3>7. Together' BY <3>2, <3>3, <3>6 DEF Together
    <3>8. times = o_times => Lockstep' BY <1>2, <2>1, <3>1 DEF Lockstep
    <3> QED BY <3>7, <3>8
  <2> QED BY <1>1, <1>2, <1>3, <2>6, <2>7 DEF MultiInv
<1>7. CASE ~(HasRows(slots) /\ HasRows(o_slots))
  <2>1. turn' = "failed" /\ combined' = combined BY <1>7 DEF Combine
  <2>2. ASSUME AllTolerated PROVE Together'
    <3>1. AllBands BY <2>2 DEF MultiInv, Together
    <3>2. AllBands' BY <1>2, <2>1, <3>1, BandsStay
    <3> QED BY <2>1, <3>2 DEF Together, SharedRange, InTurn
  <2>3. ASSUME AllTolerated, times = o_times PROVE Lockstep'
    <3>1. /\ HasRows(slots) <=> HasRows(o_slots)
          /\ Len(slots) = Len(combined) + 1
      BY <1>2, <2>3 DEF MultiInv, Lockstep, Together, InTurn
    <3>2. ~HasRows(slots) /\ slots # <<>> /\ Len(slots) \in DOMAIN slots
      BY <1>4, <1>5, <1>7, <3>1
    <3>3. slots[Len(slots)].ms = 0 BY <3>2 DEF HasRows
    <3> QED BY <1>2, <2>1, <3>2, <3>3 DEF Lockstep
  <2> QED BY <1>1, <1>2, <1>3, <1>4, <2>1, <2>2, <2>3 DEF MultiInv
<1> QED BY <1>6, <1>7

LEMMA NextMulti == MultiInv /\ [MultiNext]_multiVars => MultiInv'
<1> SUFFICES ASSUME MultiInv, [MultiNext]_multiVars PROVE MultiInv' OBVIOUS
<1>1. BothInv' BY NextBoth DEF MultiInv
<1>2. CASE Open BY <1>1, <1>2, OpenFirstKeeps, OpenOtherKeeps DEF Open, MultiNext
<1>3. CASE UpdateInfo BY <1>1, <1>3, UpdateInfoKeeps DEF MultiNext
<1>4. CASE ReadFirst BY <1>1, <1>4, ReadFirstKeeps DEF MultiNext
<1>5. CASE ReadOther BY <1>1, <1>5, ReadOtherKeeps DEF MultiNext
<1>6. CASE Combine BY <1>1, <1>6, CombineKeeps DEF MultiNext
<1>7. CASE UNCHANGED multiVars
  <2> USE <1>7 DEF multiVars, vars, otherVars
  <2>1. AllTolerated' = AllTolerated BY MSsStay
  <2>2. Opening' = Opening BY DEF Opening
  <2>3. Together' = Together
    <3>1. SharedRange' = SharedRange BY DEF SharedRange, SameRange
    <3>2. InTurn' = InTurn BY DEF InTurn, Reading, OtherProofs!Reading
    <3>3. AllBands' = AllBands BY DEF AllBands, Bands
    <3> QED BY <3>1, <3>2, <3>3 DEF Together
  <2>4. Lockstep' = Lockstep
    BY DEF Lockstep, OpenedAt, PastEnd, ms_time, RangeToCome, SameRange, Follows,
           OtherProofs!PastEnd, OtherProofs!ms_time, HasRows
  <2> QED BY <1>1, <2>1, <2>2, <2>3, <2>4 DEF MultiInv
<1> QED BY <1>2, <1>3, <1>4, <1>5, <1>6, <1>7 DEF MultiNext

-----------------------------------------------------------------------------
(***************************************************************************)
(* The bands of one time.                                                  *)
(***************************************************************************)
LEMMA SlotsOfMS ==
  ASSUME StepInv, Tolerated, NEW i \in DOMAIN slots, slots[i].ms # 0
  PROVE  /\ times[slots[i].ms] \in Int /\ slots[i].time \in Int
         /\ Within(times[slots[i].ms], slots[i].time)
         /\ TimesNeverGoBack
<1>1. /\ TypeOK /\ DataKeepsItsTime /\ Skipped
      /\ InOrder(times) => Ahead /\ TimesNeverGoBack
  BY DEF StepInv, OrderInv, DataInv
<1>2. times \in TimeLists /\ iter \in Nat BY <1>1 DEF TypeOK
<1>3. /\ Len(times) \in Nat /\ DOMAIN times = 1 .. Len(times)
      /\ \A k \in 1 .. Len(times) : times[k] \in Int
  BY <1>2, TimesOfMS
<1>4. InOrder(times)
  <2>1. SUFFICES ASSUME NEW k \in 2 .. Len(times) PROVE times[k] - times[k - 1] > Tolerance
    BY DEF InOrder
  <2>2. k \in DOMAIN times /\ k - 1 \in DOMAIN times /\ k > k - 1 BY <1>3
  <2>3. times[k] - times[k - 1] > 2 * Tolerance BY <2>2 DEF Tolerated
  <2> QED BY <1>3, <2>2, <2>3
<1>5. slots[i].time \in Int /\ slots[i].ms \in Nat BY <1>1, SlotsType
<1>6. slots[i].ms < iter /\ TimesNeverGoBack BY <1>1, <1>4 DEF Ahead
<1>7. slots[i].ms \in 1 .. Len(times) BY <1>1, <1>2, <1>3, <1>5, <1>6 DEF Skipped
<1>8. times[slots[i].ms] \in Int BY <1>3, <1>7
<1>9. /\ times[slots[i].ms] >= slots[i].time - Tolerance
      /\ times[slots[i].ms] <= slots[i].time + Tolerance
  BY <1>1 DEF DataKeepsItsTime
<1>10. Within(times[slots[i].ms], slots[i].time) BY <1>5, <1>8, <1>9 DEF Within
<1> QED BY <1>5, <1>6, <1>8, <1>10

LEMMA SlotsOfOtherMS ==
  ASSUME OtherProofs!StepInv, OtherProofs!Tolerated,
         NEW i \in DOMAIN o_slots, o_slots[i].ms # 0
  PROVE  /\ Within(o_times[o_slots[i].ms], o_slots[i].time)
         /\ OtherProofs!TimesNeverGoBack
<1>1. /\ OtherProofs!TypeOK /\ OtherProofs!DataKeepsItsTime /\ OtherProofs!Skipped
      /\ OtherProofs!InOrder(o_times) => OtherProofs!Ahead /\ OtherProofs!TimesNeverGoBack
  BY DEF OtherProofs!StepInv, OtherProofs!OrderInv, OtherProofs!DataInv
<1>2. o_times \in TimeLists /\ o_iter \in Nat BY <1>1 DEF OtherProofs!TypeOK
<1>3. /\ Len(o_times) \in Nat /\ DOMAIN o_times = 1 .. Len(o_times)
      /\ \A k \in 1 .. Len(o_times) : o_times[k] \in Int
  BY <1>2, ReaderAssumption, StartAssumption, OtherProofs!TimesOfMS
<1>4. OtherProofs!InOrder(o_times)
  <2>1. SUFFICES ASSUME NEW k \in 2 .. Len(o_times)
                 PROVE  o_times[k] - o_times[k - 1] > Tolerance
    BY DEF OtherProofs!InOrder
  <2>2. k \in DOMAIN o_times /\ k - 1 \in DOMAIN o_times /\ k > k - 1 BY <1>3
  <2>3. o_times[k] - o_times[k - 1] > 2 * Tolerance BY <2>2 DEF OtherProofs!Tolerated
  <2> QED BY <1>3, <2>2, <2>3
<1>5. o_slots[i].time \in Int /\ o_slots[i].ms \in Nat
  BY <1>1, ReaderAssumption, StartAssumption, OtherProofs!SlotsType
<1>6. o_slots[i].ms < o_iter /\ OtherProofs!TimesNeverGoBack
  BY <1>1, <1>4 DEF OtherProofs!Ahead
<1>7. o_slots[i].ms \in 1 .. Len(o_times)
  BY <1>1, <1>2, <1>3, <1>5, <1>6 DEF OtherProofs!Skipped
<1>8. o_times[o_slots[i].ms] \in Int BY <1>3, <1>7
<1>9. /\ o_times[o_slots[i].ms] >= o_slots[i].time - Tolerance
      /\ o_times[o_slots[i].ms] <= o_slots[i].time + Tolerance
  BY <1>1 DEF OtherProofs!DataKeepsItsTime
<1>10. Within(o_times[o_slots[i].ms], o_slots[i].time) BY <1>5, <1>8, <1>9 DEF Within
<1> QED BY <1>6, <1>10

LEMMA MultiBands == MultiInv => BandsAreOfOneTime
<1> SUFFICES ASSUME MultiInv, Tolerated, Other!Tolerated
             PROVE  /\ \A i \in DOMAIN combined :
                          /\ Within(times[combined[i].first], combined[i].time)
                          /\ Within(o_times[combined[i].other], combined[i].time)
                          /\ i > 1 => combined[i].other > combined[i - 1].other
                    /\ turn = "finished" => Len(combined) = Len(slots)
                    /\ turn = "failed" =>
                          times # o_times \/ \E i \in DOMAIN slots : slots[i].ms = 0
    BY DEF BandsAreOfOneTime
<1>1. /\ StepInv /\ OtherProofs!StepInv /\ OtherProofs!Tolerated
      /\ InTurn /\ AllBands /\ (times = o_times => Lockstep)
      /\ combined \in Seq(BandsSlot)
  BY OtherTolerated DEF MultiInv, BothInv, AllTolerated, Together
<1>2. ASSUME NEW i \in DOMAIN combined
      PROVE  /\ Within(times[combined[i].first], combined[i].time)
             /\ Within(o_times[combined[i].other], combined[i].time)
             /\ i > 1 => combined[i].other > combined[i - 1].other
  <2>1. Bands(i) BY <1>1 DEF AllBands
  <2>2. Within(times[combined[i].first], combined[i].time)
    BY <1>1, <2>1, SlotsOfMS DEF Bands
  <2>3. Within(o_times[combined[i].other], combined[i].time)
    BY <1>1, <2>1, SlotsOfOtherMS DEF Bands
  <2>4. ASSUME i > 1 PROVE combined[i].other > combined[i - 1].other
    <3>1. i - 1 \in DOMAIN combined /\ i - 1 < i BY <1>1, <2>4
    <3>2. Bands(i - 1) BY <1>1, <3>1 DEF AllBands
    <3>3. OtherProofs!TimesNeverGoBack BY <1>1, <2>1, SlotsOfOtherMS DEF Bands
    <3>4. o_slots[i - 1].ms < o_slots[i].ms
      BY <2>1, <3>1, <3>2, <3>3 DEF OtherProofs!TimesNeverGoBack, Bands
    <3>5. o_slots \in Seq(Slot)
      BY <1>1 DEF OtherProofs!StepInv, OtherProofs!OrderInv, OtherProofs!DataInv,
                  OtherProofs!TypeOK, OtherProofs!Slot, Slot
    <3>6. o_slots[i - 1].ms \in Nat /\ o_slots[i].ms \in Nat
      <4>1. i \in DOMAIN o_slots /\ i - 1 \in DOMAIN o_slots BY <2>1, <3>2 DEF Bands
      <4>2. o_slots[i - 1] \in Slot /\ o_slots[i] \in Slot BY <3>5, <4>1
      <4> QED BY <4>2 DEF Slot
    <3> QED BY <2>1, <3>2, <3>4, <3>6 DEF Bands
  <2> QED BY <2>2, <2>3, <2>4
<1>3. turn = "finished" => Len(combined) = Len(slots) BY <1>1 DEF InTurn
<1>4. turn = "failed" => times # o_times \/ \E i \in DOMAIN slots : slots[i].ms = 0
  BY <1>1 DEF Lockstep
<1> QED BY <1>2, <1>3, <1>4

(* MultiMSReader: the readers, which each look for the slot of their own next *)
(* time, never come apart, whatever the number of slots and wherever the MSs  *)
(* have gaps.  The step compares their ranges once, when it is opened, and    *)
(* their times never: the tolerance is that of each MS.                       *)
THEOREM BandsBelongTogether == MultiSpec => []BandsAreOfOneTime
BY InitMulti, NextMulti, MultiBands, PTL DEF MultiSpec

=============================================================================
