--------------------------- MODULE TimeResampling ---------------------------
(***************************************************************************)
(* The two steps that change the time resolution of regular data.          *)
(***************************************************************************)
EXTENDS StepCalls, FiniteSets

CONSTANTS
    UpsampleFactors,   \* settings time_step
    Jitter,    \* bound: ticks by which the times of the input are off the output's grid
    TimeSteps, \* setting timestep
    MinPoints  \* setting minpoints

(***************************************************************************)
(* The upsampler (steps/Upsample.cc): each slot becomes time_step slots    *)
(* of a shorter interval.  When input slots overlap, because a slot was    *)
(* inserted for missing data, one of the two buffers for a time is chosen. *)
(* The interval of the output is Unit ticks, so that tolerances show.      *)
(***************************************************************************)
Unit == 10
Tolerance == 4    \* 0.4 of the output's interval

\* step.input is a history variable: what process() was given.
UpInit ==
    \E n \in 1 .. MaxSlots, f \in UpsampleFactors :
        Start([ntime |-> n, factor |-> f], [prev |-> <<>>, first |-> 0, input |-> <<>>])

\* A slot that was inserted for missing data and the one after it can be
\* closer than the interval, but not two pairs in a row.  The bound: they are
\* off the output's grid by the Jitter only.
NextTimes ==
    IF step.input = <<>> THEN {0}
    ELSE {t \in {Unit * (step.input[fed].time \div Unit + k) + j :
                     k \in 1 .. config.factor, j \in Jitter} :
             fed > 1 => t \div Unit - step.input[fed - 1].time \div Unit >= config.factor}

\* The copies of an input slot; flagged means all its data is flagged.
Duplicates(b) ==
    [i \in 1 .. config.factor |->
        [time |-> b.time - (Unit * config.factor) \div 2 + Unit * (i - 1) + Unit \div 2,
         flagged |-> b.flagged, of |-> fed]]

NearAbs(s, t) == s - t \in -Tolerance .. Tolerance

\* The current buffer at curIndex when previous buffer p is looked at: times rise
\* in both lists, so it is the first of all that is not before it.
CurIndex(p, current) ==
    LET NotBefore(c) == NearAbs(step.prev[p].time, current[c].time) \/ step.prev[p].time <= current[c].time
    IN  CHOOSE c \in 1 .. config.factor : NotBefore(c) /\ \A d \in 1 .. c - 1 : ~NotBefore(d)

IsDouble(p, current) == NearAbs(step.prev[p].time, current[CurIndex(p, current)].time)

\* Faulty variant: the current buffer that a previous one replaced is sent, too.
MutantFirstToFlush(double, c) == IF double THEN c - 1 ELSE 0
\* Indices count from 0 in the code: it is curIndex + 1.
FirstToFlush(double, c) == IF double THEN c ELSE 0

\* The previous buffers that are looked at, and those at which the current one is
\* used instead, which ends the loop at the first of them.
LookedAt == step.first + 1 .. config.factor
Stops(current) ==
    {p \in LookedAt : IsDouble(p, current) /\ ~current[CurIndex(p, current)].flagged}

\* Where the previous buffers end that process() sends, and first_to_flush_ after it.
LastFlushed(current) ==
    CHOOSE p \in step.first .. config.factor :
        /\ p = config.factor \/ p + 1 \in Stops(current)
        /\ \A q \in step.first + 1 .. p : q \notin Stops(current)

NextFirst(current) ==
    IF LookedAt = {} THEN step.first
    ELSE IF Stops(current) # {} THEN 0
    ELSE FirstToFlush(IsDouble(config.factor, current), CurIndex(config.factor, current))

UpProcess ==
    \E t \in NextTimes, f \in BOOLEAN :
        LET current == Duplicates([time |-> t, flagged |-> f])
            input == Append(step.input, [time |-> t, flagged |-> f])
        IN  IF step.prev = <<>>
            THEN Processed([prev |-> current, first |-> step.first, input |-> input]) /\ Send(<<>>)
            ELSE /\ Processed([prev |-> current, first |-> NextFirst(current), input |-> input])
                 /\ Send(SubSeq(step.prev, step.first + 1, LastFlushed(current)))

UpFinish ==
    /\ fed > 0      \* finish() reads prev_buffers_, which are empty without a call of process()
    /\ Ended(step)
    /\ Send(SubSeq(step.prev, step.first + 1, config.factor))

UpNext == UpProcess \/ UpFinish

UpSpec == UpInit /\ [][UpNext]_calls

-----------------------------------------------------------------------------
\* What the output has at the time of a copy, with data if the copy has data.
IsSent(b) ==
    \E i \in 1 .. Len(sent) : NearAbs(sent[i].time, b.time) /\ (sent[i].flagged => b.flagged)

CopiesOf(i) == Duplicates(step.input[i])

(* Where two input slots overlap, one of them is used: the output has        *)
(* increasing times, none of them twice, in the end none of them is missing, *)
(* and none is flagged for which there was data (Upsample.cc:107-144).       *)
(* Excluded are slots that coincide, three that overlap, and times half way  *)
(* between those of the output; the code loses or repeats times there.       *)
EveryTimeOnce ==
    /\ \A i \in 1 .. Len(sent) - 1 : sent[i].time + Tolerance < sent[i + 1].time
    /\ finished =>
        \A i \in 1 .. fed : \A j \in 1 .. config.factor : IsSent(CopiesOf(i)[j])

-----------------------------------------------------------------------------
(***************************************************************************)
(* The averager of regular data (steps/Averager.cc): timestep slots become *)
(* one, the last one may be of fewer.  Of the data, the slots that a sum   *)
(* was made of are kept; a slot is flagged as a whole or not at all.       *)
(***************************************************************************)
\* step.input is a history variable: which slots were not flagged.
AvgInit ==
    \E n \in 1 .. MaxSlots, t \in TimeSteps, p \in MinPoints :
        Start([ntime |-> n, navg |-> IF t < n THEN t ELSE n, minpoints |-> p, noavg |-> t = 1],
              [sum |-> <<>>, input |-> <<>>])

\* itsBuf: the slots of the sum, the unflagged ones, and where their full
\* resolution flags are; those that were not copied stay flagged.
FirstOfSum(slot, good) ==
    [first |-> slot, slots |-> 1, good |-> IF good THEN {slot} ELSE {},
     fullres |-> [i \in 0 .. config.navg - 1 |-> IF i = 0 THEN slot ELSE -1]]

NextOfSum(sum, slot, good) ==
    [sum EXCEPT !.slots = @ + 1, !.good = IF good THEN @ \cup {slot} ELSE @,
                !.fullres[sum.slots] = slot]

\* Faulty variant: the time of a partial average is that of its slots.
MutantMiddle(sum) == 2 * sum.first + sum.slots - 1
\* Twice the middle of the interval, which is not shorter for a partial average.
Middle(sum) == 2 * sum.first + config.navg - 1

\* average(): without enough unflagged points the data is the average of all.
Average(sum) ==
    LET all == sum.first .. sum.first + sum.slots - 1
        enough == sum.good # {} /\ Cardinality(sum.good) >= config.minpoints
    IN  [time |-> Middle(sum), of |-> IF enough THEN sum.good ELSE all, flagged |-> ~enough,
         fullres |-> sum.fullres, uvw |-> all]

\* Without averaging a buffer is passed on as it is.
Passed(slot, good) ==
    [time |-> 2 * slot, of |-> {slot}, flagged |-> ~good, fullres |-> [i \in {0} |-> slot],
     uvw |-> {slot}]

AvgProcess ==
    \E good \in BOOLEAN :
        LET input == Append(step.input, good)
            sum == IF step.sum = <<>> THEN FirstOfSum(fed, good)
                   ELSE NextOfSum(step.sum[1], fed, good)
            full == sum.slots >= config.navg
        IN  IF config.noavg
            THEN /\ Processed([step EXCEPT !.input = input])
                 /\ Send(<<Passed(fed, good)>>)
            ELSE /\ Processed([sum |-> IF full THEN <<>> ELSE <<sum>>, input |-> input])
                 /\ Send(IF full THEN <<Average(sum)>> ELSE <<>>)

AvgFinish ==
    /\ Ended([step EXCEPT !.sum = <<>>])
    /\ Send(IF step.sum = <<>> THEN <<>> ELSE <<Average(step.sum[1])>>)

AvgNext == AvgProcess \/ AvgFinish
AvgSpec == AvgInit /\ [][AvgNext]_calls

-----------------------------------------------------------------------------
\* What updateInfo() tells the next step (DPInfo::update).
AnnouncedTimes == (config.ntime + config.navg - 1) \div config.navg

GoodOf(slots) == {s \in slots : step.input[s + 1]}

AveragesSoFar == (fed + config.navg - 1) \div config.navg

PromisedAverage(k) ==
    LET first == (k - 1) * config.navg
        all == {s \in first .. first + config.navg - 1 : s < fed}
        enough == Cardinality(GoodOf(all)) >= config.minpoints /\ GoodOf(all) # {}
    IN  [time |-> (2 * k - 1) * config.navg - 1, uvw |-> all,
         flagged |-> IF config.noavg THEN GoodOf(all) = {} ELSE ~enough,
         of |-> IF enough /\ ~config.noavg THEN GoodOf(all) ELSE all,
         fullres |-> [i \in 0 .. config.navg - 1 |-> IF first + i \in all THEN first + i ELSE -1]]

(* The averages lie on a regular time axis of the announced length, each slot *)
(* is in the average of its time only, with its data if it is not flagged and *)
(* its full resolution flags at its place, also in a last average of fewer    *)
(* slots, whose time and flags are those of a full one (Averager.cc:157-163). *)
AveragesAreOfTheirTime ==
    /\ Keeps([k \in 1 .. AveragesSoFar |-> PromisedAverage(k)])
    /\ finished /\ fed = config.ntime => Len(sent) = AnnouncedTimes
=============================================================================
