--------------------------- MODULE WindowFlaggers ---------------------------
(***************************************************************************)
(* The two flaggers that judge a slot together with those around it.       *)
(***************************************************************************)
EXTENDS StepCalls

CONSTANTS
    TimeWindows, \* what the expression "timewindow" evaluates to
    GivenSizes,  \* settings timewindow, overlapmax and overlapperc (-1: not given)
    MemorySlots  \* how many slots the memory holds, when no window is given

(***************************************************************************)
(* The median flagger (steps/MedFlagger.cc).  A slot is flagged by the     *)
(* median over a window of slots around it, which are kept in a vector     *)
(* that wraps around.  At both ends of the observation the window is       *)
(* mirrored.  Frequency, thresholds and amplitudes are left out: of a      *)
(* median, the slots it is taken from are kept, in the order of the code,  *)
(* so that the smaller window of another baseline is a prefix of it.       *)
(***************************************************************************)
\* Odd, and not larger than the observation.
Window(value, ntime) ==
    LET w == IF value > ntime THEN ntime ELSE value
    IN  IF w % 2 = 0 THEN w - 1 ELSE w

\* What an entry of itsBuf holds that was not filled, or that a read past the
\* end of timeEntries yields.
Unset == [slot |-> -1, flagged |-> FALSE]

MedInit ==
    \E n \in 1 .. MaxSlots, v \in TimeWindows :
        LET w == Window(v, n)
        IN  Start([ntime |-> n, window |-> w],
                  [window |-> w, buf |-> [i \in 0 .. w - 1 |-> Unset], done |-> 0,
                   finishing |-> FALSE])

Half == step.window \div 2

LeftEntry(center, i) == IF i > center THEN i - center ELSE center - i
RightEntry(center, i) == center + i
\* Faulty variant: the last slot is taken twice.
MutantMirroredEntry(center, i) ==
    IF center + i >= fed THEN 2 * fed - 1 - (center + i) ELSE center + i
MirroredEntry(center, i) ==
    IF center + i >= fed THEN 2 * (fed - 1) - (center + i) ELSE center + i

\* The centre, then one to the left and one to the right, and so on.
Entries(center, right) ==
    [j \in 1 .. 2 * Half + 1 |->
        IF j = 1 THEN center
        ELSE IF j % 2 = 0 THEN LeftEntry(center, j \div 2) ELSE right[j \div 2]]

RightEntries(center) == [i \in 1 .. Half |-> RightEntry(center, i)]
MirroredEntries(center) == [i \in 1 .. Half |-> MirroredEntry(center, i)]

\* The median reads as many entries as the baseline's window has.
Median(buf, entries) ==
    [j \in 1 .. config.window |->
        IF j > Len(entries) THEN Unset ELSE buf[entries[j] % step.window]]

\* flag(): the slot at index is flagged in place and handed on.
Flag(buf, index, entries) ==
    /\ step' = [step EXCEPT !.buf = [buf EXCEPT ![index].flagged = TRUE], !.done = step.done + 1]
    /\ Send(<<[slot |-> buf[index].slot, median |-> Median(buf, entries)]>>)

Stored == [step.buf EXCEPT ![fed % step.window] = [slot |-> fed, flagged |-> FALSE]]

MedProcess ==
    /\ ~step.finishing
    /\ Given
    /\ IF fed + 1 > Half
       THEN Flag(Stored, step.done % step.window, Entries(step.done, RightEntries(step.done)))
       ELSE step' = [step EXCEPT !.buf = Stored] /\ UNCHANGED sent

\* finish() starts: fewer slots than the window make the window smaller.
ShrunkWindow == IF fed < step.window THEN 1 + ((fed - 1) \div 2) * 2 ELSE step.window

MedFinish ==
    /\ ~finished /\ ~step.finishing /\ fed > 0
    /\ step' = [step EXCEPT !.finishing = TRUE, !.window = ShrunkWindow]
    /\ UNCHANGED <<config, fed, sent, finished>>

FlagLeading ==
    /\ step.finishing /\ ~finished
    /\ step.done < fed - Half
    /\ Flag(step.buf, step.done, Entries(step.done, RightEntries(step.done)))
    /\ UNCHANGED <<config, fed, finished>>

FlagRemaining ==
    /\ step.finishing /\ ~finished
    /\ step.done >= fed - Half /\ step.done < fed
    /\ Flag(step.buf, step.done % step.window, Entries(step.done, MirroredEntries(step.done)))
    /\ UNCHANGED <<config, fed, finished>>

MedFinishNextStep ==
    /\ step.finishing /\ step.done = fed
    /\ Ended(step)
    /\ UNCHANGED sent

MedNext == MedProcess \/ MedFinish \/ FlagLeading \/ FlagRemaining \/ MedFinishNextStep

MedSpec == MedInit /\ [][MedNext]_calls

-----------------------------------------------------------------------------
\* Reflects a slot number at the first and at the last slot.
Reflected(j) == IF j < 0 THEN -j ELSE IF j >= fed THEN 2 * (fed - 1) - j ELSE j

\* A slot is judged by its own window: as many slots before as after it, and
\* of them those that are already flagged are the earlier ones.
Promised ==
    [i \in 1 .. fed |->
        [slot |-> i - 1,
         median |-> [j \in 1 .. config.window |->
             LET s == Reflected(IF j % 2 = 0 THEN i - 1 - j \div 2 ELSE i - 1 + j \div 2)
             IN  [slot |-> s, flagged |-> s < i - 1]]]]

(* Each slot leaves once, in order, flagged by the window of slots around   *)
(* it, although the slots are stored modulo the window (MedFlagger.cc:155). *)
(* An input shorter than the window, which finish() would have to treat     *)
(* with a smaller one, is excluded: there the code reads past timeEntries.  *)
SlotsAreJudgedByTheirWindow ==
    (step.finishing => fed >= config.window) => Keeps(Promised)

-----------------------------------------------------------------------------
(***************************************************************************)
(* The step around the AOFlagger library (steps/AOFlaggerStep.cc).  Slots  *)
(* are flagged in windows that overlap: a window and the overlap at its    *)
(* right end are flagged together, the window is sent, the overlap stays.  *)
(* Of the flagging, the first and last slot that the strategy saw are kept *)
(* with every slot of the image.                                           *)
(***************************************************************************)
PercentOf(p, n) == (p * n) \div 100
RoundedPercentOf(p, n) == (2 * p * n + 100) \div 200

Percentage(s) == IF s.percentage < 0 /\ s.overlap = 0 THEN 1 ELSE s.percentage

\* The overlap is the part p of a window, both overlaps and the window are nt slots.
OverlapInMemory(s, nt) ==
    LET p == Percentage(s)
        o == (2 * p * nt + 100 + 2 * p) \div (2 * (100 + 2 * p))
    IN  IF p > 0 /\ (s.overlap = 0 \/ o < s.overlap) THEN o ELSE s.overlap

WindowInMemory(nt, overlap) == IF nt - 2 * overlap > 1 THEN nt - 2 * overlap ELSE 1

\* Windows of about the same size that cover ntime slots.
EvenWindow(ntime, window) ==
    LET nwindow == 1 + (ntime - 1) \div window IN 1 + (ntime - 1) \div nwindow

SmallerOverlap(s, window, overlap) ==
    LET o == RoundedPercentOf(Percentage(s), window)
    IN  IF Percentage(s) > 0 /\ o < overlap THEN o ELSE overlap

Sizes(s, nt, ntime) ==
    LET memoryOverlap == OverlapInMemory(s, nt)
        window == IF s.window > 0 THEN s.window
                  ELSE EvenWindow(ntime, WindowInMemory(nt, memoryOverlap))
        overlap == IF s.window > 0 THEN s.overlap ELSE SmallerOverlap(s, window, memoryOverlap)
    IN  [ntime |-> ntime, window |-> window,
         overlap |-> IF overlap = 0 THEN PercentOf(Percentage(s), window) ELSE overlap]

AOInit ==
    \E n \in 1 .. MaxSlots, s \in GivenSizes, nt \in MemorySlots :
        Start(Sizes(s, nt, n), [buf |-> <<>>])

\* flag(): every slot of the image is flagged by what the strategy saw.
Flagged(buf) ==
    [i \in 1 .. Len(buf) |->
        [buf[i] EXCEPT !.images = @ \cup {[first |-> buf[1].slot, last |-> buf[Len(buf)].slot]}]]

\* Faulty variant: room for one overlap only.
MutantBufferSize == config.window + config.overlap
BufferSize == config.window + 2 * config.overlap

AOProcess ==
    LET buf == Append(step.buf, [slot |-> fed, images |-> {}])
        full == Len(buf) = BufferSize
        flagged == Flagged(buf)
    IN  /\ Processed([buf |-> IF full THEN SubSeq(flagged, config.window + 1, Len(buf)) ELSE buf])
        /\ Send(IF full THEN SubSeq(flagged, 1, config.window) ELSE <<>>)

\* The rest is one window, without an overlap.
AOFinish ==
    /\ Ended([buf |-> <<>>])
    /\ Send(Flagged(step.buf))

AONext == AOProcess \/ AOFinish

AOSpec == AOInit /\ [][AONext]_calls

-----------------------------------------------------------------------------
\* The strategy saw the overlap on both sides of the slot, unless the observation ends there.
SeenWithOverlap(b) ==
    \E image \in b.images :
        /\ image.first <= b.slot - config.overlap \/ image.first = 0
        /\ image.last >= b.slot + config.overlap \/ (finished /\ image.last = fed - 1)

(* Every slot is sent once, in order, and was flagged at least once in an    *)
(* image that reaches the overlap to both sides of it: the slots at the left *)
(* end of a window got that in the window before (AOFlaggerStep.cc:343).     *)
SlotsAreFlaggedWithOverlap ==
    /\ \A i \in 1 .. Len(sent) : sent[i].slot = i - 1 /\ SeenWithOverlap(sent[i])
    /\ finished => Len(sent) = fed
=============================================================================
