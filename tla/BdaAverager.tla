---------------------------- MODULE BdaAverager ----------------------------
(***************************************************************************)
(* dp3::steps::BDAAverager: turns regular buffers (one time slot of all    *)
(* baselines each) into BDA buffers.  Baseline b is summed over factor[b]  *)
(* slots and then becomes one row of elements[b] elements in bda_buffer_,  *)
(* which goes to the next step when it is full.                            *)
(*                                                                         *)
(* One call of process() or finish() is a loop over the baselines; each    *)
(* iteration is a step here, and bl is the loop's counter.  Time is        *)
(* counted in time slots; a row is known by its baseline and its slots.    *)
(***************************************************************************)
EXTENDS Integers, Sequences, FiniteSets

CONSTANTS
    NBaselines,   \* info().nbaselines()
    MaxFactor,    \* bound on the time averaging factors
    MaxElements,  \* bound on the elements (channels x correlations) of a row
    Sizes,        \* the buffer sizes that set_next_desired_buffersize is given
    None          \* an empty std::unique_ptr<BDABuffer>

Baselines == 1 .. NBaselines
Row == [bl : Baselines, start : Nat, len : 1 .. MaxFactor]

VARIABLES
    factor,            \* per baseline, BaselineBuffer::time_factor
    elements,          \* per baseline, the size of a row
    pool_size,         \* bda_pool_size_
    fixed_sizes,       \* fixed_size_bdabuffers_
    bda_buffer,        \* bda_buffer_, with its free elements
    baseline_buffers,  \* per baseline, starttime and times_added
    pc,                \* the call that runs
    bl,                \* its loop counter
    slot,              \* the number of slots that process() was given
    sent,              \* the buffers given to the next step
    dropped            \* history: the rows that AddRow refused

avgConfig == <<factor, elements, pool_size>>
avgVars == <<factor, elements, pool_size, fixed_sizes, bda_buffer, baseline_buffers, pc,
             bl, slot, sent, dropped>>

-----------------------------------------------------------------------------
(***************************************************************************)
(* updateInfo: the default buffer holds what the baselines produce per     *)
(* slot on average, rounded up, and at least the largest row.              *)
(***************************************************************************)
SumTo(f) ==
    LET s[b \in 0 .. NBaselines] == IF b = 0 THEN 0 ELSE s[b - 1] + f[b] IN s[NBaselines]
ProductOf(f) ==
    LET p[b \in 0 .. NBaselines] == IF b = 0 THEN 1 ELSE p[b - 1] * f[b] IN p[NBaselines]

Largest(e) == CHOOSE n \in {e[b] : b \in Baselines} : \A b \in Baselines : e[b] <= n

PoolSize(f, e) ==
    LET unit == ProductOf(f)
        relative == SumTo([b \in Baselines |-> e[b] * (unit \div f[b])])
        average == (relative + unit - 1) \div unit
    IN  IF average < Largest(e) THEN Largest(e) ELSE average

Init ==
    /\ factor \in [Baselines -> 1 .. MaxFactor]
    /\ elements \in [Baselines -> 1 .. MaxElements]
    /\ pool_size = PoolSize(factor, elements)
    /\ fixed_sizes = <<>>
    /\ bda_buffer = None
    /\ baseline_buffers = [b \in Baselines |-> [starttime |-> 0, times_added |-> 0]]
    /\ pc = "idle"
    /\ bl = 1
    /\ slot = 0
    /\ sent = <<>>
    /\ dropped = {}

(***************************************************************************)
(* A new buffer has the first desired size, if there is one.  free is      *)
(* BDABuffer's remaining_capacity_.                                        *)
(***************************************************************************)
NewBuffer ==
    LET cap == IF fixed_sizes = <<>> THEN pool_size ELSE Head(fixed_sizes)
    IN  [cap |-> cap, free |-> cap, rows |-> <<>>]

NextSizes == IF fixed_sizes = <<>> THEN <<>> ELSE Tail(fixed_sizes)

WithRow(buf, r) == [buf EXCEPT !.rows = Append(@, r), !.free = @ - elements[r.bl]]

\* As sent to the next step.
Sent(buf) == [cap |-> buf.cap, rows |-> buf.rows]

DoesNotFit(r) == bda_buffer.free < elements[r.bl]

(***************************************************************************)
(* AddBaseline: send the buffer if the row does not fit, then AddRow,      *)
(* whose result is ignored.                                                *)
(***************************************************************************)
AddBaseline(r) ==
    LET renew == DoesNotFit(r)
        buf == IF renew THEN NewBuffer ELSE bda_buffer
        fits == elements[r.bl] <= buf.free
    IN  /\ sent' = IF renew THEN Append(sent, Sent(bda_buffer)) ELSE sent
        /\ fixed_sizes' = IF renew THEN NextSizes ELSE fixed_sizes
        /\ bda_buffer' = IF fits THEN WithRow(buf, r) ELSE buf
        /\ dropped' = IF fits THEN dropped ELSE dropped \cup {r}

RowOf(b, n) == [bl |-> b, start |-> baseline_buffers[b].starttime, len |-> n]

Cleared(b) ==
    [baseline_buffers EXCEPT ![b] = [starttime |-> 0, times_added |-> 0]]

(***************************************************************************)
(* set_next_desired_buffersize                                             *)
(***************************************************************************)
SetNextDesiredBufferSize(n) ==
    /\ pc = "idle"
    /\ fixed_sizes' = Append(fixed_sizes, n)
    /\ UNCHANGED <<avgConfig, bda_buffer, baseline_buffers, pc, bl, slot, sent, dropped>>

(***************************************************************************)
(* process                                                                 *)
(***************************************************************************)
Process ==
    /\ pc = "idle"
    /\ pc' = "process"
    /\ bl' = 1
    /\ bda_buffer' = IF bda_buffer = None THEN NewBuffer ELSE bda_buffer
    /\ fixed_sizes' = IF bda_buffer = None THEN NextSizes ELSE fixed_sizes
    /\ UNCHANGED <<avgConfig, baseline_buffers, slot, sent, dropped>>

\* The baseline's sum starts in this slot if it is empty.
Started(b) ==
    IF baseline_buffers[b].times_added = 0 THEN slot ELSE baseline_buffers[b].starttime

MutantAddTime ==
    LET n == baseline_buffers[bl].times_added + 1
    IN  /\ pc = "process" /\ bl \in Baselines
        /\ bl' = bl + 1
        /\ IF n = factor[bl]
           THEN /\ AddBaseline([bl |-> bl, start |-> baseline_buffers[bl].starttime, len |-> n])
                /\ baseline_buffers' = Cleared(bl)
           ELSE /\ baseline_buffers' = [baseline_buffers EXCEPT
                        ![bl] = [starttime |-> Started(bl), times_added |-> n]]
                /\ UNCHANGED <<fixed_sizes, bda_buffer, sent, dropped>>
        /\ UNCHANGED <<avgConfig, pc, slot>>

AddTime ==
    LET n == baseline_buffers[bl].times_added + 1
    IN  /\ pc = "process" /\ bl \in Baselines
        /\ bl' = bl + 1
        /\ IF n = factor[bl]
           THEN /\ AddBaseline([bl |-> bl, start |-> Started(bl), len |-> n])
                /\ baseline_buffers' = Cleared(bl)
           ELSE /\ baseline_buffers' = [baseline_buffers EXCEPT
                        ![bl] = [starttime |-> Started(bl), times_added |-> n]]
                /\ UNCHANGED <<fixed_sizes, bda_buffer, sent, dropped>>
        /\ UNCHANGED <<avgConfig, pc, slot>>

IsFull == bda_buffer.free = 0

EndProcess ==
    /\ pc = "process" /\ bl > NBaselines
    /\ pc' = "idle"
    /\ slot' = slot + 1
    /\ sent' = IF IsFull THEN Append(sent, Sent(bda_buffer)) ELSE sent
    /\ bda_buffer' = IF IsFull THEN NewBuffer ELSE bda_buffer
    /\ fixed_sizes' = IF IsFull THEN NextSizes ELSE fixed_sizes
    /\ UNCHANGED <<avgConfig, baseline_buffers, bl, dropped>>

(***************************************************************************)
(* finish: starts with assert(bda_buffer_).                                *)
(***************************************************************************)
Finish ==
    /\ pc = "idle"
    /\ pc' = IF bda_buffer = None THEN "assertion" ELSE "finish"
    /\ bl' = 1
    /\ UNCHANGED <<avgConfig, fixed_sizes, bda_buffer, baseline_buffers, slot, sent, dropped>>

FlushBaseline ==
    /\ pc = "finish" /\ bl \in Baselines
    /\ bl' = bl + 1
    /\ IF baseline_buffers[bl].times_added > 0
       THEN /\ AddBaseline(RowOf(bl, baseline_buffers[bl].times_added))
            /\ baseline_buffers' = Cleared(bl)
       ELSE UNCHANGED <<baseline_buffers, fixed_sizes, bda_buffer, sent, dropped>>
    /\ UNCHANGED <<avgConfig, pc, slot>>

\* Leaves the last, partly filled buffer behind.
MutantEndFinish ==
    /\ pc = "finish" /\ bl > NBaselines
    /\ pc' = "finished"
    /\ sent' = IF IsFull THEN Append(sent, Sent(bda_buffer)) ELSE sent
    /\ bda_buffer' = None
    /\ UNCHANGED <<avgConfig, fixed_sizes, baseline_buffers, bl, slot, dropped>>

EndFinish ==
    /\ pc = "finish" /\ bl > NBaselines
    /\ pc' = "finished"
    /\ sent' = IF bda_buffer.free < bda_buffer.cap THEN Append(sent, Sent(bda_buffer)) ELSE sent
    /\ bda_buffer' = None
    /\ UNCHANGED <<avgConfig, fixed_sizes, baseline_buffers, bl, slot, dropped>>

Next ==
    \/ \E n \in Sizes : SetNextDesiredBufferSize(n)
    \/ Process \/ AddTime \/ EndProcess
    \/ Finish \/ FlushBaseline \/ EndFinish

Spec == Init /\ [][Next]_avgVars
-----------------------------------------------------------------------------

\* Can every buffer, fixed size or default, hold every row?
SizesSuffice == \A n \in Sizes : \A b \in Baselines : elements[b] <= n

\* NoRowIsDropped: AddBaseline ignores the result of AddRow; it never fails
\* when the desired sizes leave room for the largest row.
NoRowIsDropped == SizesSuffice => dropped = {}

RowsOf(bufs) ==
    LET all[k \in 0 .. Len(bufs)] == IF k = 0 THEN <<>> ELSE all[k - 1] \o bufs[k].rows
    IN  all[Len(bufs)]

RowsOut == RowsOf(sent) \o (IF bda_buffer = None THEN <<>> ELSE bda_buffer.rows)

\* The slots of baseline b that its running sum holds.
Summed(b) ==
    {t \in 0 .. slot : /\ baseline_buffers[b].times_added > 0
                       /\ t >= baseline_buffers[b].starttime
                       /\ t < baseline_buffers[b].starttime + baseline_buffers[b].times_added}

\* The slots of baseline b that process() added so far.
Given(b) == 0 .. (IF pc = "process" /\ b < bl THEN slot ELSE slot - 1)

Covers(r, t) == r.start <= t /\ t < r.start + r.len

\* EverySlotOnceInOrder: each slot of each baseline is in exactly one row, or
\* still in the baseline's running sum; after finish() all rows are with the
\* next step.  Rows come out in the order in which they end, whatever the
\* factors, so BDABuffer::AddRow never refuses a row as not properly ordered.
EverySlotOnceInOrder ==
    /\ \A b \in DOMAIN factor : \A t \in Given(b) :
          Cardinality({i \in DOMAIN RowsOut : RowsOut[i].bl = b /\ Covers(RowsOut[i], t)})
          + Cardinality({r \in dropped : r.bl = b /\ Covers(r, t)})
          = (IF t \in Summed(b) THEN 0 ELSE 1)
    /\ pc = "finished" => \A b \in DOMAIN factor : Summed(b) = {}
    /\ \A i, j \in DOMAIN RowsOut :
          i < j => RowsOut[i].start + RowsOut[i].len <= RowsOut[j].start + RowsOut[j].len
=============================================================================
