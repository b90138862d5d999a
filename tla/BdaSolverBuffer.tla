-------------------------- MODULE BdaSolverBuffer --------------------------
(***************************************************************************)
(* dp3::ddecal::BdaSolverBuffer: the queue between the predict steps and   *)
(* the solver of BdaDdeCal.  Buffers with baseline-dependently averaged    *)
(* (BDA) rows come in; each row belongs to the solution interval that      *)
(* holds its centre; a solution interval is solved when every baseline has *)
(* delivered a row that starts after it; a buffer goes out when all its    *)
(* rows belong to solved intervals.                                        *)
(*                                                                         *)
(* Time is counted in regular time slots since time_start_.  A row covers  *)
(* slots start .. start + len - 1.  The weighted and the model data of a   *)
(* row are not modelled: they share the row's metadata.                    *)
(***************************************************************************)
EXTENDS Integers, Sequences

CONSTANTS
    Baselines,    \* the baseline numbers
    SolInt,       \* time_interval_: length of a solution interval in slots
    InputBuffers  \* the buffers (sequences of rows) the input may deliver

Row == [bl : Baselines, start : Nat, len : 1 .. SolInt]

ASSUME SolIntAssumption == SolInt \in Nat \ {0}
ASSUME InputAssumption == InputBuffers \subseteq Seq(Row) \ {<<>>}

VARIABLES
    data,              \* data_: buffers that hold rows of unsolved intervals
    done,              \* done_: buffers that are fully processed
    data_rows,         \* data_rows_: per interval, from the current one, its rows
    current_interval,  \* current_interval_
    last_complete,     \* last_complete_interval_per_baseline_
    status,            \* "ok", or how the program ended: an assertion or a throw
    appended,          \* history: per baseline, the end of the last appended row
    ordered            \* history: did the rows of each baseline come in time order?

bufVars == <<data, done, data_rows, current_interval, last_complete, status, appended,
             ordered>>

Rng(s) == {s[i] : i \in DOMAIN s}

(***************************************************************************)
(* RelativeIndex of the centre and of the start of a row.                  *)
(***************************************************************************)
CentreInterval(r) == (2 * r.start + r.len) \div (2 * SolInt)
StartInterval(r) == r.start \div SolInt
RelativeIndex(r) == CentreInterval(r) - current_interval
RelativeStart(r) == StartInterval(r) - current_interval

(***************************************************************************)
(* Rows of one baseline come in time order and do not overlap; from[b] is  *)
(* where the previous buffer stopped.                                      *)
(***************************************************************************)
RowsInOrder(rows, from) ==
    \A i \in DOMAIN rows :
        /\ from[rows[i].bl] <= rows[i].start
        /\ \A j \in DOMAIN rows : (j < i /\ rows[j].bl = rows[i].bl)
                                  => rows[j].start + rows[j].len <= rows[i].start

\* The last row of baseline b in rows (b has one).
LastRow(rows, b) ==
    rows[CHOOSE i \in DOMAIN rows :
            /\ rows[i].bl = b
            /\ \A j \in DOMAIN rows : rows[j].bl = b => j <= i]

BaselinesOf(rows) == {r.bl : r \in Rng(rows)}

EndOf(r) == r.start + r.len

AppendedAfter(rows) ==
    [b \in Baselines |-> IF b \in BaselinesOf(rows) THEN EndOf(LastRow(rows, b))
                                                    ELSE appended[b]]

\* Does row i start before an interval that its baseline already completed?
Misordered(rows, i) ==
    LET prev == {j \in 1 .. (i - 1) : rows[j].bl = rows[i].bl}
    IN  IF prev = {}
        THEN RelativeStart(rows[i]) < last_complete[rows[i].bl]
        ELSE \E j \in prev : /\ \A k \in prev : k <= j
                             /\ RelativeStart(rows[i]) < RelativeStart(rows[j]) - 1

-----------------------------------------------------------------------------
Init ==
    /\ data = <<>>
    /\ done = <<>>
    /\ data_rows = <<{}>>
    /\ current_interval = 0
    /\ last_complete = [b \in Baselines |-> -1]
    /\ status = "ok"
    /\ appended = [b \in Baselines |-> 0]
    /\ ordered = TRUE

(***************************************************************************)
(* AppendAndWeight: one call, all rows.  A row before the current interval *)
(* trips assert(queue_index >= 0) before the ordering check can throw.     *)
(***************************************************************************)
\* The queue is extended to hold the interval of every row.
SizeFor(rows) ==
    LET sizes == {RelativeIndex(r) + 1 : r \in Rng(rows)} \cup {Len(data_rows)}
    IN  CHOOSE n \in sizes : \A m \in sizes : m <= n

Accept(rows) ==
    /\ data' = Append(data, rows)
    /\ data_rows' = [q \in 1 .. SizeFor(rows) |->
                        (IF q <= Len(data_rows) THEN data_rows[q] ELSE {})
                        \cup {r \in Rng(rows) : RelativeIndex(r) = q - 1}]
    /\ last_complete' = [b \in Baselines |->
                            IF b \in BaselinesOf(rows)
                            THEN RelativeStart(LastRow(rows, b)) - 1
                            ELSE last_complete[b]]
    /\ appended' = AppendedAfter(rows)
    /\ UNCHANGED <<done, current_interval, status>>

Fail(how) ==
    /\ status' = how
    /\ UNCHANGED <<data, done, data_rows, current_interval, last_complete, appended>>

\* The first offending row decides how the call ends.
AppendAndWeight(rows) ==
    LET negative == {i \in DOMAIN rows : RelativeIndex(rows[i]) < 0}
        misordered == {i \in DOMAIN rows : Misordered(rows, i)}
    IN  /\ status = "ok"
        /\ ordered' = (ordered /\ RowsInOrder(rows, appended))
        /\ \/ negative = {} /\ misordered = {} /\ Accept(rows)
           \/ /\ \E i \in negative : \A j \in misordered : i <= j
              /\ Fail("assertion")
           \/ /\ \E i \in misordered : \A j \in negative : i < j
              /\ Fail("misordered")

(***************************************************************************)
(* IntervalIsComplete, AdvanceInterval, GetDone and Clear.  The operators  *)
(* named Mutant... are faulty variants that the properties below exclude.  *)
(***************************************************************************)
MutantCompleteIfAny == \E b \in Baselines : last_complete[b] >= 0

IntervalIsComplete == \A b \in Baselines : last_complete[b] >= 0

\* A buffer seen as old when its rows start, not lie, before the interval.
MutantReleasedByStart(c) ==
    CHOOSE n \in 0 .. Len(data) :
        /\ \A i \in 1 .. n : \A r \in Rng(data[i]) : StartInterval(r) < c
        /\ n < Len(data) => \E r \in Rng(data[n + 1]) : StartInterval(r) >= c

\* The buffers released before current_interval_ is incremented.
MutantReleasedTooLate(c) ==
    CHOOSE n \in 0 .. Len(data) :
        /\ \A i \in 1 .. n : \A r \in Rng(data[i]) : CentreInterval(r) < c - 1
        /\ n < Len(data) => \E r \in Rng(data[n + 1]) : CentreInterval(r) >= c - 1

\* The number of leading buffers of data whose rows all lie before interval c.
Released(c) ==
    CHOOSE n \in 0 .. Len(data) :
        /\ \A i \in 1 .. n : \A r \in Rng(data[i]) : CentreInterval(r) < c
        /\ n < Len(data) => \E r \in Rng(data[n + 1]) : CentreInterval(r) >= c

RowsAfterCurrent == IF Len(data_rows) = 1 THEN <<{}>> ELSE Tail(data_rows)

AdvanceInterval ==
    LET n == Released(current_interval + 1)
    IN  /\ status = "ok"
        /\ data_rows' = RowsAfterCurrent
        /\ current_interval' = current_interval + 1
        /\ last_complete' = [b \in Baselines |-> last_complete[b] - 1]
        /\ done' = done \o SubSeq(data, 1, n)
        /\ data' = SubSeq(data, n + 1, Len(data))
        /\ UNCHANGED <<status, appended, ordered>>

GetDone ==
    /\ status = "ok"
    /\ done' = <<>>
    /\ UNCHANGED <<data, data_rows, current_interval, last_complete, status, appended,
                   ordered>>

Clear ==
    /\ status = "ok"
    /\ data' = <<>>
    /\ data_rows' = <<{}>>
    /\ done' = <<>>
    /\ UNCHANGED <<current_interval, last_complete, status, appended, ordered>>

(***************************************************************************)
(* The buffer with an owner that leaves an interval only when it is        *)
(* complete, as BdaDdeCal does while input arrives.                        *)
(***************************************************************************)
AppendInput == \E rows \in InputBuffers : AppendAndWeight(rows)

AdvanceComplete == IntervalIsComplete /\ AdvanceInterval

Next == AppendInput \/ AdvanceComplete \/ (done # <<>> /\ GetDone) \/ Clear

Spec == Init /\ [][Next]_bufVars

-----------------------------------------------------------------------------
TypeOK ==
    /\ data \in Seq(Seq(Row))
    /\ done \in Seq(Seq(Row))
    /\ data_rows \in Seq(SUBSET Row)
    /\ data_rows # <<>>
    /\ current_interval \in Nat
    /\ last_complete \in [Baselines -> Int]
    /\ status \in {"ok", "assertion", "misordered"}
    /\ appended \in [Baselines -> Nat]
    /\ ordered \in BOOLEAN

\* NeverFails: an ordered stream of rows never trips assert(queue_index >= 0)
\* and is never refused as misordered: no interval is left while a row of it
\* is still to come.
NeverFails == ordered => status = "ok"

\* Why NeverFails holds: no baseline is more than one interval behind the
\* current one, and the completed intervals of a baseline end before the rows
\* that it has still to deliver.
CompleteIsBehind ==
    ordered =>
        \A b \in Baselines :
            /\ last_complete[b] >= -1
            /\ current_interval + last_complete[b] + 1 <= appended[b] \div SolInt

\* RowsOfIntervalsAreOwned: the row pointers of every interval are exactly the
\* rows of the buffers in data_ with that interval: none dangles after a
\* buffer is released, and the solver misses no row of a kept buffer.
Owned == UNION {Rng(data[i]) : i \in DOMAIN data}

RowsOfIntervalsAreOwned ==
    /\ \A q \in DOMAIN data_rows :
          data_rows[q] = {r \in Owned : RelativeIndex(r) = q - 1}
    /\ \A r \in Owned : RelativeIndex(r) < Len(data_rows)

\* FrontIsNeeded: AdvanceInterval leaves no buffer at the head of data_ whose
\* rows are all solved, so BufferCount reaches 0 when finish() drains it.
FrontIsNeeded ==
    data # <<>> => \E r \in Rng(Head(data)) : RelativeIndex(r) >= 0
=============================================================================
