--------------------------- MODULE BdaGroupPredict ---------------------------
(***************************************************************************)
(* dp3::steps::BdaGroupPredict: prediction for BDA data by groups of       *)
(* baselines with the same averaging.  The rows of one time of a group may *)
(* be spread over buffers, so buffers wait in a queue; a prediction writes *)
(* into all buffers that hold a row of it.                                 *)
(*                                                                         *)
(* The rows of an input may be incomplete; then the step throws.           *)
(***************************************************************************)
EXTENDS BdaInput, FiniteSets

VARIABLE groups    \* the step's members; see NoGroupAsked

groupVars == <<factor, elements, input, fed, groups>>

\* averaging_to_baseline_group_map_, index_to_baseline_group_map_
Group(b) == {c \in Baselines : factor[c] = factor[b] /\ elements[c] = elements[b]}
Keys == {Group(b) : b \in Baselines}

-----------------------------------------------------------------------------
\* time and requested are by group, write_back_info_ by baseline: the buffer
\* and the row.  filled is by buffer; front is the first buffer in the queue.
\* predicted is the time and the baselines of the prediction that a row holds.
NoGroupAsked ==
    [time |-> [g \in Keys |-> 0], requested |-> [g \in Keys |-> 0],
     write_back |-> [b \in Baselines |-> <<0, 0>>],
     filled |-> <<>>, front |-> 1, predicted |-> <<>>,
     failed |-> FALSE, finished |-> FALSE]

\* In half time slots.
Middle(row) == 2 * row.start + row.len

\* The rows of a group come in the order of their times, and a time of a
\* baseline once, as a BDAAverager sends and MSBDAWriter writes them.
InGroupOrder ==
    \A k, l \in DOMAIN input : \A i \in DOMAIN input[k], j \in DOMAIN input[l] :
        LET r == input[k][i]
            q == input[l][j]
        IN  ((k < l \/ (k = l /\ i < j)) /\ q.bl \in Group(r.bl)) =>
                \/ Middle(r) < Middle(q)
                \/ Middle(r) = Middle(q) /\ r.bl # q.bl

GroupInit ==
    /\ factor \in [Baselines -> 1 .. MaxFactor]
    /\ elements \in [Baselines -> 1 .. MaxElements]
    /\ input \in Seq(Seq(BdaRow)) /\ InGroupOrder
    /\ fed = 0
    /\ groups = NoGroupAsked

\* The results are copied to the rows that asked for them.
FlushGroup(s, g) ==
    LET at == {s.write_back[b] : b \in g}
    IN  [s EXCEPT
            !.predicted = [k \in DOMAIN @ |-> [i \in DOMAIN @[k] |->
                IF <<k, i>> \in at THEN [time |-> s.time[g], bls |-> g] ELSE @[k][i]]],
            !.filled = [k \in DOMAIN @ |->
                @[k] + Cardinality({b \in g : s.write_back[b][1] = k})],
            !.requested[g] = 0]

OtherTime(s, g, row) == s.requested[g] > 0 /\ s.time[g] # Middle(row)

\* Faulty variant: does not check the time.
MutantProcessRow(s, k, i) ==
    LET row == input[k][i]
        g == Group(row.bl)
        asked == [s EXCEPT !.write_back[row.bl] = <<k, i>>, !.time[g] = Middle(row),
                           !.requested[g] = @ + 1]
    IN  IF asked.requested[g] = Cardinality(g) THEN FlushGroup(asked, g) ELSE asked

\* Row i of buffer k.
ProcessRow(s, k, i) ==
    LET row == input[k][i]
        g == Group(row.bl)
        asked == [s EXCEPT !.write_back[row.bl] = <<k, i>>, !.time[g] = Middle(row),
                           !.requested[g] = @ + 1]
    IN  IF s.failed THEN s
        ELSE IF OtherTime(s, g, row) THEN [s EXCEPT !.failed = TRUE]
        ELSE IF asked.requested[g] = Cardinality(g) THEN FlushGroup(asked, g)
        ELSE asked

Pushed(s, k) ==
    [s EXCEPT !.filled = Append(@, 0),
              !.predicted = Append(@, [i \in DOMAIN input[k] |-> [time |-> -1, bls |-> {}]])]

RowsProcessed(s, k) ==
    LET after[i \in 0 .. Len(input[k])] ==
            IF i = 0 THEN Pushed(s, k) ELSE ProcessRow(after[i - 1], k, i)
    IN  after[Len(input[k])]

\* Sends the buffers at the front of the queue of which all rows are filled.
Sent(s) ==
    LET waiting == {k \in s.front .. Len(s.filled) : s.filled[k] # Len(input[k])}
    IN  [s EXCEPT !.front = IF waiting = {} THEN Len(s.filled) + 1
                            ELSE CHOOSE k \in waiting : \A w \in waiting : k <= w]

ProcessGroups ==
    /\ fed < Len(input) /\ ~groups.failed
    /\ fed' = fed + 1
    /\ LET s == RowsProcessed(groups, fed + 1)
       IN  groups' = IF s.failed THEN s ELSE Sent(s)
    /\ UNCHANGED <<factor, elements, input>>

\* Throws if buffers are left.
FinishGroups ==
    /\ fed = Len(input) /\ ~groups.failed /\ ~groups.finished
    /\ groups' = IF groups.front <= fed THEN [groups EXCEPT !.failed = TRUE]
                 ELSE [groups EXCEPT !.finished = TRUE]
    /\ UNCHANGED <<factor, elements, input, fed>>

GroupNext == ProcessGroups \/ FinishGroups

GroupSpec == GroupInit /\ [][GroupNext]_groupVars
-----------------------------------------------------------------------------
Rows == UNION {{input[k][i] : i \in DOMAIN input[k]} : k \in DOMAIN input}
Incomplete ==
    \E r \in Rows : \E b \in Group(r.bl) :
        \A other \in Rows : other.bl = b => Middle(other) # Middle(r)

(* Every row that is sent on holds a prediction for its own time, made with   *)
(* all baselines of its group, whatever the buffers in which these rows came, *)
(* and no buffer stays behind.  The step fails when a time of a group misses  *)
(* a row, and only then (BdaGroupPredict.cc:98, 113, 238, 248).               *)
RowsArePredictedTogether ==
    /\ \A k \in 1 .. groups.front - 1 : \A i \in DOMAIN input[k] :
          groups.predicted[k][i] = [time |-> Middle(input[k][i]), bls |-> Group(input[k][i].bl)]
    /\ groups.finished => groups.front = Len(input) + 1 /\ ~Incomplete
    /\ groups.failed => Incomplete
=============================================================================
