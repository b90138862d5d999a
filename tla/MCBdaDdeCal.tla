----------------------------- MODULE MCBdaDdeCal -----------------------------
(***************************************************************************)
(* TLC instances of BdaDdeCal, and of the BdaSolverBuffer that it extends. *)
(*                                                                         *)
(* BdaDdeCal: baseline b averages Factor(b) slots: rows start on a         *)
(* multiple of it, the last one may be shorter, rows may be missing.  Rows *)
(* of 2 slots straddle the solution intervals of 3 slots.                  *)
(*                                                                         *)
(* BdaSolverBuffer: every buffer of one or two rows, with row starts on a  *)
(* grid of LastSlot slots; rows may leave gaps.                            *)
(***************************************************************************)
EXTENDS BdaDdeCal, TLC

CONSTANTS LastSlot, b1, b2

Factor == (b1 :> 3) @@ (b2 :> 2)

AnyRow == {r \in [bl : Baselines, start : 0 .. LastSlot, len : 1 .. SolInt] :
              r.start + r.len <= LastSlot}

MCRow ==
    {r \in AnyRow :
        /\ r.start % Factor[r.bl] = 0
        /\ r.len = Factor[r.bl] \/ (r.len < Factor[r.bl] /\ r.start + r.len = LastSlot)}

\* BDABuffer::AddRow refuses a row that ends before the last one starts.
RowOrder(rows) == \A i \in 2 .. Len(rows) : EndOf(rows[i]) > rows[i - 1].start

\* The averager adds a row when it ends, so that the ends do not decrease; here
\* the rows of one buffer end in the same slot or in the next one.
EndsTogether(rows) == \A i \in 2 .. Len(rows) : EndOf(rows[i]) - EndOf(rows[i - 1]) \in {0, 1}

BuffersOf(R) ==
    {<<r>> : r \in R} \cup
    {rows \in R \X R : RowOrder(rows) /\ RowsInOrder(rows, [b \in Baselines |-> 0])}

MCInputBuffers == BuffersOf(MCRow)

-----------------------------------------------------------------------------
\* The solver buffer alone: baselines are interchangeable.
MCSymmetry == Permutations(Baselines)

AnyInputBuffers == {rows \in BuffersOf(AnyRow) : EndsTogether(rows)}

AloneSpec == CalInit /\ ~only_predict /\ [][Next /\ UNCHANGED calVars]_vars

\* Input that goes back in time never ends: a bound on what is held.
Bounded == ordered \/ (Len(data) + Len(done) <= 1 /\ current_interval <= 2)
=============================================================================
