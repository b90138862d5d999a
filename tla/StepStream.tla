----------------------------- MODULE StepStream -----------------------------
(***************************************************************************)
(* What a DP3 step that neither averages nor drops data promises to its    *)
(* neighbours: every buffer given to process() is handed to the next step  *)
(* once and in order, possibly later, and finish() is passed on after the  *)
(* last buffer.                                                            *)
(***************************************************************************)
EXTENDS Naturals, Sequences

CONSTANT Item

VARIABLES
    input,     \* what process() was given so far
    output,    \* what the next step was given so far
    finished   \* has the next step's finish() been called?

Init == input = <<>> /\ output = <<>> /\ ~finished

Receive ==
    /\ ~finished
    /\ Len(input') = Len(input) + 1
    /\ SubSeq(input', 1, Len(input)) = input
    /\ input'[Len(input')] \in Item
    /\ UNCHANGED <<output, finished>>

Forward ==
    /\ ~finished
    /\ \E n \in (Len(output) + 1) .. Len(input) : output' = SubSeq(input, 1, n)
    /\ UNCHANGED <<input, finished>>

\* What a step still holds goes out before the next step's finish() is called.
Finish ==
    /\ ~finished
    /\ finished' = TRUE
    /\ output' = input
    /\ UNCHANGED input

Next == Receive \/ Forward \/ Finish

Spec == Init /\ [][Next]_<<input, output, finished>>
=============================================================================
