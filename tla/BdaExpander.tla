---------------------------- MODULE BdaExpander ----------------------------
(***************************************************************************)
(* dp3::steps::BDAExpander: turns BDA buffers back into regular buffers.   *)
(* Every row is copied into the time slots that it covers; a slot goes to  *)
(* the next step when it has data for all baselines and all earlier slots  *)
(* went before it.  BdaPredict is the specification that uses the steps    *)
(* defined here.                                                           *)
(***************************************************************************)
EXTENDS Integers, Sequences

CONSTANTS
    Baselines,  \* the baseline numbers
    MaxLength,  \* bound on the time averaging factors
    NoData      \* a baseline without data in a RegularBufferElement

Row == [bl : Baselines, start : Nat, len : 1 .. MaxLength]

VARIABLES
    elements_by_slot,           \* RB_elements: per slot and baseline, the row copied
    next_time_slot_to_process,  \* next_time_slot_to_process_
    calls,                      \* the call that runs: "idle", "process", "finished"
    expanded,                   \* the regular buffers given to the next step
    rows_read                   \* history: the rows that process() was given

expVars == <<elements_by_slot, next_time_slot_to_process, calls, expanded, rows_read>>

RowsIn(s) == {s[i] : i \in DOMAIN s}
Slots(r) == r.start .. (r.start + r.len - 1)

-----------------------------------------------------------------------------
Init ==
    /\ elements_by_slot = <<>>
    /\ next_time_slot_to_process = 0
    /\ calls = "idle"
    /\ expanded = <<>>
    /\ rows_read = {}

(***************************************************************************)
(* process(): copy the rows.  A row of one slot and a longer row take two  *)
(* branches of the code that set the same elements.                        *)
(***************************************************************************)
\* One slot too many for a row of several slots.
MutantTargetTooLong(r) == r.start .. (IF r.len = 1 THEN r.start ELSE r.start + r.len)

Target(r) == Slots(r)

\* A later row of a baseline replaces an earlier one.
CopiedRow(rows, t, b) ==
    LET at == {i \in DOMAIN rows : rows[i].bl = b /\ t \in Target(rows[i])}
        before == IF t \in DOMAIN elements_by_slot THEN elements_by_slot[t][b] ELSE NoData
    IN  IF at = {} THEN before ELSE rows[CHOOSE i \in at : \A j \in at : j <= i]

CopyRows(rows) ==
    /\ elements_by_slot' =
          [t \in DOMAIN elements_by_slot \cup UNION {Target(r) : r \in RowsIn(rows)} |->
              [b \in Baselines |-> CopiedRow(rows, t, b)]]
    /\ rows_read' = rows_read \cup RowsIn(rows)

Process(rows) ==
    /\ calls = "idle"
    /\ calls' = "process"
    /\ CopyRows(rows)
    /\ UNCHANGED <<next_time_slot_to_process, expanded>>

NextIsReady ==
    /\ next_time_slot_to_process \in DOMAIN elements_by_slot
    /\ \A b \in Baselines : elements_by_slot[next_time_slot_to_process][b] # NoData

\* process() ends after one slot, ready or not.
MutantSendNext ==
    /\ calls = "process" /\ NextIsReady
    /\ expanded' = Append(expanded, elements_by_slot[next_time_slot_to_process])
    /\ elements_by_slot' = [t \in DOMAIN elements_by_slot \ {next_time_slot_to_process} |->
                               elements_by_slot[t]]
    /\ next_time_slot_to_process' = next_time_slot_to_process + 1
    /\ calls' = "idle"
    /\ UNCHANGED rows_read

SendNext ==
    /\ calls = "process" /\ NextIsReady
    /\ expanded' = Append(expanded, elements_by_slot[next_time_slot_to_process])
    /\ elements_by_slot' = [t \in DOMAIN elements_by_slot \ {next_time_slot_to_process} |->
                               elements_by_slot[t]]
    /\ next_time_slot_to_process' = next_time_slot_to_process + 1
    /\ UNCHANGED <<calls, rows_read>>

EndProcess ==
    /\ calls = "process" /\ ~NextIsReady
    /\ calls' = "idle"
    /\ UNCHANGED <<elements_by_slot, next_time_slot_to_process, expanded, rows_read>>

(***************************************************************************)
(* finish(): whatever still waits is thrown away.                          *)
(***************************************************************************)
Finish ==
    /\ calls = "idle"
    /\ elements_by_slot' = <<>>
    /\ calls' = "finished"
    /\ UNCHANGED <<next_time_slot_to_process, expanded, rows_read>>

-----------------------------------------------------------------------------
Element == [Baselines -> Row \cup {NoData}]

\* The slots for which every baseline has delivered a row.
Complete(t) == \A b \in Baselines : \E r \in rows_read : r.bl = b /\ t \in Slots(r)

\* SlotsAreTheirRows: the k-th regular buffer is time slot k - 1, and each of
\* its baselines has the data of the row that covers that slot.
SlotsAreTheirRows ==
    \A k \in DOMAIN expanded : \A b \in Baselines :
        /\ expanded[k][b] \in rows_read
        /\ expanded[k][b].bl = b
        /\ k - 1 \in Slots(expanded[k][b])

\* NothingReadyWaits: between calls, the slots sent are exactly the complete
\* slots before the first incomplete one, so finish() throws no slot away of a
\* measurement without gaps ("Check that internal buffer is empty").
NothingReadyWaits ==
    calls # "process" =>
        /\ \A t \in 0 .. (Len(expanded) - 1) : Complete(t)
        /\ ~Complete(Len(expanded))
=============================================================================
