----------------------------- MODULE MCMSReader -----------------------------
(***************************************************************************)
(* TLC instances of MSReader: MSs with up to MaxSlots slots at any of the  *)
(* times in Ticks, in time order or, the short ones, in any order.  Slots  *)
(* that follow each other are further apart than the tolerance.            *)
(*                                                                         *)
(* The other kind of behaviour is that of MultiMSReader, for MSs in time   *)
(* order with up to MultiSlots slots.                                      *)
(***************************************************************************)
EXTENDS MultiMSReader

CONSTANTS Ticks, MaxSlots, Unordered, MultiSlots

VARIABLE kind  \* "one" or "several"

\* One slot before the MS, its first slot, and its second.
MCStartSlots == -1 .. 1

\* The end of the time range one slot after or before the end of the MS.
MCEndSlots == {-1, 1}

\* Lists that go back in time have up to Unordered slots.
MCTimeLists ==
    {t \in UNION {[1 .. n -> Ticks] : n \in 1 .. MaxSlots} :
        \/ InOrder(t)
        \/ /\ Len(t) <= Unordered
           /\ \A i \in 2 .. Len(t) :
                 t[i] - t[i - 1] > Tolerance \/ t[i - 1] - t[i] > Tolerance}

SmallLists == {t \in TimeLists : Len(t) <= MultiSlots /\ InOrder(t)}

NoOther ==
    /\ o_times = <<>> /\ o_iter = 0 /\ o_first_time = 0 /\ o_last_time = 0 /\ o_next_time = 0
    /\ o_last_ms_time = 0 /\ o_nr_read = 0 /\ o_nr_inserted = 0 /\ o_ntime = 0
    /\ o_n_times = 0 /\ o_pc = "idle" /\ o_slots = <<>> /\ turn = "open" /\ combined = <<>>

MCInit ==
    \/ kind = "one" /\ Init /\ NoOther
    \/ kind = "several" /\ times \in SmallLists /\ o_times \in SmallLists /\ MultiInit

MCNext ==
    /\ UNCHANGED kind
    /\ \/ kind = "one" /\ Next /\ UNCHANGED <<otherVars, turn, combined>>
       \/ kind = "several" /\ MultiNext

MCSpec ==
    MCInit /\ [][MCNext]_<<multiVars, kind>> /\ WF_<<multiVars, kind>>(kind = "one" /\ MCNext)

\* MSReader: reading ends, with slots that are missing, late or flagged.
MCTerminates == kind = "one" => Terminates
=============================================================================
