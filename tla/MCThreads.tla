------------------------------ MODULE MCThreads ------------------------------
(***************************************************************************)
(* TLC instances of the modules of threads; kind is the one that runs.     *)
(*                                                                         *)
(* "pool": pools of one to three threads, so none to two workers besides   *)
(* the local threads; three directions with no source, one source, and     *)
(* more sources than tasks that may be queued.                             *)
(*                                                                         *)
(* "loop": a ParallelFor of one to four threads, and up to three runs.     *)
(*                                                                         *)
(* "interpolate": up to MaxTimes times of NChan channels, of which at most *)
(* MaxFlagged samples are flagged, or all of one time and no other: with 5 *)
(* channels more than fit in the lane of 2 x BufferSize = 4, and with one  *)
(* time a whole window that is flagged.                                    *)
(***************************************************************************)
EXTENDS Threads, Interpolate, FiniteSetsExt

CONSTANTS MaxTimes, MaxFlagged

VARIABLE kind

MCSources == <<4, 0, 1>>

Samples(n) == (1 .. n) \X (1 .. NChan)

\* The flags of n times in which the samples of the set are flagged.
FlagsOf(n, set) == [t \in 1 .. n |-> {ch \in 1 .. NChan : <<t, ch>> \in set}]

Flagged(n) ==
    UNION {kSubset(k, Samples(n)) : k \in 0 .. MaxFlagged}
    \cup {{t} \X (1 .. NChan) : t \in 1 .. n}

MCFlagLists == UNION {{FlagsOf(n, set) : set \in Flagged(n)} : n \in 1 .. MaxTimes}

\* What is of the other kind has one value.
NoInput ==
    /\ flagged = <<>> /\ fed = 0 /\ buffers = <<>> /\ interpolated_pos = 0
    /\ pc = "none" /\ finishing = FALSE /\ sent = <<>> /\ todo = <<>> /\ left = <<>>
    /\ interpolator = <<>> /\ batch = <<>> /\ value = <<>>
    /\ EmptyLane

NoLoop ==
    /\ settings = [n_threads |-> 1]
    /\ loop = [runs |-> 0, calls |-> <<>>, pc |-> [t \in {0} |-> "outside"]]

NoPool ==
    /\ n_threads = 0 /\ is_stopped = FALSE /\ next_priority = 0
    /\ tasks = {} /\ waiting = {} /\ caller = [l \in Loops |-> "none"] /\ priority = <<>>
    /\ start = <<>> /\ progress = <<>> /\ thread = <<>>
    /\ running = [t \in Threads |-> Idle]
    /\ calls = [t \in Task |-> 0]

MCInit ==
    \/ kind = "pool" /\ Init /\ NoLoop /\ NoInput
    \/ kind = "loop" /\ NoPool /\ ParInit /\ NoInput
    \/ kind = "interpolate" /\ NoPool /\ NoLoop /\ InterpolateInit

MCNext ==
    /\ UNCHANGED kind
    /\ \/ kind = "pool" /\ Next /\ UNCHANGED <<parVars, interpolateVars>>
       \/ kind = "loop" /\ ParNext /\ UNCHANGED <<vars, interpolateVars>>
       \/ kind = "interpolate" /\ InterpolateStep /\ UNCHANGED <<vars, parVars>>

mcVars == <<vars, parVars, interpolateVars, kind>>

\* The kind does not change, so this is the fairness of all modules.
MCSpec == MCInit /\ [][MCNext]_mcVars /\ WF_mcVars(MCNext)

-----------------------------------------------------------------------------
\* ThreadPool: every loop over tasks returns, also when pools nest.
PoolTerminates == kind = "pool" => Terminates

\* Interpolate: whatever the lane and the threads do, every buffer is sent.
EveryBufferIsSent == kind = "interpolate" => BuffersAreSent
=============================================================================
