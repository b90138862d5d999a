----------------------------- MODULE Interpolate -----------------------------
(***************************************************************************)
(* dp3::steps::Interpolate: replaces flagged samples by a weighted mean of *)
(* the unflagged samples in a window of _windowSize times and channels.    *)
(*                                                                         *)
(* The step keeps a window of buffers.  One time is interpolated by up to  *)
(* 8 threads: the caller writes the flagged samples to a Lane, and the     *)
(* threads read samples from it, BUFFER_SIZE at a time, and replace them.  *)
(*                                                                         *)
(* Baselines and polarizations do not mix, so one of each is modelled.  A  *)
(* value is the set of the samples (time, channel) that it is the mean of; *)
(* the empty set is the NaN of a window without unflagged samples.         *)
(***************************************************************************)
EXTENDS Integers, Sequences, FiniteSets

CONSTANTS
    WindowSize,    \* _windowSize: an odd number
    NChan,         \* the number of channels
    FlagLists,     \* the flags that the input may have: a set of channels per time
    Interpolators, \* the interpolation threads
    Main,          \* the thread that runs process() and finish()
    BufferSize,    \* BUFFER_SIZE
    NoElement      \* an element of the lane before it is written

ASSUME InterpolateAssumption ==
    /\ WindowSize \in Nat /\ WindowSize % 2 = 1
    /\ NChan \in Nat \ {0}
    /\ FlagLists \subseteq Seq(SUBSET (1 .. NChan))
    /\ IsFiniteSet(Interpolators) /\ Interpolators # {}
    /\ BufferSize \in Nat \ {0}

VARIABLES
    flagged,           \* the flags of the input, per time
    fed,               \* the number of buffers given to process()
    buffers,           \* _buffers: time, flags and data
    interpolated_pos,  \* _interpolatedPos
    pc,                \* where process() or finish() is
    finishing,         \* is it finish()?
    sent,              \* the buffers given to the next step
    todo,              \* the samples to emplace in the lane's write buffer
    left,              \* the samples that the write to the lane has left
    interpolator,      \* per thread: "none", "read", "replace" or "gone"
    batch,             \* per thread, the samples read and not replaced yet
    value,             \* per thread, the value of the sample being replaced
    \* aocommon::Lane, a cyclic buffer between the caller and the threads:
    buffer,            \* _buffer
    write_position,    \* _write_position
    free_write_space,  \* _free_write_space
    ended,             \* _status = status_end
    writers_waiting,   \* the threads that wait for _writing_possible_condition
    readers_waiting    \* the threads that wait for _reading_possible_condition

stepVars == <<flagged, fed, buffers, interpolated_pos, finishing, sent>>
laneVars == <<buffer, write_position, free_write_space, ended, writers_waiting,
              readers_waiting>>
samplerVars == <<interpolator, batch, value>>
interpolateVars == <<stepVars, pc, todo, left, samplerVars, laneVars>>

Channels == 1 .. NChan
Half == WindowSize \div 2

\* _lane has room for one read of every thread.
Capacity == Cardinality(Interpolators) * BufferSize
Positions == 0 .. (Capacity - 1)

EmptyLane ==
    /\ buffer = [p \in Positions |-> NoElement]
    /\ write_position = 0
    /\ free_write_space = Capacity
    /\ ended = FALSE
    /\ writers_waiting = {}
    /\ readers_waiting = {}

ResizeLane ==
    /\ buffer' = [p \in Positions |-> NoElement]
    /\ write_position' = 0
    /\ free_write_space' = Capacity
    /\ ended' = FALSE
    /\ UNCHANGED <<writers_waiting, readers_waiting>>

read_position == (write_position + free_write_space) % Capacity
free_read_space == Capacity - free_write_space

Smallest(m, n) == IF m <= n THEN m ELSE n

(***************************************************************************)
(* The lane.  An action is what a thread does from when it gets _mutex     *)
(* until it releases it, at the end of the call or in the wait for a       *)
(* condition.                                                              *)
(*                                                                         *)
(* write_generic: what fits is written, then the thread waits with the     *)
(* rest.                                                                   *)
(***************************************************************************)
ImmediateWrite(elements) ==
    LET n == Len(elements)
    IN  /\ buffer' = [p \in Positions |->
                         LET i == ((p - write_position) % Capacity) + 1
                         IN  IF i <= n THEN elements[i] ELSE buffer[p]]
        /\ write_position' = (write_position + n) % Capacity
        /\ free_write_space' = free_write_space - n
        /\ readers_waiting' = IF n > 0 THEN {} ELSE readers_waiting

\* What remains of the elements after a write.
Rest(elements) ==
    SubSeq(elements, Smallest(free_write_space, Len(elements)) + 1, Len(elements))

LaneWrite(t, elements) ==
    LET n == Smallest(free_write_space, Len(elements))
    IN  /\ ~ended /\ t \notin writers_waiting
        /\ ImmediateWrite(SubSeq(elements, 1, n))
        /\ writers_waiting' = IF n < Len(elements) THEN writers_waiting \cup {t}
                                               ELSE writers_waiting
        /\ UNCHANGED ended

(***************************************************************************)
(* read: what is there is read, then the thread waits for more, unless the *)
(* writer has ended.  wanted is what the thread still has to read; the     *)
(* call returns when Done.                                                 *)
(***************************************************************************)
Readable(n) == [i \in 1 .. n |-> buffer[(read_position + i - 1) % Capacity]]

\* Ignores that the writer has ended.
MutantReadEnds(rest) == rest = 0

ReadEnds(rest) == rest = 0 \/ ended

\* The elements that a read gives now, and whether it returns with them.
Got(wanted) == Readable(Smallest(free_read_space, wanted))
Done(wanted) == ReadEnds(wanted - Len(Got(wanted)))

LaneRead(t, wanted) ==
    LET n == Len(Got(wanted))
    IN  /\ t \notin readers_waiting
        /\ free_write_space' = free_write_space + n
        /\ writers_waiting' = IF n > 0 THEN {} ELSE writers_waiting
        /\ readers_waiting' = IF Done(wanted) THEN readers_waiting
                                               ELSE readers_waiting \cup {t}
        /\ UNCHANGED <<buffer, write_position, ended>>

LaneWriteEnd ==
    /\ ended' = TRUE
    /\ writers_waiting' = {}
    /\ readers_waiting' = {}
    /\ UNCHANGED <<buffer, write_position, free_write_space>>

-----------------------------------------------------------------------------
InterpolateInit ==
    /\ flagged \in FlagLists
    /\ fed = 0
    /\ buffers = <<>>
    /\ interpolated_pos = 0
    /\ pc = "idle"
    /\ finishing = FALSE
    /\ sent = <<>>
    /\ todo = <<>>
    /\ left = <<>>
    /\ interpolator = [t \in Interpolators |-> "none"]
    /\ batch = [t \in Interpolators |-> <<>>]
    /\ value = [t \in Interpolators |-> {}]
    /\ EmptyLane

(***************************************************************************)
(* process() and finish()                                                  *)
(***************************************************************************)
InputBuffer(t) ==
    [time |-> t, flags |-> flagged[t], data |-> [ch \in Channels |-> {<<t, ch>>}]]

Process ==
    /\ pc = "idle" /\ fed < Len(flagged)
    /\ fed' = fed + 1
    /\ buffers' = Append(buffers, InputBuffer(fed + 1))
    /\ pc' = IF Len(buffers') >= WindowSize THEN "window" ELSE "idle"
    /\ UNCHANGED <<flagged, interpolated_pos, finishing, sent, todo, left, samplerVars,
                   laneVars>>

Finish ==
    /\ pc = "idle" /\ fed = Len(flagged)
    /\ finishing' = TRUE
    /\ pc' = "window"
    /\ UNCHANGED <<flagged, fed, buffers, interpolated_pos, sent, todo, left, samplerVars,
                   laneVars>>

\* One position too far: the end of its window is not there yet.
MutantInterpolateNext ==
    IF finishing THEN interpolated_pos < Len(buffers) ELSE interpolated_pos <= Half + 1

\* Is there a time to interpolate: up to the middle, or all at the end?
InterpolateNext ==
    IF finishing THEN interpolated_pos < Len(buffers) ELSE interpolated_pos <= Half

\* The front buffer with its flags cleared, except where data is NaN.
Cleared(buf) == [buf EXCEPT !.flags = {ch \in Channels : buf.data[ch] = {}}]

SendFrontBuffer ==
    /\ pc = "window" /\ ~InterpolateNext /\ buffers # <<>>
    /\ sent' = Append(sent, Cleared(Head(buffers)))
    /\ buffers' = Tail(buffers)
    /\ interpolated_pos' = interpolated_pos - 1
    /\ pc' = IF finishing THEN "window" ELSE "idle"
    /\ UNCHANGED <<flagged, fed, finishing, todo, left, samplerVars, laneVars>>

FinishNextStep ==
    /\ pc = "window" /\ finishing /\ buffers = <<>>
    /\ pc' = "finished"
    /\ UNCHANGED <<stepVars, todo, left, samplerVars, laneVars>>

(***************************************************************************)
(* interpolateTimestep: start the threads, write the flagged samples to    *)
(* the lane through a lane_write_buffer, end and join.                     *)
(***************************************************************************)
\* The channels in the order of the loop.
InOrderOfChannel(flags) ==
    LET upTo[ch \in 0 .. NChan] ==
            IF ch = 0 THEN <<>>
            ELSE IF ch \in flags THEN Append(upTo[ch - 1], ch) ELSE upTo[ch - 1]
    IN  upTo[NChan]

StartTimestep ==
    /\ pc = "window" /\ InterpolateNext
    /\ todo' = InOrderOfChannel(buffers[interpolated_pos + 1].flags)
    /\ interpolator' = [t \in Interpolators |-> "read"]
    /\ ResizeLane
    /\ pc' = "write"
    /\ UNCHANGED <<stepVars, left, batch, value>>

\* The write buffer is full, or write_end() flushes it.
Flush ==
    /\ pc = "write" /\ left = <<>> /\ todo # <<>>
    /\ LET n == Smallest(BufferSize, Len(todo))
       IN  /\ left' = SubSeq(todo, 1, n)
           /\ todo' = SubSeq(todo, n + 1, Len(todo))
    /\ UNCHANGED <<stepVars, pc, samplerVars, laneVars>>

WriteToLane ==
    /\ pc = "write" /\ left # <<>>
    /\ LaneWrite(Main, left)
    /\ left' = Rest(left)
    /\ UNCHANGED <<stepVars, pc, todo, samplerVars>>

WriteEnd ==
    /\ pc = "write" /\ left = <<>> /\ todo = <<>>
    /\ LaneWriteEnd
    /\ pc' = "join"
    /\ UNCHANGED <<stepVars, todo, left, samplerVars>>

EndTimestep ==
    /\ pc = "join" /\ \A t \in Interpolators : interpolator[t] = "gone"
    /\ interpolated_pos' = interpolated_pos + 1
    /\ pc' = "window"
    /\ UNCHANGED <<flagged, fed, buffers, finishing, sent, todo, left, samplerVars, laneVars>>

(***************************************************************************)
(* interpolationThread: read a batch, and replace its samples one by one.  *)
(***************************************************************************)
ReadFromLane(t) ==
    /\ interpolator[t] = "read"
    /\ LET wanted == BufferSize - Len(batch[t])
       IN  /\ LaneRead(t, wanted)
           /\ batch' = [batch EXCEPT ![t] = @ \o Got(wanted)]
           /\ interpolator' = [interpolator EXCEPT ![t] =
                                  IF ~Done(wanted) THEN "read"
                                  ELSE IF batch'[t] = <<>> THEN "gone" ELSE "replace"]
    /\ UNCHANGED <<stepVars, pc, todo, left, value>>

\* The indices into buffers, and the channels, of the window of a sample.
Window(pos, ch) ==
    {i \in DOMAIN buffers : i - 1 >= pos - Half /\ i - 1 <= pos + Half} \X
    {c \in Channels : c >= ch - Half /\ c <= ch + Half}

\* interpolateSample: sum the unflagged samples of the window, ...
Sum(t) ==
    LET ch == Head(batch[t])
    IN  /\ interpolator[t] = "replace" /\ batch[t] # <<>>
        /\ value' = [value EXCEPT ![t] =
               UNION {buffers[w[1]].data[w[2]] :
                         w \in {x \in Window(interpolated_pos, ch) :
                                   x[2] \notin buffers[x[1]].flags}}]
        /\ interpolator' = [interpolator EXCEPT ![t] = "store"]
        /\ UNCHANGED <<stepVars, pc, todo, left, batch, laneVars>>

\* ... and replace the sample.
Store(t) ==
    /\ interpolator[t] = "store"
    /\ buffers' = [buffers EXCEPT ![interpolated_pos + 1].data[Head(batch[t])] = value[t]]
    /\ batch' = [batch EXCEPT ![t] = Tail(@)]
    /\ interpolator' = [interpolator EXCEPT
                            ![t] = IF Tail(batch[t]) = <<>> THEN "read" ELSE "replace"]
    /\ value' = [value EXCEPT ![t] = {}]
    /\ UNCHANGED <<flagged, fed, interpolated_pos, finishing, sent, pc, todo, left, laneVars>>

InterpolateStep ==
    \/ Process \/ Finish \/ SendFrontBuffer \/ FinishNextStep
    \/ StartTimestep \/ Flush \/ WriteToLane \/ WriteEnd \/ EndTimestep
    \/ \E t \in Interpolators : ReadFromLane(t) \/ Sum(t) \/ Store(t)

\* process() is called for every buffer and then finish(); the threads run.
InterpolateSpec == InterpolateInit /\ [][InterpolateStep]_interpolateVars
                                   /\ WF_interpolateVars(InterpolateStep)
-----------------------------------------------------------------------------
\* What a sample must become, in terms of the flags of the input: the mean of
\* the unflagged samples of the whole observation within half a window of it.
Wanted(flags, t, ch) ==
    IF ch \notin flags[t] THEN {<<t, ch>>}
    ELSE {s \in (DOMAIN flags) \X Channels :
             /\ s[1] - t \in -Half .. Half
             /\ s[2] - ch \in -Half .. Half
             /\ s[2] \notin flags[s[1]]}

SentIsWanted ==
    \A k \in DOMAIN sent :
        /\ sent[k].time = k
        /\ \A ch \in Channels :
              /\ sent[k].data[ch] = Wanted(flagged, k, ch)
              /\ ch \in sent[k].flags <=> Wanted(flagged, k, ch) = {}

\* The samples that the lane holds, from the oldest on, and those that follow.
InLane == Readable(free_read_space)
Queue == InLane \o left \o todo

Elements(s) == {s[i] : i \in DOMAIN s}

EachSampleIsWithOne ==
    pc \in {"write", "join"} =>
        /\ \A i, j \in DOMAIN Queue : Queue[i] = Queue[j] => i = j
        /\ \A t, u \in Interpolators :
              \A i \in DOMAIN batch[t], j \in DOMAIN batch[u] :
                 batch[t][i] = batch[u][j] => t = u /\ i = j
        /\ \A t \in Interpolators : Elements(batch[t]) \cap Elements(Queue) = {}
        /\ \A ch \in buffers[interpolated_pos + 1].flags :
              (ch \notin Elements(Queue) /\ \A t \in Interpolators : ch \notin Elements(batch[t]))
                 => <<buffers[interpolated_pos + 1].time, ch>>
                        \notin buffers[interpolated_pos + 1].data[ch]

\* SamplesAreInterpolated: the k-th buffer sent is the one of time k; its
\* unflagged samples are untouched, and each flagged one is the mean of all
\* unflagged input in its window, at the edges of the observation, too, and
\* never of values that were interpolated; it stays flagged if there are none.
\* And while a time is interpolated, a flagged sample that is not replaced yet
\* is in one place: waiting to be written, in the lane, or with one thread.  So
\* no two threads write the same value, and none is lost when the lane is full,
\* wraps around, or ends with a batch that is not full.
SamplesAreInterpolated == SentIsWanted /\ EachSampleIsWithOne

\* The threads are always joined, whatever waits for whatever, and every
\* buffer goes out.
BuffersAreSent == <>(pc = "finished" /\ Len(sent) = Len(flagged))
=============================================================================
