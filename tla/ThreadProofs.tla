---------------------------- MODULE ThreadProofs ----------------------------
(***************************************************************************)
(* What ThreadPool guarantees for every number of threads, of directions   *)
(* and of sources per direction; and what ParallelFor guarantees for every *)
(* number of threads and of iterations, and any number of runs.            *)
(***************************************************************************)
EXTENDS Threads, FiniteSetTheorems, TLAPS

USE PoolAssumption

TaskOf(l, i) == [loop |-> l, iter |-> i]

TypeOK ==
    /\ n_threads \in PoolSizes
    /\ is_stopped \in BOOLEAN
    /\ next_priority \in Nat
    /\ tasks \subseteq Task
    /\ waiting \subseteq Threads \cup Callers
    /\ caller \in [Loops -> {"none", "call", "write", "returned"}]
    /\ priority \in [Loops -> Nat]
    /\ start \in [Loops -> Nat \ {0}]
    /\ progress \in [Loops -> Int]
    /\ thread \in [Threads -> {"none", "loop", "gone"}]
    /\ running \in [Threads -> Task \cup {Idle}]
    /\ calls \in [Task -> Nat]

(***************************************************************************)
(* Tasks, loops and threads.                                               *)
(***************************************************************************)
LEMMA Sizes ==
  /\ Len(Sources) \in Nat /\ 0 \in Loops
  /\ \A l \in Loops : Size(l) \in Nat /\ Iterations(l) = 1 .. Size(l)
<1>1. Len(Sources) \in Nat /\ \A d \in 1 .. Len(Sources) : Sources[d] \in Nat OBVIOUS
<1>2. ASSUME NEW l \in Loops PROVE Size(l) \in Nat
      BY <1>1 DEF Loops, Size
<1> QED BY <1>1, <1>2 DEF Loops, Iterations

LEMMA TaskFields ==
  ASSUME NEW task \in Task
  PROVE  /\ task.loop \in Loops /\ task.iter \in Iterations(task.loop)
         /\ task = TaskOf(task.loop, task.iter)
<1>1. PICK l \in Loops : task \in [loop : {l}, iter : Iterations(l)] BY DEF Task
<1> QED BY <1>1 DEF TaskOf

LEMMA TaskOfType ==
  ASSUME NEW l \in Loops, NEW i \in Iterations(l)
  PROVE  TaskOf(l, i) \in Task /\ TaskOf(l, i).loop = l /\ TaskOf(l, i).iter = i
<1>1. TaskOf(l, i) \in [loop : {l}, iter : Iterations(l)] BY DEF TaskOf
<1> QED BY <1>1 DEF Task, TaskOf

\* An iteration of loop 0 is the direction whose loop it calls.
LEMMA DirectionLoop ==
  ASSUME NEW task \in Task, task.loop = 0
  PROVE  task.iter \in Loops /\ task.iter # 0
<1>1. task.iter \in 1 .. Len(Sources) BY TaskFields, Sizes DEF Size
<1> QED BY <1>1, Sizes DEF Loops

LEMMA LoopDirection ==
  ASSUME NEW l \in Loops, l # 0
  PROVE  l \in Iterations(0) /\ TaskOf(0, l) \in Task
<1>1. l \in 1 .. Len(Sources) BY Sizes DEF Loops
<1>2. l \in Iterations(0) BY <1>1, Sizes DEF Size
<1> QED BY <1>2, Sizes, TaskOfType

LEMMA ThreadKinds ==
  /\ \A l \in Loops : Local(l) \in Threads
  /\ \A l, m \in Loops : Local(l) = Local(m) => l = m
  /\ \A t \in Threads : t \in Locals \/ t \in Workers
  /\ \A t \in Workers : t \notin Locals
BY DEF Threads, Locals, Local, Workers, Worker

(***************************************************************************)
(* Type correctness.                                                       *)
(***************************************************************************)
LEMMA InitType == Init => TypeOK
<1> SUFFICES ASSUME Init PROVE TypeOK OBVIOUS
<1> USE DEF Init
<1>1. n_threads \in PoolSizes /\ is_stopped \in BOOLEAN /\ next_priority \in Nat OBVIOUS
<1>2. tasks \subseteq Task /\ waiting \subseteq Threads \cup Callers OBVIOUS
<1>3. caller \in [Loops -> {"none", "call", "write", "returned"}] OBVIOUS
<1>4. /\ priority \in [Loops -> Nat] /\ start \in [Loops -> Nat \ {0}]
      /\ progress \in [Loops -> Int]
      OBVIOUS
<1>5. thread \in [Threads -> {"none", "loop", "gone"}] OBVIOUS
<1>6. running \in [Threads -> Task \cup {Idle}] /\ calls \in [Task -> Nat] OBVIOUS
<1> QED BY <1>1, <1>2, <1>3, <1>4, <1>5, <1>6 DEF TypeOK

LEMMA NextType == TypeOK /\ [Next]_vars => TypeOK'
<1> SUFFICES ASSUME TypeOK, [Next]_vars PROVE TypeOK' OBVIOUS
<1> USE DEF TypeOK
<1>t. n_threads' = n_threads => Threads' = Threads BY DEF Threads, Workers
<1>r. ASSUME NEW t \in Threads, NEW task \in tasks, Run(t, task),
             UNCHANGED <<poolVars, priority, start, progress>>
      PROVE  TypeOK'
  <2> USE <1>r DEF Run, NotifyAll, poolVars
  <2>1. task \in Task OBVIOUS
  <2>2. caller' \in [Loops -> {"none", "call", "write", "returned"}]
        BY <2>1, DirectionLoop
  <2>3. calls' \in [Task -> Nat] BY <2>1
  <2>4. running' \in [Threads -> Task \cup {Idle}] BY <2>1
  <2> QED BY <1>t, <2>2, <2>3, <2>4
<1>s. ASSUME NEW t \in Threads, Leave(t) \/ Sleep(t),
             UNCHANGED <<poolVars, priority, start, progress>>
      PROVE  TypeOK'
  <2> USE <1>s DEF poolVars
  <2>1. CASE Leave(t) BY <1>t, <2>1 DEF Leave
  <2>2. CASE Sleep(t) BY <1>t, <2>2 DEF Sleep, Wait, threadVars, Callers
  <2> QED BY <1>s, <2>1, <2>2
<1>1. ASSUME NEW l \in Loops, For(l) PROVE TypeOK'
  <2> USE <1>1 DEF For
  <2>1. Size(l) \in Int /\ Local(l) \in Threads BY Sizes, ThreadKinds
  <2>2. caller' \in [Loops -> {"none", "call", "write", "returned"}] OBVIOUS
  <2>3. /\ priority' \in [Loops -> Nat] /\ next_priority' \in Nat
        /\ progress' \in [Loops -> Int]
        BY <2>1
  <2>4. thread' \in [Threads -> {"none", "loop", "gone"}] BY <2>1
  <2> QED BY <1>t, <2>2, <2>3, <2>4 DEF Callers
<1>2. ASSUME NEW l \in Loops, Write(l) PROVE TypeOK'
  <2> USE <1>2 DEF Write, poolVars, threadVars
  <2>1. CASE IsFull(l) BY <1>t, <2>1 DEF Wait, Callers
  <2>2. CASE ~IsFull(l)
    <3>1. start[l] \in Iterations(l) BY Sizes
    <3>2. TaskOf(l, start[l]) \in Task BY <3>1, TaskOfType
    <3>3. tasks' \subseteq Task BY <2>2, <3>2 DEF TaskOf
    <3> QED BY <1>t, <2>2, <3>3 DEF NotifyAll
  <2> QED BY <2>1, <2>2
<1>3. ASSUME NEW l \in Loops, Join(l) PROVE TypeOK'
  BY <1>t, <1>3 DEF Join, poolVars, threadVars, Callers
<1>4. ASSUME NEW l \in Loops, ReadSpecificPriority(l) PROVE TypeOK'
  <2> USE <1>4 DEF ReadSpecificPriority
  <2>1. Local(l) \in Threads BY ThreadKinds
  <2>2. CASE \E task \in tasks : Run(Local(l), task) BY <1>r, <2>1, <2>2
  <2>3. CASE Leave(Local(l)) \/ Sleep(Local(l)) BY <1>s, <2>1, <2>3
  <2> QED BY <2>2, <2>3
<1>5. ASSUME NEW t \in Threads, ReadHighestPriority(t) PROVE TypeOK'
  <2> USE <1>5 DEF ReadHighestPriority
  <2>1. CASE \E task \in Highest : Run(t, task) BY <1>r, <2>1 DEF Highest
  <2>2. CASE Leave(t) \/ Sleep(t) BY <1>s, <2>2
  <2> QED BY <2>1, <2>2
<1>6. ASSUME NEW t \in Threads, EndTask(t) PROVE TypeOK'
  <2> USE <1>6 DEF EndTask, NotifyAll, poolVars
  <2>1. running[t] \in Task OBVIOUS
  <2>2. running[t].loop \in Loops BY <2>1, TaskFields
  <2>3. progress' \in [Loops -> Int] BY <2>2
  <2>4. running' \in [Threads -> Task \cup {Idle}] OBVIOUS
  <2> QED BY <1>t, <2>3, <2>4
<1>7. CASE Stop
  BY <1>t, <1>7 DEF Stop, NotifyAll, threadVars
<1>8. CASE UNCHANGED vars
  BY <1>t, <1>8 DEF vars, poolVars, threadVars
<1> QED BY <1>1, <1>2, <1>3, <1>4, <1>5, <1>6, <1>7, <1>8 DEF Next

(* Every reachable state has the types of the variables.                      *)
THEOREM PoolTypeCorrect == Spec => []TypeOK
BY InitType, NextType, PTL DEF Spec

(***************************************************************************)
(* The progress of a call of For counts the iterations that were not       *)
(* called yet, or still run.                                               *)
(***************************************************************************)
Busy(task) == \E t \in Threads : running[t] = task
Unended(l) == {i \in Iterations(l) : calls[TaskOf(l, i)] = 0 \/ Busy(TaskOf(l, i))}

\* A task is queued, then called by one thread.
CalledOnce == \A task \in Task : calls[task] \in {0, 1}
QueuedFirst == \A task \in tasks : calls[task] = 0 /\ task.iter < start[task.loop]
WrittenFirst == \A task \in Task : task.iter >= start[task.loop] => calls[task] = 0
RunningIsCalled == \A t \in Threads : running[t] # Idle => calls[running[t]] = 1
OneRuns ==
    \A t, u \in Threads : (running[t] = running[u] /\ running[t] # Idle) => t = u

\* Loop 0 calls the others.
NotStarted ==
    \A l \in Loops : caller[l] \in {"none", "call"} => start[l] = 1 /\ thread[Local(l)] = "none"
ProgressCounts ==
    \A l \in Loops : caller[l] \in {"write", "returned"} => progress[l] = Cardinality(Unended(l))
CalledByLoop == \A l \in Loops \ {0} : caller[l] # "none" => calls[TaskOf(0, l)] = 1
EndedReturned ==
    \A l \in Loops \ {0} :
        (calls[TaskOf(0, l)] = 1 /\ ~Busy(TaskOf(0, l))) => caller[l] = "returned"
GoneIsDone == \A l \in Loops : thread[Local(l)] = "gone" => Unended(l) = {}
ReturnedIsDone == \A l \in Loops : caller[l] = "returned" => Unended(l) = {}
StoppedIsDone == is_stopped => caller[0] = "returned"

TaskInv == CalledOnce /\ QueuedFirst /\ WrittenFirst /\ RunningIsCalled /\ OneRuns
CallInv ==
    /\ NotStarted /\ ProgressCounts /\ CalledByLoop /\ EndedReturned
    /\ GoneIsDone /\ ReturnedIsDone /\ StoppedIsDone
PoolInv == TypeOK /\ TaskInv /\ CallInv

LEMMA UnendedFinite ==
  ASSUME NEW l \in Loops
  PROVE  /\ IsFiniteSet(Unended(l))
         /\ Cardinality(Unended(l)) \in Nat
         /\ Cardinality(Unended(l)) = 0 <=> Unended(l) = {}
         /\ Cardinality(Iterations(l)) = Size(l)
<1>1. Size(l) \in Nat /\ Iterations(l) = 1 .. Size(l) BY Sizes
<1>2. IsFiniteSet(Iterations(l)) /\ Cardinality(Iterations(l)) = Size(l)
      BY <1>1, FS_Interval
<1>3. Unended(l) \subseteq Iterations(l) BY DEF Unended
<1>4. IsFiniteSet(Unended(l)) BY <1>2, <1>3, FS_Subset
<1> QED BY <1>2, <1>4, FS_CardinalityType, FS_EmptySet

LEMMA InitPool == Init => PoolInv
<1> SUFFICES ASSUME Init PROVE PoolInv OBVIOUS
<1>0. TypeOK BY InitType
<1> USE DEF Init
<1>1. TaskInv
  <2>1. \A task \in Task : calls[task] = 0 OBVIOUS
  <2>2. \A t \in Threads : running[t] = Idle OBVIOUS
  <2> QED BY <2>1, <2>2
      DEF TaskInv, CalledOnce, QueuedFirst, WrittenFirst, RunningIsCalled, OneRuns
<1>2. CallInv
  <2>1. \A l \in Loops : /\ caller[l] \in {"none", "call"} /\ start[l] = 1
                         /\ l # 0 => caller[l] = "none"
        OBVIOUS
  <2>2. \A l \in Loops : thread[Local(l)] = "none" BY ThreadKinds DEF Locals
  <2>3. \A l \in Loops \ {0} : calls[TaskOf(0, l)] = 0 BY LoopDirection
  <2> QED BY <2>1, <2>2, <2>3
      DEF CallInv, NotStarted, ProgressCounts, CalledByLoop, EndedReturned, GoneIsDone,
          ReturnedIsDone, StoppedIsDone
<1> QED BY <1>0, <1>1, <1>2 DEF PoolInv

(***************************************************************************)
(* Steps that call no function and end none.                               *)
(***************************************************************************)
LEMMA UnendedUnchanged ==
  ASSUME UNCHANGED <<n_threads, running, calls>>
  PROVE  /\ Threads' = Threads
         /\ \A task \in Task : Busy(task)' <=> Busy(task)
         /\ \A l \in Loops : Unended(l)' = Unended(l)
<1>1. Threads' = Threads BY DEF Threads, Workers
<1> QED BY <1>1 DEF Busy, Unended

LEMMA ForKeeps == ASSUME PoolInv, NEW l \in Loops, For(l) PROVE TaskInv' /\ CallInv'
<1> USE DEF PoolInv, For
<1>1. UNCHANGED <<n_threads, running, calls, tasks, start, is_stopped>> OBVIOUS
<1>2. TaskInv'
      BY <1>1, UnendedUnchanged
      DEF TaskInv, CalledOnce, QueuedFirst, WrittenFirst, RunningIsCalled, OneRuns
<1>3. caller[l] = "call" /\ start[l] = 1 /\ Local(l) \in Threads
      BY ThreadKinds DEF CallInv, NotStarted
<1>4. \A m \in Loops : /\ m # l => caller'[m] = caller[m]
                       /\ m = l => caller'[m] = "write"
      BY DEF TypeOK
<1>5. \A m \in Loops : /\ m # l => thread'[Local(m)] = thread[Local(m)]
                       /\ m = l => thread'[Local(m)] = "loop"
      BY <1>3, ThreadKinds DEF TypeOK
<1>6. progress'[l] = Cardinality(Unended(l)')
  <2>1. \A i \in Iterations(l) : calls[TaskOf(l, i)] = 0
        BY <1>3, TaskOfType, Sizes DEF TaskInv, WrittenFirst
  <2>2. Unended(l) = Iterations(l) BY <2>1 DEF Unended
  <2>3. progress'[l] = Size(l) BY DEF TypeOK
  <2> QED BY <1>1, <2>2, <2>3, UnendedFinite, UnendedUnchanged
<1>7. \A m \in Loops : m # l => progress'[m] = progress[m] BY DEF TypeOK
<1>8. NotStarted' BY <1>1, <1>4, <1>5 DEF CallInv, NotStarted
<1>9. ProgressCounts'
      BY <1>1, <1>4, <1>6, <1>7, UnendedUnchanged DEF CallInv, ProgressCounts
<1>10. CalledByLoop' /\ EndedReturned'
      BY <1>1, <1>3, <1>4, UnendedUnchanged, LoopDirection DEF CallInv, CalledByLoop, EndedReturned
<1>11. GoneIsDone' /\ ReturnedIsDone'
      BY <1>1, <1>4, <1>5, UnendedUnchanged DEF CallInv, GoneIsDone, ReturnedIsDone
<1>12. StoppedIsDone' BY <1>1, <1>3, <1>4, Sizes DEF CallInv, StoppedIsDone
<1> QED BY <1>2, <1>8, <1>9, <1>10, <1>11, <1>12 DEF CallInv

LEMMA WriteKeeps == ASSUME PoolInv, NEW l \in Loops, Write(l) PROVE TaskInv' /\ CallInv'
<1> USE DEF PoolInv, Write, poolVars, threadVars
<1>1. UNCHANGED <<n_threads, running, calls, caller, progress, thread, is_stopped>> OBVIOUS
<1>2. CASE UNCHANGED <<tasks, start>>
  <2>1. TaskInv'
      BY <1>1, <1>2, UnendedUnchanged
      DEF TaskInv, CalledOnce, QueuedFirst, WrittenFirst, RunningIsCalled, OneRuns
  <2>2. CallInv'
      BY <1>1, <1>2, UnendedUnchanged, LoopDirection
      DEF CallInv, NotStarted, ProgressCounts, CalledByLoop, EndedReturned, GoneIsDone,
          ReturnedIsDone, StoppedIsDone
  <2> QED BY <2>1, <2>2
<1>3. CASE /\ tasks' = tasks \cup {TaskOf(l, start[l])}
           /\ start' = [start EXCEPT ![l] = @ + 1]
  <2>1. start[l] \in Iterations(l) BY Sizes DEF TypeOK
  <2>2. /\ TaskOf(l, start[l]) \in Task
        /\ TaskOf(l, start[l]).loop = l /\ TaskOf(l, start[l]).iter = start[l]
        BY <2>1, TaskOfType
  <2>3. calls[TaskOf(l, start[l])] = 0
        BY <2>1, <2>2, Sizes DEF TaskInv, WrittenFirst
  <2>4. \A m \in Loops : /\ start[m] \in Nat
                         /\ m # l => start'[m] = start[m]
                         /\ m = l => start'[m] = start[m] + 1
        BY <1>3 DEF TypeOK
  <2>5. \A task \in Task : task.loop \in Loops /\ task.iter \in Nat
        BY TaskFields, Sizes
  <2>6. QueuedFirst'
    <3> SUFFICES ASSUME NEW task \in tasks'
                 PROVE  calls[task] = 0 /\ task.iter < start'[task.loop]
        BY <1>1 DEF QueuedFirst
    <3>1. CASE task \in tasks
      <4>1. calls[task] = 0 /\ task.iter < start[task.loop] /\ task \in Task
            BY <3>1 DEF TaskInv, QueuedFirst, TypeOK
      <4> QED BY <4>1, <2>4, <2>5
    <3>2. CASE task = TaskOf(l, start[l]) BY <3>2, <2>2, <2>3, <2>4
    <3> QED BY <1>3, <3>1, <3>2
  <2>7. WrittenFirst'
    <3> SUFFICES ASSUME NEW task \in Task, task.iter >= start'[task.loop]
                 PROVE  calls[task] = 0
        BY <1>1 DEF WrittenFirst
    <3>1. task.iter >= start[task.loop] BY <2>4, <2>5
    <3> QED BY <3>1 DEF TaskInv, WrittenFirst
  <2>8. TaskInv'
      BY <1>1, <2>6, <2>7, UnendedUnchanged DEF TaskInv, CalledOnce, RunningIsCalled, OneRuns
  <2>9. NotStarted' BY <1>1, <2>4 DEF CallInv, NotStarted
  <2>10. CallInv'
      BY <1>1, <2>9, UnendedUnchanged, LoopDirection
      DEF CallInv, ProgressCounts, CalledByLoop, EndedReturned, GoneIsDone,
          ReturnedIsDone, StoppedIsDone
  <2> QED BY <2>8, <2>10
<1> QED BY <1>2, <1>3 DEF TaskOf

LEMMA JoinKeeps == ASSUME PoolInv, NEW l \in Loops, Join(l) PROVE TaskInv' /\ CallInv'
<1> USE DEF PoolInv, Join, poolVars, threadVars
<1>1. UNCHANGED <<n_threads, running, calls, tasks, start, progress, thread, is_stopped>>
      OBVIOUS
<1>2. TaskInv'
      BY <1>1, UnendedUnchanged
      DEF TaskInv, CalledOnce, QueuedFirst, WrittenFirst, RunningIsCalled, OneRuns
<1>3. caller[l] = "write" /\ Unended(l) = {} BY DEF CallInv, GoneIsDone
<1>4. \A m \in Loops : /\ m # l => caller'[m] = caller[m]
                       /\ m = l => caller'[m] = "returned"
      BY DEF TypeOK
<1>5. NotStarted' /\ ProgressCounts'
      BY <1>1, <1>3, <1>4, UnendedUnchanged DEF CallInv, NotStarted, ProgressCounts
<1>6. CalledByLoop' /\ EndedReturned'
      BY <1>1, <1>3, <1>4, UnendedUnchanged, LoopDirection DEF CallInv, CalledByLoop, EndedReturned
<1>7. GoneIsDone' /\ ReturnedIsDone'
      BY <1>1, <1>3, <1>4, UnendedUnchanged DEF CallInv, GoneIsDone, ReturnedIsDone
<1>8. StoppedIsDone' BY <1>1, <1>3, <1>4, Sizes DEF CallInv, StoppedIsDone
<1> QED BY <1>2, <1>5, <1>6, <1>7, <1>8 DEF CallInv

LEMMA SleepKeeps ==
  ASSUME PoolInv, NEW t \in Threads, Sleep(t), UNCHANGED <<poolVars, priority, start, progress>>
  PROVE  TaskInv' /\ CallInv'
<1> USE DEF PoolInv, Sleep, poolVars, threadVars
<1>1. UNCHANGED <<n_threads, running, calls, tasks, start, caller, progress, thread, is_stopped>>
      OBVIOUS
<1>2. TaskInv'
      BY <1>1, UnendedUnchanged
      DEF TaskInv, CalledOnce, QueuedFirst, WrittenFirst, RunningIsCalled, OneRuns
<1>3. CallInv'
      BY <1>1, UnendedUnchanged, LoopDirection
      DEF CallInv, NotStarted, ProgressCounts, CalledByLoop, EndedReturned, GoneIsDone,
          ReturnedIsDone, StoppedIsDone
<1> QED BY <1>2, <1>3

\* After the last loop nothing is left of any loop.
LEMMA AllDone ==
  ASSUME PoolInv, caller[0] = "returned"
  PROVE  \A l \in Loops : Unended(l) = {}
<1>1. Unended(0) = {} BY Sizes DEF PoolInv, CallInv, ReturnedIsDone
<1>2. ASSUME NEW l \in Loops, l # 0 PROVE Unended(l) = {}
  <2>1. l \in Iterations(0) /\ TaskOf(0, l) \in Task BY <1>2, LoopDirection
  <2>2. calls[TaskOf(0, l)] # 0 /\ ~Busy(TaskOf(0, l)) BY <1>1, <2>1 DEF Unended
  <2>3. calls[TaskOf(0, l)] = 1 BY <2>1, <2>2 DEF PoolInv, TaskInv, CalledOnce
  <2> QED BY <1>2, <2>2, <2>3 DEF PoolInv, CallInv, EndedReturned, ReturnedIsDone
<1> QED BY <1>1, <1>2

LEMMA LeaveKeeps ==
  ASSUME PoolInv, NEW t \in Threads, Leave(t), UNCHANGED <<poolVars, priority, start, progress>>,
         thread[t] = "loop",
         \A l \in Loops : t = Local(l) => is_stopped \/ progress[l] = 0
  PROVE  TaskInv' /\ CallInv'
<1> USE DEF PoolInv, Leave, poolVars
<1>1. UNCHANGED <<n_threads, running, calls, tasks, start, caller, progress, is_stopped>>
      OBVIOUS
<1>2. TaskInv'
      BY <1>1, UnendedUnchanged
      DEF TaskInv, CalledOnce, QueuedFirst, WrittenFirst, RunningIsCalled, OneRuns
<1>3. \A l \in Loops : /\ Local(l) # t => thread'[Local(l)] = thread[Local(l)]
                       /\ Local(l) = t => Unended(l) = {} /\ caller[l] \in {"write", "returned"}
  <2> SUFFICES ASSUME NEW l \in Loops
               PROVE  /\ Local(l) # t => thread'[Local(l)] = thread[Local(l)]
                      /\ Local(l) = t => Unended(l) = {} /\ caller[l] \in {"write", "returned"}
      OBVIOUS
  <2>1. Local(l) \in Threads BY ThreadKinds
  <2>2. Local(l) # t => thread'[Local(l)] = thread[Local(l)] BY <2>1 DEF TypeOK
  <2>3. ASSUME Local(l) = t PROVE caller[l] \in {"write", "returned"}
        BY <2>3 DEF CallInv, NotStarted, TypeOK
  <2>4. ASSUME Local(l) = t PROVE Unended(l) = {}
    <3>1. CASE is_stopped BY <3>1, AllDone DEF CallInv, StoppedIsDone
    <3>2. CASE progress[l] = 0
      <4>1. Cardinality(Unended(l)) = 0 BY <2>3, <2>4, <3>2 DEF CallInv, ProgressCounts
      <4> QED BY <4>1, UnendedFinite
    <3> QED BY <2>4, <3>1, <3>2
  <2> QED BY <2>2, <2>3, <2>4
<1>4. NotStarted' BY <1>1, <1>3 DEF CallInv, NotStarted
<1>5. GoneIsDone' BY <1>1, <1>3, UnendedUnchanged DEF CallInv, GoneIsDone
<1>6. CallInv'
      BY <1>1, <1>4, <1>5, UnendedUnchanged, LoopDirection
      DEF CallInv, ProgressCounts, CalledByLoop, EndedReturned, ReturnedIsDone, StoppedIsDone
<1> QED BY <1>2, <1>6

(***************************************************************************)
(* Steps that call a function, and end one.                                *)
(***************************************************************************)
LEMMA RunKeeps ==
  ASSUME PoolInv, NEW t \in Threads, NEW task \in tasks, Run(t, task), running[t] = Idle,
         UNCHANGED <<poolVars, priority, start, progress>>
  PROVE  TaskInv' /\ CallInv'
<1> USE DEF PoolInv, Run, poolVars
<1>1. UNCHANGED <<n_threads, start, progress, thread, is_stopped>> OBVIOUS
<1>2. task \in Task /\ calls[task] = 0 /\ task.iter < start[task.loop]
      BY DEF TypeOK, TaskInv, QueuedFirst
<1>3. Threads' = Threads BY <1>1 DEF Threads, Workers
<1>4. \A other \in Task : /\ other # task => calls'[other] = calls[other]
                          /\ other = task => calls'[other] = 1
      BY <1>2 DEF TypeOK
<1>5. \A u \in Threads : /\ u # t => running'[u] = running[u]
                         /\ u = t => running'[u] = task
      BY <1>2 DEF TypeOK
<1>6. ~Busy(task) BY <1>2 DEF Busy, TaskInv, RunningIsCalled
<1>7. \A other \in Task : other # task => (Busy(other)' <=> Busy(other))
      BY <1>3, <1>5 DEF Busy
<1>8. Busy(task)' BY <1>3, <1>5 DEF Busy
<1>9. \A l \in Loops : Unended(l)' = Unended(l)
  <2> SUFFICES ASSUME NEW l \in Loops, NEW i \in Iterations(l)
               PROVE  (calls'[TaskOf(l, i)] = 0 \/ Busy(TaskOf(l, i))')
                      <=> (calls[TaskOf(l, i)] = 0 \/ Busy(TaskOf(l, i)))
      BY DEF Unended
  <2>1. TaskOf(l, i) \in Task BY TaskOfType
  <2>2. CASE TaskOf(l, i) = task BY <1>2, <1>8, <2>2
  <2>3. CASE TaskOf(l, i) # task BY <1>4, <1>7, <2>1, <2>3
  <2> QED BY <2>2, <2>3
<1>10. TaskInv'
  <2>1. CalledOnce' BY <1>4 DEF TaskInv, CalledOnce
  <2>2. QueuedFirst' BY <1>1, <1>4 DEF TaskInv, QueuedFirst, TypeOK
  <2>3. WrittenFirst'
    <3> SUFFICES ASSUME NEW other \in Task, other.iter >= start[other.loop]
                 PROVE  calls'[other] = 0
        BY <1>1 DEF WrittenFirst
    <3>1. other.loop \in Loops /\ other.iter \in Nat BY TaskFields, Sizes
    <3>2. start[other.loop] \in Nat BY <3>1 DEF TypeOK
    <3>3. other # task BY <1>2, <3>1, <3>2
    <3> QED BY <1>4, <3>3 DEF TaskInv, WrittenFirst
  <2>4. RunningIsCalled'
        BY <1>2, <1>3, <1>4, <1>5 DEF TaskInv, RunningIsCalled, TypeOK
  <2>5. OneRuns' BY <1>3, <1>5, <1>6 DEF TaskInv, OneRuns, Busy
  <2> QED BY <2>1, <2>2, <2>3, <2>4, <2>5 DEF TaskInv
<1>11. CASE task.loop # 0
  <2>1. caller' = caller BY <1>11
  <2>2. \A l \in Loops \ {0} : TaskOf(0, l) \in Task /\ TaskOf(0, l) # task
        BY <1>11, LoopDirection, Sizes, TaskOfType
  <2>3. CalledByLoop' /\ EndedReturned'
        BY <1>4, <1>7, <2>1, <2>2 DEF CallInv, CalledByLoop, EndedReturned
  <2>4. NotStarted' BY <1>1, <2>1 DEF CallInv, NotStarted
  <2>5. ProgressCounts' /\ GoneIsDone' /\ ReturnedIsDone'
        BY <1>1, <1>9, <2>1 DEF CallInv, ProgressCounts, GoneIsDone, ReturnedIsDone
  <2>6. StoppedIsDone' BY <1>1, <2>1 DEF CallInv, StoppedIsDone
  <2> QED BY <1>10, <2>3, <2>4, <2>5, <2>6 DEF CallInv
<1>12. CASE task.loop = 0
  <2> DEFINE d == task.iter
  <2>1. d \in Loops /\ d # 0 /\ task = TaskOf(0, d) BY <1>2, <1>12, DirectionLoop, TaskFields
  <2> HIDE DEF d
  <2>2. caller[d] = "none" BY <1>2, <2>1 DEF CallInv, CalledByLoop
  <2>3. \A l \in Loops : /\ l # d => caller'[l] = caller[l]
                         /\ l = d => caller'[l] = "call"
        BY <1>12, <2>1 DEF TypeOK, d
  <2>4. \A l \in Loops \ {0} : /\ TaskOf(0, l) \in Task
                               /\ l # d => TaskOf(0, l) # task
        BY LoopDirection, Sizes, TaskOfType DEF d
  <2>5. CalledByLoop' /\ EndedReturned'
    <3>1. ASSUME NEW l \in Loops \ {0}, l # d
          PROVE  /\ calls'[TaskOf(0, l)] = calls[TaskOf(0, l)]
                 /\ Busy(TaskOf(0, l))' <=> Busy(TaskOf(0, l))
                 /\ caller'[l] = caller[l]
      <4>1. TaskOf(0, l) \in Task /\ TaskOf(0, l) # task BY <3>1, <2>4
      <4>2. calls'[TaskOf(0, l)] = calls[TaskOf(0, l)] BY <1>4, <4>1
      <4>3. Busy(TaskOf(0, l))' <=> Busy(TaskOf(0, l)) BY <1>7, <4>1
      <4>4. caller'[l] = caller[l] BY <3>1, <2>3
      <4> QED BY <4>2, <4>3, <4>4
    <3>2. CalledByLoop'
      <4> SUFFICES ASSUME NEW l \in Loops \ {0}, caller'[l] # "none"
                   PROVE  calls'[TaskOf(0, l)] = 1
          BY DEF CalledByLoop
      <4>1. CASE l = d BY <1>2, <1>4, <2>1, <4>1
      <4>2. CASE l # d BY <3>1, <4>2 DEF CallInv, CalledByLoop
      <4> QED BY <4>1, <4>2
    <3>3. EndedReturned'
      <4> SUFFICES ASSUME NEW l \in Loops \ {0}, calls'[TaskOf(0, l)] = 1, ~Busy(TaskOf(0, l))'
                   PROVE  caller'[l] = "returned"
          BY DEF EndedReturned
      <4>1. l # d BY <1>8, <2>1
      <4> QED BY <3>1, <4>1 DEF CallInv, EndedReturned
    <3> QED BY <3>2, <3>3
  <2>6. NotStarted' BY <1>1, <2>2, <2>3 DEF CallInv, NotStarted
  <2>7. ProgressCounts' /\ GoneIsDone' /\ ReturnedIsDone'
        BY <1>1, <1>9, <2>2, <2>3 DEF CallInv, ProgressCounts, GoneIsDone, ReturnedIsDone
  <2>8. StoppedIsDone' BY <1>1, <2>1, <2>3, Sizes DEF CallInv, StoppedIsDone
  <2> QED BY <1>10, <2>5, <2>6, <2>7, <2>8 DEF CallInv
<1> QED BY <1>11, <1>12

LEMMA EndTaskKeeps ==
  ASSUME PoolInv, NEW t \in Threads, NEW task \in Task, running[t] = task, EndTask(t)
  PROVE  TaskInv' /\ CallInv'
<1> USE DEF PoolInv, EndTask, poolVars
<1>1. UNCHANGED <<n_threads, tasks, caller, start, thread, calls, is_stopped>> OBVIOUS
<1>2. /\ task.loop \in Loops /\ task.iter \in Iterations(task.loop)
      /\ task = TaskOf(task.loop, task.iter) /\ task # Idle
      BY TaskFields
<1>3. calls[task] = 1 BY <1>2 DEF TaskInv, RunningIsCalled
<1>4. Threads' = Threads BY <1>1 DEF Threads, Workers
<1>5. \A u \in Threads : /\ u # t => running'[u] = running[u]
                         /\ u = t => running'[u] = Idle
      BY DEF TypeOK
<1>6. ~Busy(task)' BY <1>2, <1>4, <1>5 DEF Busy, TaskInv, OneRuns
<1>7. \A other \in Task : other # task => (Busy(other)' <=> Busy(other))
      BY <1>4, <1>5 DEF Busy
<1>8. Busy(task) BY DEF Busy
<1>9. TaskInv'
  <2>1. CalledOnce' /\ QueuedFirst' /\ WrittenFirst'
        BY <1>1 DEF TaskInv, CalledOnce, QueuedFirst, WrittenFirst
  <2>2. RunningIsCalled' BY <1>1, <1>4, <1>5 DEF TaskInv, RunningIsCalled
  <2>3. OneRuns' BY <1>4, <1>5 DEF TaskInv, OneRuns
  <2> QED BY <2>1, <2>2, <2>3 DEF TaskInv
<1>10. \A l \in Loops : l # task.loop => Unended(l)' = Unended(l)
  <2> SUFFICES ASSUME NEW l \in Loops, l # task.loop, NEW i \in Iterations(l)
               PROVE  (calls'[TaskOf(l, i)] = 0 \/ Busy(TaskOf(l, i))')
                      <=> (calls[TaskOf(l, i)] = 0 \/ Busy(TaskOf(l, i)))
      BY DEF Unended
  <2>1. TaskOf(l, i) \in Task /\ TaskOf(l, i) # task BY TaskOfType
  <2> QED BY <1>1, <1>7, <2>1
<1>11. /\ task.iter \in Unended(task.loop)
       /\ Unended(task.loop)' = Unended(task.loop) \ {task.iter}
  <2>1. task.iter \in Unended(task.loop) BY <1>2, <1>8 DEF Unended
  <2>2. task.iter \notin Unended(task.loop)' BY <1>1, <1>2, <1>3, <1>6 DEF Unended
  <2>3. ASSUME NEW i \in Iterations(task.loop), i # task.iter
        PROVE  (calls'[TaskOf(task.loop, i)] = 0 \/ Busy(TaskOf(task.loop, i))')
               <=> (calls[TaskOf(task.loop, i)] = 0 \/ Busy(TaskOf(task.loop, i)))
    <3>1. TaskOf(task.loop, i) \in Task /\ TaskOf(task.loop, i) # task
          BY <1>2, <2>3, TaskOfType
    <3> QED BY <1>1, <1>7, <3>1
  <2>4. \A i \in Iterations(task.loop) : i # task.iter =>
            (i \in Unended(task.loop)' <=> i \in Unended(task.loop))
        BY <2>3 DEF Unended
  <2>5. Unended(task.loop) \subseteq Iterations(task.loop) BY DEF Unended
  <2>6. Unended(task.loop)' \subseteq Iterations(task.loop) BY DEF Unended
  <2> QED BY <2>1, <2>2, <2>4, <2>5, <2>6
<1>12. \A l \in Loops : /\ l # task.loop => progress'[l] = progress[l]
                        /\ l = task.loop => progress'[l] = progress[l] - 1
       BY <1>2 DEF TypeOK
<1>13. caller[task.loop] \notin {"none", "call"}
  <2>1. task.iter >= 1 BY <1>2, Sizes
  <2>2. start[task.loop] # 1 BY <1>3, <2>1 DEF TaskInv, WrittenFirst
  <2> QED BY <1>2, <2>2 DEF CallInv, NotStarted
<1>14. ProgressCounts'
  <2>1. progress[task.loop] = Cardinality(Unended(task.loop))
        BY <1>2, <1>13 DEF CallInv, ProgressCounts, TypeOK
  <2>2. Cardinality(Unended(task.loop)') = Cardinality(Unended(task.loop)) - 1
    <3>1. IsFiniteSet(Unended(task.loop)) BY <1>2, UnendedFinite
    <3>2. Cardinality(Unended(task.loop) \ {task.iter}) = Cardinality(Unended(task.loop)) - 1
          BY <1>11, <3>1, FS_RemoveElement
    <3> QED BY <1>11, <3>2
  <2>3. \A l \in Loops : caller[l] \in {"write", "returned"} =>
            progress'[l] = Cardinality(Unended(l)')
        BY <1>10, <1>12, <2>1, <2>2 DEF CallInv, ProgressCounts
  <2> QED BY <1>1, <2>3 DEF ProgressCounts
<1>15. NotStarted' /\ CalledByLoop' /\ StoppedIsDone'
       BY <1>1 DEF CallInv, NotStarted, CalledByLoop, StoppedIsDone
<1>16. EndedReturned'
  <2> SUFFICES ASSUME NEW l \in Loops \ {0}, calls[TaskOf(0, l)] = 1, ~Busy(TaskOf(0, l))'
               PROVE  caller[l] = "returned"
      BY <1>1 DEF EndedReturned
  <2>1. TaskOf(0, l) \in Task /\ TaskOf(0, l).loop = 0 /\ TaskOf(0, l).iter = l
        BY LoopDirection, Sizes, TaskOfType
  <2>2. CASE TaskOf(0, l) = task BY <2>1, <2>2 DEF Returns
  <2>3. CASE TaskOf(0, l) # task
        BY <1>7, <2>1, <2>3 DEF CallInv, EndedReturned
  <2> QED BY <2>2, <2>3
<1>17. GoneIsDone' /\ ReturnedIsDone'
  <2>1. \A l \in Loops : Unended(l) = {} => Unended(l)' = {} BY <1>10, <1>11
  <2> QED BY <1>1, <2>1 DEF CallInv, GoneIsDone, ReturnedIsDone
<1> QED BY <1>9, <1>14, <1>15, <1>16, <1>17 DEF CallInv

LEMMA StopKeeps == ASSUME PoolInv, Stop PROVE TaskInv' /\ CallInv'
<1> USE DEF PoolInv, Stop, threadVars
<1>1. UNCHANGED <<n_threads, running, calls, tasks, start, caller, progress, thread>> OBVIOUS
<1>2. TaskInv'
      BY <1>1, UnendedUnchanged
      DEF TaskInv, CalledOnce, QueuedFirst, WrittenFirst, RunningIsCalled, OneRuns
<1>3. CallInv'
      BY <1>1, UnendedUnchanged, LoopDirection
      DEF CallInv, NotStarted, ProgressCounts, CalledByLoop, EndedReturned, GoneIsDone,
          ReturnedIsDone, StoppedIsDone
<1> QED BY <1>2, <1>3

LEMMA NextPool == PoolInv /\ [Next]_vars => PoolInv'
<1> SUFFICES ASSUME PoolInv, [Next]_vars PROVE TaskInv' /\ CallInv'
    BY NextType DEF PoolInv
<1>1. ASSUME NEW l \in Loops, For(l) \/ Write(l) \/ Join(l) PROVE TaskInv' /\ CallInv'
      BY <1>1, ForKeeps, WriteKeeps, JoinKeeps
<1>2. ASSUME NEW l \in Loops, ReadSpecificPriority(l) PROVE TaskInv' /\ CallInv'
  <2> USE <1>2 DEF ReadSpecificPriority, CanRead
  <2>1. Local(l) \in Threads BY ThreadKinds
  <2>2. CASE \E task \in tasks : Run(Local(l), task) BY <2>1, <2>2, RunKeeps
  <2>3. CASE (is_stopped \/ progress[l] = 0) /\ Leave(Local(l))
        BY <2>1, <2>3, LeaveKeeps, ThreadKinds
  <2>4. CASE Sleep(Local(l)) BY <2>1, <2>4, SleepKeeps
  <2> QED BY <2>2, <2>3, <2>4
<1>3. ASSUME NEW t \in Threads, ReadHighestPriority(t) PROVE TaskInv' /\ CallInv'
  <2> USE <1>3 DEF ReadHighestPriority, CanRead
  <2>1. CASE \E task \in tasks : Run(t, task) BY <2>1, RunKeeps
  <2>2. CASE Leave(t)
    <3>1. \A l \in Loops : t # Local(l) BY ThreadKinds DEF Locals
    <3> QED BY <2>2, <3>1, LeaveKeeps
  <2>3. CASE Sleep(t) BY <2>3, SleepKeeps
  <2> QED BY <2>1, <2>2, <2>3 DEF Highest
<1>4. ASSUME NEW t \in Threads, EndTask(t) PROVE TaskInv' /\ CallInv'
  <2>1. PICK task \in Task : running[t] = task BY <1>4 DEF EndTask, PoolInv, TypeOK
  <2> QED BY <1>4, <2>1, EndTaskKeeps
<1>5. CASE Stop BY <1>5, StopKeeps
<1>6. CASE UNCHANGED vars
  <2> USE <1>6 DEF vars, poolVars, threadVars, PoolInv
  <2>1. TaskInv'
        BY UnendedUnchanged
        DEF TaskInv, CalledOnce, QueuedFirst, WrittenFirst, RunningIsCalled, OneRuns
  <2>2. CallInv'
        BY UnendedUnchanged, LoopDirection
        DEF CallInv, NotStarted, ProgressCounts, CalledByLoop, EndedReturned, GoneIsDone,
            ReturnedIsDone, StoppedIsDone
  <2> QED BY <2>1, <2>2
<1> QED BY <1>1, <1>2, <1>3, <1>4, <1>5, <1>6 DEF Next

LEMMA PoolInvImpliesForWaits == PoolInv => ForWaits
<1> SUFFICES ASSUME PoolInv, NEW task \in Task
             PROVE  /\ calls[task] <= 1
                    /\ caller[task.loop] = "returned" =>
                          /\ calls[task] = 1
                          /\ task \notin tasks
                          /\ \A t \in Threads : running[t] # task
    BY DEF ForWaits
<1>1. calls[task] \in {0, 1} BY DEF PoolInv, TaskInv, CalledOnce
<1>2. ASSUME caller[task.loop] = "returned" PROVE calls[task] # 0 /\ ~Busy(task)
  <2>1. task.loop \in Loops /\ task.iter \in Iterations(task.loop)
        /\ task = TaskOf(task.loop, task.iter)
        BY TaskFields
  <2>2. Unended(task.loop) = {} BY <1>2, <2>1 DEF PoolInv, CallInv, ReturnedIsDone
  <2> QED BY <2>1, <2>2 DEF Unended
<1> QED BY <1>1, <1>2 DEF Busy, PoolInv, TaskInv, QueuedFirst

(* When For returns, each of its iterations was called once and has ended: no *)
(* thread still uses the function and the counter on the caller's stack.      *)
THEOREM ForWaitsForItsIterations == Spec => []ForWaits
BY InitPool, NextPool, PoolInvImpliesForWaits, PTL DEF Spec

(***************************************************************************)
(* Thread numbers.                                                         *)
(***************************************************************************)
LocalRunsOwn == \A l \in Loops : running[Local(l)] # Idle => running[Local(l)].loop = l

LEMMA InitLocal == Init => LocalRunsOwn
BY ThreadKinds DEF Init, LocalRunsOwn

LEMMA NextLocal == TypeOK /\ LocalRunsOwn /\ [Next]_vars => LocalRunsOwn'
<1> SUFFICES ASSUME TypeOK, LocalRunsOwn, [Next]_vars PROVE LocalRunsOwn' OBVIOUS
<1>1. ASSUME UNCHANGED running PROVE LocalRunsOwn' BY <1>1 DEF LocalRunsOwn
<1>2. ASSUME NEW t \in Threads, NEW task \in tasks, Run(t, task),
             \A l \in Loops : t = Local(l) => task.loop = l
      PROVE  LocalRunsOwn'
      BY <1>2, ThreadKinds DEF Run, LocalRunsOwn, TypeOK
<1>3. ASSUME NEW l \in Loops, For(l) \/ Write(l) \/ Join(l) PROVE LocalRunsOwn'
      BY <1>1, <1>3 DEF For, Write, Join, threadVars
<1>4. ASSUME NEW l \in Loops, ReadSpecificPriority(l) PROVE LocalRunsOwn'
  <2> USE <1>4 DEF ReadSpecificPriority
  <2>1. CASE \E task \in tasks : task.loop = l /\ Run(Local(l), task)
        BY <1>2, <2>1, ThreadKinds
  <2>2. CASE Leave(Local(l)) \/ Sleep(Local(l))
        BY <1>1, <2>2 DEF Leave, Sleep, threadVars
  <2> QED BY <2>1, <2>2
<1>5. ASSUME NEW t \in Threads, ReadHighestPriority(t) PROVE LocalRunsOwn'
  <2> USE <1>5 DEF ReadHighestPriority
  <2>1. CASE \E task \in tasks : Run(t, task)
    <3>1. \A l \in Loops : t # Local(l) BY ThreadKinds DEF Locals
    <3> QED BY <1>2, <2>1, <3>1
  <2>2. CASE Leave(t) \/ Sleep(t) BY <1>1, <2>2 DEF Leave, Sleep, threadVars
  <2> QED BY <2>1, <2>2 DEF Highest
<1>6. ASSUME NEW t \in Threads, EndTask(t) PROVE LocalRunsOwn'
  <2>1. \A u \in Threads : running'[u] \in {running[u], Idle} BY <1>6 DEF EndTask, TypeOK
  <2>2. \A l \in Loops : running'[Local(l)] \in {running[Local(l)], Idle}
        BY <2>1, ThreadKinds
  <2> QED BY <2>2 DEF LocalRunsOwn
<1>7. CASE Stop \/ UNCHANGED vars BY <1>1, <1>7 DEF Stop, vars, threadVars
<1> QED BY <1>3, <1>4, <1>5, <1>6, <1>7 DEF Next

LEMMA LocalImpliesExclusive == TypeOK /\ LocalRunsOwn => ThreadIdsAreExclusive
<1> SUFFICES ASSUME TypeOK, LocalRunsOwn, NEW t \in Threads, NEW u \in Threads, t # u,
                    running[t] # Idle, running[u] # Idle, running[t].loop = running[u].loop
             PROVE  ThreadId(t) # ThreadId(u) /\ ThreadId(t) < n_threads
    BY DEF ThreadIdsAreExclusive
<1>1. n_threads \in Nat \ {0} BY DEF TypeOK
<1>2. \A x \in Locals : ThreadId(x) = 0 BY DEF ThreadId
<1>3. \A x \in Workers : /\ ThreadId(x) = x[2] /\ x = Worker(x[2])
                         /\ x[2] \in 1 .. (n_threads - 1)
      BY ThreadKinds DEF ThreadId, Workers, Worker
<1>4. ~(t \in Locals /\ u \in Locals)
  <2> SUFFICES ASSUME t \in Locals, u \in Locals PROVE FALSE OBVIOUS
  <2>1. PICK l \in Loops : t = Local(l) BY DEF Locals
  <2>2. PICK m \in Loops : u = Local(m) BY DEF Locals
  <2> QED BY <2>1, <2>2 DEF LocalRunsOwn
<1>5. (t \in Locals \/ t \in Workers) /\ (u \in Locals \/ u \in Workers) BY ThreadKinds
<1> QED BY <1>1, <1>2, <1>3, <1>4, <1>5

(* Two iterations of one loop never run at the same time with the same thread *)
(* number, and the numbers are below NThreads().                              *)
THEOREM ThreadNumbersAreExclusive == Spec => []ThreadIdsAreExclusive
BY InitType, NextType, InitLocal, NextLocal, LocalImpliesExclusive, PTL DEF Spec

-----------------------------------------------------------------------------
(***************************************************************************)
(* ParallelFor.  The threads that arrived at the barrier are those that    *)
(* count leaves out; a thread that is held since an earlier cycle has been *)
(* released and may leave at any time, also during the next run.           *)
(***************************************************************************)
CallerPlaces == {"outside", "loop", "call", "barrier", "held", "join", "gone"}
WorkerPlaces == {"none", "wait", "awake", "loop", "call", "barrier", "held", "gone"}

LoopTypeOK ==
    /\ settings.n_threads \in Nat \ {0}
    /\ loop \in [current : Nat, end : Nat, has_tasks : BOOLEAN, stop : BOOLEAN, count : Nat,
                 cycle : Nat, runs : Nat, calls : UNION {[0 .. n - 1 -> Nat] : n \in Nat},
                 pc : [LoopThreads -> CallerPlaces \cup WorkerPlaces],
                 seen : [LoopThreads -> Nat]]

Arrived == {t \in LoopThreads : loop.pc[t] = "held" /\ loop.seen[t] = loop.cycle}

BarrierCounts ==
    /\ loop.count = settings.n_threads - Cardinality(Arrived) /\ loop.count >= 1
    /\ \A t \in LoopThreads : loop.seen[t] <= loop.cycle

\* All threads are in a run, or those that are not held wait, or are to end.
ThreadsAreInRun ==
    loop.has_tasks /\ ~loop.stop =>
        /\ loop.pc[0] \in {"loop", "call", "barrier"} \/ 0 \in Arrived
        /\ \A t \in LoopWorkers : loop.pc[t] \notin {"none", "join", "gone"}
ThreadsWait ==
    ~loop.has_tasks =>
        /\ ~loop.stop /\ Arrived = {}
        /\ loop.pc[0] \in {"outside", "held", "gone"}
        /\ \A t \in LoopWorkers : loop.pc[t] \in {"none", "wait", "held"}
ThreadsEnd ==
    loop.stop =>
        /\ loop.has_tasks /\ Arrived = {}
        /\ loop.pc[0] \in {"join", "gone"}
        /\ \A t \in LoopWorkers : loop.pc[t] \in {"wait", "awake", "held", "gone"}
AllAreStarted ==
    (\E t \in LoopWorkers : loop.pc[t] = "none") => \A t \in LoopWorkers : loop.pc[t] = "none"

\* The iterations before current are called; at the barrier there are no more.
IterationsAreCalled ==
    IF loop.has_tasks /\ ~loop.stop
    THEN /\ loop.current <= loop.end
         /\ \A i \in DOMAIN loop.calls :
               i < loop.end /\ loop.calls[i] = IF i < loop.current THEN 1 ELSE 0
         /\ \A i \in 0 .. loop.end - 1 : i \in DOMAIN loop.calls
         /\ \A t \in LoopThreads :
               loop.pc[t] = "barrier" \/ t \in Arrived => loop.current = loop.end
    ELSE \A i \in DOMAIN loop.calls : loop.calls[i] = 1

LoopInv ==
    /\ LoopTypeOK /\ BarrierCounts
    /\ ThreadsAreInRun /\ ThreadsWait /\ ThreadsEnd /\ AllAreStarted
    /\ IterationsAreCalled

(***************************************************************************)
(* The barrier: as long as it is closed, a thread has not arrived; when    *)
(* the last one arrives, all others have.                                  *)
(***************************************************************************)
LEMMA LoopThreadsCount ==
  ASSUME LoopTypeOK
  PROVE  /\ IsFiniteSet(LoopThreads) /\ Cardinality(LoopThreads) = settings.n_threads
         /\ 0 \in LoopThreads /\ LoopThreads \subseteq Nat
         /\ LoopWorkers = LoopThreads \ {0}
<1>1. PICK n \in Nat \ {0} : n = settings.n_threads BY DEF LoopTypeOK
<1>2. 0 \in Int /\ n - 1 \in Int /\ ~(0 > n - 1) /\ (n - 1) - 0 + 1 = n BY <1>1
<1>3. IsFiniteSet(0 .. n - 1) /\ Cardinality(0 .. n - 1) = n
  <2>1. PICK a, b \in Int : a = 0 /\ b = n - 1 BY <1>2
  <2>2. IsFiniteSet(a .. b) /\ Cardinality(a .. b) = b - a + 1 BY <1>2, <2>1, FS_Interval
  <2> QED BY <1>2, <2>1, <2>2
<1> QED BY <1>1, <1>3 DEF LoopThreads, LoopWorkers

LEMMA ArrivedCounts ==
  ASSUME LoopTypeOK, BarrierCounts
  PROVE  /\ IsFiniteSet(Arrived) /\ Cardinality(Arrived) \in Nat
         /\ \E t \in LoopThreads : t \notin Arrived
         /\ \A t \in LoopThreads \ Arrived :
               /\ Cardinality(Arrived \cup {t}) = Cardinality(Arrived) + 1
               /\ loop.count = 1 => \A u \in LoopThreads : u # t => u \in Arrived
<1>1. IsFiniteSet(LoopThreads) /\ Cardinality(LoopThreads) = settings.n_threads
  BY LoopThreadsCount
<1>2. Arrived \subseteq LoopThreads BY DEF Arrived
<1>3. IsFiniteSet(Arrived) /\ Cardinality(Arrived) \in Nat
  BY <1>1, <1>2, FS_Subset, FS_CardinalityType
<1>4. settings.n_threads \in Nat /\ loop.count = settings.n_threads - Cardinality(Arrived)
      /\ loop.count >= 1
  BY DEF LoopTypeOK, BarrierCounts
<1>5. \E t \in LoopThreads : t \notin Arrived
  <2>1. Arrived # LoopThreads BY <1>1, <1>3, <1>4
  <2> QED BY <1>2, <2>1
<1>6. ASSUME NEW t \in LoopThreads \ Arrived
      PROVE  /\ Cardinality(Arrived \cup {t}) = Cardinality(Arrived) + 1
             /\ loop.count = 1 => \A u \in LoopThreads : u # t => u \in Arrived
  <2>1. Cardinality(Arrived \cup {t}) = Cardinality(Arrived) + 1 BY <1>3, FS_AddElement
  <2>2. ASSUME loop.count = 1 PROVE Arrived \cup {t} = LoopThreads
    <3>1. Cardinality(Arrived \cup {t}) = Cardinality(LoopThreads)
      BY <1>1, <1>3, <1>4, <2>1, <2>2
    <3>2. Arrived \cup {t} \in SUBSET LoopThreads BY <1>2
    <3> QED BY <1>1, <3>1, <3>2, FS_Subset
  <2> QED BY <2>1, <2>2
<1> QED BY <1>3, <1>5, <1>6

(***************************************************************************)
(* A thread that is not at the barrier, or was released, moves on.         *)
(***************************************************************************)
MayMove(t, place) ==
    /\ place \in {"outside", "loop", "call", "barrier", "gone", "wait", "awake"}
    /\ t \notin Arrived
    /\ loop.has_tasks /\ ~loop.stop =>
          /\ \/ place \in {"loop", "call", "barrier"}
             \/ t # 0 /\ place \in {"wait", "awake"}
          /\ place = "barrier" => loop.current = loop.end
    /\ ~loop.has_tasks => IF t = 0 THEN place \in {"outside", "gone"} ELSE place = "wait"
    /\ loop.stop => IF t = 0 THEN place = "gone" ELSE place \in {"wait", "awake", "gone"}
    /\ t # 0 => loop.pc[t] # "none"

LEMMA MoveInv ==
  ASSUME LoopInv, settings' = settings, NEW t \in LoopThreads, NEW place, MayMove(t, place),
         loop' = [loop EXCEPT !.pc[t] = place]
  PROVE  LoopInv'
<1> USE DEF MayMove
<1>1. LoopTypeOK /\ LoopThreads' = LoopThreads /\ LoopWorkers' = LoopWorkers
      /\ LoopWorkers \subseteq LoopThreads
  BY DEF LoopInv, LoopThreads, LoopWorkers
<1>2. /\ loop'.current = loop.current /\ loop'.end = loop.end /\ loop'.count = loop.count
      /\ loop'.has_tasks = loop.has_tasks /\ loop'.stop = loop.stop
      /\ loop'.cycle = loop.cycle /\ loop'.calls = loop.calls /\ loop'.seen = loop.seen
      /\ loop'.pc = [loop.pc EXCEPT ![t] = place]
  BY <1>1 DEF LoopTypeOK
<1>3. \A u \in LoopThreads : loop'.pc[u] = IF u = t THEN place ELSE loop.pc[u]
  BY <1>1, <1>2 DEF LoopTypeOK
<1>4. LoopTypeOK'
  <2>1. loop'.pc \in [LoopThreads -> CallerPlaces \cup WorkerPlaces]
    BY <1>1, <1>2 DEF LoopTypeOK, CallerPlaces, WorkerPlaces
  <2> QED BY <1>1, <1>2, <2>1 DEF LoopTypeOK
<1>5. Arrived' = Arrived BY <1>1, <1>2, <1>3 DEF Arrived
<1>6. BarrierCounts' BY <1>1, <1>2, <1>5 DEF LoopInv, BarrierCounts
<1>7. 0 \in LoopThreads /\ \A u \in LoopWorkers : u # 0
  BY <1>1, LoopThreadsCount
<1>8. ThreadsAreInRun' BY <1>1, <1>2, <1>3, <1>5, <1>7 DEF LoopInv, ThreadsAreInRun
<1>9. ThreadsWait' BY <1>1, <1>2, <1>3, <1>5, <1>7 DEF LoopInv, ThreadsWait
<1>10. ThreadsEnd' BY <1>1, <1>2, <1>3, <1>5, <1>7 DEF LoopInv, ThreadsEnd
<1>11. AllAreStarted' BY <1>1, <1>3, <1>7 DEF LoopInv, AllAreStarted
<1>12. IterationsAreCalled' BY <1>1, <1>2, <1>3, <1>5 DEF LoopInv, IterationsAreCalled
<1> QED BY <1>4, <1>6, <1>8, <1>9, <1>10, <1>11, <1>12 DEF LoopInv

LEMMA AtThread ==
  ASSUME LoopInv, NEW t, NEW here, At(t, here)
  PROVE  t \in LoopThreads /\ loop.pc[t] = here
BY DEF LoopInv, LoopTypeOK, At

LEMMA EndCallInv ==
  ASSUME LoopInv, NEW t, EndCall(t)
  PROVE  LoopInv'
<1>1. /\ t \in LoopThreads /\ loop.pc[t] = "call" /\ settings' = settings
      /\ loop' = [loop EXCEPT !.pc[t] = "loop"]
  BY AtThread DEF EndCall
<1>2. loop.has_tasks /\ ~loop.stop
  <2>1. t = 0 \/ t \in LoopWorkers BY <1>1, LoopThreadsCount DEF LoopInv
  <2> QED BY <1>1, <2>1 DEF LoopInv, ThreadsWait, ThreadsEnd
<1>3. MayMove(t, "loop") BY <1>1, <1>2 DEF MayMove, Arrived
<1> QED BY <1>1, <1>3, MoveInv

LEMMA LeaveBarrierInv ==
  ASSUME LoopInv, NEW t, LeaveBarrier(t)
  PROVE  LoopInv'
<1>1. /\ t \in LoopThreads /\ loop.pc[t] = "held" /\ settings' = settings
      /\ loop' = [loop EXCEPT !.pc[t] = AfterBarrier(t)]
      /\ t \notin Arrived
  BY AtThread DEF LeaveBarrier, Arrived
<1>2. /\ t = 0 => ~loop.has_tasks
      /\ loop.stop => loop.has_tasks
  BY <1>1 DEF LoopInv, ThreadsAreInRun, ThreadsEnd
<1>3. MayMove(t, AfterBarrier(t)) BY <1>1, <1>2 DEF MayMove, AfterBarrier
<1> QED BY <1>1, <1>3, MoveInv DEF AfterBarrier

LEMMA WaitForTasksInv ==
  ASSUME LoopInv, NEW t, WaitForTasks(t)
  PROVE  LoopInv'
<1>1. /\ t \in LoopThreads /\ loop.pc[t] = "wait" /\ settings' = settings
      /\ loop.has_tasks /\ loop' = [loop EXCEPT !.pc[t] = "awake"]
  BY AtThread DEF WaitForTasks
<1>2. t # 0
  BY <1>1 DEF LoopInv, ThreadsAreInRun, ThreadsEnd, Arrived
<1>3. MayMove(t, "awake") BY <1>1, <1>2 DEF MayMove, Arrived
<1> QED BY <1>1, <1>3, MoveInv

LEMMA TestStopInv ==
  ASSUME LoopInv, NEW t, TestStop(t)
  PROVE  LoopInv'
<1>1. /\ t \in LoopThreads /\ loop.pc[t] = "awake" /\ settings' = settings
      /\ loop' = [loop EXCEPT !.pc[t] = IF loop.stop THEN "gone" ELSE "loop"]
  BY AtThread DEF TestStop
<1>2. t # 0 /\ loop.has_tasks
  <2>1. t = 0 \/ t \in LoopWorkers BY <1>1, LoopThreadsCount DEF LoopInv
  <2> QED BY <1>1, <2>1 DEF LoopInv, ThreadsAreInRun, ThreadsWait, ThreadsEnd, Arrived
<1>3. CASE loop.stop
  <2>1. MayMove(t, "gone") BY <1>1, <1>2, <1>3 DEF MayMove, Arrived
  <2> QED BY <1>1, <1>3, <2>1, MoveInv
<1>4. CASE ~loop.stop
  <2>1. MayMove(t, "loop") BY <1>1, <1>2, <1>4 DEF MayMove, Arrived
  <2> QED BY <1>1, <1>4, <2>1, MoveInv
<1> QED BY <1>3, <1>4

LEMMA JoinThreadsInv ==
  ASSUME LoopInv, JoinThreads
  PROVE  LoopInv'
<1>1. /\ 0 \in LoopThreads /\ loop.pc[0] = "join" /\ settings' = settings
      /\ loop' = [loop EXCEPT !.pc[0] = "gone"]
  BY AtThread DEF JoinThreads
<1>2. loop.has_tasks /\ loop.stop
  BY <1>1 DEF LoopInv, ThreadsAreInRun, ThreadsWait, Arrived
<1>3. MayMove(0, "gone") BY <1>1, <1>2 DEF MayMove, Arrived
<1> QED BY <1>1, <1>3, MoveInv

(***************************************************************************)
(* The next iteration, or the barrier when there is none.                  *)
(***************************************************************************)
LEMMA NextIterationInv ==
  ASSUME LoopInv, NEW t, NextIteration(t)
  PROVE  LoopInv'
<1>1. /\ t \in LoopThreads /\ loop.pc[t] = "loop" /\ settings' = settings
      /\ loop' = IF loop.current = loop.end THEN [loop EXCEPT !.pc[t] = "barrier"]
                 ELSE [loop EXCEPT !.current = @ + 1, !.calls[loop.current] = @ + 1,
                                   !.pc[t] = "call"]
  BY AtThread DEF NextIteration
<1>2. loop.has_tasks /\ ~loop.stop
  <2>1. t = 0 \/ t \in LoopWorkers BY <1>1, LoopThreadsCount DEF LoopInv
  <2> QED BY <1>1, <2>1 DEF LoopInv, ThreadsWait, ThreadsEnd
<1>3. CASE loop.current = loop.end
  <2>1. MayMove(t, "barrier") BY <1>1, <1>2, <1>3 DEF MayMove, Arrived
  <2> QED BY <1>1, <1>3, <2>1, MoveInv
<1>4. CASE loop.current # loop.end
  <2>1. LoopTypeOK /\ LoopThreads' = LoopThreads /\ LoopWorkers' = LoopWorkers
        /\ LoopWorkers \subseteq LoopThreads
    BY <1>1 DEF LoopInv, LoopThreads, LoopWorkers
  <2>2. /\ loop'.current = loop.current + 1 /\ loop'.end = loop.end
        /\ loop'.count = loop.count
        /\ loop'.has_tasks = loop.has_tasks /\ loop'.stop = loop.stop
        /\ loop'.cycle = loop.cycle /\ loop'.seen = loop.seen /\ loop'.runs = loop.runs
        /\ loop'.calls = [loop.calls EXCEPT ![loop.current] = @ + 1]
        /\ loop'.pc = [loop.pc EXCEPT ![t] = "call"]
        /\ loop' = [current |-> loop'.current, end |-> loop'.end, count |-> loop'.count,
                    has_tasks |-> loop'.has_tasks, stop |-> loop'.stop, cycle |-> loop'.cycle,
                    runs |-> loop'.runs, calls |-> loop'.calls, pc |-> loop'.pc,
                    seen |-> loop'.seen]
    BY <1>1, <1>4, <2>1 DEF LoopTypeOK
  <2>3. \A u \in LoopThreads : loop'.pc[u] = IF u = t THEN "call" ELSE loop.pc[u]
    BY <2>1, <2>2 DEF LoopTypeOK
  <2>4. PICK n \in Nat : loop.calls \in [0 .. n - 1 -> Nat] BY <2>1 DEF LoopTypeOK
  <2>5. loop.current \in Nat /\ loop.end \in Nat /\ loop.current < loop.end
    BY <1>2, <1>4, <2>1 DEF LoopInv, LoopTypeOK, IterationsAreCalled
  <2>6. loop'.calls \in [0 .. n - 1 -> Nat]
    <3>1. loop.current \in DOMAIN loop.calls
      BY <1>2, <2>5 DEF LoopInv, IterationsAreCalled
    <3>2. loop.calls[loop.current] + 1 \in Nat BY <2>4, <3>1
    <3>3. loop'.calls = [loop.calls EXCEPT ![loop.current] = loop.calls[loop.current] + 1]
      BY <2>2
    <3> HIDE <1>1, <2>1, <2>2
    <3> QED BY <2>4, <3>1, <3>2, <3>3
  <2>7. LoopTypeOK'
    <3>1. loop'.pc \in [LoopThreads -> CallerPlaces \cup WorkerPlaces]
      BY <2>1, <2>2 DEF LoopTypeOK, CallerPlaces, WorkerPlaces
    <3>2. loop'.current \in Nat BY <2>2, <2>5
    <3>3. loop'.calls \in UNION {[0 .. k - 1 -> Nat] : k \in Nat} BY <2>6
    <3> QED BY <1>1, <2>1, <2>2, <3>1, <3>2, <3>3 DEF LoopTypeOK
  <2>8. Arrived' = Arrived BY <1>1, <2>1, <2>2, <2>3 DEF Arrived
  <2>9. BarrierCounts' BY <1>1, <2>1, <2>2, <2>8 DEF LoopInv, BarrierCounts
  <2>10. ThreadsAreInRun' BY <2>1, <2>2, <2>3, <2>8 DEF LoopInv, ThreadsAreInRun
  <2>11. ThreadsWait' /\ ThreadsEnd' BY <1>2, <2>2 DEF ThreadsWait, ThreadsEnd
  <2>12. AllAreStarted' BY <1>1, <2>1, <2>3 DEF LoopInv, AllAreStarted
  <2>13. IterationsAreCalled'
    <3>1. /\ \A i \in DOMAIN loop.calls :
               i < loop.end /\ loop.calls[i] = IF i < loop.current THEN 1 ELSE 0
          /\ \A i \in 0 .. loop.end - 1 : i \in DOMAIN loop.calls
          /\ \A u \in LoopThreads :
               loop.pc[u] = "barrier" \/ u \in Arrived => loop.current = loop.end
      BY <1>2 DEF LoopInv, IterationsAreCalled
    <3>2. DOMAIN loop'.calls = DOMAIN loop.calls BY <2>2
    <3>3. ASSUME NEW i \in DOMAIN loop'.calls
          PROVE  i < loop'.end /\ loop'.calls[i] = IF i < loop'.current THEN 1 ELSE 0
      <4>1. i \in 0 .. n - 1 /\ i \in DOMAIN loop.calls BY <2>4, <3>2
      <4>2. loop.calls[i] = IF i < loop.current THEN 1 ELSE 0 BY <3>1, <4>1
      <4>3. CASE i = loop.current BY <2>2, <2>5, <3>1, <4>1, <4>2, <4>3
      <4>4. CASE i # loop.current BY <2>2, <2>5, <3>1, <4>1, <4>2, <4>4
      <4> QED BY <4>3, <4>4
    <3>4. \A u \in LoopThreads :
             ~(loop'.pc[u] = "barrier" \/ u \in Arrived')
      BY <1>4, <2>3, <2>8, <3>1
    <3>5. loop'.current <= loop'.end BY <2>2, <2>5
    <3>6. \A i \in 0 .. loop'.end - 1 : i \in DOMAIN loop'.calls BY <2>2, <3>1, <3>2
    <3> QED BY <1>2, <2>1, <2>2, <3>3, <3>4, <3>5, <3>6 DEF IterationsAreCalled
  <2> QED BY <2>7, <2>9, <2>10, <2>11, <2>12, <2>13 DEF LoopInv
<1> QED BY <1>3, <1>4

(***************************************************************************)
(* Run(): the threads are all started by the first one.                    *)
(***************************************************************************)
LEMMA OutsideIsIdle ==
  ASSUME LoopInv, loop.pc[0] = "outside"
  PROVE  ~loop.has_tasks /\ ~loop.stop
BY DEF LoopInv, ThreadsAreInRun, ThreadsWait, ThreadsEnd, Arrived

LEMMA RunAloneInv ==
  ASSUME LoopInv, settings' = settings, loop.pc[0] = "outside", NEW size \in Nat, RunAlone(size)
  PROVE  LoopInv'
<1>1. LoopTypeOK /\ LoopThreads' = LoopThreads /\ LoopWorkers' = LoopWorkers
  BY DEF LoopInv, LoopThreads, LoopWorkers
<1>2. /\ loop'.current = loop.current /\ loop'.end = loop.end /\ loop'.count = loop.count
      /\ loop'.has_tasks = loop.has_tasks /\ loop'.stop = loop.stop
      /\ loop'.cycle = loop.cycle /\ loop'.seen = loop.seen /\ loop'.pc = loop.pc
      /\ loop'.runs = loop.runs + 1 /\ loop'.calls = [i \in 0 .. size - 1 |-> 1]
      /\ loop' = [current |-> loop'.current, end |-> loop'.end, count |-> loop'.count,
                  has_tasks |-> loop'.has_tasks, stop |-> loop'.stop, cycle |-> loop'.cycle,
                  runs |-> loop'.runs, calls |-> loop'.calls, pc |-> loop'.pc,
                  seen |-> loop'.seen]
  BY <1>1 DEF RunAlone, LoopTypeOK
<1>3. LoopTypeOK'
  <2>1. loop'.calls \in [0 .. size - 1 -> Nat] BY <1>2
  <2>2. loop'.calls \in UNION {[0 .. k - 1 -> Nat] : k \in Nat} BY <2>1
  <2>3. settings'.n_threads \in Nat \ {0} /\ loop'.runs \in Nat BY <1>1, <1>2 DEF LoopTypeOK
  <2> QED BY <1>1, <1>2, <2>2, <2>3 DEF LoopTypeOK
<1>4. Arrived' = Arrived BY <1>1, <1>2 DEF Arrived
<1>5. BarrierCounts' BY <1>1, <1>2, <1>4 DEF LoopInv, BarrierCounts
<1>6. ThreadsAreInRun' /\ ThreadsWait' /\ ThreadsEnd' /\ AllAreStarted'
  BY <1>1, <1>2, <1>4 DEF LoopInv, ThreadsAreInRun, ThreadsWait, ThreadsEnd, AllAreStarted
<1>7. IterationsAreCalled'
  <2>1. ~loop'.has_tasks BY <1>2, OutsideIsIdle
  <2>2. \A i \in DOMAIN loop'.calls : loop'.calls[i] = 1 BY <1>2
  <2> QED BY <2>1, <2>2 DEF IterationsAreCalled
<1> QED BY <1>3, <1>5, <1>6, <1>7 DEF LoopInv

LEMMA RunTogetherInv ==
  ASSUME LoopInv, settings' = settings, loop.pc[0] = "outside", NEW size \in Nat,
         RunTogether(size)
  PROVE  LoopInv'
<1>1. LoopTypeOK /\ LoopThreads' = LoopThreads /\ LoopWorkers' = LoopWorkers
      /\ 0 \in LoopThreads /\ LoopWorkers = LoopThreads \ {0}
  BY LoopThreadsCount DEF LoopInv, LoopThreads, LoopWorkers
<1>2. /\ loop'.current = 0 /\ loop'.end = size /\ loop'.count = loop.count
      /\ loop'.has_tasks = TRUE /\ loop'.stop = loop.stop
      /\ loop'.cycle = loop.cycle /\ loop'.seen = loop.seen
      /\ loop'.pc = [t \in LoopThreads |-> IF t = 0 THEN "loop"
                                          ELSE IF Started THEN loop.pc[t] ELSE "wait"]
      /\ loop'.runs = loop.runs + 1 /\ loop'.calls = [i \in 0 .. size - 1 |-> 0]
      /\ loop' = [current |-> loop'.current, end |-> loop'.end, count |-> loop'.count,
                  has_tasks |-> loop'.has_tasks, stop |-> loop'.stop, cycle |-> loop'.cycle,
                  runs |-> loop'.runs, calls |-> loop'.calls, pc |-> loop'.pc,
                  seen |-> loop'.seen]
  BY <1>1 DEF RunTogether, LoopTypeOK
<1>3. /\ ~loop.has_tasks /\ ~loop.stop /\ Arrived = {}
      /\ \A t \in LoopWorkers : loop.pc[t] \in {"none", "wait", "held"}
  BY OutsideIsIdle DEF LoopInv, ThreadsWait
<1>4. /\ loop'.pc[0] = "loop"
      /\ \A t \in LoopWorkers : loop'.pc[t] = "wait" \/ loop'.pc[t] = "held"
  <2>1. CASE Started
    <3>1. \A t \in LoopWorkers : loop.pc[t] # "none"
      BY <2>1 DEF Started, LoopInv, AllAreStarted
    <3> QED BY <1>1, <1>2, <1>3, <2>1, <3>1
  <2>2. CASE ~Started BY <1>1, <1>2, <2>2
  <2> QED BY <2>1, <2>2
<1>a. \A t \in LoopThreads : t = 0 \/ t \in LoopWorkers BY <1>1
<1>5. LoopTypeOK'
  <2>1. loop'.calls \in [0 .. size - 1 -> Nat] BY <1>2
  <2>2. loop'.calls \in UNION {[0 .. k - 1 -> Nat] : k \in Nat} BY <2>1
  <2>3. loop'.pc \in [LoopThreads -> CallerPlaces \cup WorkerPlaces]
    <3>1. \A t \in LoopThreads : loop'.pc[t] \in CallerPlaces \cup WorkerPlaces
      BY <1>4, <1>a DEF CallerPlaces, WorkerPlaces
    <3> QED BY <1>2, <3>1
  <2>4. /\ settings'.n_threads \in Nat \ {0} /\ loop'.runs \in Nat /\ loop'.stop \in BOOLEAN
        /\ loop'.count \in Nat /\ loop'.cycle \in Nat /\ loop'.seen \in [LoopThreads -> Nat]
        /\ loop'.current \in Nat /\ loop'.end \in Nat /\ loop'.has_tasks \in BOOLEAN
    <3>1. /\ settings.n_threads \in Nat \ {0} /\ loop.runs \in Nat /\ loop.stop \in BOOLEAN
          /\ loop.count \in Nat /\ loop.cycle \in Nat /\ loop.seen \in [LoopThreads -> Nat]
      BY <1>1 DEF LoopTypeOK
    <3>2. settings'.n_threads \in Nat \ {0} BY <3>1
    <3>3. loop'.has_tasks \in BOOLEAN BY <1>2
    <3>4. loop'.current \in Nat /\ loop'.end \in Nat /\ loop'.runs \in Nat BY <1>2, <3>1
    <3>5. loop'.stop \in BOOLEAN /\ loop'.count \in Nat /\ loop'.cycle \in Nat BY <1>2, <3>1
    <3>6. loop'.seen \in [LoopThreads -> Nat] BY <1>2, <3>1
    <3> QED BY <3>2, <3>3, <3>4, <3>5, <3>6
  <2>5. LoopThreads' = LoopThreads BY <1>1
  <2>6. loop' = [current |-> loop'.current, end |-> loop'.end, count |-> loop'.count,
                 has_tasks |-> loop'.has_tasks, stop |-> loop'.stop, cycle |-> loop'.cycle,
                 runs |-> loop'.runs, calls |-> loop'.calls, pc |-> loop'.pc,
                 seen |-> loop'.seen]
    BY <1>2
  <2> QED BY <2>2, <2>3, <2>4, <2>5, <2>6 DEF LoopTypeOK
<1>6. Arrived' = {}
  <2>1. \A t \in LoopThreads : loop'.pc[t] = "held" => loop.pc[t] = "held" BY <1>1, <1>2
  <2> QED BY <1>1, <1>2, <1>3, <2>1 DEF Arrived
<1>7. BarrierCounts' BY <1>1, <1>2, <1>3, <1>6 DEF LoopInv, BarrierCounts
<1>8. ThreadsAreInRun' /\ ThreadsWait' /\ ThreadsEnd' /\ AllAreStarted'
  <2>1. \A t \in LoopWorkers : loop'.pc[t] \notin {"none", "join", "gone"} BY <1>4
  <2> QED BY <1>1, <1>2, <1>3, <1>4, <2>1 DEF ThreadsAreInRun, ThreadsWait, ThreadsEnd, AllAreStarted
<1>9. IterationsAreCalled'
  <2>1. \A i \in DOMAIN loop'.calls : i < size /\ ~(i < 0) /\ loop'.calls[i] = 0 BY <1>2
  <2>2. \A i \in 0 .. size - 1 : i \in DOMAIN loop'.calls BY <1>2
  <2>3. \A t \in LoopThreads : ~(loop'.pc[t] = "barrier" \/ t \in Arrived')
    BY <1>4, <1>6, <1>a
  <2> QED BY <1>1, <1>2, <1>3, <2>1, <2>2, <2>3 DEF IterationsAreCalled
<1> QED BY <1>5, <1>7, <1>8, <1>9 DEF LoopInv

LEMMA RunLoopInv ==
  ASSUME LoopInv, RunLoop
  PROVE  LoopInv'
<1>1. loop.pc[0] = "outside" /\ settings' = settings BY AtThread DEF RunLoop
<1>2. PICK size \in LoopSizes : RunAlone(size) \/ RunTogether(size) BY DEF RunLoop
<1>3. size \in Nat BY LoopAssumption
<1> QED BY <1>1, <1>2, <1>3, RunAloneInv, RunTogetherInv

(***************************************************************************)
(* The barrier: the last thread ends the run, as all others have arrived.  *)
(***************************************************************************)
LEMMA ArriveAtBarrierInv ==
  ASSUME LoopInv, NEW t, ArriveAtBarrier(t)
  PROVE  LoopInv'
<1>1. /\ t \in LoopThreads /\ loop.pc[t] = "barrier" /\ settings' = settings
      /\ t \in LoopThreads \ Arrived
      /\ loop' = IF loop.count = 1 THEN Release(t)
                 ELSE [loop EXCEPT !.count = @ - 1, !.seen[t] = loop.cycle, !.pc[t] = "held"]
  BY AtThread DEF ArriveAtBarrier, Arrived
<1>2. LoopTypeOK /\ LoopThreads' = LoopThreads /\ LoopWorkers' = LoopWorkers
      /\ 0 \in LoopThreads /\ LoopWorkers = LoopThreads \ {0}
  BY <1>1, LoopThreadsCount DEF LoopInv, LoopThreads, LoopWorkers
<1>3. loop.has_tasks /\ ~loop.stop
  BY <1>1, <1>2 DEF LoopInv, ThreadsWait, ThreadsEnd
<1>4. loop.current = loop.end BY <1>1, <1>3 DEF LoopInv, IterationsAreCalled
<1>5. CASE loop.count = 1
  <2>1. /\ loop'.current = loop.current /\ loop'.end = loop.end
        /\ loop'.count = settings.n_threads
        /\ loop'.has_tasks = FALSE /\ loop'.stop = loop.stop
        /\ loop'.cycle = loop.cycle + 1 /\ loop'.seen = loop.seen
        /\ loop'.runs = loop.runs /\ loop'.calls = loop.calls
        /\ loop'.pc = [loop.pc EXCEPT ![t] = AfterBarrier(t)]
        /\ loop' = [current |-> loop'.current, end |-> loop'.end, count |-> loop'.count,
                    has_tasks |-> loop'.has_tasks, stop |-> loop'.stop, cycle |-> loop'.cycle,
                    runs |-> loop'.runs, calls |-> loop'.calls, pc |-> loop'.pc,
                    seen |-> loop'.seen]
    BY <1>1, <1>2, <1>5 DEF Release, LoopTypeOK
  <2>2. \A u \in LoopThreads : u # t => u \in Arrived
    BY <1>1, <1>2, <1>5, ArrivedCounts DEF LoopInv
  <2>3. \A u \in LoopThreads : loop'.pc[u] = IF u = t THEN AfterBarrier(t) ELSE "held"
    BY <1>2, <2>1, <2>2 DEF LoopTypeOK, Arrived
  <2>4. LoopTypeOK'
    <3>1. loop'.pc \in [LoopThreads -> CallerPlaces \cup WorkerPlaces]
      BY <1>2, <2>1 DEF LoopTypeOK, CallerPlaces, WorkerPlaces, AfterBarrier
    <3>2. loop'.count \in Nat /\ loop'.cycle \in Nat BY <1>2, <2>1 DEF LoopTypeOK
    <3> QED BY <1>1, <1>2, <2>1, <3>1, <3>2 DEF LoopTypeOK
  <2>5. \A u \in LoopThreads : loop'.seen[u] < loop'.cycle
    <3>1. \A u \in LoopThreads : loop.seen[u] <= loop.cycle /\ loop.seen[u] \in Nat
      BY <1>2 DEF LoopInv, BarrierCounts, LoopTypeOK
    <3>2. loop.cycle \in Nat BY <1>2 DEF LoopTypeOK
    <3> QED BY <2>1, <3>1, <3>2
  <2>6. Arrived' = {}
    <3>1. \A u \in LoopThreads : loop'.seen[u] \in Nat /\ loop'.cycle \in Nat
      BY <1>2, <2>4 DEF LoopTypeOK
    <3> QED BY <1>2, <2>5, <3>1 DEF Arrived
  <2>7. BarrierCounts'
    <3>1. Cardinality(Arrived') = 0 BY <2>6, FS_EmptySet
    <3>2. settings.n_threads \in Nat \ {0} BY <1>2 DEF LoopTypeOK
    <3>3. \A u \in LoopThreads : loop'.seen[u] \in Nat /\ loop'.cycle \in Nat
      BY <1>2, <2>4 DEF LoopTypeOK
    <3> QED BY <1>1, <1>2, <2>1, <2>5, <3>1, <3>2, <3>3 DEF BarrierCounts
  <2>8. ThreadsAreInRun' /\ ThreadsWait' /\ ThreadsEnd' /\ AllAreStarted'
    <3>1. \A u \in LoopWorkers : loop'.pc[u] = "wait" \/ loop'.pc[u] = "held"
      BY <1>2, <2>3 DEF AfterBarrier
    <3>2. loop'.pc[0] \in {"outside", "held"} BY <1>2, <2>3 DEF AfterBarrier
    <3>3. ~loop'.has_tasks /\ ~loop'.stop /\ LoopWorkers' = LoopWorkers
      BY <1>2, <1>3, <2>1
    <3>4. ThreadsAreInRun' /\ ThreadsEnd' BY <3>3 DEF ThreadsAreInRun, ThreadsEnd
    <3>5. ThreadsWait' BY <2>6, <3>1, <3>2, <3>3 DEF ThreadsWait
    <3>6. AllAreStarted' BY <3>1, <3>3 DEF AllAreStarted
    <3> QED BY <3>4, <3>5, <3>6
  <2>9. IterationsAreCalled'
    <3>1. \A i \in DOMAIN loop.calls :
             i < loop.end /\ loop.calls[i] = IF i < loop.current THEN 1 ELSE 0
      BY <1>3 DEF LoopInv, IterationsAreCalled
    <3> QED BY <1>4, <2>1, <3>1 DEF IterationsAreCalled
  <2> QED BY <2>4, <2>7, <2>8, <2>9 DEF LoopInv
<1>6. CASE loop.count # 1
  <2>1. /\ loop'.current = loop.current /\ loop'.end = loop.end
        /\ loop'.count = loop.count - 1
        /\ loop'.has_tasks = loop.has_tasks /\ loop'.stop = loop.stop
        /\ loop'.cycle = loop.cycle /\ loop'.seen = [loop.seen EXCEPT ![t] = loop.cycle]
        /\ loop'.runs = loop.runs /\ loop'.calls = loop.calls
        /\ loop'.pc = [loop.pc EXCEPT ![t] = "held"]
        /\ loop' = [current |-> loop'.current, end |-> loop'.end, count |-> loop'.count,
                    has_tasks |-> loop'.has_tasks, stop |-> loop'.stop, cycle |-> loop'.cycle,
                    runs |-> loop'.runs, calls |-> loop'.calls, pc |-> loop'.pc,
                    seen |-> loop'.seen]
    BY <1>1, <1>2, <1>6 DEF LoopTypeOK
  <2>2. \A u \in LoopThreads : /\ loop'.pc[u] = IF u = t THEN "held" ELSE loop.pc[u]
                              /\ loop'.seen[u] = IF u = t THEN loop.cycle ELSE loop.seen[u]
    BY <1>2, <2>1 DEF LoopTypeOK
  <2>3. loop.count \in Nat /\ loop.count >= 1 /\ loop.cycle \in Nat
    BY <1>2 DEF LoopInv, BarrierCounts, LoopTypeOK
  <2>4. LoopTypeOK'
    <3>1. loop'.pc \in [LoopThreads -> CallerPlaces \cup WorkerPlaces]
      BY <1>2, <2>1 DEF LoopTypeOK, CallerPlaces, WorkerPlaces
    <3>2. loop'.seen \in [LoopThreads -> Nat] BY <1>2, <2>1, <2>3 DEF LoopTypeOK
    <3>3. loop'.count \in Nat BY <2>1, <2>3
    <3> QED BY <1>1, <1>2, <2>1, <3>1, <3>2, <3>3 DEF LoopTypeOK
  <2>5. Arrived' = Arrived \cup {t} BY <1>1, <1>2, <2>1, <2>2 DEF Arrived
  <2>6. BarrierCounts'
    <3>1. Cardinality(Arrived') = Cardinality(Arrived) + 1
      BY <1>1, <1>2, <2>5, ArrivedCounts DEF LoopInv
    <3>2. Cardinality(Arrived) \in Nat BY <1>2, ArrivedCounts DEF LoopInv
    <3>3. loop.count = settings.n_threads - Cardinality(Arrived)
          /\ settings.n_threads \in Nat
      BY <1>2 DEF LoopInv, BarrierCounts, LoopTypeOK
    <3>4. loop'.count = settings'.n_threads - Cardinality(Arrived') /\ loop'.count >= 1
      BY <1>1, <1>6, <2>1, <2>3, <3>1, <3>2, <3>3
    <3>5. \A u \in LoopThreads : loop'.seen[u] <= loop'.cycle
      BY <1>2, <2>1, <2>2, <2>3 DEF LoopInv, BarrierCounts
    <3> QED BY <1>2, <3>4, <3>5 DEF BarrierCounts
  <2>7. ThreadsAreInRun' /\ ThreadsWait' /\ ThreadsEnd' /\ AllAreStarted'
    <3>1. /\ loop.pc[0] \in {"loop", "call", "barrier"} \/ 0 \in Arrived
          /\ \A u \in LoopWorkers : loop.pc[u] \notin {"none", "join", "gone"}
      BY <1>3 DEF LoopInv, ThreadsAreInRun
    <3>2. loop'.pc[0] \in {"loop", "call", "barrier"} \/ 0 \in Arrived'
      BY <1>1, <1>2, <2>2, <2>5, <3>1
    <3>3. \A u \in LoopWorkers : loop'.pc[u] \notin {"none", "join", "gone"}
      BY <1>2, <2>2, <3>1
    <3>4. loop'.has_tasks /\ ~loop'.stop /\ LoopWorkers' = LoopWorkers
      BY <1>2, <1>3, <2>1
    <3>5. ThreadsAreInRun' BY <3>2, <3>3, <3>4 DEF ThreadsAreInRun
    <3>6. ThreadsWait' /\ ThreadsEnd' BY <3>4 DEF ThreadsWait, ThreadsEnd
    <3>7. AllAreStarted' BY <3>3, <3>4 DEF AllAreStarted
    <3> QED BY <3>5, <3>6, <3>7
  <2>8. IterationsAreCalled'
    BY <1>2, <1>3, <1>4, <2>1, <2>2, <2>5 DEF LoopInv, IterationsAreCalled
  <2> QED BY <2>4, <2>6, <2>7, <2>8 DEF LoopInv
<1> QED BY <1>5, <1>6

(***************************************************************************)
(* The destructor: threads that were started get one more task, to end.    *)
(***************************************************************************)
LEMMA DestroyInv ==
  ASSUME LoopInv, Destroy
  PROVE  LoopInv'
<1>1. /\ 0 \in LoopThreads /\ loop.pc[0] = "outside" /\ settings' = settings
      /\ loop' = IF Started
                 THEN [loop EXCEPT !.stop = TRUE, !.has_tasks = TRUE, !.pc[0] = "join"]
                 ELSE [loop EXCEPT !.pc[0] = "gone"]
  BY AtThread DEF Destroy
<1>2. /\ ~loop.has_tasks /\ ~loop.stop /\ Arrived = {}
      /\ \A t \in LoopWorkers : loop.pc[t] \in {"none", "wait", "held"}
  BY <1>1, OutsideIsIdle DEF LoopInv, ThreadsWait
<1>3. CASE ~Started
  <2>1. MayMove(0, "gone") BY <1>1, <1>2 DEF MayMove
  <2> QED BY <1>1, <1>3, <2>1, MoveInv
<1>4. CASE Started
  <2>1. LoopTypeOK /\ LoopThreads' = LoopThreads /\ LoopWorkers' = LoopWorkers
        /\ LoopWorkers = LoopThreads \ {0}
    BY <1>1, LoopThreadsCount DEF LoopInv, LoopThreads, LoopWorkers
  <2>2. /\ loop'.current = loop.current /\ loop'.end = loop.end /\ loop'.count = loop.count
        /\ loop'.has_tasks = TRUE /\ loop'.stop = TRUE
        /\ loop'.cycle = loop.cycle /\ loop'.seen = loop.seen
        /\ loop'.runs = loop.runs /\ loop'.calls = loop.calls
        /\ loop'.pc = [loop.pc EXCEPT ![0] = "join"]
        /\ loop' = [current |-> loop'.current, end |-> loop'.end, count |-> loop'.count,
                    has_tasks |-> loop'.has_tasks, stop |-> loop'.stop, cycle |-> loop'.cycle,
                    runs |-> loop'.runs, calls |-> loop'.calls, pc |-> loop'.pc,
                    seen |-> loop'.seen]
    BY <1>1, <1>4, <2>1 DEF LoopTypeOK
  <2>3. \A u \in LoopThreads : loop'.pc[u] = IF u = 0 THEN "join" ELSE loop.pc[u]
    BY <2>1, <2>2 DEF LoopTypeOK
  <2>4. \A u \in LoopWorkers : loop.pc[u] # "none"
    BY <1>4 DEF Started, LoopInv, AllAreStarted
  <2>5. LoopTypeOK'
    <3>1. loop'.pc \in [LoopThreads -> CallerPlaces \cup WorkerPlaces]
      BY <1>1, <2>1, <2>2 DEF LoopTypeOK, CallerPlaces
    <3> QED BY <1>1, <2>1, <2>2, <3>1 DEF LoopTypeOK
  <2>6. Arrived' = {} BY <1>1, <1>2, <2>1, <2>2, <2>3 DEF Arrived
  <2>7. BarrierCounts' BY <1>1, <1>2, <2>1, <2>2, <2>6 DEF LoopInv, BarrierCounts
  <2>8. ThreadsAreInRun' /\ ThreadsWait' /\ ThreadsEnd' /\ AllAreStarted'
    BY <1>1, <1>2, <2>1, <2>2, <2>3, <2>4, <2>6
       DEF ThreadsAreInRun, ThreadsWait, ThreadsEnd, AllAreStarted
  <2>9. IterationsAreCalled' BY <1>2, <2>2 DEF LoopInv, IterationsAreCalled
  <2> QED BY <2>5, <2>7, <2>8, <2>9 DEF LoopInv
<1> QED BY <1>3, <1>4

LEMMA ParInitInv == ParInit => LoopInv
<1> SUFFICES ASSUME ParInit PROVE LoopInv OBVIOUS
<1>1. PICK n \in ThreadCounts :
        /\ settings = [n_threads |-> n]
        /\ loop = [current |-> 0, end |-> 0, has_tasks |-> FALSE, stop |-> FALSE,
                   count |-> n, cycle |-> 0, runs |-> 0, calls |-> <<>>,
                   pc |-> [t \in 0 .. n - 1 |-> IF t = 0 THEN "outside" ELSE "none"],
                   seen |-> [t \in 0 .. n - 1 |-> 0]]
  BY DEF ParInit
<1>2. n \in Nat \ {0} /\ settings.n_threads = n BY <1>1, LoopAssumption
<1>3. LoopThreads = 0 .. n - 1 /\ LoopWorkers = (0 .. n - 1) \ {0} /\ 0 \in LoopThreads
  BY <1>2 DEF LoopThreads, LoopWorkers
<1>4. <<>> \in [0 .. 0 - 1 -> Nat] /\ \A i \in DOMAIN <<>> : FALSE
  <2>1. 0 .. 0 - 1 = {} OBVIOUS
  <2>2. <<>> \in [{} -> Nat] OBVIOUS
  <2> QED BY <2>1, <2>2
<1>5. LoopTypeOK
  <2>1. <<>> \in UNION {[0 .. k - 1 -> Nat] : k \in Nat} BY <1>4
  <2> QED BY <1>1, <1>2, <1>3, <2>1 DEF LoopTypeOK, CallerPlaces, WorkerPlaces
<1>6. Arrived = {} BY <1>1, <1>3 DEF Arrived
<1>7. BarrierCounts
  <2>1. Cardinality(Arrived) = 0 BY <1>6, FS_EmptySet
  <2> QED BY <1>1, <1>2, <1>3, <2>1 DEF BarrierCounts
<1>8. /\ ~loop.has_tasks /\ ~loop.stop /\ loop.pc[0] = "outside"
      /\ \A t \in LoopWorkers : loop.pc[t] = "none"
  BY <1>1, <1>2, <1>3
<1>9. ThreadsAreInRun /\ ThreadsWait /\ ThreadsEnd /\ AllAreStarted
  BY <1>6, <1>8 DEF ThreadsAreInRun, ThreadsWait, ThreadsEnd, AllAreStarted
<1>10. IterationsAreCalled BY <1>1, <1>4, <1>8 DEF IterationsAreCalled
<1> QED BY <1>5, <1>7, <1>9, <1>10 DEF LoopInv

LEMMA ParNextInv == LoopInv /\ [ParNext]_parVars => LoopInv'
<1> SUFFICES ASSUME LoopInv, [ParNext]_parVars PROVE LoopInv' OBVIOUS
<1>1. CASE RunLoop BY <1>1, RunLoopInv
<1>2. CASE Destroy BY <1>2, DestroyInv
<1>3. CASE JoinThreads BY <1>3, JoinThreadsInv
<1>4. ASSUME NEW t \in LoopThreads,
             \/ NextIteration(t) \/ EndCall(t) \/ ArriveAtBarrier(t)
             \/ LeaveBarrier(t) \/ WaitForTasks(t) \/ TestStop(t)
      PROVE  LoopInv'
  BY <1>4, NextIterationInv, EndCallInv, ArriveAtBarrierInv, LeaveBarrierInv,
     WaitForTasksInv, TestStopInv
<1>5. CASE UNCHANGED parVars
  BY <1>5 DEF parVars, LoopInv, LoopTypeOK, BarrierCounts, ThreadsAreInRun, ThreadsWait,
              ThreadsEnd, AllAreStarted, IterationsAreCalled, Arrived, LoopThreads, LoopWorkers
<1> QED BY <1>1, <1>2, <1>3, <1>4, <1>5 DEF ParNext

(* The barrier of the loop counts the threads that have not arrived, and the  *)
(* threads are all in a run, or all wait for one, or all are to end.          *)
THEOREM LoopInvariant == ParSpec => []LoopInv
BY ParInitInv, ParNextInv, PTL DEF ParSpec

LEMMA InvLoopsAreDone == LoopInv => LoopsAreDone
<1> SUFFICES ASSUME LoopInv PROVE LoopsAreDone OBVIOUS
<1>1. /\ 0 \in LoopThreads /\ LoopWorkers = LoopThreads \ {0}
      /\ loop.pc \in [LoopThreads -> CallerPlaces \cup WorkerPlaces]
      /\ loop.seen \in [LoopThreads -> Nat] /\ loop.cycle \in Nat
  BY LoopThreadsCount DEF LoopInv, LoopTypeOK
<1>2. ASSUME At(0, "outside")
      PROVE  /\ \A i \in DOMAIN loop.calls : loop.calls[i] = 1
             /\ \A t \in LoopWorkers : loop.pc[t] \in {"none", "held", "wait"}
  <2>1. ~loop.has_tasks BY <1>2, OutsideIsIdle DEF At
  <2> QED BY <2>1 DEF LoopInv, ThreadsWait, IterationsAreCalled
<1>3. ASSUME loop.pc[0] # "gone"
      PROVE  \/ \E t \in LoopThreads : CanContinue(t)
             \/ loop.pc[0] = "join" /\ \A t \in LoopWorkers : loop.pc[t] = "gone"
  <2>1. CASE ~loop.has_tasks
    <3>1. loop.pc[0] = "outside" \/ (loop.pc[0] = "held" /\ 0 \notin Arrived)
      BY <1>3, <2>1 DEF LoopInv, ThreadsWait
    <3>2. CanContinue(0) BY <1>1, <3>1 DEF CanContinue, Arrived
    <3> QED BY <1>1, <3>2
  <2>2. CASE loop.has_tasks /\ loop.stop
    <3>1. /\ loop.pc[0] = "join" /\ Arrived = {}
          /\ \A t \in LoopWorkers : loop.pc[t] \in {"wait", "awake", "held", "gone"}
      BY <1>3, <2>2 DEF LoopInv, ThreadsEnd
    <3>2. CASE \A t \in LoopWorkers : loop.pc[t] = "gone" BY <3>1, <3>2
    <3>3. ASSUME NEW t \in LoopWorkers, loop.pc[t] # "gone" PROVE CanContinue(t)
      BY <1>1, <2>2, <3>1, <3>3 DEF CanContinue, Arrived
    <3> QED BY <1>1, <3>2, <3>3
  <2>3. CASE loop.has_tasks /\ ~loop.stop
    <3>1. PICK t \in LoopThreads : t \notin Arrived
      BY ArrivedCounts DEF LoopInv
    <3>2. CASE t = 0
      <4>1. loop.pc[0] \in {"loop", "call", "barrier"}
        BY <2>3, <3>1, <3>2 DEF LoopInv, ThreadsAreInRun
      <4> QED BY <1>1, <4>1 DEF CanContinue
    <3>3. CASE t # 0
      <4>1. t \in LoopWorkers /\ loop.pc[t] \notin {"none", "join", "gone"}
        BY <1>1, <2>3, <3>1, <3>3 DEF LoopInv, ThreadsAreInRun
      <4>2. CanContinue(t)
        BY <1>1, <2>3, <3>1, <4>1 DEF CanContinue, Arrived, CallerPlaces, WorkerPlaces
      <4> QED BY <3>1, <4>2
    <3> QED BY <3>2, <3>3
  <2> QED BY <2>1, <2>2, <2>3
<1> QED BY <1>2, <1>3 DEF LoopsAreDone

(* When Run() returns, each iteration of the loop was called once and has     *)
(* ended; and threads never wait for each other for ever, whatever the        *)
(* numbers of threads, iterations and runs.                                   *)
THEOREM LoopsEnd == ParSpec => []LoopsAreDone
BY LoopInvariant, InvLoopsAreDone, PTL
=============================================================================
