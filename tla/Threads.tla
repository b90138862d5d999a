------------------------------ MODULE Threads ------------------------------
(***************************************************************************)
(* The two kinds of loops of aocommon that run in threads: those of        *)
(* ThreadPool and, in the second part, of ParallelFor.                     *)
(***************************************************************************)
EXTENDS Integers, Sequences, FiniteSets

(***************************************************************************)
(* aocommon::ThreadPool as DDECal uses it: a For loop over the directions, *)
(* in which every iteration, the predict step of a direction, runs a For   *)
(* loop over its sources in the same pool.                                 *)
(*                                                                         *)
(* Loop 0 is the loop over the directions, loop d the one of direction d.  *)
(* A For call has a caller, which queues the iterations as tasks, and a    *)
(* local thread, which runs tasks of this loop only; the workers of the    *)
(* pool run the tasks of the latest loop first.  An action is what one     *)
(* thread does while it holds _mutex.                                      *)
(***************************************************************************)

CONSTANTS
    PoolSizes,  \* the numbers of threads that pools are made with
    Sources,    \* per direction, the number of sources
    Idle        \* a thread that runs no task

Directions == 1 .. Len(Sources)
Loops == 0 .. Len(Sources)
Size(l) == IF l = 0 THEN Len(Sources) ELSE Sources[l]
Iterations(l) == 1 .. Size(l)

Task == UNION {[loop : {l}, iter : Iterations(l)] : l \in Loops}

ASSUME PoolAssumption ==
    /\ PoolSizes \subseteq Nat \ {0}
    /\ Sources \in Seq(Nat)
    /\ Idle \notin Task

Worker(i) == <<"worker", i>>
Local(l) == <<"local", l>>
Caller(l) == <<"caller", l>>

VARIABLES
    n_threads,      \* NThreads(): the workers and one
    is_stopped,     \* _isStopped
    next_priority,  \* _priority
    tasks,          \* _tasks
    waiting,        \* the threads that wait for _onProgress
    caller,         \* per loop, where its call of For is
    priority,       \* thisPriority of the call
    start,          \* start of the call: the next iteration to queue
    progress,       \* progress of the call: the iterations that did not end
    thread,         \* per thread: "none", "loop" or "gone"
    running,        \* per thread, the task that it runs
    calls           \* history: how often the function was called

poolVars == <<n_threads, is_stopped, next_priority>>
threadVars == <<thread, running, calls>>
vars == <<poolVars, tasks, waiting, caller, priority, start, progress, threadVars>>

Workers == {Worker(i) : i \in 1 .. (n_threads - 1)}
Locals == {Local(l) : l \in Loops}
Threads == Workers \cup Locals
Callers == {Caller(l) : l \in Loops}

Init ==
    /\ n_threads \in PoolSizes
    /\ is_stopped = FALSE
    /\ next_priority = 0
    /\ tasks = {}
    /\ waiting = {}
    /\ caller = [l \in Loops |-> IF l = 0 THEN "call" ELSE "none"]
    /\ priority = [l \in Loops |-> 0]
    /\ start = [l \in Loops |-> 1]
    /\ progress = [l \in Loops |-> 0]
    /\ thread = [t \in Threads |-> IF t \in Workers THEN "loop" ELSE "none"]
    /\ running = [t \in Threads |-> Idle]
    /\ calls = [t \in Task |-> 0]

NotifyAll == waiting' = {}
Wait(t) == waiting' = waiting \cup {t}

-----------------------------------------------------------------------------
(***************************************************************************)
(* For: take a priority, start the local thread, write the iterations, and *)
(* join the local thread.                                                  *)
(***************************************************************************)
For(l) ==
    /\ caller[l] = "call"
    /\ caller' = [caller EXCEPT ![l] = "write"]
    /\ priority' = [priority EXCEPT ![l] = next_priority]
    /\ next_priority' = next_priority + 1
    /\ progress' = [progress EXCEPT ![l] = Size(l)]
    /\ thread' = [thread EXCEPT ![Local(l)] = "loop"]
    /\ UNCHANGED <<n_threads, is_stopped, tasks, waiting, start, running, calls>>

IsFull(l) == Cardinality({t \in tasks : t.loop = l}) >= n_threads

Write(l) ==
    /\ caller[l] = "write" /\ start[l] <= Size(l)
    /\ Caller(l) \notin waiting
    /\ IF IsFull(l)
       THEN Wait(Caller(l)) /\ UNCHANGED <<tasks, start>>
       ELSE /\ tasks' = tasks \cup {[loop |-> l, iter |-> start[l]]}
            /\ start' = [start EXCEPT ![l] = @ + 1]
            /\ NotifyAll
    /\ UNCHANGED <<poolVars, caller, priority, progress, threadVars>>

Join(l) ==
    /\ caller[l] = "write" /\ start[l] > Size(l)
    /\ thread[Local(l)] = "gone"
    /\ caller' = [caller EXCEPT ![l] = "returned"]
    /\ UNCHANGED <<poolVars, tasks, waiting, priority, start, progress, threadVars>>

(***************************************************************************)
(* The threads.  Reading a task, and calling its function: an iteration of *)
(* loop 0 calls For.                                                       *)
(***************************************************************************)
Run(t, task) ==
    /\ tasks' = tasks \ {task}
    /\ running' = [running EXCEPT ![t] = task]
    /\ calls' = [calls EXCEPT ![task] = @ + 1]
    /\ caller' = IF task.loop = 0 THEN [caller EXCEPT ![task.iter] = "call"] ELSE caller
    /\ NotifyAll
    /\ UNCHANGED thread

Leave(t) ==
    /\ thread' = [thread EXCEPT ![t] = "gone"]
    /\ UNCHANGED <<tasks, running, calls, caller, waiting>>

Sleep(t) ==
    /\ Wait(t)
    /\ UNCHANGED <<tasks, caller, threadVars>>

\* The first task of the highest priority.
Highest ==
    {t \in tasks : \A u \in tasks : \/ priority[u.loop] < priority[t.loop]
                                    \/ u.loop = t.loop /\ u.iter >= t.iter}

CanRead(t) == thread[t] = "loop" /\ running[t] = Idle /\ t \notin waiting

ReadHighestPriority(t) ==
    /\ t \in Workers /\ CanRead(t)
    /\ \/ \E task \in Highest : Run(t, task)
       \/ tasks = {} /\ is_stopped /\ Leave(t)
       \/ tasks = {} /\ ~is_stopped /\ Sleep(t)
    /\ UNCHANGED <<poolVars, priority, start, progress>>

\* Leaves when no task of the loop is queued, although some may still run.
MutantReadSpecificPriority(l) ==
    LET own == {t \in tasks : t.loop = l}
    IN  /\ CanRead(Local(l))
        /\ \/ \E task \in own : Run(Local(l), task)
           \/ own = {} /\ start[l] > Size(l) /\ Leave(Local(l))
           \/ own = {} /\ start[l] <= Size(l) /\ Sleep(Local(l))
        /\ UNCHANGED <<poolVars, priority, start, progress>>

\* multimap::find may give any task of the priority.
ReadSpecificPriority(l) ==
    LET own == {t \in tasks : t.loop = l}
    IN  /\ CanRead(Local(l))
        /\ \/ \E task \in own : Run(Local(l), task)
           \/ own = {} /\ (is_stopped \/ progress[l] = 0) /\ Leave(Local(l))
           \/ own = {} /\ ~is_stopped /\ progress[l] > 0 /\ Sleep(Local(l))
        /\ UNCHANGED <<poolVars, priority, start, progress>>

Returns(task) == task.loop = 0 => caller[task.iter] = "returned"

\* Wakes nobody: whoever has read progress > 0 keeps waiting.
MutantEndTask(t) ==
    /\ running[t] # Idle /\ Returns(running[t])
    /\ progress' = [progress EXCEPT ![running[t].loop] = @ - 1]
    /\ running' = [running EXCEPT ![t] = Idle]
    /\ UNCHANGED <<poolVars, tasks, waiting, caller, priority, start, thread, calls>>

\* The function returns, and the thread decreases the progress counter.
EndTask(t) ==
    /\ running[t] # Idle /\ Returns(running[t])
    /\ progress' = [progress EXCEPT ![running[t].loop] = @ - 1]
    /\ running' = [running EXCEPT ![t] = Idle]
    /\ NotifyAll
    /\ UNCHANGED <<poolVars, tasks, caller, priority, start, thread, calls>>

(***************************************************************************)
(* The destructor: after the loops, it stops the workers and joins them.   *)
(***************************************************************************)
Stop ==
    /\ caller[0] = "returned" /\ ~is_stopped
    /\ is_stopped' = TRUE
    /\ NotifyAll
    /\ UNCHANGED <<n_threads, next_priority, tasks, caller, priority, start, progress, threadVars>>

Next ==
    \/ \E l \in Loops : For(l) \/ Write(l) \/ Join(l) \/ ReadSpecificPriority(l)
    \/ \E t \in Threads : ReadHighestPriority(t) \/ EndTask(t)
    \/ Stop

\* A thread that can run does so: no more is assumed of the scheduler than
\* that the threads together do not stop.
Spec == Init /\ [][Next]_vars /\ WF_vars(Next)
-----------------------------------------------------------------------------

\* ForWaits: no iteration is called twice, and when For has returned, each of
\* its iterations was called and has ended: the function and the progress
\* counter, which live on the caller's stack, are not used any more.
ForWaits ==
    \A task \in Task :
        /\ calls[task] <= 1
        /\ caller[task.loop] = "returned" =>
              /\ calls[task] = 1
              /\ task \notin tasks
              /\ \A t \in Threads : running[t] # task

\* The thread number that the function is called with.
MutantThreadId(t) == IF t \in Locals THEN 0 ELSE t[2] - 1

ThreadId(t) == IF t \in Locals THEN 0 ELSE t[2]

\* ThreadIdsAreExclusive: two iterations of one loop that run at the same time
\* have different thread numbers, all below NThreads(): OnePredict sums the
\* sources of a direction into one buffer per thread number, without a lock.
ThreadIdsAreExclusive ==
    \A t, u \in Threads :
        (t # u /\ Idle \notin {running[t], running[u]} /\ running[t].loop = running[u].loop)
        => /\ ThreadId(t) # ThreadId(u)
           /\ ThreadId(t) < n_threads

\* Nested loops do not wait for each other for ever, no wake-up is missed, and
\* the workers can be joined.
Terminates == <>(is_stopped /\ \A t \in Workers : thread[t] = "gone")

-----------------------------------------------------------------------------
(***************************************************************************)
(* aocommon::ParallelFor and its Barrier: a loop object whose threads are  *)
(* started by the first Run() and kept for later ones.  Thread 0 is the    *)
(* one that calls Run().  LoopThreads ask for iterations one by one, and meet  *)
(* at the barrier when there are none left.  Waiting for a condition is a  *)
(* guard: each change of it notifies all waiters while the mutex is held.  *)
(***************************************************************************)

CONSTANTS
    ThreadCounts,   \* NThreads()
    LoopSizes,      \* the iterations of a Run()
    NRuns           \* bound: calls of Run()

ASSUME LoopAssumption ==
    /\ ThreadCounts \subseteq Nat \ {0}
    /\ LoopSizes \subseteq Nat

VARIABLES
    settings,   \* the number of threads
    loop        \* the object, where each thread is, and which calls were made

parVars == <<settings, loop>>

LoopThreads == 0 .. settings.n_threads - 1
LoopWorkers == LoopThreads \ {0}

ParInit ==
    \E n \in ThreadCounts :
        /\ settings = [n_threads |-> n]
        /\ loop = [current |-> 0, end |-> 0, has_tasks |-> FALSE, stop |-> FALSE,
                   count |-> n, cycle |-> 0, runs |-> 0, calls |-> <<>>,
                   pc |-> [t \in 0 .. n - 1 |-> IF t = 0 THEN "outside" ELSE "none"],
                   seen |-> [t \in 0 .. n - 1 |-> 0]]

At(t, here) == t \in DOMAIN loop.pc /\ loop.pc[t] = here
Started == \E t \in LoopWorkers : loop.pc[t] # "none"

\* Run() with one iteration or one thread: the caller makes all calls.
RunAlone(size) ==
    loop' = [loop EXCEPT !.runs = @ + 1, !.calls = [i \in 0 .. size - 1 |-> 1]]

\* startThreads() in the first one, then the tasks are set and the workers notified.
RunTogether(size) ==
    loop' = [loop EXCEPT
        !.runs = @ + 1, !.calls = [i \in 0 .. size - 1 |-> 0],
        !.current = 0, !.end = size, !.has_tasks = TRUE,
        !.pc = [t \in LoopThreads |-> IF t = 0 THEN "loop"
                                  ELSE IF Started THEN loop.pc[t] ELSE "wait"]]

RunLoop ==
    /\ At(0, "outside") /\ loop.runs < NRuns
    /\ \E size \in LoopSizes :
          IF size = 1 \/ settings.n_threads = 1 THEN RunAlone(size) ELSE RunTogether(size)
    /\ UNCHANGED settings

\* next(), and the call of the function.
NextIteration(t) ==
    /\ At(t, "loop")
    /\ loop' = IF loop.current = loop.end THEN [loop EXCEPT !.pc[t] = "barrier"]
               ELSE [loop EXCEPT !.current = @ + 1, !.calls[loop.current] = @ + 1,
                                 !.pc[t] = "call"]
    /\ UNCHANGED settings

EndCall(t) ==
    /\ At(t, "call")
    /\ loop' = [loop EXCEPT !.pc[t] = "loop"]
    /\ UNCHANGED settings

AfterBarrier(t) == IF t = 0 THEN "outside" ELSE "wait"

\* Faulty variant: without the completion function of the loop.
MutantRelease(t) ==
    [loop EXCEPT !.cycle = @ + 1, !.count = settings.n_threads,
                 !.pc[t] = AfterBarrier(t)]

\* The last thread at the barrier starts a new cycle; there are no tasks left.
Release(t) ==
    [loop EXCEPT !.cycle = @ + 1, !.count = settings.n_threads, !.has_tasks = FALSE,
                 !.pc[t] = AfterBarrier(t)]

ArriveAtBarrier(t) ==
    /\ At(t, "barrier")
    /\ loop' = IF loop.count = 1 THEN Release(t)
               ELSE [loop EXCEPT !.count = @ - 1, !.seen[t] = loop.cycle, !.pc[t] = "held"]
    /\ UNCHANGED settings

LeaveBarrier(t) ==
    /\ At(t, "held") /\ loop.cycle # loop.seen[t]
    /\ loop' = [loop EXCEPT !.pc[t] = AfterBarrier(t)]
    /\ UNCHANGED settings

\* Between the return of waitForTasks() and the test of _stop, it may change.
WaitForTasks(t) ==
    /\ At(t, "wait") /\ loop.has_tasks
    /\ loop' = [loop EXCEPT !.pc[t] = "awake"]
    /\ UNCHANGED settings

TestStop(t) ==
    /\ At(t, "awake")
    /\ loop' = [loop EXCEPT !.pc[t] = IF loop.stop THEN "gone" ELSE "loop"]
    /\ UNCHANGED settings

\* The destructor, and its joins.
Destroy ==
    /\ At(0, "outside")
    /\ loop' = IF Started THEN [loop EXCEPT !.stop = TRUE, !.has_tasks = TRUE, !.pc[0] = "join"]
               ELSE [loop EXCEPT !.pc[0] = "gone"]
    /\ UNCHANGED settings

JoinThreads ==
    /\ At(0, "join") /\ \A t \in LoopWorkers : At(t, "gone")
    /\ loop' = [loop EXCEPT !.pc[0] = "gone"]
    /\ UNCHANGED settings

ParNext ==
    \/ RunLoop \/ Destroy \/ JoinThreads
    \/ \E t \in LoopThreads : \/ NextIteration(t) \/ EndCall(t) \/ ArriveAtBarrier(t) \/ LeaveBarrier(t)
                          \/ WaitForTasks(t) \/ TestStop(t)

ParSpec == ParInit /\ [][ParNext]_parVars

-----------------------------------------------------------------------------
\* Something that a thread waits for has happened, or will without it.
CanContinue(t) ==
    \/ loop.pc[t] \in {"outside", "loop", "call", "barrier", "awake"}
    \/ loop.pc[t] = "held" /\ loop.cycle # loop.seen[t]
    \/ loop.pc[t] = "wait" /\ loop.has_tasks

(* When Run() returns, each of its iterations was called once and has ended,  *)
(* so that no thread still uses the function or the variables it refers to;   *)
(* no thread misses a run or takes part in it twice, and all can be joined:   *)
(* threads never wait for each other for ever (parallelfor.h:62).             *)
LoopsAreDone ==
    /\ At(0, "outside") =>
          /\ \A i \in DOMAIN loop.calls : loop.calls[i] = 1
          /\ \A t \in LoopWorkers : loop.pc[t] \in {"none", "held", "wait"}
    /\ loop.pc[0] # "gone" =>
          \/ \E t \in LoopThreads : CanContinue(t)
          \/ loop.pc[0] = "join" /\ \A t \in LoopWorkers : loop.pc[t] = "gone"
=============================================================================
