----------------------------- MODULE SolverLoop -----------------------------
(***************************************************************************)
(* The iterations of the direction dependent solvers                       *)
(* (ddecal/gain_solvers): the loop of ScalarSolver::Solve, which the other *)
(* solvers repeat, with a constraint that has an approximate stage         *)
(* (ApproximateTECConstraint), and HybridSolver, which runs one solver     *)
(* after the other.  A solver object solves several intervals.  How far    *)
(* the solutions moved in an iteration is any choice.                      *)
(***************************************************************************)
EXTENDS Integers, Sequences

CONSTANTS
    MaxIterations,       \* setting maxiter
    MaxApproxIterations, \* setting maxapproxiter
    NIntervals           \* bound: intervals that are solved

VARIABLES
    settings,   \* what the solvers were created with
    solve       \* the state of the solvers and of the current Solve()

loopVars == <<settings, solve>>

Largest(a, b) == IF a < b THEN b ELSE a
Smallest(a, b) == IF a < b THEN a ELSE b

\* CreateSolver: the maxima of the solvers that run in turn.
SolverMaxima(max, hybrid) == IF hybrid THEN <<Largest(1, max \div 6), max>> ELSE <<max>>

\* The constraint of each solver keeps its stage between intervals.
Fresh(approximate_done, interval) ==
    [pc |-> "solver", interval |-> interval, at |-> 1, finished_approximate |-> approximate_done,
     max |-> 0, available |-> settings.max, iteration |-> 0, converged |-> FALSE,
     previously |-> FALSE, satisfied |-> FALSE, even |-> 0, iterations |-> 0,
     constraint_iterations |-> 0, constrained |-> 0,
     done |-> 0, exact |-> 0, unsatisfied |-> 0, stalled |-> FALSE]

LoopInit ==
    \E max \in MaxIterations, hybrid, approximate, stall \in BOOLEAN, m \in MaxApproxIterations :
        /\ settings = [max |-> max, maxima |-> SolverMaxima(max, hybrid), hybrid |-> hybrid,
                       approximate |-> approximate, max_approx |-> m, detect_stalling |-> stall]
        /\ solve = Fresh([s \in DOMAIN SolverMaxima(max, hybrid) |-> FALSE], 1)

\* ApproximateTECConstraint::PrepareIteration; other constraints have no stages.
PrepareIteration(precise, iteration, final) ==
    precise \/ final \/ iteration >= settings.max_approx

Satisfied == settings.approximate => solve.finished_approximate[solve.at]

\* HybridSolver::RunSolver up to Solve(), whose first call is PrepareConstraints().
StartSolver ==
    /\ solve.pc = "solver"
    /\ solve' = [solve EXCEPT
          !.pc = "iterate",
          !.max = Smallest(settings.maxima[solve.at], solve.available),
          !.finished_approximate[solve.at] = PrepareIteration(FALSE, 0, FALSE),
          !.iteration = 0, !.converged = FALSE, !.previously = FALSE, !.satisfied = FALSE,
          !.even = 0, !.constrained = 0, !.exact = 0, !.unsatisfied = 0, !.stalled = FALSE]
    /\ UNCHANGED settings

\* Faulty variant: what PrepareIteration() changes is seen too early.
MutantConstraintsSatisfied(prepared) == settings.approximate => prepared

\* ApplyConstraints: Satisfied() is evaluated before PrepareIteration().
ConstraintsSatisfied(prepared) == Satisfied

\* AssignSolutions: within is the set of accuracies that the movement is below.
HasConverged(within, satisfied) ==
    (IF satisfied THEN "accuracy" ELSE "constraint_accuracy") \in within

\* DetectStall: the last two changes of the movement were small.
DetectStall(iteration, even) == iteration >= 30 /\ even >= 2

ReachedStoppingCriterion(iteration, converged, satisfied, stalled) ==
    iteration >= solve.max \/ (converged /\ satisfied) \/ stalled

Iterate ==
    /\ solve.pc = "iterate"
    /\ \E within \in SUBSET {"accuracy", "constraint_accuracy"}, same \in BOOLEAN :
        LET prepared == PrepareIteration(solve.previously, solve.iteration,
                                         solve.iteration + 1 >= solve.max)
            satisfied == ConstraintsSatisfied(prepared)
            converged == HasConverged(within, satisfied)
            iteration == solve.iteration + 1
            even == IF same THEN Smallest(2, solve.even + 1) ELSE 0
            stalled == settings.detect_stalling /\ satisfied /\ DetectStall(iteration, even)
        IN  solve' = [solve EXCEPT
                !.finished_approximate[solve.at] = prepared,
                !.satisfied = satisfied,
                !.constrained = IF satisfied THEN @ ELSE iteration,
                !.converged = converged,
                !.iteration = iteration,
                !.even = even,
                !.previously = converged \/ @,
                !.stalled = stalled,
                !.pc = IF ReachedStoppingCriterion(iteration, converged, satisfied, stalled)
                       THEN "end" ELSE "iterate",
                !.done = @ + 1,
                !.exact = @ + IF prepared THEN 1 ELSE 0,
                !.unsatisfied = @ + IF satisfied THEN 0 ELSE 1]
    /\ UNCHANGED settings

\* The end of ScalarSolver::Solve.
NIterations ==
    IF solve.converged /\ solve.satisfied THEN solve.iteration ELSE solve.iteration + 1

IsConverged == NIterations <= solve.max

\* RunSolver takes the iterations so far off, those of earlier solvers again.
Available ==
    solve.available -
        (IF IsConverged THEN solve.iterations + NIterations ELSE solve.max)

\* HybridSolver::RunSolver after Solve(), and the loop of HybridSolver::Solve.
EndSolver ==
    /\ solve.pc = "end"
    /\ solve' = [solve EXCEPT
          !.available = Available,
          !.iterations =
              IF settings.hybrid /\ solve.at = 2 /\ ~IsConverged THEN settings.max + 1
              ELSE @ + NIterations,
          !.constraint_iterations = @ + solve.constrained,
          !.at = IF solve.at < Len(settings.maxima) THEN @ + 1 ELSE @,
          !.pc = IF solve.at < Len(settings.maxima) THEN "solver" ELSE "solved"]
    /\ UNCHANGED settings

NextInterval ==
    /\ solve.pc = "solved" /\ solve.interval < NIntervals
    /\ solve' = Fresh(solve.finished_approximate, solve.interval + 1)
    /\ UNCHANGED settings

LoopNext == StartSolver \/ Iterate \/ EndSolver \/ NextInterval

LoopSpec == LoopInit /\ [][LoopNext]_loopVars

-----------------------------------------------------------------------------
\* DDECal::doSolve: the solutions are taken for unconverged.
TakenForUnconverged == solve.iterations > settings.max

(* Solutions of the approximate stage are never the result: the last         *)
(* iteration of each solver is an exact one, and so is the one before it     *)
(* unless the maximum was reached ("performs at least one more iteration     *)
(* after Satisfied()=true", Constraint.h:66), also in a later interval.      *)
SolutionsAreExact ==
    solve.pc = "end" /\ settings.approximate =>
        /\ solve.exact >= 1
        /\ settings.max_approx > 0 /\ solve.iteration < solve.max => solve.exact >= 2
        /\ solve.constrained = solve.unsatisfied

(* Together the solvers keep to the maximum number of iterations, and that   *)
(* the number is larger tells unconverged solutions from converged ones      *)
(* (DDECal.cc:645), but for a hybrid solver that needs its very last         *)
(* iteration.  Stalled solutions pass for converged ones.                    *)
IterationsTellConvergence ==
    solve.pc = "solved" =>
        LET ok == solve.converged /\ solve.satisfied
        IN  /\ solve.done <= Largest(settings.max, Len(settings.maxima))
            /\ ~TakenForUnconverged => ok \/ solve.stalled
            /\ TakenForUnconverged /\ ok => settings.hybrid /\ solve.done >= settings.max
=============================================================================
