----------------------------- MODULE GainSolvers -----------------------------
(***************************************************************************)
(* One iteration of the direction dependent solvers (ddecal/gain_solvers): *)
(* the visibilities of an interval are laid out per channel block          *)
(* (SolveData) and every antenna is solved from the current solutions of   *)
(* the others, with a system of equations over the directions (ScalarSolver*)
(* and the other direct solvers) or direction by direction                 *)
(* (IterativeScalarSolver and the other iterative solvers).  Numbers are   *)
(* complex with integer parts; data are models with the true solutions     *)
(* applied, and the least squares solver (external) is given by the        *)
(* equations that it solves.                                               *)
(***************************************************************************)
EXTENDS Integers, Sequences, SequencesExt, FiniteSetsExt, TLC

CONSTANTS
    Problems   \* [rows, nblocks, nantennas, ntimes, solutions]; see InSolveData

VARIABLES config, step

Add(x, y) == <<x[1] + y[1], x[2] + y[2]>>
Negative(x) == <<-x[1], -x[2]>>
Mul(x, y) == <<(x[1] * y[1]) - (x[2] * y[2]), (x[1] * y[2]) + (x[2] * y[1])>>
Conj(x) == <<x[1], -x[2]>>
Norm(x) == (x[1] * x[1]) + (x[2] * x[2])
Zero == <<0, 0>>
One == <<1, 0>>
SumOf(f(_), n) == FoldSeq(Add, Zero, [i \in 1 .. n |-> f(i)])

\* Matrices [ XX XY / YX YY ].
Matrix(f(_, _)) == [i \in 1 .. 2 |-> [j \in 1 .. 2 |-> f(i, j)]]
Plus(A, B) == Matrix(LAMBDA i, j : Add(A[i][j], B[i][j]))
Minus(A, B) == Matrix(LAMBDA i, j : Add(A[i][j], Negative(B[i][j])))
Times(A, B) == Matrix(LAMBDA i, j : Add(Mul(A[i][1], B[1][j]), Mul(A[i][2], B[2][j])))
Herm(A) == Matrix(LAMBDA i, j : Conj(A[j][i]))
ZeroMatrix == Matrix(LAMBDA i, j : Zero)
MatrixSum(s) == FoldSeq(Plus, ZeroMatrix, s)
Diagonal(x, y) == <<<<x, Zero>>, <<Zero, y>>>>

Solvers == {"scalar", "diagonal", "fulljones", "iterative_scalar", "iterative_diagonal",
            "iterative_fulljones"}
Kind == CASE config.solver \in {"scalar", "iterative_scalar"} -> "scalar"
          [] config.solver \in {"diagonal", "iterative_diagonal"} -> "diagonal"
          [] OTHER -> "fulljones"

NDirections == Len(config.solutions)
SumTo(s, n) == FoldSeq(LAMBDA x, y : x + y, 0, SubSeq(s, 1, n))
TotalSolutions == SumTo(config.solutions, NDirections)

-----------------------------------------------------------------------------
\* The interval.  A row is a time slot of a baseline; rows of BDA data may have
\* fewer channels than others, and a rank among the slots of their own.

\* The solutions per direction that fit in the slots there are.
SolutionsPerDirection ==
    [d \in DOMAIN config.solutions |->
        IF config.solutions[d] < config.ntimes THEN config.solutions[d] ELSE config.ntimes]

\* Faulty variant: a direction starts after the directions, not their solutions.
MutantSolutionIndex(d, t) == ((t * SolutionsPerDirection[d]) \div config.ntimes) + (d - 1)
\* The index counts through the solutions of all directions.
SolutionIndex(d, t) ==
    ((t * SolutionsPerDirection[d]) \div config.ntimes) + SumTo(SolutionsPerDirection, d - 1)

Indices(d) == SumTo(config.solutions, d - 1) .. (SumTo(config.solutions, d) - 1)

\* Made up values: the solution of an antenna, and the model of a visibility.
TrueSolution(ant, s) ==
    LET x == <<1 + ((ant + s) % 3), (ant + (2 * s)) % 2>>
        y == <<1 + ((ant * s) % 2), (ant % 3) - 1>>
    IN  CASE Kind = "scalar" -> Diagonal(x, x)
          [] Kind = "diagonal" -> Diagonal(x, y)
          [] OTHER -> <<<<x, <<s % 2, 1>>>>, <<<<0, ant % 2>>, y>>>>
ModelOf(d, r, c) ==
    Matrix(LAMBDA i, j : <<((d * (i + r)) + (c * j)) % 3, (r + (c * d) + (2 * i) + j) % 2>>)

Truth == [ant \in 0 .. config.nantennas - 1 |-> [s \in 0 .. TotalSolutions - 1 |-> TrueSolution(ant, s)]]

\* A visibility of SolveData: what it holds per direction is model and solution.
Visibility(r, c) ==
    LET row == config.rows[r]
        solution == [d \in 1 .. NDirections |-> SolutionIndex(d, row.time)]
        model == [d \in 1 .. NDirections |-> ModelOf(d, r, c)]
    IN  [antenna1 |-> row.antennas[1], antenna2 |-> row.antennas[2],
         model |-> model, solution |-> solution,
         data |-> MatrixSum([d \in 1 .. NDirections |->
             LET at == row.time * config.solutions[d]
                 true == (at \div config.ntimes) + SumTo(config.solutions, d - 1)
             IN  Times(Times(Truth[row.antennas[1]][true], model[d]),
                       Herm(Truth[row.antennas[2]][true]))])]

\* SolveData: the channels of a block of a row; autocorrelations are left out.
Channels(block, nchan) == ((block * nchan) \div config.nblocks) .. ((((block + 1) * nchan) \div config.nblocks) - 1)
RowVisibilities(r, block) ==
    LET row == config.rows[r]
        first == (block * row.nchan) \div config.nblocks
    IN  [c \in 1 .. Cardinality(Channels(block, row.nchan)) |-> Visibility(r, first + c - 1)]
SolveData(block) ==
    FoldSeq(LAMBDA r, all : IF config.rows[r].antennas[1] = config.rows[r].antennas[2] THEN all
                            ELSE RowVisibilities(r, block) \o all,
            <<>>, [r \in DOMAIN config.rows |-> r])

-----------------------------------------------------------------------------
\* The direct solvers: rows of the system of an antenna; coefficients over the
\* directions of one element of the solution (or, for full Jones matrices, of a
\* row of its conjugate), and the value that they have to add up to.
Equation(coefficients, value) == [coefficients |-> coefficients, value |-> value]
PerDirection(f(_)) == [d \in 1 .. NDirections |-> f(d)]

\* Faulty variant: the model of the second antenna is not conjugated.
MutantScalarEquations(vis, solutions, ant) ==
    LET S(a, d) == solutions[a][vis.solution[d]][1][1]
        M(d, p, q) == vis.model[d][p][q]
    IN  {IF ant = vis.antenna1
         THEN Equation(PerDirection(LAMBDA d : Mul(Conj(S(vis.antenna2, d)), M(d, e[1], e[2]))),
                       vis.data[e[1]][e[2]])
         ELSE Equation(PerDirection(LAMBDA d : Mul(Conj(S(vis.antenna1, d)), M(d, e[1], e[2]))),
                       Conj(vis.data[e[1]][e[2]])) : e \in {1, 2} \X {1, 2}}
\* ScalarSolver: the four correlations of the visibilities of the antenna.
ScalarEquations(vis, solutions, ant) ==
    LET S(a, d) == solutions[a][vis.solution[d]][1][1]
        M(d, p, q) == vis.model[d][p][q]
    IN  {IF ant = vis.antenna1
         THEN Equation(PerDirection(LAMBDA d : Mul(Conj(S(vis.antenna2, d)), M(d, e[1], e[2]))),
                       vis.data[e[1]][e[2]])
         ELSE Equation(PerDirection(LAMBDA d : Conj(Mul(S(vis.antenna1, d), M(d, e[1], e[2])))),
                       Conj(vis.data[e[1]][e[2]])) : e \in {1, 2} \X {1, 2}}

\* DiagonalSolver: of one polarization of the antenna.
DiagonalEquations(vis, solutions, ant, pol) ==
    LET S(a, d, p) == solutions[a][vis.solution[d]][p][p]
        M(d, p, q) == vis.model[d][p][q]
    IN  IF ant = vis.antenna1
        THEN {Equation(PerDirection(LAMBDA d : Mul(Conj(S(vis.antenna2, d, q)), M(d, pol, q))),
                       vis.data[pol][q]) : q \in {1, 2}}
        ELSE {Equation(PerDirection(LAMBDA d : Conj(Mul(S(vis.antenna1, d, q), M(d, q, pol)))),
                       Conj(vis.data[q][pol])) : q \in {1, 2}}

\* FullJonesSolver: J1 M J2^H = V solves the second, J2 M^H J1^H = V^H the first antenna.
FullJonesEquation(vis, solutions, ant) ==
    IF ant = vis.antenna1
    THEN Equation(PerDirection(LAMBDA d :
             Times(solutions[vis.antenna2][vis.solution[d]], Herm(vis.model[d]))), Herm(vis.data))
    ELSE Equation(PerDirection(LAMBDA d :
             Times(solutions[vis.antenna1][vis.solution[d]], vis.model[d])), vis.data)

\* The system of an antenna: equations, with the element of the solution they are for.
System(data, solutions, ant) ==
    LET mine == {v \in DOMAIN data : ant \in {data[v].antenna1, data[v].antenna2}}
    IN  UNION {CASE Kind = "scalar" ->
                      {<<1, data[v].solution, e>> : e \in ScalarEquations(data[v], solutions, ant)}
                 [] Kind = "diagonal" ->
                      UNION {{<<p, data[v].solution, e>> :
                                 e \in DiagonalEquations(data[v], solutions, ant, p)} : p \in {1, 2}}
                 [] OTHER -> {<<0, data[v].solution, FullJonesEquation(data[v], solutions, ant)>>}
               : v \in mine}

-----------------------------------------------------------------------------
\* The iterative solvers.

\* AddOrSubtractDirection: the model of a direction with its solutions.
Term(vis, d, solutions) ==
    Times(Times(solutions[vis.antenna1][vis.solution[d]], vis.model[d]),
          Herm(solutions[vis.antenna2][vis.solution[d]]))

\* Faulty variant: the directions before this one are not subtracted again.
MutantResidual(vis, d, solutions) ==
    Plus(Minus(vis.data, MatrixSum([e \in d .. NDirections |-> Term(vis, e, solutions)])), Term(vis, d, solutions))
\* PerformIteration: all directions are subtracted, this one is added back.
Residual(vis, d, solutions) ==
    Plus(Minus(vis.data, MatrixSum(PerDirection(LAMBDA e : Term(vis, e, solutions)))),
         Term(vis, d, solutions))

\* SolveDirection: what a visibility adds for an antenna.
Contribution(vis, d, solutions, ant) ==
    LET residual == Residual(vis, d, solutions)
        first == ant = vis.antenna1
        corrected == IF first THEN Times(solutions[vis.antenna2][vis.solution[d]], Herm(vis.model[d]))
                     ELSE Times(solutions[vis.antenna1][vis.solution[d]], vis.model[d])
    IN  [numerator |-> Times(IF first THEN residual ELSE Herm(residual), corrected),
         corrected |-> corrected]

Column(A, p) == Norm(A[1][p]) + Norm(A[2][p])
Real(n) == <<n, 0>>
Over(x, n) == IF n = 0 THEN <<"NaN">> ELSE <<x[1] \div n, x[2] \div n>>
TraceOf(A) == Add(A[1][1], A[2][2])
Determinant(A) == Add(Mul(A[1][1], A[2][2]), Negative(Mul(A[1][2], A[2][1])))
Adjugate(A) == <<<<A[2][2], Negative(A[1][2])>>, <<Negative(A[2][1]), A[1][1]>>>>

Sums(all) ==
    [numerator |-> MatrixSum([v \in DOMAIN all |-> all[v].numerator]),
     squares |-> MatrixSum([v \in DOMAIN all |-> Times(Herm(all[v].corrected), all[v].corrected)]),
     weights |-> [p \in {1, 2} |->
         FoldSeq(LAMBDA x, y : x + y, 0, [v \in DOMAIN all |-> Column(all[v].corrected, p)])]]

SolvedScalar(sums) ==
    LET x == Over(TraceOf(sums.numerator), sums.weights[1] + sums.weights[2]) IN Diagonal(x, x)
SolvedDiagonal(sums) ==
    Diagonal(Over(sums.numerator[1][1], sums.weights[1]), Over(sums.numerator[2][2], sums.weights[2]))
SolvedFullJones(sums) ==
    LET unscaled == Times(sums.numerator, Adjugate(sums.squares))
    IN  Matrix(LAMBDA i, j : Over(unscaled[i][j], Determinant(sums.squares)[1]))

\* The new solution with index s of a direction from the visibilities it covers.
Solved(data, d, solutions, ant, s) ==
    LET mine == SelectSeq(data, LAMBDA v : v.solution[d] = s /\ ant \in {v.antenna1, v.antenna2})
        sums == Sums([v \in DOMAIN mine |-> Contribution(mine[v], d, solutions, ant)])
    IN  CASE Kind = "scalar" -> SolvedScalar(sums)
          [] Kind = "diagonal" -> SolvedDiagonal(sums)
          [] OTHER -> SolvedFullJones(sums)

-----------------------------------------------------------------------------
SolversInit ==
    \E problem \in Problems, solver \in Solvers :
        /\ config = problem @@ [solver |-> solver]
        /\ solver \in {"scalar", "diagonal", "fulljones"} =>
              \A d \in DOMAIN problem.solutions : problem.solutions[d] = 1
        /\ step = [pc |-> "buffer"]

\* The solver is given the data of the interval; no channel block is empty.
Collect ==
    /\ step.pc = "buffer"
    /\ step' = [pc |-> "data", data |-> [b \in 0 .. config.nblocks - 1 |-> SolveData(b)]]
    /\ \A b \in DOMAIN step'.data : step'.data[b] # <<>>
    /\ UNCHANGED config

\* What an antenna has before the iteration, all the others have their true solutions.
Guess == Diagonal(<<2, 1>>, <<2, 1>>)
IsIterative == config.solver \notin {"scalar", "diagonal", "fulljones"}

IterateDirectly ==
    /\ step.pc = "data" /\ ~IsIterative
    /\ \E ant \in 0 .. config.nantennas - 1 :
        LET solutions == [Truth EXCEPT ![ant] = [s \in DOMAIN @ |-> Guess]]
        IN  step' = [pc |-> "system", ant |-> ant,
                     systems |-> [b \in DOMAIN step.data |-> System(step.data[b], solutions, ant)]]
    /\ UNCHANGED config

Iterate ==
    /\ step.pc = "data" /\ IsIterative
    /\ \E ant \in 0 .. config.nantennas - 1, d \in 1 .. NDirections :
        LET solutions == [Truth EXCEPT ![ant] = [s \in DOMAIN @ |-> IF s \in Indices(d) THEN Guess ELSE @[s]]]
        IN  step' = [pc |-> "solved", ant |-> ant, data |-> step.data, next |->
                        [b \in DOMAIN step.data |->
                            [s \in Indices(d) |-> Solved(step.data[b], d, solutions, ant, s)]]]
    /\ UNCHANGED config

SolversNext == Collect \/ IterateDirectly \/ Iterate

-----------------------------------------------------------------------------
\* SolutionResampler: the number of times per interval that solutions are written for.
NSubsteps ==
    IF \A d \in DOMAIN config.solutions : Max(Range(config.solutions)) % config.solutions[d] = 0
    THEN Max(Range(config.solutions)) ELSE config.ntimes
MapResampledToOriginal(time, d) ==
    <<time \div NSubsteps,
      SumTo(config.solutions, d - 1) + ((time % NSubsteps) \div (NSubsteps \div config.solutions[d]))>>

\* What is written of the solutions of intervals: a value per substep and direction.
Upsample(solutions) ==
    [time \in 0 .. (Len(solutions) * NSubsteps) - 1 |->
        PerDirection(LAMBDA d : LET at == MapResampledToOriginal(time, d)
                                IN  solutions[at[1] + 1][at[2]])]

(* When the other antennas have their true solutions, an antenna gets its    *)
(* own in one iteration, of every kind of solver, whatever it had before,    *)
(* per channel block, direction and solution in the interval.  And each      *)
(* solution is written for the time slots that it was solved from.           *)
TrueSolutionsAreFound ==
    /\ step.pc = "system" =>
          \A b \in DOMAIN step.systems : \A eq \in step.systems[b] :
              LET x == [d \in 1 .. NDirections |-> Truth[step.ant][eq[2][d]]]
                  e == eq[3]
              IN  IF eq[1] = 0
                  THEN MatrixSum(PerDirection(LAMBDA d : Times(e.coefficients[d], Herm(x[d])))) = e.value
                  ELSE SumOf(LAMBDA d : Mul(e.coefficients[d], x[d][eq[1]][eq[1]]), NDirections) = e.value
    /\ step.pc = "solved" =>
          \A b \in DOMAIN step.next : \A s \in DOMAIN step.next[b] : \A i, j \in {1, 2} :
              step.next[b][s][i][j] \in {Truth[step.ant][s][i][j], <<"NaN">>}
    /\ step.pc = "buffer" =>
          LET names == [k \in 1 .. 2 |-> [s \in 0 .. TotalSolutions - 1 |-> <<k, s>>]]
              written == Upsample(names)
          IN  \A d \in 1 .. NDirections, t \in 0 .. config.ntimes - 1, k \in 1 .. 2 :
                  written[((k - 1) * NSubsteps) + ((t * NSubsteps) \div config.ntimes)][d]
                      = <<k, SolutionIndex(d, t)>>
=============================================================================
