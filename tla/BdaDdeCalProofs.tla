-------------------------- MODULE BdaDdeCalProofs --------------------------
(***************************************************************************)
(* What BdaDdeCal and the solver buffer below it guarantee.                *)
(***************************************************************************)
EXTENDS BdaDdeCal, FiniteSets, FiniteSetTheorems, SequenceTheorems, WellFoundedInduction, TLAPS

(***************************************************************************)
(* BdaSolverBuffer, for every set of baselines, every solution interval    *)
(* and every input.                                                        *)
(***************************************************************************)

(***************************************************************************)
(* A non-empty finite set of integers has a largest element.  It is the    *)
(* element that the fewest elements reach: strict inclusion is well        *)
(* founded on the finite sets of elements at or above a given one.         *)
(***************************************************************************)
LEMMA FiniteMax ==
  ASSUME NEW S \in SUBSET Int, IsFiniteSet(S), S # {}
  PROVE  \E m \in S : \A k \in S : k <= m
<1> DEFINE above(k) == {x \in S : k <= x}
           U == {above(k) : k \in S}
           R == StrictSubsetOrdering(S)
<1>1. U \subseteq FiniteSubsetsOf(S)
  <2> SUFFICES ASSUME NEW k \in S PROVE above(k) \in FiniteSubsetsOf(S)
    OBVIOUS
  <2>1. above(k) \in SUBSET S OBVIOUS
  <2> HIDE DEF above
  <2>2. IsFiniteSet(above(k)) BY <2>1, FS_Subset
  <2> QED BY <2>1, <2>2 DEF FiniteSubsetsOf
<1>2. U # {} OBVIOUS
<1>3. \E u \in U : \A v \in U : <<v, u>> \notin R
  <2>1. IsWellFoundedOn(R, FiniteSubsetsOf(S)) BY FS_StrictSubsetOrderingWellFounded
  <2> HIDE DEF U, R
  <2> QED BY <1>1, <1>2, <2>1, WFMin
<1>4. PICK m \in S : \A v \in U : <<v, above(m)>> \notin R BY <1>3
<1>5. ASSUME NEW k \in S, ~(k <= m) PROVE FALSE
  <2>0. k \in Int /\ m \in Int OBVIOUS
  <2>1. above(k) \in SUBSET S /\ above(m) \in SUBSET S OBVIOUS
  <2>2. above(k) \subseteq above(m)
    <3> SUFFICES ASSUME NEW x \in S, k <= x PROVE m <= x OBVIOUS
    <3>1. x \in Int OBVIOUS
    <3> QED BY <1>5, <2>0, <3>1
  <2>3. m \in above(m) /\ m \notin above(k) BY <1>5, <2>0
  <2>4. above(k) # above(m) BY <2>3
  <2>5. <<above(k), above(m)>> \in R
    <3> HIDE DEF above
    <3> QED BY <2>1, <2>2, <2>4 DEF StrictSubsetOrdering
  <2>6. above(k) \in U OBVIOUS
  <2> QED BY <1>4, <2>5, <2>6
<1> QED BY <1>5

(***************************************************************************)
(* The same for the smallest element.                                      *)
(***************************************************************************)
LEMMA FiniteMin ==
  ASSUME NEW S \in SUBSET Int, IsFiniteSet(S), S # {}
  PROVE  \E m \in S : \A k \in S : m <= k
<1> DEFINE T == {0 - k : k \in S}
<1>1. T \in SUBSET Int
  <2> SUFFICES ASSUME NEW k \in S PROVE 0 - k \in Int OBVIOUS
  <2> QED OBVIOUS
<1>2. T # {} OBVIOUS
<1>3. IsFiniteSet(T)
  <2> DEFINE f == [k \in S |-> 0 - k]
  <2>1. f \in Surjection(S, T) BY DEF Surjection
  <2> HIDE DEF f, T
  <2> QED BY <2>1, FS_Surjection
<1>4. PICK t \in T : \A v \in T : v <= t
  <2> HIDE DEF T
  <2> QED BY <1>1, <1>2, <1>3, FiniteMax
<1>5. PICK m \in S : t = 0 - m OBVIOUS
<1>6. ASSUME NEW k \in S PROVE m <= k
  <2>1. 0 - k <= 0 - m BY <1>4, <1>5
  <2>2. S \subseteq Int OBVIOUS
  <2>3. k \in Int /\ m \in Int BY <2>2
  <2> HIDE DEF T
  <2> QED BY <2>1, <2>3
<1> QED BY <1>6

(***************************************************************************)
(* The indices of a sequence form a finite set of integers.                *)
(***************************************************************************)
LEMMA IndexSetMax ==
  ASSUME NEW n \in Nat, NEW T \in SUBSET (1 .. n), T # {}
  PROVE  \E m \in T : \A k \in T : k <= m
<1>1. IsFiniteSet(1 .. n) BY FS_Interval
<1>2. IsFiniteSet(T) BY <1>1, FS_Subset
<1>3. T \in SUBSET Int OBVIOUS
<1> QED BY <1>2, <1>3, FiniteMax

LEMMA IndexSetMin ==
  ASSUME NEW n \in Nat, NEW T \in SUBSET (1 .. n), T # {}
  PROVE  \E m \in T : \A k \in T : m <= k
<1>1. IsFiniteSet(1 .. n) BY FS_Interval
<1>2. IsFiniteSet(T) BY <1>1, FS_Subset
<1>3. T \in SUBSET Int OBVIOUS
<1> QED BY <1>2, <1>3, FiniteMin

(***************************************************************************)
(* Integer division by a positive number: the quotient is the largest      *)
(* multiple below, and it is monotone.                                     *)
(***************************************************************************)
LEMMA DivUpper ==
  ASSUME NEW a \in Nat, NEW d \in Nat \ {0}
  PROVE  (a \div d) \in Nat /\ (a \div d) * d <= a
OBVIOUS

LEMMA DivLower ==
  ASSUME NEW a \in Nat, NEW d \in Nat \ {0}, NEW k \in Nat, k * d <= a
  PROVE  k <= a \div d
OBVIOUS

LEMMA DivMonotone ==
  ASSUME NEW a \in Nat, NEW b \in Nat, a <= b, NEW d \in Nat \ {0}
  PROVE  a \div d <= b \div d
<1>1. (a \div d) \in Nat /\ (a \div d) * d <= a BY DivUpper
<1>2. (a \div d) * d <= b BY <1>1
<1> QED BY <1>1, <1>2, DivLower

-----------------------------------------------------------------------------
USE SolIntAssumption

(***************************************************************************)
(* A row's centre is not before the interval of its start.                 *)
(***************************************************************************)
LEMMA CentreNotBeforeStart ==
  ASSUME NEW r \in Row
  PROVE  /\ StartInterval(r) \in Nat /\ CentreInterval(r) \in Nat
         /\ StartInterval(r) <= CentreInterval(r)
<1>1. r.start \in Nat /\ r.len \in Nat BY DEF Row
<1> DEFINE k == r.start \div SolInt
<1>2. k \in Nat /\ k * SolInt <= r.start BY <1>1, DivUpper
<1>3. k * (2 * SolInt) <= 2 * r.start + r.len BY <1>1, <1>2
<1>4. 2 * SolInt \in Nat \ {0} /\ 2 * r.start + r.len \in Nat BY <1>1
<1>5. (2 * r.start + r.len) \div (2 * SolInt) \in Nat BY <1>4, DivUpper
<1>6. k <= (2 * r.start + r.len) \div (2 * SolInt) BY <1>2, <1>3, <1>4, DivLower
<1> QED BY <1>2, <1>5, <1>6 DEF StartInterval, CentreInterval

LEMMA StartIntervalMonotone ==
  ASSUME NEW r \in Row, NEW t \in Nat, t <= r.start
  PROVE  t \div SolInt \in Nat /\ t \div SolInt <= StartInterval(r)
<1>1. r.start \in Nat BY DEF Row
<1> QED BY <1>1, DivUpper, DivMonotone DEF StartInterval

(***************************************************************************)
(* Sequences of rows.                                                      *)
(***************************************************************************)
LEMMA RowsOf ==
  ASSUME NEW rows \in Seq(Row)
  PROVE  /\ DOMAIN rows = 1 .. Len(rows) /\ Len(rows) \in Nat
         /\ \A i \in DOMAIN rows : rows[i] \in Row
         /\ Rng(rows) \subseteq Row
BY DEF Rng

LEMMA LastRowExists ==
  ASSUME NEW rows \in Seq(Row), NEW b \in BaselinesOf(rows)
  PROVE  \E i \in DOMAIN rows : /\ LastRow(rows, b) = rows[i]
                                /\ rows[i].bl = b
                                /\ \A j \in DOMAIN rows : rows[j].bl = b => j <= i
<1> DEFINE T == {i \in DOMAIN rows : rows[i].bl = b}
<1>1. T # {} BY DEF BaselinesOf, Rng
<1>2. T \in SUBSET (1 .. Len(rows)) /\ Len(rows) \in Nat BY RowsOf
<1>3. PICK m \in T : \A k \in T : k <= m
  <2> HIDE DEF T
  <2> QED BY <1>1, <1>2, IndexSetMax
<1> QED BY <1>3 DEF LastRow

(***************************************************************************)
(* Types of the pieces of Accept.                                          *)
(***************************************************************************)
LEMMA RelativeTypes ==
  ASSUME TypeOK, NEW r \in Row
  PROVE  /\ RelativeIndex(r) \in Int /\ RelativeStart(r) \in Int
         /\ RelativeStart(r) <= RelativeIndex(r)
         /\ EndOf(r) \in Nat /\ r.bl \in Baselines /\ r.start \in Nat
         /\ r.start <= EndOf(r)
<1>1. r.start \in Nat /\ r.len \in Nat /\ r.bl \in Baselines BY DEF Row
<1>2. EndOf(r) \in Nat /\ r.start <= EndOf(r) BY <1>1 DEF EndOf
<1>3. current_interval \in Nat BY DEF TypeOK
<1>4. /\ StartInterval(r) \in Nat /\ CentreInterval(r) \in Nat
      /\ StartInterval(r) <= CentreInterval(r)
  BY CentreNotBeforeStart
<1> QED BY <1>1, <1>2, <1>3, <1>4 DEF RelativeIndex, RelativeStart

LEMMA SizeForFits ==
  ASSUME TypeOK, NEW rows \in Seq(Row)
  PROVE  /\ SizeFor(rows) \in Nat
         /\ Len(data_rows) <= SizeFor(rows)
         /\ \A r \in Rng(rows) : RelativeIndex(r) < SizeFor(rows)
<1> DEFINE T == {RelativeIndex(r) + 1 : r \in Rng(rows)}
           S == T \cup {Len(data_rows)}
<1>1. Len(data_rows) \in Nat BY DEF TypeOK
<1>2. \A r \in Rng(rows) : RelativeIndex(r) \in Int BY RowsOf, RelativeTypes
<1>3. S \in SUBSET Int BY <1>1, <1>2
<1>4. IsFiniteSet(S)
  <2> DEFINE f == [i \in DOMAIN rows |-> RelativeIndex(rows[i]) + 1]
  <2>1. IsFiniteSet(DOMAIN rows) BY RowsOf, FS_Interval
  <2>2. f \in Surjection(DOMAIN rows, T) BY DEF Surjection, Rng
  <2>3. IsFiniteSet(T)
    <3> HIDE DEF f, T
    <3> QED BY <2>1, <2>2, FS_Surjection
  <2>4. IsFiniteSet({Len(data_rows)}) BY FS_Singleton
  <2> QED
    <3> HIDE DEF T
    <3> QED BY <2>3, <2>4, FS_Union
<1>5. PICK m \in S : \A k \in S : k <= m
  <2>1. S # {} OBVIOUS
  <2> HIDE DEF S
  <2> QED BY <1>3, <1>4, <2>1, FiniteMax
<1>6. SizeFor(rows) \in S /\ \A k \in S : k <= SizeFor(rows)
  BY <1>5 DEF SizeFor
<1>7. Len(data_rows) <= SizeFor(rows) BY <1>6
<1>8. SizeFor(rows) \in Int BY <1>3, <1>6
<1>9. ASSUME NEW r \in Rng(rows) PROVE RelativeIndex(r) < SizeFor(rows)
  <2>1. RelativeIndex(r) + 1 \in S OBVIOUS
  <2>2. RelativeIndex(r) + 1 <= SizeFor(rows) BY <1>6, <2>1
  <2> HIDE DEF S
  <2> QED BY <1>2, <1>8, <2>2
<1> QED
  <2> HIDE DEF S
  <2> QED BY <1>1, <1>7, <1>8, <1>9

LEMMA AcceptType ==
  ASSUME TypeOK, NEW rows \in Seq(Row), Accept(rows), ordered' \in BOOLEAN
  PROVE  TypeOK'
<1>1. data' \in Seq(Seq(Row)) BY DEF TypeOK, Accept
<1>2. data_rows' \in Seq(SUBSET Row) /\ data_rows' # <<>>
  <2>1. SizeFor(rows) \in Nat /\ Len(data_rows) <= SizeFor(rows) BY SizeForFits
  <2>2. Rng(rows) \subseteq Row BY RowsOf
  <2>3. Len(data_rows) \in Nat /\ Len(data_rows) > 0 BY DEF TypeOK
  <2>4. \A q \in 1 .. SizeFor(rows) : data_rows'[q] \in SUBSET Row
    <3> TAKE q \in 1 .. SizeFor(rows)
    <3>1. (IF q <= Len(data_rows) THEN data_rows[q] ELSE {}) \in SUBSET Row
      BY <2>1, <2>3 DEF TypeOK
    <3> QED BY <2>2, <3>1 DEF Accept
  <2>5. data_rows' = [q \in 1 .. SizeFor(rows) |-> data_rows'[q]] BY DEF Accept
  <2>6. data_rows' \in Seq(SUBSET Row) BY <2>1, <2>4, <2>5, IsASeq
  <2>7. Len(data_rows') = SizeFor(rows) BY <2>1, <2>5
  <2> QED BY <2>1, <2>3, <2>6, <2>7
<1>3. last_complete' \in [Baselines -> Int] /\ appended' \in [Baselines -> Nat]
  <2>1. ASSUME NEW b \in Baselines
        PROVE  last_complete'[b] \in Int /\ appended'[b] \in Nat
    <3>1. CASE b \in BaselinesOf(rows)
      <4>1. LastRow(rows, b) \in Row BY <3>1, LastRowExists, RowsOf
      <4>2. RelativeStart(LastRow(rows, b)) \in Int /\ EndOf(LastRow(rows, b)) \in Nat
        BY <4>1, RelativeTypes
      <4> QED BY <3>1, <4>2 DEF Accept, AppendedAfter
    <3>2. CASE b \notin BaselinesOf(rows) BY <3>2 DEF Accept, AppendedAfter, TypeOK
    <3> QED BY <3>1, <3>2
  <2> QED BY <2>1 DEF Accept, AppendedAfter
<1> QED BY <1>1, <1>2, <1>3 DEF TypeOK, Accept

(***************************************************************************)
(* Released is the length of the longest prefix of fully solved buffers.   *)
(***************************************************************************)
LEMMA ReleasedIsPrefix ==
  ASSUME TypeOK, NEW c \in Nat
  PROVE  /\ Released(c) \in 0 .. Len(data)
         /\ \A i \in 1 .. Released(c) : \A r \in Rng(data[i]) : CentreInterval(r) < c
         /\ Released(c) < Len(data)
              => \E r \in Rng(data[Released(c) + 1]) : CentreInterval(r) >= c
<1> DEFINE T == {i \in 1 .. Len(data) : \E r \in Rng(data[i]) : CentreInterval(r) >= c}
           P(n) == /\ \A i \in 1 .. n : \A r \in Rng(data[i]) : CentreInterval(r) < c
                   /\ n < Len(data) => \E r \in Rng(data[n + 1]) : CentreInterval(r) >= c
<1>1. Len(data) \in Nat BY DEF TypeOK
<1>2. \A i \in 1 .. Len(data) : \A r \in Rng(data[i]) : CentreInterval(r) \in Nat
  <2> TAKE i \in 1 .. Len(data)
  <2>1. data[i] \in Seq(Row) BY DEF TypeOK
  <2> QED BY <2>1, RowsOf, CentreNotBeforeStart
<1>3. \E n \in 0 .. Len(data) : P(n)
  <2>1. CASE T = {} BY <1>1, <1>2, <2>1
  <2>2. CASE T # {}
    <3>1. PICK m \in T : \A k \in T : m <= k
      <4>1. T \in SUBSET (1 .. Len(data)) OBVIOUS
      <4> HIDE DEF T
      <4> QED BY <1>1, <2>2, <4>1, IndexSetMin
    <3>2. m - 1 \in 0 .. Len(data) /\ (m - 1) + 1 = m BY <1>1
    <3>3. \A i \in 1 .. (m - 1) : i \notin T BY <3>1
    <3>4. \A i \in 1 .. (m - 1) : \A r \in Rng(data[i]) : CentreInterval(r) < c
      BY <1>1, <1>2, <3>2, <3>3
    <3> QED BY <3>2, <3>4
  <2> QED BY <2>1, <2>2
<1> QED BY <1>3 DEF Released

(***************************************************************************)
(* Every action keeps the types.                                           *)
(***************************************************************************)
LEMMA InitType == Init => TypeOK
<1> SUFFICES ASSUME Init PROVE TypeOK OBVIOUS
<1>1. <<>> \in Seq(Seq(Row)) OBVIOUS
<1>2. <<{}>> \in Seq(SUBSET Row) /\ <<{}>> # <<>> OBVIOUS
<1> QED BY <1>1, <1>2 DEF Init, TypeOK

LEMMA AdvanceType ==
  ASSUME TypeOK, AdvanceInterval
  PROVE  TypeOK'
<1> DEFINE n == Released(current_interval + 1)
<1>0. current_interval + 1 \in Nat BY DEF TypeOK
<1>1. n \in 0 .. Len(data) BY <1>0, ReleasedIsPrefix
<1> HIDE DEF n
<1>2. data' \in Seq(Seq(Row)) /\ done' \in Seq(Seq(Row))
  <2>1. data' = SubSeq(data, n + 1, Len(data)) /\ done' = done \o SubSeq(data, 1, n)
    BY DEF AdvanceInterval, n
  <2> QED BY <1>1, <2>1 DEF TypeOK
<1>3. data_rows' \in Seq(SUBSET Row) /\ data_rows' # <<>>
  <2>1. CASE Len(data_rows) = 1
    <3>1. data_rows' = <<{}>> BY <2>1 DEF AdvanceInterval, RowsAfterCurrent
    <3>2. <<{}>> \in Seq(SUBSET Row) /\ <<{}>> # <<>> OBVIOUS
    <3> QED BY <3>1, <3>2
  <2>2. CASE Len(data_rows) # 1
    <3>1. data_rows' = Tail(data_rows) BY <2>2 DEF AdvanceInterval, RowsAfterCurrent
    <3>2. data_rows \in Seq(SUBSET Row) /\ data_rows # <<>> BY DEF TypeOK
    <3>3. Len(data_rows) \in Nat /\ Len(data_rows) > 0 BY DEF TypeOK
    <3>4. Tail(data_rows) \in Seq(SUBSET Row) /\ Len(Tail(data_rows)) = Len(data_rows) - 1
      BY <3>2
    <3>5. Len(Tail(data_rows)) > 0 BY <2>2, <3>3, <3>4
    <3>6. Tail(data_rows) # <<>> BY <3>5
    <3> QED BY <3>1, <3>4, <3>6
  <2> QED BY <2>1, <2>2
<1>4. last_complete' \in [Baselines -> Int] /\ current_interval' \in Nat
  BY DEF TypeOK, AdvanceInterval
<1> QED BY <1>2, <1>3, <1>4 DEF TypeOK, AdvanceInterval

LEMMA OthersType ==
  ASSUME TypeOK, ordered' \in BOOLEAN,
         GetDone \/ Clear \/ UNCHANGED bufVars \/ Fail("assertion") \/ Fail("misordered")
  PROVE  TypeOK'
<1>1. <<>> \in Seq(Seq(Row)) OBVIOUS
<1>2. <<{}>> \in Seq(SUBSET Row) /\ <<{}>> # <<>> OBVIOUS
<1>3. CASE GetDone BY <1>1, <1>3 DEF TypeOK, GetDone
<1>4. CASE Clear BY <1>1, <1>2, <1>4 DEF TypeOK, Clear
<1>5. CASE UNCHANGED bufVars BY <1>5 DEF TypeOK, bufVars
<1>6. CASE Fail("assertion") \/ Fail("misordered") BY <1>6 DEF TypeOK, Fail
<1> QED BY <1>3, <1>4, <1>5, <1>6

LEMMA NextType ==
  ASSUME TypeOK, [Next]_bufVars
  PROVE  TypeOK'
<1>1. CASE AppendInput
  <2>1. PICK rows \in InputBuffers : AppendAndWeight(rows) BY <1>1 DEF AppendInput
  <2>2. rows \in Seq(Row) BY InputAssumption
  <2>3. Accept(rows) \/ Fail("assertion") \/ Fail("misordered")
    BY <2>1 DEF AppendAndWeight
  <2>4. ordered' \in BOOLEAN BY <2>1 DEF AppendAndWeight
  <2> QED BY <2>2, <2>3, <2>4, AcceptType, OthersType
<1>2. CASE AdvanceComplete BY <1>2, AdvanceType DEF AdvanceComplete
<1>3. CASE GetDone \/ Clear \/ UNCHANGED bufVars
  <2>1. ordered' \in BOOLEAN BY <1>3 DEF TypeOK, GetDone, Clear, bufVars
  <2> QED BY <1>3, <2>1, OthersType
<1> QED BY <1>1, <1>2, <1>3 DEF Next

(***************************************************************************)
(* Type correctness.                                                       *)
(***************************************************************************)
THEOREM TypeCorrect == Spec => []TypeOK
<1>1. Init => TypeOK BY InitType
<1>2. TypeOK /\ [Next]_bufVars => TypeOK' BY NextType
<1> QED BY <1>1, <1>2, PTL DEF Spec

(***************************************************************************)
(* NeverFails: rows that come in order all belong to the current or a      *)
(* later interval.  CompleteIsBehind is what the ordering check and the    *)
(* assertion rely on.                                                      *)
(***************************************************************************)
NeverFailsInv == TypeOK /\ NeverFails /\ CompleteIsBehind

\* An ordered row lies at or after the interval that its baseline completed.
LEMMA OrderedRowIsLater ==
  ASSUME NeverFailsInv, ordered,
         NEW rows \in Seq(Row), RowsInOrder(rows, appended), NEW i \in DOMAIN rows
  PROVE  /\ last_complete[rows[i].bl] + 1 <= RelativeStart(rows[i])
         /\ RelativeStart(rows[i]) >= 0
<1> DEFINE b == rows[i].bl
<1>1. rows[i] \in Row BY RowsOf
<1>2. b \in Baselines /\ RelativeStart(rows[i]) \in Int
  BY <1>1, RelativeTypes DEF NeverFailsInv
<1>3. appended[b] \in Nat /\ current_interval \in Nat /\ last_complete[b] \in Int
  BY <1>2 DEF NeverFailsInv, TypeOK
<1>4. appended[b] <= rows[i].start BY DEF RowsInOrder
<1>5. appended[b] \div SolInt \in Nat /\ appended[b] \div SolInt <= StartInterval(rows[i])
  BY <1>1, <1>3, <1>4, StartIntervalMonotone
<1>6. /\ last_complete[b] >= -1
      /\ current_interval + last_complete[b] + 1 <= appended[b] \div SolInt
  BY <1>2 DEF NeverFailsInv, CompleteIsBehind
<1>7. StartInterval(rows[i]) \in Nat BY <1>1, CentreNotBeforeStart
<1> HIDE DEF b
<1>8. last_complete[b] + 1 <= StartInterval(rows[i]) - current_interval
  BY <1>3, <1>5, <1>6, <1>7
<1>9. StartInterval(rows[i]) - current_interval >= 0
  BY <1>3, <1>6, <1>7, <1>8
<1> QED BY <1>8, <1>9 DEF b, RelativeStart

\* So neither check can fail.
LEMMA OrderedRowsPass ==
  ASSUME NeverFailsInv, ordered,
         NEW rows \in Seq(Row), RowsInOrder(rows, appended), NEW i \in DOMAIN rows
  PROVE  /\ ~(RelativeIndex(rows[i]) < 0)
         /\ ~Misordered(rows, i)
<1>1. rows[i] \in Row /\ \A j \in DOMAIN rows : rows[j] \in Row BY RowsOf
<1>2. TypeOK BY DEF NeverFailsInv
<1>3. /\ last_complete[rows[i].bl] + 1 <= RelativeStart(rows[i])
      /\ RelativeStart(rows[i]) >= 0
  BY OrderedRowIsLater
<1>4. /\ RelativeStart(rows[i]) \in Int /\ RelativeIndex(rows[i]) \in Int
      /\ RelativeStart(rows[i]) <= RelativeIndex(rows[i])
      /\ last_complete[rows[i].bl] \in Int
  BY <1>1, <1>2, RelativeTypes DEF TypeOK
<1>5. ASSUME NEW j \in 1 .. (i - 1), rows[j].bl = rows[i].bl
      PROVE  ~(RelativeStart(rows[i]) < RelativeStart(rows[j]) - 1)
  <2>1. j \in DOMAIN rows /\ j < i BY RowsOf
  <2>2. rows[j] \in Row /\ rows[j].start \in Nat /\ rows[j].len \in Nat BY <1>1, <2>1 DEF Row
  <2>3. rows[j].start + rows[j].len <= rows[i].start BY <1>5, <2>1 DEF RowsInOrder
  <2>4. rows[i].start \in Nat BY <1>1 DEF Row
  <2>5. rows[j].start <= rows[i].start BY <2>2, <2>3, <2>4
  <2>6. StartInterval(rows[j]) <= StartInterval(rows[i])
    BY <1>1, <2>2, <2>5, StartIntervalMonotone DEF StartInterval
  <2>7. /\ StartInterval(rows[j]) \in Nat /\ StartInterval(rows[i]) \in Nat
        /\ current_interval \in Nat
    BY <1>1, <1>2, <2>2, CentreNotBeforeStart DEF TypeOK
  <2> QED BY <2>6, <2>7 DEF RelativeStart
<1>6. ~Misordered(rows, i)
  <2>1. ~(RelativeStart(rows[i]) < last_complete[rows[i].bl]) BY <1>3, <1>4
  <2> QED BY <1>5, <2>1 DEF Misordered
<1> QED BY <1>3, <1>4, <1>6

LEMMA AcceptIsBehind ==
  ASSUME NeverFailsInv, ordered,
         NEW rows \in Seq(Row), RowsInOrder(rows, appended), Accept(rows)
  PROVE  CompleteIsBehind'
<1>1. SUFFICES ASSUME NEW b \in Baselines
               PROVE  /\ last_complete'[b] >= -1
                      /\ current_interval + last_complete'[b] + 1 <= appended'[b] \div SolInt
  BY DEF CompleteIsBehind, Accept
<1>2. current_interval \in Nat /\ TypeOK BY DEF NeverFailsInv, TypeOK
<1>3. CASE b \in BaselinesOf(rows)
  <2>1. PICK i \in DOMAIN rows : LastRow(rows, b) = rows[i] BY <1>3, LastRowExists
  <2>2. /\ last_complete'[b] = RelativeStart(rows[i]) - 1
        /\ appended'[b] = EndOf(rows[i])
    BY <1>3, <2>1 DEF Accept, AppendedAfter
  <2>3. RelativeStart(rows[i]) >= 0 BY OrderedRowIsLater
  <2>4. rows[i] \in Row BY RowsOf
  <2>5. /\ RelativeStart(rows[i]) \in Int /\ EndOf(rows[i]) \in Nat
        /\ rows[i].start \in Nat /\ rows[i].start <= EndOf(rows[i])
    BY <1>2, <2>4, RelativeTypes
  <2>6. StartInterval(rows[i]) <= EndOf(rows[i]) \div SolInt
    BY <2>5, DivMonotone DEF StartInterval
  <2>7. EndOf(rows[i]) \div SolInt \in Nat BY <2>5, DivUpper
  <2>8. StartInterval(rows[i]) \in Nat BY <2>4, CentreNotBeforeStart
  <2>9. RelativeStart(rows[i]) = StartInterval(rows[i]) - current_interval
    BY DEF RelativeStart
  <2> QED BY <1>2, <2>2, <2>3, <2>5, <2>6, <2>7, <2>8, <2>9
<1>4. CASE b \notin BaselinesOf(rows)
  <2>1. last_complete'[b] = last_complete[b] /\ appended'[b] = appended[b]
    BY <1>4 DEF Accept, AppendedAfter
  <2> QED BY <2>1 DEF NeverFailsInv, CompleteIsBehind
<1> QED BY <1>3, <1>4

LEMMA NeverFailsStep ==
  ASSUME NeverFailsInv, [Next]_bufVars
  PROVE  NeverFailsInv'
<1> SUFFICES ASSUME ordered' PROVE (NeverFails /\ CompleteIsBehind)'
  BY NextType DEF NeverFailsInv, NeverFails, CompleteIsBehind
<1>1. CASE AppendInput
  <2>0. PICK rows \in InputBuffers : AppendAndWeight(rows) BY <1>1 DEF AppendInput
  <2>1. ordered /\ RowsInOrder(rows, appended) /\ AppendAndWeight(rows)
    BY <2>0 DEF AppendAndWeight
  <2>2. rows \in Seq(Row) BY InputAssumption
  <2>3. Accept(rows)
    BY <2>1, <2>2, OrderedRowsPass DEF AppendAndWeight
  <2>4. CompleteIsBehind' BY <2>1, <2>2, <2>3, AcceptIsBehind
  <2> QED BY <2>1, <2>3, <2>4 DEF NeverFailsInv, NeverFails, Accept
<1>2. CASE AdvanceComplete
  <2>1. /\ current_interval' = current_interval + 1
        /\ last_complete' = [b \in Baselines |-> last_complete[b] - 1]
        /\ UNCHANGED <<status, appended, ordered>>
        /\ \A b \in Baselines : last_complete[b] >= 0
    BY <1>2 DEF AdvanceComplete, AdvanceInterval, IntervalIsComplete
  <2>2. ASSUME NEW b \in Baselines
        PROVE  /\ last_complete'[b] >= -1
               /\ current_interval' + last_complete'[b] + 1 <= appended'[b] \div SolInt
    <3>1. current_interval \in Nat /\ last_complete[b] \in Int BY DEF NeverFailsInv, TypeOK
    <3>2. current_interval' + last_complete'[b] + 1 = current_interval + last_complete[b] + 1
      BY <2>1, <3>1
    <3> QED BY <2>1, <3>1, <3>2 DEF NeverFailsInv, CompleteIsBehind
  <2> QED BY <2>1, <2>2 DEF NeverFailsInv, NeverFails, CompleteIsBehind
<1>3. CASE GetDone \/ Clear \/ UNCHANGED bufVars
  BY <1>3 DEF NeverFailsInv, NeverFails, CompleteIsBehind, GetDone, Clear, bufVars
<1> QED BY <1>1, <1>2, <1>3 DEF Next

(***************************************************************************)
(* An ordered stream of rows never trips assert(queue_index >= 0) of       *)
(* AppendAndWeight and is never refused as misordered.                     *)
(***************************************************************************)
THEOREM OrderedInputNeverFails == Spec => []NeverFails
<1>1. Init => NeverFailsInv
  <2> SUFFICES ASSUME Init PROVE NeverFails /\ CompleteIsBehind
    BY InitType DEF NeverFailsInv
  <2>1. 0 \div SolInt \in Nat BY DivUpper
  <2> QED BY <2>1 DEF Init, NeverFails, CompleteIsBehind
<1>2. NeverFailsInv /\ [Next]_bufVars => NeverFailsInv' BY NeverFailsStep
<1>3. NeverFailsInv => NeverFails BY DEF NeverFailsInv
<1> QED BY <1>1, <1>2, <1>3, PTL DEF Spec

(***************************************************************************)
(* RowsOfIntervalsAreOwned and FrontIsNeeded.                              *)
(***************************************************************************)
OwnedInv == TypeOK /\ RowsOfIntervalsAreOwned /\ FrontIsNeeded

LEMMA OwnedRows ==
  ASSUME TypeOK
  PROVE  Owned \subseteq Row
<1> SUFFICES ASSUME NEW i \in DOMAIN data PROVE Rng(data[i]) \subseteq Row BY DEF Owned
<1>1. data[i] \in Seq(Row) BY DEF TypeOK
<1> QED BY <1>1, RowsOf

LEMMA AcceptOwned ==
  ASSUME OwnedInv, NEW rows \in Seq(Row), rows # <<>>, Accept(rows),
         \A i \in DOMAIN rows : ~(RelativeIndex(rows[i]) < 0)
  PROVE  (RowsOfIntervalsAreOwned /\ FrontIsNeeded)'
<1>1. TypeOK BY DEF OwnedInv
<1>2. Owned' = Owned \cup Rng(rows)
  <2>1. data \in Seq(Seq(Row)) /\ data' = Append(data, rows) BY <1>1 DEF TypeOK, Accept
  <2>2. /\ DOMAIN data' = 1 .. (Len(data) + 1) /\ DOMAIN data = 1 .. Len(data)
        /\ Len(data) \in Nat
        /\ \A i \in 1 .. Len(data) : data'[i] = data[i]
        /\ data'[Len(data) + 1] = rows
    BY <2>1
  <2>3. DOMAIN data' = DOMAIN data \cup {Len(data) + 1} BY <2>2
  <2> QED BY <2>2, <2>3 DEF Owned
<1>3. /\ SizeFor(rows) \in Nat /\ Len(data_rows) <= SizeFor(rows)
      /\ \A r \in Rng(rows) : RelativeIndex(r) < SizeFor(rows)
  BY <1>1, SizeForFits
<1>4. \A r : (RelativeIndex(r))' = RelativeIndex(r) BY DEF Accept, RelativeIndex
<1>5. Len(data_rows) \in Nat /\ DOMAIN data_rows = 1 .. Len(data_rows) BY <1>1 DEF TypeOK
<1>6. DOMAIN data_rows' = 1 .. SizeFor(rows) /\ Len(data_rows') = SizeFor(rows)
  BY <1>3 DEF Accept
<1>7. \A r \in Owned : RelativeIndex(r) \in Int /\ RelativeIndex(r) < Len(data_rows)
  BY <1>1, OwnedRows, RelativeTypes DEF OwnedInv, RowsOfIntervalsAreOwned
<1>8. ASSUME NEW q \in 1 .. SizeFor(rows)
      PROVE  data_rows'[q] = {r \in Owned' : RelativeIndex(r) = q - 1}
  <2>1. data_rows'[q] = (IF q <= Len(data_rows) THEN data_rows[q] ELSE {})
                        \cup {r \in Rng(rows) : RelativeIndex(r) = q - 1}
    BY DEF Accept
  <2>2. (IF q <= Len(data_rows) THEN data_rows[q] ELSE {})
           = {r \in Owned : RelativeIndex(r) = q - 1}
    <3>1. CASE q <= Len(data_rows)
      BY <1>3, <1>5, <3>1 DEF OwnedInv, RowsOfIntervalsAreOwned
    <3>2. CASE ~(q <= Len(data_rows))
      <4>1. \A r \in Owned : RelativeIndex(r) # q - 1 BY <1>3, <1>5, <1>7, <3>2
      <4> QED BY <3>2, <4>1
    <3> QED BY <3>1, <3>2
  <2> QED BY <1>2, <2>1, <2>2
<1>9. ASSUME NEW r \in Owned' PROVE RelativeIndex(r) < SizeFor(rows)
  BY <1>2, <1>3, <1>5, <1>7
<1>10. RowsOfIntervalsAreOwned'
  BY <1>4, <1>6, <1>8, <1>9 DEF RowsOfIntervalsAreOwned
<1>11. FrontIsNeeded'
  <2>1. data \in Seq(Seq(Row)) /\ data' = Append(data, rows) BY <1>1 DEF TypeOK, Accept
  <2>2. CASE data = <<>>
    <3>1. Head(data') = rows BY <2>1, <2>2
    <3>2. 1 \in DOMAIN rows /\ rows[1] \in Rng(rows) /\ rows[1] \in Row BY RowsOf DEF Rng
    <3>3. RelativeIndex(rows[1]) \in Int BY <1>1, <3>2, RelativeTypes
    <3>4. RelativeIndex(rows[1]) >= 0 BY <3>2, <3>3
    <3> QED BY <1>4, <3>1, <3>2, <3>4 DEF FrontIsNeeded
  <2>3. CASE data # <<>>
    <3>1. Head(data') = Head(data) BY <2>1, <2>3
    <3> QED BY <1>4, <2>3, <3>1 DEF OwnedInv, FrontIsNeeded
  <2> QED BY <2>2, <2>3
<1> QED BY <1>10, <1>11

LEMMA AdvanceOwned ==
  ASSUME OwnedInv, AdvanceInterval
  PROVE  (RowsOfIntervalsAreOwned /\ FrontIsNeeded)'
<1> DEFINE n == Released(current_interval + 1)
<1>1. TypeOK /\ current_interval + 1 \in Nat BY DEF OwnedInv, TypeOK
<1>2. /\ n \in 0 .. Len(data)
      /\ \A i \in 1 .. n : \A r \in Rng(data[i]) : CentreInterval(r) < current_interval + 1
      /\ n < Len(data) => \E r \in Rng(data[n + 1]) : CentreInterval(r) >= current_interval + 1
  BY <1>1, ReleasedIsPrefix
<1>3. /\ data' = SubSeq(data, n + 1, Len(data))
      /\ current_interval' = current_interval + 1
      /\ data_rows' = IF Len(data_rows) = 1 THEN <<{}>> ELSE Tail(data_rows)
  BY DEF AdvanceInterval, RowsAfterCurrent
<1> HIDE DEF n
<1>4. data \in Seq(Seq(Row)) /\ Len(data) \in Nat /\ DOMAIN data = 1 .. Len(data)
  BY <1>1 DEF TypeOK
<1>5. /\ DOMAIN data' = 1 .. (Len(data) - n)
      /\ \A i \in 1 .. (Len(data) - n) : data'[i] = data[n + i]
  BY <1>2, <1>3, <1>4
<1>6. \A r \in Owned : /\ CentreInterval(r) \in Nat
                       /\ RelativeIndex(r) \in Int /\ RelativeIndex(r) < Len(data_rows)
                       /\ (RelativeIndex(r))' = RelativeIndex(r) - 1
  <2> TAKE r \in Owned
  <2>1. r \in Row BY <1>1, OwnedRows
  <2>2. CentreInterval(r) \in Nat BY <2>1, CentreNotBeforeStart
  <2>3. RelativeIndex(r) < Len(data_rows) BY DEF OwnedInv, RowsOfIntervalsAreOwned
  <2>4. current_interval \in Nat BY <1>1 DEF TypeOK
  <2> QED BY <1>3, <2>2, <2>3, <2>4 DEF RelativeIndex
<1>7. Owned' \subseteq Owned
  <2> SUFFICES ASSUME NEW i \in 1 .. (Len(data) - n) PROVE Rng(data'[i]) \subseteq Owned
    BY <1>5 DEF Owned
  <2>1. n + i \in DOMAIN data BY <1>2, <1>4
  <2> QED BY <1>5, <2>1 DEF Owned
<1>8. \A r \in Owned \ Owned' : (RelativeIndex(r))' < 0
  <2> SUFFICES ASSUME NEW r \in Owned, r \notin Owned' PROVE RelativeIndex(r) - 1 < 0
    BY <1>6
  <2>1. PICK i \in DOMAIN data : r \in Rng(data[i]) BY DEF Owned
  <2>2. CASE i \in 1 .. n
    <3>1. CentreInterval(r) < current_interval + 1 BY <1>2, <2>1, <2>2
    <3>2. CentreInterval(r) \in Nat BY <1>6
    <3> QED BY <1>1, <3>1, <3>2 DEF RelativeIndex, TypeOK
  <2>3. CASE i \notin 1 .. n
    <3>1. i - n \in 1 .. (Len(data) - n) /\ n + (i - n) = i BY <1>2, <1>4, <2>3
    <3>2. data'[i - n] = data[i] /\ i - n \in DOMAIN data' BY <1>5, <3>1
    <3>3. r \in Owned' BY <2>1, <3>2 DEF Owned
    <3> QED BY <3>3
  <2> QED BY <2>2, <2>3
<1>9. /\ data_rows \in Seq(SUBSET Row) /\ Len(data_rows) \in Nat /\ Len(data_rows) > 0
      /\ DOMAIN data_rows = 1 .. Len(data_rows)
  BY <1>1 DEF TypeOK
<1>10. RowsOfIntervalsAreOwned'
  <2>1. CASE Len(data_rows) = 1
    <3>1. data_rows' = <<{}>> BY <1>3, <2>1
    <3>2. DOMAIN data_rows' = {1} /\ data_rows'[1] = {} /\ Len(data_rows') = 1 BY <3>1
    <3>3. \A r \in Owned' : (RelativeIndex(r))' \in Int /\ (RelativeIndex(r))' < 0
      BY <1>6, <1>7, <2>1
    <3> QED BY <3>2, <3>3 DEF RowsOfIntervalsAreOwned
  <2>2. CASE Len(data_rows) # 1
    <3>1. /\ DOMAIN data_rows' = 1 .. (Len(data_rows) - 1)
          /\ Len(data_rows') = Len(data_rows) - 1
          /\ \A q \in 1 .. (Len(data_rows) - 1) : data_rows'[q] = data_rows[q + 1]
      BY <1>3, <1>9, <2>2
    <3>2. ASSUME NEW q \in 1 .. (Len(data_rows) - 1)
          PROVE  data_rows'[q] = {r \in Owned' : (RelativeIndex(r))' = q - 1}
      <4>1. q + 1 \in DOMAIN data_rows /\ (q + 1) - 1 = q BY <1>9
      <4>2. data_rows'[q] = {r \in Owned : RelativeIndex(r) = q}
        BY <3>1, <4>1 DEF OwnedInv, RowsOfIntervalsAreOwned
      <4>3. \A r \in Owned : RelativeIndex(r) = q <=> (RelativeIndex(r))' = q - 1
        BY <1>6, <1>9
      <4>4. \A r \in Owned : (RelativeIndex(r))' = q - 1 => r \in Owned'
        BY <1>6, <1>8, <1>9
      <4> QED BY <1>7, <4>2, <4>3, <4>4
    <3>3. \A r \in Owned' : (RelativeIndex(r))' < Len(data_rows')
      BY <1>6, <1>7, <1>9, <3>1
    <3> QED BY <3>1, <3>2, <3>3 DEF RowsOfIntervalsAreOwned
  <2> QED BY <2>1, <2>2
<1>11. FrontIsNeeded'
  <2> SUFFICES ASSUME data' # <<>> PROVE \E r \in Rng(Head(data')) : (RelativeIndex(r))' >= 0
    BY DEF FrontIsNeeded
  <2>1. n < Len(data) /\ Head(data') = data[n + 1] BY <1>2, <1>3, <1>4
  <2>2. PICK r \in Rng(data[n + 1]) : CentreInterval(r) >= current_interval + 1
    BY <1>2, <2>1
  <2>3. n + 1 \in DOMAIN data BY <1>2, <1>4, <2>1
  <2>4. r \in Owned BY <2>2, <2>3 DEF Owned
  <2>5. (RelativeIndex(r))' >= 0
    BY <1>1, <1>3, <1>6, <2>2, <2>4 DEF RelativeIndex
  <2> QED BY <2>1, <2>2, <2>5
<1> QED BY <1>10, <1>11

LEMMA OwnedStep ==
  ASSUME OwnedInv, [Next]_bufVars
  PROVE  OwnedInv'
<1> SUFFICES (RowsOfIntervalsAreOwned /\ FrontIsNeeded)'
  BY NextType DEF OwnedInv
<1>1. CASE AppendInput
  <2>1. PICK rows \in InputBuffers : AppendAndWeight(rows) BY <1>1 DEF AppendInput
  <2>2. rows \in Seq(Row) /\ rows # <<>> BY InputAssumption
  <2>3. \/ Accept(rows) /\ \A i \in DOMAIN rows : ~(RelativeIndex(rows[i]) < 0)
        \/ \E how : Fail(how)
    BY <2>1 DEF AppendAndWeight
  <2>4. CASE Accept(rows) /\ \A i \in DOMAIN rows : ~(RelativeIndex(rows[i]) < 0)
    BY <2>2, <2>4, AcceptOwned
  <2>5. CASE \E how : Fail(how)
    BY <2>5 DEF Fail, OwnedInv, RowsOfIntervalsAreOwned, FrontIsNeeded, Owned, RelativeIndex
  <2> QED BY <2>3, <2>4, <2>5
<1>2. CASE AdvanceComplete BY <1>2, AdvanceOwned DEF AdvanceComplete
<1>3. CASE Clear
  <2>1. data' = <<>> /\ data_rows' = <<{}>> BY <1>3 DEF Clear
  <2>2. Owned' = {} BY <2>1 DEF Owned
  <2>3. DOMAIN data_rows' = {1} /\ data_rows'[1] = {} BY <2>1
  <2> QED BY <2>1, <2>2, <2>3 DEF RowsOfIntervalsAreOwned, FrontIsNeeded
<1>4. CASE GetDone \/ UNCHANGED bufVars
  BY <1>4 DEF GetDone, bufVars, OwnedInv, RowsOfIntervalsAreOwned, FrontIsNeeded, Owned,
              RelativeIndex
<1> QED BY <1>1, <1>2, <1>3, <1>4 DEF Next

LEMMA OwnedInvariant == Spec => []OwnedInv
<1>1. Init => OwnedInv
  <2> SUFFICES ASSUME Init PROVE RowsOfIntervalsAreOwned /\ FrontIsNeeded
    BY InitType DEF OwnedInv
  <2>1. data = <<>> /\ data_rows = <<{}>> BY DEF Init
  <2>2. Owned = {} BY <2>1 DEF Owned
  <2>3. DOMAIN data_rows = {1} /\ data_rows[1] = {} BY <2>1
  <2> QED BY <2>1, <2>2, <2>3 DEF RowsOfIntervalsAreOwned, FrontIsNeeded
<1>2. OwnedInv /\ [Next]_bufVars => OwnedInv' BY OwnedStep
<1> QED BY <1>1, <1>2, PTL DEF Spec

(***************************************************************************)
(* The rows of the solution intervals are those of the buffers in data_,   *)
(* whatever the input: no dangling row pointer, and no row that a solve    *)
(* misses.                                                                 *)
(***************************************************************************)
THEOREM RowsAreOwned == Spec => []RowsOfIntervalsAreOwned
<1>1. OwnedInv => RowsOfIntervalsAreOwned BY DEF OwnedInv
<1> QED BY <1>1, OwnedInvariant, PTL

(***************************************************************************)
(* AdvanceInterval releases every solved buffer, whatever the input: the   *)
(* buffer that stays at the head of data_ has a row that is to be solved.  *)
(***************************************************************************)
THEOREM FrontBufferIsNeeded == Spec => []FrontIsNeeded
<1>1. OwnedInv => FrontIsNeeded BY DEF OwnedInv
<1> QED BY <1>1, OwnedInvariant, PTL

-----------------------------------------------------------------------------
(***************************************************************************)
(* BdaDdeCal, for every set of baselines and directions, every solution    *)
(* interval, every ordered input and every delay of the predict steps:     *)
(* predicted buffers meet the input that they belong to, no buffer is      *)
(* lost, and the step implements StepStream.                               *)
(***************************************************************************)

(***************************************************************************)
(* The inductive invariant, in parts.  CalTypes is stronger than CalTypeOK *)
(* where the steps need it.                                                *)
(***************************************************************************)
ModelTypes ==
    /\ input_buffers \in Seq(InputBuffers)
    /\ inside \in [Directions -> Seq(InputBuffers)]
    /\ model_buffers \in Seq([Directions -> InputBuffers \cup {None}])

CalTypes == CalTypeOK /\ ModelTypes

\* How many of the input buffers are predicted for direction d.
Predicted(d) == Len(input_buffers) - Len(inside[d])

\* The predict step of d holds the last input buffers, and the others stand in
\* model_buffers at the place of their input buffer.
ModelsFollowInput ==
    /\ Len(model_buffers) <= Len(input_buffers)
    /\ \A d \in Directions :
          /\ Predicted(d) \in 0 .. Len(model_buffers)
          /\ \A k \in 1 .. Len(inside[d]) : inside[d][k] = input_buffers[Predicted(d) + k]
          /\ \A i \in 1 .. Len(model_buffers) :
                model_buffers[i][d] = IF i <= Predicted(d) THEN input_buffers[i] ELSE None

\* The buffers that wait for their prediction continue, in time order, what
\* was appended to the solver buffer.
QueueInOrder ==
    /\ \A b \in Baselines : appended[b] <= read[b]
    /\ \A i \in 1 .. Len(input_buffers) :
          /\ RowsInOrder(input_buffers[i], appended)
          /\ \A r \in Rng(input_buffers[i]) : EndOf(r) <= read[r.bl]
          /\ \A j \in 1 .. Len(input_buffers) : i < j =>
                \A r \in Rng(input_buffers[i]), s \in Rng(input_buffers[j]) :
                    r.bl = s.bl => EndOf(r) <= s.start

\* The solver buffer does not fail; while it is appended to, it is left only
\* interval by complete interval.
SolverBufferIsFine ==
    /\ status = "ok" /\ ordered
    /\ pc \in {"idle", "append", "solve", "forward"} => CompleteIsBehind
    /\ only_predict => data = <<>> /\ done = <<>>

\* What is left when finish() goes on.
NothingRemains ==
    /\ finishing => pc # "idle" /\ \A d \in Directions : inside[d] = <<>>
    /\ pc \in {"drain", "close", "finished"} => finishing
    /\ (finishing /\ pc \in {"solve", "forward", "drain", "close", "finished"})
          => input_buffers = <<>>
    /\ pc \in {"close", "finished"} => data = <<>> /\ done = <<>>

CalInv ==
    /\ CalTypes /\ ModelsFollowInput /\ QueueInOrder /\ SolverBufferIsFine
    /\ NothingRemains /\ NothingIsLost

-----------------------------------------------------------------------------
(***************************************************************************)
(* Buffers that move along s \o t \o u.                                    *)
(***************************************************************************)
LEMMA HeadMoves ==
  ASSUME NEW S, NEW s \in Seq(S), NEW u \in Seq(S), u # <<>>
  PROVE  Append(s, Head(u)) \o Tail(u) = s \o u
<1>1. /\ Head(u) \in S /\ Tail(u) \in Seq(S)
      /\ Len(Tail(u)) = Len(u) - 1 /\ Len(u) \in Nat /\ Len(s) \in Nat
      /\ Head(u) = u[1]
      /\ \A i \in 1 .. Len(u) - 1 : Tail(u)[i] = u[i + 1]
  OBVIOUS
<1>2. /\ Append(s, Head(u)) \in Seq(S) /\ Len(Append(s, Head(u))) = Len(s) + 1
      /\ \A i \in 1 .. Len(s) : Append(s, Head(u))[i] = s[i]
      /\ Append(s, Head(u))[Len(s) + 1] = u[1]
  BY <1>1, AppendProperties
<1> DEFINE l == Append(s, Head(u)) \o Tail(u)
           r == s \o u
<1>3. /\ l \in Seq(S) /\ Len(l) = Len(s) + Len(u)
      /\ \A i \in 1 .. Len(s) + Len(u) :
            l[i] = IF i <= Len(s) + 1 THEN Append(s, Head(u))[i]
                                      ELSE Tail(u)[i - (Len(s) + 1)]
  BY <1>1, <1>2, ConcatProperties
<1>4. /\ r \in Seq(S) /\ Len(r) = Len(s) + Len(u)
      /\ \A i \in 1 .. Len(s) + Len(u) : r[i] = IF i <= Len(s) THEN s[i] ELSE u[i - Len(s)]
  BY ConcatProperties
<1> HIDE DEF l, r
<1>5. ASSUME NEW i \in 1 .. Len(l) PROVE l[i] = r[i]
  <2>1. CASE i <= Len(s) BY <1>1, <1>2, <1>3, <1>4, <2>1
  <2>2. CASE i = Len(s) + 1 BY <1>1, <1>2, <1>3, <1>4, <2>2
  <2>3. CASE i > Len(s) + 1
    <3>1. i - (Len(s) + 1) \in 1 .. Len(u) - 1 /\ (i - (Len(s) + 1)) + 1 = i - Len(s)
      BY <1>1, <1>3, <2>3
    <3> QED BY <1>1, <1>3, <1>4, <2>3, <3>1
  <2> QED BY <1>1, <1>3, <2>1, <2>2, <2>3
<1>6. l = r BY <1>3, <1>4, <1>5, SeqEqual
<1> QED BY <1>6 DEF l, r

LEMMA PrefixMoves ==
  ASSUME NEW S, NEW s \in Seq(S), NEW u \in Seq(S), NEW n \in 0 .. Len(u)
  PROVE  (s \o SubSeq(u, 1, n)) \o SubSeq(u, n + 1, Len(u)) = s \o u
<1>1. SubSeq(u, 1, n) \in Seq(S) /\ SubSeq(u, n + 1, Len(u)) \in Seq(S) OBVIOUS
<1>2. SubSeq(u, 1, n) \o SubSeq(u, n + 1, Len(u)) = u
  <2>1. 1 \in 1 .. Len(u) + 1 /\ n \in (1 - 1) .. Len(u) /\ Len(u) \in n .. Len(u) OBVIOUS
  <2> QED BY <2>1, ConcatAdjacentSubSeq, SubSeqFull
<1>3. PICK p, q : p = SubSeq(u, 1, n) /\ q = SubSeq(u, n + 1, Len(u)) OBVIOUS
<1>4. p \o q = u BY <1>2, <1>3
<1>5. (s \o p) \o q = s \o (p \o q)
  <2>1. p \in Seq(S) /\ q \in Seq(S) BY <1>1, <1>3
  <2> QED BY <2>1, ConcatAssociative
<1>6. (s \o p) \o q = s \o u BY <1>4, <1>5, Zenon
<1> QED BY <1>3, <1>6, Zenon

LEMMA PrefixAndSuffix ==
  ASSUME NEW S, NEW s \in Seq(S), NEW n \in 0 .. Len(s)
  PROVE  /\ SubSeq(s, 1, n) \in Seq(S) /\ Len(SubSeq(s, 1, n)) = n
         /\ \A k \in 1 .. n : SubSeq(s, 1, n)[k] = s[k]
         /\ SubSeq(s, n + 1, Len(s)) \in Seq(S)
         /\ Len(SubSeq(s, n + 1, Len(s))) = Len(s) - n
         /\ \A k \in 1 .. (Len(s) - n) : SubSeq(s, n + 1, Len(s))[k] = s[n + k]
OBVIOUS

(***************************************************************************)
(* ExtractResults: the buffers that a direction returns get the places     *)
(* after those that it returned before.                                    *)
(***************************************************************************)
LEMMA PredictedIs ==
  ASSUME CalTypes, ModelsFollowInput, NEW d \in Directions
  PROVE  /\ Len(input_buffers) \in Nat /\ Len(inside[d]) \in Nat
         /\ Len(model_buffers) \in 0 .. Len(input_buffers)
         /\ Predicted(d) \in 0 .. Len(model_buffers)
         /\ Predicted(d) + Len(inside[d]) = Len(input_buffers)
BY DEF CalTypes, ModelTypes, ModelsFollowInput, Predicted

LEMMA FirstFreeIsNext ==
  ASSUME CalTypes, ModelsFollowInput, NEW d \in Directions
  PROVE  FirstFree(d) = Predicted(d) + 1
<1> DEFINE p == Predicted(d)
           n == Len(model_buffers)
           Free(i) == /\ \A j \in 1 .. (i - 1) : model_buffers[j][d] # None
                      /\ i <= n => model_buffers[i][d] = None
<1>1. n \in Nat BY DEF CalTypes, ModelTypes
<1>2. p \in 0 .. n BY DEF ModelsFollowInput
<1>3. \A i \in 1 .. n : model_buffers[i][d] = None <=> i > p
  <2> TAKE i \in 1 .. n
  <2>1. model_buffers[i][d] = IF i <= p THEN input_buffers[i] ELSE None
    BY DEF ModelsFollowInput
  <2>2. i \in 1 .. Len(input_buffers) BY <1>1 DEF CalTypes, ModelTypes, ModelsFollowInput
  <2>3. input_buffers[i] \in InputBuffers BY <2>2 DEF CalTypes, ModelTypes
  <2> QED BY <1>1, <1>2, <2>1, <2>3, NoneAssumption
<1> HIDE DEF p, n
<1>4. p + 1 \in 1 .. (n + 1) /\ Free(p + 1) BY <1>1, <1>2, <1>3
<1>5. ASSUME NEW i \in 1 .. (n + 1), Free(i) PROVE i = p + 1
  <2>1. CASE i < p + 1 BY <1>1, <1>2, <1>3, <1>5, <2>1
  <2>2. CASE i > p + 1
    <3>1. p + 1 \in 1 .. (i - 1) /\ p + 1 \in 1 .. n BY <1>1, <1>2, <2>2
    <3> QED BY <1>2, <1>3, <1>5, <3>1
  <2> QED BY <1>1, <1>2, <2>1, <2>2
<1>6. FirstFree(d) = CHOOSE i \in 1 .. (n + 1) : Free(i) BY DEF FirstFree, n
<1> HIDE DEF Free
<1>7. FirstFree(d) = p + 1 BY <1>4, <1>5, <1>6
<1> QED BY <1>7 DEF p

\* queue stands for input_buffers after the call.
LEMMA ExtractedFollows ==
  ASSUME CalTypes, ModelsFollowInput,
         NEW queue \in Seq(InputBuffers), Len(input_buffers) <= Len(queue),
         \A i \in 1 .. Len(input_buffers) : queue[i] = input_buffers[i],
         NEW out \in [Directions -> Seq(InputBuffers)],
         \A d \in Directions : Predicted(d) + Len(out[d]) <= Len(queue),
         \A d \in Directions : \A k \in 1 .. Len(out[d]) :
             out[d][k] = queue[Predicted(d) + k]
  PROVE  /\ Extracted(out) \in Seq([Directions -> InputBuffers \cup {None}])
         /\ Len(Extracted(out)) <= Len(queue)
         /\ \A d \in Directions :
               /\ Predicted(d) + Len(out[d]) <= Len(Extracted(out))
               /\ \A i \in 1 .. Len(Extracted(out)) :
                     Extracted(out)[i][d] = IF i <= Predicted(d) + Len(out[d])
                                            THEN queue[i] ELSE None
<1> DEFINE ends == {FirstFree(d) + Len(out[d]) - 1 : d \in Directions} \cup {Len(model_buffers)}
           n == Len(queue)
           size == CHOOSE k \in ends : \A m \in ends : m <= k
           At(i, d) ==
               IF i \in FirstFree(d) .. (FirstFree(d) + Len(out[d]) - 1)
               THEN out[d][i - FirstFree(d) + 1]
               ELSE IF i <= Len(model_buffers) THEN model_buffers[i][d] ELSE None
<1>1. n \in Nat /\ Len(model_buffers) \in 0 .. n
  BY DEF CalTypes, ModelTypes, ModelsFollowInput
<1>2. ASSUME NEW d \in Directions
      PROVE  /\ FirstFree(d) = Predicted(d) + 1
             /\ Predicted(d) \in 0 .. Len(model_buffers)
             /\ Len(out[d]) \in Nat
  BY FirstFreeIsNext DEF ModelsFollowInput
<1>3. \A d \in Directions : /\ FirstFree(d) + Len(out[d]) - 1 = Predicted(d) + Len(out[d])
                            /\ Predicted(d) + Len(out[d]) \in 0 .. n
  BY <1>1, <1>2
<1>4. ends \subseteq 0 .. n BY <1>1, <1>3
<1>5. size \in ends /\ \A m \in ends : m <= size
  <2>1. Len(model_buffers) \in ends OBVIOUS
  <2> HIDE DEF ends
  <2>2. ends \in SUBSET Int /\ ends # {} BY <1>1, <1>4, <2>1
  <2>3. IsFiniteSet(ends)
    <3>1. IsFiniteSet(0 .. n) BY <1>1, FS_Interval
    <3> QED BY <1>4, <3>1, FS_Subset
  <2>4. \E k \in ends : \A m \in ends : m <= k BY <2>2, <2>3, FiniteMax
  <2> QED BY <2>4
<1>6. /\ size \in 0 .. n /\ Len(model_buffers) <= size
      /\ \A d \in Directions : Predicted(d) + Len(out[d]) <= size
  <2>1. Len(model_buffers) \in ends OBVIOUS
  <2>2. \A d \in Directions : Predicted(d) + Len(out[d]) \in ends BY <1>3
  <2> HIDE DEF ends, size
  <2> QED BY <1>4, <1>5, <2>1, <2>2
<1>7. Extracted(out) = [i \in 1 .. size |-> [d \in Directions |-> At(i, d)]]
  BY DEF Extracted
<1> HIDE DEF ends, size
<1>8. ASSUME NEW i \in 1 .. size, NEW d \in Directions
      PROVE  /\ At(i, d) = IF i <= Predicted(d) + Len(out[d]) THEN queue[i] ELSE None
             /\ At(i, d) \in InputBuffers \cup {None}
  <2>0. i \in 1 .. n /\ queue[i] \in InputBuffers BY <1>1, <1>6
  <2>1. CASE i <= Predicted(d)
    <3>1. i \notin FirstFree(d) .. (FirstFree(d) + Len(out[d]) - 1) BY <1>1, <1>2, <2>1
    <3>2. i \in 1 .. Len(model_buffers) BY <1>1, <1>2, <2>1
    <3>3. At(i, d) = input_buffers[i] BY <2>1, <3>1, <3>2 DEF ModelsFollowInput
    <3>4. i \in 1 .. Len(input_buffers) BY <3>2 DEF ModelsFollowInput, CalTypes, ModelTypes
    <3>5. At(i, d) = queue[i] BY <3>3, <3>4
    <3> QED BY <1>1, <1>2, <2>0, <2>1, <3>5
  <2>2. CASE i > Predicted(d) /\ i <= Predicted(d) + Len(out[d])
    <3>1. i \in FirstFree(d) .. (FirstFree(d) + Len(out[d]) - 1) BY <1>1, <1>2, <2>2
    <3>2. /\ i - FirstFree(d) + 1 = i - Predicted(d)
          /\ i - Predicted(d) \in 1 .. Len(out[d])
          /\ Predicted(d) + (i - Predicted(d)) = i
      BY <1>1, <1>2, <1>6, <2>2
    <3>3. At(i, d) = out[d][i - Predicted(d)] BY <3>1, <3>2
    <3>4. At(i, d) = queue[i] BY <3>2, <3>3
    <3> QED BY <2>0, <2>2, <3>4
  <2>3. CASE i > Predicted(d) + Len(out[d])
    <3>1. i \notin FirstFree(d) .. (FirstFree(d) + Len(out[d]) - 1) BY <1>1, <1>2, <1>3, <2>3
    <3>2. i > Predicted(d) BY <1>1, <1>2, <2>3
    <3>3. At(i, d) = None
      <4>1. CASE i <= Len(model_buffers)
        <5>1. i \in 1 .. Len(model_buffers) BY <1>1, <4>1
        <5> QED BY <1>1, <1>2, <3>1, <3>2, <5>1 DEF ModelsFollowInput
      <4>2. CASE ~(i <= Len(model_buffers)) BY <3>1, <4>2
      <4> QED BY <4>1, <4>2
    <3> QED BY <1>1, <1>2, <2>3, <3>3
  <2> QED BY <1>1, <1>2, <2>1, <2>2, <2>3
<1> HIDE DEF At
<1>9. /\ Extracted(out) \in Seq([Directions -> InputBuffers \cup {None}])
      /\ Len(Extracted(out)) = size
  BY <1>1, <1>6, <1>7, <1>8
<1> QED BY <1>6, <1>7, <1>8, <1>9

\* The buffers held back are those not returned.
LEMMA StillInside ==
  ASSUME NEW i \in Int, NEW h \in Int, NEW m \in Int, NEW p \in Int, NEW q, NEW t,
         q = i + 1, t = (h + 1) - m, p + h = i
  PROVE  q - t = p + m
OBVIOUS

\* process(): the new buffer is the last of every predict step.
LEMMA ProcessModels ==
  ASSUME CalTypes, ModelsFollowInput, NEW rows \in InputBuffers, Process(rows)
  PROVE  ModelTypes' /\ ModelsFollowInput'
<1> DEFINE held == [d \in Directions |-> Append(inside[d], rows)]
<1>1. PICK n \in [Directions -> 0 .. (Len(fed) + 1)] :
         /\ \A d \in Directions : n[d] <= Len(held[d])
         /\ inside' = [d \in Directions |-> SubSeq(held[d], n[d] + 1, Len(held[d]))]
         /\ model_buffers' = Extracted([d \in Directions |-> SubSeq(held[d], 1, n[d])])
  BY DEF Process
<1> DEFINE out == [d \in Directions |-> SubSeq(held[d], 1, n[d])]
           queue == Append(input_buffers, rows)
<1>2. /\ input_buffers \in Seq(InputBuffers) /\ queue \in Seq(InputBuffers)
      /\ Len(input_buffers) \in Nat /\ Len(queue) = Len(input_buffers) + 1
      /\ \A i \in 1 .. Len(input_buffers) : queue[i] = input_buffers[i]
      /\ queue[Len(input_buffers) + 1] = rows
      /\ input_buffers' = queue
  BY DEF CalTypes, ModelTypes, Process
<1>3. Len(fed) \in Nat BY DEF CalTypes, CalTypeOK
<1> HIDE DEF queue
<1>4. ASSUME NEW d \in Directions
      PROVE  /\ Predicted(d) \in 0 .. Len(model_buffers)
             /\ Len(inside[d]) \in Nat /\ n[d] \in 0 .. (Len(inside[d]) + 1)
             /\ held[d] \in Seq(InputBuffers) /\ Len(held[d]) = Len(inside[d]) + 1
             /\ \A k \in 1 .. Len(held[d]) : held[d][k] = queue[Predicted(d) + k]
  <2>1. inside[d] \in Seq(InputBuffers) /\ Len(inside[d]) \in Nat BY DEF CalTypes, ModelTypes
  <2>2. /\ held[d] \in Seq(InputBuffers) /\ Len(held[d]) = Len(inside[d]) + 1
        /\ \A k \in 1 .. Len(inside[d]) : held[d][k] = inside[d][k]
        /\ held[d][Len(inside[d]) + 1] = rows
    BY <2>1
  <2>3. n[d] \in 0 .. (Len(inside[d]) + 1)
    <3>1. n[d] \in 0 .. (Len(fed) + 1) /\ n[d] <= Len(held[d]) BY <1>1
    <3> QED BY <1>3, <2>1, <2>2, <3>1
  <2>4. Predicted(d) \in 0 .. Len(model_buffers) BY DEF ModelsFollowInput
  <2>5. ASSUME NEW k \in 1 .. (Len(inside[d]) + 1) PROVE held[d][k] = queue[Predicted(d) + k]
    <3>1. CASE k \in 1 .. Len(inside[d])
      <4>1. held[d][k] = input_buffers[Predicted(d) + k]
        BY <2>2, <3>1 DEF ModelsFollowInput
      <4>2. Predicted(d) + k \in 1 .. Len(input_buffers)
        BY <1>2, <2>1, <2>4, <3>1 DEF Predicted
      <4> QED BY <1>2, <4>1, <4>2
    <3>2. CASE k = Len(inside[d]) + 1
      <4>1. Predicted(d) + k = Len(input_buffers) + 1 BY <3>2, PredictedIs
      <4> QED BY <1>2, <2>2, <3>2, <4>1
    <3> QED BY <2>1, <3>1, <3>2
  <2> QED BY <2>1, <2>2, <2>3, <2>4, <2>5
<1> HIDE DEF held
<1>5. ASSUME NEW d \in Directions
      PROVE  /\ out[d] \in Seq(InputBuffers) /\ Len(out[d]) = n[d]
             /\ \A k \in 1 .. Len(out[d]) : out[d][k] = queue[Predicted(d) + k]
             /\ Predicted(d) + n[d] \in 0 .. Len(queue)
  <2>1. out[d] = SubSeq(held[d], 1, n[d]) OBVIOUS
  <2> HIDE DEF out
  <2>2. n[d] \in 0 .. Len(held[d]) /\ Len(held[d]) \in Nat BY <1>4
  <2>3. /\ out[d] \in Seq(InputBuffers) /\ Len(out[d]) = n[d]
        /\ \A k \in 1 .. n[d] : out[d][k] = held[d][k]
    BY <1>4, <2>1, <2>2, PrefixAndSuffix
  <2>4. Predicted(d) + n[d] \in 0 .. Len(queue) BY <1>2, <1>4, PredictedIs
  <2>5. \A k \in 1 .. n[d] : k \in 1 .. Len(held[d]) BY <2>2
  <2> QED BY <1>4, <2>3, <2>4, <2>5
<1>6. out \in [Directions -> Seq(InputBuffers)] BY <1>5
<1> HIDE DEF out
<1>7. /\ Extracted(out) \in Seq([Directions -> InputBuffers \cup {None}])
      /\ Len(Extracted(out)) <= Len(queue)
      /\ \A d \in Directions :
            /\ Predicted(d) + Len(out[d]) <= Len(Extracted(out))
            /\ \A i \in 1 .. Len(Extracted(out)) :
                  Extracted(out)[i][d] = IF i <= Predicted(d) + Len(out[d])
                                         THEN queue[i] ELSE None
  <2>1. Len(input_buffers) <= Len(queue) BY <1>2
  <2>2. \A d \in Directions : Predicted(d) + Len(out[d]) <= Len(queue) BY <1>2, <1>5
  <2>3. \A d \in Directions : \A k \in 1 .. Len(out[d]) :
            out[d][k] = queue[Predicted(d) + k]
    BY <1>5
  <2> QED BY <1>2, <1>6, <2>1, <2>2, <2>3, ExtractedFollows
<1>8. model_buffers' = Extracted(out) BY <1>1 DEF out
<1>9. ASSUME NEW d \in Directions
      PROVE  /\ inside'[d] \in Seq(InputBuffers)
             /\ (Predicted(d))' = Predicted(d) + n[d]
             /\ \A k \in 1 .. Len(inside'[d]) : inside'[d][k] = queue[Predicted(d) + n[d] + k]
  <2>1. inside'[d] = SubSeq(held[d], n[d] + 1, Len(held[d])) BY <1>1
  <2>2. /\ inside'[d] \in Seq(InputBuffers) /\ Len(inside'[d]) = Len(held[d]) - n[d]
        /\ \A k \in 1 .. Len(held[d]) - n[d] : inside'[d][k] = held[d][n[d] + k]
    <3>1. n[d] \in 0 .. Len(held[d]) /\ held[d] \in Seq(InputBuffers) BY <1>4
    <3>2. LET s == SubSeq(held[d], n[d] + 1, Len(held[d]))
          IN  /\ s \in Seq(InputBuffers) /\ Len(s) = Len(held[d]) - n[d]
              /\ \A k \in 1 .. Len(held[d]) - n[d] : s[k] = held[d][n[d] + k]
      BY <3>1, PrefixAndSuffix
    <3> QED BY <2>1, <3>2, Zenon
  <2>3. (Predicted(d))' = Predicted(d) + n[d]
    <3>1. (Predicted(d))' = Len(queue) - Len(inside'[d]) BY <1>2 DEF Predicted
    <3>2. Len(inside'[d]) = (Len(inside[d]) + 1) - n[d] BY <1>4, <2>2
    <3>3. /\ Len(input_buffers) \in Nat /\ Len(inside[d]) \in Nat /\ n[d] \in Nat
          /\ Predicted(d) \in Int /\ Predicted(d) + Len(inside[d]) = Len(input_buffers)
      BY <1>2, <1>4, PredictedIs
    <3>4. Len(queue) = Len(input_buffers) + 1 BY <1>2
    <3>5. Len(queue) - Len(inside'[d]) = Predicted(d) + n[d]
      <4>1. PICK i, h, m, p, q, t :
               /\ i = Len(input_buffers) /\ h = Len(inside[d]) /\ m = n[d]
               /\ p = Predicted(d) /\ q = Len(queue) /\ t = Len(inside'[d])
        OBVIOUS
      <4>2. i \in Int /\ h \in Int /\ m \in Int /\ p \in Int BY <3>3, <4>1
      <4>3. q = i + 1 BY <3>4, <4>1
      <4>4. t = (h + 1) - m BY <3>2, <4>1
      <4>5. p + h = i BY <3>3, <4>1
      <4>6. q - t = p + m BY <4>2, <4>3, <4>4, <4>5, StillInside
      <4> QED BY <4>1, <4>6
    <3> QED BY <3>1, <3>5
  <2>4. ASSUME NEW k \in 1 .. (Len(held[d]) - n[d])
        PROVE  inside'[d][k] = queue[Predicted(d) + n[d] + k]
    <3>1. n[d] + k \in 1 .. Len(held[d]) BY <1>4
    <3>2. held[d][n[d] + k] = queue[Predicted(d) + (n[d] + k)] BY <1>4, <3>1
    <3>3. Predicted(d) + (n[d] + k) = Predicted(d) + n[d] + k
      BY <1>4 DEF CalTypes, ModelTypes
    <3> QED BY <2>2, <3>2, <3>3
  <2> QED BY <2>2, <2>3, <2>4
<1>10. ModelTypes'
  <2>1. inside' = [d \in Directions |-> inside'[d]] BY <1>1
  <2> QED BY <1>2, <1>7, <1>8, <1>9, <2>1 DEF ModelTypes
<1>11. ModelsFollowInput'
  <2> SUFFICES ASSUME NEW d \in Directions
               PROVE  /\ (Predicted(d))' \in 0 .. Len(model_buffers')
                      /\ \A k \in 1 .. Len(inside'[d]) :
                            inside'[d][k] = input_buffers'[(Predicted(d))' + k]
                      /\ \A i \in 1 .. Len(model_buffers') :
                            model_buffers'[i][d] = IF i <= (Predicted(d))'
                                                   THEN input_buffers'[i] ELSE None
    BY <1>2, <1>7, <1>8 DEF ModelsFollowInput
  <2>1. Len(model_buffers') \in Nat BY <1>7, <1>8
  <2>2. Predicted(d) + n[d] \in 0 .. Len(model_buffers') BY <1>5, <1>7, <1>8, <2>1
  <2> QED BY <1>2, <1>5, <1>7, <1>8, <1>9, <2>2
<1> QED BY <1>10, <1>11

\* finish(): the predict steps return all that they hold.
LEMMA FinishModels ==
  ASSUME CalTypes, ModelsFollowInput, Finish
  PROVE  ModelTypes' /\ ModelsFollowInput'
<1>1. /\ input_buffers \in Seq(InputBuffers) /\ Len(input_buffers) \in Nat
      /\ inside \in [Directions -> Seq(InputBuffers)]
  BY DEF CalTypes, ModelTypes
<1>2. /\ inside' = [d \in Directions |-> <<>>] /\ input_buffers' = input_buffers
      /\ model_buffers' = Extracted(inside)
  BY DEF Finish
<1>3. \A d \in Directions : Predicted(d) + Len(inside[d]) = Len(input_buffers)
  BY PredictedIs
<1>4. /\ Extracted(inside) \in Seq([Directions -> InputBuffers \cup {None}])
      /\ Len(Extracted(inside)) <= Len(input_buffers)
      /\ \A d \in Directions :
            /\ Predicted(d) + Len(inside[d]) <= Len(Extracted(inside))
            /\ \A i \in 1 .. Len(Extracted(inside)) :
                  Extracted(inside)[i][d] = IF i <= Predicted(d) + Len(inside[d])
                                            THEN input_buffers[i] ELSE None
  <2>1. \A d \in Directions : Predicted(d) + Len(inside[d]) <= Len(input_buffers)
    BY <1>1, <1>3
  <2>2. \A d \in Directions : \A k \in 1 .. Len(inside[d]) :
            inside[d][k] = input_buffers[Predicted(d) + k]
    BY DEF ModelsFollowInput
  <2>3. Len(input_buffers) <= Len(input_buffers) BY <1>1
  <2>4. \A i \in 1 .. Len(input_buffers) : input_buffers[i] = input_buffers[i] OBVIOUS
  <2> QED BY <1>1, <2>1, <2>2, <2>3, <2>4, ExtractedFollows, Zenon
<1>5. \A d \in Directions : (Predicted(d))' = Len(input_buffers)
  BY <1>1, <1>2 DEF Predicted
<1>6. ModelTypes' BY <1>1, <1>2, <1>4 DEF ModelTypes
<1>7. ModelsFollowInput'
  <2>1. Len(model_buffers') \in Nat BY <1>2, <1>4
  <2>2. \A d \in Directions : inside'[d] = <<>> BY <1>2
  <2>3. \A d \in Directions : (Predicted(d))' \in 0 .. Len(model_buffers')
    BY <1>1, <1>2, <1>3, <1>4, <1>5, <2>1
  <2> QED BY <1>1, <1>2, <1>3, <1>4, <1>5, <2>1, <2>2, <2>3 DEF ModelsFollowInput
<1> QED BY <1>6, <1>7

\* The front buffer leaves both queues.
LEMMA AppendFrontModels ==
  ASSUME CalTypes, ModelsFollowInput, AppendFront
  PROVE  ModelTypes' /\ ModelsFollowInput'
<1>1. /\ input_buffers \in Seq(InputBuffers) /\ input_buffers # <<>>
      /\ model_buffers \in Seq([Directions -> InputBuffers \cup {None}])
      /\ model_buffers # <<>>
      /\ inside \in [Directions -> Seq(InputBuffers)]
  BY DEF CalTypes, ModelTypes, AppendFront, FrontIsPredicted
<1>2. /\ input_buffers' = Tail(input_buffers) /\ model_buffers' = Tail(model_buffers)
      /\ inside' = inside
      /\ \A d \in Directions : model_buffers[1][d] # None
  BY <1>1 DEF AppendFront, FrontIsPredicted, inputVars
<1>3. /\ Len(input_buffers) \in Nat /\ Len(model_buffers) \in Nat
      /\ Len(model_buffers) >= 1 /\ Len(input_buffers) >= 1
      /\ Len(model_buffers) <= Len(input_buffers)
  BY <1>1 DEF ModelsFollowInput
<1>4. /\ input_buffers' \in Seq(InputBuffers)
      /\ Len(input_buffers') = Len(input_buffers) - 1
      /\ \A i \in 1 .. Len(input_buffers') : input_buffers'[i] = input_buffers[i + 1]
  BY <1>1, <1>2
<1>5. /\ model_buffers' \in Seq([Directions -> InputBuffers \cup {None}])
      /\ Len(model_buffers') = Len(model_buffers) - 1
      /\ \A i \in 1 .. Len(model_buffers') : model_buffers'[i] = model_buffers[i + 1]
  BY <1>1, <1>2
<1>6. ModelTypes' BY <1>1, <1>2, <1>4, <1>5 DEF ModelTypes
<1>7. ASSUME NEW d \in Directions
      PROVE  /\ (Predicted(d))' = Predicted(d) - 1
             /\ Predicted(d) \in 1 .. Len(model_buffers)
             /\ Len(inside[d]) \in Nat
             /\ Predicted(d) + Len(inside[d]) = Len(input_buffers)
  <2>1. /\ Predicted(d) \in 0 .. Len(model_buffers)
        /\ model_buffers[1][d] = IF 1 <= Predicted(d) THEN input_buffers[1] ELSE None
    BY <1>3 DEF ModelsFollowInput
  <2>2. 1 <= Predicted(d) BY <1>2, <2>1
  <2>3. Len(inside[d]) \in Nat BY <1>1
  <2>4. (Predicted(d))' = Predicted(d) - 1 BY <1>2, <1>3, <1>4, <2>3 DEF Predicted
  <2>5. Predicted(d) + Len(inside[d]) = Len(input_buffers) BY PredictedIs
  <2> QED BY <1>3, <2>1, <2>2, <2>3, <2>4, <2>5
<1>8. ModelsFollowInput'
  <2>1. Len(model_buffers') <= Len(input_buffers') BY <1>3, <1>4, <1>5
  <2>2. ASSUME NEW d \in Directions
        PROVE  /\ (Predicted(d))' \in 0 .. Len(model_buffers')
               /\ \A k \in 1 .. Len(inside'[d]) :
                     inside'[d][k] = input_buffers'[(Predicted(d))' + k]
               /\ \A i \in 1 .. Len(model_buffers') :
                     model_buffers'[i][d] = IF i <= (Predicted(d))'
                                            THEN input_buffers'[i] ELSE None
    <3> DEFINE p == Predicted(d)
    <3>1. p \in 1 .. Len(model_buffers) /\ (Predicted(d))' = p - 1 BY <1>7
    <3>2. ASSUME NEW k \in 1 .. Len(inside[d])
          PROVE  inside[d][k] = input_buffers'[(p - 1) + k]
      <4>1. inside[d][k] = input_buffers[p + k] BY DEF ModelsFollowInput
      <4>2. /\ (p - 1) + k \in 1 .. (Len(input_buffers) - 1)
            /\ ((p - 1) + k) + 1 = p + k
        <5> HIDE DEF p
        <5>1. p \in Int /\ p >= 1 BY <1>3, <3>1
        <5>2. Len(inside[d]) \in Nat /\ p + Len(inside[d]) = Len(input_buffers)
          BY <1>7 DEF p
        <5> QED BY <1>3, <5>1, <5>2
      <4> QED BY <1>4, <4>1, <4>2
    <3>3. ASSUME NEW i \in 1 .. Len(model_buffers')
          PROVE  model_buffers'[i][d] = IF i <= p - 1 THEN input_buffers'[i] ELSE None
      <4>1. i + 1 \in 1 .. Len(model_buffers) /\ i \in 1 .. Len(input_buffers')
        BY <1>3, <1>4, <1>5
      <4>2. model_buffers[i + 1][d] = IF i + 1 <= p THEN input_buffers[i + 1] ELSE None
        BY <4>1 DEF ModelsFollowInput
      <4>3. i + 1 <= p <=> i <= p - 1 BY <1>3, <3>1, <4>1
      <4> QED BY <1>4, <1>5, <4>1, <4>2, <4>3
    <3>4. p - 1 \in 0 .. Len(model_buffers') BY <1>3, <1>5, <3>1
    <3> HIDE DEF p
    <3> QED BY <1>2, <3>1, <3>2, <3>3, <3>4
  <2> QED BY <2>1, <2>2 DEF ModelsFollowInput
<1> QED BY <1>6, <1>8

LEMMA ModelsStep ==
  ASSUME CalTypes, ModelsFollowInput, [CalNext]_vars
  PROVE  ModelTypes' /\ ModelsFollowInput'
<1>1. CASE \E rows \in InputBuffers : RowsInOrder(rows, read) /\ Process(rows)
  BY <1>1, ProcessModels
<1>2. CASE AppendFront BY <1>2, AppendFrontModels
<1>3. CASE Finish BY <1>3, FinishModels
<1>4. CASE \/ AppendEnds \/ SolveComplete \/ SolveEnds \/ ForwardDone
           \/ SolveRemaining \/ ForwardRemaining \/ FinishNextStep \/ UNCHANGED vars
  <2>1. UNCHANGED <<input_buffers, model_buffers, inside>>
    BY <1>4 DEF AppendEnds, SolveComplete, SolveEnds, ForwardDone, SolveRemaining,
                ForwardRemaining, FinishNextStep, vars, calVars, inputVars, queueVars
  <2>2. ModelTypes /\ ModelsFollowInput BY DEF CalTypes
  <2> QED BY <2>1, <2>2 DEF ModelTypes, ModelsFollowInput, Predicted
<1> QED BY <1>1, <1>2, <1>3, <1>4 DEF CalNext

(***************************************************************************)
(* The solver buffer under BdaDdeCal.                                      *)
(***************************************************************************)
LEMMA AppendFrontAccepts ==
  ASSUME CalTypes, QueueInOrder, SolverBufferIsFine, AppendFront, ~only_predict
  PROVE  /\ Head(input_buffers) \in Seq(Row)
         /\ RowsInOrder(Head(input_buffers), appended)
         /\ Accept(Head(input_buffers)) /\ ordered' = TRUE
         /\ TypeOK' /\ CompleteIsBehind'
<1> DEFINE rows == Head(input_buffers)
<1>1. input_buffers \in Seq(InputBuffers) /\ input_buffers # <<>>
  BY DEF CalTypes, ModelTypes, AppendFront
<1>2. rows = input_buffers[1] /\ 1 \in 1 .. Len(input_buffers) /\ rows \in InputBuffers
  BY <1>1
<1>3. rows \in Seq(Row) BY <1>2, InputAssumption
<1>4. RowsInOrder(rows, appended) BY <1>2 DEF QueueInOrder
<1>5. AppendAndWeight(rows) BY DEF AppendFront
<1> HIDE DEF rows
<1>6. NeverFailsInv /\ ordered
  BY DEF NeverFailsInv, NeverFails, CalTypes, CalTypeOK, SolverBufferIsFine, AppendFront
<1>7. Accept(rows) BY <1>3, <1>4, <1>5, <1>6, OrderedRowsPass DEF AppendAndWeight
<1>8. ordered' = TRUE BY <1>4, <1>5, <1>6 DEF AppendAndWeight
<1>9. TypeOK' BY <1>3, <1>6, <1>7, <1>8, AcceptType DEF NeverFailsInv
<1>10. CompleteIsBehind' BY <1>3, <1>4, <1>6, <1>7, AcceptIsBehind
<1> QED BY <1>3, <1>4, <1>7, <1>8, <1>9, <1>10 DEF rows

LEMMA BufferStep ==
  ASSUME CalTypes, QueueInOrder, SolverBufferIsFine, [CalNext]_vars
  PROVE  TypeOK' /\ SolverBufferIsFine'
<1>0. TypeOK /\ only_predict \in BOOLEAN BY DEF CalTypes, CalTypeOK
<1>1. CASE AppendFront /\ ~only_predict
  <2>1. only_predict' = only_predict /\ Accept(Head(input_buffers))
    BY <1>1, AppendFrontAccepts DEF AppendFront, inputVars
  <2>2. ordered' = TRUE /\ TypeOK' /\ CompleteIsBehind' BY <1>1, AppendFrontAccepts
  <2> QED BY <1>1, <2>1, <2>2 DEF Accept, SolverBufferIsFine
<1>2. CASE SolveComplete \/ SolveRemaining
  <2>1. AdvanceInterval /\ only_predict' = only_predict /\ pc' = pc
    BY <1>2 DEF SolveComplete, SolveRemaining, inputVars
  <2>2. TypeOK' BY <1>0, <2>1, AdvanceType
  <2>3. status' = "ok" /\ ordered'
    BY <2>1 DEF AdvanceInterval, SolverBufferIsFine
  <2>4. pc' \in {"idle", "append", "solve", "forward"} => CompleteIsBehind'
    <3>1. CASE SolveComplete
      <4>1. NeverFailsInv
        BY <1>0, <3>1 DEF NeverFailsInv, NeverFails, SolveComplete, SolverBufferIsFine
      <4>2. Next BY <3>1 DEF SolveComplete, AdvanceComplete, Next
      <4> QED BY <4>1, <4>2, NeverFailsStep DEF NeverFailsInv
    <3>2. CASE SolveRemaining BY <2>1, <3>2 DEF SolveRemaining
    <3> QED BY <1>2, <3>1, <3>2
  <2>5. ASSUME only_predict' PROVE data' = <<>> /\ done' = <<>>
    <3> DEFINE n == Released(current_interval + 1)
    <3>1. data = <<>> /\ done = <<>> BY <2>1, <2>5 DEF SolverBufferIsFine
    <3>2. current_interval + 1 \in Nat BY <1>0 DEF TypeOK
    <3>3. n \in 0 .. Len(data) BY <1>0, <3>2, ReleasedIsPrefix
    <3>4. data' = SubSeq(data, n + 1, Len(data)) /\ done' = done \o SubSeq(data, 1, n)
      BY <2>1 DEF AdvanceInterval
    <3> HIDE DEF n
    <3>5. n = 0 BY <3>1, <3>3
    <3>6. data' = <<>> /\ SubSeq(data, 1, n) = <<>> BY <3>1, <3>4, <3>5
    <3> QED BY <3>1, <3>4, <3>6
  <2> QED BY <2>2, <2>3, <2>4, <2>5 DEF SolverBufferIsFine
<1>3. CASE ForwardDone \/ ForwardRemaining
  <2>1. GetDone /\ only_predict' = only_predict
    BY <1>3 DEF ForwardDone, ForwardRemaining, inputVars
  <2>2. ordered' \in BOOLEAN BY <1>0, <2>1 DEF GetDone, TypeOK
  <2>3. TypeOK' BY <1>0, <2>1, <2>2, OthersType
  <2>4. pc' \in {"idle", "append", "solve", "forward"} => pc = "forward"
    BY <1>3 DEF ForwardDone, ForwardRemaining
  <2> QED BY <2>1, <2>3, <2>4 DEF GetDone, SolverBufferIsFine, CompleteIsBehind
<1>4. CASE \/ \E rows \in InputBuffers : RowsInOrder(rows, read) /\ Process(rows)
           \/ AppendFront /\ only_predict
           \/ AppendEnds \/ SolveEnds \/ Finish \/ FinishNextStep \/ UNCHANGED vars
  <2>1. UNCHANGED <<bufVars, only_predict>>
    BY <1>4 DEF Process, AppendFront, AppendEnds, SolveEnds, Finish, FinishNextStep,
                inputVars, vars, calVars
  <2>2. ordered' \in BOOLEAN BY <1>0, <2>1 DEF bufVars, TypeOK
  <2>3. TypeOK' BY <1>0, <2>1, <2>2, OthersType
  <2>4. pc' \in {"idle", "append", "solve", "forward"}
          => pc \in {"idle", "append", "solve", "forward"}
    BY <1>4 DEF Process, AppendFront, AppendEnds, SolveEnds, Finish, FinishNextStep,
                vars, calVars
  <2> QED BY <2>1, <2>3, <2>4 DEF bufVars, SolverBufferIsFine, CompleteIsBehind
<1> QED BY <1>0, <1>1, <1>2, <1>3, <1>4 DEF CalNext

(***************************************************************************)
(* The order of the queue.                                                 *)
(***************************************************************************)
LEMMA AfterLastRow ==
  ASSUME NEW rows \in Seq(Row), NEW from \in [Baselines -> Nat], RowsInOrder(rows, from),
         NEW r \in Rng(rows)
  PROVE  /\ r \in Row /\ r.bl \in BaselinesOf(rows) /\ r.bl \in Baselines
         /\ from[r.bl] <= r.start
         /\ LastRow(rows, r.bl) \in Rng(rows) /\ LastRow(rows, r.bl).bl = r.bl
         /\ EndOf(r) <= EndOf(LastRow(rows, r.bl))
<1>1. PICK i \in DOMAIN rows : r = rows[i] BY DEF Rng
<1>2. r \in Row /\ r.bl \in BaselinesOf(rows) /\ r.bl \in Baselines
  BY RowsOf DEF BaselinesOf, Row
<1>3. PICK j \in DOMAIN rows : /\ LastRow(rows, r.bl) = rows[j] /\ rows[j].bl = r.bl
                               /\ i <= j
  BY <1>1, <1>2, LastRowExists
<1>4. rows[j] \in Row /\ rows[j].start \in Nat /\ rows[j].len \in Nat
  <2>1. rows[j] \in Row BY RowsOf
  <2> QED BY <2>1 DEF Row
<1>5. r.start \in Nat /\ r.len \in Nat BY <1>2 DEF Row
<1>6. EndOf(r) <= EndOf(rows[j])
  <2>1. CASE i = j BY <1>1, <1>4, <2>1 DEF EndOf
  <2>2. CASE i # j
    <3>1. i < j BY <1>3, <2>2, RowsOf
    <3>2. rows[i].start + rows[i].len <= rows[j].start
      BY <1>1, <1>3, <3>1 DEF RowsInOrder
    <3> QED BY <1>1, <1>4, <1>5, <3>2 DEF EndOf
  <2> QED BY <2>1, <2>2
<1>7. from[r.bl] <= r.start BY <1>1 DEF RowsInOrder
<1> QED BY <1>2, <1>3, <1>6, <1>7 DEF Rng

LEMMA ProcessQueue ==
  ASSUME CalTypes, QueueInOrder, NEW rows \in InputBuffers, RowsInOrder(rows, read),
         Process(rows)
  PROVE  read' \in [Baselines -> Nat] /\ QueueInOrder'
<1>1. /\ rows \in Seq(Row) /\ read \in [Baselines -> Nat]
      /\ appended \in [Baselines -> Nat] /\ TypeOK
  BY InputAssumption DEF CalTypes, CalTypeOK, TypeOK
<1>2. /\ read' = ReadAfter(rows) /\ appended' = appended
      /\ input_buffers' = Append(input_buffers, rows)
  BY DEF Process, bufVars
<1>3. ASSUME NEW b \in Baselines PROVE read'[b] \in Nat /\ read[b] <= read'[b]
  <2>1. CASE b \in BaselinesOf(rows)
    <3>1. read'[b] = EndOf(LastRow(rows, b)) BY <1>2, <2>1 DEF ReadAfter
    <3>2. PICK i \in DOMAIN rows : LastRow(rows, b) = rows[i] /\ rows[i].bl = b
      BY <1>1, <2>1, LastRowExists
    <3>3. rows[i] \in Row BY <1>1, RowsOf
    <3>4. /\ EndOf(rows[i]) \in Nat /\ rows[i].start \in Nat
          /\ rows[i].start <= EndOf(rows[i])
      BY <1>1, <3>3, RelativeTypes
    <3>5. read[b] <= rows[i].start BY <3>2 DEF RowsInOrder
    <3> QED BY <1>1, <3>1, <3>2, <3>4, <3>5
  <2>2. CASE b \notin BaselinesOf(rows) BY <1>1, <1>2, <2>2 DEF ReadAfter
  <2> QED BY <2>1, <2>2
<1>4. read' \in [Baselines -> Nat] BY <1>2, <1>3 DEF ReadAfter
<1>5. \A b \in Baselines : appended'[b] <= read'[b]
  BY <1>1, <1>2, <1>3 DEF QueueInOrder
<1>6. ASSUME NEW r \in Rng(rows) PROVE EndOf(r) <= read'[r.bl]
  BY <1>1, <1>2, AfterLastRow DEF ReadAfter
<1>7. RowsInOrder(rows, appended)
  <2>1. ASSUME NEW i \in DOMAIN rows PROVE appended[rows[i].bl] <= rows[i].start
    <3>1. rows[i] \in Row BY <1>1, RowsOf
    <3>2. rows[i].bl \in Baselines /\ rows[i].start \in Nat BY <3>1 DEF Row
    <3>3. appended[rows[i].bl] <= read[rows[i].bl] BY <3>2 DEF QueueInOrder
    <3>4. read[rows[i].bl] <= rows[i].start BY DEF RowsInOrder
    <3> QED BY <1>1, <3>2, <3>3, <3>4
  <2> QED BY <2>1 DEF RowsInOrder
<1> DEFINE n == Len(input_buffers)
<1>8. /\ input_buffers \in Seq(InputBuffers) /\ n \in Nat
      /\ Len(input_buffers') = n + 1
      /\ \A i \in 1 .. n : input_buffers'[i] = input_buffers[i]
      /\ input_buffers'[n + 1] = rows
  BY <1>2 DEF CalTypes, ModelTypes
<1> HIDE DEF n
<1>9. ASSUME NEW i \in 1 .. n, NEW r \in Rng(input_buffers[i])
      PROVE  r.bl \in Baselines /\ EndOf(r) \in Nat /\ EndOf(r) <= read[r.bl]
  <2>1. i \in 1 .. Len(input_buffers) BY DEF n
  <2>2. input_buffers[i] \in Seq(Row) BY <1>8, <2>1, InputAssumption
  <2>3. r \in Row BY <2>2, RowsOf
  <2> QED BY <1>1, <2>1, <2>3, RelativeTypes DEF QueueInOrder
<1>10. ASSUME NEW i \in 1 .. (n + 1)
       PROVE  /\ RowsInOrder(input_buffers'[i], appended')
              /\ \A r \in Rng(input_buffers'[i]) : EndOf(r) <= read'[r.bl]
              /\ \A j \in 1 .. (n + 1) : i < j =>
                    \A r \in Rng(input_buffers'[i]), s \in Rng(input_buffers'[j]) :
                        r.bl = s.bl => EndOf(r) <= s.start
  <2>1. CASE i = n + 1 BY <1>2, <1>6, <1>7, <1>8, <2>1
  <2>2. CASE i \in 1 .. n
    <3>0. n = Len(input_buffers) BY DEF n
    <3>1. RowsInOrder(input_buffers'[i], appended')
      BY <1>2, <1>8, <2>2, <3>0 DEF QueueInOrder
    <3>2. ASSUME NEW r \in Rng(input_buffers'[i]) PROVE EndOf(r) <= read'[r.bl]
      <4>1. r.bl \in Baselines /\ EndOf(r) \in Nat /\ EndOf(r) <= read[r.bl]
        BY <1>8, <1>9, <2>2
      <4> QED BY <1>1, <1>3, <4>1
    <3>3. ASSUME NEW j \in 1 .. (n + 1), i < j, NEW r \in Rng(input_buffers'[i]),
                 NEW s \in Rng(input_buffers'[j]), r.bl = s.bl
          PROVE  EndOf(r) <= s.start
      <4>1. CASE j \in 1 .. n BY <1>8, <2>2, <3>0, <3>3, <4>1 DEF QueueInOrder
      <4>2. CASE j = n + 1
        <5>1. s \in Rng(rows) BY <1>8, <4>2
        <5>2. s \in Row /\ read[s.bl] <= s.start BY <1>1, <5>1, AfterLastRow
        <5>3. s.start \in Nat BY <5>2 DEF Row
        <5>4. r.bl \in Baselines /\ EndOf(r) \in Nat /\ EndOf(r) <= read[r.bl]
          BY <1>8, <1>9, <2>2
        <5>5. read[r.bl] \in Nat BY <1>1, <5>4
        <5> QED BY <3>3, <5>2, <5>3, <5>4, <5>5
      <4> QED BY <1>8, <4>1, <4>2
    <3> QED BY <3>1, <3>2, <3>3
  <2> QED BY <1>8, <2>1, <2>2
<1> QED BY <1>4, <1>5, <1>8, <1>10 DEF QueueInOrder

LEMMA AppendFrontQueue ==
  ASSUME CalTypes, QueueInOrder, SolverBufferIsFine, AppendFront
  PROVE  QueueInOrder'
<1> DEFINE rows == Head(input_buffers)
           n == Len(input_buffers)
<1>1. /\ input_buffers \in Seq(InputBuffers) /\ n \in Nat /\ n >= 1
      /\ input_buffers' = Tail(input_buffers) /\ rows = input_buffers[1]
      /\ rows \in InputBuffers
      /\ Len(input_buffers') = n - 1
      /\ \A i \in 1 .. (n - 1) : input_buffers'[i] = input_buffers[i + 1]
  BY DEF CalTypes, ModelTypes, AppendFront
<1>2. /\ read' = read /\ read \in [Baselines -> Nat] /\ appended \in [Baselines -> Nat]
      /\ TypeOK
  BY DEF AppendFront, inputVars, CalTypes, CalTypeOK, TypeOK
<1>3. rows \in Seq(Row) BY <1>1, InputAssumption
<1>4. appended' = appended \/ appended' = AppendedAfter(rows)
  BY AppendFrontAccepts DEF AppendFront, Accept, bufVars
<1>5. n = Len(input_buffers) OBVIOUS
<1> HIDE DEF n, rows
<1>6. ASSUME NEW b \in Baselines, appended'[b] # appended[b]
      PROVE  \E r \in Rng(input_buffers[1]) : r.bl = b /\ appended'[b] = EndOf(r)
  <2>1. b \in BaselinesOf(rows) /\ appended'[b] = EndOf(LastRow(rows, b))
    BY <1>2, <1>4, <1>6 DEF AppendedAfter
  <2>2. PICK i \in DOMAIN rows : LastRow(rows, b) = rows[i] /\ rows[i].bl = b
    BY <1>3, <2>1, LastRowExists
  <2> QED BY <1>1, <2>1, <2>2 DEF Rng
<1>7. ASSUME NEW b \in Baselines PROVE appended'[b] <= read'[b]
  <2>1. CASE appended'[b] = appended[b] BY <1>2, <2>1 DEF QueueInOrder
  <2>2. CASE appended'[b] # appended[b] BY <1>1, <1>2, <1>5, <1>6, <2>2 DEF QueueInOrder
  <2> QED BY <2>1, <2>2
<1>8. ASSUME NEW i \in 1 .. (n - 1)
      PROVE  RowsInOrder(input_buffers'[i], appended')
  <2>1. i + 1 \in 1 .. n /\ 1 < i + 1 /\ 1 \in 1 .. n BY <1>1
  <2> DEFINE later == input_buffers[i + 1]
  <2>2. later \in Seq(Row) BY <1>1, <1>5, <2>1, InputAssumption
  <2>3. RowsInOrder(later, appended) BY <1>5, <2>1 DEF QueueInOrder
  <2>4. \A r \in Rng(input_buffers[1]), s \in Rng(later) : r.bl = s.bl => EndOf(r) <= s.start
    BY <1>5, <2>1 DEF QueueInOrder
  <2>5. input_buffers'[i] = later BY <1>1
  <2> HIDE DEF later
  <2>6. ASSUME NEW k \in DOMAIN later PROVE appended'[later[k].bl] <= later[k].start
    <3>1. later[k] \in Row /\ later[k] \in Rng(later) BY <2>2, RowsOf DEF Rng
    <3>2. later[k].bl \in Baselines BY <3>1 DEF Row
    <3>3. CASE appended'[later[k].bl] = appended[later[k].bl]
      BY <2>3, <3>3 DEF RowsInOrder
    <3>4. CASE appended'[later[k].bl] # appended[later[k].bl]
      BY <1>6, <2>4, <3>1, <3>2, <3>4
    <3> QED BY <3>3, <3>4
  <2>7. RowsInOrder(later, appended') BY <2>3, <2>6 DEF RowsInOrder
  <2> QED BY <2>5, <2>7
<1>9. ASSUME NEW i \in 1 .. (n - 1)
      PROVE  /\ \A r \in Rng(input_buffers'[i]) : EndOf(r) <= read'[r.bl]
             /\ \A j \in 1 .. (n - 1) : i < j =>
                   \A r \in Rng(input_buffers'[i]), s \in Rng(input_buffers'[j]) :
                       r.bl = s.bl => EndOf(r) <= s.start
  <2>1. i + 1 \in 1 .. n BY <1>1
  <2>2. \A r \in Rng(input_buffers'[i]) : EndOf(r) <= read'[r.bl]
    BY <1>1, <1>2, <1>5, <2>1 DEF QueueInOrder
  <2>3. ASSUME NEW j \in 1 .. (n - 1), i < j
        PROVE  \A r \in Rng(input_buffers'[i]), s \in Rng(input_buffers'[j]) :
                   r.bl = s.bl => EndOf(r) <= s.start
    <3>1. j + 1 \in 1 .. n /\ i + 1 < j + 1 BY <1>1, <2>3
    <3>2. \A r \in Rng(input_buffers[i + 1]), s \in Rng(input_buffers[j + 1]) :
              r.bl = s.bl => EndOf(r) <= s.start
      BY <1>5, <2>1, <3>1 DEF QueueInOrder
    <3> QED BY <1>1, <3>2
  <2> QED BY <2>2, <2>3
<1> QED BY <1>1, <1>7, <1>8, <1>9 DEF QueueInOrder

LEMMA QueueStep ==
  ASSUME CalTypes, QueueInOrder, SolverBufferIsFine, [CalNext]_vars
  PROVE  read' \in [Baselines -> Nat] /\ QueueInOrder'
<1>0. read \in [Baselines -> Nat] BY DEF CalTypes, CalTypeOK
<1>1. CASE \E rows \in InputBuffers : RowsInOrder(rows, read) /\ Process(rows)
  BY <1>1, ProcessQueue
<1>2. CASE AppendFront BY <1>0, <1>2, AppendFrontQueue DEF AppendFront, inputVars
<1>3. CASE \/ AppendEnds \/ SolveComplete \/ SolveEnds \/ ForwardDone \/ Finish
           \/ SolveRemaining \/ ForwardRemaining \/ FinishNextStep \/ UNCHANGED vars
  <2>1. UNCHANGED <<input_buffers, read, appended>>
    BY <1>3 DEF AppendEnds, SolveComplete, SolveEnds, ForwardDone, SolveRemaining, Finish,
                ForwardRemaining, FinishNextStep, AdvanceInterval, GetDone,
                vars, calVars, bufVars, inputVars, queueVars
  <2> QED BY <1>0, <2>1 DEF QueueInOrder
<1> QED BY <1>1, <1>2, <1>3 DEF CalNext

(***************************************************************************)
(* finish(): with nothing held back, the loop of ProcessCompleteDirections *)
(* ends only when the queue is empty.                                      *)
(***************************************************************************)
LEMMA QueueIsEmptied ==
  ASSUME CalTypes, ModelsFollowInput, \A d \in Directions : inside[d] = <<>>,
         ~FrontIsPredicted
  PROVE  input_buffers = <<>>
<1> SUFFICES ASSUME input_buffers # <<>> PROVE FALSE OBVIOUS
<1>1. input_buffers \in Seq(InputBuffers) /\ Len(input_buffers) \in Nat
  BY DEF CalTypes, ModelTypes
<1>2. Len(input_buffers) >= 1 /\ input_buffers[1] \in InputBuffers BY <1>1
<1>3. \A d \in Directions : Predicted(d) = Len(input_buffers)
  BY <1>1 DEF Predicted
<1>4. PICK d \in Directions : TRUE BY DirectionsAssumption
<1>5. Len(model_buffers) \in Nat /\ Len(model_buffers) >= Len(input_buffers)
  BY <1>1, <1>3, <1>4, PredictedIs DEF CalTypes, ModelTypes
<1>6. 1 \in 1 .. Len(model_buffers) BY <1>1, <1>2, <1>5
<1>7. \A e \in Directions : model_buffers[1][e] = input_buffers[1]
  BY <1>2, <1>3, <1>6 DEF ModelsFollowInput
<1>8. \A e \in Directions : model_buffers[1][e] # None BY <1>2, <1>7, NoneAssumption
<1>9. model_buffers # <<>> /\ Head(model_buffers) = model_buffers[1]
  BY <1>6 DEF CalTypes, ModelTypes
<1> QED BY <1>8, <1>9 DEF FrontIsPredicted

LEMMA RemainsStep ==
  ASSUME CalTypes, ModelsFollowInput, SolverBufferIsFine, NothingRemains, [CalNext]_vars
  PROVE  NothingRemains'
<1>0. /\ pc \in {"idle", "append", "solve", "forward", "drain", "close", "finished"}
      /\ finishing \in BOOLEAN /\ only_predict \in BOOLEAN
  BY DEF CalTypes, CalTypeOK
<1>1. CASE \E rows \in InputBuffers : RowsInOrder(rows, read) /\ Process(rows)
  <2>1. pc = "idle" /\ pc' = "append" /\ finishing' = finishing BY <1>1 DEF Process
  <2> QED BY <1>0, <2>1 DEF NothingRemains
<1>2. CASE AppendFront
  <2>1. pc = "append" /\ UNCHANGED <<pc, finishing, inside>>
    BY <1>2 DEF AppendFront, inputVars
  <2> QED BY <1>0, <2>1 DEF NothingRemains
<1>3. CASE AppendEnds
  <2>1. /\ ~FrontIsPredicted
        /\ UNCHANGED <<finishing, inside, input_buffers, data, done>>
        /\ pc' = IF ~only_predict THEN "solve" ELSE IF finishing THEN "close" ELSE "idle"
    BY <1>3 DEF AppendEnds, inputVars, queueVars, bufVars
  <2>2. finishing => input_buffers = <<>>
    BY <2>1, QueueIsEmptied DEF NothingRemains
  <2>3. only_predict => data = <<>> /\ done = <<>> BY DEF SolverBufferIsFine
  <2> QED BY <1>0, <2>1, <2>2, <2>3 DEF NothingRemains
<1>4. CASE Finish
  <2>1. /\ pc' = "append" /\ inside' = [d \in Directions |-> <<>>] BY <1>4 DEF Finish
  <2> QED BY <2>1 DEF NothingRemains
<1>5. CASE SolveComplete \/ SolveRemaining
  <2>1. UNCHANGED <<pc, finishing, inside, input_buffers>> /\ pc \in {"solve", "drain"}
    BY <1>5 DEF SolveComplete, SolveRemaining, inputVars, queueVars
  <2> QED BY <1>0, <2>1 DEF NothingRemains
<1>6. CASE SolveEnds \/ ForwardDone
  <2>1. /\ UNCHANGED <<finishing, inside, input_buffers>> /\ pc \in {"solve", "forward"}
        /\ \/ pc' = "forward" \/ pc' = IF finishing THEN "drain" ELSE "idle"
    BY <1>6 DEF SolveEnds, ForwardDone, inputVars, queueVars
  <2> QED BY <1>0, <2>1 DEF NothingRemains
<1>7. CASE ForwardRemaining
  <2>1. /\ UNCHANGED <<finishing, inside, input_buffers>> /\ pc = "drain" /\ pc' = "close"
        /\ data = <<>> /\ data' = data /\ done' = <<>>
    BY <1>7 DEF ForwardRemaining, BuffersRemain, GetDone, inputVars, queueVars
  <2> QED BY <1>0, <2>1 DEF NothingRemains
<1>8. CASE FinishNextStep \/ UNCHANGED vars
  <2>1. /\ UNCHANGED <<finishing, inside, input_buffers, data, done>>
        /\ pc' = pc \/ (pc = "close" /\ pc' = "finished")
    BY <1>8 DEF FinishNextStep, vars, calVars, bufVars, inputVars, queueVars
  <2> QED BY <1>0, <2>1 DEF NothingRemains
<1> QED BY <1>1, <1>2, <1>3, <1>4, <1>5, <1>6, <1>7, <1>8 DEF CalNext

(***************************************************************************)
(* No buffer is lost: each action moves buffers along                      *)
(* forwarded \o done \o data \o input_buffers, or adds one at its end.     *)
(***************************************************************************)
LEMMA AppendMoves ==
  ASSUME NEW S, NEW s \in Seq(S), NEW t \in Seq(S), NEW x \in S
  PROVE  s \o Append(t, x) = Append(s \o t, x)
<1>1. Append(t, x) = t \o <<x>> BY AppendIsConcat
<1>2. s \o t \in Seq(S) /\ Append(s \o t, x) = (s \o t) \o <<x>>
  <2>1. s \o t \in Seq(S) BY ConcatProperties
  <2> QED BY <2>1, AppendIsConcat
<1>3. PICK u : u = <<x>> OBVIOUS
<1>4. (s \o t) \o u = s \o (t \o u)
  <2>1. u \in Seq(S) BY <1>3
  <2> QED BY <2>1, ConcatAssociative
<1> QED BY <1>1, <1>2, <1>3, <1>4, Zenon

LEMMA QueueTypes ==
  ASSUME CalTypes
  PROVE  /\ forwarded \in Seq(Seq(Row)) /\ done \in Seq(Seq(Row)) /\ data \in Seq(Seq(Row))
         /\ input_buffers \in Seq(Seq(Row)) /\ fed \in Seq(Seq(Row)) /\ TypeOK
         /\ forwarded \o done \in Seq(Seq(Row))
         /\ (forwarded \o done) \o data \in Seq(Seq(Row))
BY DEF CalTypes, CalTypeOK, TypeOK

\* AdvanceInterval moves a prefix of data_ to done_.
LEMMA AdvanceMoves ==
  ASSUME CalTypes, AdvanceInterval
  PROVE  (forwarded \o done') \o data' = (forwarded \o done) \o data
<1> DEFINE n == Released(current_interval + 1)
<1>1. current_interval + 1 \in Nat /\ TypeOK BY QueueTypes DEF TypeOK
<1>2. n \in 0 .. Len(data) BY <1>1, ReleasedIsPrefix
<1>3. done' = done \o SubSeq(data, 1, n) /\ data' = SubSeq(data, n + 1, Len(data))
  BY DEF AdvanceInterval
<1> HIDE DEF n
<1>4. PICK f, d, a, p, q : /\ f = forwarded /\ d = done /\ a = data
                          /\ p = SubSeq(data, 1, n) /\ q = SubSeq(data, n + 1, Len(data))
  OBVIOUS
<1>5. p \in Seq(Seq(Row)) BY <1>2, <1>4, QueueTypes
<1>6. f \in Seq(Seq(Row)) /\ d \in Seq(Seq(Row)) BY <1>4, QueueTypes
<1>7. (f \o d) \o p = f \o (d \o p) BY <1>5, <1>6, ConcatAssociative
<1>8. ((f \o d) \o p) \o q = (f \o d) \o a
  <2>1. forwarded \o done \in Seq(Seq(Row)) /\ data \in Seq(Seq(Row)) BY QueueTypes
  <2>2. ((forwarded \o done) \o SubSeq(data, 1, n)) \o SubSeq(data, n + 1, Len(data))
           = (forwarded \o done) \o data
    BY <1>2, <2>1, PrefixMoves
  <2> QED BY <1>4, <2>2, Zenon
<1>9. (f \o (d \o p)) \o q = (f \o d) \o a BY <1>7, <1>8, Zenon
<1> QED BY <1>3, <1>4, <1>9, Zenon

LEMMA LostStep ==
  ASSUME CalTypes, QueueInOrder, SolverBufferIsFine, NothingIsLost, [CalNext]_vars
  PROVE  NothingIsLost'
<1>0. (forwarded \o done \o data) \o input_buffers = fed BY DEF NothingIsLost
<1>1. CASE \E rows \in InputBuffers : RowsInOrder(rows, read) /\ Process(rows)
  <2>1. PICK rows \in InputBuffers : Process(rows) BY <1>1
  <2>2. /\ fed' = Append(fed, rows) /\ input_buffers' = Append(input_buffers, rows)
        /\ UNCHANGED <<forwarded, done, data>>
    BY <2>1 DEF Process, bufVars
  <2>3. rows \in Seq(Row) BY InputAssumption
  <2>4. PICK x, i, f : /\ x = forwarded \o done \o data /\ i = input_buffers /\ f = fed
    OBVIOUS
  <2>5. x \in Seq(Seq(Row)) /\ i \in Seq(Seq(Row)) BY <2>4, QueueTypes
  <2>6. x \o Append(i, rows) = Append(x \o i, rows) BY <2>3, <2>5, AppendMoves
  <2>7. x \o i = f BY <1>0, <2>4, Zenon
  <2>8. x \o Append(i, rows) = Append(f, rows) BY <2>6, <2>7, Zenon
  <2>9. (forwarded \o done \o data)' = x BY <2>2, <2>4, Zenon
  <2> QED BY <2>2, <2>4, <2>8, <2>9, Zenon DEF NothingIsLost
<1>2. CASE AppendFront
  <2> DEFINE rows == Head(input_buffers)
  <2>1. /\ input_buffers # <<>> /\ input_buffers' = Tail(input_buffers) /\ fed' = fed
    BY <1>2 DEF AppendFront, inputVars
  <2>2. (forwarded \o done \o data)' = Append(forwarded \o done \o data, rows)
    <3>1. CASE only_predict
      <4>1. /\ forwarded' = Append(forwarded, rows) /\ UNCHANGED <<done, data>>
            /\ done = <<>> /\ data = <<>>
        BY <1>2, <3>1 DEF AppendFront, bufVars, SolverBufferIsFine
      <4>2. rows \in Seq(Row) /\ forwarded \in Seq(Seq(Row)) BY <2>1, QueueTypes
      <4>3. Append(forwarded, rows) \in Seq(Seq(Row)) BY <4>2
      <4>4. \A s \in Seq(Seq(Row)) : s \o <<>> = s BY ConcatEmptySeq
      <4>5. PICK f, g : f = forwarded /\ g = Append(forwarded, rows) OBVIOUS
      <4>6. f \o <<>> \o <<>> = f /\ g \o <<>> \o <<>> = g
        <5>1. f \o <<>> = f /\ g \o <<>> = g BY <4>2, <4>3, <4>4, <4>5
        <5> QED BY <5>1
      <4>7. (forwarded \o done \o data)' = g
        BY <4>1, <4>5, <4>6
      <4>8. forwarded \o done \o data = f BY <4>1, <4>5, <4>6
      <4> QED BY <4>5, <4>7, <4>8
    <3>2. CASE ~only_predict
      <4>1. forwarded' = forwarded BY <1>2, <3>2 DEF AppendFront
      <4>2. Accept(rows) /\ rows \in Seq(Row) BY <1>2, <3>2, AppendFrontAccepts
      <4>3. data' = Append(data, rows) /\ done' = done BY <4>2 DEF Accept
      <4> HIDE DEF rows
      <4>4. forwarded \o done \in Seq(Seq(Row)) /\ data \in Seq(Seq(Row)) BY QueueTypes
      <4>5. (forwarded \o done) \o Append(data, rows) = Append((forwarded \o done) \o data, rows)
        BY <4>2, <4>4, AppendMoves
      <4> QED BY <4>1, <4>3, <4>5, Zenon
    <3> QED BY <3>1, <3>2
  <2>3. PICK x, i : x = forwarded \o done \o data /\ i = input_buffers OBVIOUS
  <2>4. x \in Seq(Seq(Row)) /\ i \in Seq(Seq(Row)) /\ i # <<>> BY <2>1, <2>3, QueueTypes
  <2>5. Append(x, Head(i)) \o Tail(i) = x \o i BY <2>4, HeadMoves
  <2>6. x \o i = fed BY <1>0, <2>3, Zenon
  <2>7. (forwarded \o done \o data)' = Append(x, Head(i)) BY <2>2, <2>3, Zenon
  <2>8. input_buffers' = Tail(i) BY <2>1, <2>3
  <2> QED BY <2>1, <2>5, <2>6, <2>7, <2>8, Zenon DEF NothingIsLost
<1>3. CASE SolveComplete \/ SolveRemaining
  <2>1. AdvanceInterval /\ UNCHANGED <<forwarded, input_buffers, fed>>
    BY <1>3 DEF SolveComplete, SolveRemaining, inputVars, queueVars
  <2>2. (forwarded \o done \o data)' = forwarded \o done \o data
    BY <2>1, AdvanceMoves, Zenon
  <2> QED BY <1>0, <2>1, <2>2, Zenon DEF NothingIsLost
<1>4. CASE ForwardDone \/ ForwardRemaining
  <2>1. /\ forwarded' = forwarded \o done /\ done' = <<>>
        /\ UNCHANGED <<data, input_buffers, fed>>
    BY <1>4 DEF ForwardDone, ForwardRemaining, GetDone, inputVars, queueVars
  <2>2. PICK x : x = forwarded \o done OBVIOUS
  <2>3. x \in Seq(Seq(Row)) BY <2>2, QueueTypes
  <2>4. x \o <<>> = x BY <2>3, ConcatEmptySeq
  <2>5. forwarded' \o done' = forwarded \o done BY <2>1, <2>2, <2>4, Zenon
  <2> QED BY <1>0, <2>1, <2>5, Zenon DEF NothingIsLost
<1>5. CASE AppendEnds \/ SolveEnds \/ Finish \/ FinishNextStep \/ UNCHANGED vars
  <2>1. UNCHANGED <<forwarded, done, data, input_buffers, fed>>
    BY <1>5 DEF AppendEnds, SolveEnds, Finish, FinishNextStep, vars, calVars, bufVars,
                inputVars, queueVars
  <2> QED BY <1>0, <2>1, Zenon DEF NothingIsLost
<1> QED BY <1>1, <1>2, <1>3, <1>4, <1>5 DEF CalNext

(***************************************************************************)
(* The types of the rest.                                                  *)
(***************************************************************************)
LEMMA CalTypesStep ==
  ASSUME CalTypes, ModelsFollowInput, QueueInOrder, SolverBufferIsFine, [CalNext]_vars
  PROVE  CalTypes'
<1>1. ModelTypes' BY ModelsStep
<1>2. TypeOK' BY BufferStep
<1>3. read' \in [Baselines -> Nat] BY QueueStep
<1>4. /\ input_buffers' \in Seq(Seq(Row)) /\ inside' \in [Directions -> Seq(Seq(Row))]
      /\ model_buffers' \in Seq([Directions -> Seq(Row) \cup {None}])
  <2>1. InputBuffers \subseteq Seq(Row) BY InputAssumption
  <2>2. Seq(InputBuffers) \subseteq Seq(Seq(Row)) BY <2>1
  <2>3. [Directions -> InputBuffers \cup {None}] \subseteq [Directions -> Seq(Row) \cup {None}]
    BY <2>1
  <2>4. Seq([Directions -> InputBuffers \cup {None}])
           \subseteq Seq([Directions -> Seq(Row) \cup {None}])
    BY <2>3
  <2> QED BY <1>1, <2>2, <2>4 DEF ModelTypes
<1>5. /\ only_predict' = only_predict /\ only_predict \in BOOLEAN
      /\ pc' \in {"idle", "append", "solve", "forward", "drain", "close", "finished"}
      /\ finishing' \in BOOLEAN
  <2>1. /\ pc \in {"idle", "append", "solve", "forward", "drain", "close", "finished"}
        /\ finishing \in BOOLEAN /\ only_predict \in BOOLEAN
    BY DEF CalTypes, CalTypeOK
  <2> QED BY <2>1 DEF CalNext, Process, AppendFront, AppendEnds, SolveComplete, SolveEnds,
                      ForwardDone, Finish, SolveRemaining, ForwardRemaining, FinishNextStep,
                      vars, calVars, inputVars
<1>6. fed' \in Seq(Seq(Row))
  <2>1. fed \in Seq(Seq(Row)) BY QueueTypes
  <2>2. CASE \E rows \in InputBuffers : Process(rows)
    BY <2>1, <2>2, InputAssumption DEF Process
  <2>3. CASE ~\E rows \in InputBuffers : Process(rows)
    BY <2>1, <2>3 DEF CalNext, AppendFront, AppendEnds, SolveComplete, SolveEnds,
                      ForwardDone, Finish, SolveRemaining, ForwardRemaining, FinishNextStep,
                      vars, calVars, inputVars
  <2> QED BY <2>2, <2>3
<1>7. forwarded' \in Seq(Seq(Row))
  <2>1. forwarded \in Seq(Seq(Row)) /\ forwarded \o done \in Seq(Seq(Row)) BY QueueTypes
  <2>2. CASE AppendFront
    <3>1. Head(input_buffers) \in Seq(Row) BY <2>2, QueueTypes DEF AppendFront
    <3>2. Append(forwarded, Head(input_buffers)) \in Seq(Seq(Row)) BY <2>1, <3>1
    <3> QED BY <2>1, <2>2, <3>2 DEF AppendFront
  <2>3. CASE ~AppendFront
    <3>1. forwarded' = forwarded \/ forwarded' = forwarded \o done
      BY <2>3 DEF CalNext, Process, AppendEnds, SolveComplete, SolveEnds,
                  ForwardDone, Finish, SolveRemaining, ForwardRemaining, FinishNextStep,
                  vars, calVars
    <3> QED BY <2>1, <3>1
  <2> QED BY <2>2, <2>3
<1>8. solutions' \in Seq(SUBSET Row)
  <2>1. solutions \in Seq(SUBSET Row) BY DEF CalTypes, CalTypeOK
  <2>2. CASE SolveComplete \/ SolveRemaining
    <3>1. solutions' = Append(solutions, data_rows[1])
      BY <2>2 DEF SolveComplete, SolveRemaining, SolveCurrentInterval
    <3>2. data_rows \in Seq(SUBSET Row) /\ data_rows # <<>> BY QueueTypes DEF TypeOK
    <3>3. data_rows[1] \in SUBSET Row BY <3>2
    <3> QED BY <2>1, <3>1, <3>3
  <2>3. CASE ~(SolveComplete \/ SolveRemaining)
    BY <2>1, <2>3 DEF CalNext, Process, AppendFront, AppendEnds, SolveEnds, ForwardDone,
                      Finish, ForwardRemaining, FinishNextStep, vars, calVars
  <2> QED BY <2>2, <2>3
<1> QED BY <1>1, <1>2, <1>3, <1>4, <1>5, <1>6, <1>7, <1>8 DEF CalTypes, CalTypeOK

LEMMA CalInvInit == CalInit => CalInv
<1> SUFFICES ASSUME CalInit PROVE CalInv OBVIOUS
<1>1. TypeOK BY InitType DEF CalInit
<1>2. /\ data = <<>> /\ done = <<>> /\ status = "ok" /\ ordered = TRUE /\ current_interval = 0
      /\ last_complete = [b \in Baselines |-> -1] /\ appended = [b \in Baselines |-> 0]
  BY DEF CalInit, Init
<1>3. CalTypes
  <2>1. /\ <<>> \in Seq(InputBuffers) /\ <<>> \in Seq(Seq(Row)) /\ <<>> \in Seq(SUBSET Row)
        /\ <<>> \in Seq([Directions -> InputBuffers \cup {None}])
        /\ <<>> \in Seq([Directions -> Seq(Row) \cup {None}])
    OBVIOUS
  <2> QED BY <1>1, <2>1 DEF CalInit, CalTypes, CalTypeOK, ModelTypes
<1>4. ModelsFollowInput BY DEF CalInit, ModelsFollowInput, Predicted
<1>5. QueueInOrder BY <1>2 DEF CalInit, QueueInOrder
<1>6. SolverBufferIsFine
  <2>1. 0 \div SolInt \in Nat BY SolIntAssumption, DivUpper
  <2> QED BY <1>2, <2>1 DEF SolverBufferIsFine, CompleteIsBehind
<1>7. NothingRemains BY DEF CalInit, NothingRemains
<1>8. NothingIsLost
  <2>1. <<>> \o <<>> \o <<>> \o <<>> = <<>> OBVIOUS
  <2> QED BY <1>2, <2>1 DEF CalInit, NothingIsLost
<1> QED BY <1>3, <1>4, <1>5, <1>6, <1>7, <1>8 DEF CalInv

LEMMA CalInvStep == CalInv /\ [CalNext]_vars => CalInv'
<1> SUFFICES ASSUME CalInv, [CalNext]_vars PROVE CalInv' OBVIOUS
<1>1. /\ CalTypes /\ ModelsFollowInput /\ QueueInOrder /\ SolverBufferIsFine
      /\ NothingRemains /\ NothingIsLost
  BY DEF CalInv
<1>2. CalTypes' BY <1>1, CalTypesStep
<1>3. ModelsFollowInput' BY <1>1, ModelsStep
<1>4. QueueInOrder' BY <1>1, QueueStep
<1>5. SolverBufferIsFine' BY <1>1, BufferStep
<1>6. NothingRemains' BY <1>1, RemainsStep
<1>7. NothingIsLost' BY <1>1, LostStep
<1> QED BY <1>2, <1>3, <1>4, <1>5, <1>6, <1>7 DEF CalInv

-----------------------------------------------------------------------------
(***************************************************************************)
(* CalInv holds throughout.                                                *)
(***************************************************************************)
THEOREM CalInvariant == CalSpec => []CalInv
BY CalInvInit, CalInvStep, PTL DEF CalSpec

(***************************************************************************)
(* Type correctness.                                                       *)
(***************************************************************************)
THEOREM CalTypeCorrect == CalSpec => []CalTypeOK
<1>1. CalInv => CalTypeOK BY DEF CalInv, CalTypes
<1> QED BY <1>1, CalInvariant, PTL

(***************************************************************************)
(* Whatever the delays of the predict steps, every buffer that process()   *)
(* was given is once, and in order, at the next step, in done_, in data_   *)
(* or in input_buffers_.                                                   *)
(***************************************************************************)
THEOREM NoBufferIsLost == CalSpec => []NothingIsLost
<1>1. CalInv => NothingIsLost BY DEF CalInv
<1> QED BY <1>1, CalInvariant, PTL

(***************************************************************************)
(* Every predicted buffer that ExtractResults stores stands next to the    *)
(* input buffer it was predicted for (the assertion in                     *)
(* ProcessCompleteDirections).                                             *)
(***************************************************************************)
THEOREM ModelsMatchTheirData == CalSpec => []ModelMatchesData
<1>1. ASSUME CalInv PROVE ModelMatchesData
  <2>1. /\ DOMAIN model_buffers = 1 .. Len(model_buffers) /\ Len(model_buffers) \in Nat
        /\ Len(input_buffers) \in Nat /\ Len(model_buffers) <= Len(input_buffers)
    BY <1>1 DEF CalInv, CalTypes, ModelTypes, ModelsFollowInput
  <2>2. ASSUME NEW i \in 1 .. Len(model_buffers), NEW d \in Directions,
               model_buffers[i][d] # None
        PROVE  i <= Len(input_buffers) /\ model_buffers[i][d] = input_buffers[i]
    BY <1>1, <2>1, <2>2 DEF CalInv, ModelsFollowInput
  <2> QED BY <2>1, <2>2 DEF ModelMatchesData
<1> QED BY <1>1, CalInvariant, PTL

(***************************************************************************)
(* While BdaDdeCal feeds the solver buffer an ordered input, the buffer's  *)
(* assertion and its ordering check hold.                                  *)
(***************************************************************************)
THEOREM CalNeverFails == CalSpec => []NeverFails
<1>1. CalInv => NeverFails BY DEF CalInv, SolverBufferIsFine, NeverFails
<1> QED BY <1>1, CalInvariant, PTL

-----------------------------------------------------------------------------
(***************************************************************************)
(* What a solve uses, and when a buffer is forwarded.  SolvedInv relates   *)
(* the solved intervals to current_interval_ and to the rows of the queues *)
(* that NothingIsLost strings together.                                    *)
(***************************************************************************)
SolvedInv ==
    /\ Len(solutions) = current_interval
    /\ RowsOfIntervalsAreOwned /\ FrontIsNeeded
    /\ only_predict => solutions = <<>> /\ pc \in {"idle", "append", "close", "finished"}
    /\ ~only_predict =>
          \A r \in AllRows(forwarded) \cup AllRows(done) : CentreInterval(r) < current_interval
    /\ IntervalsAreWhole

LEMMA RowsOfConcat ==
  ASSUME NEW s \in Seq(Seq(Row)), NEW t \in Seq(Seq(Row))
  PROVE  /\ AllRows(s \o t) = AllRows(s) \cup AllRows(t)
         /\ AllRows(s) \subseteq Row
<1>1. /\ DOMAIN s = 1 .. Len(s) /\ DOMAIN t = 1 .. Len(t)
      /\ Len(s) \in Nat /\ Len(t) \in Nat
  OBVIOUS
<1>2. /\ DOMAIN (s \o t) = 1 .. Len(s) + Len(t)
      /\ \A i \in 1 .. Len(s) + Len(t) : (s \o t)[i] = IF i <= Len(s) THEN s[i]
                                                       ELSE t[i - Len(s)]
  BY ConcatProperties
<1>3. AllRows(s \o t) \subseteq AllRows(s) \cup AllRows(t)
  <2> SUFFICES ASSUME NEW i \in 1 .. Len(s) + Len(t), NEW r \in Rng((s \o t)[i])
               PROVE  r \in AllRows(s) \cup AllRows(t)
    BY <1>2 DEF AllRows
  <2>1. CASE i <= Len(s) BY <1>1, <1>2, <2>1 DEF AllRows
  <2>2. CASE i > Len(s)
    <3>1. i - Len(s) \in DOMAIN t BY <1>1, <2>2
    <3> QED BY <1>1, <1>2, <2>2, <3>1 DEF AllRows
  <2> QED BY <1>1, <2>1, <2>2
<1>4. AllRows(s) \subseteq AllRows(s \o t)
  <2> SUFFICES ASSUME NEW i \in 1 .. Len(s) PROVE Rng(s[i]) \subseteq AllRows(s \o t)
    BY <1>1 DEF AllRows
  <2>1. i \in DOMAIN (s \o t) /\ (s \o t)[i] = s[i] BY <1>1, <1>2
  <2> QED BY <2>1 DEF AllRows
<1>5. AllRows(t) \subseteq AllRows(s \o t)
  <2> SUFFICES ASSUME NEW i \in 1 .. Len(t) PROVE Rng(t[i]) \subseteq AllRows(s \o t)
    BY <1>1 DEF AllRows
  <2>1. /\ Len(s) + i \in 1 .. Len(s) + Len(t) /\ ~(Len(s) + i <= Len(s))
        /\ (Len(s) + i) - Len(s) = i
    BY <1>1
  <2>2. Len(s) + i \in DOMAIN (s \o t) /\ (s \o t)[Len(s) + i] = t[i] BY <1>2, <2>1
  <2> QED BY <2>2 DEF AllRows
<1>6. AllRows(s) \subseteq Row
  <2> SUFFICES ASSUME NEW i \in DOMAIN s PROVE Rng(s[i]) \subseteq Row BY DEF AllRows
  <2>1. s[i] \in Seq(Row) OBVIOUS
  <2> QED BY <2>1, RowsOf
<1> QED BY <1>3, <1>4, <1>5, <1>6

LEMMA RowsOfAppend ==
  ASSUME NEW s \in Seq(Seq(Row)), NEW rows \in Seq(Row)
  PROVE  AllRows(Append(s, rows)) = AllRows(s) \cup Rng(rows)
<1>1. Append(s, rows) = s \o <<rows>> BY AppendIsConcat
<1>2. <<rows>> \in Seq(Seq(Row)) /\ DOMAIN <<rows>> = {1} /\ <<rows>>[1] = rows OBVIOUS
<1>3. AllRows(<<rows>>) = Rng(rows) BY <1>2 DEF AllRows
<1>4. PICK t : t = <<rows>> OBVIOUS
<1>5. AllRows(s \o t) = AllRows(s) \cup AllRows(t) BY <1>2, <1>4, RowsOfConcat
<1> QED BY <1>1, <1>3, <1>4, <1>5, Zenon

\* The rows that process() was given, by the queue that they are in.
LEMMA FedRows ==
  ASSUME CalInv
  PROVE  AllRows(fed) = AllRows(forwarded) \cup AllRows(done) \cup Owned
                        \cup AllRows(input_buffers)
<1>1. PICK f, d, a, i : f = forwarded /\ d = done /\ a = data /\ i = input_buffers OBVIOUS
<1>2. /\ f \in Seq(Seq(Row)) /\ d \in Seq(Seq(Row)) /\ a \in Seq(Seq(Row))
      /\ i \in Seq(Seq(Row))
  BY <1>1, QueueTypes DEF CalInv
<1>3. PICK x, y : x = f \o d /\ y = x \o a OBVIOUS
<1>4. x \in Seq(Seq(Row)) /\ AllRows(x) = AllRows(f) \cup AllRows(d)
  BY <1>2, <1>3, ConcatProperties, RowsOfConcat
<1>5. y \in Seq(Seq(Row)) /\ AllRows(y) = AllRows(x) \cup AllRows(a)
  BY <1>2, <1>3, <1>4, ConcatProperties, RowsOfConcat
<1>6. AllRows(y \o i) = AllRows(y) \cup AllRows(i) BY <1>2, <1>5, RowsOfConcat
<1>7. y \o i = fed BY <1>1, <1>3, Zenon DEF CalInv, NothingIsLost
<1>8. AllRows(a) = Owned BY <1>1 DEF AllRows, Owned
<1> QED BY <1>1, <1>4, <1>5, <1>6, <1>7, <1>8

\* What comes later than the rows that were appended lies, while intervals are
\* left complete by complete, at or after the current one.
LEMMA LaterRows ==
  ASSUME CalInv, CompleteIsBehind, NEW r \in Row, appended[r.bl] <= r.start
  PROVE  current_interval + last_complete[r.bl] + 1 <= CentreInterval(r)
         /\ current_interval <= CentreInterval(r)
<1> DEFINE b == r.bl
<1>1. b \in Baselines /\ r.start \in Nat BY DEF Row
<1>2. TypeOK /\ ordered BY DEF CalInv, CalTypes, CalTypeOK, SolverBufferIsFine
<1>3. appended[b] \in Nat /\ current_interval \in Nat /\ last_complete[b] \in Int
  BY <1>1, <1>2 DEF TypeOK
<1>4. /\ last_complete[b] >= -1
      /\ current_interval + last_complete[b] + 1 <= appended[b] \div SolInt
  BY <1>1, <1>2 DEF CompleteIsBehind
<1>5. appended[b] \div SolInt \in Nat /\ appended[b] \div SolInt <= StartInterval(r)
  BY <1>3, StartIntervalMonotone
<1>6. /\ StartInterval(r) \in Nat /\ CentreInterval(r) \in Nat
      /\ StartInterval(r) <= CentreInterval(r)
  BY CentreNotBeforeStart
<1> HIDE DEF b
<1>7. current_interval + last_complete[b] + 1 <= CentreInterval(r)
  BY <1>3, <1>4, <1>5, <1>6
<1>8. current_interval <= CentreInterval(r) BY <1>3, <1>4, <1>6, <1>7
<1> QED BY <1>7, <1>8 DEF b

LEMMA QueuedRowsAreLater ==
  ASSUME CalInv, CompleteIsBehind, NEW r \in AllRows(input_buffers)
  PROVE  /\ r \in Row /\ r.bl \in Baselines
         /\ current_interval + last_complete[r.bl] + 1 <= CentreInterval(r)
<1>1. PICK i \in DOMAIN input_buffers : r \in Rng(input_buffers[i]) BY DEF AllRows
<1>2. input_buffers \in Seq(Seq(Row)) BY QueueTypes DEF CalInv
<1>3. i \in 1 .. Len(input_buffers) /\ input_buffers[i] \in Seq(Row) BY <1>2
<1>4. RowsInOrder(input_buffers[i], appended) BY <1>3 DEF CalInv, QueueInOrder
<1>5. PICK k \in DOMAIN input_buffers[i] : r = input_buffers[i][k] BY <1>1 DEF Rng
<1>6. r \in Row BY <1>3, <1>5, RowsOf
<1>7. appended[r.bl] <= r.start BY <1>4, <1>5 DEF RowsInOrder
<1> QED BY <1>6, <1>7, LaterRows DEF Row

(***************************************************************************)
(* A solve finds all rows of its interval in data_rows_.                   *)
(***************************************************************************)
LEMMA SolveUsesAll ==
  ASSUME CalInv, SolvedInv, ~only_predict,
         (pc = "solve" /\ IntervalIsComplete) \/ pc = "drain"
  PROVE  data_rows[1] = {r \in AllRows(fed) : CentreInterval(r) = current_interval}
<1>1. TypeOK BY DEF CalInv, CalTypes, CalTypeOK
<1>2. current_interval \in Nat /\ 1 \in DOMAIN data_rows BY <1>1 DEF TypeOK
<1>3. Owned \subseteq Row BY <1>1, OwnedRows
<1>4. data_rows[1] = {r \in Owned : CentreInterval(r) = current_interval}
  <2>1. data_rows[1] = {r \in Owned : RelativeIndex(r) = 1 - 1}
    BY <1>2 DEF SolvedInv, RowsOfIntervalsAreOwned
  <2>2. ASSUME NEW r \in Owned
        PROVE  RelativeIndex(r) = 1 - 1 <=> CentreInterval(r) = current_interval
    <3>1. CentreInterval(r) \in Nat BY <1>3, CentreNotBeforeStart
    <3> QED BY <1>2, <3>1 DEF RelativeIndex
  <2> QED BY <2>1, <2>2
<1>5. ASSUME NEW r \in AllRows(input_buffers) PROVE CentreInterval(r) # current_interval
  <2>1. CASE pc = "solve" /\ IntervalIsComplete
    <3>1. CompleteIsBehind BY <2>1 DEF CalInv, SolverBufferIsFine
    <3>2. /\ r \in Row /\ r.bl \in Baselines
          /\ current_interval + last_complete[r.bl] + 1 <= CentreInterval(r)
      BY <3>1, QueuedRowsAreLater
    <3>3. last_complete[r.bl] >= 0 /\ last_complete[r.bl] \in Int
      BY <1>1, <2>1, <3>2 DEF IntervalIsComplete, TypeOK
    <3>4. CentreInterval(r) \in Nat BY <3>2, CentreNotBeforeStart
    <3> QED BY <1>2, <3>2, <3>3, <3>4
  <2>2. CASE pc = "drain"
    <3>1. input_buffers = <<>> BY <2>2 DEF CalInv, NothingRemains
    <3> QED BY <3>1 DEF AllRows
  <2> QED BY <2>1, <2>2
<1>6. ASSUME NEW r \in AllRows(forwarded) \cup AllRows(done)
      PROVE  CentreInterval(r) # current_interval
  <2>1. AllRows(forwarded) \subseteq Row /\ AllRows(done) \subseteq Row
    BY QueueTypes, RowsOfConcat DEF CalInv
  <2>2. CentreInterval(r) \in Nat BY <2>1, CentreNotBeforeStart
  <2>3. CentreInterval(r) < current_interval BY DEF SolvedInv
  <2> QED BY <1>2, <2>2, <2>3
<1> QED BY <1>4, <1>5, <1>6, FedRows

LEMMA SolvedProcess ==
  ASSUME CalInv, SolvedInv, NEW rows \in InputBuffers, RowsInOrder(rows, read), Process(rows)
  PROVE  SolvedInv'
<1>1. /\ fed' = Append(fed, rows) /\ pc = "idle" /\ pc' = "append"
      /\ UNCHANGED <<bufVars, only_predict, solutions, forwarded>>
  BY DEF Process
<1>2. rows \in Seq(Row) BY InputAssumption
<1>3. AllRows(fed') = AllRows(fed) \cup Rng(rows)
  BY <1>1, <1>2, QueueTypes, RowsOfAppend DEF CalInv
<1>4. CompleteIsBehind BY <1>1 DEF CalInv, SolverBufferIsFine
<1>5. ASSUME NEW r \in Rng(rows) PROVE r \in Row /\ current_interval <= CentreInterval(r)
  <2>1. PICK i \in DOMAIN rows : r = rows[i] BY DEF Rng
  <2>2. r \in Row BY <1>2, <2>1, RowsOf
  <2>3. r.bl \in Baselines /\ r.start \in Nat BY <2>2 DEF Row
  <2>4. read[r.bl] <= r.start BY <2>1 DEF RowsInOrder
  <2>5. appended[r.bl] <= read[r.bl] BY <2>3 DEF CalInv, QueueInOrder
  <2>6. appended[r.bl] \in Nat /\ read[r.bl] \in Nat
    BY <2>3 DEF CalInv, CalTypes, CalTypeOK, TypeOK
  <2>7. appended[r.bl] <= r.start BY <2>3, <2>4, <2>5, <2>6
  <2> QED BY <1>4, <2>2, <2>7, LaterRows
<1>6. IntervalsAreWhole'
  <2> SUFFICES ASSUME NEW k \in DOMAIN solutions
               PROVE  solutions[k] = {r \in AllRows(fed') : CentreInterval(r) = k - 1}
    BY <1>1 DEF IntervalsAreWhole
  <2>1. solutions[k] = {r \in AllRows(fed) : CentreInterval(r) = k - 1}
    BY DEF SolvedInv, IntervalsAreWhole
  <2>2. k \in 1 .. current_interval /\ current_interval \in Nat
    BY DEF SolvedInv, CalInv, CalTypes, CalTypeOK, TypeOK
  <2>3. ASSUME NEW r \in Rng(rows) PROVE CentreInterval(r) # k - 1
    <3>1. CentreInterval(r) \in Nat /\ current_interval <= CentreInterval(r)
      BY <1>5, CentreNotBeforeStart
    <3> QED BY <2>2, <3>1
  <2> QED BY <1>3, <2>1, <2>3
<1>7. RowsOfIntervalsAreOwned' /\ FrontIsNeeded'
  BY <1>1 DEF SolvedInv, bufVars, RowsOfIntervalsAreOwned, FrontIsNeeded, Owned, RelativeIndex
<1> QED BY <1>1, <1>6, <1>7 DEF SolvedInv, bufVars

LEMMA SolvedAppendFront ==
  ASSUME CalInv, SolvedInv, AppendFront
  PROVE  SolvedInv'
<1> DEFINE rows == Head(input_buffers)
<1>1. UNCHANGED <<only_predict, fed, pc, solutions>> BY DEF AppendFront, inputVars
<1>2. CASE only_predict
  <2>1. UNCHANGED bufVars BY <1>2 DEF AppendFront
  <2>2. RowsOfIntervalsAreOwned' /\ FrontIsNeeded'
    BY <2>1 DEF SolvedInv, bufVars, RowsOfIntervalsAreOwned, FrontIsNeeded, Owned,
                RelativeIndex
  <2> QED BY <1>1, <1>2, <2>1, <2>2 DEF SolvedInv, bufVars, IntervalsAreWhole
<1>3. CASE ~only_predict
  <2>1. /\ rows \in Seq(Row) /\ RowsInOrder(rows, appended) /\ Accept(rows)
    BY <1>3, AppendFrontAccepts DEF CalInv
  <2>2. forwarded' = forwarded BY <1>3 DEF AppendFront
  <2>3. rows # <<>>
    <3>1. input_buffers \in Seq(InputBuffers) /\ input_buffers # <<>>
      BY DEF AppendFront, CalInv, CalTypes, ModelTypes
    <3>2. rows \in InputBuffers BY <3>1
    <3> HIDE DEF rows
    <3> QED BY <3>2, InputAssumption
  <2> HIDE DEF rows
  <2>4. NeverFailsInv /\ ordered /\ OwnedInv
    BY DEF CalInv, CalTypes, CalTypeOK, SolverBufferIsFine, NeverFailsInv, NeverFails,
           AppendFront, SolvedInv, OwnedInv
  <2>5. \A i \in DOMAIN rows : ~(RelativeIndex(rows[i]) < 0)
    BY <2>1, <2>4, OrderedRowsPass
  <2>6. (RowsOfIntervalsAreOwned /\ FrontIsNeeded)'
    BY <2>1, <2>3, <2>4, <2>5, AcceptOwned
  <2>7. done' = done /\ current_interval' = current_interval BY <2>1 DEF Accept
  <2> QED BY <1>1, <1>3, <2>2, <2>6, <2>7 DEF SolvedInv, IntervalsAreWhole
<1> QED BY <1>2, <1>3 DEF CalInv, CalTypes, CalTypeOK

LEMMA SolvedSolve ==
  ASSUME CalInv, SolvedInv, SolveComplete \/ SolveRemaining
  PROVE  SolvedInv'
<1>1. /\ AdvanceInterval /\ solutions' = Append(solutions, data_rows[1])
      /\ UNCHANGED <<only_predict, fed, pc, forwarded>>
      /\ (pc = "solve" /\ IntervalIsComplete) \/ pc = "drain"
  BY DEF SolveComplete, SolveRemaining, SolveCurrentInterval, inputVars
<1>2. ~only_predict /\ only_predict' = only_predict BY <1>1 DEF SolvedInv
<1>3. TypeOK /\ OwnedInv BY DEF CalInv, CalTypes, CalTypeOK, SolvedInv, OwnedInv
<1>4. (RowsOfIntervalsAreOwned /\ FrontIsNeeded)' BY <1>1, <1>3, AdvanceOwned
<1>5. current_interval \in Nat /\ current_interval' = current_interval + 1
  BY <1>1, <1>3 DEF TypeOK, AdvanceInterval
<1>6. solutions \in Seq(SUBSET Row) /\ data_rows[1] \in SUBSET Row
  BY <1>3 DEF CalInv, CalTypes, CalTypeOK, TypeOK
<1>7. /\ Len(solutions) = current_interval /\ Len(solutions') = current_interval + 1
      /\ DOMAIN solutions' = 1 .. (current_interval + 1)
      /\ \A k \in 1 .. current_interval : solutions'[k] = solutions[k]
      /\ solutions'[current_interval + 1] = data_rows[1]
  <2>1. Len(solutions) = current_interval BY DEF SolvedInv
  <2> QED BY <1>1, <1>5, <1>6, <2>1
<1>8. ASSUME NEW r \in AllRows(forwarded') \cup AllRows(done')
      PROVE  CentreInterval(r) < current_interval'
  <2> DEFINE n == Released(current_interval + 1)
  <2>1. /\ n \in 0 .. Len(data)
        /\ \A i \in 1 .. n : \A s \in Rng(data[i]) : CentreInterval(s) < current_interval + 1
    BY <1>3, <1>5, ReleasedIsPrefix
  <2>2. done' = done \o SubSeq(data, 1, n) BY <1>1 DEF AdvanceInterval
  <2> HIDE DEF n
  <2>3. PICK p : p = SubSeq(data, 1, n) OBVIOUS
  <2>4. /\ p \in Seq(Seq(Row)) /\ DOMAIN p = 1 .. n
        /\ \A i \in 1 .. n : p[i] = data[i]
    BY <1>3, <2>1, <2>3, PrefixAndSuffix DEF TypeOK
  <2>5. AllRows(done') = AllRows(done) \cup AllRows(p)
    BY <2>2, <2>3, <2>4, QueueTypes, RowsOfConcat DEF CalInv
  <2>6. CASE r \in AllRows(p)
    <3>1. PICK i \in 1 .. n : r \in Rng(data[i]) BY <2>4, <2>6 DEF AllRows
    <3> QED BY <1>5, <2>1, <3>1
  <2>7. CASE r \in AllRows(forwarded) \cup AllRows(done)
    <3>1. r \in Row BY <2>7, QueueTypes, RowsOfConcat DEF CalInv
    <3>2. CentreInterval(r) \in Nat BY <3>1, CentreNotBeforeStart
    <3>3. CentreInterval(r) < current_interval BY <1>2, <2>7 DEF SolvedInv
    <3> QED BY <1>5, <3>2, <3>3
  <2> QED BY <1>1, <2>5, <2>6, <2>7
<1>9. IntervalsAreWhole'
  <2> SUFFICES ASSUME NEW k \in 1 .. (current_interval + 1)
               PROVE  solutions'[k] = {r \in AllRows(fed) : CentreInterval(r) = k - 1}
    BY <1>1, <1>7 DEF IntervalsAreWhole
  <2>1. CASE k \in 1 .. current_interval
    <3>1. k \in DOMAIN solutions BY <1>6, <1>7, <2>1
    <3> QED BY <1>7, <2>1, <3>1 DEF SolvedInv, IntervalsAreWhole
  <2>2. CASE k = current_interval + 1
    <3>1. data_rows[1] = {r \in AllRows(fed) : CentreInterval(r) = current_interval}
      BY <1>1, <1>2, SolveUsesAll
    <3>2. k - 1 = current_interval BY <1>5, <2>2
    <3> QED BY <1>7, <2>2, <3>1, <3>2
  <2> QED BY <1>5, <2>1, <2>2
<1> QED BY <1>1, <1>2, <1>4, <1>5, <1>7, <1>8, <1>9 DEF SolvedInv

LEMMA SolvedForward ==
  ASSUME CalInv, SolvedInv, ForwardDone \/ ForwardRemaining
  PROVE  SolvedInv'
<1>1. /\ forwarded' = forwarded \o done /\ GetDone /\ pc \in {"forward", "drain"}
      /\ UNCHANGED <<only_predict, fed, solutions>>
  BY DEF ForwardDone, ForwardRemaining, inputVars
<1>2. ~only_predict BY <1>1 DEF SolvedInv
<1>3. AllRows(forwarded') = AllRows(forwarded) \cup AllRows(done)
  BY <1>1, QueueTypes, RowsOfConcat DEF CalInv
<1>4. AllRows(done') = {} BY <1>1 DEF GetDone, AllRows
<1>5. RowsOfIntervalsAreOwned' /\ FrontIsNeeded'
  BY <1>1 DEF SolvedInv, GetDone, RowsOfIntervalsAreOwned, FrontIsNeeded, Owned, RelativeIndex
<1>6. current_interval' = current_interval BY <1>1 DEF GetDone
<1> QED BY <1>1, <1>2, <1>3, <1>4, <1>5, <1>6 DEF SolvedInv, IntervalsAreWhole

LEMMA SolvedStep ==
  ASSUME CalInv, SolvedInv, [CalNext]_vars
  PROVE  SolvedInv'
<1>1. CASE \E rows \in InputBuffers : RowsInOrder(rows, read) /\ Process(rows)
  BY <1>1, SolvedProcess
<1>2. CASE AppendFront BY <1>2, SolvedAppendFront
<1>3. CASE SolveComplete \/ SolveRemaining BY <1>3, SolvedSolve
<1>4. CASE ForwardDone \/ ForwardRemaining BY <1>4, SolvedForward
<1>5. CASE AppendEnds \/ SolveEnds \/ Finish \/ FinishNextStep \/ UNCHANGED vars
  <2>1. /\ UNCHANGED <<bufVars, only_predict, fed, solutions, forwarded>>
        /\ \/ pc' = pc
           \/ pc' = IF ~only_predict THEN "solve" ELSE IF finishing THEN "close" ELSE "idle"
           \/ pc = "solve" /\ pc' = "forward"
           \/ pc' = "append"
           \/ pc = "close" /\ pc' = "finished"
    BY <1>5 DEF AppendEnds, SolveEnds, Finish, FinishNextStep, vars, calVars, inputVars
  <2>2. RowsOfIntervalsAreOwned' /\ FrontIsNeeded'
    BY <2>1 DEF SolvedInv, bufVars, RowsOfIntervalsAreOwned, FrontIsNeeded, Owned,
                RelativeIndex
  <2>3. only_predict => pc' \in {"idle", "append", "close", "finished"}
    BY <2>1 DEF SolvedInv
  <2> QED BY <2>1, <2>2, <2>3 DEF SolvedInv, bufVars, IntervalsAreWhole
<1> QED BY <1>1, <1>2, <1>3, <1>4, <1>5 DEF CalNext

LEMMA SolvedInit == CalInit => SolvedInv
<1> SUFFICES ASSUME CalInit PROVE SolvedInv OBVIOUS
<1>1. /\ data = <<>> /\ done = <<>> /\ data_rows = <<{}>> /\ current_interval = 0
      /\ forwarded = <<>> /\ solutions = <<>> /\ pc = "idle"
  BY DEF CalInit, Init
<1>2. Owned = {} /\ AllRows(forwarded) = {} /\ AllRows(done) = {} BY <1>1 DEF Owned, AllRows
<1>3. DOMAIN data_rows = {1} /\ data_rows[1] = {} BY <1>1
<1>4. Len(solutions) = 0 /\ DOMAIN solutions = {} BY <1>1
<1> QED BY <1>1, <1>2, <1>3, <1>4
        DEF SolvedInv, RowsOfIntervalsAreOwned, FrontIsNeeded, IntervalsAreWhole

THEOREM SolvedInvariant == CalSpec => [](CalInv /\ SolvedInv)
<1>1. CalInit => CalInv /\ SolvedInv BY CalInvInit, SolvedInit
<1>2. CalInv /\ SolvedInv /\ [CalNext]_vars => (CalInv /\ SolvedInv)'
  BY CalInvStep, SolvedStep
<1> QED BY <1>1, <1>2, PTL DEF CalSpec

(***************************************************************************)
(* Each solve uses every row of its solution interval, those that arrive   *)
(* after the solve included: there are none.  So no visibility is left out *)
(* of a solve, or used by two, whatever the delays of the predict steps    *)
(* and wherever the rows straddle intervals and buffers.                   *)
(***************************************************************************)
THEOREM SolvesAreWhole == CalSpec => []IntervalsAreWhole
<1>1. CalInv /\ SolvedInv => IntervalsAreWhole BY DEF SolvedInv
<1> QED BY <1>1, SolvedInvariant, PTL

(***************************************************************************)
(* The next step gets a row only after the solve of its interval, so with  *)
(* the model subtracted if that is asked for.                              *)
(***************************************************************************)
THEOREM OnlySolvedIsForwarded == CalSpec => []ForwardedIsSolved
<1>1. CalInv /\ SolvedInv => ForwardedIsSolved BY DEF SolvedInv, ForwardedIsSolved
<1> QED BY <1>1, SolvedInvariant, PTL

(***************************************************************************)
(* Under BdaDdeCal, too, the row pointers of an interval are the rows of   *)
(* the buffers in data_, and the buffer at the head of data_ is needed:    *)
(* when finish() drains, every AdvanceInterval works towards an empty      *)
(* data_.                                                                  *)
(***************************************************************************)
THEOREM CalRowsAreOwned == CalSpec => [](RowsOfIntervalsAreOwned /\ FrontIsNeeded)
<1>1. CalInv /\ SolvedInv => RowsOfIntervalsAreOwned /\ FrontIsNeeded BY DEF SolvedInv
<1> QED BY <1>1, SolvedInvariant, PTL

-----------------------------------------------------------------------------
(***************************************************************************)
(* BdaDdeCal implements StepStream.                                        *)
(***************************************************************************)
LEMMA IsPrefix ==
  ASSUME NEW S, NEW f \in Seq(S), NEW r \in Seq(S), NEW w, w = f \o r
  PROVE  Len(f) <= Len(w) /\ f = SubSeq(w, 1, Len(f))
<1>1. /\ w \in Seq(S) /\ Len(w) = Len(f) + Len(r) /\ Len(f) \in Nat /\ Len(r) \in Nat
      /\ \A i \in 1 .. Len(f) : w[i] = f[i]
  BY ConcatProperties
<1>2. PICK g : g = SubSeq(w, 1, Len(f)) OBVIOUS
<1>3. /\ g \in Seq(S) /\ Len(g) = Len(f)
      /\ \A i \in 1 .. Len(f) : g[i] = w[i]
  <2>1. Len(f) \in 0 .. Len(w) BY <1>1
  <2> QED BY <1>1, <1>2, <2>1, PrefixAndSuffix
<1>4. f = g BY <1>1, <1>3, SeqEqual
<1> QED BY <1>1, <1>2, <1>4

ForwardedIsPrefix ==
    /\ forwarded \in Seq(Seq(Row)) /\ fed \in Seq(Seq(Row))
    /\ Len(forwarded) <= Len(fed) /\ forwarded = SubSeq(fed, 1, Len(forwarded))

LEMMA QueuesFollowForwarded == CalInv => ForwardedIsPrefix
<1> SUFFICES ASSUME CalInv PROVE ForwardedIsPrefix OBVIOUS
<1>1. /\ forwarded \in Seq(Seq(Row)) /\ done \in Seq(Seq(Row)) /\ data \in Seq(Seq(Row))
      /\ input_buffers \in Seq(Seq(Row)) /\ fed \in Seq(Seq(Row))
  BY QueueTypes DEF CalInv
<1>2. PICK r : r = done \o (data \o input_buffers) OBVIOUS
<1>3. r \in Seq(Seq(Row)) BY <1>1, <1>2
<1>4. fed = forwarded \o r
  <2>1. forwarded \o done \o data \o input_buffers = fed BY DEF CalInv, NothingIsLost
  <2>2. PICK S : S = Seq(Row) OBVIOUS
  <2>3. PICK f, d, a, i : /\ f = forwarded /\ d = done /\ a = data /\ i = input_buffers
    OBVIOUS
  <2>4. f \in Seq(S) /\ d \in Seq(S) /\ a \in Seq(S) /\ i \in Seq(S) BY <1>1, <2>2, <2>3
  <2>5. f \o d \o a \o i = f \o (d \o (a \o i))
    <3>1. (f \o d) \o a = f \o (d \o a) BY <2>4, ConcatAssociative
    <3>2. (d \o a) \o i = d \o (a \o i) BY <2>4, ConcatAssociative
    <3>3. PICK x : x = d \o a OBVIOUS
    <3>4. x \in Seq(S) BY <2>4, <3>3
    <3>5. (f \o x) \o i = f \o (x \o i)
      <4>1. f \in Seq(S) /\ x \in Seq(S) /\ i \in Seq(S) BY <2>4, <3>4
      <4> HIDE <2>1, <2>3
      <4> QED BY <4>1, ConcatAssociative
    <3> QED BY <3>1, <3>2, <3>3, <3>5
  <2> QED BY <1>2, <2>1, <2>3, <2>5, Zenon
<1>5. Len(forwarded) <= Len(fed) /\ forwarded = SubSeq(fed, 1, Len(forwarded))
  BY <1>1, <1>3, <1>4, IsPrefix
<1> QED BY <1>1, <1>5 DEF ForwardedIsPrefix

LEMMA StreamStep ==
  ASSUME CalInv, ForwardedIsPrefix, ForwardedIsPrefix', [CalNext]_vars
  PROVE  [Stream!Next]_<<fed, forwarded, pc = "finished">>
<1>1. /\ forwarded' \in Seq(Seq(Row)) /\ Len(forwarded') <= Len(fed')
      /\ forwarded' = SubSeq(fed', 1, Len(forwarded'))
  BY DEF ForwardedIsPrefix
<1>2. /\ forwarded \in Seq(Seq(Row)) /\ fed \in Seq(Seq(Row))
  BY DEF ForwardedIsPrefix
<1>3. CASE \E rows \in InputBuffers : RowsInOrder(rows, read) /\ Process(rows)
  <2>1. PICK rows \in InputBuffers : Process(rows) BY <1>3
  <2>2. /\ pc = "idle" /\ pc' = "append" /\ fed' = Append(fed, rows)
        /\ forwarded' = forwarded
    BY <2>1 DEF Process
  <2>3. rows \in Seq(Row) BY InputAssumption
  <2>4. /\ Len(fed') = Len(fed) + 1 /\ SubSeq(fed', 1, Len(fed)) = fed
        /\ fed'[Len(fed')] = rows
    <3>1. Len(fed') = Len(fed) + 1 /\ fed'[Len(fed')] = rows BY <1>2, <2>2, <2>3
    <3>2. fed' = fed \o <<rows>> BY <1>2, <2>2, <2>3, AppendIsConcat
    <3>3. <<rows>> \in Seq(Seq(Row)) BY <2>3
    <3>4. fed = SubSeq(fed', 1, Len(fed)) BY <1>2, <3>2, <3>3, IsPrefix
    <3> QED BY <3>1, <3>4
  <2>5. Stream!Receive BY <2>2, <2>4 DEF Stream!Receive
  <2> QED BY <2>5 DEF Stream!Next
<1>4. CASE AppendFront \/ ForwardDone \/ ForwardRemaining
  <2>1. fed' = fed /\ pc # "finished" /\ pc' # "finished"
    BY <1>4 DEF AppendFront, ForwardDone, ForwardRemaining, inputVars
  <2>2. Len(forwarded') > Len(forwarded) \/ forwarded' = forwarded
    <3>1. CASE AppendFront
      <4>1. Head(input_buffers) \in Seq(Row)
        BY <3>1, QueueTypes DEF AppendFront, CalInv
      <4> QED BY <1>2, <3>1, <4>1 DEF AppendFront
    <3>2. CASE ForwardDone \/ ForwardRemaining
      <4>1. forwarded' = forwarded \o done /\ done \in Seq(Seq(Row))
        BY <3>2, QueueTypes DEF ForwardDone, ForwardRemaining, CalInv
      <4>2. CASE done = <<>> BY <1>2, <4>1, <4>2
      <4>3. CASE done # <<>>
        <5>1. Len(done) > 0 /\ Len(forwarded') = Len(forwarded) + Len(done)
          BY <1>2, <4>1, <4>3
        <5> QED BY <1>2, <4>1, <5>1
      <4> QED BY <4>2, <4>3
    <3> QED BY <1>4, <3>1, <3>2
  <2>3. CASE Len(forwarded') > Len(forwarded)
    <3>1. Len(forwarded') \in (Len(forwarded) + 1) .. Len(fed)
      BY <1>1, <1>2, <2>1, <2>3
    <3>2. forwarded' = SubSeq(fed, 1, Len(forwarded')) BY <1>1, <2>1
    <3>3. Stream!Forward BY <2>1, <3>1, <3>2 DEF Stream!Forward
    <3> QED BY <3>3 DEF Stream!Next
  <2>4. CASE forwarded' = forwarded BY <2>1, <2>4
  <2> QED BY <2>2, <2>3, <2>4
<1>5. CASE FinishNextStep
  <2>1. /\ pc = "close" /\ pc' = "finished" /\ fed' = fed /\ forwarded' = forwarded
    BY <1>5 DEF FinishNextStep, inputVars
  <2>2. data = <<>> /\ done = <<>> /\ input_buffers = <<>>
    BY <2>1 DEF CalInv, NothingRemains
  <2>3. forwarded = fed
    <3>1. forwarded \o done \o data \o input_buffers = fed BY DEF CalInv, NothingIsLost
    <3>2. PICK f : f = forwarded OBVIOUS
    <3>3. f \o <<>> = f BY <1>2, <3>2, ConcatEmptySeq
    <3>4. f \o <<>> \o <<>> \o <<>> = f BY <3>3
    <3> QED BY <2>2, <3>1, <3>2, <3>4
  <2>4. Stream!Finish BY <2>1, <2>3 DEF Stream!Finish
  <2> QED BY <2>4 DEF Stream!Next
<1>6. CASE AppendEnds \/ SolveComplete \/ SolveEnds \/ Finish \/ SolveRemaining
           \/ UNCHANGED vars
  <2>1. fed' = fed /\ forwarded' = forwarded /\ (pc' = "finished" <=> pc = "finished")
    BY <1>6 DEF AppendEnds, SolveComplete, SolveEnds, Finish, SolveRemaining, vars, calVars,
                inputVars
  <2> QED BY <2>1
<1> QED BY <1>3, <1>4, <1>5, <1>6 DEF CalNext

(***************************************************************************)
(* Each buffer goes to the next step once and in order, and the next       *)
(* step's finish() is called after the last one.                           *)
(***************************************************************************)
THEOREM CalImplementsStream == CalSpec => ImplementsStream
<1>1. CalInit => Stream!Init BY DEF CalInit, Stream!Init
<1>2. /\ CalInv /\ ForwardedIsPrefix /\ ForwardedIsPrefix' /\ [CalNext]_vars
      => [Stream!Next]_<<fed, forwarded, pc = "finished">>
  BY StreamStep
<1> QED BY <1>1, <1>2, QueuesFollowForwarded, CalInvariant, PTL
   DEF CalSpec, ImplementsStream, Stream!Spec
=============================================================================
