-------------------------- MODULE BdaPredictProofs --------------------------
(***************************************************************************)
(* What the expander and the averager of BdaPredict guarantee for every    *)
(* number of baselines, all averaging factors, and every input: rows in    *)
(* any order, of any length, with gaps, or for slots that have gone.       *)
(*                                                                         *)
(* What BdaGroupPredict guarantees for every input in which the rows of a  *)
(* group come in the order of their times, complete or not.                *)
(*                                                                         *)
(* What BdaAverager guarantees on its own, for every set of desired sizes. *)
(***************************************************************************)
EXTENDS BdaPredict, BdaGroupPredict, FiniteSetTheorems, WellFoundedInduction, TLAPS

R == Expander!Row

(***************************************************************************)
(* A non-empty set of indices has a largest element.                       *)
(***************************************************************************)
LEMMA LastIndex ==
  ASSUME NEW n \in Nat, NEW T \in SUBSET (1 .. n), T # {}
  PROVE  \E m \in T : \A k \in T : k <= m
<1> DEFINE U == {n - k : k \in T}
           less == {ss \in Nat \X Nat : ss[1] < ss[2]}
<1>1. IsWellFoundedOn(less, Nat) BY NatLessThanWellFounded DEF OpToRel
<1>2. U \subseteq Nat /\ U # {}
  <2>1. \A k \in T : n - k \in Nat OBVIOUS
  <2> QED BY <2>1
<1>3. PICK u \in U : \A v \in U : ~ (<<v, u>> \in less)
  <2> HIDE DEF U, less
  <2> QED BY <1>1, <1>2, WFMin
<1>4. PICK m \in T : u = n - m OBVIOUS
<1>5. ASSUME NEW k \in T PROVE k <= m
  <2>1. n - k \in U /\ n - k \in Nat /\ u \in Nat OBVIOUS
  <2>2. ~(n - k < u) BY <1>3, <2>1
  <2>3. k \in Int /\ m \in Int OBVIOUS
  <2> QED BY <1>4, <2>2, <2>3
<1> QED BY <1>5

(***************************************************************************)
(* Rows and sequences of rows.                                             *)
(***************************************************************************)
LEMMA RowFields ==
  ASSUME NEW r \in R
  PROVE  r.bl \in Baselines /\ Expander!Slots(r) \subseteq Nat /\ r # None
<1>1. r \in Expander!Row BY DEF R
<1>2. r.bl \in Baselines /\ r.start \in Nat /\ r.len \in 1 .. MaxFactor
  BY <1>1 DEF Expander!Row
<1> QED BY <1>1, <1>2, PredictAssumption, SizeAssumption DEF Expander!Slots

LEMMA RowsOfBuffer ==
  ASSUME NEW rows \in Seq(R)
  PROVE  /\ Expander!RowsIn(rows) \subseteq R
         /\ \A i \in DOMAIN rows : rows[i] \in Expander!RowsIn(rows)
         /\ \A r \in Expander!RowsIn(rows) : \E i \in DOMAIN rows : r = rows[i]
BY DEF Expander!RowsIn

(***************************************************************************)
(* process() copies, for a slot and a baseline, a row of the buffer that   *)
(* covers it, or leaves what was there.                                    *)
(***************************************************************************)
LEMMA CopiedRowIs ==
  ASSUME NEW rows \in Seq(R), NEW t \in Nat, NEW b \in Baselines
  PROVE  LET c == Expander!CopiedRow(rows, t, b)
             before == IF t \in DOMAIN elements_by_slot THEN elements_by_slot[t][b] ELSE None
         IN  \/ /\ c = before
                /\ \A r \in Expander!RowsIn(rows) : r.bl = b => t \notin Expander!Slots(r)
             \/ c \in Expander!RowsIn(rows) /\ c.bl = b /\ t \in Expander!Slots(c)
<1> DEFINE at == {i \in DOMAIN rows : rows[i].bl = b /\ t \in Expander!Slots(rows[i])}
           before == IF t \in DOMAIN elements_by_slot THEN elements_by_slot[t][b] ELSE None
           last == CHOOSE i \in at : \A j \in at : j <= i
           c == Expander!CopiedRow(rows, t, b)
<1>1. c = IF at = {} THEN before ELSE rows[last]
  BY DEF Expander!CopiedRow, Expander!Target
<1>2. CASE at = {}
  <2>1. c = before BY <1>1, <1>2
  <2>2. \A r \in Expander!RowsIn(rows) : r.bl = b => t \notin Expander!Slots(r)
    BY <1>2, RowsOfBuffer
  <2> QED BY <2>1, <2>2
<1>3. CASE at # {}
  <2>1. Len(rows) \in Nat /\ at \in SUBSET (1 .. Len(rows)) OBVIOUS
  <2>2. \E m \in at : \A k \in at : k <= m
    <3> HIDE DEF at
    <3> QED BY <1>3, <2>1, LastIndex
  <2>3. last \in at
    <3> HIDE DEF at
    <3> QED BY <2>2
  <2>4. c = rows[last] BY <1>1, <1>3
  <2>5. rows[last] \in Expander!RowsIn(rows) /\ rows[last].bl = b
        /\ t \in Expander!Slots(rows[last])
    <3> HIDE DEF last
    <3> QED BY <2>3, RowsOfBuffer
  <2> QED BY <2>4, <2>5
<1> QED BY <1>2, <1>3

-----------------------------------------------------------------------------
(***************************************************************************)
(* The invariant of the expander.                                          *)
(*                                                                         *)
(* Held: what a waiting slot has for a baseline is a row of that baseline  *)
(* that covers the slot.                                                   *)
(* Present: until finish(), every row that was read is still there for     *)
(* each of its slots that has not been sent; later rows of the baseline    *)
(* may replace it, not take it away.                                       *)
(***************************************************************************)
TypeOK ==
    /\ elements_by_slot \in [DOMAIN elements_by_slot -> [Baselines -> R \cup {None}]]
    /\ DOMAIN elements_by_slot \subseteq Nat
    /\ next_time_slot_to_process = Len(expanded)
    /\ expanded \in Seq([Baselines -> R \cup {None}])
    /\ calls \in {"idle", "process", "finished"}
    /\ rows_read \in SUBSET R
    /\ input \in Seq(Seq(R))
    /\ fed \in 0 .. Len(input)

Held ==
    \A t \in DOMAIN elements_by_slot : \A b \in Baselines :
        LET r == elements_by_slot[t][b]
        IN  r # None => r \in rows_read /\ r.bl = b /\ t \in Expander!Slots(r)

Present ==
    calls # "finished" =>
        \A r \in rows_read : \A t \in Expander!Slots(r) :
            t >= Len(expanded) =>
                t \in DOMAIN elements_by_slot /\ elements_by_slot[t][r.bl] # None

\* The next slot misses a baseline.
Waits == calls # "process" => ~Expander!Complete(Len(expanded))

ExpanderInv == TypeOK /\ Held /\ SlotsAreTheirRows /\ Present /\ Waits

(***************************************************************************)
(* Initially.                                                              *)
(***************************************************************************)
LEMMA InitInv == Init => ExpanderInv
<1> SUFFICES ASSUME Init PROVE ExpanderInv OBVIOUS
<1>1. /\ elements_by_slot = <<>> /\ next_time_slot_to_process = 0 /\ calls = "idle"
      /\ expanded = <<>> /\ rows_read = {} /\ fed = 0
  BY DEF Init, Expander!Init
<1>2. input \in Seq(Seq(R))
  BY InputAssumption DEF Init, Averager!Init, Averager!Baselines, Baselines, R
<1>3. TypeOK
  <2>1. DOMAIN elements_by_slot = {} BY <1>1
  <2>2. elements_by_slot \in [DOMAIN elements_by_slot -> [Baselines -> R \cup {None}]]
    BY <1>1, <2>1
  <2> QED BY <1>1, <1>2, <2>1, <2>2 DEF TypeOK
<1>4. Held /\ SlotsAreTheirRows /\ Present
  BY <1>1 DEF Held, SlotsAreTheirRows, Expander!SlotsAreTheirRows, Present
<1>5. Waits
  <2>1. 1 \in Baselines BY PredictAssumption, SizeAssumption DEF Baselines
  <2> QED BY <1>1, <2>1 DEF Waits, Expander!Complete
<1> QED BY <1>3, <1>4, <1>5 DEF ExpanderInv

(***************************************************************************)
(* process(): the rows are copied.                                         *)
(***************************************************************************)
LEMMA ProcessInv == ExpanderInv /\ Process => ExpanderInv'
<1> SUFFICES ASSUME ExpanderInv, Process PROVE ExpanderInv' OBVIOUS
<1>0. TypeOK /\ Held /\ SlotsAreTheirRows /\ Present BY DEF ExpanderInv
<1> PICK rows \in Seq(R) : rows = input[fed + 1]
  BY <1>0 DEF Process, TypeOK
<1> DEFINE In == Expander!RowsIn(rows)
           D == DOMAIN elements_by_slot
           E == D \cup UNION {Expander!Slots(r) : r \in In}
<1>1. /\ elements_by_slot' =
            [t \in E |-> [b \in Baselines |-> Expander!CopiedRow(rows, t, b)]]
      /\ rows_read' = rows_read \cup In
      /\ calls = "idle" /\ calls' = "process" /\ expanded' = expanded
      /\ next_time_slot_to_process' = next_time_slot_to_process
      /\ input' = input /\ fed' = fed + 1 /\ fed < Len(input)
  BY DEF Process, Expander!Process, Expander!CopyRows, Expander!Target
<1>2. In \subseteq R BY RowsOfBuffer
<1>3. D \subseteq Nat /\ rows_read \subseteq R BY <1>0 DEF TypeOK
<1>4. E \subseteq Nat
  <2>1. \A r \in In : Expander!Slots(r) \subseteq Nat BY <1>2, RowFields
  <2> HIDE DEF In
  <2> QED BY <1>3, <2>1
<1>5. DOMAIN elements_by_slot' = E /\ D \subseteq E BY <1>1
<1> HIDE DEF In, D, E
<1>6. ASSUME NEW t \in E, NEW b \in Baselines
      PROVE  /\ elements_by_slot'[t][b] \in R \cup {None}
             /\ elements_by_slot'[t][b] # None =>
                   /\ elements_by_slot'[t][b] \in rows_read'
                   /\ elements_by_slot'[t][b].bl = b
                   /\ t \in Expander!Slots(elements_by_slot'[t][b])
             /\ (t \in D /\ elements_by_slot[t][b] # None) => elements_by_slot'[t][b] # None
             /\ \A r \in In : (r.bl = b /\ t \in Expander!Slots(r)) =>
                                 elements_by_slot'[t][b] # None
  <2> DEFINE c == Expander!CopiedRow(rows, t, b)
             before == IF t \in D THEN elements_by_slot[t][b] ELSE None
  <2>1. elements_by_slot'[t][b] = c BY <1>1
  <2>2. \/ c = before /\ \A r \in In : r.bl = b => t \notin Expander!Slots(r)
        \/ c \in In /\ c.bl = b /\ t \in Expander!Slots(c)
    BY <1>4, CopiedRowIs DEF In, D
  <2>3. t \in D => elements_by_slot[t][b] \in R \cup {None}
    BY <1>0 DEF TypeOK, D
  <2>4. (t \in D /\ elements_by_slot[t][b] # None) =>
           /\ elements_by_slot[t][b] \in rows_read
           /\ elements_by_slot[t][b].bl = b
           /\ t \in Expander!Slots(elements_by_slot[t][b])
    BY <1>0 DEF Held, D
  <2> HIDE DEF c
  <2>5. CASE c = before /\ \A r \in In : r.bl = b => t \notin Expander!Slots(r)
    BY <1>1, <2>1, <2>3, <2>4, <2>5
  <2>6. CASE c \in In /\ c.bl = b /\ t \in Expander!Slots(c)
    <3>1. c \in R /\ c # None BY <1>2, <2>6, RowFields
    <3>2. c \in rows_read' BY <1>1, <2>6
    <3> QED BY <2>1, <2>6, <3>1, <3>2
  <2> QED BY <2>2, <2>5, <2>6
<1>7. TypeOK'
  <2>1. elements_by_slot' \in [E -> [Baselines -> R \cup {None}]]
    BY <1>1, <1>6
  <2>2. rows_read' \in SUBSET R BY <1>1, <1>2, <1>3
  <2>3. fed' \in 0 .. Len(input') BY <1>0, <1>1 DEF TypeOK
  <2> QED BY <1>0, <1>1, <1>4, <1>5, <2>1, <2>2, <2>3 DEF TypeOK
<1>8. Held' BY <1>5, <1>6 DEF Held
<1>9. SlotsAreTheirRows'
  BY <1>0, <1>1 DEF SlotsAreTheirRows, Expander!SlotsAreTheirRows
<1>10. Present'
  <2> SUFFICES ASSUME NEW r \in rows_read', NEW t \in Expander!Slots(r), t >= Len(expanded)
               PROVE  t \in E /\ elements_by_slot'[t][r.bl] # None
    BY <1>1, <1>5 DEF Present
  <2>1. CASE r \in rows_read
    <3>1. r.bl \in Baselines BY <1>3, <2>1, RowFields
    <3>2. t \in D /\ elements_by_slot[t][r.bl] # None
      BY <1>0, <1>1, <2>1 DEF Present, D
    <3> QED BY <1>5, <1>6, <3>1, <3>2
  <2>2. CASE r \in In
    <3>1. r.bl \in Baselines BY <1>2, <2>2, RowFields
    <3>2. t \in E BY <2>2 DEF E
    <3> QED BY <1>6, <2>2, <3>1, <3>2
  <2> QED BY <1>1, <2>1, <2>2
<1>11. Waits' BY <1>1 DEF Waits
<1> QED BY <1>7, <1>8, <1>9, <1>10, <1>11 DEF ExpanderInv

(***************************************************************************)
(* process(): the next slot has all baselines and is sent.                 *)
(***************************************************************************)
LEMMA SendSlotInv == ExpanderInv /\ SendSlot => ExpanderInv'
<1> SUFFICES ASSUME ExpanderInv, SendSlot PROVE ExpanderInv' OBVIOUS
<1>0. TypeOK /\ Held /\ SlotsAreTheirRows /\ Present BY DEF ExpanderInv
<1> DEFINE D == DOMAIN elements_by_slot
           n == Len(expanded)
           e == elements_by_slot[n]
<1>1. /\ n \in D /\ \A b \in Baselines : e[b] # None
      /\ expanded' = Append(expanded, e)
      /\ elements_by_slot' = [t \in D \ {n} |-> elements_by_slot[t]]
      /\ next_time_slot_to_process' = n + 1
      /\ calls = "process" /\ calls' = "process" /\ rows_read' = rows_read
      /\ input' = input /\ fed' = fed
  BY <1>0 DEF SendSlot, Expander!SendNext, Expander!NextIsReady, TypeOK
<1>2. DOMAIN elements_by_slot' = D \ {n} BY <1>1
<1>3. e \in [Baselines -> R \cup {None}] BY <1>0, <1>1 DEF TypeOK
<1> HIDE DEF e
<1>4. /\ n \in Nat /\ Len(expanded') = n + 1 /\ DOMAIN expanded' = 1 .. n + 1
      /\ expanded' \in Seq([Baselines -> R \cup {None}])
      /\ \A k \in 1 .. n : expanded'[k] = expanded[k]
      /\ expanded'[n + 1] = e
  BY <1>0, <1>1, <1>3 DEF TypeOK
<1>5. TypeOK'
  <2>1. elements_by_slot' \in [DOMAIN elements_by_slot' -> [Baselines -> R \cup {None}]]
    BY <1>0, <1>1, <1>2 DEF TypeOK
  <2> QED BY <1>0, <1>1, <1>2, <1>4, <2>1 DEF TypeOK
<1>6. Held' BY <1>0, <1>1, <1>2 DEF Held
<1>7. SlotsAreTheirRows'
  <2> SUFFICES ASSUME NEW k \in 1 .. n + 1, NEW b \in Baselines
               PROVE  /\ expanded'[k][b] \in rows_read
                      /\ expanded'[k][b].bl = b
                      /\ k - 1 \in Expander!Slots(expanded'[k][b])
    BY <1>1, <1>4 DEF SlotsAreTheirRows, Expander!SlotsAreTheirRows
  <2>1. CASE k \in 1 .. n
    <3>1. k \in DOMAIN expanded BY <1>0, <2>1 DEF TypeOK
    <3> QED BY <1>0, <1>4, <2>1, <3>1 DEF SlotsAreTheirRows, Expander!SlotsAreTheirRows
  <2>2. CASE k = n + 1
    <3>1. e[b] \in rows_read /\ e[b].bl = b /\ n \in Expander!Slots(e[b])
      BY <1>0, <1>1 DEF Held, e
    <3>2. k - 1 = n BY <1>4, <2>2
    <3> QED BY <1>4, <2>2, <3>1, <3>2
  <2> QED BY <1>4, <2>1, <2>2
<1>8. Present'
  <2> SUFFICES ASSUME NEW r \in rows_read, NEW t \in Expander!Slots(r), t >= n + 1
               PROVE  t \in D \ {n} /\ elements_by_slot'[t][r.bl] # None
    BY <1>1, <1>2, <1>4 DEF Present
  <2>1. r.bl \in Baselines /\ t \in Nat BY <1>0, RowFields DEF TypeOK
  <2>2. t \in D /\ elements_by_slot[t][r.bl] # None
    BY <1>0, <1>1, <1>4, <2>1 DEF Present
  <2> QED BY <1>1, <1>4, <2>1, <2>2
<1>9. Waits' BY <1>1 DEF Waits
<1> QED BY <1>5, <1>6, <1>7, <1>8, <1>9 DEF ExpanderInv

(***************************************************************************)
(* process() returns: the next slot misses a baseline, of which no row     *)
(* that was read covers it.                                                *)
(***************************************************************************)
LEMMA EndProcessInv == ExpanderInv /\ EndProcess => ExpanderInv'
<1> SUFFICES ASSUME ExpanderInv, EndProcess PROVE ExpanderInv' OBVIOUS
<1>0. TypeOK /\ Held /\ SlotsAreTheirRows /\ Present BY DEF ExpanderInv
<1>1. /\ calls = "process" /\ calls' = "idle" /\ ~Expander!NextIsReady
      /\ elements_by_slot' = elements_by_slot /\ expanded' = expanded
      /\ next_time_slot_to_process' = next_time_slot_to_process
      /\ rows_read' = rows_read /\ input' = input /\ fed' = fed
  BY DEF EndProcess, Expander!EndProcess
<1>2. ~Expander!Complete(Len(expanded))
  <2> SUFFICES ASSUME Expander!Complete(Len(expanded)) PROVE Expander!NextIsReady
    BY <1>1
  <2>1. Len(expanded) = next_time_slot_to_process /\ Len(expanded) \in Nat
    BY <1>0 DEF TypeOK
  <2>2. ASSUME NEW b \in Baselines
        PROVE  /\ Len(expanded) \in DOMAIN elements_by_slot
               /\ elements_by_slot[Len(expanded)][b] # None
    <3>1. PICK r \in rows_read : r.bl = b /\ Len(expanded) \in Expander!Slots(r)
      BY DEF Expander!Complete
    <3> QED BY <1>0, <1>1, <2>1, <3>1 DEF Present
  <2>3. 1 \in Baselines BY PredictAssumption, SizeAssumption DEF Baselines
  <2> QED BY <2>1, <2>2, <2>3 DEF Expander!NextIsReady
<1>3. TypeOK' BY <1>0, <1>1 DEF TypeOK
<1>4. Held' BY <1>0, <1>1 DEF Held
<1>5. SlotsAreTheirRows' BY <1>0, <1>1 DEF SlotsAreTheirRows, Expander!SlotsAreTheirRows
<1>6. Present' BY <1>0, <1>1 DEF Present
<1>7. Waits' BY <1>1, <1>2 DEF Waits, Expander!Complete
<1> QED BY <1>3, <1>4, <1>5, <1>6, <1>7 DEF ExpanderInv

(***************************************************************************)
(* finish() drops the slots that wait.                                     *)
(***************************************************************************)
LEMMA FinishInv == ExpanderInv /\ Finish => ExpanderInv'
<1> SUFFICES ASSUME ExpanderInv, Finish PROVE ExpanderInv' OBVIOUS
<1>0. TypeOK /\ SlotsAreTheirRows /\ Waits BY DEF ExpanderInv
<1>1. /\ calls = "idle" /\ calls' = "finished" /\ elements_by_slot' = <<>>
      /\ expanded' = expanded /\ next_time_slot_to_process' = next_time_slot_to_process
      /\ rows_read' = rows_read /\ input' = input /\ fed' = fed
  BY DEF Finish, Expander!Finish
<1>2. DOMAIN elements_by_slot' = {} BY <1>1
<1>3. TypeOK'
  <2>1. elements_by_slot' \in [DOMAIN elements_by_slot' -> [Baselines -> R \cup {None}]]
    BY <1>1, <1>2
  <2> QED BY <1>0, <1>1, <1>2, <2>1 DEF TypeOK
<1>4. Held' BY <1>2 DEF Held
<1>5. SlotsAreTheirRows' BY <1>0, <1>1 DEF SlotsAreTheirRows, Expander!SlotsAreTheirRows
<1>6. Present' BY <1>1 DEF Present
<1>7. Waits' BY <1>0, <1>1 DEF Waits, Expander!Complete
<1> QED BY <1>3, <1>4, <1>5, <1>6, <1>7 DEF ExpanderInv

LEMMA UnchangedInv == ExpanderInv /\ UNCHANGED <<expVars, input, fed>> => ExpanderInv'
<1> SUFFICES ASSUME ExpanderInv, UNCHANGED <<expVars, input, fed>> PROVE ExpanderInv' OBVIOUS
<1> USE DEF expVars
<1>1. TypeOK' BY DEF ExpanderInv, TypeOK
<1>2. Held' BY DEF ExpanderInv, Held
<1>3. SlotsAreTheirRows' BY DEF ExpanderInv, SlotsAreTheirRows, Expander!SlotsAreTheirRows
<1>4. Present' BY DEF ExpanderInv, Present
<1>5. Waits' BY DEF ExpanderInv, Waits, Expander!Complete
<1> QED BY <1>1, <1>2, <1>3, <1>4, <1>5 DEF ExpanderInv

LEMMA NextInv == ExpanderInv /\ [Next]_vars => ExpanderInv'
<1> SUFFICES ASSUME ExpanderInv, [Next]_vars PROVE ExpanderInv' OBVIOUS
<1>1. CASE Process BY <1>1, ProcessInv
<1>2. CASE SendSlot BY <1>2, SendSlotInv
<1>3. CASE Average BY <1>3, UnchangedInv DEF Average
<1>4. CASE EndProcess BY <1>4, EndProcessInv
<1>5. CASE Finish BY <1>5, FinishInv
<1>6. CASE Flush BY <1>6, UnchangedInv DEF Flush
<1>7. CASE UNCHANGED vars BY <1>7, UnchangedInv DEF vars
<1> QED BY <1>1, <1>2, <1>3, <1>4, <1>5, <1>6, <1>7 DEF Next

(***************************************************************************)
(* Types, held rows and waiting slots are as they should be at any moment. *)
(***************************************************************************)
THEOREM ExpanderInvariant == Spec => []ExpanderInv
BY InitInv, NextInv, PTL DEF Spec

(***************************************************************************)
(* Every regular buffer that the prediction gets is the next time slot,    *)
(* and has for each baseline the data of a row that covers this slot.      *)
(***************************************************************************)
THEOREM EverySlotIsItsRows == Spec => []SlotsAreTheirRows
<1>1. ExpanderInv => SlotsAreTheirRows BY DEF ExpanderInv
<1> QED BY <1>1, ExpanderInvariant, PTL

(***************************************************************************)
(* When process() returns, every complete slot before the first incomplete *)
(* one was sent, and finish() drops no other: nothing that is ready is     *)
(* kept back, whatever the rows and their order.                           *)
(***************************************************************************)
THEOREM CompleteSlotsAreSent == Spec => []NothingReadyWaits
<1>1. ExpanderInv => NothingReadyWaits
  <2> SUFFICES ASSUME ExpanderInv, calls # "process"
               PROVE  /\ \A t \in 0 .. (Len(expanded) - 1) : Expander!Complete(t)
                      /\ ~Expander!Complete(Len(expanded))
    BY DEF NothingReadyWaits, Expander!NothingReadyWaits
  <2>1. ASSUME NEW t \in 0 .. (Len(expanded) - 1) PROVE Expander!Complete(t)
    <3>1. t + 1 \in DOMAIN expanded /\ (t + 1) - 1 = t BY DEF ExpanderInv, TypeOK
    <3>2. \A b \in Baselines : /\ expanded[t + 1][b] \in rows_read
                               /\ expanded[t + 1][b].bl = b
                               /\ t \in Expander!Slots(expanded[t + 1][b])
      BY <3>1 DEF ExpanderInv, SlotsAreTheirRows, Expander!SlotsAreTheirRows
    <3> QED BY <3>2 DEF Expander!Complete
  <2> QED BY <2>1 DEF ExpanderInv, Waits
<1> QED BY <1>1, ExpanderInvariant, PTL

-----------------------------------------------------------------------------
(***************************************************************************)
(* The averager.  The rows of its buffers, one buffer after another, are a *)
(* recursive function of the buffers.                                      *)
(***************************************************************************)
Buffer == [cap : Int, rows : Seq(R)]

IsAll(f, bufs, n) == f = [k \in 0 .. n |-> IF k = 0 THEN <<>> ELSE f[k - 1] \o bufs[k].rows]

\* A set of numbers up to n that has each number after those before it.
LEMMA UpTo ==
  ASSUME NEW n \in Nat, NEW T,
         \A k \in 0 .. n : (\A j \in 0 .. n : j < k => j \in T) => k \in T
  PROVE  \A k \in 0 .. n : k \in T
<1> DEFINE B == {k \in 0 .. n : k \notin T}
           less == {ss \in Nat \X Nat : ss[1] < ss[2]}
<1>1. SUFFICES ASSUME B # {} PROVE FALSE OBVIOUS
<1>2. B \subseteq Nat OBVIOUS
<1>3. IsWellFoundedOn(less, Nat) BY NatLessThanWellFounded DEF OpToRel
<1>4. PICK m \in B : \A j \in B : ~ (<<j, m>> \in less)
  <2> HIDE DEF B, less
  <2> QED BY <1>1, <1>2, <1>3, WFMin
<1>5. ASSUME NEW j \in 0 .. n, j < m PROVE j \in T
  <2>1. j \in Nat /\ m \in Nat OBVIOUS
  <2> QED BY <1>4, <1>5, <2>1
<1>6. m \in T BY <1>5
<1> QED BY <1>6

LEMMA AllExists ==
  ASSUME NEW bufs, NEW n \in Nat
  PROVE  \E f : IsAll(f, bufs, n)
<1> DEFINE T == {k \in 0 .. n : \E f : IsAll(f, bufs, k)}
<1>1. ASSUME NEW k \in 0 .. n, \A j \in 0 .. n : j < k => j \in T
      PROVE  k \in T
  <2>1. CASE k = 0
    <3> DEFINE f == [j \in 0 .. 0 |-> <<>>]
    <3>1. f = [j \in 0 .. 0 |-> IF j = 0 THEN <<>> ELSE f[j - 1] \o bufs[j].rows] OBVIOUS
    <3>2. IsAll(f, bufs, 0) BY <3>1 DEF IsAll
    <3> QED BY <2>1, <3>2
  <2>2. CASE k > 0
    <3>1. k - 1 \in 0 .. n /\ k - 1 < k BY <2>2
    <3>2. k - 1 \in T BY <1>1, <3>1
    <3>3. PICK g : IsAll(g, bufs, k - 1) BY <3>2
    <3> DEFINE f == [j \in 0 .. k |-> IF j < k THEN g[j] ELSE g[k - 1] \o bufs[k].rows]
    <3>4. ASSUME NEW j \in 0 .. k
          PROVE  f[j] = IF j = 0 THEN <<>> ELSE f[j - 1] \o bufs[j].rows
      <4>1. \A i \in 0 .. k - 1 : g[i] = IF i = 0 THEN <<>> ELSE g[i - 1] \o bufs[i].rows
        BY <3>3 DEF IsAll
      <4>2. CASE j < k
        <5>1. j \in 0 .. k - 1 /\ f[j] = g[j] BY <4>2
        <5>2. j # 0 => j - 1 \in 0 .. k /\ j - 1 < k /\ f[j - 1] = g[j - 1] BY <4>2
        <5> QED BY <4>1, <5>1, <5>2
      <4>3. CASE j = k
        <5>0. k \in 0 .. k /\ ~(k < k) OBVIOUS
        <5>1. f[j] = g[k - 1] \o bufs[k].rows BY <4>3, <5>0
        <5>2. f[j - 1] = g[k - 1] BY <2>2, <4>3
        <5> QED BY <2>2, <4>3, <5>1, <5>2
      <4> QED BY <4>2, <4>3
    <3>5. f = [j \in 0 .. k |-> IF j = 0 THEN <<>> ELSE f[j - 1] \o bufs[j].rows]
      <4>1. f = [j \in 0 .. k |-> f[j]] OBVIOUS
      <4> HIDE DEF f
      <4> QED BY <3>4, <4>1
    <3>6. IsAll(f, bufs, k)
      <4> HIDE DEF f
      <4> QED BY <3>5 DEF IsAll
    <3> QED BY <3>6
  <2> QED BY <2>1, <2>2
<1>2. \A k \in 0 .. n : k \in T
  <2> HIDE DEF T
  <2> QED BY <1>1, UpTo
<1> QED BY <1>2

LEMMA AllIsUnique ==
  ASSUME NEW bufs, NEW n \in Nat, NEW f, IsAll(f, bufs, n),
         NEW others, NEW m \in Nat, NEW g, IsAll(g, others, m),
         n <= m, \A k \in 1 .. n : others[k] = bufs[k]
  PROVE  \A k \in 0 .. n : f[k] = g[k]
<1> DEFINE T == {k \in 0 .. n : f[k] = g[k]}
<1>1. ASSUME NEW k \in 0 .. n, \A j \in 0 .. n : j < k => j \in T
      PROVE  k \in T
  <2>1. f[k] = IF k = 0 THEN <<>> ELSE f[k - 1] \o bufs[k].rows BY DEF IsAll
  <2>2. k \in 0 .. m OBVIOUS
  <2>3. g[k] = IF k = 0 THEN <<>> ELSE g[k - 1] \o others[k].rows BY <2>2 DEF IsAll
  <2>4. CASE k = 0 BY <2>1, <2>3, <2>4
  <2>5. CASE k > 0
    <3>1. k - 1 \in 0 .. n /\ k - 1 < k /\ k \in 1 .. n BY <2>5
    <3>2. f[k - 1] = g[k - 1] BY <1>1, <3>1
    <3>3. f[k] = g[k] BY <2>1, <2>3, <2>5, <3>1, <3>2
    <3> QED BY <3>3
  <2> QED BY <2>4, <2>5
<1>2. \A k \in 0 .. n : k \in T
  <2> HIDE DEF T
  <2> QED BY <1>1, UpTo
<1> QED BY <1>2

LEMMA RowsOfIs ==
  ASSUME NEW bufs, Len(bufs) \in Nat
  PROVE  \E f : IsAll(f, bufs, Len(bufs)) /\ Averager!RowsOf(bufs) = f[Len(bufs)]
<1> DEFINE all == CHOOSE f : IsAll(f, bufs, Len(bufs))
<1>1. IsAll(all, bufs, Len(bufs)) BY AllExists
<1>2. Averager!RowsOf(bufs) = all[Len(bufs)] BY DEF Averager!RowsOf, IsAll
<1> QED BY <1>1, <1>2

(***************************************************************************)
(* No buffers have no rows; a buffer that is added adds its rows.          *)
(***************************************************************************)
LEMMA RowsOfNone == Averager!RowsOf(<<>>) = <<>>
<1>1. Len(<<>>) = 0 /\ 0 \in Nat OBVIOUS
<1>2. PICK f : IsAll(f, <<>>, 0) /\ Averager!RowsOf(<<>>) = f[0] BY <1>1, RowsOfIs
<1> QED BY <1>2 DEF IsAll

LEMMA RowsOfMore ==
  ASSUME NEW bufs \in Seq(Buffer), NEW buf \in Buffer
  PROVE  Averager!RowsOf(Append(bufs, buf)) = Averager!RowsOf(bufs) \o buf.rows
<1> DEFINE n == Len(bufs)
           more == Append(bufs, buf)
<1>1. /\ n \in Nat /\ Len(more) = n + 1 /\ more[n + 1] = buf
      /\ \A k \in 1 .. n : more[k] = bufs[k]
  OBVIOUS
<1>2. PICK f : IsAll(f, bufs, n) /\ Averager!RowsOf(bufs) = f[n] BY <1>1, RowsOfIs
<1> HIDE DEF more
<1>3. n + 1 \in Nat /\ n <= n + 1 BY <1>1
<1>4. PICK g : IsAll(g, more, n + 1) /\ Averager!RowsOf(more) = g[n + 1]
  BY <1>1, <1>3, RowsOfIs
<1> HIDE DEF n
<1>5. f[n] = g[n] BY <1>1, <1>2, <1>3, <1>4, AllIsUnique
<1>6. g[n + 1] = g[n] \o more[n + 1].rows
  <2>1. n + 1 \in 0 .. n + 1 /\ n + 1 # 0 /\ (n + 1) - 1 = n BY <1>1
  <2> QED BY <1>4, <2>1 DEF IsAll
<1> QED BY <1>1, <1>2, <1>4, <1>5, <1>6 DEF more, n

LEMMA RowsOfType ==
  ASSUME NEW bufs \in Seq(Buffer)
  PROVE  Averager!RowsOf(bufs) \in Seq(R)
<1> DEFINE n == Len(bufs)
<1>1. n \in Nat OBVIOUS
<1>2. PICK f : IsAll(f, bufs, n) /\ Averager!RowsOf(bufs) = f[n] BY <1>1, RowsOfIs
<1> DEFINE T == {k \in 0 .. n : f[k] \in Seq(R)}
<1>3. ASSUME NEW k \in 0 .. n, \A j \in 0 .. n : j < k => j \in T
      PROVE  k \in T
  <2>1. f[k] = IF k = 0 THEN <<>> ELSE f[k - 1] \o bufs[k].rows BY <1>2 DEF IsAll
  <2>2. CASE k = 0
    <3>1. <<>> \in Seq(R) OBVIOUS
    <3> QED BY <2>1, <2>2, <3>1
  <2>3. CASE k > 0
    <3>1. k - 1 \in 0 .. n /\ k - 1 < k /\ k \in 1 .. n BY <2>3
    <3>2. f[k - 1] \in Seq(R) BY <1>3, <3>1
    <3>3. bufs[k] \in Buffer BY <3>1
    <3>4. bufs[k].rows \in Seq(R) BY <3>3 DEF Buffer
    <3>5. f[k] \in Seq(R) BY <2>1, <2>3, <3>2, <3>4
    <3> QED BY <3>5
  <2> QED BY <2>2, <2>3
<1>4. \A k \in 0 .. n : k \in T
  <2> HIDE DEF T
  <2> QED BY <1>1, <1>3, UpTo
<1>5. n \in 0 .. n BY <1>1
<1> QED BY <1>2, <1>4, <1>5

(***************************************************************************)
(* Sums and products, as the averager and BDABuffer count elements.        *)
(***************************************************************************)
IsTable(f, z, n, G) == f = [k \in 0 .. n |-> IF k = 0 THEN z ELSE G[k][f[k - 1]]]

LEMMA TableExists ==
  ASSUME NEW V, NEW z \in V, NEW n \in Nat, NEW G \in [1 .. n -> [V -> V]]
  PROVE  \E f \in [0 .. n -> V] : IsTable(f, z, n, G)
<1> DEFINE Agrees(f, k) == \A j \in 0 .. k : f[j] = IF j = 0 THEN z ELSE G[j][f[j - 1]]
           T == {k \in 0 .. n : \E f \in [0 .. k -> V] : Agrees(f, k)}
<1>1. ASSUME NEW k \in 0 .. n, \A j \in 0 .. n : j < k => j \in T
      PROVE  k \in T
  <2>1. CASE k = 0
    <3> DEFINE f == [j \in 0 .. 0 |-> z]
    <3>1. f \in [0 .. 0 -> V] /\ Agrees(f, 0) OBVIOUS
    <3> QED BY <2>1, <3>1
  <2>2. CASE k > 0
    <3>1. k - 1 \in 0 .. n /\ k - 1 < k /\ k \in 1 .. n BY <2>2
    <3>2. k - 1 \in T BY <1>1, <3>1
    <3>3. PICK g \in [0 .. k - 1 -> V] : Agrees(g, k - 1) BY <3>2
    <3> DEFINE v == G[k][g[k - 1]]
               f == [j \in 0 .. k |-> IF j < k THEN g[j] ELSE v]
    <3>4. v \in V
      <4>1. g[k - 1] \in V BY <3>1
      <4> QED BY <3>1, <4>1
    <3> HIDE DEF v
    <3>5. f \in [0 .. k -> V]
      <4>1. ASSUME NEW j \in 0 .. k PROVE (IF j < k THEN g[j] ELSE v) \in V
        BY <3>4
      <4> QED BY <4>1
    <3>6. /\ \A j \in 0 .. k - 1 : f[j] = g[j]
          /\ f[k] = v
      OBVIOUS
    <3> HIDE DEF f
    <3>7. ASSUME NEW j \in 0 .. k PROVE f[j] = IF j = 0 THEN z ELSE G[j][f[j - 1]]
      <4>1. CASE j = k
        <5>1. f[j - 1] = g[k - 1] BY <2>2, <3>6, <4>1
        <5> QED BY <2>2, <3>6, <4>1, <5>1 DEF v
      <4>2. CASE j < k
        <5>1. j \in 0 .. k - 1 BY <4>2
        <5>2. j # 0 => j - 1 \in 0 .. k - 1 BY <4>2
        <5>3. g[j] = IF j = 0 THEN z ELSE G[j][g[j - 1]] BY <3>3, <5>1
        <5> QED BY <3>6, <5>1, <5>2, <5>3
      <4> QED BY <4>1, <4>2
    <3>8. Agrees(f, k) BY <3>7
    <3> QED BY <3>5, <3>8
  <2> QED BY <2>1, <2>2
<1>2. \A k \in 0 .. n : k \in T
  <2> HIDE DEF T
  <2> QED BY <1>1, UpTo
<1>3. n \in 0 .. n OBVIOUS
<1>4. PICK f \in [0 .. n -> V] : Agrees(f, n) BY <1>2, <1>3
<1>5. f = [k \in 0 .. n |-> IF k = 0 THEN z ELSE G[k][f[k - 1]]]
  <2>1. f = [k \in 0 .. n |-> f[k]] OBVIOUS
  <2> QED BY <1>4, <2>1
<1> QED BY <1>5 DEF IsTable

LEMMA SumIs ==
  ASSUME NEW n \in Nat, NEW a \in [1 .. n -> Nat]
  PROVE  LET s[k \in 0 .. n] == IF k = 0 THEN 0 ELSE s[k - 1] + a[k] IN s[n] \in Nat
<1> DEFINE IsSum(f) == f = [k \in 0 .. n |-> IF k = 0 THEN 0 ELSE f[k - 1] + a[k]]
           G == [k \in 1 .. n |-> [x \in Nat |-> x + a[k]]]
           s == CHOOSE f : IsSum(f)
<1>1. G \in [1 .. n -> [Nat -> Nat]]
  <2>1. \A k \in 1 .. n : \A x \in Nat : x + a[k] \in Nat OBVIOUS
  <2> QED BY <2>1
<1>2. \E f : IsSum(f)
  <2>1. PICK f \in [0 .. n -> Nat] :
           f = [k \in 0 .. n |-> IF k = 0 THEN 0 ELSE G[k][f[k - 1]]]
    <3>1. PICK V, z, g : V = Nat /\ z = 0 /\ g = G OBVIOUS
    <3>2. z \in V /\ g \in [1 .. n -> [V -> V]] BY <1>1, <3>1
    <3> HIDE DEF G
    <3>3. \E f \in [0 .. n -> V] : IsTable(f, z, n, g) BY <3>2, TableExists
    <3> QED BY <3>1, <3>3 DEF IsTable
  <2>2. ASSUME NEW k \in 0 .. n, k # 0 PROVE G[k][f[k - 1]] = f[k - 1] + a[k]
    <3>1. f[k - 1] \in Nat /\ k \in 1 .. n BY <2>2
    <3> QED BY <3>1
  <2>3. IsSum(f)
    <3> HIDE DEF G
    <3> QED BY <2>1, <2>2
  <2> QED BY <2>3
<1>3. IsSum(s)
  <2> HIDE DEF IsSum
  <2> QED BY <1>2
<1> DEFINE T == {k \in 0 .. n : s[k] \in Nat}
<1>4. ASSUME NEW k \in 0 .. n, \A j \in 0 .. n : j < k => j \in T
      PROVE  k \in T
  <2> HIDE DEF s
  <2>1. s[k] = IF k = 0 THEN 0 ELSE s[k - 1] + a[k] BY <1>3
  <2>2. k # 0 => k - 1 \in T /\ a[k] \in Nat
    <3>1. k # 0 => k - 1 \in 0 .. n /\ k - 1 < k /\ k \in 1 .. n OBVIOUS
    <3> QED BY <1>4, <3>1
  <2> QED BY <2>1, <2>2
<1>5. \A k \in 0 .. n : k \in T
  <2> HIDE DEF T
  <2> QED BY <1>4, UpTo
<1>6. s[n] \in Nat
  <2> HIDE DEF s
  <2> QED BY <1>5
<1> QED BY <1>6

LEMMA ProductIs ==
  ASSUME NEW n \in Nat, NEW a \in [1 .. n -> Nat \ {0}]
  PROVE  LET p[k \in 0 .. n] == IF k = 0 THEN 1 ELSE p[k - 1] * a[k] IN p[n] \in Nat \ {0}
<1> DEFINE V == Nat \ {0}
           IsProduct(f) == f = [k \in 0 .. n |-> IF k = 0 THEN 1 ELSE f[k - 1] * a[k]]
           G == [k \in 1 .. n |-> [x \in V |-> x * a[k]]]
           p == CHOOSE f : IsProduct(f)
<1>1. ASSUME NEW x \in V, NEW y \in V PROVE x * y \in V OBVIOUS
<1>2. G \in [1 .. n -> [V -> V]]
  <2>1. \A k \in 1 .. n : a[k] \in V OBVIOUS
  <2> HIDE DEF V
  <2> QED BY <1>1, <2>1
<1>3. \E f : IsProduct(f)
  <2>1. PICK f \in [0 .. n -> V] :
           f = [k \in 0 .. n |-> IF k = 0 THEN 1 ELSE G[k][f[k - 1]]]
    <3>1. PICK W, z, g : W = V /\ z = 1 /\ g = G OBVIOUS
    <3>2. z \in W /\ g \in [1 .. n -> [W -> W]] BY <1>2, <3>1
    <3> HIDE DEF G, V
    <3>3. \E f \in [0 .. n -> W] : IsTable(f, z, n, g) BY <3>2, TableExists
    <3> QED BY <3>1, <3>3 DEF IsTable
  <2>2. ASSUME NEW k \in 0 .. n, k # 0 PROVE G[k][f[k - 1]] = f[k - 1] * a[k]
    <3>1. k - 1 \in 0 .. n /\ k \in 1 .. n BY <2>2
    <3>2. f[k - 1] \in V BY <3>1
    <3> HIDE DEF V
    <3> QED BY <3>1, <3>2
  <2>3. IsProduct(f)
    <3> HIDE DEF G, V
    <3> QED BY <2>1, <2>2
  <2> QED BY <2>3
<1>4. IsProduct(p)
  <2> HIDE DEF IsProduct
  <2> QED BY <1>3
<1> DEFINE T == {k \in 0 .. n : p[k] \in V}
<1>5. ASSUME NEW k \in 0 .. n, \A j \in 0 .. n : j < k => j \in T
      PROVE  k \in T
  <2> HIDE DEF p
  <2>1. p[k] = IF k = 0 THEN 1 ELSE p[k - 1] * a[k] BY <1>4
  <2>2. k # 0 => k - 1 \in T /\ a[k] \in V
    <3>1. k # 0 => k - 1 \in 0 .. n /\ k - 1 < k /\ k \in 1 .. n OBVIOUS
    <3> QED BY <1>5, <3>1
  <2>3. k # 0 => p[k] \in V BY <1>1, <2>1, <2>2
  <2> QED BY <2>1, <2>3
<1>6. \A k \in 0 .. n : k \in T
  <2> HIDE DEF T
  <2> QED BY <1>5, UpTo
<1>7. p[n] \in V
  <2> HIDE DEF p
  <2> QED BY <1>6
<1> QED BY <1>7

(***************************************************************************)
(* The averager.  Added(b) slots of baseline b were added; those before    *)
(* Closed(b) are in a row, the others in the running sum.  Rows end in or  *)
(* before slot Last.                                                       *)
(***************************************************************************)
Open == [cap : Int, free : Int, rows : Seq(R)]
Sum == [starttime : Nat, times_added : Nat]
End(r) == r.start + r.len

Added(b) == IF pc = "process" /\ b < bl THEN slot + 1 ELSE slot
Closed == [b \in Baselines |->
              IF baseline_buffers[b].times_added > 0
              THEN baseline_buffers[b].starttime ELSE Added(b)]
Last == IF pc = "process" THEN slot + 1 ELSE slot

AveragerTypeOK ==
    /\ factor \in [Baselines -> 1 .. MaxFactor]
    /\ elements \in [Baselines -> 1 .. MaxElements]
    /\ pool_size \in Int
    /\ fixed_sizes \in Seq(Int)
    /\ bda_buffer \in Open \cup {None}
    /\ baseline_buffers \in [Baselines -> Sum]
    /\ pc \in {"idle", "process", "finish", "finished", "assertion"}
    /\ bl \in 1 .. NBaselines + 1
    /\ slot \in Nat
    /\ sent \in Seq(Buffer)
    /\ dropped \subseteq R

\* A call has a buffer, which knows whether it has rows.
Counts(buf) == IF buf.rows = <<>> THEN buf.free = buf.cap ELSE buf.free < buf.cap
BufferCounts ==
    /\ pc \in {"process", "finish"} => bda_buffer # None
    /\ bda_buffer # None => Counts(bda_buffer)

\* A running sum holds the last slots, fewer than make a row; finish() empties it.
SumsAreLast ==
    \A b \in Baselines :
        /\ baseline_buffers[b].times_added < factor[b]
        /\ baseline_buffers[b].times_added > 0 =>
              baseline_buffers[b].starttime + baseline_buffers[b].times_added = Added(b)
        /\ (pc = "finish" /\ b < bl) \/ pc = "finished" => baseline_buffers[b].times_added = 0

Hits(out, b, t) == {i \in DOMAIN out : out[i].bl = b /\ Averager!Covers(out[i], t)}
Lost(rows, b, t) == {r \in rows : r.bl = b /\ Averager!Covers(r, t)}

Once(out, lost, b, t) ==
    \/ (\E i : Hits(out, b, t) = {i}) /\ Lost(lost, b, t) = {}
    \/ Hits(out, b, t) = {} /\ \E r : Lost(lost, b, t) = {r}
Never(out, lost, b, t) == Hits(out, b, t) = {} /\ Lost(lost, b, t) = {}

\* Slots before closed[b] are in one row, the others in none.
EachOnce(out, lost, closed) ==
    \A b \in Baselines, t \in Nat :
        IF t < closed[b] THEN Once(out, lost, b, t) ELSE Never(out, lost, b, t)

InOrder(out, last) ==
    /\ \A i \in DOMAIN out : End(out[i]) <= last
    /\ \A i, j \in DOMAIN out : i < j => End(out[i]) <= End(out[j])

AveragerInv ==
    /\ AveragerTypeOK
    /\ BufferCounts
    /\ SumsAreLast
    /\ EachOnce(Averager!RowsOut, dropped, Closed)
    /\ InOrder(Averager!RowsOut, Last)

-----------------------------------------------------------------------------
(***************************************************************************)
(* A row after the rows before it.                                         *)
(***************************************************************************)
LEMMA AveragerRow == Averager!Row = R /\ Averager!Baselines = Baselines
BY DEF Averager!Row, Averager!Baselines, Baselines, R, Expander!Row

LEMMA HitsOfMore ==
  ASSUME NEW out \in Seq(R), NEW r \in R, NEW b, NEW t
  PROVE  Hits(Append(out, r), b, t) =
           IF r.bl = b /\ Averager!Covers(r, t)
           THEN Hits(out, b, t) \cup {Len(out) + 1} ELSE Hits(out, b, t)
<1> DEFINE more == Append(out, r)
<1>1. /\ DOMAIN more = DOMAIN out \cup {Len(out) + 1} /\ Len(out) + 1 \notin DOMAIN out
      /\ more[Len(out) + 1] = r /\ \A i \in DOMAIN out : more[i] = out[i]
  OBVIOUS
<1> HIDE DEF more
<1>2. Hits(more, b, t) =
        IF r.bl = b /\ Averager!Covers(r, t)
        THEN Hits(out, b, t) \cup {Len(out) + 1} ELSE Hits(out, b, t)
  BY <1>1 DEF Hits
<1> QED BY <1>2 DEF more

LEMMA LostOfMore ==
  ASSUME NEW lost, NEW r, NEW b, NEW t
  PROVE  Lost(lost \cup {r}, b, t) =
           IF r.bl = b /\ Averager!Covers(r, t)
           THEN Lost(lost, b, t) \cup {r} ELSE Lost(lost, b, t)
BY DEF Lost

\* Row r comes out, or is lost.
Added1(out, lost, more, gone, r) ==
    \/ more = Append(out, r) /\ gone = lost
    \/ more = out /\ gone = lost \cup {r}

LEMMA EachOnceAfterRow ==
  ASSUME NEW out \in Seq(R), NEW lost, NEW more, NEW gone, NEW r \in R,
         Added1(out, lost, more, gone, r),
         NEW closed \in [Baselines -> Nat], NEW after \in [Baselines -> Nat],
         EachOnce(out, lost, closed),
         closed[r.bl] = r.start, after[r.bl] = End(r),
         \A b \in Baselines : b # r.bl => after[b] = closed[b]
  PROVE  EachOnce(more, gone, after)
<1>1. SUFFICES ASSUME NEW b \in Baselines, NEW t \in Nat
               PROVE  IF t < after[b] THEN Once(more, gone, b, t) ELSE Never(more, gone, b, t)
  BY DEF EachOnce
<1>2. r.start \in Nat /\ r.len \in Nat BY DEF R, Expander!Row
<1>3. IF t < closed[b] THEN Once(out, lost, b, t) ELSE Never(out, lost, b, t)
  BY DEF EachOnce
<1>4. CASE r.bl = b /\ Averager!Covers(r, t)
  <2>1. ~(t < closed[b]) /\ t < after[b] BY <1>2, <1>4 DEF Averager!Covers, End
  <2>2. Never(out, lost, b, t) BY <1>3, <2>1
  <2>3. Once(more, gone, b, t)
    <3>1. Hits(Append(out, r), b, t) = {Len(out) + 1}
      BY <1>4, <2>2, HitsOfMore DEF Never
    <3>2. Lost(lost \cup {r}, b, t) = {r} BY <1>4, <2>2, LostOfMore DEF Never
    <3> QED BY <2>2, <3>1, <3>2 DEF Added1, Once, Never
  <2> QED BY <2>1, <2>3
<1>5. CASE ~(r.bl = b /\ Averager!Covers(r, t))
  <2>1. Hits(more, b, t) = Hits(out, b, t) /\ Lost(gone, b, t) = Lost(lost, b, t)
    <3>1. Hits(Append(out, r), b, t) = Hits(out, b, t) BY <1>5, HitsOfMore
    <3>2. Lost(lost \cup {r}, b, t) = Lost(lost, b, t) BY <1>5 DEF Lost
    <3> QED BY <3>1, <3>2 DEF Added1
  <2>2. (t < closed[b]) <=> (t < after[b])
    <3>1. closed[b] \in Nat /\ after[b] \in Nat OBVIOUS
    <3> QED BY <1>2, <1>5, <3>1 DEF Averager!Covers, End
  <2>3. /\ Once(more, gone, b, t) <=> Once(out, lost, b, t)
        /\ Never(more, gone, b, t) <=> Never(out, lost, b, t)
    BY <2>1 DEF Once, Never
  <2> QED BY <1>3, <2>2, <2>3
<1> QED BY <1>4, <1>5

LEMMA InOrderAfterRow ==
  ASSUME NEW out \in Seq(R), NEW lost, NEW more, NEW gone, NEW r \in R,
         Added1(out, lost, more, gone, r), NEW last \in Nat,
         InOrder(out, last), End(r) = last
  PROVE  InOrder(more, last)
<1>1. CASE more = out BY <1>1
<1>2. CASE more = Append(out, r)
  <2>1. /\ DOMAIN more = DOMAIN out \cup {Len(out) + 1}
        /\ more[Len(out) + 1] = r /\ \A i \in DOMAIN out : more[i] = out[i]
        /\ \A i \in DOMAIN out : i \in Nat /\ i < Len(out) + 1
        /\ Len(out) \in Nat
    BY <1>2
  <2>2. \A i \in DOMAIN more : End(more[i]) <= last BY <2>1 DEF InOrder
  <2>3. \A i, j \in DOMAIN more : i < j => End(more[i]) <= End(more[j])
    BY <2>1, <2>2 DEF InOrder
  <2> QED BY <2>2, <2>3 DEF InOrder
<1> QED BY <1>1, <1>2 DEF Added1

LEMMA SameCardinality == ASSUME NEW S PROVE Averager!Cardinality(S) = Cardinality(S)
BY DEF Averager!Cardinality, Cardinality, Averager!IsFiniteSet, IsFiniteSet

LEMMA OnceIsCounted ==
  ASSUME AveragerInv
  PROVE  EverySlotOnceInOrder
<1> DEFINE out == Averager!RowsOut
<1>1. ASSUME NEW b \in DOMAIN factor, NEW t \in Averager!Given(b)
      PROVE  Cardinality(Hits(out, b, t)) + Cardinality(Lost(dropped, b, t))
             = IF t \in Averager!Summed(b) THEN 0 ELSE 1
  <2>1. b \in Baselines BY DEF AveragerInv, AveragerTypeOK
  <2>2. t \in Nat /\ t < Added(b) /\ t <= slot
    <3>1. slot \in Nat BY DEF AveragerInv, AveragerTypeOK
    <3> QED BY <3>1 DEF Averager!Given, Added
  <2>3. (t < Closed[b]) <=> t \notin Averager!Summed(b)
    <3>1. /\ baseline_buffers[b].times_added > 0 =>
               baseline_buffers[b].starttime + baseline_buffers[b].times_added = Added(b)
      BY <2>1 DEF AveragerInv, SumsAreLast
    <3>2. baseline_buffers[b].times_added \in Nat /\ baseline_buffers[b].starttime \in Nat
      BY <2>1 DEF AveragerInv, AveragerTypeOK, Sum
    <3>3. slot \in Nat BY DEF AveragerInv, AveragerTypeOK
    <3> QED BY <2>1, <2>2, <3>1, <3>2, <3>3 DEF Closed, Averager!Summed
  <2>4. IF t < Closed[b] THEN Once(out, dropped, b, t) ELSE Never(out, dropped, b, t)
    BY <2>1, <2>2 DEF AveragerInv, EachOnce
  <2>5. Cardinality({}) = 0 /\ \A i : Cardinality({i}) = 1 BY FS_EmptySet, FS_Singleton
  <2>6. CASE t < Closed[b]
    <3>1. Once(out, dropped, b, t) BY <2>4, <2>6
    <3>2. CASE (\E i : Hits(out, b, t) = {i}) /\ Lost(dropped, b, t) = {}
      BY <2>3, <2>5, <2>6, <3>2
    <3>3. CASE Hits(out, b, t) = {} /\ \E r : Lost(dropped, b, t) = {r}
      <4>1. PICK r : Lost(dropped, b, t) = {r} BY <3>3
      <4>2. Cardinality(Hits(out, b, t)) = 0 BY <2>5, <3>3
      <4>3. Cardinality(Lost(dropped, b, t)) = 1 BY <2>5, <4>1
      <4> QED BY <2>3, <2>6, <4>2, <4>3
    <3> QED BY <3>1, <3>2, <3>3 DEF Once
  <2>7. CASE ~(t < Closed[b]) BY <2>3, <2>4, <2>5, <2>7 DEF Never
  <2> QED BY <2>6, <2>7
<1>2. pc = "finished" => \A b \in DOMAIN factor : Averager!Summed(b) = {}
  BY DEF AveragerInv, AveragerTypeOK, SumsAreLast, Averager!Summed
<1>3. \A i, j \in DOMAIN out :
         i < j => out[i].start + out[i].len <= out[j].start + out[j].len
  BY DEF AveragerInv, InOrder, End
<1>4. \A b \in DOMAIN factor : \A t \in Averager!Given(b) :
         Averager!Cardinality(Hits(out, b, t)) + Averager!Cardinality(Lost(dropped, b, t))
         = IF t \in Averager!Summed(b) THEN 0 ELSE 1
  BY <1>1, SameCardinality
<1> HIDE DEF out
<1>5. \A b \in DOMAIN factor : \A t \in Averager!Given(b) :
         Averager!Cardinality({i \in DOMAIN out : out[i].bl = b /\ Averager!Covers(out[i], t)})
         + Averager!Cardinality({r \in dropped : r.bl = b /\ Averager!Covers(r, t)})
         = IF t \in Averager!Summed(b) THEN 0 ELSE 1
  BY <1>4 DEF Hits, Lost
<1> QED BY <1>2, <1>3, <1>5 DEF EverySlotOnceInOrder, Averager!EverySlotOnceInOrder, out

(***************************************************************************)
(* Sizes are integers: those that process() announces, and the default.    *)
(***************************************************************************)
LEMMA NumberOfElementsIs ==
  ASSUME elements \in [Baselines -> 1 .. MaxElements], NEW rows \in Seq(R)
  PROVE  NumberOfElements(rows) \in Int
<1> DEFINE n == Len(rows)
           a == [i \in 1 .. n |-> elements[rows[i].bl]]
           IsSum(f) == f = [i \in 0 .. n |-> IF i = 0 THEN 0 ELSE f[i - 1] + a[i]]
           IsNumber(f) ==
               f = [i \in 0 .. n |-> IF i = 0 THEN 0 ELSE f[i - 1] + elements[rows[i].bl]]
<1>1. n \in Nat /\ a \in [1 .. n -> Nat]
  <2>1. ASSUME NEW i \in 1 .. n PROVE elements[rows[i].bl] \in Nat
    <3>1. rows[i] \in R OBVIOUS
    <3>2. rows[i].bl \in Baselines BY <3>1 DEF R, Expander!Row
    <3> QED BY <3>2, PredictAssumption, SizeAssumption
  <2> QED BY <2>1
<1>2. (CHOOSE f : IsSum(f))[n] \in Nat
  <2> HIDE DEF a, n
  <2> QED BY <1>1, SumIs
<1>3. \A f : IsSum(f) <=> IsNumber(f)
  <2>1. \A i \in 0 .. n : i # 0 => a[i] = elements[rows[i].bl] OBVIOUS
  <2> HIDE DEF a
  <2> QED BY <2>1
<1>4. (CHOOSE f : IsSum(f)) = (CHOOSE f : IsNumber(f))
  <2> HIDE DEF IsSum, IsNumber
  <2> QED BY <1>3
<1> DEFINE sum == CHOOSE f : IsSum(f)
           number == CHOOSE f : IsNumber(f)
<1>5. number[n] \in Int
  <2>1. sum[n] \in Nat /\ sum = number BY <1>2, <1>4
  <2> HIDE DEF sum, number
  <2> QED BY <2>1
<1> QED BY <1>5 DEF NumberOfElements

LEMMA LargestIs ==
  ASSUME NEW e \in [Baselines -> 1 .. MaxElements]
  PROVE  /\ Averager!Largest(e) \in Int
         /\ \A b \in Baselines : e[b] <= Averager!Largest(e)
<1> DEFINE T == {e[b] : b \in Baselines}
<1>1. T \in SUBSET (1 .. MaxElements) OBVIOUS
<1>2. T # {} /\ MaxElements \in Nat
  <2>1. 1 \in Baselines BY PredictAssumption, SizeAssumption DEF Baselines
  <2> QED BY <2>1, PredictAssumption, SizeAssumption
<1>3. \E m \in T : \A k \in T : k <= m
  <2> HIDE DEF T
  <2> QED BY <1>1, <1>2, LastIndex
<1>4. \E m \in T : \A b \in Baselines : e[b] <= m BY <1>3
<1> DEFINE most == CHOOSE m \in T : \A b \in Baselines : e[b] <= m
<1>5. most \in T /\ \A b \in Baselines : e[b] <= most BY <1>4
<1>6. Averager!Largest(e) = most BY DEF Averager!Largest, Averager!Baselines, Baselines
<1> HIDE DEF most, T
<1> QED BY <1>1, <1>5, <1>6

LEMMA PoolSizeIs ==
  ASSUME NEW f \in [Baselines -> 1 .. MaxFactor], NEW e \in [Baselines -> 1 .. MaxElements]
  PROVE  /\ Averager!PoolSize(f, e) \in Int
         /\ \A b \in Baselines : e[b] <= Averager!PoolSize(f, e)
<1> DEFINE unit == Averager!ProductOf(f)
           part == [b \in Baselines |-> e[b] * (unit \div f[b])]
<1>0. NBaselines \in Nat /\ MaxFactor \in Nat /\ MaxElements \in Nat BY PredictAssumption, SizeAssumption
<1>1. unit \in Nat \ {0}
  <2>1. f \in [1 .. NBaselines -> Nat \ {0}] BY <1>0 DEF Baselines
  <2> QED BY <1>0, <2>1, ProductIs DEF Averager!ProductOf
<1>2. part \in [1 .. NBaselines -> Nat]
  <2>1. ASSUME NEW b \in Baselines PROVE e[b] * (unit \div f[b]) \in Nat
    <3>1. f[b] \in Nat \ {0} /\ e[b] \in Nat BY <1>0
    <3> HIDE DEF unit
    <3>2. unit \div f[b] \in Nat BY <1>1, <3>1
    <3> DEFINE q == unit \div f[b]
    <3> HIDE DEF q
    <3>3. \A x, y \in Nat : x * y \in Nat OBVIOUS
    <3>4. q \in Nat BY <3>2 DEF q
    <3>5. e[b] * q \in Nat BY <3>1, <3>3, <3>4
    <3> QED BY <3>5 DEF q
  <2> QED BY <2>1 DEF Baselines
<1>3. Averager!SumTo(part) \in Nat
  <2> HIDE DEF part
  <2> QED BY <1>0, <1>2, SumIs DEF Averager!SumTo
<1> DEFINE largest == Averager!Largest(e)
<1>4. largest \in Int /\ \A b \in Baselines : e[b] <= largest BY LargestIs
<1> DEFINE sum == Averager!SumTo(part)
<1> HIDE DEF unit
<1>5. (sum + unit - 1) \div unit \in Int
  <2> HIDE DEF sum
  <2>1. sum \in Nat BY <1>3 DEF sum
  <2> QED BY <1>1, <2>1
<1> DEFINE average == (sum + unit - 1) \div unit
<1>6. Averager!PoolSize(f, e) = IF average < largest THEN largest ELSE average
  BY DEF Averager!PoolSize, unit, Averager!Baselines, Baselines
<1>7. average \in Int BY <1>5
<1>8. \A b \in Baselines : e[b] \in Int BY <1>0
<1> HIDE DEF average, largest
<1> QED BY <1>4, <1>6, <1>7, <1>8

(***************************************************************************)
(* Buffers: a new one, one with a row more, one that is sent.              *)
(***************************************************************************)
LEMMA OpenIsNotNone == ASSUME NEW buf \in Open PROVE buf # None
BY PredictAssumption, SizeAssumption, AveragerRow DEF Open

LEMMA NewBufferIs ==
  ASSUME AveragerTypeOK
  PROVE  /\ Averager!NewBuffer \in Open /\ Averager!NewBuffer.rows = <<>>
         /\ Counts(Averager!NewBuffer)
         /\ Averager!NextSizes \in Seq(Int)
<1>1. pool_size \in Int /\ fixed_sizes \in Seq(Int) BY DEF AveragerTypeOK
<1>2. fixed_sizes # <<>> => Head(fixed_sizes) \in Int /\ Tail(fixed_sizes) \in Seq(Int)
  BY <1>1
<1> DEFINE cap == IF fixed_sizes = <<>> THEN pool_size ELSE Head(fixed_sizes)
<1>3. cap \in Int /\ <<>> \in Seq(R) /\ <<>> \in Seq(Int) BY <1>1, <1>2
<1>4. Averager!NewBuffer = [cap |-> cap, free |-> cap, rows |-> <<>>]
  BY DEF Averager!NewBuffer
<1> HIDE DEF cap
<1>5. Averager!NextSizes \in Seq(Int) BY <1>2, <1>3 DEF Averager!NextSizes
<1> QED BY <1>3, <1>4, <1>5 DEF Open, Counts

LEMMA WithRowIs ==
  ASSUME AveragerTypeOK, NEW buf \in Open, Counts(buf), NEW r \in R
  PROVE  /\ Averager!WithRow(buf, r) \in Open
         /\ Averager!WithRow(buf, r).rows = Append(buf.rows, r)
         /\ Counts(Averager!WithRow(buf, r))
<1> DEFINE size == elements[r.bl]
           more == [buf EXCEPT !.rows = Append(@, r), !.free = @ - size]
<1>1. size \in Nat \ {0}
  <2>1. r.bl \in Baselines BY DEF R, Expander!Row
  <2> QED BY <2>1, PredictAssumption, SizeAssumption DEF AveragerTypeOK
<1>2. /\ buf.cap \in Int /\ buf.free \in Int /\ buf.rows \in Seq(R)
      /\ buf = [cap |-> buf.cap, free |-> buf.free, rows |-> buf.rows]
  BY DEF Open
<1> HIDE DEF size
<1>3. Append(buf.rows, r) \in Seq(R) /\ Append(buf.rows, r) # <<>> BY <1>2
<1>4. buf.free - size \in Int BY <1>1, <1>2
<1>5. /\ more \in Open /\ more.rows = Append(buf.rows, r)
      /\ more.free = buf.free - size /\ more.cap = buf.cap
  BY <1>2, <1>3, <1>4 DEF Open
<1>6. buf.free <= buf.cap BY <1>2 DEF Counts
<1>7. more.free < more.cap BY <1>1, <1>2, <1>5, <1>6
<1>8. more = Averager!WithRow(buf, r) BY DEF Averager!WithRow, size
<1> HIDE DEF more
<1>9. Counts(more) BY <1>3, <1>5, <1>7 DEF Counts
<1> QED BY <1>5, <1>8, <1>9

LEMMA SentIs ==
  ASSUME NEW bufs \in Seq(Buffer), NEW buf \in Open
  PROVE  /\ Append(bufs, Averager!Sent(buf)) \in Seq(Buffer)
         /\ Averager!RowsOf(Append(bufs, Averager!Sent(buf)))
            = Averager!RowsOf(bufs) \o buf.rows
<1> DEFINE gone == Averager!Sent(buf)
<1>1. gone \in Buffer /\ gone.rows = buf.rows BY DEF Averager!Sent, Buffer, Open
<1> HIDE DEF gone
<1>2. Append(bufs, gone) \in Seq(Buffer) BY <1>1
<1>3. Averager!RowsOf(Append(bufs, gone)) = Averager!RowsOf(bufs) \o buf.rows
  BY <1>1, RowsOfMore
<1> QED BY <1>2, <1>3 DEF gone

LEMMA RowsOutType ==
  ASSUME AveragerTypeOK
  PROVE  Averager!RowsOut \in Seq(R)
<1>1. Averager!RowsOf(sent) \in Seq(R) BY RowsOfType DEF AveragerTypeOK
<1>2. bda_buffer # None => bda_buffer.rows \in Seq(R) BY DEF AveragerTypeOK, Open
<1>3. <<>> \in Seq(R) OBVIOUS
<1> QED BY <1>1, <1>2, <1>3 DEF Averager!RowsOut

(***************************************************************************)
(* AddBaseline: the row comes out after the others, or is dropped.         *)
(***************************************************************************)
LEMMA AddBaselineRows ==
  ASSUME AveragerTypeOK, BufferCounts, bda_buffer # None, NEW r \in R,
         Averager!AddBaseline(r)
  PROVE  /\ Added1(Averager!RowsOut, dropped, Averager!RowsOut', dropped', r)
         /\ bda_buffer' \in Open /\ Counts(bda_buffer')
         /\ sent' \in Seq(Buffer) /\ fixed_sizes' \in Seq(Int) /\ dropped' \subseteq R
<1> DEFINE renew == Averager!DoesNotFit(r)
           buf == IF renew THEN Averager!NewBuffer ELSE bda_buffer
           fits == elements[r.bl] <= buf.free
<1>1. /\ sent' = IF renew THEN Append(sent, Averager!Sent(bda_buffer)) ELSE sent
      /\ fixed_sizes' = IF renew THEN Averager!NextSizes ELSE fixed_sizes
      /\ bda_buffer' = IF fits THEN Averager!WithRow(buf, r) ELSE buf
      /\ dropped' = IF fits THEN dropped ELSE dropped \cup {r}
  BY DEF Averager!AddBaseline
<1>2. bda_buffer \in Open /\ Counts(bda_buffer) /\ bda_buffer # None
  BY DEF AveragerTypeOK, BufferCounts
<1>3. sent \in Seq(Buffer) /\ fixed_sizes \in Seq(Int) /\ dropped \subseteq R
  BY DEF AveragerTypeOK
<1> HIDE DEF renew
<1>4. buf \in Open /\ Counts(buf) BY <1>2, NewBufferIs
<1> DEFINE before == Averager!RowsOut
           rows == Averager!RowsOf(sent)
<1>5. before = rows \o bda_buffer.rows BY <1>2 DEF Averager!RowsOut
<1>6. rows \in Seq(R) /\ bda_buffer.rows \in Seq(R) /\ buf.rows \in Seq(R)
  BY <1>2, <1>3, <1>4, RowsOfType DEF Open
<1>7. sent' \in Seq(Buffer) BY <1>1, <1>2, <1>3, SentIs
<1>8. Averager!RowsOf(sent') \in Seq(R) /\ Averager!RowsOf(sent') \o buf.rows = before
  <2>1. CASE renew
    <3>1. Averager!RowsOf(sent') = before
      <4>1. sent' = Append(sent, Averager!Sent(bda_buffer)) BY <1>1, <2>1
      <4> QED BY <1>2, <1>3, <1>5, <4>1, SentIs
    <3>2. buf.rows = <<>> BY <2>1, NewBufferIs
    <3>3. before \in Seq(R) BY <1>5, <1>6
    <3> QED BY <3>1, <3>2, <3>3
  <2>2. CASE ~renew BY <1>1, <1>5, <1>6, <2>2
  <2> QED BY <2>1, <2>2
<1>9. bda_buffer' \in Open /\ Counts(bda_buffer')
  <2> HIDE DEF buf, fits
  <2> QED BY <1>1, <1>4, WithRowIs
<1>10. Averager!RowsOut' = Averager!RowsOf(sent') \o bda_buffer'.rows
  <2>1. bda_buffer' # None BY <1>9, OpenIsNotNone
  <2> QED BY <2>1 DEF Averager!RowsOut
<1>11. Added1(before, dropped, Averager!RowsOut', dropped', r)
  <2> DEFINE all == Averager!RowsOf(sent')
  <2>1. CASE fits
    <3>1. bda_buffer'.rows = Append(buf.rows, r)
      <4> HIDE DEF buf, fits
      <4> QED BY <1>1, <1>4, <2>1, WithRowIs
    <3>2. Averager!RowsOut' = Append(before, r)
      <4>1. ASSUME NEW x \in Seq(R), NEW y \in Seq(R)
            PROVE  x \o Append(y, r) = Append(x \o y, r)
        OBVIOUS
      <4> HIDE DEF buf, fits, before
      <4> QED BY <1>6, <1>8, <1>10, <3>1, <4>1
    <3>3. dropped' = dropped BY <1>1, <2>1
    <3> QED BY <3>2, <3>3 DEF Added1
  <2>2. CASE ~fits
    <3>1. Averager!RowsOut' = before
      <4> HIDE DEF buf, fits, before
      <4> QED BY <1>1, <1>8, <1>10, <2>2
    <3>2. dropped' = dropped \cup {r} BY <1>1, <2>2
    <3> QED BY <3>1, <3>2 DEF Added1
  <2> QED BY <2>1, <2>2
<1>12. fixed_sizes' \in Seq(Int) BY <1>1, <1>3, NewBufferIs
<1>13. dropped' \subseteq R BY <1>1, <1>3
<1> QED BY <1>7, <1>9, <1>11, <1>12, <1>13

-----------------------------------------------------------------------------
(***************************************************************************)
(* The averager's invariant: initially, and one lemma per step.            *)
(***************************************************************************)
LEMMA AveragerInitInv == Averager!Init => AveragerInv
<1> SUFFICES ASSUME Averager!Init PROVE AveragerInv OBVIOUS
<1> USE DEF Averager!Init, Averager!Baselines, Baselines
<1>0. NBaselines \in Nat \ {0} BY PredictAssumption, SizeAssumption
<1>1. AveragerTypeOK
  <2>1. pool_size \in Int BY PoolSizeIs
  <2>2. bl \in 1 .. NBaselines + 1 BY <1>0
  <2>3. baseline_buffers \in [Baselines -> Sum]
    <3>1. [starttime |-> 0, times_added |-> 0] \in Sum BY DEF Sum
    <3> QED BY <3>1
  <2>4. fixed_sizes \in Seq(Int) OBVIOUS
  <2>5. sent \in Seq(Buffer) OBVIOUS
  <2>6. /\ factor \in [Baselines -> 1 .. MaxFactor]
        /\ elements \in [Baselines -> 1 .. MaxElements]
        /\ pc = "idle" /\ slot \in Nat /\ dropped \subseteq R /\ bda_buffer = None
    OBVIOUS
  <2> HIDE DEF Averager!Init, Baselines
  <2> QED BY <2>1, <2>2, <2>3, <2>4, <2>5, <2>6 DEF AveragerTypeOK
<1>2. BufferCounts BY DEF BufferCounts
<1>3. SumsAreLast
  <2>1. \A b \in Baselines : factor[b] \in 1 .. MaxFactor /\ factor[b] > 0
    BY PredictAssumption, SizeAssumption
  <2> QED BY <2>1 DEF SumsAreLast
<1>4. Averager!RowsOut = <<>>
  <2>1. Averager!RowsOf(sent) = <<>> BY RowsOfNone
  <2> QED BY <2>1 DEF Averager!RowsOut
<1>5. EachOnce(<<>>, {}, Closed)
  <2>1. \A b \in Baselines : Closed[b] = 0 BY DEF Closed, Added
  <2> QED BY <2>1 DEF EachOnce, Never, Hits, Lost
<1>6. InOrder(<<>>, Last) BY DEF InOrder
<1> QED BY <1>1, <1>2, <1>3, <1>4, <1>5, <1>6 DEF AveragerInv

LEMMA SetNextInv ==
  ASSUME AveragerInv, NEW n \in Int, Averager!SetNextDesiredBufferSize(n)
  PROVE  AveragerInv'
<1> USE DEF Averager!SetNextDesiredBufferSize, Averager!avgConfig
<1>1. AveragerTypeOK' BY DEF AveragerInv, AveragerTypeOK
<1>2. BufferCounts' BY DEF AveragerInv, BufferCounts
<1>3. SumsAreLast' BY DEF AveragerInv, SumsAreLast, Added
<1>4. Averager!RowsOut' = Averager!RowsOut BY DEF Averager!RowsOut
<1>5. Closed' = Closed /\ Last' = Last /\ dropped' = dropped BY DEF Closed, Added, Last
<1> QED BY <1>1, <1>2, <1>3, <1>4, <1>5 DEF AveragerInv

LEMMA StartProcessInv ==
  ASSUME AveragerInv, Averager!Process
  PROVE  AveragerInv'
<1> USE DEF Averager!Process, Averager!avgConfig
<1>0. AveragerTypeOK /\ BufferCounts /\ SumsAreLast /\ NBaselines \in Nat \ {0}
  BY PredictAssumption, SizeAssumption DEF AveragerInv
<1>1. /\ Averager!NewBuffer \in Open /\ Averager!NewBuffer.rows = <<>>
      /\ Counts(Averager!NewBuffer) /\ Averager!NextSizes \in Seq(Int)
  BY <1>0, NewBufferIs
<1>2. /\ bda_buffer' = IF bda_buffer = None THEN Averager!NewBuffer ELSE bda_buffer
      /\ fixed_sizes' = IF bda_buffer = None THEN Averager!NextSizes ELSE fixed_sizes
  OBVIOUS
<1>3. bda_buffer' \in Open /\ Counts(bda_buffer') /\ bda_buffer' # None
  BY <1>0, <1>1, <1>2, OpenIsNotNone DEF AveragerTypeOK, BufferCounts
<1>4. AveragerTypeOK'
  <2>1. fixed_sizes' \in Seq(Int) BY <1>0, <1>1, <1>2 DEF AveragerTypeOK
  <2>2. bl' \in 1 .. NBaselines + 1 BY <1>0
  <2> QED BY <1>0, <1>3, <2>1, <2>2 DEF AveragerTypeOK
<1>5. BufferCounts' BY <1>3 DEF BufferCounts
<1>6. \A b \in Baselines : Added(b)' = Added(b)
  BY DEF Added, Baselines
<1>7. SumsAreLast' BY <1>0, <1>6 DEF SumsAreLast
<1>8. Averager!RowsOut' = Averager!RowsOut
  <2>1. Averager!RowsOf(sent) \in Seq(R) BY <1>0, RowsOfType DEF AveragerTypeOK
  <2>2. bda_buffer = None => bda_buffer'.rows = <<>> BY <1>1, <1>2
  <2>3. bda_buffer # None => bda_buffer' = bda_buffer BY <1>2
  <2> HIDE DEF Averager!Process
  <2>4. sent' = sent BY DEF Averager!Process
  <2> QED BY <1>3, <2>1, <2>2, <2>3, <2>4 DEF Averager!RowsOut
<1>9. Closed' = Closed /\ dropped' = dropped BY <1>6 DEF Closed
<1>10. InOrder(Averager!RowsOut, Last')
  <2>1. InOrder(Averager!RowsOut, Last) BY DEF AveragerInv
  <2>2. Last \in Nat /\ Last' \in Nat /\ Last <= Last' BY <1>0 DEF Last, AveragerTypeOK
  <2>3. \A i \in DOMAIN Averager!RowsOut : End(Averager!RowsOut[i]) \in Nat
    <3>1. Averager!RowsOut \in Seq(R) BY <1>0, RowsOutType
    <3>2. \A r \in R : End(r) \in Nat BY DEF R, Expander!Row, End
    <3> QED BY <3>1, <3>2
  <2> QED BY <2>1, <2>2, <2>3 DEF InOrder
<1> QED BY <1>4, <1>5, <1>7, <1>8, <1>9, <1>10 DEF AveragerInv

(***************************************************************************)
(* A row that is made of a whole running sum, by AddTime or FlushBaseline. *)
(***************************************************************************)
LEMMA RowOfSumInv ==
  ASSUME AveragerInv, bda_buffer # None, NEW r \in R,
         Averager!AddBaseline(r), baseline_buffers' = Averager!Cleared(r.bl),
         r.start = Closed[r.bl], End(r) = Last, Last' = Last, Added(r.bl)' = Last,
         \A b \in Baselines : b # r.bl => Added(b)' = Added(b)
  PROVE  /\ bda_buffer' \in Open /\ Counts(bda_buffer')
         /\ sent' \in Seq(Buffer) /\ fixed_sizes' \in Seq(Int) /\ dropped' \subseteq R
         /\ baseline_buffers' \in [Baselines -> Sum]
         /\ \A b \in Baselines :
               baseline_buffers'[b] = IF b = r.bl THEN [starttime |-> 0, times_added |-> 0]
                                                  ELSE baseline_buffers[b]
         /\ EachOnce(Averager!RowsOut', dropped', Closed')
         /\ InOrder(Averager!RowsOut', Last')
<1>1. AveragerTypeOK /\ BufferCounts BY DEF AveragerInv
<1>2. /\ Added1(Averager!RowsOut, dropped, Averager!RowsOut', dropped', r)
      /\ bda_buffer' \in Open /\ Counts(bda_buffer')
      /\ sent' \in Seq(Buffer) /\ fixed_sizes' \in Seq(Int) /\ dropped' \subseteq R
  BY <1>1, AddBaselineRows
<1>3. Averager!RowsOut \in Seq(R) BY <1>1, RowsOutType
<1>4. r.bl \in Baselines BY DEF R, Expander!Row
<1>5. baseline_buffers \in [Baselines -> Sum] BY <1>1 DEF AveragerTypeOK
<1>6. \A b \in Baselines :
         baseline_buffers'[b] = IF b = r.bl THEN [starttime |-> 0, times_added |-> 0]
                                            ELSE baseline_buffers[b]
  BY <1>5 DEF Averager!Cleared
<1>7. baseline_buffers' \in [Baselines -> Sum]
  <2>1. [starttime |-> 0, times_added |-> 0] \in Sum BY DEF Sum
  <2> QED BY <1>5, <2>1 DEF Averager!Cleared
<1>8. slot \in Nat /\ Last \in Nat BY <1>1 DEF AveragerTypeOK, Last
<1>9. Closed \in [Baselines -> Nat]
  <2>1. \A b \in Baselines : Added(b) \in Nat BY <1>8 DEF Added
  <2>2. \A b \in Baselines : baseline_buffers[b].starttime \in Nat BY <1>5 DEF Sum
  <2> QED BY <2>1, <2>2 DEF Closed
<1>10. \A b \in Baselines :
          Closed'[b] = IF baseline_buffers'[b].times_added > 0
                       THEN baseline_buffers'[b].starttime ELSE Added(b)'
  BY DEF Closed
<1>11. Closed'[r.bl] = End(r)
  <2>1. baseline_buffers'[r.bl].times_added = 0 BY <1>4, <1>6
  <2> QED BY <1>4, <1>10, <2>1
<1>12. ASSUME NEW b \in Baselines, b # r.bl PROVE Closed'[b] = Closed[b]
  <2>1. baseline_buffers'[b] = baseline_buffers[b] BY <1>6, <1>12
  <2>2. Closed[b] = IF baseline_buffers[b].times_added > 0
                    THEN baseline_buffers[b].starttime ELSE Added(b)
    BY DEF Closed
  <2> QED BY <1>10, <1>12, <2>1, <2>2
<1>13. Closed' \in [Baselines -> Nat]
  <2>1. \A b \in Baselines : Closed'[b] \in Nat BY <1>8, <1>9, <1>11, <1>12
  <2>2. Closed' = [b \in Baselines |-> Closed'[b]] BY DEF Closed
  <2> QED BY <2>1, <2>2
<1>14. EachOnce(Averager!RowsOut', dropped', Closed')
  <2>1. EachOnce(Averager!RowsOut, dropped, Closed) BY DEF AveragerInv
  <2>2. PICK out, more, closed, after :
           /\ out = Averager!RowsOut /\ more = Averager!RowsOut'
           /\ closed = Closed /\ after = Closed'
    OBVIOUS
  <2>3. EachOnce(more, dropped', after)
    BY <1>2, <1>3, <1>9, <1>11, <1>12, <1>13, <2>1, <2>2, EachOnceAfterRow
  <2> QED BY <2>2, <2>3
<1>15. InOrder(Averager!RowsOut', Last')
  <2>1. InOrder(Averager!RowsOut, Last) BY DEF AveragerInv
  <2>2. PICK out, more, last :
           out = Averager!RowsOut /\ more = Averager!RowsOut' /\ last = Last
    OBVIOUS
  <2>3. InOrder(more, last) BY <1>2, <1>3, <1>8, <2>1, <2>2, InOrderAfterRow
  <2> QED BY <2>2, <2>3
<1> QED BY <1>2, <1>6, <1>7, <1>14, <1>15

LEMMA AddTimeInv ==
  ASSUME AveragerInv, Averager!AddTime
  PROVE  AveragerInv'
<1> DEFINE n == baseline_buffers[bl].times_added + 1
           start == Averager!Started(bl)
           r == [bl |-> bl, start |-> start, len |-> n]
<1>1. AveragerTypeOK /\ BufferCounts /\ SumsAreLast BY DEF AveragerInv
<1>2. /\ pc = "process" /\ bl \in Baselines /\ bl' = bl + 1 /\ pc' = pc /\ slot' = slot
      /\ factor' = factor /\ elements' = elements /\ pool_size' = pool_size
  BY AveragerRow DEF Averager!AddTime, Averager!avgConfig
<1>3. baseline_buffers[bl] \in Sum /\ slot \in Nat /\ factor[bl] \in 1 .. MaxFactor
  BY <1>1, <1>2 DEF AveragerTypeOK
<1>4. /\ n \in Nat \ {0} /\ n <= factor[bl] /\ start \in Nat /\ start + n = slot + 1
      /\ start = Closed[bl]
  <2>1. /\ baseline_buffers[bl].times_added \in Nat
        /\ baseline_buffers[bl].starttime \in Nat
        /\ baseline_buffers[bl].times_added < factor[bl]
        /\ baseline_buffers[bl].times_added > 0 =>
              baseline_buffers[bl].starttime + baseline_buffers[bl].times_added = Added(bl)
    BY <1>1, <1>2, <1>3 DEF SumsAreLast, Sum
  <2>2. Added(bl) = slot BY <1>2 DEF Added, Baselines
  <2>3. Closed[bl] = IF baseline_buffers[bl].times_added > 0
                     THEN baseline_buffers[bl].starttime ELSE slot
    BY <1>2, <2>2 DEF Closed
  <2> QED BY <1>3, <2>1, <2>2, <2>3 DEF Averager!Started
<1>5. NBaselines \in Nat /\ MaxFactor \in Nat BY PredictAssumption, SizeAssumption
<1>6. bl' \in 1 .. NBaselines + 1 BY <1>2, <1>5 DEF Baselines
<1>7. Last = slot + 1 /\ Last' = Last BY <1>2 DEF Last
<1>8. \A b \in Baselines : Added(b)' = IF b = bl THEN slot + 1 ELSE Added(b)
  BY <1>2 DEF Added, Baselines
<1>9. bda_buffer # None BY <1>1, <1>2 DEF BufferCounts
<1>10. CASE n = factor[bl]
  <2>1. Averager!AddBaseline(r) /\ baseline_buffers' = Averager!Cleared(bl)
    BY <1>10 DEF Averager!AddTime
  <2>2. r \in R /\ r.bl = bl /\ r.start = start /\ End(r) = slot + 1
    BY <1>2, <1>3, <1>4, <1>5, <1>10 DEF R, Expander!Row, End
  <2>3. PICK q \in R : q = r /\ q.bl = bl /\ q.start = start /\ End(q) = slot + 1
    BY <2>2
  <2> HIDE DEF r, start, n
  <2>4. /\ bda_buffer' \in Open /\ Counts(bda_buffer')
        /\ sent' \in Seq(Buffer) /\ fixed_sizes' \in Seq(Int) /\ dropped' \subseteq R
        /\ baseline_buffers' \in [Baselines -> Sum]
        /\ \A b \in Baselines :
              baseline_buffers'[b] = IF b = q.bl THEN [starttime |-> 0, times_added |-> 0]
                                                 ELSE baseline_buffers[b]
        /\ EachOnce(Averager!RowsOut', dropped', Closed')
        /\ InOrder(Averager!RowsOut', Last')
    <3>1. q.bl \in Baselines /\ Added(q.bl)' = slot + 1 BY <1>2, <1>8, <2>3
    <3>2. \A b \in Baselines : b # q.bl => Added(b)' = Added(b) BY <1>8, <2>3
    <3>3. Averager!AddBaseline(q) /\ baseline_buffers' = Averager!Cleared(q.bl)
      BY <2>1, <2>3
    <3>4. q.start = Closed[q.bl] BY <1>4, <2>3
    <3> QED BY <1>7, <1>9, <2>3, <3>1, <3>2, <3>3, <3>4, RowOfSumInv
  <2>5. AveragerTypeOK' BY <1>1, <1>2, <1>6, <2>4 DEF AveragerTypeOK
  <2>6. BufferCounts'
    <3>1. bda_buffer' # None BY <2>4, OpenIsNotNone
    <3> QED BY <2>4, <3>1 DEF BufferCounts
  <2>7. SumsAreLast'
    <3>1. ASSUME NEW b \in Baselines
          PROVE  /\ baseline_buffers'[b].times_added < factor'[b]
                 /\ baseline_buffers'[b].times_added > 0 =>
                       baseline_buffers'[b].starttime + baseline_buffers'[b].times_added
                         = Added(b)'
      <4>1. CASE b = bl BY <1>2, <1>3, <2>3, <2>4, <4>1
      <4>2. CASE b # bl BY <1>1, <1>2, <1>8, <2>3, <2>4, <4>2 DEF SumsAreLast
      <4> QED BY <4>1, <4>2
    <3> QED BY <1>2, <3>1 DEF SumsAreLast
  <2> QED BY <2>4, <2>5, <2>6, <2>7 DEF AveragerInv
<1>11. CASE n # factor[bl]
  <2> DEFINE more == [starttime |-> start, times_added |-> n]
  <2>1. /\ baseline_buffers' = [baseline_buffers EXCEPT ![bl] = more]
        /\ fixed_sizes' = fixed_sizes /\ bda_buffer' = bda_buffer
        /\ sent' = sent /\ dropped' = dropped
    BY <1>11 DEF Averager!AddTime
  <2>2. more \in Sum /\ more.starttime = start /\ more.times_added = n
    BY <1>4 DEF Sum
  <2> HIDE DEF more, start, n
  <2>3. baseline_buffers \in [Baselines -> Sum] BY <1>1 DEF AveragerTypeOK
  <2>4. /\ baseline_buffers' \in [Baselines -> Sum]
        /\ \A b \in Baselines :
              baseline_buffers'[b] = IF b = bl THEN more ELSE baseline_buffers[b]
    BY <1>2, <2>1, <2>2, <2>3
  <2>5. AveragerTypeOK' BY <1>1, <1>2, <1>6, <2>1, <2>4 DEF AveragerTypeOK
  <2>6. BufferCounts' BY <1>1, <1>2, <2>1 DEF BufferCounts
  <2>7. SumsAreLast'
    <3>1. ASSUME NEW b \in Baselines
          PROVE  /\ baseline_buffers'[b].times_added < factor'[b]
                 /\ baseline_buffers'[b].times_added > 0 =>
                       baseline_buffers'[b].starttime + baseline_buffers'[b].times_added
                         = Added(b)'
      <4>1. CASE b = bl
        <5>1. n < factor[bl] BY <1>3, <1>4, <1>11
        <5> QED BY <1>2, <1>4, <1>8, <2>2, <2>4, <4>1, <5>1
      <4>2. CASE b # bl BY <1>1, <1>2, <1>8, <2>4, <4>2 DEF SumsAreLast
      <4> QED BY <4>1, <4>2
    <3> QED BY <1>2, <3>1 DEF SumsAreLast
  <2>8. Averager!RowsOut' = Averager!RowsOut BY <2>1 DEF Averager!RowsOut
  <2>9. Closed' = Closed
    <3>1. ASSUME NEW b \in Baselines
          PROVE  (IF baseline_buffers'[b].times_added > 0
                  THEN baseline_buffers'[b].starttime ELSE Added(b)') = Closed[b]
      <4>1. CASE b = bl BY <1>4, <2>2, <2>4, <4>1
      <4>2. CASE b # bl BY <1>8, <2>4, <4>2 DEF Closed
      <4> QED BY <4>1, <4>2
    <3>2. Closed = [b \in Baselines |-> Closed[b]] BY DEF Closed
    <3> QED BY <3>1, <3>2 DEF Closed
  <2> QED BY <1>7, <2>1, <2>5, <2>6, <2>7, <2>8, <2>9 DEF AveragerInv
<1> QED BY <1>10, <1>11

LEMMA StopProcessInv ==
  ASSUME AveragerInv, Averager!EndProcess
  PROVE  AveragerInv'
<1>1. AveragerTypeOK /\ BufferCounts /\ SumsAreLast BY DEF AveragerInv
<1>2. /\ pc = "process" /\ bl > NBaselines /\ pc' = "idle" /\ slot' = slot + 1
      /\ sent' = IF Averager!IsFull THEN Append(sent, Averager!Sent(bda_buffer)) ELSE sent
      /\ bda_buffer' = IF Averager!IsFull THEN Averager!NewBuffer ELSE bda_buffer
      /\ fixed_sizes' = IF Averager!IsFull THEN Averager!NextSizes ELSE fixed_sizes
      /\ factor' = factor /\ elements' = elements /\ pool_size' = pool_size
      /\ baseline_buffers' = baseline_buffers /\ bl' = bl /\ dropped' = dropped
  BY DEF Averager!EndProcess, Averager!avgConfig
<1>3. /\ Averager!NewBuffer \in Open /\ Averager!NewBuffer.rows = <<>>
      /\ Counts(Averager!NewBuffer) /\ Averager!NextSizes \in Seq(Int)
  BY <1>1, NewBufferIs
<1>4. bda_buffer # None /\ bda_buffer \in Open /\ Counts(bda_buffer)
  BY <1>1, <1>2 DEF AveragerTypeOK, BufferCounts
<1>5. sent \in Seq(Buffer) /\ fixed_sizes \in Seq(Int) /\ slot \in Nat
  BY <1>1 DEF AveragerTypeOK
<1>6. bda_buffer' \in Open /\ Counts(bda_buffer') /\ bda_buffer' # None
  BY <1>2, <1>3, <1>4, OpenIsNotNone
<1>7. sent' \in Seq(Buffer) BY <1>2, <1>4, <1>5, SentIs
<1>8. AveragerTypeOK' BY <1>1, <1>2, <1>3, <1>5, <1>6, <1>7 DEF AveragerTypeOK
<1>9. BufferCounts' BY <1>6 DEF BufferCounts
<1>10. NBaselines \in Nat BY PredictAssumption, SizeAssumption
<1>11. \A b \in Baselines : Added(b)' = Added(b)
  <2>1. bl \in Nat BY <1>1, <1>10 DEF AveragerTypeOK
  <2> QED BY <1>2, <1>10, <2>1 DEF Added, Baselines
<1>12. SumsAreLast' BY <1>1, <1>2, <1>11 DEF SumsAreLast
<1>13. Averager!RowsOut' = Averager!RowsOut
  <2>1. Averager!RowsOut = Averager!RowsOf(sent) \o bda_buffer.rows
    BY <1>4 DEF Averager!RowsOut
  <2>2. Averager!RowsOut' = Averager!RowsOf(sent') \o bda_buffer'.rows
    BY <1>6 DEF Averager!RowsOut
  <2>3. CASE Averager!IsFull
    <3>1. Averager!RowsOf(sent') = Averager!RowsOf(sent) \o bda_buffer.rows
      <4>1. sent' = Append(sent, Averager!Sent(bda_buffer)) BY <1>2, <2>3
      <4> QED BY <1>4, <1>5, <4>1, SentIs
    <3>2. bda_buffer'.rows = <<>> BY <1>2, <1>3, <2>3
    <3>3. Averager!RowsOf(sent') \in Seq(R) BY <1>7, RowsOfType
    <3> QED BY <2>1, <2>2, <3>1, <3>2, <3>3
  <2>4. CASE ~Averager!IsFull BY <1>2, <2>1, <2>2, <2>4
  <2> QED BY <2>3, <2>4
<1>14. Closed' = Closed /\ Last' = Last BY <1>2, <1>11 DEF Closed, Last
<1> QED BY <1>2, <1>8, <1>9, <1>12, <1>13, <1>14 DEF AveragerInv

LEMMA StartFinishInv ==
  ASSUME AveragerInv, Averager!Finish
  PROVE  AveragerInv'
<1>1. AveragerTypeOK /\ BufferCounts /\ SumsAreLast BY DEF AveragerInv
<1>2. /\ pc = "idle" /\ pc' = IF bda_buffer = None THEN "assertion" ELSE "finish"
      /\ bl' = 1 /\ fixed_sizes' = fixed_sizes /\ bda_buffer' = bda_buffer
      /\ baseline_buffers' = baseline_buffers /\ slot' = slot /\ sent' = sent
      /\ factor' = factor /\ elements' = elements /\ pool_size' = pool_size
      /\ dropped' = dropped
  BY DEF Averager!Finish, Averager!avgConfig
<1>3. NBaselines \in Nat \ {0} BY PredictAssumption, SizeAssumption
<1>4. AveragerTypeOK'
  <2>1. 1 \in 1 .. NBaselines + 1 BY <1>3
  <2> QED BY <1>1, <1>2, <2>1 DEF AveragerTypeOK
<1>5. BufferCounts' BY <1>1, <1>2 DEF BufferCounts
<1>6. \A b \in Baselines : Added(b)' = Added(b) /\ ~(b < 1)
  BY <1>2, <1>3 DEF Added, Baselines
<1>7. SumsAreLast' BY <1>1, <1>2, <1>6 DEF SumsAreLast
<1>8. Averager!RowsOut' = Averager!RowsOut BY <1>2 DEF Averager!RowsOut
<1>9. Closed' = Closed /\ Last' = Last BY <1>2, <1>6 DEF Closed, Last
<1> QED BY <1>2, <1>4, <1>5, <1>7, <1>8, <1>9 DEF AveragerInv

LEMMA FlushBaselineInv ==
  ASSUME AveragerInv, Averager!FlushBaseline
  PROVE  AveragerInv'
<1> DEFINE n == baseline_buffers[bl].times_added
           r == Averager!RowOf(bl, n)
<1>1. AveragerTypeOK /\ BufferCounts /\ SumsAreLast BY DEF AveragerInv
<1>2. /\ pc = "finish" /\ bl \in Baselines /\ bl' = bl + 1 /\ pc' = pc /\ slot' = slot
      /\ factor' = factor /\ elements' = elements /\ pool_size' = pool_size
  BY AveragerRow DEF Averager!FlushBaseline, Averager!avgConfig
<1>3. baseline_buffers \in [Baselines -> Sum] /\ slot \in Nat /\ factor[bl] \in 1 .. MaxFactor
  BY <1>1, <1>2 DEF AveragerTypeOK
<1>4. /\ n \in Nat /\ baseline_buffers[bl].starttime \in Nat /\ n < factor[bl]
      /\ n > 0 => baseline_buffers[bl].starttime + n = slot
  <2>1. baseline_buffers[bl] \in Sum BY <1>2, <1>3
  <2>2. Added(bl) = slot BY <1>2 DEF Added
  <2> QED BY <1>1, <1>2, <2>1, <2>2 DEF SumsAreLast, Sum
<1>5. NBaselines \in Nat /\ MaxFactor \in Nat BY PredictAssumption, SizeAssumption
<1>6. bl' \in 1 .. NBaselines + 1 BY <1>2, <1>5 DEF Baselines
<1>7. Last = slot /\ Last' = Last BY <1>2 DEF Last
<1>8. \A b \in Baselines : Added(b) = slot /\ Added(b)' = slot BY <1>2 DEF Added
<1>9. bda_buffer # None BY <1>1, <1>2 DEF BufferCounts
<1>10. \A b \in Baselines : b < bl' <=> b < bl \/ b = bl BY <1>2, <1>5 DEF Baselines
<1>11. CASE n > 0
  <2>1. Averager!AddBaseline(r) /\ baseline_buffers' = Averager!Cleared(bl)
    BY <1>11 DEF Averager!FlushBaseline
  <2>2. /\ r \in R /\ r.bl = bl /\ r.start = baseline_buffers[bl].starttime
        /\ End(r) = slot
    BY <1>2, <1>3, <1>4, <1>5, <1>11 DEF R, Expander!Row, End, Averager!RowOf
  <2>3. PICK q \in R : /\ q = r /\ q.bl = bl /\ End(q) = slot
                       /\ q.start = baseline_buffers[bl].starttime
    BY <2>2
  <2>4. /\ bda_buffer' \in Open /\ Counts(bda_buffer')
        /\ sent' \in Seq(Buffer) /\ fixed_sizes' \in Seq(Int) /\ dropped' \subseteq R
        /\ baseline_buffers' \in [Baselines -> Sum]
        /\ \A b \in Baselines :
              baseline_buffers'[b] = IF b = q.bl THEN [starttime |-> 0, times_added |-> 0]
                                                 ELSE baseline_buffers[b]
        /\ EachOnce(Averager!RowsOut', dropped', Closed')
        /\ InOrder(Averager!RowsOut', Last')
    <3>1. q.bl \in Baselines /\ Added(q.bl)' = slot BY <1>2, <1>8, <2>3
    <3>2. \A b \in Baselines : b # q.bl => Added(b)' = Added(b) BY <1>8
    <3>3. Averager!AddBaseline(q) /\ baseline_buffers' = Averager!Cleared(q.bl)
      BY <2>1, <2>3
    <3>4. q.start = Closed[q.bl] BY <1>2, <1>11, <2>3 DEF Closed
    <3> HIDE DEF r, n
    <3> QED BY <1>7, <1>9, <2>3, <3>1, <3>2, <3>3, <3>4, RowOfSumInv
  <2> HIDE DEF r, n
  <2>5. AveragerTypeOK' BY <1>1, <1>2, <1>6, <2>4 DEF AveragerTypeOK
  <2>6. BufferCounts'
    <3>1. bda_buffer' # None BY <2>4, OpenIsNotNone
    <3> QED BY <2>4, <3>1 DEF BufferCounts
  <2>7. SumsAreLast'
    <3>1. ASSUME NEW b \in Baselines
          PROVE  /\ baseline_buffers'[b].times_added < factor'[b]
                 /\ baseline_buffers'[b].times_added > 0 =>
                       baseline_buffers'[b].starttime + baseline_buffers'[b].times_added
                         = Added(b)'
                 /\ b < bl' => baseline_buffers'[b].times_added = 0
      <4>1. CASE b = bl BY <1>2, <1>3, <2>3, <2>4, <4>1
      <4>2. CASE b # bl
        BY <1>1, <1>2, <1>8, <1>10, <2>3, <2>4, <4>2 DEF SumsAreLast
      <4> QED BY <4>1, <4>2
    <3> QED BY <1>2, <3>1 DEF SumsAreLast
  <2> QED BY <2>4, <2>5, <2>6, <2>7 DEF AveragerInv
<1>12. CASE ~(n > 0)
  <2>1. /\ baseline_buffers' = baseline_buffers
        /\ fixed_sizes' = fixed_sizes /\ bda_buffer' = bda_buffer
        /\ sent' = sent /\ dropped' = dropped
    BY <1>12 DEF Averager!FlushBaseline
  <2>2. baseline_buffers[bl].times_added = 0 BY <1>4, <1>12
  <2> HIDE DEF r, n
  <2>3. AveragerTypeOK' BY <1>1, <1>2, <1>6, <2>1 DEF AveragerTypeOK
  <2>4. BufferCounts' BY <1>1, <1>2, <2>1 DEF BufferCounts
  <2>5. SumsAreLast' BY <1>1, <1>2, <1>8, <1>10, <2>1, <2>2 DEF SumsAreLast
  <2>6. Averager!RowsOut' = Averager!RowsOut BY <2>1 DEF Averager!RowsOut
  <2>7. Closed' = Closed BY <1>8, <2>1 DEF Closed
  <2> QED BY <1>7, <2>1, <2>3, <2>4, <2>5, <2>6, <2>7 DEF AveragerInv
<1> QED BY <1>11, <1>12

LEMMA EndFinishInv ==
  ASSUME AveragerInv, Averager!EndFinish
  PROVE  AveragerInv'
<1>1. AveragerTypeOK /\ BufferCounts /\ SumsAreLast BY DEF AveragerInv
<1>2. /\ pc = "finish" /\ bl > NBaselines /\ pc' = "finished" /\ bda_buffer' = None
      /\ sent' = IF bda_buffer.free < bda_buffer.cap
                 THEN Append(sent, Averager!Sent(bda_buffer)) ELSE sent
      /\ fixed_sizes' = fixed_sizes /\ baseline_buffers' = baseline_buffers
      /\ factor' = factor /\ elements' = elements /\ pool_size' = pool_size
      /\ bl' = bl /\ slot' = slot /\ dropped' = dropped
  BY DEF Averager!EndFinish, Averager!avgConfig
<1>3. bda_buffer # None /\ bda_buffer \in Open /\ Counts(bda_buffer)
  BY <1>1, <1>2 DEF AveragerTypeOK, BufferCounts
<1>4. sent \in Seq(Buffer) BY <1>1 DEF AveragerTypeOK
<1>5. sent' \in Seq(Buffer) BY <1>2, <1>3, <1>4, SentIs
<1>6. AveragerTypeOK' BY <1>1, <1>2, <1>5 DEF AveragerTypeOK
<1>7. BufferCounts' BY <1>2 DEF BufferCounts
<1>8. SumsAreLast'
  <2>1. NBaselines \in Nat /\ bl \in Nat
    <3>1. NBaselines \in Nat BY PredictAssumption, SizeAssumption
    <3> QED BY <1>1, <3>1 DEF AveragerTypeOK
  <2>2. \A b \in Baselines : b < bl /\ Added(b)' = Added(b)
    BY <1>2, <2>1 DEF Baselines, Added
  <2> QED BY <1>1, <1>2, <2>2 DEF SumsAreLast
<1>9. Averager!RowsOut' = Averager!RowsOut
  <2>1. Averager!RowsOut = Averager!RowsOf(sent) \o bda_buffer.rows
    BY <1>3 DEF Averager!RowsOut
  <2>2. Averager!RowsOut' = Averager!RowsOf(sent')
    <3>1. Averager!RowsOut' = Averager!RowsOf(sent') \o <<>>
      BY <1>2 DEF Averager!RowsOut
    <3>2. Averager!RowsOf(sent') \in Seq(R) BY <1>5, RowsOfType
    <3> QED BY <3>1, <3>2
  <2>3. CASE bda_buffer.free < bda_buffer.cap
    <3>1. sent' = Append(sent, Averager!Sent(bda_buffer)) BY <1>2, <2>3
    <3> QED BY <1>3, <1>4, <2>1, <2>2, <3>1, SentIs
  <2>4. CASE ~(bda_buffer.free < bda_buffer.cap)
    <3>1. bda_buffer.rows = <<>> BY <1>3, <2>4 DEF Counts
    <3>2. Averager!RowsOf(sent) \in Seq(R) BY <1>4, RowsOfType
    <3> QED BY <1>2, <2>1, <2>2, <2>4, <3>1, <3>2
  <2> QED BY <2>3, <2>4
<1>10. Closed' = Closed /\ Last' = Last BY <1>2 DEF Closed, Added, Last
<1> QED BY <1>2, <1>6, <1>7, <1>8, <1>9, <1>10 DEF AveragerInv

(***************************************************************************)
(* Every step of BdaPredict is a step of the averager or leaves it alone.  *)
(***************************************************************************)
LEMMA AveragerNextInv == ExpanderInv /\ AveragerInv /\ [Next]_vars => AveragerInv'
<1> SUFFICES ASSUME ExpanderInv, AveragerInv, [Next]_vars PROVE AveragerInv' OBVIOUS
<1>1. CASE Process
  <2>1. /\ fed < Len(input)
        /\ Averager!SetNextDesiredBufferSize(NumberOfElements(input[fed + 1]))
    BY <1>1 DEF Process
  <2>2. input[fed + 1] \in Seq(R) BY <2>1 DEF ExpanderInv, TypeOK
  <2>3. elements \in [Baselines -> 1 .. MaxElements] BY DEF AveragerInv, AveragerTypeOK
  <2>4. PICK rows \in Seq(R) : rows = input[fed + 1] BY <2>2
  <2>5. PICK n \in Int : n = NumberOfElements(rows) BY <2>3, NumberOfElementsIs
  <2>6. Averager!SetNextDesiredBufferSize(n) BY <2>1, <2>4, <2>5
  <2> QED BY <2>6, SetNextInv
<1>2. CASE SendSlot BY <1>2, StartProcessInv DEF SendSlot
<1>3. CASE Average BY <1>3, AddTimeInv, StopProcessInv DEF Average
<1>4. CASE Finish BY <1>4, StartFinishInv DEF Finish
<1>5. CASE Flush BY <1>5, FlushBaselineInv, EndFinishInv DEF Flush
<1>6. CASE EndProcess \/ UNCHANGED vars
  <2>1. UNCHANGED avgVars BY <1>6 DEF EndProcess, vars
  <2>2. AveragerTypeOK' BY <2>1 DEF avgVars, AveragerInv, AveragerTypeOK
  <2>3. BufferCounts' BY <2>1 DEF avgVars, AveragerInv, BufferCounts
  <2>4. SumsAreLast' BY <2>1 DEF avgVars, AveragerInv, SumsAreLast, Added
  <2>5. Averager!RowsOut' = Averager!RowsOut BY <2>1 DEF avgVars, Averager!RowsOut
  <2>6. Closed' = Closed /\ Last' = Last /\ dropped' = dropped
    BY <2>1 DEF avgVars, Closed, Added, Last
  <2> QED BY <2>2, <2>3, <2>4, <2>5, <2>6 DEF AveragerInv
<1> QED BY <1>1, <1>2, <1>3, <1>4, <1>5, <1>6 DEF Next

THEOREM AveragerInvariant == Spec => [](ExpanderInv /\ AveragerInv)
<1>1. Init => ExpanderInv /\ AveragerInv BY InitInv, AveragerInitInv DEF Init
<1>2. ExpanderInv /\ AveragerInv /\ [Next]_vars => (ExpanderInv /\ AveragerInv)'
  BY NextInv, AveragerNextInv
<1> QED BY <1>1, <1>2, PTL DEF Spec

(***************************************************************************)
(* Of every regular buffer, each baseline is in one row or still in its    *)
(* sum, and rows come out in the order in which they end.                  *)
(***************************************************************************)
THEOREM EverySlotIsAveragedOnce == Spec => []EverySlotOnceInOrder
<1>1. ExpanderInv /\ AveragerInv => EverySlotOnceInOrder BY OnceIsCounted
<1> QED BY <1>1, AveragerInvariant, PTL

-----------------------------------------------------------------------------
(***************************************************************************)
(* The group prediction.  A position is a buffer and a row of it; Seen are *)
(* the positions up to row i of buffer k.                                  *)
(***************************************************************************)
Position == {p \in Nat \X Nat : p[1] \in DOMAIN input /\ p[2] \in DOMAIN input[p[1]]}
At(p) == input[p[1]][p[2]]
Before(p, q) == p[1] < q[1] \/ (p[1] = q[1] /\ p[2] < q[2])
Seen(k, i) == {p \in Position : p[1] < k \/ (p[1] = k /\ p[2] <= i)}

Prediction == [time : Int, bls : SUBSET Baselines]
NoPrediction == [time |-> -1, bls |-> {}]

IsOpen(s, p) == s.predicted[p[1]][p[2]] = NoPrediction
IsRight(s, p) ==
    s.predicted[p[1]][p[2]] = [time |-> Middle(At(p)), bls |-> Group(At(p).bl)]

\* The baselines of group g of which the row that was written back is open.
Pending(s, seen, g) ==
    {b \in g : /\ s.write_back[b] \in seen
               /\ At(s.write_back[b]).bl = b
               /\ IsOpen(s, s.write_back[b])}

FilledRows(s, l) == {j \in DOMAIN input[l] : ~IsOpen(s, <<l, j>>)}

InputTypeOK ==
    /\ input \in Seq(Seq(BdaRow))
    /\ factor \in [Baselines -> 1 .. MaxFactor]
    /\ elements \in [Baselines -> 1 .. MaxElements]
    /\ InGroupOrder

GroupState ==
    [time : [Keys -> Int], requested : [Keys -> Nat],
     write_back : [Baselines -> Nat \X Nat], filled : Seq(Nat), front : Nat,
     predicted : Seq(Seq(Prediction)), failed : BOOLEAN, finished : BOOLEAN]

\* Of the first k buffers, all rows of the last are there.
Shaped(s, k) ==
    /\ s \in GroupState
    /\ k \in 0 .. Len(input)
    /\ Len(s.filled) = k /\ Len(s.predicted) = k
    /\ \A l \in 1 .. k : Len(s.predicted[l]) = Len(input[l])

(***************************************************************************)
(* The invariant.  A row that was seen is open or right.  An open row is   *)
(* of the time that its group waits for, and is the one written back; the  *)
(* number requested counts these rows, and a group is never complete.  The *)
(* rows not yet seen are open.  A right row has rows of its time for all   *)
(* baselines of its group, which are right as well.                        *)
(***************************************************************************)
OpenOrRight(s, seen) == \A p \in seen : IsOpen(s, p) \/ IsRight(s, p)

OpenIsWaited(s, seen) ==
    \A p \in seen : IsOpen(s, p) =>
        /\ s.requested[Group(At(p).bl)] > 0
        /\ s.time[Group(At(p).bl)] = Middle(At(p))
        /\ s.write_back[At(p).bl] = p

RequestedIsPending(s, seen) ==
    \A g \in Keys : s.requested[g] = Cardinality(Pending(s, seen, g))

GroupsWait(s) == \A g \in Keys : s.requested[g] < Cardinality(g)

FilledAreCounted(s, k) == \A l \in 1 .. k : s.filled[l] = Cardinality(FilledRows(s, l))

UnseenIsOpen(s, seen, k) == \A p \in Position : (p[1] <= k /\ p \notin seen) => IsOpen(s, p)

RightTogether(s, seen) ==
    \A p \in seen : ~IsOpen(s, p) =>
        \A b \in Group(At(p).bl) : \E q \in seen :
            ~IsOpen(s, q) /\ At(q).bl = b /\ Middle(At(q)) = Middle(At(p))

FrontIsFilled(s, k) ==
    /\ s.front \in 1 .. k + 1
    /\ \A p \in Position : p[1] < s.front => ~IsOpen(s, p)

Consistent(s, seen, k) ==
    /\ Shaped(s, k)
    /\ OpenOrRight(s, seen)
    /\ OpenIsWaited(s, seen)
    /\ RequestedIsPending(s, seen)
    /\ FilledAreCounted(s, k)
    /\ UnseenIsOpen(s, seen, k)
    /\ RightTogether(s, seen)
    /\ FrontIsFilled(s, k)
    /\ s.failed => Incomplete

RowInv(s, seen, k) == Consistent(s, seen, k) /\ GroupsWait(s)

-----------------------------------------------------------------------------
(***************************************************************************)
(* Groups, positions and their order.                                      *)
(***************************************************************************)
LEMMA GroupIs ==
  ASSUME NEW b \in Baselines
  PROVE  /\ Group(b) \in Keys /\ b \in Group(b) /\ Group(b) \subseteq Baselines
         /\ \A c \in Group(b) : Group(c) = Group(b)
<1>1. \A c \in Group(b) : factor[c] = factor[b] /\ elements[c] = elements[b] BY DEF Group
<1> QED BY <1>1 DEF Group, Keys

LEMMA KeyIs ==
  ASSUME NEW g \in Keys
  PROVE  /\ g \subseteq Baselines /\ g # {} /\ IsFiniteSet(g)
         /\ \A b \in g : Group(b) = g
<1>1. PICK b \in Baselines : g = Group(b) BY DEF Keys
<1>2. g \subseteq Baselines /\ g # {} /\ \A c \in g : Group(c) = g BY <1>1, GroupIs
<1>3. IsFiniteSet(Baselines)
  <2>1. 1 \in Int /\ NBaselines \in Int BY SizeAssumption
  <2> QED BY <2>1, FS_Interval DEF Baselines
<1> QED BY <1>2, <1>3, FS_Subset

LEMMA RowAt ==
  ASSUME InputTypeOK, NEW p \in Position
  PROVE  /\ p = <<p[1], p[2]>> /\ p[1] \in 1 .. Len(input) /\ p[2] \in 1 .. Len(input[p[1]])
         /\ At(p) \in Rows /\ At(p).bl \in Baselines /\ Middle(At(p)) \in Nat
<1>1. p[1] \in DOMAIN input /\ p[2] \in DOMAIN input[p[1]] /\ p \in Nat \X Nat BY DEF Position
<1>2. input[p[1]] \in Seq(BdaRow) /\ Len(input) \in Nat BY <1>1 DEF InputTypeOK
<1>3. At(p) \in BdaRow BY <1>1, <1>2 DEF At
<1>4. At(p).bl \in Baselines /\ At(p).start \in Nat /\ At(p).len \in Nat
  BY <1>3, SizeAssumption DEF BdaRow
<1>5. Middle(At(p)) \in Nat
  <2> DEFINE r == At(p)
  <2>1. Middle(r) = 2 * r.start + r.len BY DEF Middle
  <2> HIDE DEF r
  <2> QED BY <1>4, <2>1 DEF r
<1>6. At(p) \in Rows BY <1>1 DEF At, Rows
<1>7. DOMAIN input = 1 .. Len(input) /\ DOMAIN input[p[1]] = 1 .. Len(input[p[1]])
  BY <1>2 DEF InputTypeOK
<1> QED BY <1>1, <1>4, <1>5, <1>6, <1>7

LEMMA RowHasPosition ==
  ASSUME InputTypeOK, NEW r \in Rows
  PROVE  \E p \in Position : At(p) = r
<1>1. PICK k \in DOMAIN input : r \in {input[k][i] : i \in DOMAIN input[k]} BY DEF Rows
<1>2. PICK i \in DOMAIN input[k] : r = input[k][i] BY <1>1
<1>3. k \in Nat /\ i \in Nat
  <2>1. input \in Seq(Seq(BdaRow)) /\ input[k] \in Seq(BdaRow) BY DEF InputTypeOK
  <2> QED BY <2>1
<1>4. <<k, i>> \in Position BY <1>3 DEF Position
<1> QED BY <1>2, <1>4 DEF At

LEMMA Ordered ==
  ASSUME InputTypeOK, NEW p \in Position, NEW q \in Position
  PROVE  /\ p = q \/ Before(p, q) \/ Before(q, p)
         /\ (Before(p, q) /\ At(q).bl \in Group(At(p).bl)) =>
               Middle(At(p)) < Middle(At(q))
               \/ (Middle(At(p)) = Middle(At(q)) /\ At(p).bl # At(q).bl)
<1>1. /\ p = <<p[1], p[2]>> /\ q = <<q[1], q[2]>>
      /\ p[1] \in Nat /\ p[2] \in Nat /\ q[1] \in Nat /\ q[2] \in Nat
  BY DEF Position
<1>2. p = q \/ Before(p, q) \/ Before(q, p) BY <1>1 DEF Before
<1>3. /\ p[1] \in DOMAIN input /\ q[1] \in DOMAIN input
      /\ p[2] \in DOMAIN input[p[1]] /\ q[2] \in DOMAIN input[q[1]]
  BY DEF Position
<1>4. ASSUME Before(p, q), At(q).bl \in Group(At(p).bl)
      PROVE  Middle(At(p)) < Middle(At(q))
             \/ (Middle(At(p)) = Middle(At(q)) /\ At(p).bl # At(q).bl)
  BY <1>3, <1>4 DEF InputTypeOK, InGroupOrder, At, Before
<1> QED BY <1>2, <1>4

\* A baseline has one row for a time.
LEMMA OneRow ==
  ASSUME InputTypeOK, NEW p \in Position, NEW q \in Position,
         At(p).bl = At(q).bl, Middle(At(p)) = Middle(At(q))
  PROVE  p = q
<1>1. /\ At(p).bl \in Group(At(q).bl) /\ At(q).bl \in Group(At(p).bl)
      /\ Middle(At(p)) \in Nat /\ Middle(At(q)) \in Nat
  BY RowAt, GroupIs
<1> QED BY <1>1, Ordered

LEMMA OpenIsNotRight ==
  ASSUME InputTypeOK, NEW s, NEW p \in Position, IsRight(s, p)
  PROVE  ~IsOpen(s, p)
<1>1. At(p).bl \in Group(At(p).bl) BY RowAt, GroupIs
<1> QED BY <1>1 DEF IsRight, IsOpen, NoPrediction

-----------------------------------------------------------------------------
(***************************************************************************)
(* While a row is open, a baseline of its group is not pending.  If no row *)
(* to come is of the time that the group waits for, this baseline has no   *)
(* row of this time.                                                       *)
(***************************************************************************)
LEMMA SomeNotPending ==
  ASSUME NEW s, NEW seen, RequestedIsPending(s, seen), GroupsWait(s), NEW g \in Keys
  PROVE  \E b \in g : b \notin Pending(s, seen, g)
<1>1. Pending(s, seen, g) \subseteq g BY DEF Pending
<1>2. Cardinality(Pending(s, seen, g)) < Cardinality(g) BY DEF RequestedIsPending, GroupsWait
<1>3. Cardinality(g) \in Nat BY KeyIs, FS_CardinalityType
<1>4. Pending(s, seen, g) # g BY <1>2, <1>3
<1> QED BY <1>1, <1>4

LEMMA OpenIsPending ==
  ASSUME NEW s, NEW seen, OpenIsWaited(s, seen), InputTypeOK, seen \subseteq Position,
         NEW p \in seen, IsOpen(s, p)
  PROVE  /\ At(p).bl \in Pending(s, seen, Group(At(p).bl))
         /\ s.write_back[At(p).bl] = p
<1>1. At(p).bl \in Group(At(p).bl) BY RowAt, GroupIs
<1>2. s.write_back[At(p).bl] = p BY DEF OpenIsWaited
<1> QED BY <1>1, <1>2 DEF Pending

LEMMA StuckIsIncomplete ==
  ASSUME InputTypeOK, NEW s, NEW seen \in SUBSET Position, NEW k, RowInv(s, seen, k),
         NEW p \in seen, IsOpen(s, p),
         \A q \in Position \ seen :
            At(q).bl \in Group(At(p).bl) => Middle(At(q)) # Middle(At(p))
  PROVE  Incomplete
<1> DEFINE g == Group(At(p).bl)
<1>0. /\ OpenIsWaited(s, seen) /\ RequestedIsPending(s, seen) /\ RightTogether(s, seen)
      /\ GroupsWait(s)
  BY DEF RowInv, Consistent
<1>1. At(p).bl \in Baselines /\ At(p) \in Rows BY RowAt
<1>2. g \in Keys /\ At(p).bl \in g /\ \A c \in g : Group(c) = g BY <1>1, GroupIs
<1>3. PICK b \in g : b \notin Pending(s, seen, g) BY <1>0, <1>2, SomeNotPending
<1>4. ASSUME NEW q \in Position, At(q).bl = b, Middle(At(q)) = Middle(At(p))
      PROVE  FALSE
  <2>1. q \in seen BY <1>3, <1>4
  <2>2. ~IsOpen(s, q)
    <3> SUFFICES ASSUME IsOpen(s, q) PROVE FALSE OBVIOUS
    <3>1. At(q).bl \in Pending(s, seen, Group(At(q).bl)) BY <1>0, <2>1, OpenIsPending
    <3> QED BY <1>2, <1>3, <1>4, <3>1
  <2>3. At(p).bl \in Group(At(q).bl) BY <1>2, <1>4
  <2>4. PICK z \in seen : ~IsOpen(s, z) /\ At(z).bl = At(p).bl /\ Middle(At(z)) = Middle(At(q))
    BY <1>0, <2>1, <2>2, <2>3 DEF RightTogether
  <2>5. z = p BY <1>4, <2>4, OneRow
  <2> QED BY <2>4, <2>5
<1>5. \A other \in Rows : other.bl = b => Middle(other) # Middle(At(p))
  BY <1>4, RowHasPosition
<1> HIDE DEF g
<1>6. b \in Group(At(p).bl) BY DEF g
<1> QED BY <1>1, <1>5, <1>6 DEF Incomplete

-----------------------------------------------------------------------------
(***************************************************************************)
(* ProcessRow.  The row is the next one: Seen grows by its position.       *)
(***************************************************************************)
IsNext(seen, p) ==
    /\ p \in Position \ seen /\ seen \subseteq Position
    /\ \A q \in seen : Before(q, p)
    /\ \A q \in Position \ seen : q = p \/ Before(p, q)

\* A baseline of which a row is pending has no second row of that time.
LEMMA NextIsNotPending ==
  ASSUME InputTypeOK, NEW s, NEW seen, NEW k, RowInv(s, seen, k), NEW p, IsNext(seen, p),
         ~OtherTime(s, Group(At(p).bl), At(p))
  PROVE  /\ At(p).bl \notin Pending(s, seen, Group(At(p).bl))
         /\ \A q \in seen : (IsOpen(s, q) /\ At(q).bl \in Group(At(p).bl)) =>
                At(q).bl # At(p).bl /\ Middle(At(q)) = Middle(At(p))
<1> DEFINE g == Group(At(p).bl)
<1>0. OpenIsWaited(s, seen) BY DEF RowInv, Consistent
<1>1. p \in Position /\ seen \subseteq Position /\ p \notin seen BY DEF IsNext
<1>2. /\ At(p).bl \in Baselines /\ \A c \in g : Group(c) = g BY <1>1, RowAt, GroupIs
<1>3. ASSUME NEW q \in seen, IsOpen(s, q), At(q).bl \in g
      PROVE  At(q).bl # At(p).bl /\ Middle(At(q)) = Middle(At(p))
  <2>1. s.requested[g] > 0 /\ s.time[g] = Middle(At(q))
    BY <1>0, <1>2, <1>3 DEF OpenIsWaited
  <2>2. Middle(At(q)) = Middle(At(p)) BY <2>1 DEF OtherTime
  <2>3. q # p BY <1>1
  <2>4. q \in Position BY <1>1
  <2> QED BY <1>1, <2>2, <2>3, <2>4, OneRow
<1>4. At(p).bl \notin Pending(s, seen, g)
  <2> SUFFICES ASSUME At(p).bl \in Pending(s, seen, g) PROVE FALSE OBVIOUS
  <2>1. PICK q \in seen : q = s.write_back[At(p).bl] /\ At(q).bl = At(p).bl /\ IsOpen(s, q)
    BY DEF Pending
  <2>2. At(q).bl \in g BY <1>2, <2>1, GroupIs
  <2> QED BY <1>3, <2>1, <2>2
<1> QED BY <1>3, <1>4

LEMMA FailInv ==
  ASSUME InputTypeOK, NEW s, NEW seen, NEW k, RowInv(s, seen, k), NEW p, IsNext(seen, p),
         OtherTime(s, Group(At(p).bl), At(p))
  PROVE  Incomplete
<1> DEFINE g == Group(At(p).bl)
<1>0. OpenIsWaited(s, seen) /\ RequestedIsPending(s, seen) BY DEF RowInv, Consistent
<1>1. p \in Position /\ seen \subseteq Position /\ p \notin seen BY DEF IsNext
<1>2. /\ At(p).bl \in Baselines /\ g \in Keys /\ g \subseteq Baselines
      /\ \A c \in g : Group(c) = g
  BY <1>1, RowAt, GroupIs
<1>3. s.requested[g] > 0 /\ s.time[g] # Middle(At(p)) BY DEF OtherTime
<1>4. Pending(s, seen, g) # {}
  <2> SUFFICES ASSUME Pending(s, seen, g) = {} PROVE FALSE OBVIOUS
  <2> HIDE DEF g
  <2>1. s.requested[g] = Cardinality({}) BY <1>0, <1>2 DEF RequestedIsPending
  <2> QED BY <1>3, <2>1, FS_EmptySet
<1>5. PICK b \in Pending(s, seen, g) : TRUE BY <1>4
<1>6. PICK r \in seen : r = s.write_back[b] /\ At(r).bl = b /\ IsOpen(s, r) /\ b \in g
  BY <1>5 DEF Pending
<1>7. Group(At(r).bl) = g /\ s.time[g] = Middle(At(r)) BY <1>0, <1>2, <1>6 DEF OpenIsWaited
<1>8. ASSUME NEW q \in Position \ seen, At(q).bl \in g, Middle(At(q)) = Middle(At(r))
      PROVE  FALSE
  <2>1. q # p BY <1>3, <1>7, <1>8
  <2>2. Before(p, q) /\ Before(r, p) BY <2>1 DEF IsNext
  <2>3. /\ At(p).bl \in Group(At(r).bl) /\ At(q).bl \in Group(At(p).bl)
        /\ r \in Position
    BY <1>1, <1>2, <1>7, <1>8, GroupIs
  <2>4. Middle(At(r)) <= Middle(At(p)) /\ Middle(At(p)) <= Middle(At(q))
    <3>1. Middle(At(r)) \in Nat /\ Middle(At(p)) \in Nat /\ Middle(At(q)) \in Nat
      BY <1>1, <2>3, RowAt
    <3>2. Middle(At(r)) < Middle(At(p)) \/ Middle(At(r)) = Middle(At(p))
      BY <1>1, <2>2, <2>3, Ordered
    <3>3. Middle(At(p)) < Middle(At(q)) \/ Middle(At(p)) = Middle(At(q))
      BY <1>1, <2>2, <2>3, Ordered
    <3> QED BY <3>1, <3>2, <3>3
  <2>5. Middle(At(r)) = Middle(At(p))
    <3>1. Middle(At(r)) \in Nat /\ Middle(At(p)) \in Nat BY <1>1, <2>3, RowAt
    <3> QED BY <1>8, <2>4, <3>1
  <2> QED BY <1>3, <1>7, <2>5
<1> HIDE DEF g
<1>9. \A q \in Position \ seen :
         At(q).bl \in Group(At(r).bl) => Middle(At(q)) # Middle(At(r))
  BY <1>7, <1>8
<1> QED BY <1>1, <1>6, <1>9, StuckIsIncomplete

Asked(s, p) ==
    [s EXCEPT !.write_back[At(p).bl] = p, !.time[Group(At(p).bl)] = Middle(At(p)),
              !.requested[Group(At(p).bl)] = @ + 1]

LEMMA AskedIs ==
  ASSUME InputTypeOK, NEW s \in GroupState, NEW p \in Position
  PROVE  /\ Asked(s, p) \in GroupState
         /\ Asked(s, p).filled = s.filled /\ Asked(s, p).front = s.front
         /\ Asked(s, p).predicted = s.predicted /\ Asked(s, p).failed = s.failed
         /\ Asked(s, p).finished = s.finished
         /\ Asked(s, p).write_back[At(p).bl] = p
         /\ \A b \in Baselines \ {At(p).bl} : Asked(s, p).write_back[b] = s.write_back[b]
         /\ Asked(s, p).time[Group(At(p).bl)] = Middle(At(p))
         /\ Asked(s, p).requested[Group(At(p).bl)] = s.requested[Group(At(p).bl)] + 1
         /\ \A g \in Keys \ {Group(At(p).bl)} :
               Asked(s, p).time[g] = s.time[g] /\ Asked(s, p).requested[g] = s.requested[g]
<1> DEFINE b == At(p).bl
           g == Group(At(p).bl)
           m == Middle(At(p))
           a == Asked(s, p)
<1>1. b \in Baselines /\ g \in Keys /\ m \in Nat /\ p \in Nat \X Nat
  BY RowAt, GroupIs DEF Position
<1>2. a = [s EXCEPT !.write_back[b] = p, !.time[g] = m, !.requested[g] = @ + 1] BY DEF Asked
<1> HIDE DEF b, g, m, a
<1>3. /\ s.write_back \in [Baselines -> Nat \X Nat] /\ s.time \in [Keys -> Int]
      /\ s.requested \in [Keys -> Nat]
  BY DEF GroupState
<1>4. /\ a.write_back = [s.write_back EXCEPT ![b] = p]
      /\ a.time = [s.time EXCEPT ![g] = m]
      /\ a.requested = [s.requested EXCEPT ![g] = @ + 1]
      /\ a.filled = s.filled /\ a.front = s.front /\ a.predicted = s.predicted
      /\ a.failed = s.failed /\ a.finished = s.finished
  BY <1>2 DEF GroupState
<1>5. /\ a.write_back \in [Baselines -> Nat \X Nat] /\ a.time \in [Keys -> Int]
      /\ a.requested \in [Keys -> Nat]
  BY <1>1, <1>3, <1>4
<1>6. a = [time |-> a.time, requested |-> a.requested, write_back |-> a.write_back,
           filled |-> a.filled, front |-> a.front, predicted |-> a.predicted,
           failed |-> a.failed, finished |-> a.finished]
  BY <1>2 DEF GroupState
<1>7. a \in GroupState BY <1>4, <1>5, <1>6 DEF GroupState
<1>8. /\ a.write_back[b] = p /\ a.time[g] = m /\ a.requested[g] = s.requested[g] + 1
      /\ \A c \in Baselines \ {b} : a.write_back[c] = s.write_back[c]
      /\ \A h \in Keys \ {g} : a.time[h] = s.time[h] /\ a.requested[h] = s.requested[h]
  BY <1>1, <1>3, <1>4
<1> QED BY <1>4, <1>7, <1>8 DEF b, g, m, a

Asks(s, seen, k, p) ==
    /\ RowInv(s, seen, k) /\ IsNext(seen, p) /\ p[1] <= k
    /\ ~OtherTime(s, Group(At(p).bl), At(p))

\* After the row is asked for, it is pending with those that were.
PendingGrows(s, a, seen, now, p) ==
    /\ Cardinality(Pending(a, now, Group(At(p).bl))) = a.requested[Group(At(p).bl)]
    /\ \A h \in Keys \ {Group(At(p).bl)} : Pending(a, now, h) = Pending(s, seen, h)

LEMMA AskedPending ==
  ASSUME InputTypeOK, NEW s, NEW seen, NEW k, NEW p, Asks(s, seen, k, p)
  PROVE  PendingGrows(s, Asked(s, p), seen, seen \cup {p}, p)
<1> DEFINE b == At(p).bl
           g == Group(At(p).bl)
           a == Asked(s, p)
<1>0. Shaped(s, k) /\ UnseenIsOpen(s, seen, k) /\ RequestedIsPending(s, seen)
  BY DEF Asks, RowInv, Consistent
<1>1. p \in Position /\ seen \subseteq Position /\ p \notin seen /\ p[1] <= k BY DEF Asks, IsNext
<1>2. /\ b \in Baselines /\ g \in Keys /\ b \in g /\ g \subseteq Baselines
      /\ \A c \in g : Group(c) = g
  BY <1>1, RowAt, GroupIs
<1>3. s \in GroupState BY <1>0 DEF Shaped
<1>4. /\ a.predicted = s.predicted /\ a.write_back[b] = p
      /\ \A c \in Baselines \ {b} : a.write_back[c] = s.write_back[c]
      /\ a.requested[g] = s.requested[g] + 1
  BY <1>1, <1>3, AskedIs
<1>5. IsOpen(s, p) BY <1>0, <1>1 DEF UnseenIsOpen
<1>6. \A q : IsOpen(a, q) <=> IsOpen(s, q) BY <1>4 DEF IsOpen
<1>7. b \notin Pending(s, seen, g) BY NextIsNotPending DEF Asks
<1>8. b \in Pending(a, seen \cup {p}, g) BY <1>2, <1>4, <1>5, <1>6 DEF Pending
<1> HIDE DEF a
<1>9. ASSUME NEW h \in Keys, NEW c \in h, c # b
      PROVE  c \in Pending(a, seen \cup {p}, h) <=> c \in Pending(s, seen, h)
  <2>1. c \in Baselines BY KeyIs
  <2>2. a.write_back[c] = s.write_back[c] BY <1>4, <1>9, <2>1
  <2>3. At(s.write_back[c]).bl = c => s.write_back[c] # p BY <1>9
  <2> QED BY <1>6, <2>2, <2>3 DEF Pending
<1> HIDE DEF b, g
<1>10. Pending(a, seen \cup {p}, g) = Pending(s, seen, g) \cup {b}
  <2>1. Pending(a, seen \cup {p}, g) \subseteq g /\ Pending(s, seen, g) \subseteq g BY DEF Pending
  <2> QED BY <1>2, <1>8, <1>9, <2>1
<1>11. ASSUME NEW h \in Keys \ {g} PROVE Pending(a, seen \cup {p}, h) = Pending(s, seen, h)
  <2>1. b \notin h BY <1>2, KeyIs DEF b, g
  <2>2. Pending(a, seen \cup {p}, h) \subseteq h /\ Pending(s, seen, h) \subseteq h BY DEF Pending
  <2>3. \A c \in h : c # b BY <2>1
  <2>4. \A c \in h : c \in Pending(a, seen \cup {p}, h) <=> c \in Pending(s, seen, h)
    BY <1>9, <2>3
  <2> QED BY <2>2, <2>4
<1>12. Cardinality(Pending(a, seen \cup {p}, g)) = a.requested[g]
  <2>1. IsFiniteSet(Pending(s, seen, g))
    <3>1. Pending(s, seen, g) \subseteq g BY DEF Pending
    <3> QED BY <1>2, <3>1, KeyIs, FS_Subset
  <2>2. Cardinality(Pending(s, seen, g) \cup {b}) = Cardinality(Pending(s, seen, g)) + 1
    BY <1>7, <2>1, FS_AddElement DEF b, g
  <2>3. s.requested[g] = Cardinality(Pending(s, seen, g)) BY <1>0, <1>2 DEF RequestedIsPending
  <2> QED BY <1>4, <1>10, <2>2, <2>3
<1> QED BY <1>11, <1>12 DEF PendingGrows, a, b, g

LEMMA AskInv ==
  ASSUME InputTypeOK, NEW s, NEW seen, NEW k, NEW p, Asks(s, seen, k, p)
  PROVE  Consistent(Asked(s, p), seen \cup {p}, k)
<1> DEFINE b == At(p).bl
           g == Group(At(p).bl)
           a == Asked(s, p)
           now == seen \cup {p}
<1>0. /\ Shaped(s, k) /\ OpenOrRight(s, seen) /\ OpenIsWaited(s, seen)
      /\ RequestedIsPending(s, seen) /\ FilledAreCounted(s, k) /\ UnseenIsOpen(s, seen, k)
      /\ RightTogether(s, seen) /\ FrontIsFilled(s, k)
      /\ s.failed => Incomplete
  BY DEF Asks, RowInv, Consistent
<1>1. p \in Position /\ seen \subseteq Position /\ p \notin seen /\ p[1] <= k BY DEF Asks, IsNext
<1>2. /\ b \in Baselines /\ g \in Keys /\ b \in g /\ g \subseteq Baselines
      /\ \A c \in g : Group(c) = g
  BY <1>1, RowAt, GroupIs
<1>3. s \in GroupState BY <1>0 DEF Shaped
<1>4. /\ a \in GroupState /\ a.filled = s.filled /\ a.front = s.front
      /\ a.predicted = s.predicted /\ a.failed = s.failed
      /\ a.write_back[b] = p
      /\ \A c \in Baselines \ {b} : a.write_back[c] = s.write_back[c]
      /\ a.time[g] = Middle(At(p)) /\ a.requested[g] = s.requested[g] + 1
      /\ \A h \in Keys \ {g} : a.time[h] = s.time[h] /\ a.requested[h] = s.requested[h]
  BY <1>1, <1>3, AskedIs
<1>5. IsOpen(s, p) BY <1>0, <1>1 DEF UnseenIsOpen
<1>6. \A q : (IsOpen(a, q) <=> IsOpen(s, q)) /\ (IsRight(a, q) <=> IsRight(s, q))
  BY <1>4 DEF IsOpen, IsRight
<1>7. /\ \A h \in Keys \ {g} : Pending(a, now, h) = Pending(s, seen, h)
      /\ Cardinality(Pending(a, now, g)) = a.requested[g]
  <2>1. PendingGrows(s, a, seen, now, p) BY AskedPending
  <2> QED BY <2>1 DEF PendingGrows
<1>8. \A q \in seen : (IsOpen(s, q) /\ At(q).bl \in g) =>
         At(q).bl # b /\ Middle(At(q)) = Middle(At(p))
  BY NextIsNotPending DEF Asks
<1> HIDE DEF a
<1>10. Shaped(a, k) BY <1>0, <1>4 DEF Shaped
<1>11. OpenOrRight(a, now) BY <1>0, <1>5, <1>6 DEF OpenOrRight
<1>12. OpenIsWaited(a, now)
  <2> SUFFICES ASSUME NEW q \in now, IsOpen(a, q)
               PROVE  /\ a.requested[Group(At(q).bl)] > 0
                      /\ a.time[Group(At(q).bl)] = Middle(At(q))
                      /\ a.write_back[At(q).bl] = q
    BY DEF OpenIsWaited
  <2>0. At(q).bl \in Baselines BY <1>1, RowAt
  <2>00. s.requested \in [Keys -> Nat] BY <1>3 DEF GroupState
  <2>1. CASE q = p
    <3>1. s.requested[g] \in Nat BY <1>2, <2>00
    <3> HIDE DEF g
    <3>2. a.requested[g] > 0 BY <1>4, <3>1
    <3> QED BY <1>4, <2>1, <3>2 DEF g
  <2>2. CASE q \in seen /\ At(q).bl \in g
    <3>1. Group(At(q).bl) = g BY <1>2, <2>2
    <3>2. At(q).bl # b /\ Middle(At(q)) = Middle(At(p)) BY <1>6, <1>8, <2>2
    <3>3. s.write_back[At(q).bl] = q BY <1>0, <1>6, <2>2 DEF OpenIsWaited
    <3>4. s.requested[g] \in Nat BY <1>2, <2>00
    <3> HIDE DEF g
    <3>5. a.requested[g] > 0 BY <1>4, <3>4
    <3>6. a.write_back[At(q).bl] = q BY <1>4, <2>0, <3>2, <3>3
    <3> QED BY <1>4, <3>1, <3>2, <3>5, <3>6
  <2>3. CASE q \in seen /\ At(q).bl \notin g
    <3>1. /\ s.requested[Group(At(q).bl)] > 0
          /\ s.time[Group(At(q).bl)] = Middle(At(q))
          /\ s.write_back[At(q).bl] = q
      BY <1>0, <1>6, <2>3 DEF OpenIsWaited
    <3>2. Group(At(q).bl) \in Keys \ {g} /\ At(q).bl # b BY <1>2, <2>0, <2>3, GroupIs
    <3> HIDE DEF g, b
    <3> QED BY <1>4, <2>0, <3>1, <3>2
  <2> QED BY <2>1, <2>2, <2>3
<1>13. RequestedIsPending(a, now)
  <2> HIDE DEF g, now
  <2> QED BY <1>0, <1>4, <1>7 DEF RequestedIsPending
<1>14. FilledAreCounted(a, k)
  <2>1. \A l : FilledRows(a, l) = FilledRows(s, l) BY <1>6 DEF FilledRows
  <2> QED BY <1>0, <1>4, <2>1 DEF FilledAreCounted
<1>15. UnseenIsOpen(a, now, k) BY <1>0, <1>6 DEF UnseenIsOpen
<1>16. RightTogether(a, now)
  <2> SUFFICES ASSUME NEW q \in now, ~IsOpen(a, q), NEW c \in Group(At(q).bl)
               PROVE  \E z \in now : ~IsOpen(a, z) /\ At(z).bl = c /\ Middle(At(z)) = Middle(At(q))
    BY DEF RightTogether
  <2>1. q \in seen /\ ~IsOpen(s, q) BY <1>5, <1>6
  <2>2. PICK z \in seen : ~IsOpen(s, z) /\ At(z).bl = c /\ Middle(At(z)) = Middle(At(q))
    BY <1>0, <2>1 DEF RightTogether
  <2> QED BY <1>6, <2>2
<1>17. FrontIsFilled(a, k) BY <1>0, <1>4, <1>6 DEF FrontIsFilled
<1>18. a.failed => Incomplete BY <1>0, <1>4
<1> QED BY <1>10, <1>11, <1>12, <1>13, <1>14, <1>15, <1>16, <1>17, <1>18
  DEF Consistent, a

(***************************************************************************)
(* FlushGroup: the rows written back, one of each baseline of the group,   *)
(* become right, and are counted in their buffers.                         *)
(***************************************************************************)
Written(a, g) == {a.write_back[b] : b \in g}

LEMMA FlushedIs ==
  ASSUME NEW a \in GroupState, NEW g \in Keys
  PROVE  /\ FlushGroup(a, g) \in GroupState
         /\ FlushGroup(a, g).time = a.time /\ FlushGroup(a, g).write_back = a.write_back
         /\ FlushGroup(a, g).front = a.front /\ FlushGroup(a, g).failed = a.failed
         /\ FlushGroup(a, g).finished = a.finished
         /\ FlushGroup(a, g).requested[g] = 0
         /\ \A h \in Keys \ {g} : FlushGroup(a, g).requested[h] = a.requested[h]
         /\ Len(FlushGroup(a, g).filled) = Len(a.filled)
         /\ \A l \in 1 .. Len(a.filled) : FlushGroup(a, g).filled[l] =
               a.filled[l] + Cardinality({b \in g : a.write_back[b][1] = l})
         /\ Len(FlushGroup(a, g).predicted) = Len(a.predicted)
         /\ \A l \in 1 .. Len(a.predicted) :
               /\ Len(FlushGroup(a, g).predicted[l]) = Len(a.predicted[l])
               /\ \A i \in 1 .. Len(a.predicted[l]) : FlushGroup(a, g).predicted[l][i] =
                     IF <<l, i>> \in Written(a, g) THEN [time |-> a.time[g], bls |-> g]
                     ELSE a.predicted[l][i]
<1> DEFINE f == FlushGroup(a, g)
           v == [time |-> a.time[g], bls |-> g]
           n == Len(a.predicted)
           W == Written(a, g)
           one(l) == [i \in 1 .. Len(a.predicted[l]) |->
                        IF <<l, i>> \in W THEN v ELSE a.predicted[l][i]]
           count(l) == a.filled[l] + Cardinality({b \in g : a.write_back[b][1] = l})
<1>1. /\ a.filled \in Seq(Nat) /\ a.predicted \in Seq(Seq(Prediction))
      /\ a.time \in [Keys -> Int] /\ a.requested \in [Keys -> Nat]
      /\ a.write_back \in [Baselines -> Nat \X Nat]
  BY DEF GroupState
<1>2. f = [a EXCEPT
            !.predicted = [k \in DOMAIN @ |-> [i \in DOMAIN @[k] |->
                IF <<k, i>> \in W THEN v ELSE @[k][i]]],
            !.filled = [k \in DOMAIN @ |->
                @[k] + Cardinality({b \in g : a.write_back[b][1] = k})],
            !.requested[g] = 0]
  BY DEF FlushGroup, Written
<1>3. v \in Prediction /\ IsFiniteSet(g)
  <2>1. a.time[g] \in Int /\ g \in SUBSET Baselines /\ IsFiniteSet(g) BY <1>1, KeyIs
  <2> QED BY <2>1 DEF Prediction
<1> HIDE DEF f, v, W
<1>4. /\ f.time = a.time /\ f.write_back = a.write_back
      /\ f.front = a.front /\ f.failed = a.failed /\ f.finished = a.finished
      /\ f.requested = [a.requested EXCEPT ![g] = 0]
  BY <1>2 DEF GroupState
<1>5. f.predicted = [k \in 1 .. n |-> one(k)]
  <2>1. f.predicted = [k \in DOMAIN a.predicted |-> [i \in DOMAIN a.predicted[k] |->
                          IF <<k, i>> \in W THEN v ELSE a.predicted[k][i]]]
    BY <1>2 DEF GroupState
  <2>2. DOMAIN a.predicted = 1 .. n BY <1>1
  <2>3. \A k \in 1 .. n : DOMAIN a.predicted[k] = 1 .. Len(a.predicted[k]) BY <1>1
  <2> QED BY <2>1, <2>2, <2>3
<1>6. f.filled = [l \in 1 .. Len(a.filled) |-> count(l)]
  <2>1. f.filled = [l \in DOMAIN a.filled |-> count(l)] BY <1>2 DEF GroupState
  <2> QED BY <1>1, <2>1
<1>7. ASSUME NEW l \in 1 .. n
      PROVE  one(l) \in Seq(Prediction) /\ Len(one(l)) = Len(a.predicted[l])
  <2>1. a.predicted[l] \in Seq(Prediction) /\ Len(a.predicted[l]) \in Nat BY <1>1
  <2>2. \A i \in 1 .. Len(a.predicted[l]) :
           (IF <<l, i>> \in W THEN v ELSE a.predicted[l][i]) \in Prediction
    BY <1>3, <2>1
  <2> QED BY <2>1, <2>2
<1>8. \A l \in 1 .. Len(a.filled) : count(l) \in Nat
  <2> TAKE l \in 1 .. Len(a.filled)
  <2>1. a.filled[l] \in Nat BY <1>1
  <2>2. Cardinality({b \in g : a.write_back[b][1] = l}) \in Nat
    <3>1. IsFiniteSet({b \in g : a.write_back[b][1] = l}) BY <1>3, FS_Subset
    <3> QED BY <3>1, FS_CardinalityType
  <2> QED BY <2>1, <2>2
<1>9. n \in Nat /\ Len(a.filled) \in Nat BY <1>1
<1> HIDE DEF count
<1>10. f.filled \in Seq(Nat) /\ Len(f.filled) = Len(a.filled) BY <1>6, <1>8, <1>9
<1>11. \A l \in 1 .. n : /\ Len(f.predicted[l]) = Len(a.predicted[l])
                         /\ \A i \in 1 .. Len(a.predicted[l]) : f.predicted[l][i] =
                               IF <<l, i>> \in W THEN v ELSE a.predicted[l][i]
  BY <1>5, <1>7
<1> HIDE DEF one
<1>12. f.predicted \in Seq(Seq(Prediction)) /\ Len(f.predicted) = n BY <1>5, <1>7, <1>9
<1>13. f = [time |-> f.time, requested |-> f.requested, write_back |-> f.write_back,
            filled |-> f.filled, front |-> f.front, predicted |-> f.predicted,
            failed |-> f.failed, finished |-> f.finished]
  BY <1>2 DEF GroupState
<1>14. f \in GroupState
  <2>1. f.requested \in [Keys -> Nat] BY <1>1, <1>4
  <2> QED BY <1>1, <1>4, <1>10, <1>12, <1>13, <2>1 DEF GroupState
<1>15. /\ f.requested[g] = 0 /\ \A h \in Keys \ {g} : f.requested[h] = a.requested[h]
  BY <1>1, <1>4
<1>16. \A l \in 1 .. Len(a.filled) : f.filled[l] = count(l) BY <1>6
<1> QED BY <1>4, <1>10, <1>11, <1>12, <1>14, <1>15, <1>16 DEF count, f, v, W, n

LEMMA FlushInv ==
  ASSUME InputTypeOK, NEW a, NEW now \in SUBSET Position, NEW k, Consistent(a, now, k),
         \A q \in now : q[1] <= k, NEW g \in Keys, a.requested[g] = Cardinality(g),
         \A h \in Keys \ {g} : a.requested[h] < Cardinality(h)
  PROVE  RowInv(FlushGroup(a, g), now, k)
<1> DEFINE f == FlushGroup(a, g)
           W == Written(a, g)
           w == a.write_back
<1>0. /\ Shaped(a, k) /\ OpenOrRight(a, now) /\ OpenIsWaited(a, now)
      /\ RequestedIsPending(a, now) /\ FilledAreCounted(a, k) /\ UnseenIsOpen(a, now, k)
      /\ RightTogether(a, now) /\ FrontIsFilled(a, k)
      /\ a.failed => Incomplete
  BY DEF Consistent
<1>1. /\ a \in GroupState /\ k \in 0 .. Len(input) /\ Len(input) \in Nat
      /\ Len(a.filled) = k /\ Len(a.predicted) = k
      /\ \A l \in 1 .. k : Len(a.predicted[l]) = Len(input[l])
  BY <1>0 DEF Shaped, InputTypeOK
<1>2. /\ g \subseteq Baselines /\ g # {} /\ IsFiniteSet(g) /\ \A b \in g : Group(b) = g
  BY KeyIs
<1>3. \A b \in g : /\ w[b] \in now /\ At(w[b]).bl = b /\ IsOpen(a, w[b])
                   /\ Middle(At(w[b])) = a.time[g]
  <2>1. Pending(a, now, g) = g
    <3>1. Pending(a, now, g) \subseteq g BY DEF Pending
    <3>2. Cardinality(Pending(a, now, g)) = Cardinality(g) BY <1>0 DEF RequestedIsPending
    <3> QED BY <1>2, <3>1, <3>2, FS_Subset
  <2>2. \A b \in g : w[b] \in now /\ At(w[b]).bl = b /\ IsOpen(a, w[b]) BY <2>1 DEF Pending
  <2>3. ASSUME NEW b \in g PROVE Middle(At(w[b])) = a.time[g]
    <3>1. a.time[Group(At(w[b]).bl)] = Middle(At(w[b])) BY <1>0, <2>2 DEF OpenIsWaited
    <3>2. Group(At(w[b]).bl) = g BY <1>2, <2>2
    <3> QED BY <3>1, <3>2
  <2> QED BY <2>2, <2>3
<1>4. /\ f \in GroupState /\ f.time = a.time /\ f.write_back = a.write_back
      /\ f.front = a.front /\ f.failed = a.failed /\ f.requested[g] = 0
      /\ \A h \in Keys \ {g} : f.requested[h] = a.requested[h]
      /\ Len(f.filled) = Len(a.filled) /\ Len(f.predicted) = Len(a.predicted)
      /\ \A l \in 1 .. Len(a.filled) :
            f.filled[l] = a.filled[l] + Cardinality({b \in g : a.write_back[b][1] = l})
  BY <1>1, FlushedIs
<1>5. \A l \in 1 .. k : /\ Len(f.predicted[l]) = Len(input[l])
                        /\ \A i \in 1 .. Len(input[l]) : f.predicted[l][i] =
                              IF <<l, i>> \in W THEN [time |-> a.time[g], bls |-> g]
                              ELSE a.predicted[l][i]
  <2>1. \A l \in 1 .. Len(a.predicted) :
               /\ Len(f.predicted[l]) = Len(a.predicted[l])
               /\ \A i \in 1 .. Len(a.predicted[l]) : f.predicted[l][i] =
                     IF <<l, i>> \in W THEN [time |-> a.time[g], bls |-> g]
                     ELSE a.predicted[l][i]
    BY <1>1, FlushedIs
  <2> HIDE DEF f, W
  <2> QED BY <1>1, <2>1
<1> HIDE DEF f
<1>6. \A q \in W : \E b \in g : q = w[b] BY DEF Written
<1>7. \A b \in g : w[b] \in W BY DEF Written
<1> HIDE DEF W
<1>8. \A q \in W : /\ q \in now /\ At(q).bl \in g /\ q = w[At(q).bl] /\ IsOpen(a, q)
                   /\ Middle(At(q)) = a.time[g]
  BY <1>3, <1>6
<1>9. ASSUME NEW q \in Position, q[1] <= k
      PROVE  /\ q \in W => IsRight(f, q) /\ ~IsOpen(f, q)
             /\ q \notin W => /\ IsRight(f, q) <=> IsRight(a, q)
                              /\ IsOpen(f, q) <=> IsOpen(a, q)
  <2>1. q = <<q[1], q[2]>> /\ q[1] \in 1 .. Len(input) /\ q[2] \in 1 .. Len(input[q[1]])
    BY RowAt
  <2>2. q[1] \in 1 .. k BY <1>1, <1>9, <2>1
  <2>3. f.predicted[q[1]][q[2]] = IF q \in W THEN [time |-> a.time[g], bls |-> g]
                                  ELSE a.predicted[q[1]][q[2]]
    BY <1>5, <2>1, <2>2
  <2>4. ASSUME q \in W PROVE IsRight(f, q)
    <3>1. Middle(At(q)) = a.time[g] /\ Group(At(q).bl) = g BY <1>2, <1>8, <2>4
    <3> QED BY <2>3, <2>4, <3>1 DEF IsRight
  <2>5. ASSUME q \notin W
        PROVE  (IsRight(f, q) <=> IsRight(a, q)) /\ (IsOpen(f, q) <=> IsOpen(a, q))
    BY <2>3, <2>5 DEF IsRight, IsOpen
  <2> QED BY <2>4, <2>5, OpenIsNotRight
<1>10. \A q \in now : /\ q \in Position /\ q[1] <= k
                      /\ IsOpen(f, q) <=> (IsOpen(a, q) /\ q \notin W)
  BY <1>9
<1>11. Shaped(f, k) BY <1>0, <1>1, <1>4, <1>5 DEF Shaped
<1>12. OpenOrRight(f, now) BY <1>0, <1>9, <1>10 DEF OpenOrRight
<1>13. ASSUME NEW q \in now, IsOpen(f, q)
       PROVE  At(q).bl \in Baselines /\ Group(At(q).bl) \in Keys \ {g} /\ At(q).bl \notin g
  <2>1. IsOpen(a, q) /\ q \notin W /\ q \in Position BY <1>10, <1>13
  <2>2. At(q).bl \in Baselines BY <2>1, RowAt
  <2>3. w[At(q).bl] = q BY <1>0, <2>1 DEF OpenIsWaited
  <2>4. At(q).bl \notin g BY <1>7, <2>1, <2>3
  <2>5. Group(At(q).bl) \in Keys /\ At(q).bl \in Group(At(q).bl) BY <2>2, GroupIs
  <2> QED BY <2>2, <2>4, <2>5
<1>14. OpenIsWaited(f, now)
  <2> SUFFICES ASSUME NEW q \in now, IsOpen(f, q)
               PROVE  /\ f.requested[Group(At(q).bl)] > 0
                      /\ f.time[Group(At(q).bl)] = Middle(At(q))
                      /\ f.write_back[At(q).bl] = q
    BY DEF OpenIsWaited
  <2>1. /\ a.requested[Group(At(q).bl)] > 0
        /\ a.time[Group(At(q).bl)] = Middle(At(q))
        /\ a.write_back[At(q).bl] = q
    BY <1>0, <1>10 DEF OpenIsWaited
  <2> QED BY <1>4, <1>13, <2>1
<1>15. RequestedIsPending(f, now)
  <2> SUFFICES ASSUME NEW h \in Keys PROVE f.requested[h] = Cardinality(Pending(f, now, h))
    BY DEF RequestedIsPending
  <2>1. CASE h = g
    <3>1. Pending(f, now, g) = {}
      <4> SUFFICES ASSUME NEW b \in Pending(f, now, g) PROVE FALSE OBVIOUS
      <4>1. b \in g /\ w[b] \in now /\ IsOpen(f, w[b]) BY <1>4 DEF Pending
      <4> QED BY <1>7, <1>10, <4>1
    <3> QED BY <1>4, <2>1, <3>1, FS_EmptySet
  <2>2. CASE h # g
    <3>1. ASSUME NEW b \in h
          PROVE  b \in Pending(f, now, h) <=> b \in Pending(a, now, h)
      <4>1. b \notin g BY <1>2, <2>2, KeyIs
      <4>2. At(w[b]).bl = b => w[b] \notin W BY <1>8, <4>1
      <4> QED BY <1>4, <1>10, <4>2 DEF Pending
    <3>2. Pending(f, now, h) = Pending(a, now, h)
      <4>1. Pending(f, now, h) \subseteq h /\ Pending(a, now, h) \subseteq h BY DEF Pending
      <4> QED BY <3>1, <4>1
    <3> QED BY <1>0, <1>4, <2>2, <3>2 DEF RequestedIsPending
  <2> QED BY <2>1, <2>2
<1>16. GroupsWait(f)
  <2>1. 0 < Cardinality(g)
    <3>1. Cardinality(g) # 0 BY <1>2, FS_EmptySet
    <3>2. Cardinality(g) \in Nat BY <1>2, FS_CardinalityType
    <3> QED BY <3>1, <3>2
  <2> QED BY <1>4, <2>1 DEF GroupsWait
<1>17. FilledAreCounted(f, k)
  <2> SUFFICES ASSUME NEW l \in 1 .. k
               PROVE  f.filled[l] = Cardinality(FilledRows(f, l))
    BY DEF FilledAreCounted
  <2> DEFINE B == {b \in g : a.write_back[b][1] = l}
             C == {j \in DOMAIN input[l] : <<l, j>> \in W}
             A == FilledRows(a, l)
  <2>1. \A j \in DOMAIN input[l] : <<l, j>> \in Position /\ <<l, j>>[1] <= k
    <3>1. input[l] \in Seq(BdaRow) /\ l \in DOMAIN input BY <1>1 DEF InputTypeOK
    <3>2. \A j \in DOMAIN input[l] : j \in Nat BY <3>1
    <3> QED BY <1>1, <3>1, <3>2 DEF Position
  <2>2. FilledRows(f, l) = A \cup C
    <3>1. ASSUME NEW j \in DOMAIN input[l]
          PROVE  ~IsOpen(f, <<l, j>>) <=> (~IsOpen(a, <<l, j>>) \/ <<l, j>> \in W)
      <4>1. <<l, j>> \in Position /\ <<l, j>>[1] <= k BY <2>1
      <4> QED BY <1>9, <4>1
    <3> QED BY <3>1 DEF FilledRows
  <2>3. A \cap C = {} BY <1>8 DEF FilledRows
  <2>4. IsFiniteSet(A) /\ IsFiniteSet(C)
    <3>1. input[l] \in Seq(BdaRow) BY <1>1 DEF InputTypeOK
    <3>2. DOMAIN input[l] = 1 .. Len(input[l]) /\ Len(input[l]) \in Int BY <3>1
    <3>3. IsFiniteSet(DOMAIN input[l]) BY <3>2, FS_Interval
    <3>4. A \subseteq DOMAIN input[l] /\ C \subseteq DOMAIN input[l] BY DEF FilledRows
    <3> QED BY <3>3, <3>4, FS_Subset
  <2>5. IsFiniteSet(B) BY <1>2, FS_Subset
  <2>6. Cardinality(C) = Cardinality(B)
    <3> DEFINE h == [b \in B |-> w[b][2]]
    <3>1. ASSUME NEW b \in B PROVE w[b][2] \in C /\ w[b] = <<l, w[b][2]>>
      <4>1. w[b] \in Position /\ w[b] \in W BY <1>3, <1>7
      <4>2. w[b] = <<l, w[b][2]>> BY <4>1, RowAt
      <4>3. w[b][2] \in DOMAIN input[l] BY <4>1 DEF Position
      <4> QED BY <4>1, <4>2, <4>3
    <3>2. ASSUME NEW b \in B, NEW c \in B, h[b] = h[c] PROVE b = c
      <4>1. w[b] = w[c] BY <3>1, <3>2
      <4> QED BY <1>3, <4>1
    <3>3. ASSUME NEW j \in C PROVE \E b \in B : h[b] = j
      <4>1. PICK b \in g : <<l, j>> = w[b] BY <1>6
      <4>2. w[b][1] = l /\ w[b][2] = j BY <4>1
      <4> QED BY <4>2
    <3>4. h \in [B -> C] BY <3>1
    <3> HIDE DEF B, C
    <3>5. h \in Bijection(B, C)
      BY <3>2, <3>3, <3>4 DEF Bijection, Injection, Surjection, IsInjective
    <3> QED BY <2>5, <3>5, FS_Bijection DEF ExistsBijection
  <2>7. Cardinality(A \cup C) = Cardinality(A) + Cardinality(C)
    <3> HIDE DEF A, C
    <3>1. Cardinality(A \cap C) = 0 BY <2>3, FS_EmptySet
    <3>2. Cardinality(A \cup C) = Cardinality(A) + Cardinality(C) - Cardinality(A \cap C)
      BY <2>4, FS_Union
    <3>3. Cardinality(A) \in Nat /\ Cardinality(C) \in Nat BY <2>4, FS_CardinalityType
    <3> QED BY <3>1, <3>2, <3>3
  <2>8. a.filled[l] = Cardinality(A) BY <1>0 DEF FilledAreCounted
  <2>9. f.filled[l] = a.filled[l] + Cardinality(B) BY <1>1, <1>4
  <2> QED BY <2>2, <2>6, <2>7, <2>8, <2>9
<1>18. UnseenIsOpen(f, now, k) BY <1>0, <1>8, <1>9 DEF UnseenIsOpen
<1>19. RightTogether(f, now)
  <2> SUFFICES ASSUME NEW q \in now, ~IsOpen(f, q), NEW c \in Group(At(q).bl)
               PROVE  \E z \in now : ~IsOpen(f, z) /\ At(z).bl = c /\ Middle(At(z)) = Middle(At(q))
    BY DEF RightTogether
  <2>1. CASE q \in W
    <3>1. c \in g /\ Middle(At(q)) = a.time[g] BY <1>2, <1>8, <2>1
    <3>2. /\ w[c] \in now /\ w[c] \in W /\ At(w[c]).bl = c
          /\ Middle(At(w[c])) = a.time[g]
      BY <1>3, <1>7, <3>1
    <3> QED BY <1>10, <3>1, <3>2
  <2>2. CASE q \notin W
    <3>1. ~IsOpen(a, q) BY <1>10, <2>2
    <3>2. PICK z \in now : ~IsOpen(a, z) /\ At(z).bl = c /\ Middle(At(z)) = Middle(At(q))
      BY <1>0, <3>1 DEF RightTogether
    <3> QED BY <1>10, <3>2
  <2> QED BY <2>1, <2>2
<1>20. FrontIsFilled(f, k)
  <2>1. f.front \in 1 .. k + 1 BY <1>0, <1>4 DEF FrontIsFilled
  <2>2. ASSUME NEW q \in Position, q[1] < f.front PROVE ~IsOpen(f, q)
    <3>1. ~IsOpen(a, q) BY <1>0, <1>4, <2>2 DEF FrontIsFilled
    <3>2. q[1] <= k
      <4>1. q[1] \in Nat BY DEF Position
      <4> QED BY <1>1, <2>1, <2>2, <4>1
    <3> QED BY <1>9, <3>1, <3>2
  <2> QED BY <2>1, <2>2 DEF FrontIsFilled
<1>21. f.failed => Incomplete BY <1>0, <1>4
<1> QED BY <1>11, <1>12, <1>14, <1>15, <1>16, <1>17, <1>18, <1>19, <1>20, <1>21
  DEF RowInv, Consistent, f

-----------------------------------------------------------------------------
LEMMA SameRows ==
  ASSUME NEW s, NEW seen, NEW k, RowInv(s, seen, k), NEW r \in GroupState,
         r.time = s.time, r.requested = s.requested, r.write_back = s.write_back,
         r.filled = s.filled, r.predicted = s.predicted,
         FrontIsFilled(r, k), r.failed => Incomplete
  PROVE  RowInv(r, seen, k)
<1>1. /\ Shaped(s, k) /\ OpenOrRight(s, seen) /\ OpenIsWaited(s, seen)
      /\ RequestedIsPending(s, seen) /\ FilledAreCounted(s, k) /\ UnseenIsOpen(s, seen, k)
      /\ RightTogether(s, seen) /\ GroupsWait(s)
  BY DEF RowInv, Consistent
<1>2. \A q : (IsOpen(r, q) <=> IsOpen(s, q)) /\ (IsRight(r, q) <=> IsRight(s, q))
  BY DEF IsOpen, IsRight
<1>3. Shaped(r, k) BY <1>1 DEF Shaped
<1>4. OpenOrRight(r, seen) BY <1>1, <1>2 DEF OpenOrRight
<1>5. OpenIsWaited(r, seen) BY <1>1, <1>2 DEF OpenIsWaited
<1>6. RequestedIsPending(r, seen)
  <2>1. \A g : Pending(r, seen, g) = Pending(s, seen, g) BY <1>2 DEF Pending
  <2> QED BY <1>1, <2>1 DEF RequestedIsPending
<1>7. FilledAreCounted(r, k)
  <2>1. \A l : FilledRows(r, l) = FilledRows(s, l) BY <1>2 DEF FilledRows
  <2> QED BY <1>1, <2>1 DEF FilledAreCounted
<1>8. UnseenIsOpen(r, seen, k) BY <1>1, <1>2 DEF UnseenIsOpen
<1>9. RightTogether(r, seen) BY <1>1, <1>2 DEF RightTogether
<1>10. GroupsWait(r) BY <1>1 DEF GroupsWait
<1> QED BY <1>3, <1>4, <1>5, <1>6, <1>7, <1>8, <1>9, <1>10 DEF RowInv, Consistent

LEMMA SameFront ==
  ASSUME NEW s, NEW seen, NEW k, RowInv(s, seen, k), NEW r,
         r.predicted = s.predicted, r.front = s.front
  PROVE  FrontIsFilled(r, k)
BY DEF RowInv, Consistent, FrontIsFilled, IsOpen

\* Rows after row i of buffer k were not seen.
LEMMA SeenIs ==
  ASSUME InputTypeOK, NEW k \in 1 .. Len(input), NEW i \in 1 .. Len(input[k])
  PROVE  /\ <<k, i>> \in Position /\ At(<<k, i>>) = input[k][i]
         /\ Seen(k, i) = Seen(k, i - 1) \cup {<<k, i>>}
         /\ IsNext(Seen(k, i - 1), <<k, i>>)
         /\ \A q \in Seen(k, i) : q[1] <= k
<1> DEFINE p == <<k, i>>
<1>1. /\ input \in Seq(Seq(BdaRow)) /\ k \in Nat /\ i \in Nat
      /\ k \in DOMAIN input /\ i \in DOMAIN input[k]
  <2>1. input \in Seq(Seq(BdaRow)) BY DEF InputTypeOK
  <2>2. Len(input) \in Nat /\ k \in DOMAIN input BY <2>1
  <2>3. input[k] \in Seq(BdaRow) BY <2>1, <2>2
  <2> QED BY <2>1, <2>2, <2>3
<1>2. p \in Position BY <1>1 DEF Position
<1>3. \A q \in Position : q[1] \in Nat /\ q[2] \in Nat /\ q = <<q[1], q[2]>> BY DEF Position
<1>4. Seen(k, i) = Seen(k, i - 1) \cup {p}
  <2>1. \A q \in Position : q \in Seen(k, i) <=> q \in Seen(k, i - 1) \cup {p}
    BY <1>1, <1>3 DEF Seen
  <2> QED BY <1>2, <2>1 DEF Seen
<1>5. IsNext(Seen(k, i - 1), p) BY <1>1, <1>2, <1>3 DEF IsNext, Seen, Before
<1>6. \A q \in Seen(k, i) : q[1] <= k BY <1>1, <1>3 DEF Seen
<1> QED BY <1>2, <1>4, <1>5, <1>6 DEF At

\* While rows of buffer k are processed: the first i, or fewer if the step failed.
RowsInv(s, k, i) ==
    /\ \E j \in 0 .. i : RowInv(s, Seen(k, j), k) /\ (~s.failed => j = i)
    /\ ~s.finished

LEMMA ProcessRowInv ==
  ASSUME InputTypeOK, NEW k \in 1 .. Len(input), NEW i \in 1 .. Len(input[k]),
         NEW s, RowsInv(s, k, i - 1)
  PROVE  RowsInv(ProcessRow(s, k, i), k, i)
<1> DEFINE p == <<k, i>>
           g == Group(At(p).bl)
           a == Asked(s, p)
           r == ProcessRow(s, k, i)
<1>1. /\ p \in Position /\ At(p) = input[k][i] /\ Seen(k, i) = Seen(k, i - 1) \cup {p}
      /\ IsNext(Seen(k, i - 1), p) /\ \A q \in Seen(k, i) : q[1] <= k
  BY SeenIs
<1>2. k \in Nat /\ i \in Nat /\ i > 0
  <2>1. Len(input) \in Nat BY DEF InputTypeOK
  <2>2. input[k] \in Seq(BdaRow) BY <2>1 DEF InputTypeOK
  <2> QED BY <2>1, <2>2
<1>3. r = IF s.failed THEN s
          ELSE IF OtherTime(s, g, At(p)) THEN [s EXCEPT !.failed = TRUE]
          ELSE IF a.requested[g] = Cardinality(g) THEN FlushGroup(a, g)
          ELSE a
  <2> DEFINE row == input[k][i]
  <2>1. a = [s EXCEPT !.write_back[row.bl] = <<k, i>>, !.time[Group(row.bl)] = Middle(row),
                      !.requested[Group(row.bl)] = @ + 1]
    BY <1>1 DEF Asked
  <2> HIDE DEF row
  <2>2. At(p) = row BY <1>1 DEF row
  <2> HIDE DEF a, p
  <2> QED BY <2>1, <2>2 DEF ProcessRow, row, p
<1>4. PICK j \in 0 .. i - 1 : RowInv(s, Seen(k, j), k) /\ (~s.failed => j = i - 1)
  BY DEF RowsInv
<1>5. /\ j \in 0 .. i /\ i \in 0 .. i /\ p[1] <= k BY <1>2
<1>6. ~s.finished BY DEF RowsInv
<1>7. s \in GroupState /\ g \in Keys
  <2>1. s \in GroupState BY <1>4 DEF RowInv, Consistent, Shaped
  <2> QED BY <1>1, <2>1, RowAt, GroupIs
<1> HIDE DEF p, g, a, r
<1>8. CASE s.failed BY <1>3, <1>4, <1>5, <1>8, <1>6 DEF RowsInv, r
<1>9. CASE ~s.failed /\ OtherTime(s, g, At(p))
  <2>1. r = [s EXCEPT !.failed = TRUE] BY <1>3, <1>9
  <2>2. /\ r \in GroupState /\ r.failed
        /\ r.time = s.time /\ r.requested = s.requested /\ r.write_back = s.write_back
        /\ r.filled = s.filled /\ r.predicted = s.predicted /\ r.front = s.front
        /\ r.finished = s.finished
    BY <1>7, <2>1 DEF GroupState
  <2>3. Incomplete BY <1>1, <1>4, <1>9, FailInv DEF g
  <2>4. FrontIsFilled(r, k) BY <1>4, <2>2, SameFront
  <2>5. RowInv(r, Seen(k, j), k) BY <1>4, <2>2, <2>3, <2>4, SameRows
  <2> QED BY <1>5, <1>6, <2>2, <2>5 DEF RowsInv, r
<1>10. CASE ~s.failed /\ ~OtherTime(s, g, At(p))
  <2> DEFINE now == Seen(k, i)
  <2>1. RowInv(s, Seen(k, i - 1), k) BY <1>4, <1>10
  <2>2. Asks(s, Seen(k, i - 1), k, p) BY <1>1, <1>5, <1>10, <2>1 DEF Asks, g
  <2>3. Consistent(a, now, k) BY <1>1, <2>2, AskInv DEF a
  <2>4. /\ a.requested[g] = s.requested[g] + 1
        /\ \A h \in Keys \ {g} : a.requested[h] = s.requested[h]
        /\ a.failed = s.failed /\ a.finished = s.finished /\ a \in GroupState
    BY <1>1, <1>7, AskedIs DEF a, g
  <2>5. \A h \in Keys \ {g} : a.requested[h] < Cardinality(h)
    BY <2>1, <2>4 DEF RowInv, GroupsWait
  <2>6. now \in SUBSET Position BY DEF Seen
  <2>7. s.requested[g] < Cardinality(g) /\ s.requested[g] \in Nat /\ Cardinality(g) \in Nat
    <3>1. s.requested[g] < Cardinality(g) BY <1>7, <2>1 DEF RowInv, GroupsWait
    <3>2. s.requested[g] \in Nat BY <1>7 DEF GroupState
    <3> QED BY <1>7, <3>1, <3>2, KeyIs, FS_CardinalityType
  <2> HIDE DEF now
  <2>8. CASE a.requested[g] = Cardinality(g)
    <3>1. r = FlushGroup(a, g) BY <1>3, <1>10, <2>8
    <3>2. \A q \in now : q[1] <= k BY <1>1 DEF now
    <3>3. RowInv(FlushGroup(a, g), now, k) BY <1>7, <2>3, <2>5, <2>6, <2>8, <3>2, FlushInv
    <3>4. FlushGroup(a, g).finished = a.finished BY <1>7, <2>4, FlushedIs
    <3> QED BY <1>5, <1>6, <2>4, <3>1, <3>3, <3>4 DEF RowsInv, r, now
  <2>9. CASE a.requested[g] # Cardinality(g)
    <3>1. r = a BY <1>3, <1>10, <2>9
    <3>2. a.requested[g] < Cardinality(g) BY <2>4, <2>7, <2>9
    <3>3. GroupsWait(a) BY <2>5, <3>2 DEF GroupsWait
    <3> QED BY <1>5, <1>6, <2>3, <2>4, <3>1, <3>3 DEF RowsInv, RowInv, r, now
  <2> QED BY <2>8, <2>9
<1> QED BY <1>8, <1>9, <1>10

(***************************************************************************)
(* A buffer is pushed on the queue: its rows are open.                     *)
(***************************************************************************)
LEMMA SeenAll ==
  ASSUME InputTypeOK, NEW k \in 1 .. Len(input)
  PROVE  /\ Seen(k, Len(input[k])) = Seen(k + 1, 0)
         /\ Seen(k, 0) = {p \in Position : p[1] < k}
         /\ Seen(k + 1, 0) = {p \in Position : p[1] <= k}
<1>1. k \in Nat
  <2>1. Len(input) \in Nat BY DEF InputTypeOK
  <2> QED BY <2>1
<1>2. \A p \in Position : /\ p[1] \in Nat /\ p[2] \in 1 .. Len(input[p[1]])
                          /\ Len(input[p[1]]) \in Nat
  <2> TAKE p \in Position
  <2>1. p[1] \in Nat /\ p[1] \in DOMAIN input BY DEF Position
  <2>2. input[p[1]] \in Seq(BdaRow) BY <2>1 DEF InputTypeOK
  <2> QED BY <2>1, <2>2, RowAt
<1>3. ASSUME NEW p \in Position
      PROVE  /\ (p[1] < k \/ (p[1] = k /\ p[2] <= Len(input[k]))) <=> p[1] <= k
             /\ (p[1] < k + 1 \/ (p[1] = k + 1 /\ p[2] <= 0)) <=> p[1] <= k
             /\ (p[1] < k \/ (p[1] = k /\ p[2] <= 0)) <=> p[1] < k
  BY <1>1, <1>2
<1> QED BY <1>3 DEF Seen

LEMMA AppendIs ==
  ASSUME NEW S, NEW sq \in Seq(S), NEW x \in S
  PROVE  /\ Append(sq, x) \in Seq(S) /\ Len(Append(sq, x)) = Len(sq) + 1
         /\ Append(sq, x)[Len(sq) + 1] = x
         /\ \A l \in 1 .. Len(sq) : Append(sq, x)[l] = sq[l]
OBVIOUS

LEMMA PushedInv ==
  ASSUME InputTypeOK, NEW k \in 1 .. Len(input), NEW s, ~s.failed, ~s.finished,
         RowInv(s, Seen(k, 0), k - 1)
  PROVE  RowsInv(Pushed(s, k), k, 0)
<1> DEFINE new == [i \in DOMAIN input[k] |-> NoPrediction]
           r == Pushed(s, k)
           seen == Seen(k, 0)
<1>1. /\ Shaped(s, k - 1) /\ OpenOrRight(s, seen) /\ OpenIsWaited(s, seen)
      /\ RequestedIsPending(s, seen) /\ FilledAreCounted(s, k - 1)
      /\ RightTogether(s, seen) /\ GroupsWait(s) /\ FrontIsFilled(s, k - 1)
  BY DEF RowInv, Consistent
<1>2. /\ k \in Nat /\ k > 0 /\ input \in Seq(Seq(BdaRow)) /\ input[k] \in Seq(BdaRow)
      /\ Len(input[k]) \in Nat /\ DOMAIN input[k] = 1 .. Len(input[k])
      /\ Len(input) \in Nat
  <2>1. input \in Seq(Seq(BdaRow)) BY DEF InputTypeOK
  <2>2. Len(input) \in Nat /\ k \in DOMAIN input BY <2>1
  <2>3. input[k] \in Seq(BdaRow) BY <2>1, <2>2
  <2> QED BY <2>1, <2>2, <2>3
<1>3. s \in GroupState /\ Len(s.filled) = k - 1 /\ Len(s.predicted) = k - 1
      /\ s.filled \in Seq(Nat) /\ s.predicted \in Seq(Seq(Prediction))
      /\ \A l \in 1 .. (k - 1) : Len(s.predicted[l]) = Len(input[l])
  BY <1>1 DEF Shaped, GroupState
<1>4. r = [s EXCEPT !.filled = Append(@, 0), !.predicted = Append(@, new)]
  BY DEF Pushed, NoPrediction
<1>5. new \in Seq(Prediction) /\ Len(new) = Len(input[k])
      /\ \A i \in 1 .. Len(input[k]) : new[i] = NoPrediction
  <2>1. NoPrediction \in Prediction BY DEF NoPrediction, Prediction
  <2> QED BY <1>2, <2>1
<1> HIDE DEF new, r
<1>6. /\ r.filled = Append(s.filled, 0) /\ r.predicted = Append(s.predicted, new)
      /\ r.time = s.time /\ r.requested = s.requested /\ r.write_back = s.write_back
      /\ r.front = s.front /\ r.failed = s.failed /\ r.finished = s.finished
  BY <1>3, <1>4 DEF GroupState
<1>7. /\ r.filled \in Seq(Nat) /\ r.predicted \in Seq(Seq(Prediction))
      /\ Len(r.filled) = k /\ Len(r.predicted) = k
      /\ r.filled[k] = 0 /\ r.predicted[k] = new
      /\ \A l \in 1 .. (k - 1) : r.filled[l] = s.filled[l] /\ r.predicted[l] = s.predicted[l]
  <2>1. 0 \in Nat OBVIOUS
  <2>2. /\ r.filled \in Seq(Nat) /\ Len(r.filled) = Len(s.filled) + 1
        /\ r.filled[Len(s.filled) + 1] = 0
        /\ \A l \in 1 .. Len(s.filled) : r.filled[l] = s.filled[l]
    BY <1>3, <1>6, <2>1, AppendIs
  <2>3. /\ r.predicted \in Seq(Seq(Prediction)) /\ Len(r.predicted) = Len(s.predicted) + 1
        /\ r.predicted[Len(s.predicted) + 1] = new
        /\ \A l \in 1 .. Len(s.predicted) : r.predicted[l] = s.predicted[l]
    BY <1>3, <1>5, <1>6, AppendIs
  <2>4. (k - 1) + 1 = k BY <1>2
  <2> QED BY <1>3, <2>2, <2>3, <2>4
<1>8. r \in GroupState
  <2>1. r = [time |-> r.time, requested |-> r.requested, write_back |-> r.write_back,
             filled |-> r.filled, front |-> r.front, predicted |-> r.predicted,
             failed |-> r.failed, finished |-> r.finished]
    BY <1>3, <1>4 DEF GroupState
  <2> QED BY <1>3, <1>6, <1>7, <2>1 DEF GroupState
<1>9. \A q \in seen : q \in Position /\ q[1] \in 1 .. (k - 1)
  <2> TAKE q \in seen
  <2>1. q \in Position /\ q[1] < k BY SeenAll
  <2> QED BY <1>2, <2>1, RowAt
<1>10. \A q \in seen : /\ IsOpen(r, q) <=> IsOpen(s, q)
                       /\ IsRight(r, q) <=> IsRight(s, q)
  BY <1>7, <1>9 DEF IsOpen, IsRight
<1>11. \A q \in Position : q[1] = k => IsOpen(r, q)
  <2> TAKE q \in Position
  <2>1. q[2] \in 1 .. Len(input[q[1]]) BY RowAt
  <2> QED BY <1>5, <1>7, <2>1 DEF IsOpen
<1>12. \A q \in Position : (q[1] <= k /\ q \notin seen) => q[1] = k
  <2> TAKE q \in Position
  <2>1. q \in seen <=> q[1] < k BY SeenAll
  <2>2. q[1] \in Nat BY DEF Position
  <2> QED BY <1>2, <2>1, <2>2
<1> HIDE DEF seen
<1>13. Shaped(r, k)
  <2>1. \A l \in 1 .. k : Len(r.predicted[l]) = Len(input[l])
    <3> TAKE l \in 1 .. k
    <3>1. l \in 1 .. (k - 1) \/ l = k BY <1>2
    <3> QED BY <1>3, <1>5, <1>7, <3>1
  <2> QED BY <1>2, <1>7, <1>8, <2>1 DEF Shaped
<1>14. OpenOrRight(r, seen) BY <1>1, <1>10 DEF OpenOrRight
<1>15. OpenIsWaited(r, seen) BY <1>1, <1>6, <1>10 DEF OpenIsWaited
<1>16. RequestedIsPending(r, seen)
  <2>1. \A g : Pending(r, seen, g) = Pending(s, seen, g) BY <1>6, <1>10 DEF Pending
  <2> QED BY <1>1, <1>6, <2>1 DEF RequestedIsPending
<1>17. FilledAreCounted(r, k)
  <2> SUFFICES ASSUME NEW l \in 1 .. k PROVE r.filled[l] = Cardinality(FilledRows(r, l))
    BY DEF FilledAreCounted
  <2>1. CASE l \in 1 .. (k - 1)
    <3>1. FilledRows(r, l) = FilledRows(s, l) BY <1>7, <2>1 DEF FilledRows, IsOpen
    <3>2. s.filled[l] = Cardinality(FilledRows(s, l)) BY <1>1, <2>1 DEF FilledAreCounted
    <3> QED BY <1>7, <2>1, <3>1, <3>2
  <2>2. CASE l = k
    <3>1. FilledRows(r, k) = {} BY <1>2, <1>5, <1>7 DEF FilledRows, IsOpen
    <3> QED BY <1>7, <2>2, <3>1, FS_EmptySet
  <2> QED BY <1>2, <2>1, <2>2
<1>18. UnseenIsOpen(r, seen, k) BY <1>11, <1>12 DEF UnseenIsOpen
<1>19. RightTogether(r, seen) BY <1>1, <1>10 DEF RightTogether
<1>20. GroupsWait(r) BY <1>1, <1>6 DEF GroupsWait
<1>21. FrontIsFilled(r, k)
  <2>1. s.front \in 1 .. k BY <1>1, <1>2 DEF FrontIsFilled
  <2>2. ASSUME NEW q \in Position, q[1] < s.front PROVE ~IsOpen(r, q)
    <3>1. q[1] < k
      <4>1. q[1] \in Nat BY DEF Position
      <4> QED BY <1>2, <2>1, <2>2, <4>1
    <3>2. q \in seen BY <3>1, SeenAll DEF seen
    <3>3. ~IsOpen(s, q) BY <1>1, <2>2 DEF FrontIsFilled
    <3> QED BY <1>10, <3>2, <3>3
  <2> QED BY <1>2, <1>6, <2>1, <2>2 DEF FrontIsFilled
<1>22. RowInv(r, seen, k)
  BY <1>6, <1>13, <1>14, <1>15, <1>16, <1>17, <1>18, <1>19, <1>20, <1>21
  DEF RowInv, Consistent
<1> QED BY <1>6, <1>22 DEF RowsInv, r, seen

(***************************************************************************)
(* The rows of a buffer are processed one after another: the states after  *)
(* them are a recursive function.                                          *)
(***************************************************************************)
IsAfter(f, s, k, n) ==
    f = [i \in 0 .. n |-> IF i = 0 THEN Pushed(s, k) ELSE ProcessRow(f[i - 1], k, i)]

LEMMA AfterExists ==
  ASSUME NEW s, NEW k, NEW n \in Nat
  PROVE  \E f : IsAfter(f, s, k, n)
<1> DEFINE T == {m \in 0 .. n : \E f : IsAfter(f, s, k, m)}
<1>1. ASSUME NEW m \in 0 .. n, \A j \in 0 .. n : j < m => j \in T
      PROVE  m \in T
  <2>1. CASE m = 0
    <3> DEFINE f == [j \in 0 .. 0 |-> Pushed(s, k)]
    <3>1. f = [j \in 0 .. 0 |-> IF j = 0 THEN Pushed(s, k) ELSE ProcessRow(f[j - 1], k, j)]
      OBVIOUS
    <3>2. IsAfter(f, s, k, 0) BY <3>1 DEF IsAfter
    <3> QED BY <2>1, <3>2
  <2>2. CASE m > 0
    <3>1. m - 1 \in 0 .. n /\ m - 1 < m BY <2>2
    <3>2. m - 1 \in T BY <1>1, <3>1
    <3>3. PICK g : IsAfter(g, s, k, m - 1) BY <3>2
    <3> DEFINE f == [j \in 0 .. m |-> IF j < m THEN g[j] ELSE ProcessRow(g[m - 1], k, m)]
    <3>4. ASSUME NEW j \in 0 .. m
          PROVE  f[j] = IF j = 0 THEN Pushed(s, k) ELSE ProcessRow(f[j - 1], k, j)
      <4>1. \A i \in 0 .. m - 1 :
               g[i] = IF i = 0 THEN Pushed(s, k) ELSE ProcessRow(g[i - 1], k, i)
        BY <3>3 DEF IsAfter
      <4>2. CASE j < m
        <5>1. j \in 0 .. m - 1 /\ f[j] = g[j] BY <4>2
        <5>2. j # 0 => j - 1 \in 0 .. m /\ j - 1 < m /\ f[j - 1] = g[j - 1] BY <4>2
        <5> QED BY <4>1, <5>1, <5>2
      <4>3. CASE j = m
        <5>0. m \in 0 .. m /\ ~(m < m) OBVIOUS
        <5>1. f[j] = ProcessRow(g[m - 1], k, m) BY <4>3, <5>0
        <5>2. f[j - 1] = g[m - 1] BY <2>2, <4>3
        <5> QED BY <2>2, <4>3, <5>1, <5>2
      <4> QED BY <4>2, <4>3
    <3>5. f = [j \in 0 .. m |-> IF j = 0 THEN Pushed(s, k) ELSE ProcessRow(f[j - 1], k, j)]
      <4>1. f = [j \in 0 .. m |-> f[j]] OBVIOUS
      <4> HIDE DEF f
      <4> QED BY <3>4, <4>1
    <3>6. IsAfter(f, s, k, m)
      <4> HIDE DEF f
      <4> QED BY <3>5 DEF IsAfter
    <3> QED BY <3>6
  <2> QED BY <2>1, <2>2
<1>2. \A m \in 0 .. n : m \in T
  <2> HIDE DEF T
  <2> QED BY <1>1, UpTo
<1> QED BY <1>2

LEMMA RowsProcessedInv ==
  ASSUME InputTypeOK, NEW k \in 1 .. Len(input), NEW s, ~s.failed, ~s.finished,
         RowInv(s, Seen(k, 0), k - 1)
  PROVE  RowsInv(RowsProcessed(s, k), k, Len(input[k]))
<1> DEFINE n == Len(input[k])
           after == CHOOSE f : IsAfter(f, s, k, n)
<1>1. n \in Nat
  <2>1. input \in Seq(Seq(BdaRow)) BY DEF InputTypeOK
  <2>2. k \in DOMAIN input BY <2>1
  <2>3. input[k] \in Seq(BdaRow) BY <2>1, <2>2
  <2> QED BY <2>3
<1>2. IsAfter(after, s, k, n) BY <1>1, AfterExists
<1>3. RowsProcessed(s, k) = after[n] BY DEF RowsProcessed, IsAfter
<1> HIDE DEF after, n
<1> DEFINE T == {i \in 0 .. n : RowsInv(after[i], k, i)}
<1>4. ASSUME NEW i \in 0 .. n, \A j \in 0 .. n : j < i => j \in T
      PROVE  i \in T
  <2>1. after[i] = IF i = 0 THEN Pushed(s, k) ELSE ProcessRow(after[i - 1], k, i)
    BY <1>2 DEF IsAfter
  <2>2. CASE i = 0 BY <2>1, <2>2, PushedInv
  <2>3. CASE i > 0
    <3>1. i - 1 \in 0 .. n /\ i - 1 < i /\ i \in 1 .. Len(input[k]) BY <1>1, <2>3 DEF n
    <3>2. RowsInv(after[i - 1], k, i - 1) BY <1>4, <3>1
    <3>3. RowsInv(ProcessRow(after[i - 1], k, i), k, i) BY <3>1, <3>2, ProcessRowInv
    <3> QED BY <2>1, <2>3, <3>3
  <2> QED BY <1>1, <2>2, <2>3
<1>5. \A i \in 0 .. n : i \in T
  <2> HIDE DEF T
  <2> QED BY <1>1, <1>4, UpTo
<1>6. n \in 0 .. n BY <1>1
<1> QED BY <1>3, <1>5, <1>6 DEF n

-----------------------------------------------------------------------------
(***************************************************************************)
(* Sent: the buffers at the front are sent, up to one with an open row.    *)
(***************************************************************************)
LEMMA FirstIndex ==
  ASSUME NEW T \in SUBSET Nat, T # {}
  PROVE  \E m \in T : \A k \in T : m <= k
<1> DEFINE less == {ss \in Nat \X Nat : ss[1] < ss[2]}
<1>1. IsWellFoundedOn(less, Nat) BY NatLessThanWellFounded DEF OpToRel
<1>2. PICK m \in T : \A k \in T : ~ (<<k, m>> \in less)
  <2> HIDE DEF less
  <2> QED BY <1>1, WFMin
<1>3. \A k \in T : m <= k
  <2> SUFFICES ASSUME NEW k \in T, ~(m <= k) PROVE FALSE OBVIOUS
  <2>1. k \in Nat /\ m \in Nat OBVIOUS
  <2>2. k < m BY <2>1
  <2>3. <<k, m>> \in less BY <2>1, <2>2
  <2> QED BY <1>2, <2>3
<1> QED BY <1>3

\* A buffer is filled if and only if it has no open row.
LEMMA FilledIs ==
  ASSUME InputTypeOK, NEW s, NEW seen, NEW k, RowInv(s, seen, k), NEW l \in 1 .. k
  PROVE  s.filled[l] = Len(input[l]) <=> \A p \in Position : p[1] = l => ~IsOpen(s, p)
<1>1. Shaped(s, k) /\ FilledAreCounted(s, k) BY DEF RowInv, Consistent
<1>2. input \in Seq(Seq(BdaRow)) /\ k \in 0 .. Len(input) BY <1>1 DEF InputTypeOK, Shaped
<1>3. l \in Nat /\ l \in DOMAIN input /\ input[l] \in Seq(BdaRow) BY <1>2
<1>4. DOMAIN input[l] = 1 .. Len(input[l]) /\ Len(input[l]) \in Nat BY <1>3
<1>5. IsFiniteSet(DOMAIN input[l]) /\ Cardinality(DOMAIN input[l]) = Len(input[l])
  <2>1. 1 \in Int /\ Len(input[l]) \in Int BY <1>4
  <2>2. Cardinality(1 .. Len(input[l])) =
           IF 1 > Len(input[l]) THEN 0 ELSE Len(input[l]) - 1 + 1
    BY <2>1, FS_Interval
  <2> QED BY <1>4, <2>1, <2>2, FS_Interval
<1>6. s.filled[l] = Cardinality(FilledRows(s, l)) BY <1>1 DEF FilledAreCounted
<1>7. s.filled[l] = Len(input[l]) <=> FilledRows(s, l) = DOMAIN input[l]
  <2>1. FilledRows(s, l) \subseteq DOMAIN input[l] BY DEF FilledRows
  <2> QED BY <1>5, <1>6, <2>1, FS_Subset
<1>8. \A j \in DOMAIN input[l] : <<l, j>> \in Position BY <1>3, <1>4 DEF Position
<1>9. \A p \in Position : p[1] = l => p[2] \in DOMAIN input[l] /\ p = <<l, p[2]>>
  BY DEF Position
<1>10. FilledRows(s, l) = DOMAIN input[l] <=> \A p \in Position : p[1] = l => ~IsOpen(s, p)
  <2>1. FilledRows(s, l) = DOMAIN input[l] <=> \A j \in DOMAIN input[l] : ~IsOpen(s, <<l, j>>)
    BY DEF FilledRows
  <2>2. (\A j \in DOMAIN input[l] : ~IsOpen(s, <<l, j>>))
        <=> \A p \in Position : p[1] = l => ~IsOpen(s, p)
    BY <1>8, <1>9
  <2> QED BY <2>1, <2>2
<1> QED BY <1>7, <1>10

FrontIsOpen(s, k) ==
    s.front <= k => \E p \in Position : p[1] = s.front /\ IsOpen(s, p)

LEMMA SentInv ==
  ASSUME InputTypeOK, NEW s, NEW seen, NEW k, RowInv(s, seen, k)
  PROVE  /\ RowInv(Sent(s), seen, k) /\ FrontIsOpen(Sent(s), k)
         /\ Sent(s).failed = s.failed /\ Sent(s).finished = s.finished
<1> DEFINE waiting == {l \in s.front .. Len(s.filled) : s.filled[l] # Len(input[l])}
           first == CHOOSE l \in waiting : \A w \in waiting : l <= w
           front == IF waiting = {} THEN Len(s.filled) + 1 ELSE first
           r == Sent(s)
<1>1. /\ s \in GroupState /\ Len(s.filled) = k /\ k \in Nat /\ FrontIsFilled(s, k)
      /\ s.failed => Incomplete
  BY DEF RowInv, Consistent, Shaped, InputTypeOK
<1>2. s.front \in 1 .. k + 1 BY <1>1 DEF FrontIsFilled
<1>3. r = [s EXCEPT !.front = front] BY DEF Sent
<1>4. waiting \subseteq Nat /\ waiting \subseteq 1 .. k BY <1>1, <1>2
<1>5. waiting # {} => first \in waiting /\ \A w \in waiting : first <= w
  <2> SUFFICES ASSUME waiting # {} PROVE first \in waiting /\ \A w \in waiting : first <= w
    OBVIOUS
  <2> HIDE DEF waiting
  <2>1. \E l \in waiting : \A w \in waiting : l <= w BY <1>4, FirstIndex
  <2> QED BY <2>1
<1>6. \A l \in s.front .. k : l \notin waiting => s.filled[l] = Len(input[l]) BY <1>1
<1>7. \A l \in waiting : s.filled[l] # Len(input[l]) OBVIOUS
<1>8. waiting \subseteq s.front .. k BY <1>1
<1> HIDE DEF waiting, first
<1>9. front \in s.front .. k + 1 /\ front \in Nat
  <2>1. CASE waiting = {} BY <1>1, <1>2, <2>1
  <2>2. CASE waiting # {}
    <3>1. first \in s.front .. k /\ front = first BY <1>5, <1>8, <2>2
    <3> HIDE DEF front
    <3> QED BY <1>1, <1>2, <3>1
  <2> QED BY <2>1, <2>2
<1>10. \A l \in s.front .. k : l < front => l \notin waiting
  <2> TAKE l \in s.front .. k
  <2>1. l \in Nat BY <1>2
  <2>2. CASE waiting = {} BY <2>2
  <2>3. CASE waiting # {}
    <3>1. first \in Nat /\ \A w \in waiting : first <= w BY <1>4, <1>5, <2>3
    <3> QED BY <2>1, <2>3, <3>1
  <2> QED BY <2>2, <2>3
<1>11. front <= k => front \in waiting BY <1>1, <1>5
<1> HIDE DEF front, r
<1>12. /\ r \in GroupState /\ r.front = front
       /\ r.time = s.time /\ r.requested = s.requested /\ r.write_back = s.write_back
       /\ r.filled = s.filled /\ r.predicted = s.predicted
       /\ r.failed = s.failed /\ r.finished = s.finished
  BY <1>1, <1>3, <1>9 DEF GroupState
<1>13. \A q : IsOpen(r, q) <=> IsOpen(s, q) BY <1>12 DEF IsOpen
<1>14. FrontIsFilled(r, k)
  <2>1. r.front \in 1 .. k + 1 BY <1>1, <1>2, <1>9, <1>12
  <2>2. ASSUME NEW q \in Position, q[1] < front PROVE ~IsOpen(s, q)
    <3>1. q[1] \in Nat BY DEF Position
    <3>2. CASE q[1] < s.front BY <1>1, <3>2 DEF FrontIsFilled
    <3>3. CASE q[1] >= s.front
      <4>1. q[1] \in s.front .. k /\ q[1] \in 1 .. k BY <1>1, <1>2, <1>9, <2>2, <3>1, <3>3
      <4>2. s.filled[q[1]] = Len(input[q[1]]) BY <1>6, <1>10, <2>2, <4>1
      <4> QED BY <4>1, <4>2, FilledIs
    <3> QED BY <1>2, <3>1, <3>2, <3>3
  <2> QED BY <1>12, <1>13, <2>1, <2>2 DEF FrontIsFilled
<1>15. RowInv(r, seen, k) BY <1>1, <1>12, <1>14, SameRows
<1>16. FrontIsOpen(r, k)
  <2> SUFFICES ASSUME front <= k PROVE \E p \in Position : p[1] = front /\ IsOpen(s, p)
    BY <1>12, <1>13 DEF FrontIsOpen
  <2>1. front \in 1 .. k /\ s.filled[front] # Len(input[front]) BY <1>4, <1>7, <1>11
  <2> QED BY <2>1, FilledIs
<1> QED BY <1>12, <1>15, <1>16 DEF r

-----------------------------------------------------------------------------
(***************************************************************************)
(* The invariant of the step.                                              *)
(***************************************************************************)
GroupInv ==
    /\ InputTypeOK
    /\ fed \in 0 .. Len(input)
    /\ \E seen \in SUBSET Position :
          RowInv(groups, seen, fed) /\ (~groups.failed => seen = Seen(fed + 1, 0))
    /\ ~groups.failed => FrontIsOpen(groups, fed)
    /\ groups.finished => fed = Len(input) /\ groups.front = fed + 1 /\ ~groups.failed

LEMMA GroupInitInv == GroupInit => GroupInv
<1> SUFFICES ASSUME GroupInit PROVE GroupInv OBVIOUS
<1>1. InputTypeOK BY DEF GroupInit, InputTypeOK
<1>2. fed = 0 /\ groups = NoGroupAsked /\ Len(input) \in Nat
  BY <1>1 DEF GroupInit, InputTypeOK
<1> PICK s : s = NoGroupAsked OBVIOUS
<1>3. /\ s.time = [g \in Keys |-> 0] /\ s.requested = [g \in Keys |-> 0]
      /\ s.write_back = [b \in Baselines |-> <<0, 0>>]
      /\ s.filled = <<>> /\ s.front = 1 /\ s.predicted = <<>>
      /\ s.failed = FALSE /\ s.finished = FALSE
  BY DEF NoGroupAsked
<1>4. s \in GroupState
  <2>1. s.time \in [Keys -> Int] /\ s.requested \in [Keys -> Nat] BY <1>3
  <2>2. s.write_back \in [Baselines -> Nat \X Nat] BY <1>3
  <2>3. s.filled \in Seq(Nat) /\ s.predicted \in Seq(Seq(Prediction)) BY <1>3
  <2>4. s = [time |-> s.time, requested |-> s.requested, write_back |-> s.write_back,
             filled |-> s.filled, front |-> s.front, predicted |-> s.predicted,
             failed |-> s.failed, finished |-> s.finished]
    BY DEF NoGroupAsked
  <2>5. s.front \in Nat BY <1>3
  <2>6. s.failed \in BOOLEAN BY <1>3, Zenon
  <2>7. s.finished \in BOOLEAN BY <1>3, Zenon
  <2> QED BY <2>1, <2>2, <2>3, <2>4, <2>5, <2>6, <2>7, Zenon DEF GroupState
<1>5. Seen(1, 0) = {}
  <2>1. \A p \in Position : p[1] \in Nat /\ p[2] \in Nat /\ p[1] > 0 /\ p[2] > 0
    BY <1>1, RowAt DEF Position
  <2> QED BY <2>1 DEF Seen
<1>6. Shaped(s, 0) BY <1>2, <1>3, <1>4 DEF Shaped
<1>7. RequestedIsPending(s, {}) /\ GroupsWait(s)
  <2> SUFFICES ASSUME NEW g \in Keys
               PROVE  s.requested[g] = Cardinality(Pending(s, {}, g))
                      /\ s.requested[g] < Cardinality(g)
    BY DEF RequestedIsPending, GroupsWait
  <2>1. Pending(s, {}, g) = {} BY DEF Pending
  <2>2. Cardinality(g) \in Nat /\ Cardinality(g) # 0
    BY KeyIs, FS_CardinalityType, FS_EmptySet
  <2>3. s.requested[g] = 0 BY <1>3
  <2>4. Cardinality(Pending(s, {}, g)) = 0 BY <2>1, FS_EmptySet
  <2>5. 0 < Cardinality(g) BY <2>2
  <2> QED BY <2>3, <2>4, <2>5
<1>8. OpenOrRight(s, {}) /\ OpenIsWaited(s, {}) /\ RightTogether(s, {})
  BY DEF OpenOrRight, OpenIsWaited, RightTogether
<1>9. FilledAreCounted(s, 0) BY DEF FilledAreCounted
<1>10. \A p \in Position : p[1] \in Nat /\ p[1] > 0 BY <1>1, RowAt DEF Position
<1>11. UnseenIsOpen(s, {}, 0) BY <1>10 DEF UnseenIsOpen
<1>12. FrontIsFilled(s, 0) BY <1>3, <1>10 DEF FrontIsFilled
<1>13. RowInv(s, {}, 0)
  BY <1>3, <1>6, <1>7, <1>8, <1>9, <1>11, <1>12 DEF RowInv, Consistent
<1>14. FrontIsOpen(s, 0) BY <1>3 DEF FrontIsOpen
<1>15. {} \in SUBSET Position /\ 0 + 1 = 1 /\ 0 \in 0 .. Len(input) /\ s = groups BY <1>2
<1> QED BY <1>1, <1>2, <1>3, <1>5, <1>13, <1>14, <1>15 DEF GroupInv

(***************************************************************************)
(* The invariant only depends on the state of the step and on its input.   *)
(***************************************************************************)
SameInput == input' = input /\ factor' = factor /\ elements' = elements

LEMMA InputStays ==
  ASSUME SameInput
  PROVE  /\ InputTypeOK => InputTypeOK'
         /\ Position' = Position /\ Keys' = Keys /\ GroupState' = GroupState
         /\ Incomplete => Incomplete'
<1>1. /\ input' = input /\ factor' = factor /\ elements' = elements
  BY DEF SameInput
<1>2. \A b : Group(b)' = Group(b) BY <1>1 DEF Group
<1>3. InputTypeOK => InputTypeOK' BY <1>1 DEF InputTypeOK, InGroupOrder, Group
<1>4. Position' = Position BY <1>1 DEF Position
<1>5. Keys' = Keys BY <1>1 DEF Keys, Group
<1>6. GroupState' = GroupState BY <1>5 DEF GroupState
<1>7. Rows' = Rows BY <1>1 DEF Rows
<1>8. Incomplete => Incomplete' BY <1>1, <1>7 DEF Incomplete, Group
<1> QED BY <1>3, <1>4, <1>5, <1>6, <1>8

LEMMA RowInvStays ==
  ASSUME SameInput, NEW seen, NEW r, NEW k, RowInv(r, seen, k), groups' = r, fed' = k
  PROVE  RowInv(groups, seen, fed)'
<1>0. /\ Shaped(r, k) /\ OpenOrRight(r, seen) /\ OpenIsWaited(r, seen)
      /\ RequestedIsPending(r, seen) /\ FilledAreCounted(r, k) /\ UnseenIsOpen(r, seen, k)
      /\ RightTogether(r, seen) /\ FrontIsFilled(r, k) /\ GroupsWait(r)
      /\ r.failed => Incomplete
  BY DEF RowInv, Consistent
<1>1. /\ input' = input /\ factor' = factor /\ elements' = elements
      /\ Position' = Position /\ Keys' = Keys /\ GroupState' = GroupState
      /\ Incomplete => Incomplete'
  BY InputStays DEF SameInput
<1>2. Shaped(groups, fed)' BY <1>0, <1>1 DEF Shaped
<1>3. OpenOrRight(groups, seen)'
  BY <1>0, <1>1 DEF OpenOrRight, IsOpen, IsRight, At, Group
<1>4. OpenIsWaited(groups, seen)' BY <1>0, <1>1 DEF OpenIsWaited, IsOpen, At, Group
<1>5. RequestedIsPending(groups, seen)'
  <2>1. \A g : Pending(groups, seen, g)' = Pending(r, seen, g)
    BY <1>1 DEF Pending, IsOpen, At
  <2> QED BY <1>0, <1>1, <2>1 DEF RequestedIsPending
<1>6. FilledAreCounted(groups, fed)'
  <2>1. \A l : FilledRows(groups, l)' = FilledRows(r, l) BY <1>1 DEF FilledRows, IsOpen
  <2> QED BY <1>0, <1>1, <2>1 DEF FilledAreCounted
<1>7. UnseenIsOpen(groups, seen, fed)' BY <1>0, <1>1 DEF UnseenIsOpen, IsOpen
<1>8. RightTogether(groups, seen)' BY <1>0, <1>1 DEF RightTogether, IsOpen, At, Group
<1>9. FrontIsFilled(groups, fed)' BY <1>0, <1>1 DEF FrontIsFilled, IsOpen
<1>10. GroupsWait(groups)' BY <1>0, <1>1 DEF GroupsWait
<1>11. (groups.failed => Incomplete)' BY <1>0, <1>1
<1> QED
  BY <1>2, <1>3, <1>4, <1>5, <1>6, <1>7, <1>8, <1>9, <1>10, <1>11 DEF RowInv, Consistent

LEMMA ProcessGroupsInv == GroupInv /\ ProcessGroups => GroupInv'
<1> SUFFICES ASSUME GroupInv, ProcessGroups PROVE GroupInv' OBVIOUS
<1>1. /\ fed < Len(input) /\ ~groups.failed /\ fed' = fed + 1 /\ SameInput
  BY DEF ProcessGroups, SameInput
<1>2. /\ InputTypeOK /\ fed \in 0 .. Len(input) /\ Len(input) \in Nat
      /\ RowInv(groups, Seen(fed + 1, 0), fed) /\ ~groups.finished
  <2>1. InputTypeOK /\ fed \in 0 .. Len(input) BY DEF GroupInv
  <2>2. Len(input) \in Nat BY <2>1 DEF InputTypeOK
  <2> QED BY <1>1, <2>1, <2>2 DEF GroupInv
<1> PICK k : k = fed + 1 OBVIOUS
<1> PICK s : s = RowsProcessed(groups, k) OBVIOUS
<1>3. groups' = IF s.failed THEN s ELSE Sent(s) BY DEF ProcessGroups
<1>4. k \in 1 .. Len(input) /\ fed = k - 1 BY <1>1, <1>2
<1>5. RowsInv(s, k, Len(input[k])) BY <1>1, <1>2, <1>4, RowsProcessedInv
<1> PICK r : r = groups' OBVIOUS
<1>6. \E seen \in SUBSET Position :
         RowInv(r, seen, k) /\ (~r.failed => seen = Seen(k + 1, 0) /\ FrontIsOpen(r, k))
  <2>1. PICK j \in 0 .. Len(input[k]) :
           RowInv(s, Seen(k, j), k) /\ (~s.failed => j = Len(input[k]))
    BY <1>5 DEF RowsInv
  <2>2. Seen(k, j) \in SUBSET Position /\ Seen(k + 1, 0) \in SUBSET Position BY DEF Seen
  <2>3. CASE s.failed BY <1>3, <2>1, <2>2, <2>3
  <2>4. CASE ~s.failed
    <3>1. r = Sent(s) BY <1>3, <2>4
    <3>2. RowInv(s, Seen(k + 1, 0), k) BY <1>2, <1>4, <2>1, <2>4, SeenAll
    <3>3. RowInv(r, Seen(k + 1, 0), k) /\ FrontIsOpen(r, k) BY <1>2, <3>1, <3>2, SentInv
    <3> QED BY <2>2, <3>3
  <2> QED BY <2>3, <2>4
<1>7. ~r.finished
  <2>1. ~s.finished BY <1>5 DEF RowsInv
  <2>2. CASE s.failed BY <1>3, <2>1, <2>2
  <2>3. CASE ~s.failed
    <3>1. PICK j : RowInv(s, Seen(k, j), k) BY <1>5 DEF RowsInv
    <3>2. Sent(s).finished = s.finished BY <1>2, <3>1, SentInv
    <3> QED BY <1>3, <2>1, <2>3, <3>2
  <2> QED BY <2>2, <2>3
<1> PICK seen \in SUBSET Position :
        RowInv(r, seen, k) /\ (~r.failed => seen = Seen(k + 1, 0) /\ FrontIsOpen(r, k))
  BY <1>6
<1>8. RowInv(groups, seen, fed)' BY <1>1, RowInvStays
<1>9. InputTypeOK' /\ Position' = Position /\ input' = input
  BY <1>1, <1>2, InputStays DEF SameInput
<1>10. Seen(fed + 1, 0)' = Seen(k + 1, 0) BY <1>1, <1>9 DEF Seen
<1>11. (~groups.failed => FrontIsOpen(groups, fed))'
  BY <1>1, <1>9 DEF FrontIsOpen, IsOpen
<1>12. fed' \in 0 .. Len(input') BY <1>1, <1>4, <1>9
<1>13. ~groups'.finished BY <1>7
<1>14. \E x \in SUBSET Position' :
          RowInv(groups, x, fed)' /\ (~groups'.failed => x = Seen(fed + 1, 0)')
  BY <1>8, <1>9, <1>10
<1> QED BY <1>9, <1>11, <1>12, <1>13, <1>14 DEF GroupInv

LEMMA FinishGroupsInv == GroupInv /\ FinishGroups => GroupInv'
<1> SUFFICES ASSUME GroupInv, FinishGroups PROVE GroupInv' OBVIOUS
<1>1. /\ fed = Len(input) /\ ~groups.failed /\ ~groups.finished /\ fed' = fed /\ SameInput
  BY DEF FinishGroups, SameInput
<1>2. /\ InputTypeOK /\ fed \in 0 .. Len(input) /\ Len(input) \in Nat
      /\ RowInv(groups, Seen(fed + 1, 0), fed) /\ FrontIsOpen(groups, fed)
  <2>1. InputTypeOK /\ fed \in 0 .. Len(input) BY DEF GroupInv
  <2>2. Len(input) \in Nat BY <2>1 DEF InputTypeOK
  <2> QED BY <1>1, <2>1, <2>2 DEF GroupInv
<1> PICK r : r = groups' OBVIOUS
<1> PICK seen : seen = Seen(fed + 1, 0) OBVIOUS
<1>3. groups \in GroupState /\ FrontIsFilled(groups, fed)
  BY <1>2 DEF RowInv, Consistent, Shaped
<1>4. seen = Position
  <2>1. \A p \in Position : p[1] \in 1 .. Len(input) BY <1>2, RowAt
  <2>2. \A p \in Position : p[1] < fed + 1 BY <1>1, <1>2, <2>1
  <2> QED BY <2>2 DEF Seen
<1>5. CASE groups.front <= fed
  <2>1. r = [groups EXCEPT !.failed = TRUE] BY <1>5 DEF FinishGroups
  <2>2. /\ r \in GroupState /\ r.failed /\ r.finished = groups.finished
        /\ r.time = groups.time /\ r.requested = groups.requested
        /\ r.write_back = groups.write_back /\ r.filled = groups.filled
        /\ r.predicted = groups.predicted /\ r.front = groups.front
    BY <1>3, <2>1 DEF GroupState
  <2>3. PICK p \in Position : IsOpen(groups, p) BY <1>2, <1>5 DEF FrontIsOpen
  <2>4. Incomplete BY <1>2, <1>4, <2>3, StuckIsIncomplete
  <2>5. FrontIsFilled(r, fed) BY <1>2, <2>2, SameFront
  <2>6. RowInv(r, seen, fed) BY <1>2, <2>2, <2>4, <2>5, SameRows
  <2>7. RowInv(groups, seen, fed)' BY <1>1, <2>6, RowInvStays
  <2>8. InputTypeOK' /\ Position' = Position /\ input' = input
    BY <1>1, <1>2, InputStays DEF SameInput
  <2>9. \E x \in SUBSET Position' :
           RowInv(groups, x, fed)' /\ (~groups'.failed => x = Seen(fed + 1, 0)')
    BY <1>4, <2>2, <2>7, <2>8
  <2>10. fed' \in 0 .. Len(input') BY <1>1, <1>2, <2>8
  <2>11. groups'.failed /\ ~groups'.finished BY <1>1, <2>2
  <2> QED BY <2>8, <2>9, <2>10, <2>11 DEF GroupInv
<1>6. CASE ~(groups.front <= fed)
  <2>1. r = [groups EXCEPT !.finished = TRUE] BY <1>6 DEF FinishGroups
  <2>2. /\ r \in GroupState /\ ~r.failed
        /\ r.time = groups.time /\ r.requested = groups.requested
        /\ r.write_back = groups.write_back /\ r.filled = groups.filled
        /\ r.predicted = groups.predicted /\ r.front = groups.front
    BY <1>1, <1>3, <2>1 DEF GroupState
  <2>3. r.front = fed + 1 BY <1>1, <1>2, <1>3, <1>6, <2>2 DEF FrontIsFilled
  <2>5. FrontIsFilled(r, fed) BY <1>2, <2>2, SameFront
  <2>6. RowInv(r, seen, fed) BY <1>2, <2>2, <2>5, SameRows
  <2>7. RowInv(groups, seen, fed)' BY <1>1, <2>6, RowInvStays
  <2>8. InputTypeOK' /\ Position' = Position /\ input' = input
    BY <1>1, <1>2, InputStays DEF SameInput
  <2>9. Seen(fed + 1, 0)' = seen BY <1>1, <2>8 DEF Seen
  <2>10. \E x \in SUBSET Position' :
           RowInv(groups, x, fed)' /\ (~groups'.failed => x = Seen(fed + 1, 0)')
    BY <1>4, <2>7, <2>8, <2>9
  <2>11. fed' \in 0 .. Len(input') BY <1>1, <1>2, <2>8
  <2>12. FrontIsOpen(groups, fed)' BY <1>1, <1>2, <2>3 DEF FrontIsOpen
  <2>13. ~groups'.failed /\ fed' = Len(input') /\ groups'.front = fed' + 1
    BY <1>1, <2>2, <2>3, <2>8
  <2> QED BY <2>8, <2>10, <2>11, <2>12, <2>13 DEF GroupInv
<1> QED BY <1>5, <1>6

LEMMA GroupStutterInv == GroupInv /\ UNCHANGED groupVars => GroupInv'
<1> SUFFICES ASSUME GroupInv, UNCHANGED groupVars PROVE GroupInv' OBVIOUS
<1>1. SameInput /\ fed' = fed /\ groups' = groups BY DEF groupVars, SameInput
<1> PICK seen \in SUBSET Position :
        RowInv(groups, seen, fed) /\ (~groups.failed => seen = Seen(fed + 1, 0))
  BY DEF GroupInv
<1>2. RowInv(groups, seen, fed)' BY <1>1, RowInvStays
<1>3. InputTypeOK' /\ Position' = Position /\ input' = input
  BY <1>1, InputStays DEF SameInput, GroupInv
<1>4. Seen(fed + 1, 0)' = Seen(fed + 1, 0) BY <1>1, <1>3 DEF Seen
<1>5. \E x \in SUBSET Position' :
         RowInv(groups, x, fed)' /\ (~groups'.failed => x = Seen(fed + 1, 0)')
  BY <1>1, <1>2, <1>3, <1>4
<1>6. (~groups.failed => FrontIsOpen(groups, fed))'
  BY <1>1, <1>3 DEF FrontIsOpen, IsOpen, GroupInv
<1> QED BY <1>1, <1>3, <1>5, <1>6 DEF GroupInv

(***************************************************************************)
(* What the step keeps of the rows that it is given, at any moment.        *)
(***************************************************************************)
THEOREM GroupInvariant == GroupSpec => []GroupInv
<1>1. GroupInv /\ [GroupNext]_groupVars => GroupInv'
  BY ProcessGroupsInv, FinishGroupsInv, GroupStutterInv DEF GroupNext
<1> QED BY <1>1, GroupInitInv, PTL DEF GroupSpec

(***************************************************************************)
(* Whatever the buffers in which the rows come, every row that is sent on  *)
(* was predicted for its time with all baselines of its group, and the     *)
(* step fails if and only if a time of a group misses a row.               *)
(***************************************************************************)
THEOREM GroupsArePredictedTogether == GroupSpec => []RowsArePredictedTogether
<1>1. GroupInv => RowsArePredictedTogether
  <2> SUFFICES ASSUME GroupInv PROVE RowsArePredictedTogether OBVIOUS
  <2> PICK seen \in SUBSET Position :
          RowInv(groups, seen, fed) /\ (~groups.failed => seen = Seen(fed + 1, 0))
    BY DEF GroupInv
  <2>0. InputTypeOK /\ fed \in 0 .. Len(input) /\ Len(input) \in Nat
    BY DEF GroupInv, InputTypeOK
  <2>1. /\ OpenOrRight(groups, seen) /\ UnseenIsOpen(groups, seen, fed)
        /\ RightTogether(groups, seen) /\ FrontIsFilled(groups, fed)
        /\ groups.failed => Incomplete
    BY DEF RowInv, Consistent
  <2>2. ASSUME NEW p \in Position, p[1] < groups.front
        PROVE  p \in seen /\ ~IsOpen(groups, p) /\ IsRight(groups, p)
    <3>1. ~IsOpen(groups, p) BY <2>1, <2>2 DEF FrontIsFilled
    <3>2. p[1] <= fed
      <4>1. groups.front \in 1 .. fed + 1 /\ p[1] \in Nat BY <2>1 DEF FrontIsFilled, Position
      <4> QED BY <2>0, <2>2, <4>1
    <3>3. p \in seen BY <2>1, <3>1, <3>2 DEF UnseenIsOpen
    <3> QED BY <2>1, <3>1, <3>3 DEF OpenOrRight
  <2>3. ASSUME NEW k \in 1 .. groups.front - 1, NEW i \in DOMAIN input[k]
        PROVE  groups.predicted[k][i] =
                  [time |-> Middle(input[k][i]), bls |-> Group(input[k][i].bl)]
    <3>1. groups.front \in 1 .. fed + 1 BY <2>1 DEF FrontIsFilled
    <3>2. k \in Nat /\ k < groups.front /\ k \in 1 .. Len(input) BY <2>0, <3>1
    <3>3. input \in Seq(Seq(BdaRow)) BY <2>0 DEF InputTypeOK
    <3>4. k \in DOMAIN input /\ input[k] \in Seq(BdaRow) BY <3>2, <3>3
    <3>5. i \in Nat BY <3>4
    <3>6. <<k, i>> \in Position BY <3>2, <3>4, <3>5 DEF Position
    <3>7. IsRight(groups, <<k, i>>) BY <2>2, <3>2, <3>6
    <3> QED BY <3>7 DEF IsRight, At
  <2>4. ASSUME groups.finished
        PROVE  groups.front = Len(input) + 1 /\ ~Incomplete
    <3>1. groups.front = Len(input) + 1 BY <2>4 DEF GroupInv
    <3>2. ASSUME NEW r \in Rows, NEW b \in Group(r.bl)
          PROVE  \E other \in Rows : other.bl = b /\ Middle(other) = Middle(r)
      <4>1. PICK p \in Position : At(p) = r BY <2>0, RowHasPosition
      <4>2. p[1] < groups.front
        <5>1. p[1] \in 1 .. Len(input) BY <2>0, RowAt
        <5> QED BY <2>0, <3>1, <5>1
      <4>3. p \in seen /\ ~IsOpen(groups, p) BY <2>2, <4>2
      <4>4. PICK q \in seen : At(q).bl = b /\ Middle(At(q)) = Middle(At(p))
        BY <2>1, <4>1, <4>3 DEF RightTogether
      <4>5. At(q) \in Rows BY <2>0, RowAt
      <4> QED BY <4>1, <4>4, <4>5
    <3> QED BY <3>1, <3>2 DEF Incomplete
  <2> QED BY <2>1, <2>3, <2>4 DEF RowsArePredictedTogether
<1> QED BY <1>1, GroupInvariant, PTL
-----------------------------------------------------------------------------
(***************************************************************************)
(* The averager as a step of its own, which is given desired sizes at any  *)
(* moment.  A default size holds the largest row by updateInfo; a desired  *)
(* one does if SizesSuffice.  A row that does not fit gets a new buffer,   *)
(* of which the free elements are its size, so AddRow does not refuse it.  *)
(***************************************************************************)
CONSTANT DesiredSizes
Alone == INSTANCE BdaAverager WITH Sizes <- DesiredSizes

HasFree(buf) ==
    /\ {"free", "rows"} \subseteq DOMAIN buf
    /\ buf.free \in Int

RoomInv ==
    /\ elements \in [Baselines -> 1 .. MaxElements]
    /\ pool_size \in Int /\ \A b \in Baselines : elements[b] <= pool_size
    /\ fixed_sizes \in Seq(DesiredSizes)
    /\ bda_buffer = None \/ HasFree(bda_buffer)
    /\ pc \in {"process", "finish"} => HasFree(bda_buffer)
    /\ Alone!NoRowIsDropped

LEMMA NewBufferHasRoom ==
  ASSUME RoomInv, DesiredSizes \subseteq Nat
  PROVE  /\ HasFree(Alone!NewBuffer)
         /\ Alone!NextSizes \in Seq(DesiredSizes)
         /\ Alone!SizesSuffice =>
              \A b \in Baselines : elements[b] <= Alone!NewBuffer.free
<1> DEFINE cap == IF fixed_sizes = <<>> THEN pool_size ELSE Head(fixed_sizes)
<1>1. /\ fixed_sizes \in Seq(DesiredSizes) /\ pool_size \in Int
      /\ \A b \in Baselines : elements[b] <= pool_size
  BY DEF RoomInv
<1>2. fixed_sizes # <<>> =>
        Head(fixed_sizes) \in DesiredSizes /\ Tail(fixed_sizes) \in Seq(DesiredSizes)
  BY <1>1
<1>3. cap \in Int
  <2>1. \A n \in DesiredSizes : n \in Int OBVIOUS
  <2>2. CASE fixed_sizes = <<>> BY <1>1, <2>2
  <2>3. CASE fixed_sizes # <<>> BY <1>2, <2>1, <2>3
  <2> QED BY <2>2, <2>3
<1>4. Alone!SizesSuffice => \A b \in Baselines : elements[b] <= cap
  BY <1>1, <1>2 DEF Alone!SizesSuffice, Alone!Baselines, Baselines
<1>5. Alone!NewBuffer = [cap |-> cap, free |-> cap, rows |-> <<>>]
  BY DEF Alone!NewBuffer
<1>6. Alone!NextSizes \in Seq(DesiredSizes)
  <2>1. <<>> \in Seq(DesiredSizes) OBVIOUS
  <2> QED BY <1>2, <2>1 DEF Alone!NextSizes
<1> HIDE DEF cap
<1> QED BY <1>3, <1>4, <1>5, <1>6 DEF HasFree

LEMMA AddBaselineHasRoom ==
  ASSUME RoomInv, DesiredSizes \subseteq Nat, HasFree(bda_buffer),
         NEW r, r.bl \in Baselines, Alone!AddBaseline(r)
  PROVE  /\ fixed_sizes' \in Seq(DesiredSizes)
         /\ HasFree(bda_buffer')
         /\ Alone!SizesSuffice => dropped' = {}
<1> DEFINE renew == Alone!DoesNotFit(r)
           buf == IF renew THEN Alone!NewBuffer ELSE bda_buffer
           fits == elements[r.bl] <= buf.free
<1>1. /\ fixed_sizes' = IF renew THEN Alone!NextSizes ELSE fixed_sizes
      /\ bda_buffer' = IF fits THEN Alone!WithRow(buf, r) ELSE buf
      /\ dropped' = IF fits THEN dropped ELSE dropped \cup {r}
  BY DEF Alone!AddBaseline
<1>2. elements[r.bl] \in Int
  BY PredictAssumption, SizeAssumption DEF RoomInv
<1>3. HasFree(buf) BY NewBufferHasRoom
<1>4. fixed_sizes' \in Seq(DesiredSizes) BY <1>1, NewBufferHasRoom DEF RoomInv
<1>5. Alone!SizesSuffice => fits
  <2>1. CASE renew BY <2>1, NewBufferHasRoom
  <2>2. CASE ~renew
    <3>1. ~(bda_buffer.free < elements[r.bl]) BY <2>2 DEF Alone!DoesNotFit
    <3>2. bda_buffer.free \in Int BY DEF HasFree
    <3> QED BY <1>2, <2>2, <3>1, <3>2
  <2> QED BY <2>1, <2>2
<1>6. HasFree(Alone!WithRow(buf, r))
  <2> HIDE DEF buf
  <2>1. buf.free - elements[r.bl] \in Int BY <1>2, <1>3 DEF HasFree
  <2>2. /\ DOMAIN Alone!WithRow(buf, r) = DOMAIN buf
        /\ Alone!WithRow(buf, r).free = buf.free - elements[r.bl]
    BY <1>3 DEF HasFree, Alone!WithRow
  <2> QED BY <1>3, <2>1, <2>2 DEF HasFree
<1> HIDE DEF buf, fits
<1>7. HasFree(bda_buffer') BY <1>1, <1>3, <1>6
<1>8. Alone!SizesSuffice => dropped' = {}
  BY <1>1, <1>5 DEF RoomInv, Alone!NoRowIsDropped
<1> QED BY <1>4, <1>7, <1>8

LEMMA RoomInitInv == Alone!Init => RoomInv
<1> SUFFICES ASSUME Alone!Init PROVE RoomInv OBVIOUS
<1>1. /\ factor \in [Baselines -> 1 .. MaxFactor]
      /\ elements \in [Baselines -> 1 .. MaxElements]
      /\ fixed_sizes = <<>> /\ bda_buffer = None /\ pc = "idle" /\ dropped = {}
      /\ pool_size = Alone!PoolSize(factor, elements)
  BY DEF Alone!Init, Alone!Baselines, Baselines
<1>2. pool_size = Averager!PoolSize(factor, elements)
  BY <1>1 DEF Alone!PoolSize, Averager!PoolSize, Alone!ProductOf, Averager!ProductOf,
     Alone!SumTo, Averager!SumTo, Alone!Largest, Averager!Largest,
     Alone!Baselines, Averager!Baselines
<1>3. pool_size \in Int /\ \A b \in Baselines : elements[b] <= pool_size
  BY <1>1, <1>2, PoolSizeIs
<1>4. fixed_sizes \in Seq(DesiredSizes) BY <1>1
<1> QED BY <1>1, <1>3, <1>4 DEF RoomInv, Alone!NoRowIsDropped

LEMMA RoomNextInv ==
  ASSUME DesiredSizes \subseteq Nat, RoomInv, [Alone!Next]_(Alone!avgVars)
  PROVE  RoomInv'
<1> USE DEF Alone!avgConfig
<1>1. elements' = elements /\ pool_size' = pool_size
  BY DEF Alone!Next, Alone!SetNextDesiredBufferSize, Alone!Process, Alone!AddTime,
     Alone!EndProcess, Alone!Finish, Alone!FlushBaseline, Alone!EndFinish, Alone!avgVars
<1>2. Alone!SizesSuffice' <=> Alone!SizesSuffice BY <1>1 DEF Alone!SizesSuffice
<1>3. SUFFICES /\ fixed_sizes' \in Seq(DesiredSizes)
               /\ bda_buffer' = None \/ HasFree(bda_buffer')
               /\ pc' \in {"process", "finish"} => HasFree(bda_buffer')
               /\ Alone!SizesSuffice => dropped' = {}
  BY <1>1, <1>2 DEF RoomInv, Alone!NoRowIsDropped
<1>4. /\ fixed_sizes \in Seq(DesiredSizes)
      /\ bda_buffer = None \/ HasFree(bda_buffer)
      /\ pc \in {"process", "finish"} => HasFree(bda_buffer)
      /\ Alone!SizesSuffice => dropped = {}
  BY DEF RoomInv, Alone!NoRowIsDropped
<1>5. /\ HasFree(Alone!NewBuffer)
      /\ Alone!NextSizes \in Seq(DesiredSizes)
  BY NewBufferHasRoom
<1>6. ASSUME NEW n \in DesiredSizes, Alone!SetNextDesiredBufferSize(n)
      PROVE  fixed_sizes' \in Seq(DesiredSizes) /\ UNCHANGED <<bda_buffer, pc, dropped>>
  BY <1>4, <1>6 DEF Alone!SetNextDesiredBufferSize
<1>7. CASE Alone!Process BY <1>4, <1>5, <1>7 DEF Alone!Process
<1>8. CASE Alone!AddTime
  <2> DEFINE n == baseline_buffers[bl].times_added + 1
             r == [bl |-> bl, start |-> Alone!Started(bl), len |-> n]
  <2>1. /\ pc = "process" /\ pc' = pc /\ bl \in Baselines
        /\ IF n = factor[bl] THEN Alone!AddBaseline(r)
           ELSE UNCHANGED <<fixed_sizes, bda_buffer, dropped>>
    BY <1>8 DEF Alone!AddTime, Alone!Baselines, Baselines
  <2>2. r.bl \in Baselines BY <2>1
  <2> HIDE DEF n, r
  <2> QED BY <1>4, <2>1, <2>2, AddBaselineHasRoom
<1>9. CASE Alone!EndProcess BY <1>4, <1>5, <1>9 DEF Alone!EndProcess
<1>10. CASE Alone!Finish BY <1>4, <1>10 DEF Alone!Finish
<1>11. CASE Alone!FlushBaseline
  <2> DEFINE r == Alone!RowOf(bl, baseline_buffers[bl].times_added)
  <2>1. /\ pc = "finish" /\ pc' = pc /\ bl \in Baselines
        /\ Alone!AddBaseline(r) \/ UNCHANGED <<fixed_sizes, bda_buffer, dropped>>
    BY <1>11 DEF Alone!FlushBaseline, Alone!Baselines, Baselines
  <2>2. r.bl \in Baselines BY <2>1 DEF Alone!RowOf
  <2> HIDE DEF r
  <2> QED BY <1>4, <2>1, <2>2, AddBaselineHasRoom
<1>12. CASE Alone!EndFinish BY <1>4, <1>12 DEF Alone!EndFinish
<1>13. CASE UNCHANGED Alone!avgVars BY <1>4, <1>13 DEF Alone!avgVars
<1> QED
  BY <1>4, <1>6, <1>7, <1>8, <1>9, <1>10, <1>11, <1>12, <1>13 DEF Alone!Next

(***************************************************************************)
(* AddBaseline ignores what AddRow returns: whatever the factors and the   *)
(* row sizes, and whenever desired sizes are announced, no row is lost as  *)
(* long as every desired size holds the largest row.                       *)
(***************************************************************************)
THEOREM RowsAlwaysFit ==
  ASSUME DesiredSizes \subseteq Nat
  PROVE  Alone!Spec => []Alone!NoRowIsDropped
<1>1. RoomInv /\ [Alone!Next]_(Alone!avgVars) => RoomInv' BY RoomNextInv
<1>2. RoomInv => Alone!NoRowIsDropped BY DEF RoomInv
<1> QED BY <1>1, <1>2, RoomInitInv, PTL DEF Alone!Spec
=============================================================================
