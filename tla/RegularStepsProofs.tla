------------------------- MODULE RegularStepsProofs -------------------------
(***************************************************************************)
(* What the steps of RegularSteps guarantee for every number of slots and  *)
(* all settings that their constants allow, each step in a section of its  *)
(* own, and in the end together. DDECal and GainCal have a module of their *)
(* own; lemmas on sequences and quotients are stated there.                *)
(***************************************************************************)
EXTENDS RegularSteps, CalibrationProofs

-----------------------------------------------------------------------------
(***************************************************************************)
(* MedFlagger: each slot is judged by its own window.                      *)
(***************************************************************************)
(***************************************************************************)
(* Remainders: slots that are less than a window apart have different      *)
(* places in a buffer that wraps around.                                   *)
(***************************************************************************)
Place(s, w) == s % w

LEMMA PlaceType ==
  ASSUME NEW w \in Nat \ {0}, NEW x \in Int
  PROVE  Place(x, w) \in 0 .. w - 1
  BY DEF Place

LEMMA Places ==
  ASSUME NEW w \in Nat \ {0}, NEW x \in Nat, NEW y \in Nat,
         x < y, y < x + w
  PROVE  Place(x, w) # Place(y, w)
<1> SUFFICES ASSUME x % w = y % w PROVE FALSE BY DEF Place
<1> DEFINE p == x \div w
           q == y \div w
<1>1. x = w * p + (x % w) /\ y = w * q + (y % w) /\ p \in Int /\ q \in Int
  OBVIOUS
<1> HIDE DEF p, q
<1>2. y - x = w * (q - p)
  BY <1>1
<1>3. q - p > 0 \/ q - p <= 0 BY <1>1
<1>4. CASE q - p <= 0
  <2>1. w * (q - p) <= 0 BY <1>1, <1>4
  <2> QED BY <1>2, <2>1
<1>5. CASE q - p > 0
  <2>1. w * (q - p) >= w BY <1>1, <1>5
  <2> QED BY <1>2, <2>1
<1> QED BY <1>3, <1>4, <1>5

(***************************************************************************)
(* What the vector that wraps around holds after n slots, of which those   *)
(* before d are flagged.                                                   *)
(***************************************************************************)
MedBuffer == [slot : Int, flagged : BOOLEAN]

Holds(buf, w, n, d) ==
    /\ buf \in [0 .. w - 1 -> MedBuffer]
    /\ \A s \in 0 .. n - 1 : s >= n - w => buf[Place(s, w)] = [slot |-> s, flagged |-> s < d]

LEMMA StoreHolds ==
  ASSUME NEW w \in Nat \ {0}, NEW n \in Nat, NEW d \in Nat, d <= n,
         NEW buf, Holds(buf, w, n, d)
  PROVE  Holds([buf EXCEPT ![Place(n, w)] = [slot |-> n, flagged |-> FALSE]], w, n + 1, d)
<1> DEFINE b == [slot |-> n, flagged |-> FALSE]
           p == Place(n, w)
           new == [buf EXCEPT ![p] = b]
<1>1. p \in 0 .. w - 1 BY PlaceType
<1>2. b \in MedBuffer BY DEF MedBuffer
<1>a. buf \in [0 .. w - 1 -> MedBuffer] BY DEF Holds
<1> HIDE DEF b, p
<1>3. new \in [0 .. w - 1 -> MedBuffer] BY <1>2, <1>a
<1>4. new[p] = b BY <1>1, <1>a
<1>b. \A k \in 0 .. w - 1 : k # p => new[k] = buf[k] BY <1>a
<1> HIDE DEF new
<1>5. ASSUME NEW s \in Nat, s <= n, s >= (n + 1) - w
      PROVE  new[Place(s, w)] = [slot |-> s, flagged |-> s < d]
  <2>1. CASE s = n
    <3>1. (n < d) = FALSE OBVIOUS
    <3> QED BY <3>1, <2>1, <1>4 DEF p, b
  <2>2. CASE s # n
    <3>1. s \in 0 .. n - 1 /\ s >= n - w /\ s < n /\ n < s + w BY <1>5, <2>2
    <3>2. Place(s, w) # p BY <3>1, Places DEF p
    <3>3. Place(s, w) \in 0 .. w - 1 BY PlaceType
    <3>4. new[Place(s, w)] = buf[Place(s, w)] BY <3>2, <3>3, <1>b
    <3> QED BY <3>1, <3>4 DEF Holds
  <2> QED BY <2>1, <2>2
<1>6. Holds(new, w, n + 1, d)
  <2>1. \A s \in 0 .. (n + 1) - 1 : s \in Nat /\ s <= n OBVIOUS
  <2> QED BY <2>1, <1>3, <1>5 DEF Holds
<1> QED BY <1>6 DEF new, p, b

LEMMA FlaggedRecord ==
  \A r, x, y, z : r = [slot |-> x, flagged |-> y] =>
      [r EXCEPT !.flagged = z] = [slot |-> x, flagged |-> z]
  OBVIOUS

LEMMA LastOfAppended ==
  ASSUME NEW S, NEW s \in Seq(S), NEW e \in S
  PROVE  /\ s \o <<e>> \in Seq(S)
         /\ Len(s \o <<e>>) = Len(s) + 1
         /\ (s \o <<e>>)[Len(s) + 1] = e
         /\ \A i \in 1 .. Len(s) : (s \o <<e>>)[i] = s[i]
  OBVIOUS

LEMMA FlagHolds ==
  ASSUME NEW w \in Nat \ {0}, NEW n \in Nat, NEW d \in Nat, d < n, d >= n - w,
         NEW buf, Holds(buf, w, n, d)
  PROVE  /\ buf[Place(d, w)].slot = d
         /\ Holds([buf EXCEPT ![Place(d, w)].flagged = TRUE], w, n, d + 1)
<1> DEFINE p == Place(d, w)
           b == [slot |-> d, flagged |-> TRUE]
           new == [buf EXCEPT ![p] = b]
<1>1. p \in 0 .. w - 1 BY PlaceType
<1>2. buf[p] = [slot |-> d, flagged |-> FALSE]
  <2>1. d \in 0 .. n - 1 OBVIOUS
  <2>2. buf[p] = [slot |-> d, flagged |-> d < d] BY <2>1 DEF Holds
  <2>3. (d < d) = FALSE OBVIOUS
  <2> QED BY <2>2, <2>3
<1>a. buf \in [0 .. w - 1 -> MedBuffer] BY DEF Holds
<1> HIDE DEF p
<1>c. [buf[p] EXCEPT !.flagged = TRUE] = b
  <2>1. PICK r : r = buf[p] OBVIOUS
  <2>2. PICK yes : yes = TRUE OBVIOUS
  <2>3. r = [slot |-> d, flagged |-> FALSE] BY <1>2, <2>1
  <2> HIDE <2>1, <2>2
  <2>4. [r EXCEPT !.flagged = yes] = [slot |-> d, flagged |-> yes] BY <2>3, FlaggedRecord
  <2> QED BY <2>1, <2>2, <2>4, Zenon
<1>d. [buf EXCEPT ![p].flagged = TRUE] = new BY <1>c, Zenon
<1>e. b \in MedBuffer BY DEF MedBuffer
<1> HIDE DEF b
<1>3. new[p] = b BY <1>1, <1>a
<1>5. new \in [0 .. w - 1 -> MedBuffer] BY <1>e, <1>a
<1>b. \A k \in 0 .. w - 1 : k # p => new[k] = buf[k] BY <1>a
<1> HIDE DEF new
<1>6. ASSUME NEW s \in Nat, s < n, s >= n - w
      PROVE  new[Place(s, w)] = [slot |-> s, flagged |-> s < d + 1]
  <2>1. CASE s = d
    <3>1. (d < d + 1) = TRUE OBVIOUS
    <3> QED BY <3>1, <2>1, <1>3 DEF b, p
  <2>2. CASE s # d
    <3>1. Place(s, w) # p
      <4>1. CASE s < d BY <4>1, <1>6, Places DEF p
      <4>2. CASE s > d BY <4>2, <1>6, Places DEF p
      <4> QED BY <2>2, <4>1, <4>2
    <3>3. Place(s, w) \in 0 .. w - 1 BY PlaceType
    <3>4. new[Place(s, w)] = buf[Place(s, w)] BY <3>1, <3>3, <1>b
    <3>5. (s < d + 1) = (s < d) BY <2>2
    <3> QED BY <3>4, <3>5, <1>6 DEF Holds
  <2> QED BY <2>1, <2>2
<1>7. Holds(new, w, n, d + 1)
  <2>1. \A s \in 0 .. n - 1 : s \in Nat /\ s < n OBVIOUS
  <2> QED BY <2>1, <1>5, <1>6 DEF Holds
<1>8. buf[p].slot = d BY <1>2
<1> QED BY <1>8, <1>7, <1>d, Zenon DEF p

(***************************************************************************)
(* The inductive invariant.                                                *)
(***************************************************************************)
MedSlot == [slot : Int, median : [1 .. config.window -> MedBuffer]]

\* The members as a record, and the announced window.
MedShape ==
    /\ step = [window |-> step.window, buf |-> step.buf, done |-> step.done,
               finishing |-> step.finishing]
    /\ config.window \in Nat
    /\ fed \in Nat
    /\ step.finishing \in BOOLEAN
    /\ finished \in BOOLEAN
    /\ finished => step.finishing

\* finish() got fewer slots than the window has.
IsShort == step.finishing /\ fed < config.window

\* What slot number s reflects to when n slots were given.
ReflectedIn(s, n) == IF s < 0 THEN -s ELSE IF s >= n THEN 2 * (n - 1) - s ELSE s

\* What is promised of slot number d when n slots were given.
JudgedSlots(d, n) ==
    [slot |-> d,
     median |-> [j \in 1 .. config.window |->
         LET s == ReflectedIn(IF j % 2 = 0 THEN d - j \div 2 ELSE d + j \div 2, n)
         IN  [slot |-> s, flagged |-> s < d]]]

MedMain ==
    /\ config.window \in Nat /\ config.window % 2 = 1
    /\ step.window = config.window
    /\ fed \in Nat
    /\ step.done \in Nat
    /\ step.done <= fed
    /\ fed - step.done <= Half
    /\ ~step.finishing => step.done = IF fed > Half THEN fed - Half ELSE 0
    /\ step.finishing => fed >= config.window
    /\ finished => step.done = fed
    /\ Holds(step.buf, config.window, fed, step.done)
    /\ sent \in Seq(MedSlot)
    /\ Len(sent) = step.done
    /\ \A i \in 1 .. step.done : sent[i] = JudgedSlots(i - 1, fed)

MedInv == MedShape /\ (~IsShort => MedMain)

LEMMA WindowIsOdd ==
  ASSUME NEW v \in Nat \ {0}, NEW n \in Nat \ {0}
  PROVE  Window(v, n) \in Nat /\ Window(v, n) % 2 = 1
  BY DEF Window

LEMMA PromisedIsJudged ==
  ASSUME fed \in Nat
  PROVE  Promised = [i \in 1 .. fed |-> JudgedSlots(i - 1, fed)]
  BY DEF Promised, JudgedSlots, Reflected, ReflectedIn

\* A slot whose window was given is not judged otherwise when more slots come.
LEMMA JudgedStays ==
  ASSUME NEW d \in Nat, NEW n \in Nat, NEW m \in Nat, n <= m,
         config.window \in Nat, config.window % 2 = 1,
         d + config.window \div 2 < n
  PROVE  JudgedSlots(d, n) = JudgedSlots(d, m)
<1>1. ASSUME NEW j \in 1 .. config.window
      PROVE  ReflectedIn(IF j % 2 = 0 THEN d - j \div 2 ELSE d + j \div 2, n)
               = ReflectedIn(IF j % 2 = 0 THEN d - j \div 2 ELSE d + j \div 2, m)
  BY DEF ReflectedIn
<1> QED BY <1>1, Zenon DEF JudgedSlots

(***************************************************************************)
(* The entries that are read are those of the window, at their place.      *)
(***************************************************************************)
LEMMA MedianIsJudged ==
  ASSUME config.window \in Nat, config.window % 2 = 1, step.window = config.window,
         NEW d \in Nat, NEW n \in Nat, d < n, n - d - 1 <= Half,
         NEW buf, Holds(buf, config.window, n, d),
         NEW right \in [1 .. Half -> Int],
         \A i \in 1 .. Half : right[i] = IF d + i >= n THEN 2 * (n - 1) - (d + i) ELSE d + i,
         n >= config.window \/ d + Half < n
  PROVE  /\ Median(buf, Entries(d, right)) = JudgedSlots(d, n).median
         /\ JudgedSlots(d, n) \in MedSlot
<1> DEFINE w == config.window
           e == Entries(d, right)
           s(j) == ReflectedIn(IF j % 2 = 0 THEN d - j \div 2 ELSE d + j \div 2, n)
<1>1. w = 2 * Half + 1 /\ Half \in Nat BY DEF Half
<1>2. e = [j \in 1 .. 2 * Half + 1 |->
              IF j = 1 THEN d ELSE IF j % 2 = 0 THEN LeftEntry(d, j \div 2) ELSE right[j \div 2]]
  BY DEF Entries
<1>3. Len(e) = w
  <2> HIDE DEF e
  <2>1. 2 * Half + 1 \in Nat BY <1>1
  <2> QED BY <1>1, <1>2, <2>1
<1>4. ASSUME NEW j \in 1 .. w
      PROVE  e[j] = s(j) /\ s(j) \in 0 .. n - 1 /\ s(j) >= n - w
  <2>1. j \in 1 .. 2 * Half + 1 BY <1>1
  <2>2. e[j] = IF j = 1 THEN d ELSE IF j % 2 = 0 THEN LeftEntry(d, j \div 2) ELSE right[j \div 2]
    <3> HIDE DEF e
    <3> QED BY <1>2, <2>1
  <2>3. j \div 2 \in 0 .. Half BY <1>1
  <2>4. CASE j = 1
    <3>1. 1 % 2 = 1 /\ 1 \div 2 = 0 OBVIOUS
    <3>2. s(j) = d BY <2>4, <3>1 DEF ReflectedIn
    <3> HIDE DEF e, s
    <3> QED BY <2>2, <2>4, <3>2, <1>1
  <2>5. CASE j # 1 /\ j % 2 = 0
    <3>1. e[j] = LeftEntry(d, j \div 2)
      <4> HIDE DEF e
      <4> QED BY <2>2, <2>5
    <3> HIDE DEF e
    <3> QED BY <3>1, <2>3, <2>5, <1>1 DEF LeftEntry, ReflectedIn
  <2>6. CASE j # 1 /\ j % 2 # 0
    <3>1. e[j] = right[j \div 2]
      <4> HIDE DEF e
      <4> QED BY <2>2, <2>6
    <3>2. j \div 2 \in 1 .. Half BY <2>6, <1>1
    <3> HIDE DEF e
    <3> QED BY <3>1, <3>2, <2>6, <1>1 DEF ReflectedIn
  <2> QED BY <2>4, <2>5, <2>6
<1>5. w \in Nat \ {0} BY <1>1
<1>6. ASSUME NEW j \in 1 .. w
      PROVE  (IF j > Len(e) THEN Unset ELSE buf[e[j] % w]) = [slot |-> s(j), flagged |-> s(j) < d]
  <2>1. ~(j > Len(e)) BY <1>3, <1>5
  <2>2. buf[Place(s(j), w)] = [slot |-> s(j), flagged |-> s(j) < d]
    <3> HIDE DEF s
    <3> QED BY <1>4 DEF Holds
  <2> HIDE DEF e, s
  <2> QED BY <2>1, <2>2, <1>4, Zenon DEF Place
<1>7. Median(buf, e) = [j \in 1 .. w |-> [slot |-> s(j), flagged |-> s(j) < d]]
  <2>1. Median(buf, e) = [j \in 1 .. w |-> IF j > Len(e) THEN Unset ELSE buf[e[j] % w]]
    BY DEF Median
  <2> HIDE DEF e, s
  <2> QED BY <2>1, <1>6, Zenon
<1>8. JudgedSlots(d, n) = [slot |-> d, median |-> [j \in 1 .. w |-> [slot |-> s(j), flagged |-> s(j) < d]]]
  BY DEF JudgedSlots
<1>9. JudgedSlots(d, n) \in MedSlot
  <2> HIDE DEF s
  <2>1. \A j \in 1 .. w : s(j) \in Int BY <1>4
  <2>2. [j \in 1 .. w |-> [slot |-> s(j), flagged |-> s(j) < d]] \in [1 .. w -> MedBuffer]
    BY <2>1 DEF MedBuffer
  <2> QED BY <1>8, <2>2 DEF MedSlot
<1>10. JudgedSlots(d, n).median = [j \in 1 .. w |-> [slot |-> s(j), flagged |-> s(j) < d]]
  <2> HIDE DEF s
  <2> QED BY <1>8
<1> QED BY <1>7, <1>9, <1>10

LEMMA MedInitInv ==
  ASSUME TimeWindows \subseteq Nat \ {0}
  PROVE  MedInit => MedInv
<1> SUFFICES ASSUME MedInit PROVE MedInv OBVIOUS
<1>1. PICK n \in 1 .. MaxSlots, v \in TimeWindows :
        Start([ntime |-> n, window |-> Window(v, n)],
              [window |-> Window(v, n), buf |-> [i \in 0 .. Window(v, n) - 1 |-> Unset], done |-> 0,
               finishing |-> FALSE])
  BY DEF MedInit
<1>2. n \in Nat \ {0} /\ v \in Nat \ {0} BY MaxSlotsAssumption
<1> DEFINE w == Window(v, n)
<1>3. w \in Nat /\ w % 2 = 1 BY <1>2, WindowIsOdd
<1> HIDE DEF w
<1>4. /\ config = [ntime |-> n, window |-> w]
      /\ step = [window |-> w, buf |-> [i \in 0 .. w - 1 |-> Unset], done |-> 0, finishing |-> FALSE]
      /\ fed = 0 /\ sent = <<>> /\ finished = FALSE
  BY <1>1 DEF Start, w
<1>6. config.window = w /\ step.window = w /\ step.done = 0 /\ ~step.finishing BY <1>4
<1>5. MedShape BY <1>3, <1>4, <1>6 DEF MedShape
<1>7. Holds(step.buf, w, 0, 0)
  <2>1. Unset \in MedBuffer BY DEF Unset, MedBuffer
  <2>2. step.buf = [i \in 0 .. w - 1 |-> Unset] BY <1>4
  <2>3. step.buf \in [0 .. w - 1 -> MedBuffer] BY <2>1, <2>2
  <2>4. 0 .. 0 - 1 = {} OBVIOUS
  <2> QED BY <2>3, <2>4 DEF Holds
<1>8. Half \in Nat BY <1>3, <1>6 DEF Half
<1>9. sent \in Seq(MedSlot) /\ Len(sent) = 0 BY <1>4
<1>10. MedMain BY <1>3, <1>4, <1>6, <1>7, <1>8, <1>9 DEF MedMain
<1> QED BY <1>5, <1>10 DEF MedInv

(***************************************************************************)
(* A slot is flagged and sent: what that leaves, for each of the three     *)
(* actions that do it.                                                     *)
(***************************************************************************)
LEMMA FlagSends ==
  ASSUME MedShape,
         config.window \in Nat, config.window % 2 = 1, step.window = config.window,
         NEW n \in Nat, step.done \in Nat, step.done < n, n - step.done - 1 <= Half,
         n >= config.window \/ step.done + Half < n,
         NEW buf, Holds(buf, config.window, n, step.done),
         sent \in Seq(MedSlot), Len(sent) = step.done,
         \A i \in 1 .. step.done : sent[i] = JudgedSlots(i - 1, n),
         NEW right \in [1 .. Half -> Int],
         \A i \in 1 .. Half : right[i] = IF step.done + i >= n THEN 2 * (n - 1) - (step.done + i)
                                         ELSE step.done + i,
         Flag(buf, step.done % step.window, Entries(step.done, right))
  PROVE  /\ step' = [window |-> step.window, buf |-> step'.buf, done |-> step.done + 1,
                     finishing |-> step.finishing]
         /\ Holds(step'.buf, config.window, n, step.done + 1)
         /\ sent' \in Seq(MedSlot)
         /\ Len(sent') = step.done + 1
         /\ \A i \in 1 .. step.done + 1 : sent'[i] = JudgedSlots(i - 1, n)
<1> DEFINE d == step.done
           w == config.window
           p == Place(d, w)
           new == [buf EXCEPT ![p].flagged = TRUE]
           m == Median(buf, Entries(d, right))
           b == [slot |-> buf[p].slot, median |-> m]
<1>1. step' = [step EXCEPT !.buf = new, !.done = d + 1] /\ sent' = sent \o <<b>>
  BY Zenon DEF Flag, Send, Place
<1>2. w \in Nat \ {0} /\ w = 2 * Half + 1 /\ Half \in Nat BY DEF Half
<1>3. d >= n - w BY <1>2
<1>4. buf[p].slot = d /\ Holds(new, w, n, d + 1) BY <1>2, <1>3, FlagHolds
<1>5. m = JudgedSlots(d, n).median /\ JudgedSlots(d, n) \in MedSlot BY MedianIsJudged
<1>6. b = JudgedSlots(d, n)
  <2>1. JudgedSlots(d, n).slot = d BY DEF JudgedSlots
  <2>2. JudgedSlots(d, n) = [slot |-> JudgedSlots(d, n).slot, median |-> JudgedSlots(d, n).median]
    BY <1>5 DEF MedSlot
  <2> HIDE DEF m
  <2> QED BY <2>1, <2>2, <1>4, <1>5
<1> HIDE DEF new, b, m, p
<1>7. step' = [window |-> step.window, buf |-> new, done |-> d + 1, finishing |-> step.finishing]
  <2>1. step = [window |-> step.window, buf |-> step.buf, done |-> step.done, finishing |-> step.finishing]
    BY DEF MedShape
  <2> QED BY <1>1, <2>1
<1>8. step'.buf = new BY <1>7
<1>9. b \in MedSlot BY <1>5, <1>6
<1>10. sent' \in Seq(MedSlot) /\ Len(sent') = d + 1 BY <1>1, <1>9
<1>11. ASSUME NEW i \in 1 .. d + 1 PROVE sent'[i] = JudgedSlots(i - 1, n)
  <2>1. CASE i = d + 1
    <3>1. (sent \o <<b>>)[Len(sent) + 1] = b BY <1>9, LastOfAppended, SMTT(60)
    <3>3. sent'[i] = b BY <1>1, <2>1, <3>1
    <3>2. i - 1 = d BY <2>1
    <3> QED BY <3>2, <3>3, <1>6, Zenon
  <2>2. CASE i \in 1 .. d
    <3>1. sent'[i] = sent[i] BY <1>1, <1>9, <2>2
    <3> QED BY <3>1, <2>2
  <2> QED BY <2>1, <2>2
<1> QED BY <1>4, <1>7, <1>8, <1>10, <1>11

LEMMA FlagShape ==
  ASSUME MedShape, NEW buf, NEW index, NEW entries, Flag(buf, index, entries)
  PROVE  step' = [window |-> step.window, buf |-> step'.buf, done |-> step.done + 1,
                  finishing |-> step.finishing]
<1> DEFINE new == [buf EXCEPT ![index].flagged = TRUE]
<1>1. step' = [step EXCEPT !.buf = new, !.done = step.done + 1] BY Zenon DEF Flag
<1> HIDE DEF new
<1>2. step' = [window |-> step.window, buf |-> new, done |-> step.done + 1,
               finishing |-> step.finishing]
  <2>1. step = [window |-> step.window, buf |-> step.buf, done |-> step.done, finishing |-> step.finishing]
    BY DEF MedShape
  <2> QED BY <1>1, <2>1
<1> QED BY <1>2

LEMMA MedProcessInv == MedInv /\ MedProcess => MedInv'
<1> SUFFICES ASSUME MedInv, MedProcess PROVE MedInv' OBVIOUS
<1>1. MedShape /\ MedMain /\ ~step.finishing BY DEF MedInv, IsShort, MedProcess
<1>2. config' = config /\ fed' = fed + 1 /\ ~finished /\ finished' = finished /\ fed \in Nat
  BY <1>1 DEF MedProcess, Given, MedMain
<1> DEFINE w == config.window
           d == step.done
           n == fed + 1
<1>3. w \in Nat \ {0} /\ w = 2 * Half + 1 /\ Half \in Nat /\ step.window = w /\ w % 2 = 1
      /\ d \in Nat /\ d <= fed /\ d = IF fed > Half THEN fed - Half ELSE 0
  <2>1. w \in Nat /\ step.window = w /\ w % 2 = 1 /\ d \in Nat /\ d <= fed
        /\ d = IF fed > Half THEN fed - Half ELSE 0
    BY <1>1 DEF MedMain
  <2>2. w \in Nat \ {0} /\ w = 2 * Half + 1 /\ Half \in Nat BY <2>1 DEF Half
  <2> QED BY <2>1, <2>2
<1>4. Holds(Stored, w, n, d)
  <2>1. Stored = [step.buf EXCEPT ![Place(fed, w)] = [slot |-> fed, flagged |-> FALSE]]
    BY <1>3, Zenon DEF Stored, Place
  <2> QED BY <2>1, <1>1, <1>2, <1>3, StoreHolds DEF MedMain
<1>5. ASSUME NEW i \in 1 .. d PROVE sent[i] = JudgedSlots(i - 1, n)
  <2>1. sent[i] = JudgedSlots(i - 1, fed) BY <1>1 DEF MedMain
  <2>2. i - 1 \in Nat /\ n \in Nat /\ fed <= n /\ w \div 2 = Half BY <1>2, <1>3 DEF Half
  <2>3. (i - 1) + Half < fed BY <1>2, <1>3
  <2>4. JudgedSlots(i - 1, fed) = JudgedSlots(i - 1, n) BY <1>2, <1>3, <2>2, <2>3, JudgedStays
  <2> QED BY <2>1, <2>4
<1>6. sent \in Seq(MedSlot) /\ Len(sent) = d BY <1>1 DEF MedMain
<1>7. MedSlot' = MedSlot /\ \A a, b : JudgedSlots(a, b)' = JudgedSlots(a, b) BY <1>2 DEF MedSlot, JudgedSlots
<1>8. CASE fed + 1 > Half
  <2> DEFINE right == RightEntries(d)
  <2>1. Flag(Stored, d % step.window, Entries(d, right)) BY <1>8, Zenon DEF MedProcess
  <2>2. d < n /\ n - d - 1 <= Half /\ d + Half < n /\ n \in Nat BY <1>2, <1>3, <1>8
  <2>3. right \in [1 .. Half -> Int]
        /\ \A i \in 1 .. Half : right[i] = IF d + i >= n THEN 2 * (n - 1) - (d + i) ELSE d + i
    BY <1>3, <2>2, <1>2, <1>8 DEF RightEntries, RightEntry
  <2> HIDE DEF right
  <2>4. /\ step' = [window |-> step.window, buf |-> step'.buf, done |-> d + 1,
                    finishing |-> step.finishing]
        /\ Holds(step'.buf, w, n, d + 1)
        /\ sent' \in Seq(MedSlot)
        /\ Len(sent') = d + 1
        /\ \A i \in 1 .. d + 1 : sent'[i] = JudgedSlots(i - 1, n)
    BY <1>1, <1>3, <1>4, <1>5, <1>6, <2>1, <2>2, <2>3, FlagSends
  <2>5. step'.window = w /\ step'.done = d + 1 /\ step'.finishing = FALSE BY <2>4, <1>1, <1>3 DEF MedShape
  <2>6. Half' = Half BY <2>5, <1>3 DEF Half
  <2>7. MedShape' BY <2>4, <2>5, <1>1, <1>2 DEF MedShape
  <2>8. d + 1 <= n /\ n - (d + 1) <= Half /\ d + 1 = IF n > Half THEN n - Half ELSE 0
    BY <1>2, <1>3, <1>8
  <2>9. MedMain'
    <3>1. config' = config /\ fed' = n /\ ~finished' /\ n \in Nat BY <1>2
    <3>2. Holds(step'.buf, config'.window, fed', step'.done) BY <2>4, <2>5, <3>1
    <3>3. \A i \in 1 .. step'.done : sent'[i] = JudgedSlots(i - 1, fed)' BY <2>4, <2>5, <3>1, <1>7
    <3>4. step'.done = IF fed' > Half' THEN fed' - Half' ELSE 0 BY <2>5, <2>6, <2>8, <3>1
    <3>5. fed' - step'.done <= Half' /\ step'.done <= fed' BY <2>5, <2>6, <2>8, <3>1
    <3> QED BY <1>3, <1>7, <2>4, <2>5, <3>1, <3>2, <3>3, <3>4, <3>5 DEF MedMain
  <2> QED BY <2>7, <2>9 DEF MedInv
<1>9. CASE ~(fed + 1 > Half)
  <2>1. step' = [step EXCEPT !.buf = Stored] /\ sent' = sent BY <1>9, Zenon DEF MedProcess
  <2>2. step' = [window |-> step.window, buf |-> Stored, done |-> step.done, finishing |-> step.finishing]
    <3>1. step = [window |-> step.window, buf |-> step.buf, done |-> step.done, finishing |-> step.finishing]
      BY <1>1 DEF MedShape
    <3> QED BY <2>1, <3>1
  <2>3. step'.window = w /\ step'.done = d /\ step'.finishing = FALSE /\ step'.buf = Stored
    BY <2>2, <1>1, <1>3 DEF MedShape
  <2>4. Half' = Half BY <2>3, <1>3 DEF Half
  <2>5. MedShape' BY <2>2, <2>3, <1>1, <1>2 DEF MedShape
  <2>6. d = 0 /\ d <= n /\ n - d <= Half /\ ~(n > Half) BY <1>2, <1>3, <1>9
  <2>7. MedMain' BY <1>2, <1>3, <1>4, <1>5, <1>6, <1>7, <2>1, <2>3, <2>4, <2>6 DEF MedMain
  <2> QED BY <2>5, <2>7 DEF MedInv
<1> QED BY <1>8, <1>9

LEMMA MedFinishInv == MedInv /\ MedFinish => MedInv'
<1> SUFFICES ASSUME MedInv, MedFinish PROVE MedInv' OBVIOUS
<1>1. MedShape /\ MedMain /\ ~step.finishing BY DEF MedInv, IsShort, MedFinish
<1>2. UNCHANGED <<config, fed, sent, finished>> /\ ~finished /\ fed \in Nat
  BY <1>1 DEF MedFinish, MedMain
<1>3. step' = [window |-> ShrunkWindow, buf |-> step.buf, done |-> step.done, finishing |-> TRUE]
  <2>1. step = [window |-> step.window, buf |-> step.buf, done |-> step.done, finishing |-> step.finishing]
    BY <1>1 DEF MedShape
  <2>2. step' = [step EXCEPT !.finishing = TRUE, !.window = ShrunkWindow] BY DEF MedFinish
  <2> QED BY <2>1, <2>2
<1>4. MedShape'
  <2>1. step'.finishing = TRUE BY <1>3
  <2> QED BY <1>1, <1>2, <1>3, <2>1 DEF MedShape
<1>5. CASE fed < config.window
  <2>1. IsShort' BY <1>2, <1>3, <1>5 DEF IsShort
  <2> QED BY <1>4, <2>1 DEF MedInv
<1>6. CASE ~(fed < config.window)
  <2>1. ShrunkWindow = step.window BY <1>6, <1>1 DEF ShrunkWindow, MedMain
  <2>2. step'.window = step.window /\ step'.done = step.done /\ step'.buf = step.buf /\ step'.finishing
    BY <1>3, <2>1
  <2>3. Half' = Half BY <2>2 DEF Half
  <2>4. MedSlot' = MedSlot /\ \A a, b : JudgedSlots(a, b)' = JudgedSlots(a, b) BY <1>2 DEF MedSlot, JudgedSlots
  <2>5. fed >= config.window BY <1>6, <1>1 DEF MedMain
  <2>6. MedMain' BY <1>1, <1>2, <2>2, <2>3, <2>4, <2>5 DEF MedMain
  <2> QED BY <1>4, <2>6 DEF MedInv
<1> QED BY <1>5, <1>6

LEMMA ShortStays ==
  ASSUME MedInv, IsShort, NEW buf, NEW index, NEW entries, Flag(buf, index, entries),
         UNCHANGED <<config, fed, finished>>
  PROVE  MedInv'
<1>1. MedShape BY DEF MedInv
<1>2. step' = [window |-> step.window, buf |-> step'.buf, done |-> step.done + 1,
               finishing |-> step.finishing]
  BY <1>1, FlagShape
<1>3. step'.finishing = step.finishing /\ step'.window = step.window /\ step'.done = step.done + 1 BY <1>2
<1>4. MedShape' BY <1>1, <1>2, <1>3 DEF MedShape
<1>5. IsShort' BY <1>3 DEF IsShort
<1> QED BY <1>4, <1>5 DEF MedInv

LEMMA FlagLeadingInv == MedInv /\ FlagLeading => MedInv'
<1> SUFFICES ASSUME MedInv, FlagLeading PROVE MedInv' OBVIOUS
<1>1. CASE IsShort BY <1>1, ShortStays DEF FlagLeading
<1>2. CASE ~IsShort
  <2>1. MedMain BY <1>2 DEF MedInv
  <2>2. Half \in Nat BY <2>1 DEF MedMain, Half
  <2>3. FALSE BY <2>1, <2>2 DEF MedMain, FlagLeading
  <2> QED BY <2>3
<1> QED BY <1>1, <1>2

LEMMA FlagRemainingInv == MedInv /\ FlagRemaining => MedInv'
<1> SUFFICES ASSUME MedInv, FlagRemaining PROVE MedInv' OBVIOUS
<1>0. CASE IsShort BY <1>0, ShortStays DEF FlagRemaining
<1>1. CASE ~IsShort
  <2>1. MedShape /\ MedMain /\ step.finishing BY <1>1 DEF MedInv, FlagRemaining
  <2>2. config' = config /\ fed' = fed /\ ~finished /\ finished' = finished /\ fed \in Nat
    BY <2>1 DEF FlagRemaining, MedMain
  <2> DEFINE w == config.window
             d == step.done
             right == MirroredEntries(d)
  <2>3. w \in Nat \ {0} /\ w = 2 * Half + 1 /\ Half \in Nat /\ step.window = w /\ w % 2 = 1
        /\ d \in Nat /\ fed >= w
    <3>1. w \in Nat /\ step.window = w /\ w % 2 = 1 /\ d \in Nat /\ fed >= w BY <2>1 DEF MedMain
    <3>2. w \in Nat \ {0} /\ w = 2 * Half + 1 /\ Half \in Nat BY <3>1 DEF Half
    <3> QED BY <3>1, <3>2
  <2>4. d < fed /\ fed - d - 1 <= Half BY <2>1, <2>2, <2>3 DEF FlagRemaining, MedMain
  <2>5. Flag(step.buf, d % step.window, Entries(d, right)) BY Zenon DEF FlagRemaining
  <2>6. right \in [1 .. Half -> Int]
        /\ \A i \in 1 .. Half : right[i] = IF d + i >= fed THEN 2 * (fed - 1) - (d + i) ELSE d + i
    BY <2>2, <2>3 DEF MirroredEntries, MirroredEntry
  <2> HIDE DEF right
  <2>7. Holds(step.buf, w, fed, d) /\ sent \in Seq(MedSlot) /\ Len(sent) = d
        /\ \A i \in 1 .. d : sent[i] = JudgedSlots(i - 1, fed)
    BY <2>1 DEF MedMain
  <2>8. /\ step' = [window |-> step.window, buf |-> step'.buf, done |-> d + 1,
                    finishing |-> step.finishing]
        /\ Holds(step'.buf, w, fed, d + 1)
        /\ sent' \in Seq(MedSlot)
        /\ Len(sent') = d + 1
        /\ \A i \in 1 .. d + 1 : sent'[i] = JudgedSlots(i - 1, fed)
    BY <2>1, <2>2, <2>3, <2>4, <2>5, <2>6, <2>7, FlagSends
  <2>9. step'.window = w /\ step'.done = d + 1 /\ step'.finishing = TRUE
    BY <2>8, <2>1, <2>3 DEF MedShape
  <2>10. Half' = Half BY <2>9, <2>3 DEF Half
  <2>11. MedShape' BY <2>8, <2>9, <2>1, <2>2 DEF MedShape
  <2>12. MedSlot' = MedSlot /\ \A a, b : JudgedSlots(a, b)' = JudgedSlots(a, b) BY <2>2 DEF MedSlot, JudgedSlots
  <2>13. d + 1 <= fed /\ fed - (d + 1) <= Half BY <2>2, <2>3, <2>4
  <2>14. MedMain' BY <2>2, <2>3, <2>8, <2>9, <2>10, <2>12, <2>13 DEF MedMain
  <2> QED BY <2>11, <2>14 DEF MedInv
<1> QED BY <1>0, <1>1

LEMMA UnchangedMed ==
  ASSUME config' = config, step' = step, fed' = fed, sent' = sent
  PROVE  /\ Half' = Half /\ MedSlot' = MedSlot /\ \A a, b : JudgedSlots(a, b)' = JudgedSlots(a, b)
         /\ IsShort' = IsShort
  BY DEF Half, MedSlot, JudgedSlots, IsShort

LEMMA MedFinishNextStepInv == MedInv /\ MedFinishNextStep => MedInv'
<1> SUFFICES ASSUME MedInv, MedFinishNextStep PROVE MedInv' OBVIOUS
<1>1. config' = config /\ step' = step /\ fed' = fed /\ sent' = sent /\ finished' = TRUE
      /\ step.finishing /\ step.done = fed
  BY DEF MedFinishNextStep, Ended
<1>2. MedShape' BY <1>1 DEF MedInv, MedShape
<1>3. ASSUME ~IsShort' PROVE MedMain'
  <2>1. MedMain BY <1>1, <1>3, UnchangedMed DEF MedInv
  <2> QED BY <1>1, <2>1, UnchangedMed DEF MedMain
<1> QED BY <1>2, <1>3 DEF MedInv

LEMMA MedStutterInv == MedInv /\ UNCHANGED calls => MedInv'
<1> SUFFICES ASSUME MedInv, UNCHANGED calls PROVE MedInv' OBVIOUS
<1>1. config' = config /\ step' = step /\ fed' = fed /\ sent' = sent /\ finished' = finished
  BY DEF calls
<1>2. MedShape' BY <1>1 DEF MedInv, MedShape
<1>3. ASSUME ~IsShort' PROVE MedMain'
  <2>1. MedMain BY <1>1, <1>3, UnchangedMed DEF MedInv
  <2> QED BY <1>1, <2>1, UnchangedMed DEF MedMain
<1> QED BY <1>2, <1>3 DEF MedInv

LEMMA MedNextInv == MedInv /\ [MedNext]_calls => MedInv'
  BY MedProcessInv, MedFinishInv, FlagLeadingInv, FlagRemainingInv, MedFinishNextStepInv, MedStutterInv
  DEF MedNext

LEMMA MedInvIsEnough == MedInv => SlotsAreJudgedByTheirWindow
<1> SUFFICES ASSUME MedInv, step.finishing => fed >= config.window PROVE Keeps(Promised)
  BY DEF SlotsAreJudgedByTheirWindow
<1>1. MedShape BY DEF MedInv
<1>2. ~IsShort
  <2>1. CASE ~step.finishing BY <2>1 DEF IsShort
  <2>2. CASE step.finishing
    <3>1. fed >= config.window /\ fed \in Nat /\ config.window \in Nat BY <1>1, <2>2 DEF MedShape
    <3>2. ~(fed < config.window) BY <3>1
    <3> QED BY <3>2 DEF IsShort
  <2> QED BY <2>1, <2>2
<1>3. MedMain BY <1>2 DEF MedInv
<1>4. /\ fed \in Nat /\ Len(sent) = step.done /\ step.done <= fed /\ step.done \in Nat
      /\ finished => step.done = fed
      /\ \A i \in 1 .. step.done : sent[i] = JudgedSlots(i - 1, fed)
  BY <1>3 DEF MedMain
<1> DEFINE p == [i \in 1 .. fed |-> JudgedSlots(i - 1, fed)]
<1>5. Promised = p BY <1>4, PromisedIsJudged
<1>6. Len(p) = fed BY <1>4
<1>7. \A i \in 1 .. Len(sent) : sent[i] = p[i] BY <1>4
<1> HIDE DEF p
<1>8. Keeps(p) BY <1>4, <1>6, <1>7 DEF Keeps
<1> QED BY <1>5, <1>8

(***************************************************************************)
(* For every window, every number of slots and every end of the input, a   *)
(* slot is judged by its own window, unless fewer slots than the window    *)
(* were given.                                                             *)
(***************************************************************************)
THEOREM EverySlotIsJudgedByItsWindow ==
  ASSUME TimeWindows \subseteq Nat \ {0}
  PROVE  MedSpec => []SlotsAreJudgedByTheirWindow
<1>1. MedInit => MedInv BY MedInitInv
<1>2. MedInv /\ [MedNext]_calls => MedInv' BY MedNextInv
<1>3. MedInv => SlotsAreJudgedByTheirWindow BY MedInvIsEnough
<1> QED BY <1>1, <1>2, <1>3, PTL DEF MedSpec

-----------------------------------------------------------------------------
(***************************************************************************)
(* AOFlaggerStep: each slot is flagged with the overlap on both sides.     *)
(***************************************************************************)
\* The settings as the code reads them: -1 is "not given".
SizesGiven ==
    /\ GivenSizes \subseteq [window : Nat, overlap : Nat, percentage : Int]
    /\ MemorySlots \subseteq Nat

AOImage == [first : Int, last : Int]
AOBuffer == [slot : Int, images : SUBSET AOImage]

AOTypes ==
    /\ config.window \in Nat \ {0} /\ config.overlap \in Nat
    /\ fed \in Nat
    /\ finished \in BOOLEAN
    /\ step = [buf |-> step.buf]
    /\ step.buf \in Seq(AOBuffer)
    /\ sent \in Seq(AOBuffer)

\* SeenWithOverlap before the end of the observation.
SeenBy(b, o) ==
    \E image \in b.images :
        /\ image.first <= b.slot - o \/ image.first = 0
        /\ image.last >= b.slot + o

\* SeenWithOverlap after n slots, which were all.
SeenAtEnd(b, o, n) ==
    \E image \in b.images :
        /\ image.first <= b.slot - o \/ image.first = 0
        /\ image.last >= b.slot + o \/ image.last = n - 1

\* The slots that wait continue those that were sent; the first of them, as
\* many as the overlap, were in a window before.
AOWaiting ==
    /\ \A i \in 1 .. Len(sent) : sent[i].slot = i - 1 /\ SeenBy(sent[i], config.overlap)
    /\ Len(step.buf) = fed - Len(sent)
    /\ Len(step.buf) < BufferSize
    /\ \A i \in 1 .. Len(step.buf) : step.buf[i].slot = Len(sent) + i - 1
    /\ Len(sent) > 0 =>
        /\ Len(step.buf) >= 2 * config.overlap
        /\ \A i \in 1 .. Len(step.buf) :
              i <= config.overlap => SeenBy(step.buf[i], config.overlap)

AOInv ==
    /\ AOTypes
    /\ ~finished => AOWaiting
    /\ finished =>
        /\ \A i \in 1 .. Len(sent) : sent[i].slot = i - 1 /\ SeenAtEnd(sent[i], config.overlap, fed)
        /\ Len(sent) = fed

LEMMA QuotientType ==
  ASSUME NEW a \in Nat, NEW b \in Nat \ {0}
  PROVE  a \div b \in Nat
  OBVIOUS

LEMMA SizesType ==
  ASSUME NEW s \in [window : Nat, overlap : Nat, percentage : Int],
         NEW nt \in Nat, NEW n \in Nat \ {0}
  PROVE  Sizes(s, nt, n).window \in Nat \ {0} /\ Sizes(s, nt, n).overlap \in Nat
<1> DEFINE p == Percentage(s)
           o == OverlapInMemory(s, nt)
           w == IF s.window > 0 THEN s.window ELSE EvenWindow(n, WindowInMemory(nt, o))
           v == IF s.window > 0 THEN s.overlap ELSE SmallerOverlap(s, w, o)
<1>1. p \in Int /\ (p < 0 => s.overlap > 0) BY DEF Percentage
<1>2. o \in Nat /\ (p < 0 => o > 0)
  <2> DEFINE c == (2 * p * nt + 100 + 2 * p) \div (2 * (100 + 2 * p))
  <2>1. o = IF p > 0 /\ (s.overlap = 0 \/ c < s.overlap) THEN c ELSE s.overlap
    BY DEF OverlapInMemory
  <2>2. CASE p > 0
    <3>1. 2 * p * nt + 100 + 2 * p \in Nat
      <4>1. p * nt \in Nat BY <1>1, <2>2
      <4>2. 2 * p * nt = 2 * (p * nt) BY <1>1
      <4> QED BY <4>1, <4>2, <1>1, <2>2
    <3>2. 2 * (100 + 2 * p) \in Nat \ {0} BY <1>1, <2>2
    <3>3. c \in Nat BY <3>1, <3>2, QuotientType
    <3> HIDE DEF c, o, p
    <3> QED BY <1>1, <2>1, <2>2, <3>3
  <2>3. CASE ~(p > 0)
    <3> HIDE DEF c, o, p
    <3> QED BY <1>1, <2>1, <2>3
  <2> QED BY <2>2, <2>3
<1>3. w \in Nat \ {0}
  <2>1. WindowInMemory(nt, o) \in Nat \ {0}
    <3> HIDE DEF o
    <3> QED BY <1>2 DEF WindowInMemory
  <2>2. ASSUME NEW m \in Nat \ {0} PROVE EvenWindow(n, m) \in Nat \ {0}
    <3>1. 1 + (n - 1) \div m \in Nat \ {0} BY QuotientType
    <3>2. (n - 1) \div (1 + (n - 1) \div m) \in Nat BY <3>1, QuotientType
    <3> QED BY <3>2 DEF EvenWindow
  <2> HIDE DEF o
  <2> QED BY <2>1, <2>2
<1>4. v \in Nat /\ (p < 0 => v > 0)
  <2> HIDE DEF w, o
  <2>1. CASE s.window > 0 BY <2>1, <1>1
  <2>2. CASE ~(s.window > 0)
    <3> DEFINE r == RoundedPercentOf(p, w)
    <3>1. v = IF p > 0 /\ r < o THEN r ELSE o BY <2>2 DEF SmallerOverlap
    <3>2. CASE p > 0
      <4>1. p * w \in Nat BY <1>1, <1>3, <3>2
      <4>2. 2 * p * w + 100 \in Nat BY <4>1, <1>1, <1>3
      <4>3. r \in Nat BY <4>2, QuotientType DEF RoundedPercentOf
      <4> HIDE DEF r, v, p
      <4> QED BY <3>1, <3>2, <4>3, <1>1, <1>2
    <3>3. CASE ~(p > 0)
      <4> HIDE DEF r, v, p
      <4> QED BY <3>1, <3>3, <1>1, <1>2
    <3> QED BY <3>2, <3>3
  <2> QED BY <2>1, <2>2
<1>5. Sizes(s, nt, n) = [ntime |-> n, window |-> w, overlap |-> IF v = 0 THEN PercentOf(p, w) ELSE v]
  BY DEF Sizes
<1>6. v = 0 => PercentOf(p, w) \in Nat
  <2>1. SUFFICES ASSUME v = 0 PROVE PercentOf(p, w) \in Nat OBVIOUS
  <2>2. p \in Nat
    <3> HIDE DEF v, p
    <3> QED BY <1>1, <1>4, <2>1
  <2>3. p * w \in Nat
    <3> HIDE DEF p, w
    <3> QED BY <1>3, <2>2
  <2> HIDE DEF p, w
  <2> QED BY <2>3, QuotientType DEF PercentOf
<1> HIDE DEF v, w, p
<1> QED BY <1>3, <1>4, <1>5, <1>6

LEMMA ImagesRecord ==
  \A r, a, b, c : r = [slot |-> a, images |-> b] =>
      [r EXCEPT !.images = c] = [slot |-> a, images |-> c]
  OBVIOUS

LEMMA JoinedBuffers ==
  \A s, t \in Seq(AOBuffer) :
      /\ s \o t \in Seq(AOBuffer)
      /\ Len(s \o t) = Len(s) + Len(t)
      /\ \A i \in 1 .. Len(s) : (s \o t)[i] = s[i]
      /\ \A i \in 1 .. Len(t) : (s \o t)[Len(s) + i] = t[i]
  BY JoinedFacts

LEMMA SubSeqFacts ==
  ASSUME NEW S, NEW s \in Seq(S), NEW a \in Nat, NEW b \in Nat, a <= b, b <= Len(s)
  PROVE  /\ SubSeq(s, a + 1, b) \in Seq(S)
         /\ Len(SubSeq(s, a + 1, b)) = b - a
         /\ \A i \in 1 .. b - a : SubSeq(s, a + 1, b)[i] = s[a + i]
  OBVIOUS

LEMMA LongerRange ==
  ASSUME NEW a \in Nat, NEW b \in Nat, NEW i \in 1 .. a
  PROVE  i \in 1 .. a + b
  OBVIOUS

(***************************************************************************)
(* flag() adds the image to every slot of it.                              *)
(***************************************************************************)
LEMMA FlaggedSlots ==
  ASSUME NEW buf \in Seq(AOBuffer), Len(buf) > 0
  PROVE  /\ Flagged(buf) \in Seq(AOBuffer)
         /\ Len(Flagged(buf)) = Len(buf)
         /\ \A i \in 1 .. Len(buf) :
              /\ Flagged(buf)[i].slot = buf[i].slot
              /\ Flagged(buf)[i].images =
                    buf[i].images \cup {[first |-> buf[1].slot, last |-> buf[Len(buf)].slot]}
<1> DEFINE n == Len(buf)
           image == [first |-> buf[1].slot, last |-> buf[n].slot]
           new(i) == [slot |-> buf[i].slot, images |-> buf[i].images \cup {image}]
<1>1. n \in Nat /\ n > 0 OBVIOUS
<1>2. ASSUME NEW i \in 1 .. n
      PROVE  /\ buf[i] = [slot |-> buf[i].slot, images |-> buf[i].images]
             /\ buf[i].slot \in Int /\ buf[i].images \in SUBSET AOImage
  <2>1. buf[i] \in AOBuffer OBVIOUS
  <2> QED BY <2>1 DEF AOBuffer
<1>3. image \in AOImage
  <2>1. 1 \in 1 .. n /\ n \in 1 .. n BY <1>1
  <2>2. buf[1].slot \in Int /\ buf[n].slot \in Int BY <1>2, <2>1
  <2> QED BY <2>2 DEF AOImage
<1> HIDE DEF image
<1>4. ASSUME NEW i \in 1 .. n
      PROVE  [buf[i] EXCEPT !.images = buf[i].images \cup {image}] = new(i)
  <2>1. PICK a, b : buf[i] = [slot |-> a, images |-> b] BY <1>2
  <2>2. buf[i].slot = a /\ buf[i].images = b BY <2>1
  <2>3. [buf[i] EXCEPT !.images = b \cup {image}] = [slot |-> a, images |-> b \cup {image}]
    BY <2>1, ImagesRecord, Zenon
  <2> QED BY <2>2, <2>3, Zenon
<1>5. Flagged(buf) = [i \in 1 .. n |-> [buf[i] EXCEPT !.images = buf[i].images \cup {image}]]
  BY DEF Flagged, image
<1>6. Flagged(buf) = [i \in 1 .. n |-> new(i)]
  <2> HIDE DEF new, n
  <2> QED BY <1>4, <1>5, Zenon
<1>7. ASSUME NEW i \in 1 .. n PROVE new(i) \in AOBuffer
  <2>1. buf[i].images \cup {image} \in SUBSET AOImage BY <1>2, <1>3
  <2> QED BY <1>2, <2>1 DEF AOBuffer
<1>8. ASSUME NEW i \in 1 .. n
      PROVE  new(i).slot = buf[i].slot /\ new(i).images = buf[i].images \cup {image}
  OBVIOUS
<1> HIDE DEF new, n
<1>9. Flagged(buf) \in Seq(AOBuffer) /\ Len(Flagged(buf)) = n BY <1>1, <1>6, <1>7
<1>10. \A i \in 1 .. n : Flagged(buf)[i] = new(i) BY <1>6
<1> QED BY <1>8, <1>9, <1>10 DEF n, image

LEMMA AOInitInv ==
  ASSUME SizesGiven
  PROVE  AOInit => AOInv
<1> SUFFICES ASSUME AOInit PROVE AOInv OBVIOUS
<1>1. PICK n \in 1 .. MaxSlots, s \in GivenSizes, nt \in MemorySlots :
        Start(Sizes(s, nt, n), [buf |-> <<>>])
  BY DEF AOInit
<1>2. n \in Nat \ {0} /\ s \in [window : Nat, overlap : Nat, percentage : Int] /\ nt \in Nat
  BY MaxSlotsAssumption DEF SizesGiven
<1>3. config = Sizes(s, nt, n) /\ step = [buf |-> <<>>] /\ fed = 0 /\ sent = <<>> /\ finished = FALSE
  BY <1>1 DEF Start
<1>4. config.window \in Nat \ {0} /\ config.overlap \in Nat BY <1>2, <1>3, SizesType
<1>5. step.buf = <<>> BY <1>3
<1>6. AOTypes
  <2>1. step = [buf |-> step.buf] /\ finished \in BOOLEAN /\ fed \in Nat BY <1>3, <1>5
  <2>2. <<>> \in Seq(AOBuffer) OBVIOUS
  <2> QED BY <1>3, <1>4, <1>5, <2>1, <2>2, Zenon DEF AOTypes
<1>8. AOWaiting
  <2>1. Len(<<>>) = 0 /\ 1 .. 0 = {} OBVIOUS
  <2>2. Len(sent) = 0 /\ Len(step.buf) = 0 /\ fed = 0 /\ 1 .. Len(sent) = {} /\ 1 .. Len(step.buf) = {}
    BY <1>3, <1>5, <2>1, Zenon
  <2>3. BufferSize \in Nat \ {0} BY <1>4 DEF BufferSize
  <2> QED BY <2>2, <2>3 DEF AOWaiting
<1> QED BY <1>3, <1>6, <1>8 DEF AOInv

(***************************************************************************)
(* When the buffer is full, its image reaches the overlap to both sides of *)
(* the slots of the window, but for the first ones, which were seen before,*)
(* or which stand at the start of the observation.                         *)
(***************************************************************************)
LEMMA FullIsSeen ==
  ASSUME NEW w \in Nat \ {0}, NEW o \in Nat, NEW m \in Nat,
         NEW buf \in Seq(AOBuffer), Len(buf) = w + 2 * o,
         \A i \in 1 .. Len(buf) : buf[i].slot = m + i - 1,
         m > 0 => \A i \in 1 .. Len(buf) : i <= o => SeenBy(buf[i], o),
         NEW i \in 1 .. w + o
  PROVE  SeenBy(Flagged(buf)[i], o)
<1> DEFINE b == Flagged(buf)[i]
           image == [first |-> buf[1].slot, last |-> buf[Len(buf)].slot]
<1>1. i \in 1 .. Len(buf) /\ Len(buf) > 0 OBVIOUS
<1>2. b.slot = buf[i].slot /\ b.images = buf[i].images \cup {image} BY <1>1, FlaggedSlots
<1>3. 1 \in 1 .. Len(buf) /\ Len(buf) \in 1 .. Len(buf) OBVIOUS
<1>4. buf[1].slot = m /\ buf[Len(buf)].slot = m + w + 2 * o - 1 /\ buf[i].slot = m + i - 1
  BY <1>1, <1>3, SMTT(60)
<1>5. image.first = m /\ image.last = m + w + 2 * o - 1 BY <1>4
<1> HIDE DEF b, image
<1>6. CASE m > 0 /\ i <= o
  <2>1. SeenBy(buf[i], o) BY <1>1, <1>6
  <2> QED BY <2>1, <1>2, Zenon DEF SeenBy, b
<1>7. CASE ~(m > 0 /\ i <= o)
  <2>1. b.slot = m + i - 1 BY <1>2, <1>4
  <2>2. image.first <= b.slot - o \/ image.first = 0 BY <2>1, <1>5, <1>7
  <2>3. image.last >= b.slot + o BY <2>1, <1>5
  <2>4. image \in b.images BY <1>2
  <2> QED BY <2>2, <2>3, <2>4, Zenon DEF SeenBy, b
<1> QED BY <1>6, <1>7

\* The window is sent, the rest stays: all is sent now, rest waits.
SendsWindow(all, rest, w, o, m) ==
    /\ rest \in Seq(AOBuffer)
    /\ Len(rest) = 2 * o
    /\ all \in Seq(AOBuffer)
    /\ Len(all) = m + w
    /\ \A i \in 1 .. m + w : all[i].slot = i - 1 /\ SeenBy(all[i], o)
    /\ \A i \in 1 .. 2 * o : rest[i].slot = (m + w) + i - 1 /\ (i <= o => SeenBy(rest[i], o))

LEMMA FullSends ==
  ASSUME NEW w \in Nat \ {0}, NEW o \in Nat, NEW m \in Nat,
         NEW s \in Seq(AOBuffer), Len(s) = m,
         \A i \in 1 .. m : s[i].slot = i - 1 /\ SeenBy(s[i], o),
         NEW f \in Seq(AOBuffer), Len(f) = w + 2 * o,
         \A i \in 1 .. w + o : SeenBy(f[i], o),
         \A i \in 1 .. w + 2 * o : f[i].slot = m + i - 1
  PROVE  SendsWindow(s \o SubSeq(f, 1, w), SubSeq(f, w + 1, w + 2 * o), w, o, m)
<1> DEFINE first == SubSeq(f, 1, w)
           rest == SubSeq(f, w + 1, w + 2 * o)
           all == s \o first
<1>1. first \in Seq(AOBuffer) /\ Len(first) = w /\ \A i \in 1 .. w : first[i] = f[i]
  <2>1. 0 + 1 = 1 /\ w - 0 = w /\ 0 <= w /\ w <= Len(f) /\ \A i \in 1 .. w : 0 + i = i OBVIOUS
  <2> QED BY <2>1, SubSeqFacts
<1>2. rest \in Seq(AOBuffer) /\ Len(rest) = 2 * o /\ \A i \in 1 .. 2 * o : rest[i] = f[w + i]
  <2>1. w <= w + 2 * o /\ w + 2 * o <= Len(f) /\ (w + 2 * o) - w = 2 * o /\ w + 2 * o \in Nat OBVIOUS
  <2> QED BY <2>1, SubSeqFacts
<1> HIDE DEF first, rest
<1>3. all \in Seq(AOBuffer) /\ Len(all) = m + w
      /\ (\A i \in 1 .. m : all[i] = s[i]) /\ \A i \in 1 .. w : all[m + i] = first[i]
  <2>1. all \in Seq(AOBuffer) /\ Len(all) = Len(s) + Len(first)
        /\ (\A i \in 1 .. Len(s) : all[i] = s[i])
        /\ \A i \in 1 .. Len(first) : all[Len(s) + i] = first[i]
    <3>1. first \in Seq(AOBuffer) BY <1>1
    <3> QED BY <3>1, JoinedBuffers, Zenon
  <2> HIDE DEF all
  <2> QED BY <2>1, <1>1
<1> HIDE DEF all
<1>4. ASSUME NEW i \in 1 .. m + w PROVE all[i].slot = i - 1 /\ SeenBy(all[i], o)
  <2>1. CASE i \in 1 .. m BY <2>1, <1>3
  <2>2. CASE i \in m + 1 .. m + w
    <3>1. i - m \in 1 .. w /\ i = m + (i - m) BY <2>2
    <3>2. all[i] = f[i - m] BY <3>1, <1>1, <1>3
    <3>3. i - m \in 1 .. w + o /\ i - m \in 1 .. w + 2 * o
      <4>1. w \in Nat /\ 2 * o \in Nat OBVIOUS
      <4> QED BY <3>1, <4>1, LongerRange, Zenon
    <3>4. f[i - m].slot = m + (i - m) - 1 /\ SeenBy(f[i - m], o) BY <3>3
    <3> QED BY <3>2, <3>4
  <2> QED BY <2>1, <2>2
<1>5. ASSUME NEW i \in 1 .. 2 * o
      PROVE  rest[i].slot = (m + w) + i - 1 /\ (i <= o => SeenBy(rest[i], o))
  <2>1. w + i \in 1 .. w + 2 * o /\ (i <= o => w + i \in 1 .. w + o) OBVIOUS
  <2>2. rest[i] = f[w + i] BY <1>2
  <2>3. f[w + i].slot = m + (w + i) - 1 /\ (i <= o => SeenBy(f[w + i], o)) BY <2>1
  <2> QED BY <2>2, <2>3
<1>6. SendsWindow(all, rest, w, o, m) BY <1>2, <1>3, <1>4, <1>5 DEF SendsWindow
<1> QED BY <1>6 DEF first, rest, all

LEMMA AOProcessInv == AOInv /\ AOProcess => AOInv'
<1> SUFFICES ASSUME AOInv, AOProcess PROVE AOInv' OBVIOUS
<1> DEFINE buf == Append(step.buf, [slot |-> fed, images |-> {}])
           full == Len(buf) = BufferSize
           flagged == Flagged(buf)
           w == config.window
           o == config.overlap
           m == Len(sent)
<1>1. ~finished /\ config' = config /\ fed' = fed + 1 /\ finished' = finished
  BY DEF AOProcess, Processed, Given
<1>2. AOTypes /\ AOWaiting BY <1>1 DEF AOInv
<1>3. /\ step' = [buf |-> IF full THEN SubSeq(flagged, w + 1, Len(buf)) ELSE buf]
      /\ sent' = sent \o (IF full THEN SubSeq(flagged, 1, w) ELSE <<>>)
  BY Zenon DEF AOProcess, Processed, Send
<1>4. w \in Nat \ {0} /\ o \in Nat /\ fed \in Nat /\ BufferSize = w + 2 * o
      /\ step.buf \in Seq(AOBuffer) /\ sent \in Seq(AOBuffer) /\ m \in Nat
  BY <1>2 DEF AOTypes, BufferSize
<1>5. Len(step.buf) = fed - m /\ Len(step.buf) < w + 2 * o /\ Len(step.buf) \in Nat
      /\ (m > 0 => Len(step.buf) >= 2 * o)
  BY <1>2, <1>4 DEF AOWaiting
<1>6. [slot |-> fed, images |-> {}] \in AOBuffer BY <1>4 DEF AOBuffer
<1>7. buf \in Seq(AOBuffer) /\ Len(buf) = fed + 1 - m
      /\ (\A i \in 1 .. Len(step.buf) : buf[i] = step.buf[i])
      /\ buf[Len(step.buf) + 1] = [slot |-> fed, images |-> {}]
  <2>1. step.buf \in Seq(AOBuffer) BY <1>4
  <2>2. Len(buf) = Len(step.buf) + 1 BY <2>1, <1>6, AppendedFacts
  <2>3. Len(step.buf) + 1 = fed + 1 - m BY <1>4, <1>5
  <2> QED BY <2>1, <2>2, <2>3, <1>6, AppendedFacts
<1> HIDE DEF buf
<1>8. \A i \in 1 .. Len(buf) : buf[i].slot = m + i - 1
  <2> SUFFICES ASSUME NEW i \in 1 .. Len(buf) PROVE buf[i].slot = m + i - 1 OBVIOUS
  <2>1. CASE i \in 1 .. Len(step.buf)
    <3>1. buf[i] = step.buf[i] BY <1>7, <2>1
    <3>2. step.buf[i].slot = m + i - 1 BY <1>2, <2>1 DEF AOWaiting
    <3> QED BY <3>1, <3>2
  <2>2. CASE i = Len(step.buf) + 1
    <3>1. buf[i].slot = fed BY <1>7, <2>2
    <3> QED BY <1>4, <1>5, <2>2, <3>1
  <2>3. Len(buf) = Len(step.buf) + 1 /\ Len(step.buf) \in Nat BY <1>4, <1>5, <1>7
  <2>4. i \in 1 .. Len(step.buf) \/ i = Len(step.buf) + 1 BY <2>3
  <2> QED BY <2>1, <2>2, <2>4
<1>9. m > 0 => \A i \in 1 .. Len(buf) : i <= o => SeenBy(buf[i], o)
  <2> SUFFICES ASSUME m > 0, NEW i \in 1 .. Len(buf), i <= o PROVE SeenBy(buf[i], o)
    OBVIOUS
  <2>1. i \in 1 .. Len(step.buf) BY <1>4, <1>5, <1>7, SMTT(60)
  <2>2. SeenBy(step.buf[i], o) BY <1>2, <2>1 DEF AOWaiting
  <2>3. buf[i] = step.buf[i] BY <1>7, <2>1
  <2> QED BY <2>2, <2>3
<1>10. \A i \in 1 .. m : sent[i].slot = i - 1 /\ SeenBy(sent[i], o) BY <1>2 DEF AOWaiting
<1>11. CASE ~full
  <2>1. step' = [buf |-> buf] /\ sent' = sent \o <<>> BY <1>3, <1>11
  <2>2. step'.buf = buf /\ sent' = sent BY <2>1, <1>4
  <2>3. AOTypes' BY <1>1, <1>2, <1>7, <2>1, <2>2 DEF AOTypes
  <2>4. Len(buf) < w + 2 * o BY <1>4, <1>5, <1>7, <1>11, SMTT(60)
  <2>5. m > 0 => Len(buf) >= 2 * o BY <1>4, <1>5, <1>7
  <2>6. BufferSize' = w + 2 * o BY <1>1 DEF BufferSize
  <2>7. AOWaiting'
    <3>1. Len(step'.buf) = fed' - Len(sent') BY <1>1, <1>4, <1>7, <2>2
    <3>2. Len(step'.buf) < BufferSize' BY <2>2, <2>4, <2>6
    <3> QED BY <1>1, <1>8, <1>9, <1>10, <2>2, <2>5, <3>1, <3>2, Zenon DEF AOWaiting
  <2> QED BY <1>1, <2>3, <2>7 DEF AOInv
<1>12. CASE full
  <2>1. Len(buf) = w + 2 * o BY <1>4, <1>12
  <2>2. flagged \in Seq(AOBuffer) /\ Len(flagged) = w + 2 * o
        /\ \A i \in 1 .. Len(buf) : flagged[i].slot = buf[i].slot
    BY <1>4, <1>7, <2>1, FlaggedSlots, SMTT(60)
  <2>3. \A i \in 1 .. w + o : SeenBy(flagged[i], o)
    BY <1>4, <1>7, <1>8, <1>9, <2>1, FullIsSeen
  <2>4. \A i \in 1 .. w + 2 * o : flagged[i].slot = m + i - 1 BY <1>8, <2>1, <2>2
  <2> HIDE DEF flagged
  <2> DEFINE rest == SubSeq(flagged, w + 1, w + 2 * o)
             all == sent \o SubSeq(flagged, 1, w)
  <2>5. step' = [buf |-> rest] /\ sent' = all BY <1>3, <1>12, <2>1
  <2>6. SendsWindow(all, rest, w, o, m)
    <3>1. sent \in Seq(AOBuffer) /\ Len(sent) = m /\ w \in Nat \ {0} /\ o \in Nat /\ m \in Nat BY <1>4
    <3>2. flagged \in Seq(AOBuffer) /\ Len(flagged) = w + 2 * o BY <2>2
    <3> HIDE DEF w, o, m
    <3> QED BY <1>10, <2>3, <2>4, <3>1, <3>2, FullSends
  <2> HIDE DEF rest, all
  <2>7. /\ rest \in Seq(AOBuffer) /\ Len(rest) = 2 * o
        /\ all \in Seq(AOBuffer) /\ Len(all) = m + w
        /\ \A i \in 1 .. m + w : all[i].slot = i - 1 /\ SeenBy(all[i], o)
        /\ \A i \in 1 .. 2 * o : rest[i].slot = (m + w) + i - 1 /\ (i <= o => SeenBy(rest[i], o))
    BY <2>6 DEF SendsWindow
  <2>8. step'.buf = rest BY <2>5
  <2>10. AOTypes' BY <1>1, <1>2, <2>5, <2>7, <2>8 DEF AOTypes
  <2>13. BufferSize' = w + 2 * o BY <1>1 DEF BufferSize
  <2>14. 2 * o = (fed + 1) - (m + w) /\ 2 * o < w + 2 * o
    <3>1. fed + 1 - m = w + 2 * o BY <1>7, <2>1, SMTT(60)
    <3> QED BY <3>1, <1>4, SMTT(60)
  <2>15. AOWaiting'
    <3>1. Len(step'.buf) = fed' - Len(sent') BY <1>1, <2>5, <2>7, <2>8, <2>14
    <3>2. Len(step'.buf) < BufferSize' BY <2>7, <2>8, <2>13, <2>14
    <3>3. Len(step'.buf) >= 2 * config'.overlap BY <1>1, <1>4, <2>7, <2>8
    <3> QED BY <1>1, <2>5, <2>7, <2>8, <3>1, <3>2, <3>3, Zenon DEF AOWaiting
  <2> QED BY <1>1, <2>10, <2>15 DEF AOInv
<1> QED BY <1>11, <1>12

LEMMA AOFinishInv == AOInv /\ AOFinish => AOInv'
<1> SUFFICES ASSUME AOInv, AOFinish PROVE AOInv' OBVIOUS
<1> DEFINE buf == step.buf
           flagged == Flagged(buf)
           o == config.overlap
           m == Len(sent)
<1>1. ~finished /\ config' = config /\ fed' = fed /\ finished' = TRUE /\ step' = [buf |-> <<>>]
      /\ sent' = sent \o flagged
  BY DEF AOFinish, Ended, Send
<1>2. AOTypes /\ AOWaiting BY <1>1 DEF AOInv
<1>3. o \in Nat /\ fed \in Nat /\ buf \in Seq(AOBuffer) /\ sent \in Seq(AOBuffer) /\ m \in Nat
  BY <1>2 DEF AOTypes
<1>4. Len(buf) = fed - m /\ Len(buf) \in Nat /\ (m > 0 => Len(buf) >= 2 * o)
      /\ (\A i \in 1 .. Len(buf) : buf[i].slot = m + i - 1)
      /\ (m > 0 => \A i \in 1 .. Len(buf) : i <= o => SeenBy(buf[i], o))
      /\ \A i \in 1 .. m : sent[i].slot = i - 1 /\ SeenBy(sent[i], o)
  BY <1>2, <1>3 DEF AOWaiting
<1>5. step'.buf = <<>> BY <1>1
<1>6. ASSUME NEW b, SeenBy(b, o) PROVE SeenAtEnd(b, o, fed)
  BY <1>6, Zenon DEF SeenBy, SeenAtEnd
<1>7. CASE Len(buf) = 0
  <2>1. flagged = <<>> BY <1>3, <1>7 DEF Flagged
  <2>2. sent' = sent /\ m = fed BY <2>1, <1>1, <1>3, <1>4, <1>7
  <2>3. AOTypes' BY <1>1, <1>2, <1>5, <2>2 DEF AOTypes
  <2>4. (\A i \in 1 .. Len(sent') : sent'[i].slot = i - 1 /\ SeenAtEnd(sent'[i], config'.overlap, fed'))
        /\ Len(sent') = fed'
    <3>1. ASSUME NEW i \in 1 .. Len(sent)
          PROVE  sent[i].slot = i - 1 /\ SeenAtEnd(sent[i], o, fed)
      <4>1. sent[i].slot = i - 1 /\ SeenBy(sent[i], o) BY <1>4
      <4> QED BY <4>1, <1>6
    <3>2. Len(sent') = fed' BY <1>1, <2>2
    <3> QED BY <1>1, <3>1, <3>2, <2>2, Zenon
  <2> QED BY <1>1, <2>3, <2>4 DEF AOInv
<1>8. CASE Len(buf) > 0
  <2> DEFINE n == Len(buf)
             image == [first |-> buf[1].slot, last |-> buf[n].slot]
  <2>1. flagged \in Seq(AOBuffer) /\ Len(flagged) = n
        /\ \A i \in 1 .. n : flagged[i].slot = buf[i].slot
                             /\ flagged[i].images = buf[i].images \cup {image}
    BY <1>3, <1>8, FlaggedSlots
  <2> HIDE DEF flagged
  <2>2. sent' \in Seq(AOBuffer) /\ Len(sent') = m + n
        /\ (\A i \in 1 .. m : sent'[i] = sent[i])
        /\ \A i \in 1 .. n : sent'[m + i] = flagged[i]
    <3>1. sent' = sent \o flagged BY <1>1
    <3>2. /\ sent \o flagged \in Seq(AOBuffer) /\ Len(sent \o flagged) = Len(sent) + Len(flagged)
          /\ \A i \in 1 .. Len(sent) : (sent \o flagged)[i] = sent[i]
          /\ \A i \in 1 .. Len(flagged) : (sent \o flagged)[Len(sent) + i] = flagged[i]
      <4>1. sent \in Seq(AOBuffer) /\ flagged \in Seq(AOBuffer) BY <1>3, <2>1
      <4> QED BY <4>1
    <3>3. Len(flagged) = n BY <2>1
    <3> QED BY <3>1, <3>2, <3>3, Zenon
  <2>3. AOTypes' BY <1>1, <1>2, <1>5, <2>2 DEF AOTypes
  <2>4. image.first = m /\ image.last = fed - 1
    <3>1. 1 \in 1 .. n /\ n \in 1 .. n BY <1>4, <1>8
    <3>2. \A i \in 1 .. n : buf[i].slot = m + i - 1 BY <1>4
    <3>3. buf[1].slot = m + 1 - 1 /\ buf[n].slot = m + n - 1 BY <3>1, <3>2
    <3>4. m + 1 - 1 = m BY <1>3
    <3>5. m + n - 1 = fed - 1 BY <1>3, <1>4
    <3> QED BY <3>3, <3>4, <3>5
  <2> HIDE DEF image
  <2>5. ASSUME NEW i \in 1 .. n PROVE flagged[i].slot = m + i - 1 /\ SeenAtEnd(flagged[i], o, fed)
    <3>1. flagged[i].slot = m + i - 1 /\ flagged[i].slot = buf[i].slot
          /\ flagged[i].images = buf[i].images \cup {image}
      BY <1>4, <2>1
    <3>2. CASE m > 0 /\ i <= o
      <4>1. SeenBy(buf[i], o) BY <1>4, <3>2
      <4>2. SeenBy(flagged[i], o) BY <4>1, <3>1, Zenon DEF SeenBy
      <4> QED BY <4>2, <3>1, <1>6
    <3>3. CASE ~(m > 0 /\ i <= o)
      <4>1. image.first <= flagged[i].slot - o \/ image.first = 0
        BY <1>3, <2>4, <3>1, <3>3
      <4>2. image \in flagged[i].images BY <3>1
      <4>3. image.last = fed - 1 BY <2>4
      <4>4. SeenAtEnd(flagged[i], o, fed) BY <4>1, <4>2, <4>3, Zenon DEF SeenAtEnd
      <4> QED BY <3>1, <4>4
    <3> QED BY <3>2, <3>3
  <2>6. (\A i \in 1 .. Len(sent') : sent'[i].slot = i - 1 /\ SeenAtEnd(sent'[i], config'.overlap, fed'))
        /\ Len(sent') = fed'
    <3>1. ASSUME NEW i \in 1 .. m + n PROVE sent'[i].slot = i - 1 /\ SeenAtEnd(sent'[i], o, fed)
      <4>1. CASE i \in 1 .. m
        <5>1. sent'[i] = sent[i] BY <4>1, <2>2
        <5>2. sent[i].slot = i - 1 /\ SeenBy(sent[i], o) BY <4>1, <1>4
        <5> QED BY <5>1, <5>2, <1>6
      <4>2. CASE i \in m + 1 .. m + n
        <5>1. i - m \in 1 .. n /\ i = m + (i - m) BY <4>2, <1>3, <1>4
        <5>2. sent'[i] = flagged[i - m] BY <5>1, <2>2
        <5>3. flagged[i - m].slot = m + (i - m) - 1 /\ SeenAtEnd(flagged[i - m], o, fed)
          BY <5>1, <2>5, Zenon
        <5> QED BY <5>2, <5>3, <1>3
      <4> QED BY <4>1, <4>2, <1>3, <1>4
    <3>2. Len(sent') = fed' BY <1>1, <1>3, <1>4, <2>2
    <3>3. Len(sent') = m + n BY <2>2
    <3> QED BY <1>1, <3>1, <3>2, <3>3, Zenon
  <2> QED BY <1>1, <2>3, <2>6 DEF AOInv
<1> QED BY <1>4, <1>7, <1>8

LEMMA AOStutterInv == AOInv /\ UNCHANGED calls => AOInv'
  BY DEF AOInv, AOTypes, AOWaiting, BufferSize, calls

LEMMA AONextInv == AOInv /\ [AONext]_calls => AOInv'
  BY AOProcessInv, AOFinishInv, AOStutterInv DEF AONext

LEMMA AOInvIsEnough == AOInv => SlotsAreFlaggedWithOverlap
<1> SUFFICES ASSUME AOInv PROVE SlotsAreFlaggedWithOverlap OBVIOUS
<1>1. CASE ~finished
  <2>1. \A i \in 1 .. Len(sent) : sent[i].slot = i - 1 /\ SeenBy(sent[i], config.overlap)
    BY <1>1 DEF AOInv, AOWaiting
  <2>2. \A b : SeenBy(b, config.overlap) => SeenWithOverlap(b)
    BY Zenon DEF SeenBy, SeenWithOverlap
  <2> QED BY <1>1, <2>1, <2>2 DEF SlotsAreFlaggedWithOverlap
<1>2. CASE finished
  <2>1. \A b : SeenAtEnd(b, config.overlap, fed) => SeenWithOverlap(b)
    BY <1>2, Zenon DEF SeenAtEnd, SeenWithOverlap
  <2> QED BY <1>2, <2>1 DEF SlotsAreFlaggedWithOverlap, AOInv
<1> QED BY <1>1, <1>2

(***************************************************************************)
(* For every size of the windows and of the overlap that the settings can  *)
(* give, every slot is sent once and was seen with its overlap.            *)
(***************************************************************************)
THEOREM EverySlotIsFlaggedWithOverlap ==
  ASSUME SizesGiven
  PROVE  AOSpec => []SlotsAreFlaggedWithOverlap
<1>1. AOInit => AOInv BY AOInitInv
<1>2. AOInv /\ [AONext]_calls => AOInv' BY AONextInv
<1>3. AOInv => SlotsAreFlaggedWithOverlap BY AOInvIsEnough
<1> QED BY <1>1, <1>2, <1>3, PTL DEF AOSpec

-----------------------------------------------------------------------------
(***************************************************************************)
(* Upsampler: every time of the output is sent once, and with data.        *)
(***************************************************************************)
\* The constants: a slot becomes one or more; the times of the input are off the
\* output's grid by less than what the step takes for the same time.
UpsamplerGiven == UpsampleFactors \subseteq Nat \ {0} /\ Jitter \subseteq 0 .. Tolerance

\* The output's grid: the middle of interval 0, and a time in interval g.
Offset(f) == Unit \div 2 - (Unit * f) \div 2
IsAt(time, g, f) == time - Offset(f) \in Unit * g .. Unit * g + Tolerance

Slots == [time : Int, flagged : BOOLEAN]
Copies == [time : Int, flagged : BOOLEAN, of : Nat]

\* The copies for the f intervals from g on.
CopiesFrom(copies, g, flagged, f) ==
    /\ copies \in Seq(Copies) /\ Len(copies) = f
    /\ \A i \in 1 .. f : IsAt(copies[i].time, g + i - 1, f) /\ copies[i].flagged = flagged

OnGrid(t) == t \in Int /\ t <= Unit * (t \div Unit) + Tolerance
IntervalOfInput(input, m) == input[m].time \div Unit

\* What was sent is in order, and ends before interval g.
Rises(out) == \A i \in 1 .. Len(out) - 1 : out[i].time + Tolerance < out[i + 1].time
EndsBefore(out, g, f) == Len(out) > 0 => IsAt(out[Len(out)].time, g - 1, f)

\* It has interval g, with data if the copy has.
Covers(out, g, flagged, f) ==
    \E i \in 1 .. Len(out) : IsAt(out[i].time, g, f) /\ (out[i].flagged => flagged)

\* It will have it: a copy of the last slot waits, which is not yet replaced.
IsToCome(input, n, first, g, flagged, f) ==
    /\ g \in IntervalOfInput(input, n) + first .. IntervalOfInput(input, n) + f - 1
    /\ input[n].flagged => flagged

UpTypes ==
    /\ config.factor \in Nat \ {0} /\ fed \in Nat /\ finished \in BOOLEAN
    /\ step = [prev |-> step.prev, first |-> step.first, input |-> step.input]
    /\ step.input \in Seq(Slots) /\ Len(step.input) = fed
    /\ \A m \in 1 .. fed : OnGrid(step.input[m].time)
    /\ sent \in Seq(Copies)

\* The first copies of the last slot that were replaced are those that the slot
\* before it has, too.
UpPrev ==
    IF fed = 0 THEN step.prev = <<>> /\ step.first = 0 /\ sent = <<>>
    ELSE /\ CopiesFrom(step.prev, IntervalOfInput(step.input, fed), step.input[fed].flagged, config.factor)
         /\ step.first \in 0 .. config.factor - 1
         /\ step.first > 0 =>
              /\ fed > 1
              /\ step.first = config.factor - (IntervalOfInput(step.input, fed)
                                               - IntervalOfInput(step.input, fed - 1))

UpSent ==
    /\ Rises(sent)
    /\ ~finished /\ fed > 0 =>
         EndsBefore(sent, IntervalOfInput(step.input, fed) + step.first, config.factor)
    /\ \A m \in 1 .. fed : \A j \in 1 .. config.factor :
         LET g == IntervalOfInput(step.input, m) + j - 1
         IN  \/ Covers(sent, g, step.input[m].flagged, config.factor)
             \/ ~finished /\ IsToCome(step.input, fed, step.first, g, step.input[m].flagged, config.factor)

UpInv == UpTypes /\ UpPrev /\ UpSent

-----------------------------------------------------------------------------
LEMMA OffsetType == \A f \in Nat : Offset(f) \in Int
  BY DEF Offset, Unit

LEMMA SameInterval ==
  ASSUME NEW s \in Int, NEW t \in Int, NEW g \in Int, NEW f \in Nat, IsAt(s, g, f), IsAt(t, g, f)
  PROVE  NearAbs(s, t)
  BY OffsetType DEF IsAt, NearAbs, Unit, Tolerance

LEMMA LaterInterval ==
  ASSUME NEW s \in Int, NEW t \in Int, NEW g \in Int, NEW h \in Int, NEW f \in Nat,
         IsAt(s, g, f), IsAt(t, h, f), g < h
  PROVE  s + Tolerance < t /\ s <= t /\ ~(t <= s) /\ ~NearAbs(s, t) /\ ~NearAbs(t, s)
  BY OffsetType DEF IsAt, NearAbs, Unit, Tolerance

LEMMA CopiesAre ==
  ASSUME NEW t, OnGrid(t), NEW x \in BOOLEAN, config.factor \in Nat \ {0}, fed \in Nat
  PROVE  CopiesFrom(Duplicates([time |-> t, flagged |-> x]), t \div Unit, x, config.factor)
<1> DEFINE b == [time |-> t, flagged |-> x]
           f == config.factor
           c == Duplicates(b)
           At(i) == t - (Unit * f) \div 2 + Unit * (i - 1) + Unit \div 2
<1>1. t \in Int /\ f \in Nat \ {0} BY DEF OnGrid
<1>2. c = [i \in 1 .. f |-> [time |-> At(i), flagged |-> x, of |-> fed]] BY DEF Duplicates
<1>3. \A i \in 1 .. f : At(i) \in Int BY <1>1 DEF Unit
<1>4. \A i \in 1 .. f : IsAt(At(i), t \div Unit + i - 1, f)
  <2> TAKE i \in 1 .. f
  <2>1. PICK h \in Int : h = (Unit * f) \div 2 BY <1>1 DEF Unit
  <2>2. PICK k \in Int : k = t \div Unit BY <1>1 DEF Unit
  <2>3. Unit * k <= t /\ t <= Unit * k + Tolerance BY <1>1, <2>2 DEF OnGrid, Unit
  <2>4. Offset(f) = 5 - h /\ At(i) = t - h + 10 * (i - 1) + 5 BY <2>1 DEF Offset, Unit
  <2> HIDE DEF At, f
  <2>5. At(i) - Offset(f) \in Unit * (k + i - 1) .. Unit * (k + i - 1) + Tolerance
    BY <1>1, <2>3, <2>4 DEF Unit, Tolerance
  <2> QED BY <2>2, <2>5 DEF IsAt
<1> HIDE DEF At
<1>5. \A i \in 1 .. f : c[i] \in Copies /\ c[i].time = At(i) /\ c[i].flagged = x
  BY <1>2, <1>3 DEF Copies
<1>6. c \in Seq(Copies) /\ Len(c) = f
  <2>1. DOMAIN c = 1 .. f BY <1>2
  <2>2. c \in [1 .. f -> Copies] BY <1>2, <1>5
  <2> HIDE DEF c, f
  <2> QED BY <1>1, <2>1, <2>2
<1> QED BY <1>4, <1>5, <1>6 DEF CopiesFrom

LEMMA CopyIs ==
  ASSUME NEW copies, NEW g, NEW y, NEW f \in Nat, CopiesFrom(copies, g, y, f), NEW i \in 1 .. f
  PROVE  copies[i].time \in Int /\ IsAt(copies[i].time, g + i - 1, f) /\ copies[i].flagged = y
<1>1. copies \in Seq(Copies) /\ Len(copies) = f BY DEF CopiesFrom
<1>2. copies[i] \in Copies BY <1>1
<1>3. IsAt(copies[i].time, g + i - 1, f) /\ copies[i].flagged = y BY Zenon DEF CopiesFrom
<1> QED BY <1>2, <1>3 DEF Copies

-----------------------------------------------------------------------------
\* The buffers of a call: those of the last slot, from g on, and those of the new
\* one, d intervals later.
Facing(current, g, x, d) ==
    /\ config.factor \in Nat \ {0} /\ g \in Int /\ d \in 1 .. config.factor
    /\ step.first \in 0 .. d /\ step.first < config.factor /\ x \in BOOLEAN
    /\ \E y : CopiesFrom(step.prev, g, y, config.factor)
    /\ CopiesFrom(current, g + d, x, config.factor)

LEMMA CurIndexIs ==
  ASSUME NEW current, NEW g, NEW x, NEW d, Facing(current, g, x, d), NEW p \in 1 .. config.factor
  PROVE  /\ p <= d => CurIndex(p, current) = 1 /\ ~IsDouble(p, current)
         /\ p > d => CurIndex(p, current) = p - d /\ IsDouble(p, current)
<1> DEFINE f == config.factor
           NotBefore(c) == \/ NearAbs(step.prev[p].time, current[c].time)
                           \/ step.prev[p].time <= current[c].time
<1>1. f \in Nat \ {0} /\ g \in Int /\ d \in 1 .. f /\ p \in 1 .. f BY DEF Facing
<1>2. step.prev[p].time \in Int /\ IsAt(step.prev[p].time, g + p - 1, f)
  <2>1. PICK y : CopiesFrom(step.prev, g, y, f) BY DEF Facing
  <2> QED BY <1>1, <2>1, CopyIs
<1>3. \A c \in 1 .. f : current[c].time \in Int /\ IsAt(current[c].time, g + d + c - 1, f)
  <2>1. CopiesFrom(current, g + d, x, f) BY DEF Facing
  <2> QED BY <1>1, <2>1, CopyIs
<1>4. ASSUME NEW c \in 1 .. f
      PROVE  /\ NearAbs(step.prev[p].time, current[c].time) <=> p = d + c
             /\ NotBefore(c) <=> p <= d + c
  <2>1. PICK s \in Int, t \in Int, u \in Int, v \in Int :
           /\ s = step.prev[p].time /\ t = current[c].time /\ u = g + p - 1 /\ v = g + d + c - 1
           /\ IsAt(s, u, f) /\ IsAt(t, v, f)
    BY <1>1, <1>2, <1>3
  <2>2. (u = v <=> p = d + c) /\ (u < v <=> p < d + c) /\ (v < u <=> p > d + c) BY <1>1, <2>1
  <2>3. CASE p = d + c BY <1>1, <2>1, <2>2, <2>3, SameInterval
  <2>4. CASE p < d + c
    <3>1. s <= t /\ ~NearAbs(s, t) BY <1>1, <2>1, <2>2, <2>4, LaterInterval
    <3> QED BY <1>1, <2>1, <2>4, <3>1
  <2>5. CASE p > d + c
    <3>1. ~(s <= t) /\ ~NearAbs(s, t) BY <1>1, <2>1, <2>2, <2>5, LaterInterval
    <3> QED BY <1>1, <2>1, <2>5, <3>1
  <2> QED BY <1>1, <2>3, <2>4, <2>5
<1>5. CurIndex(p, current) = CHOOSE c \in 1 .. f : NotBefore(c) /\ \A e \in 1 .. c - 1 : ~NotBefore(e)
  BY DEF CurIndex
<1> HIDE DEF NotBefore
<1>6. PICK c \in 1 .. f : c = IF p <= d THEN 1 ELSE p - d BY <1>1
<1>7. NotBefore(c) /\ \A e \in 1 .. c - 1 : ~NotBefore(e) BY <1>1, <1>4, <1>6
<1>8. \A b \in 1 .. f : NotBefore(b) /\ (\A e \in 1 .. b - 1 : ~NotBefore(e)) => b = c
  <2> SUFFICES ASSUME NEW b \in 1 .. f, NotBefore(b), \A e \in 1 .. b - 1 : ~NotBefore(e) PROVE b = c
    OBVIOUS
  <2>1. ~(c < b) BY <1>1, <1>7
  <2>2. ~(b < c) BY <1>1, <1>7
  <2> QED BY <1>1, <2>1, <2>2
<1>9. CurIndex(p, current) = c BY <1>5, <1>7, <1>8
<1>10. IsDouble(p, current) <=> p = d + c BY <1>4, <1>9 DEF IsDouble
<1> QED BY <1>1, <1>6, <1>9, <1>10

\* Either all previous buffers are sent, or those that the current ones do not replace.
LEMMA FlushedAre ==
  ASSUME NEW current, NEW g, NEW x, NEW d, Facing(current, g, x, d)
  PROVE  \/ /\ x \/ d = config.factor
            /\ LastFlushed(current) = config.factor
            /\ NextFirst(current) = config.factor - d
         \/ /\ ~x /\ d < config.factor
            /\ LastFlushed(current) = d /\ NextFirst(current) = 0
<1> DEFINE f == config.factor
           first == step.first
<1>1. /\ f \in Nat \ {0} /\ d \in 1 .. f /\ first \in 0 .. d /\ first < f /\ x \in BOOLEAN
  BY DEF Facing
<1>2. \A c \in 1 .. f : current[c].flagged = x BY DEF Facing, CopiesFrom
<1>3. \A p \in 1 .. f : (IsDouble(p, current) <=> p > d) /\ CurIndex(p, current) \in 1 .. f
  BY <1>1, CurIndexIs
<1>4. Stops(current) = {p \in first + 1 .. f : p > d /\ ~x}
  <2>1. \A p \in first + 1 .. f : p \in 1 .. f BY <1>1
  <2>2. Stops(current) = {p \in first + 1 .. f : IsDouble(p, current) /\ ~current[CurIndex(p, current)].flagged}
    BY DEF Stops, LookedAt
  <2> QED BY <1>2, <1>3, <2>1, <2>2
<1>5. LookedAt # {} BY <1>1 DEF LookedAt
<1>6. CurIndex(f, current) = IF f > d THEN f - d ELSE 1
  BY <1>1, CurIndexIs
<1> DEFINE e == IF x \/ d = f THEN f ELSE d
           Ends(p) == (p = f \/ p + 1 \in Stops(current))
                      /\ \A q \in first + 1 .. p : q \notin Stops(current)
<1>7. e \in first .. f /\ Ends(e) BY <1>1, <1>4
<1>8. \A p \in first .. f : Ends(p) => p = e BY <1>1, <1>4
<1>9. LastFlushed(current) = CHOOSE p \in first .. f : Ends(p) BY Zenon DEF LastFlushed
<1> HIDE DEF Ends
<1>10. LastFlushed(current) = e BY <1>7, <1>8, <1>9
<1>11. Stops(current) # {} <=> ~x /\ d < f BY <1>1, <1>4
<1>12. NextFirst(current) = IF Stops(current) # {} THEN 0
                            ELSE IF IsDouble(f, current) THEN CurIndex(f, current) ELSE 0
  BY <1>5 DEF NextFirst, FirstToFlush
<1>13. IsDouble(f, current) <=> f > d BY <1>1, <1>3
<1> HIDE DEF f
<1>14. CASE x \/ d = f
  <2>1. NextFirst(current) = f - d BY <1>1, <1>6, <1>11, <1>12, <1>13, <1>14
  <2> QED BY <1>10, <1>14, <2>1 DEF f
<1>15. CASE ~x /\ d # f
  <2>1. NextFirst(current) = 0 /\ d < f BY <1>1, <1>11, <1>12, <1>15
  <2> QED BY <1>10, <1>15, <2>1 DEF f
<1> QED BY <1>1, <1>14, <1>15

-----------------------------------------------------------------------------
\* Sending the copies after number first, up to number e.
LEMMA SendCopies ==
  ASSUME NEW out \in Seq(Copies), NEW copies, NEW g \in Int, NEW y \in BOOLEAN, NEW f \in Nat \ {0},
         CopiesFrom(copies, g, y, f), NEW first \in 0 .. f, NEW e \in first .. f,
         Rises(out), EndsBefore(out, g + first, f)
  PROVE  LET new == out \o SubSeq(copies, first + 1, e)
         IN  /\ new \in Seq(Copies) /\ Rises(new) /\ EndsBefore(new, g + e, f)
             /\ \A h \in Int : \A x : Covers(out, h, x, f) => Covers(new, h, x, f)
             /\ \A h \in Int : \A x : h \in g + first .. g + e - 1 /\ (y => x) => Covers(new, h, x, f)
<1> DEFINE part == SubSeq(copies, first + 1, e)
           new == out \o part
           l == Len(out)
           n == e - first
<1>1. copies \in Seq(Copies) /\ Len(copies) = f BY DEF CopiesFrom
<1>2. part \in Seq(Copies) /\ Len(part) = n /\ \A i \in 1 .. n : part[i] = copies[first + i]
  BY <1>1
<1> HIDE DEF part
<1>3. /\ new \in Seq(Copies) /\ Len(new) = l + n
      /\ \A i \in 1 .. l : new[i] = out[i]
      /\ \A i \in 1 .. n : new[l + i] = copies[first + i]
  <2>1. /\ new \in Seq(Copies) /\ Len(new) = Len(out) + Len(part)
        /\ \A i \in 1 .. Len(out) : new[i] = out[i]
        /\ \A i \in 1 .. Len(part) : new[Len(out) + i] = part[i]
    <3>1. part \in Seq(Copies) BY <1>2
    <3>2. PICK s \in Seq(Copies) : s = out OBVIOUS
    <3>3. PICK t \in Seq(Copies) : t = part BY <3>1
    <3>4. /\ s \o t \in Seq(Copies) /\ Len(s \o t) = Len(s) + Len(t)
          /\ \A i \in 1 .. Len(s) : (s \o t)[i] = s[i]
          /\ \A i \in 1 .. Len(t) : (s \o t)[Len(s) + i] = t[i]
      BY JoinedFacts
    <3> QED BY <3>2, <3>3, <3>4, Zenon
  <2> HIDE DEF new
  <2> QED BY <1>2, <2>1
<1> HIDE DEF new
<1>4. l \in Nat /\ n \in Nat OBVIOUS
<1>5. \A i \in 1 .. n : new[l + i].time \in Int /\ IsAt(new[l + i].time, g + first + i - 1, f)
                        /\ new[l + i].flagged = y
  <2> TAKE i \in 1 .. n
  <2>1. PICK k \in 1 .. f : k = first + i BY <1>4
  <2>2. copies[k].time \in Int /\ IsAt(copies[k].time, g + k - 1, f) /\ copies[k].flagged = y
    BY <2>1, CopyIs
  <2>3. g + k - 1 = g + first + i - 1 BY <1>4, <2>1
  <2> QED BY <1>3, <2>1, <2>2, <2>3
<1> HIDE DEF n, l
<1>6. Rises(new)
  <2> SUFFICES \A i \in 1 .. (l + n) - 1 : new[i].time + Tolerance < new[i + 1].time
    BY <1>3, Zenon DEF Rises
  <2> TAKE i \in 1 .. (l + n) - 1
  <2>1. CASE i + 1 <= l
    <3>1. i \in 1 .. l - 1 /\ i \in 1 .. l /\ i + 1 \in 1 .. l BY <1>4, <2>1
    <3> QED BY <1>3, <3>1 DEF Rises, l
  <2>2. CASE i = l
    <3>1. l > 0 /\ n >= 1 /\ 1 \in 1 .. n /\ l \in 1 .. l BY <1>4, <2>2
    <3>2. IsAt(new[l].time, g + first - 1, f) /\ new[l].time \in Int
      <4>1. new[l] = out[l] BY <1>3, <3>1
      <4>2. out[l] \in Copies BY <3>1 DEF l
      <4>3. IsAt(out[l].time, (g + first) - 1, f) BY <3>1, Zenon DEF EndsBefore, l
      <4>4. (g + first) - 1 = g + first - 1 OBVIOUS
      <4> QED BY <4>1, <4>2, <4>3, <4>4 DEF Copies
    <3>3. IsAt(new[l + 1].time, g + first + 1 - 1, f) /\ new[l + 1].time \in Int BY <1>5, <3>1
    <3>4. g + first - 1 \in Int /\ g + first + 1 - 1 \in Int /\ g + first - 1 < g + first + 1 - 1 OBVIOUS
    <3> QED BY <2>2, <3>2, <3>3, <3>4, LaterInterval
  <2>3. CASE i > l
    <3>1. PICK j \in 1 .. n : i = l + j /\ j + 1 \in 1 .. n /\ i + 1 = l + (j + 1)
      <4>1. i - l \in 1 .. n /\ i - l + 1 \in 1 .. n BY <1>4, <2>3
      <4>2. i = l + (i - l) /\ i + 1 = l + (i - l + 1) BY <1>4
      <4> QED BY <4>1, <4>2
    <3>2. IsAt(new[i].time, g + first + j - 1, f) /\ new[i].time \in Int BY <1>5, <3>1
    <3>3. IsAt(new[i + 1].time, g + first + (j + 1) - 1, f) /\ new[i + 1].time \in Int BY <1>5, <3>1
    <3>4. /\ g + first + j - 1 \in Int /\ g + first + (j + 1) - 1 \in Int
          /\ g + first + j - 1 < g + first + (j + 1) - 1
      BY <1>4, <3>1
    <3> QED BY <3>2, <3>3, <3>4, LaterInterval
  <2> QED BY <1>4, <2>1, <2>2, <2>3
<1>7. EndsBefore(new, g + e, f)
  <2>1. CASE n = 0
    <3>1. e = first /\ Len(new) = l BY <1>3, <1>4, <2>1 DEF n
    <3>2. l > 0 => l \in 1 .. l /\ new[l] = out[l] BY <1>3, <1>4
    <3> QED BY <3>1, <3>2 DEF EndsBefore, l
  <2>2. CASE n > 0
    <3>1. n \in 1 .. n /\ g + first + n - 1 = g + e - 1 BY <1>4, <2>2 DEF n
    <3>2. IsAt(new[l + n].time, g + e - 1, f) BY <1>5, <3>1
    <3> QED BY <1>3, <3>2 DEF EndsBefore
  <2> QED BY <1>4, <2>1, <2>2
<1>8. ASSUME NEW h \in Int, NEW x, Covers(out, h, x, f) PROVE Covers(new, h, x, f)
  <2>1. PICK i \in 1 .. l : IsAt(out[i].time, h, f) /\ (out[i].flagged => x) BY <1>8 DEF Covers, l
  <2>2. i \in 1 .. Len(new) /\ new[i] = out[i] BY <1>3, <1>4, <2>1
  <2> QED BY <2>1, <2>2 DEF Covers
<1>9. ASSUME NEW h \in Int, NEW x, h \in g + first .. g + e - 1, y => x PROVE Covers(new, h, x, f)
  <2>1. PICK i \in 1 .. n : h = g + first + i - 1
    <3>1. h - g - first + 1 \in 1 .. n BY <1>4, <1>9 DEF n
    <3>2. h = g + first + (h - g - first + 1) - 1 OBVIOUS
    <3> QED BY <3>1, <3>2
  <2>2. IsAt(new[l + i].time, h, f) /\ new[l + i].flagged = y BY <1>5, <2>1
  <2>3. l + i \in 1 .. Len(new) BY <1>3, <1>4, <2>1
  <2> QED BY <1>9, <2>2, <2>3 DEF Covers
<1> QED BY <1>3, <1>6, <1>7, <1>8, <1>9 DEF new, part

-----------------------------------------------------------------------------
LEMMA UpInitInv == UpsamplerGiven /\ UpInit => UpInv
<1> SUFFICES ASSUME UpsamplerGiven, UpInit PROVE UpInv OBVIOUS
<1>1. PICK n \in 1 .. MaxSlots, f \in UpsampleFactors :
         Start([ntime |-> n, factor |-> f], [prev |-> <<>>, first |-> 0, input |-> <<>>])
  BY DEF UpInit
<1>2. /\ config = [ntime |-> n, factor |-> f] /\ step = [prev |-> <<>>, first |-> 0, input |-> <<>>]
      /\ fed = 0 /\ sent = <<>> /\ finished = FALSE
  BY <1>1 DEF Start
<1>3. f \in Nat \ {0} BY DEF UpsamplerGiven
<1>4. UpTypes
  <2>1. config.factor \in Nat \ {0} BY <1>2, <1>3
  <2>2. step = [prev |-> step.prev, first |-> step.first, input |-> step.input] BY <1>2
  <2>3. step.input = <<>> BY <1>2
  <2>4. step.input \in Seq(Slots) /\ Len(step.input) = fed
    <3>1. <<>> \in Seq(Slots) /\ Len(<<>>) = 0 OBVIOUS
    <3> QED BY <1>2, <2>3, <3>1
  <2>5. sent \in Seq(Copies) BY <1>2
  <2>6. \A m \in 1 .. fed : OnGrid(step.input[m].time) BY <1>2
  <2>7. fed \in Nat /\ finished \in BOOLEAN BY <1>2
  <2> QED BY <2>1, <2>2, <2>4, <2>5, <2>6, <2>7, Zenon DEF UpTypes
<1>5. UpPrev BY <1>2 DEF UpPrev
<1>6. UpSent BY <1>2 DEF UpSent, Rises
<1> QED BY <1>4, <1>5, <1>6 DEF UpInv

\* The new slot: its time is on the grid, d intervals after the last one.
LEMMA NextTimeIs ==
  ASSUME UpsamplerGiven, UpInv, fed > 0, NEW t \in NextTimes
  PROVE  /\ OnGrid(t)
         /\ t \div Unit - IntervalOfInput(step.input, fed) \in 1 .. config.factor
         /\ step.first <= t \div Unit - IntervalOfInput(step.input, fed)
<1> DEFINE last == IntervalOfInput(step.input, fed)
<1>1. /\ fed \in Nat /\ step.input \in Seq(Slots) /\ Len(step.input) = fed
      /\ config.factor \in Nat \ {0}
  BY DEF UpInv, UpTypes
<1>2. step.input # <<>> BY <1>1
<1>3. PICK k \in 1 .. config.factor, j \in Jitter : t = Unit * (last + k) + j
  BY <1>2 DEF NextTimes, IntervalOfInput
<1>4. fed > 1 => t \div Unit - IntervalOfInput(step.input, fed - 1) >= config.factor
  BY <1>2 DEF NextTimes, IntervalOfInput
<1>5. step.input[fed].time \in Int
  <2>1. step.input[fed] \in Slots BY <1>1
  <2> QED BY <2>1 DEF Slots
<1>6. last \in Int BY <1>5 DEF IntervalOfInput, Unit
<1>7. j \in 0 .. 4 BY <1>3 DEF UpsamplerGiven, Tolerance
<1> HIDE DEF last
<1>8. t \in Int /\ t \div Unit = last + k /\ OnGrid(t)
  <2>1. PICK q \in Int : q = last + k BY <1>6
  <2>2. t = 10 * q + j BY <1>3, <2>1 DEF Unit
  <2>3. t \in Int /\ t \div 10 = q BY <1>7, <2>2
  <2> QED BY <1>7, <2>1, <2>2, <2>3 DEF OnGrid, Unit, Tolerance
<1>9. step.first <= k
  <2>1. step.first \in 0 .. config.factor - 1 BY DEF UpInv, UpPrev
  <2>2. CASE step.first = 0 BY <1>1, <1>3, <2>2
  <2>3. CASE step.first > 0
    <3>1. fed > 1 /\ step.first = config.factor - (last - IntervalOfInput(step.input, fed - 1))
      BY <2>3 DEF UpInv, UpPrev, last
    <3>2. step.input[fed - 1].time \in Int
      <4>1. step.input[fed - 1] \in Slots BY <1>1, <3>1
      <4> QED BY <4>1 DEF Slots
    <3>3. IntervalOfInput(step.input, fed - 1) \in Int BY <3>2 DEF IntervalOfInput, Unit
    <3> QED BY <1>1, <1>3, <1>4, <1>6, <1>8, <3>1, <3>3
  <2> QED BY <1>1, <2>1, <2>2, <2>3
<1> QED BY <1>1, <1>3, <1>6, <1>8, <1>9 DEF last

\* The input with a new slot.
HasSlotMore(long, t, x) ==
    /\ long \in Seq(Slots) /\ Len(long) = fed + 1
    /\ \A m \in 1 .. fed :
          long[m] = step.input[m] /\ IntervalOfInput(long, m) = IntervalOfInput(step.input, m)
    /\ long[fed + 1].flagged = x /\ IntervalOfInput(long, fed + 1) = t \div Unit
    /\ \A m \in 1 .. fed + 1 : OnGrid(long[m].time)

LEMMA InputAfter ==
  ASSUME UpTypes, NEW t, OnGrid(t), NEW x \in BOOLEAN, NEW long,
         long = Append(step.input, [time |-> t, flagged |-> x])
  PROVE  HasSlotMore(long, t, x)
<1> DEFINE b == [time |-> t, flagged |-> x]
<1>1. fed \in Nat /\ step.input \in Seq(Slots) /\ Len(step.input) = fed
      /\ \A m \in 1 .. fed : OnGrid(step.input[m].time)
  BY DEF UpTypes
<1>2. b \in Slots BY DEF Slots, OnGrid
<1>3. b.time = t /\ b.flagged = x OBVIOUS
<1> HIDE DEF b
<1>4. /\ long \in Seq(Slots) /\ Len(long) = fed + 1 /\ long[fed + 1] = b
      /\ \A m \in 1 .. fed : long[m] = step.input[m]
  BY <1>1, <1>2, AppendedFacts DEF b
<1>5. \A m \in 1 .. fed : IntervalOfInput(long, m) = IntervalOfInput(step.input, m)
  BY <1>4, Zenon DEF IntervalOfInput
<1>6. \A m \in 1 .. fed + 1 : OnGrid(long[m].time)
  <2> TAKE m \in 1 .. fed + 1
  <2>1. CASE m = fed + 1 BY <1>3, <1>4, <2>1
  <2>2. CASE m # fed + 1
    <3>1. m \in 1 .. fed BY <1>1, <2>2
    <3> QED BY <1>1, <1>4, <3>1
  <2> QED BY <2>1, <2>2
<1> QED BY <1>3, <1>4, <1>5, <1>6 DEF IntervalOfInput, HasSlotMore

LEMMA FirstProcessInv ==
  ASSUME UpsamplerGiven, UpInv, UpProcess, fed = 0
  PROVE  UpInv'
<1> DEFINE f == config.factor
<1>1. UpTypes /\ UpPrev BY DEF UpInv
<1>2. step.prev = <<>> /\ step.first = 0 /\ sent = <<>> BY <1>1 DEF UpPrev
<1>3. step.input = <<>> BY <1>1 DEF UpTypes
<1>4. NextTimes = {0} BY <1>3 DEF NextTimes
<1>5. PICK x \in BOOLEAN :
         /\ Processed([prev |-> Duplicates([time |-> 0, flagged |-> x]), first |-> step.first,
                       input |-> Append(step.input, [time |-> 0, flagged |-> x])])
         /\ Send(<<>>)
  BY <1>2, <1>4 DEF UpProcess
<1> DEFINE current == Duplicates([time |-> 0, flagged |-> x])
           long == Append(step.input, [time |-> 0, flagged |-> x])
<1>6. /\ step' = [prev |-> current, first |-> step.first, input |-> long]
      /\ sent' = <<>> \o <<>> /\ fed' = fed + 1 /\ config' = config /\ finished' = finished /\ finished = FALSE
  BY <1>1, <1>2, <1>5 DEF Processed, Given, Send, UpTypes
<1>7. OnGrid(0) /\ 0 \div Unit = 0 BY DEF OnGrid, Unit, Tolerance
<1>8. f \in Nat \ {0} /\ fed \in Nat BY <1>1 DEF UpTypes
<1>9. CopiesFrom(current, 0, x, f) BY <1>7, <1>8, CopiesAre
<1>10. /\ long \in Seq(Slots) /\ Len(long) = fed + 1 /\ long[fed + 1].flagged = x
       /\ IntervalOfInput(long, fed + 1) = 0 /\ \A m \in 1 .. fed + 1 : OnGrid(long[m].time)
  <2>1. PICK l : l = long OBVIOUS
  <2>2. l = Append(step.input, [time |-> 0, flagged |-> x]) BY <2>1
  <2>3. HasSlotMore(l, 0, x) BY <1>1, <1>7, <2>2, InputAfter
  <2> HIDE DEF long
  <2> QED BY <1>7, <2>1, <2>3, Zenon DEF HasSlotMore
<1> HIDE DEF current, long
<1>11. step'.prev = current /\ step'.first = 0 /\ step'.input = long BY <1>2, <1>6
<1>12. sent' = <<>> /\ fed' = 1 /\ fed + 1 = 1 /\ config'.factor = f BY <1>6
<1>13. sent' \in Seq(Copies) BY <1>12
<1>14. UpTypes'
  <2>1. step' = [prev |-> step'.prev, first |-> step'.first, input |-> step'.input] BY <1>6
  <2>2. fed' \in Nat /\ finished' \in BOOLEAN
    <3>1. finished' = FALSE BY <1>6
    <3> QED BY <1>12, <3>1
  <2>3. step'.input \in Seq(Slots) /\ Len(step'.input) = fed' /\ \A m \in 1 .. fed' : OnGrid(step'.input[m].time)
    BY <1>10, <1>11, <1>12
  <2> QED BY <1>8, <1>12, <1>13, <2>1, <2>2, <2>3, Zenon DEF UpTypes
<1>15. UpPrev'
  <2>1. CopiesFrom(step'.prev, IntervalOfInput(step'.input, fed'), step'.input[fed'].flagged, config'.factor)
    BY <1>9, <1>10, <1>11, <1>12
  <2>2. step'.first \in 0 .. config'.factor - 1 /\ ~(step'.first > 0) /\ ~(fed' = 0) BY <1>8, <1>11, <1>12
  <2> QED BY <2>1, <2>2, Zenon DEF UpPrev
<1>16. UpSent'
  <2>1. Rises(sent') BY <1>12 DEF Rises
  <2>2. \A g : EndsBefore(sent', g, config'.factor) BY <1>12 DEF EndsBefore
  <2>3. ASSUME NEW m \in 1 .. fed', NEW j \in 1 .. f
        PROVE  IsToCome(step'.input, fed', step'.first, IntervalOfInput(step'.input, m) + j - 1,
                        step'.input[m].flagged, f)
    <3>1. m = 1 BY <1>12
    <3>2. 0 + j - 1 \in 0 + 0 .. 0 + f - 1 BY <1>8
    <3> QED BY <1>10, <1>11, <1>12, <3>1, <3>2 DEF IsToCome
  <2> QED BY <1>6, <1>12, <2>1, <2>2, <2>3 DEF UpSent
<1> QED BY <1>14, <1>15, <1>16, Zenon DEF UpInv

LEMMA NextProcessInv ==
  ASSUME UpsamplerGiven, UpInv, UpProcess, fed > 0
  PROVE  UpInv'
<1> DEFINE f == config.factor
           first == step.first
<1>1. UpTypes /\ UpPrev /\ UpSent BY DEF UpInv
<1>2. f \in Nat \ {0} /\ fed \in Nat \ {0} /\ fed # 0 BY <1>1 DEF UpTypes
<1>3. PICK g, y : /\ g = IntervalOfInput(step.input, fed) /\ y = step.input[fed].flagged
                  /\ CopiesFrom(step.prev, g, y, f)
  BY <1>1, <1>2 DEF UpPrev
<1>4. g \in Int /\ y \in BOOLEAN
  <2>1. step.input \in Seq(Slots) /\ Len(step.input) = fed BY <1>1 DEF UpTypes
  <2>2. step.input[fed] \in Slots BY <1>2, <2>1
  <2> QED BY <1>3, <2>2 DEF Slots, IntervalOfInput, Unit
<1>5. first \in 0 .. f - 1 BY <1>1, <1>2 DEF UpPrev
<1>6. step.prev # <<>> BY <1>2, <1>3 DEF CopiesFrom
<1>7. PICK t \in NextTimes, x \in BOOLEAN :
         LET current == Duplicates([time |-> t, flagged |-> x])
             input == Append(step.input, [time |-> t, flagged |-> x])
         IN  /\ Processed([prev |-> current, first |-> NextFirst(current), input |-> input])
             /\ Send(SubSeq(step.prev, step.first + 1, LastFlushed(current)))
  BY <1>6 DEF UpProcess
<1> DEFINE current == Duplicates([time |-> t, flagged |-> x])
           long == Append(step.input, [time |-> t, flagged |-> x])
           new == sent \o SubSeq(step.prev, first + 1, LastFlushed(current))
<1>8. /\ step' = [prev |-> current, first |-> NextFirst(current), input |-> long]
      /\ sent' = new /\ fed' = fed + 1 /\ config' = config /\ finished' = finished /\ finished = FALSE
  BY <1>1, <1>7 DEF Processed, Given, Send, UpTypes
<1>9. OnGrid(t) /\ t \div Unit - g \in 1 .. f /\ first <= t \div Unit - g BY <1>3, <1>7, NextTimeIs
<1>10. PICK d \in 1 .. f : d = t \div Unit - g /\ g + d = t \div Unit /\ first <= d
  <2>1. t \div Unit \in Int BY <1>9 DEF OnGrid, Unit
  <2>2. PICK q \in Int : q = t \div Unit BY <2>1
  <2>3. g + (q - g) = q BY <1>4, <2>2
  <2> QED BY <1>9, <2>2, <2>3
<1>11. CopiesFrom(current, g + d, x, f) BY <1>2, <1>9, <1>10, CopiesAre
<1>12. /\ long \in Seq(Slots) /\ Len(long) = fed + 1
       /\ \A m \in 1 .. fed : long[m] = step.input[m] /\ IntervalOfInput(long, m) = IntervalOfInput(step.input, m)
       /\ long[fed + 1].flagged = x /\ IntervalOfInput(long, fed + 1) = g + d
       /\ \A m \in 1 .. fed + 1 : OnGrid(long[m].time)
  <2>1. PICK l : l = long OBVIOUS
  <2>2. l = Append(step.input, [time |-> t, flagged |-> x]) BY <2>1
  <2>3. HasSlotMore(l, t, x) BY <1>1, <1>9, <2>2, InputAfter
  <2> HIDE DEF long
  <2> QED BY <1>10, <2>1, <2>3, Zenon DEF HasSlotMore
<1> HIDE DEF current, long
<1>13. Facing(current, g, x, d) BY <1>2, <1>3, <1>4, <1>5, <1>10, <1>11 DEF Facing
<1>14. PICK e, n : e = LastFlushed(current) /\ n = NextFirst(current) OBVIOUS
<1>15. \/ (x \/ d = f) /\ e = f /\ n = f - d
       \/ ~x /\ d < f /\ e = d /\ n = 0
  BY <1>13, <1>14, FlushedAre
<1>16. e \in first .. f /\ n \in 0 .. f - 1 /\ g + d + n = g + e BY <1>2, <1>4, <1>5, <1>10, <1>15
<1>17. Rises(sent) /\ EndsBefore(sent, g + first, f) BY <1>1, <1>2, <1>3, <1>8 DEF UpSent
<1>18. /\ new \in Seq(Copies) /\ Rises(new) /\ EndsBefore(new, g + e, f)
       /\ \A h \in Int : \A z : Covers(sent, h, z, f) => Covers(new, h, z, f)
       /\ \A h \in Int : \A z : h \in g + first .. g + e - 1 /\ (y => z) => Covers(new, h, z, f)
  <2>1. first \in 0 .. f BY <1>2, <1>5
  <2>2. sent \in Seq(Copies) BY <1>1 DEF UpTypes
  <2> QED BY <1>2, <1>3, <1>4, <1>14, <1>16, <1>17, <2>1, <2>2, SendCopies, ZenonT(60)
<1> HIDE DEF new
<1>19. step'.prev = current /\ step'.first = n /\ step'.input = long BY <1>8, <1>14
<1>20. config'.factor = f BY <1>8
<1>21. UpTypes'
  <2>1. step' = [prev |-> step'.prev, first |-> step'.first, input |-> step'.input] BY <1>8
  <2>2. fed' \in Nat /\ finished' \in BOOLEAN
    <3>1. finished' = FALSE BY <1>8
    <3>2. fed' \in Nat
      <4>1. fed' = fed + 1 BY <1>8
      <4> QED BY <1>2, <4>1
    <3> QED BY <3>1, <3>2, Zenon
  <2>3. step'.input \in Seq(Slots) /\ Len(step'.input) = fed' /\ \A m \in 1 .. fed' : OnGrid(step'.input[m].time)
    BY <1>8, <1>12, <1>19
  <2>4. sent' \in Seq(Copies) BY <1>8, <1>18
  <2> QED BY <1>2, <1>20, <2>1, <2>2, <2>3, <2>4, Zenon DEF UpTypes
<1>22. UpPrev'
  <2>1. CopiesFrom(step'.prev, IntervalOfInput(step'.input, fed'), step'.input[fed'].flagged, config'.factor)
    BY <1>8, <1>11, <1>12, <1>19, <1>20
  <2>2. step'.first \in 0 .. config'.factor - 1 /\ fed' # 0 BY <1>2, <1>8, <1>16, <1>19, <1>20
  <2>3. ASSUME step'.first > 0
        PROVE  fed' > 1 /\ step'.first = config'.factor - (IntervalOfInput(step'.input, fed')
                                                          - IntervalOfInput(step'.input, fed' - 1))
    <3>1. n = f - d BY <1>15, <1>19, <2>3
    <3>2. fed' - 1 = fed /\ fed \in 1 .. fed /\ fed' > 1 BY <1>2, <1>8
    <3>3. IntervalOfInput(step'.input, fed') = g + d BY <1>8, <1>12, <1>19
    <3>4. IntervalOfInput(step'.input, fed' - 1) = g BY <1>3, <1>12, <1>19, <3>2
    <3>5. f - d = f - ((g + d) - g) BY <1>2, <1>4
    <3> QED BY <1>19, <1>20, <3>1, <3>2, <3>3, <3>4, <3>5
  <2> QED BY <2>1, <2>2, <2>3, Zenon DEF UpPrev
<1>23. UpSent'
  <2>1. Rises(sent') BY <1>8, <1>18
  <2>2. EndsBefore(sent', IntervalOfInput(step'.input, fed') + step'.first, config'.factor)
    BY <1>8, <1>12, <1>16, <1>18, <1>19, <1>20
  <2> DEFINE ToCome(h, z) == IsToCome(step'.input, fed', step'.first, h, z, f)
  <2>3. \A h \in Int : \A z : ToCome(h, z) <=> h \in g + d + n .. g + d + f - 1 /\ (x => z)
    <3>1. IntervalOfInput(step'.input, fed') = g + d /\ step'.input[fed'].flagged = x
      BY <1>8, <1>12, <1>19
    <3> QED BY <1>19, <3>1 DEF IsToCome
  <2> HIDE DEF ToCome
  <2>4. ASSUME NEW m \in 1 .. fed, NEW j \in 1 .. f
        PROVE  LET h == IntervalOfInput(step.input, m) + j - 1
                   z == step.input[m].flagged
               IN  Covers(sent', h, z, f) \/ ToCome(h, z)
    <3>1. PICK h, z : h \in Int /\ h = IntervalOfInput(step.input, m) + j - 1 /\ z = step.input[m].flagged
      <4>1. step.input \in Seq(Slots) /\ Len(step.input) = fed BY <1>1 DEF UpTypes
      <4>2. step.input[m] \in Slots BY <1>2, <4>1
      <4> QED BY <1>2, <4>2 DEF Slots, IntervalOfInput, Unit
    <3>2. Covers(sent, h, z, f) \/ (h \in g + first .. g + f - 1 /\ (y => z))
      BY <1>1, <1>3, <1>8, <3>1 DEF UpSent, IsToCome
    <3>3. CASE Covers(sent, h, z, f) BY <1>8, <1>18, <3>1, <3>3
    <3>4. CASE h \in g + first .. g + f - 1 /\ (y => z)
      <4>1. CASE h <= g + e - 1
        <5>1. h \in g + first .. g + e - 1 BY <1>4, <1>5, <1>16, <3>4, <4>1
        <5> QED BY <1>8, <1>18, <3>1, <3>4, <5>1
      <4>2. CASE ~(h <= g + e - 1)
        <5>1. ~x /\ e = d /\ n = 0 BY <1>2, <1>4, <1>15, <3>4, <4>2
        <5>2. h \in g + d + n .. g + d + f - 1 BY <1>2, <1>4, <3>4, <4>2, <5>1
        <5> QED BY <2>3, <3>1, <5>1, <5>2
      <4> QED BY <4>1, <4>2
    <3> QED BY <3>2, <3>3, <3>4
  <2>5. ASSUME NEW j \in 1 .. f
        PROVE  LET h == (g + d) + j - 1 IN Covers(sent', h, x, f) \/ ToCome(h, x)
    <3>1. PICK h \in Int : h = (g + d) + j - 1 BY <1>2, <1>4
    <3>2. CASE h >= g + d + n
      <4>1. h \in g + d + n .. g + d + f - 1 BY <1>2, <1>4, <1>16, <3>1, <3>2
      <4> QED BY <2>3, <3>1, <4>1
    <3>3. CASE ~(h >= g + d + n)
      <4>1. n > 0 BY <1>2, <1>4, <1>16, <3>1, <3>3
      <4>2. e = f /\ n = f - d /\ (x \/ d = f) BY <1>15, <4>1
      <4>3. x BY <1>2, <4>1, <4>2
      <4>4. h \in g + first .. g + e - 1 BY <1>2, <1>4, <1>5, <1>10, <3>1, <3>3, <4>2
      <4> QED BY <1>8, <1>18, <3>1, <4>3, <4>4
    <3> QED BY <1>2, <1>4, <1>16, <3>1, <3>2, <3>3
  <2>6. ASSUME NEW m \in 1 .. fed', NEW j \in 1 .. f
        PROVE  LET h == IntervalOfInput(step'.input, m) + j - 1
               IN  Covers(sent', h, step'.input[m].flagged, f) \/ ToCome(h, step'.input[m].flagged)
    <3>1. CASE m = fed + 1 BY <1>12, <1>19, <2>5, <3>1
    <3>2. CASE m # fed + 1
      <4>1. m \in 1 .. fed BY <1>2, <1>8, <3>2
      <4>2. step'.input[m] = step.input[m] /\ IntervalOfInput(step'.input, m) = IntervalOfInput(step.input, m)
        BY <1>12, <1>19, <4>1
      <4> QED BY <2>4, <4>1, <4>2
    <3> QED BY <3>1, <3>2
  <2> QED BY <1>8, <1>20, <2>1, <2>2, <2>6, Zenon DEF UpSent, ToCome
<1> QED BY <1>21, <1>22, <1>23, Zenon DEF UpInv

LEMMA UpFinishInv ==
  ASSUME UpInv, UpFinish
  PROVE  UpInv'
<1> DEFINE f == config.factor
           first == step.first
           new == sent \o SubSeq(step.prev, first + 1, f)
<1>1. UpTypes /\ UpPrev /\ UpSent BY DEF UpInv
<1>2. f \in Nat \ {0} /\ fed \in Nat \ {0} /\ fed # 0 BY <1>1 DEF UpTypes, UpFinish
<1>3. PICK g, y : /\ g = IntervalOfInput(step.input, fed) /\ y = step.input[fed].flagged
                  /\ CopiesFrom(step.prev, g, y, f)
  BY <1>1, <1>2 DEF UpPrev
<1>4. g \in Int /\ y \in BOOLEAN
  <2>1. step.input \in Seq(Slots) /\ Len(step.input) = fed BY <1>1 DEF UpTypes
  <2>2. step.input[fed] \in Slots BY <1>2, <2>1
  <2> QED BY <1>3, <2>2 DEF Slots, IntervalOfInput, Unit
<1>5. first \in 0 .. f - 1 BY <1>1, <1>2 DEF UpPrev
<1>6. /\ step' = step /\ fed' = fed /\ config' = config /\ ~finished /\ finished' = TRUE /\ sent' = new
  BY DEF UpFinish, Ended, Send
<1>7. Rises(sent) /\ EndsBefore(sent, g + first, f) BY <1>1, <1>2, <1>3, <1>6 DEF UpSent
<1>8. /\ new \in Seq(Copies) /\ Rises(new)
      /\ \A h \in Int : \A z : Covers(sent, h, z, f) => Covers(new, h, z, f)
      /\ \A h \in Int : \A z : h \in g + first .. g + f - 1 /\ (y => z) => Covers(new, h, z, f)
  <2>1. first \in 0 .. f /\ f \in first .. f BY <1>2, <1>5
  <2>2. sent \in Seq(Copies) BY <1>1 DEF UpTypes
  <2> QED BY <1>2, <1>3, <1>4, <1>7, <2>1, <2>2, SendCopies, ZenonT(60)
<1> HIDE DEF new
<1>9. UpTypes' BY <1>1, <1>6, <1>8 DEF UpTypes
<1>10. UpPrev'
  <2>1. CopiesFrom(step'.prev, IntervalOfInput(step'.input, fed'), step'.input[fed'].flagged, config'.factor)
    BY <1>3, <1>6
  <2> QED BY <1>1, <1>2, <1>6, <2>1, Zenon DEF UpPrev
<1>11. UpSent'
  <2>1. ASSUME NEW m \in 1 .. fed, NEW j \in 1 .. f
        PROVE  Covers(new, IntervalOfInput(step.input, m) + j - 1, step.input[m].flagged, f)
    <3>1. PICK h, z : h \in Int /\ h = IntervalOfInput(step.input, m) + j - 1 /\ z = step.input[m].flagged
      <4>1. step.input \in Seq(Slots) /\ Len(step.input) = fed BY <1>1 DEF UpTypes
      <4>2. step.input[m] \in Slots BY <1>2, <4>1
      <4> QED BY <1>2, <4>2 DEF Slots, IntervalOfInput, Unit
    <3>2. Covers(sent, h, z, f) \/ (h \in g + first .. g + f - 1 /\ (y => z))
      BY <1>1, <1>3, <1>6, <3>1 DEF UpSent, IsToCome
    <3> QED BY <1>8, <3>1, <3>2
  <2> QED BY <1>6, <1>8, <2>1 DEF UpSent
<1> QED BY <1>9, <1>10, <1>11, Zenon DEF UpInv

LEMMA UpStutterInv == UpInv /\ UNCHANGED calls => UpInv'
  BY DEF UpInv, UpTypes, UpPrev, UpSent, calls

LEMMA UpNextInv == UpsamplerGiven /\ UpInv /\ [UpNext]_calls => UpInv'
<1>1. UpInv => fed = 0 \/ fed > 0 BY DEF UpInv, UpTypes
<1> QED BY <1>1, FirstProcessInv, NextProcessInv, UpFinishInv, UpStutterInv DEF UpNext

-----------------------------------------------------------------------------
LEMMA UpInvIsEnough == UpInv => EveryTimeOnce
<1> SUFFICES ASSUME UpInv PROVE EveryTimeOnce OBVIOUS
<1> DEFINE f == config.factor
<1>1. UpTypes /\ UpSent BY DEF UpInv
<1>2. f \in Nat \ {0} /\ fed \in Nat /\ sent \in Seq(Copies) BY <1>1 DEF UpTypes
<1>3. \A i \in 1 .. Len(sent) - 1 : sent[i].time + Tolerance < sent[i + 1].time
  BY <1>1, Zenon DEF UpSent, Rises
<1>4. ASSUME finished, NEW i \in 1 .. fed, NEW j \in 1 .. f PROVE IsSent(CopiesOf(i)[j])
  <2>1. OnGrid(step.input[i].time) /\ step.input[i] \in Slots
    <3>1. step.input \in Seq(Slots) /\ Len(step.input) = fed BY <1>1 DEF UpTypes
    <3>2. step.input[i] \in Slots BY <1>2, <3>1
    <3> QED BY <1>1, <3>2 DEF UpTypes
  <2>2. PICK t, x, g :
           /\ t = step.input[i].time /\ x = step.input[i].flagged /\ g = IntervalOfInput(step.input, i)
           /\ g = t \div Unit /\ step.input[i] = [time |-> t, flagged |-> x]
           /\ x \in BOOLEAN /\ g \in Int
    <3>1. PICK b : b = step.input[i] OBVIOUS
    <3>2. b = [time |-> b.time, flagged |-> b.flagged] /\ b.time \in Int /\ b.flagged \in BOOLEAN
      BY <2>1, <3>1 DEF Slots
    <3>3. b.time \div Unit \in Int BY <3>2 DEF Unit
    <3> QED BY <3>1, <3>2, <3>3 DEF IntervalOfInput
  <2>3. CopiesFrom(CopiesOf(i), g, x, f) BY <1>2, <2>1, <2>2, CopiesAre DEF CopiesOf
  <2>4. PICK b : b = CopiesOf(i)[j] OBVIOUS
  <2>5. b.time \in Int /\ IsAt(b.time, g + j - 1, f) /\ b.flagged = x BY <1>2, <2>3, <2>4, CopyIs
  <2>6. Covers(sent, g + j - 1, x, f) BY <1>1, <1>4, <2>2 DEF UpSent
  <2>7. PICK k \in 1 .. Len(sent) : IsAt(sent[k].time, g + j - 1, f) /\ (sent[k].flagged => x)
    BY <2>6 DEF Covers
  <2>8. sent[k].time \in Int
    <3>1. sent[k] \in Copies BY <1>2, <2>7
    <3> QED BY <3>1 DEF Copies
  <2>9. NearAbs(sent[k].time, b.time)
    <3>1. PICK h \in Int : h = g + j - 1
      <4>1. g \in Int BY <2>2
      <4> QED BY <1>2, <4>1
    <3> QED BY <1>2, <2>5, <2>7, <2>8, <3>1, SameInterval
  <2> QED BY <2>4, <2>5, <2>7, <2>9 DEF IsSent
<1> QED BY <1>3, <1>4 DEF EveryTimeOnce

(***************************************************************************)
(* Upsampler: every time of the output is sent once and in order, with     *)
(* data if an input slot has it, also where two input slots overlap, for   *)
(* every factor and number of slots.                                       *)
(***************************************************************************)
THEOREM EveryUpsampledTimeOnce ==
  ASSUME UpsamplerGiven
  PROVE  UpSpec => []EveryTimeOnce
<1>1. UpInit => UpInv BY UpInitInv
<1>2. UpInv /\ [UpNext]_calls => UpInv' BY UpNextInv
<1>3. UpInv => EveryTimeOnce BY UpInvIsEnough
<1> QED BY <1>1, <1>2, <1>3, PTL DEF UpSpec

-----------------------------------------------------------------------------
(***************************************************************************)
(* Averager: each slot is in the average of its own time.                  *)
(***************************************************************************)
\* The constants: the code's timestep is positive, minpoints is any number.
AveragerGiven == TimeSteps \subseteq Nat \ {0} /\ MinPoints \subseteq Int

\* The slots from first on that were given and are not flagged.
GoodSlots(input, first, n) == {s \in first .. first + n - 1 : input[s + 1]}

SumOf(cfg, input, first, n) ==
    [first |-> first, slots |-> n, good |-> GoodSlots(input, first, n),
     fullres |-> [i \in 0 .. cfg.navg - 1 |-> IF i < n THEN first + i ELSE -1]]

\* The average of n slots from the first one on.
AverageOf(cfg, input, first, n) ==
    LET good == GoodSlots(input, first, n)
        all == first .. first + n - 1
        enough == Cardinality(good) >= cfg.minpoints /\ good # {}
    IN  [time |-> 2 * first + cfg.navg - 1, uvw |-> all,
         flagged |-> IF cfg.noavg THEN good = {} ELSE ~enough,
         of |-> IF enough /\ ~cfg.noavg THEN good ELSE all,
         fullres |-> [i \in 0 .. cfg.navg - 1 |-> IF i < n THEN first + i ELSE -1]]

AveragesOf(cfg) == {AverageOf(cfg, input, first, n) : input \in Seq(BOOLEAN), first \in Nat, n \in Nat}

AvgTypes ==
    /\ config.ntime \in Nat \ {0} /\ config.navg \in Nat \ {0} /\ config.navg <= config.ntime
    /\ config.minpoints \in Int /\ config.noavg \in BOOLEAN
    /\ config.noavg => config.navg = 1
    /\ fed \in 0 .. config.ntime
    /\ finished \in BOOLEAN
    /\ step = [sum |-> step.sum, input |-> step.input]
    /\ step.input \in Seq(BOOLEAN) /\ Len(step.input) = fed
    /\ sent \in Seq(AveragesOf(config))

\* There are q complete averages, and the sum is of the r slots after them.
AvgMain(q, r) ==
    /\ q \in Nat /\ r \in 0 .. config.navg - 1 /\ fed = q * config.navg + r
    /\ \A k \in 1 .. Len(sent) :
          sent[k] = AverageOf(config, step.input, (k - 1) * config.navg,
                              IF k <= q THEN config.navg ELSE r)
    /\ Len(sent) = q + IF finished /\ r > 0 THEN 1 ELSE 0
    /\ step.sum = IF r = 0 \/ finished THEN <<>>
                  ELSE <<SumOf(config, step.input, q * config.navg, r)>>

AvgInv == AvgTypes /\ \E q, r \in Nat : AvgMain(q, r)

-----------------------------------------------------------------------------
\* With one more slot of an input.
Longer(long, input) ==
    /\ long \in Seq(BOOLEAN) /\ Len(long) = Len(input) + 1
    /\ \A i \in 1 .. Len(input) : long[i] = input[i]

LEMMA GoodStays ==
  ASSUME NEW input \in Seq(BOOLEAN), NEW long, Longer(long, input), NEW first \in Nat, NEW n \in Nat,
         first + n <= Len(input)
  PROVE  GoodSlots(long, first, n) = GoodSlots(input, first, n)
<1>1. \A s \in first .. first + n - 1 : s + 1 \in 1 .. Len(input) OBVIOUS
<1> QED BY <1>1 DEF GoodSlots, Longer

LEMMA AverageStays ==
  ASSUME NEW cfg, NEW input \in Seq(BOOLEAN), NEW long, Longer(long, input), NEW first \in Nat,
         NEW n \in Nat, first + n <= Len(input)
  PROVE  AverageOf(cfg, long, first, n) = AverageOf(cfg, input, first, n)
<1>1. GoodSlots(long, first, n) = GoodSlots(input, first, n) BY GoodStays
<1> QED BY <1>1, Zenon DEF AverageOf

LEMMA GoodGrows ==
  ASSUME NEW input \in Seq(BOOLEAN), NEW long, Longer(long, input), NEW first \in Nat, NEW n \in Nat,
         NEW m \in Nat, m = n + 1, NEW f, f = Len(input), first + n = f
  PROVE  GoodSlots(long, first, m) = GoodSlots(input, first, n) \cup {s \in {f} : long[s + 1]}
<1>1. \A i \in first .. first + n - 1 : long[i + 1] = input[i + 1] BY DEF Longer
<1>2. first .. first + m - 1 = (first .. first + n - 1) \cup {f} OBVIOUS
<1> QED BY <1>1, <1>2 DEF GoodSlots

LEMMA FirstIsGood ==
  ASSUME NEW input \in Seq(BOOLEAN), NEW long, Longer(long, input)
  PROVE  GoodSlots(long, Len(input), 1) = IF long[Len(input) + 1] THEN {Len(input)} ELSE {}
<1>1. PICK f \in Nat : f = Len(input) OBVIOUS
<1>2. GoodSlots(input, f, 0) = {} BY <1>1 DEF GoodSlots
<1>3. PICK z \in Nat : z = 0 OBVIOUS
<1>4. f + z = f /\ z + 1 = 1 BY <1>1, <1>3
<1>5. GoodSlots(long, f, 1) = GoodSlots(input, f, z) \cup {s \in {f} : long[s + 1]}
  BY <1>1, <1>4, GoodGrows
<1> QED BY <1>1, <1>2, <1>3, <1>4, <1>5

LEMMA FirstSum ==
  ASSUME NEW n \in Nat \ {0}, config.navg = n, NEW input \in Seq(BOOLEAN), NEW long, Longer(long, input)
  PROVE  FirstOfSum(Len(input), long[Len(input) + 1]) = SumOf(config, long, Len(input), 1)
<1> DEFINE f == Len(input)
<1>2. GoodSlots(long, f, 1) = IF long[f + 1] THEN {f} ELSE {} BY FirstIsGood
<1>3. \A i \in 0 .. n - 1 : (i < 1 <=> i = 0) /\ f + 0 = f OBVIOUS
<1>4. [i \in 0 .. n - 1 |-> IF i = 0 THEN f ELSE -1] = [i \in 0 .. n - 1 |-> IF i < 1 THEN f + i ELSE -1]
  BY <1>3
<1> HIDE DEF f
<1>5. FirstOfSum(f, long[f + 1]) = [first |-> f, slots |-> 1, good |-> GoodSlots(long, f, 1),
                                    fullres |-> [i \in 0 .. n - 1 |-> IF i = 0 THEN f ELSE -1]]
  BY <1>2 DEF FirstOfSum
<1>6. SumOf(config, long, f, 1) = [first |-> f, slots |-> 1, good |-> GoodSlots(long, f, 1),
                                    fullres |-> [i \in 0 .. n - 1 |-> IF i < 1 THEN f + i ELSE -1]]
  BY DEF SumOf
<1> QED BY <1>4, <1>5, <1>6, Zenon DEF f

LEMMA NextSum ==
  ASSUME NEW n \in Nat \ {0}, config.navg = n, NEW input \in Seq(BOOLEAN), NEW long, Longer(long, input),
         NEW f \in Nat, f = Len(input), NEW first \in Nat, NEW r \in Nat, first + r = f, r < n,
         NEW e \in Nat, e = f + 1, NEW s \in Nat, s = r + 1
  PROVE  NextOfSum(SumOf(config, input, first, r), f, long[e]) = SumOf(config, long, first, s)
<1> DEFINE G == GoodSlots(input, first, r)
           F == [i \in 0 .. n - 1 |-> IF i < r THEN first + i ELSE -1]
           F2 == [i \in 0 .. n - 1 |-> IF i < s THEN first + i ELSE -1]
           G2 == GoodSlots(long, first, s)
<1>1. G2 = IF long[e] THEN G \cup {f} ELSE G
  <2>1. G2 = G \cup {t \in {f} : long[t + 1]}
    <3>1. \A i \in first .. first + r - 1 : long[i + 1] = input[i + 1] BY DEF Longer
    <3>2. first .. first + s - 1 = (first .. first + r - 1) \cup {f} OBVIOUS
    <3> QED BY <3>1, <3>2 DEF GoodSlots
  <2> QED BY <2>1
<1>2. [F EXCEPT ![r] = first + r] = F2
  <2>1. \A i \in 0 .. n - 1 : i < s <=> i < r \/ i = r OBVIOUS
  <2> QED BY <2>1
<1>3. SumOf(config, input, first, r) = [first |-> first, slots |-> r, good |-> G, fullres |-> F]
  BY DEF SumOf
<1>4. SumOf(config, long, first, s) = [first |-> first, slots |-> s, good |-> G2, fullres |-> F2]
  BY DEF SumOf
<1>5. G \in SUBSET Nat /\ G2 \in SUBSET Nat /\ F \in [0 .. n - 1 -> Int] /\ s \in Nat /\ first + r \in Int
  BY DEF GoodSlots
<1>6. PICK R : R = SumOf(config, input, first, r) OBVIOUS
<1>7. R.slots = r /\ R.good = G BY <1>3, <1>6
<1> HIDE DEF G, F, F2, G2
<1>8. NextOfSum(R, f, long[e])
        = [R EXCEPT !.slots = s, !.good = G2, !.fullres[r] = first + r]
  BY <1>1, <1>7 DEF NextOfSum
<1> DEFINE T == [R EXCEPT !.slots = s]
           U == [T EXCEPT !.good = G2]
           V == [U EXCEPT !.fullres = [U.fullres EXCEPT ![r] = first + r]]
<1>9. T = [first |-> first, slots |-> s, good |-> G, fullres |-> F] BY <1>3, <1>6
<1> HIDE DEF T
<1>10. U = [first |-> first, slots |-> s, good |-> G2, fullres |-> F] BY <1>9, SMTT(60)
<1> HIDE DEF U
<1>11. U.fullres = F BY <1>10
<1>12. V = [first |-> first, slots |-> s, good |-> G2, fullres |-> [F EXCEPT ![r] = first + r]]
  <2> DEFINE W == [F EXCEPT ![r] = first + r]
  <2>1. [U.fullres EXCEPT ![r] = first + r] = W BY <1>11
  <2> HIDE DEF W
  <2>2. [U EXCEPT !.fullres = W] = [first |-> first, slots |-> s, good |-> G2, fullres |-> W] BY <1>10, SMTT(60)
  <2> QED BY <2>1, <2>2, Zenon DEF W
<1> QED BY <1>2, <1>4, <1>6, <1>8, <1>12, Zenon DEF T, U

LEMMA AverageOfSum ==
  ASSUME NEW n \in Nat \ {0}, config.navg = n, ~config.noavg, NEW input,
         NEW first \in Nat, NEW r \in Nat
  PROVE  Average(SumOf(config, input, first, r)) = AverageOf(config, input, first, r)
  BY DEF Average, SumOf, AverageOf, Middle

LEMMA PassedIsAverage ==
  ASSUME config.navg = 1, config.noavg, NEW input \in Seq(BOOLEAN), NEW long, Longer(long, input)
  PROVE  Passed(Len(input), long[Len(input) + 1]) = AverageOf(config, long, Len(input), 1)
<1> DEFINE f == Len(input)
<1>2. GoodSlots(long, f, 1) = IF long[f + 1] THEN {f} ELSE {} BY FirstIsGood
<1>3. f .. f + 1 - 1 = {f} /\ 2 * f + 1 - 1 = 2 * f /\ 0 .. 1 - 1 = {0} OBVIOUS
<1>4. [i \in {0} |-> f] = [i \in {0} |-> IF i < 1 THEN f + i ELSE -1] OBVIOUS
<1>5. ~long[f + 1] <=> GoodSlots(long, f, 1) = {} BY <1>2
<1> HIDE DEF f
<1> QED BY <1>3, <1>4, <1>5 DEF Passed, AverageOf, f

LEMMA OneAverageMore ==
  ASSUME NEW S, NEW all \in Seq(S), NEW q \in Nat, Len(all) = q, NEW x \in S
  PROVE  /\ all \o <<x>> \in Seq(S) /\ Len(all \o <<x>>) = q + 1
         /\ (all \o <<x>>)[q + 1] = x /\ \A k \in 1 .. q : (all \o <<x>>)[k] = all[k]
<1>1. <<x>> \in Seq(S) /\ Len(<<x>>) = 1 /\ <<x>>[1] = x OBVIOUS
<1> QED BY <1>1, JoinedFacts

-----------------------------------------------------------------------------
LEMMA AvgInitInv == AveragerGiven /\ AvgInit => AvgInv
<1> SUFFICES ASSUME AveragerGiven, AvgInit PROVE AvgInv OBVIOUS
<1>1. PICK n \in 1 .. MaxSlots, t \in TimeSteps, p \in MinPoints :
        Start([ntime |-> n, navg |-> IF t < n THEN t ELSE n, minpoints |-> p, noavg |-> t = 1],
              [sum |-> <<>>, input |-> <<>>])
  BY DEF AvgInit
<1>2. n \in Nat \ {0} /\ t \in Nat \ {0} /\ p \in Int
  BY MaxSlotsAssumption DEF AveragerGiven
<1>3. /\ config.ntime = n /\ config.navg = (IF t < n THEN t ELSE n)
      /\ config.minpoints = p /\ config.noavg \in BOOLEAN
      /\ config.noavg => t = 1
  BY <1>1 DEF Start
<1>4. step = [sum |-> <<>>, input |-> <<>>] /\ fed = 0 /\ sent = <<>> /\ finished = FALSE
  BY <1>1 DEF Start
<1>5. config.navg \in Nat \ {0} /\ config.navg <= config.ntime /\ (config.noavg => config.navg = 1)
  BY <1>2, <1>3
<1>6. sent \in Seq(AveragesOf(config)) /\ Len(sent) = 0 BY <1>4
<1>7. step.input \in Seq(BOOLEAN) /\ Len(step.input) = 0 /\ step.sum = <<>> BY <1>4
<1>8. AvgTypes
  <2>1. step = [sum |-> step.sum, input |-> step.input] BY <1>4
  <2>2. fed \in 0 .. config.ntime /\ config.ntime \in Nat \ {0} BY <1>2, <1>3, <1>4
  <2>3. config.minpoints \in Int /\ Len(step.input) = fed BY <1>2, <1>3, <1>4, <1>7
  <2>4. finished \in BOOLEAN BY <1>4
  <2> QED BY <1>3, <1>5, <1>6, <1>7, <2>1, <2>2, <2>3, <2>4, Zenon DEF AvgTypes
<1>9. AvgMain(0, 0)
  <2> HIDE <1>1
  <2> QED BY <1>4, <1>5, <1>6, <1>7 DEF AvgMain
<1> QED BY <1>8, <1>9 DEF AvgInv

LEMMA EarlierAverages ==
  ASSUME AvgTypes, NEW q \in Nat, NEW r \in Nat, AvgMain(q, r), NEW k \in 1 .. q
  PROVE  (k - 1) * config.navg \in Nat /\ (k - 1) * config.navg + config.navg <= fed
<1>1. PICK n \in Nat \ {0} : n = config.navg BY DEF AvgTypes
<1>2. k * n <= q * n /\ k * n \in Nat /\ q * n \in Nat BY TimesOrder
<1>3. (k - 1) * n = k * n - n BY TimesNext
<1>4. fed = q * n + r /\ fed \in Nat BY <1>1 DEF AvgMain, AvgTypes
<1>5. (k - 1) * n \in Nat
  <2>1. k - 1 \in Nat OBVIOUS
  <2> QED BY <2>1
<1> QED BY <1>1, <1>2, <1>3, <1>4, <1>5

LEMMA AvgProcessInv == AvgInv /\ AvgProcess => AvgInv'
<1> SUFFICES ASSUME AvgTypes, NEW q \in Nat, NEW r \in Nat, AvgMain(q, r), AvgProcess
             PROVE  AvgInv'
  BY DEF AvgInv
<1>0. PICK n \in Nat \ {0} : n = config.navg BY DEF AvgTypes
<1>1. PICK good \in BOOLEAN :
        LET input == Append(step.input, good)
            sum == IF step.sum = <<>> THEN FirstOfSum(fed, good)
                   ELSE NextOfSum(step.sum[1], fed, good)
            full == sum.slots >= config.navg
        IN  IF config.noavg
            THEN /\ Processed([step EXCEPT !.input = input])
                 /\ Send(<<Passed(fed, good)>>)
            ELSE /\ Processed([sum |-> IF full THEN <<>> ELSE <<sum>>, input |-> input])
                 /\ Send(IF full THEN <<Average(sum)>> ELSE <<>>)
  BY DEF AvgProcess
<1>2. finished = FALSE /\ fed < config.ntime /\ fed' = fed + 1 /\ config' = config /\ finished' = FALSE
  BY <1>1 DEF Processed, Given, AvgTypes
<1>3. PICK long : long = Append(step.input, good) OBVIOUS
<1>4. Longer(long, step.input) /\ long \in Seq(BOOLEAN) /\ Len(long) = fed + 1 /\ long[fed + 1] = good
  BY <1>3, AppendedFacts DEF AvgTypes, Longer
<1>5. /\ r < n /\ fed = q * n + r /\ q * n \in Nat
      /\ fed \in Nat /\ fed = Len(step.input) /\ step.input \in Seq(BOOLEAN)
  BY <1>0 DEF AvgMain, AvgTypes
<1>6. Len(sent) = q /\ sent \in Seq(AveragesOf(config))
  BY <1>2 DEF AvgMain, AvgTypes
<1>7. \A k \in 1 .. q : sent[k] = AverageOf(config, long, (k - 1) * n, n)
  <2> TAKE k \in 1 .. q
  <2>1. sent[k] = AverageOf(config, step.input, (k - 1) * n, n) BY <1>0, <1>6 DEF AvgMain
  <2>2. (k - 1) * n \in Nat /\ (k - 1) * n + n <= Len(step.input) BY <1>0, <1>5, EarlierAverages
  <2>3. PICK first \in Nat : first = (k - 1) * n BY <2>2
  <2>4. AverageOf(config, long, first, n) = AverageOf(config, step.input, first, n)
    <3>1. n \in Nat /\ first + n <= Len(step.input) BY <2>2, <2>3
    <3>2. step.input \in Seq(BOOLEAN) /\ Longer(long, step.input) BY <1>4, <1>5
    <3> HIDE <1>5, <1>0
    <3> QED BY <3>1, <3>2, AverageStays
  <2> QED BY <2>1, <2>3, <2>4, Zenon
<1>8. step.sum = IF r = 0 THEN <<>> ELSE <<SumOf(config, step.input, q * n, r)>>
  BY <1>0, <1>2 DEF AvgMain
<1> DEFINE types ==
      /\ config'.ntime \in Nat \ {0} /\ config'.navg \in Nat \ {0} /\ config'.navg <= config'.ntime
      /\ config'.minpoints \in Int /\ config'.noavg \in BOOLEAN
      /\ config'.noavg => config'.navg = 1
      /\ fed' \in 0 .. config'.ntime
      /\ finished' \in BOOLEAN
<1>9. types
  <2>1. fed' \in 0 .. config.ntime BY <1>2 DEF AvgTypes
  <2>2. finished' \in BOOLEAN BY <1>2
  <2> QED BY <1>2, <2>1, <2>2, Zenon DEF AvgTypes
<1> HIDE DEF types
<1>10. ASSUME config.noavg PROVE AvgInv'
  <2>1. n = 1 /\ r = 0 /\ q * n = q BY <1>0, <1>5, <1>10 DEF AvgTypes
  <2>2. step' = [step EXCEPT !.input = long] /\ sent' = sent \o <<Passed(fed, good)>>
    BY <1>1, <1>3, <1>10 DEF Processed, Send
  <2>3. Passed(fed, good) = AverageOf(config, long, fed, 1)
    BY <1>0, <1>4, <1>5, <1>10, <2>1, PassedIsAverage
  <2>4. step' = [sum |-> <<>>, input |-> long] BY <1>8, <2>1, <2>2 DEF AvgTypes
  <2> DEFINE x == AverageOf(config, long, fed, 1)
  <2>5. x \in AveragesOf(config) BY <1>4, <1>5 DEF AveragesOf
  <2> HIDE DEF x
  <2>6. /\ sent' \in Seq(AveragesOf(config)) /\ Len(sent') = q + 1
        /\ sent'[q + 1] = x /\ \A k \in 1 .. q : sent'[k] = sent[k]
    BY <1>6, <2>2, <2>3, <2>5, OneAverageMore DEF x
  <2>7. AvgTypes' BY <1>2, <1>4, <1>9, <2>4, <2>6 DEF AvgTypes, types
  <2>8. AvgMain(q + 1, 0)'
    <3>1. \A k \in 1 .. q + 1 : sent'[k] = AverageOf(config, long, (k - 1) * n, n)
      <4> TAKE k \in 1 .. q + 1
      <4>1. CASE k = q + 1 BY <1>5, <2>1, <2>6, <4>1 DEF x
      <4>2. CASE k \in 1 .. q BY <1>7, <2>6, <4>2
      <4> QED BY <4>1, <4>2
    <3>2. fed' = (q + 1) * config'.navg + 0 BY <1>0, <1>2, <1>5, <2>1
    <3>3. step'.sum = <<>> /\ step'.input = long BY <2>4
    <3> HIDE DEF x
    <3>4. config' = config /\ config'.navg = n BY <1>0, <1>2
    <3>5. q + 1 \in Nat /\ 0 \in 0 .. config'.navg - 1 BY <1>0, <3>4
    <3>6. \A k \in 1 .. Len(sent') :
            sent'[k] = AverageOf(config', step'.input, (k - 1) * config'.navg,
                                 IF k <= q + 1 THEN config'.navg ELSE 0)
      <4> TAKE k \in 1 .. Len(sent')
      <4>1. k \in 1 .. q + 1 /\ k <= q + 1 BY <2>6
      <4> QED BY <3>1, <3>3, <3>4, <4>1, Zenon
    <3>7. Len(sent') = q + 1 + IF finished' /\ 0 > 0 THEN 1 ELSE 0 BY <2>6
    <3> QED BY <3>2, <3>3, <3>5, <3>6, <3>7, Zenon DEF AvgMain
  <2> QED BY <2>7, <2>8 DEF AvgInv
<1>11. ASSUME ~config.noavg PROVE AvgInv'
  <2> DEFINE sum == SumOf(config, long, q * n, r + 1)
             full == sum.slots >= config.navg
  <2>1. (IF step.sum = <<>> THEN FirstOfSum(fed, good) ELSE NextOfSum(step.sum[1], fed, good)) = sum
    <3>1. CASE r = 0
      <4>1. fed = q * n /\ r + 1 = 1 BY <1>5, <3>1
      <4>2. FirstOfSum(fed, good) = SumOf(config, long, fed, 1) BY <1>0, <1>4, <1>5, FirstSum
      <4> QED BY <1>8, <3>1, <4>1, <4>2
    <3>2. CASE r # 0
      <4>1. PICK first \in Nat : first = q * n BY <1>5
      <4>2. NextOfSum(SumOf(config, step.input, first, r), fed, good) = SumOf(config, long, first, r + 1)
        <5>1. config.navg = n /\ first + r = fed /\ r < n BY <1>0, <1>5, <4>1
        <5>2. NextOfSum(SumOf(config, step.input, first, r), fed, long[fed + 1])
                = SumOf(config, long, first, r + 1)
          <6>1. step.input \in Seq(BOOLEAN) /\ Longer(long, step.input) /\ fed = Len(step.input) /\ fed \in Nat
            BY <1>4, <1>5
          <6> HIDE <1>5, <1>0
          <6>2. PICK e \in Nat : e = fed + 1 BY <6>1
          <6>3. PICK s \in Nat : s = r + 1 OBVIOUS
          <6>4. NextOfSum(SumOf(config, step.input, first, r), fed, long[e]) = SumOf(config, long, first, s)
            BY <5>1, <6>1, <6>2, <6>3, NextSum, SMTT(60)
          <6> QED BY <6>2, <6>3, <6>4, Zenon
        <5> QED BY <1>4, <5>2, Zenon
      <4> QED BY <1>8, <3>2, <4>1, <4>2
    <3> QED BY <3>1, <3>2
  <2>2. sum.slots = r + 1 BY DEF SumOf
  <2>3. /\ step' = [sum |-> IF r + 1 >= n THEN <<>> ELSE <<sum>>, input |-> long]
        /\ sent' = sent \o (IF r + 1 >= n THEN <<Average(sum)>> ELSE <<>>)
    BY <1>0, <1>1, <1>3, <1>11, <2>1, <2>2, Zenon DEF Processed, Send
  <2>4. CASE r + 1 >= n
    <3> DEFINE x == AverageOf(config, long, q * n, n)
    <3>1. r + 1 = n BY <1>5, <2>4
    <3>2. Average(sum) = x BY <1>0, <1>5, <1>11, <3>1, AverageOfSum
    <3>3. x \in AveragesOf(config) BY <1>4, <1>5 DEF AveragesOf
    <3>4. step' = [sum |-> <<>>, input |-> long] /\ sent' = sent \o <<x>> BY <2>3, <2>4, <3>2
    <3> HIDE DEF x
    <3>5. /\ sent' \in Seq(AveragesOf(config)) /\ Len(sent') = q + 1
          /\ sent'[q + 1] = x /\ \A k \in 1 .. q : sent'[k] = sent[k]
      BY <1>6, <3>3, <3>4, OneAverageMore
    <3>6. AvgTypes' BY <1>2, <1>4, <1>9, <3>4, <3>5 DEF AvgTypes, types
    <3>7. \A k \in 1 .. q + 1 : sent'[k] = AverageOf(config, long, (k - 1) * n, n)
      <4> TAKE k \in 1 .. q + 1
      <4>1. CASE k = q + 1
        <5>1. (k - 1) * n = q * n BY <4>1
        <5> QED BY <3>5, <4>1, <5>1, Zenon DEF x
      <4>2. CASE k \in 1 .. q BY <1>7, <3>5, <4>2, Zenon
      <4> QED BY <4>1, <4>2
    <3>8. fed' = (q + 1) * config'.navg + 0
      <4>1. (q + 1) * n = q * n + n BY TimesNext
      <4>2. fed' = q * n + n BY <1>2, <1>5, <3>1
      <4>3. config'.navg = n BY <1>0, <1>2
      <4>4. PICK p \in Int : p = (q + 1) * n BY <4>1
      <4> QED BY <4>1, <4>2, <4>3, <4>4
    <3>9. AvgMain(q + 1, 0)'
      <4>1. step'.sum = <<>> /\ step'.input = long BY <3>4
      <4>2. config'.navg = n BY <1>0, <1>2
      <4>3. q + 1 \in Nat /\ 0 \in 0 .. config'.navg - 1 BY <1>0, <4>2
      <4>4. \A k \in 1 .. Len(sent') :
              sent'[k] = AverageOf(config', step'.input, (k - 1) * config'.navg,
                                   IF k <= q + 1 THEN config'.navg ELSE 0)
        <5> TAKE k \in 1 .. Len(sent')
        <5>1. k \in 1 .. q + 1 /\ k <= q + 1 BY <3>5
        <5> QED BY <1>2, <3>7, <4>1, <4>2, <5>1, Zenon
      <4>5. Len(sent') = q + 1 + IF finished' /\ 0 > 0 THEN 1 ELSE 0 BY <3>5
      <4> QED BY <3>8, <4>1, <4>3, <4>4, <4>5, Zenon DEF AvgMain
    <3> QED BY <3>6, <3>9 DEF AvgInv
  <2>5. CASE r + 1 < n
    <3> HIDE DEF sum
    <3>1. step' = [sum |-> <<sum>>, input |-> long] /\ sent' = sent BY <1>6, <2>3, <2>5
    <3>2. step'.sum = <<sum>> /\ step'.input = long BY <3>1
    <3>3. step' = [sum |-> step'.sum, input |-> step'.input] BY <3>1
    <3>4. AvgTypes' BY <1>2, <1>4, <1>6, <1>9, <3>1, <3>2, <3>3, Zenon DEF AvgTypes, types
    <3>5. PICK r2 \in Nat : r2 = r + 1 OBVIOUS
    <3>6. \A k \in 1 .. q : sent'[k] = AverageOf(config', step'.input, (k - 1) * n, n)
      BY <1>2, <1>7, <3>1, <3>2, Zenon
    <3>7. /\ r2 \in 0 .. n - 1 /\ fed' = q * n + r2 /\ Len(sent') = q /\ r2 # 0
          /\ step'.sum = <<SumOf(config', step'.input, q * n, r2)>>
      BY <1>2, <1>5, <1>6, <2>5, <3>1, <3>2, <3>5 DEF sum
    <3>8. config'.navg = n BY <1>0, <1>2
    <3>9. AvgMain(q, r2)' BY <1>2, <3>6, <3>7, <3>8 DEF AvgMain
    <3> QED BY <3>4, <3>9 DEF AvgInv
  <2> QED BY <1>5, <2>4, <2>5
<1> QED BY <1>10, <1>11

LEMMA AvgFinishInv == AvgInv /\ AvgFinish => AvgInv'
<1> SUFFICES ASSUME AvgTypes, NEW q \in Nat, NEW r \in Nat, AvgMain(q, r), AvgFinish
             PROVE  AvgInv'
  BY DEF AvgInv
<1>0. PICK n \in Nat \ {0} : n = config.navg BY DEF AvgTypes
<1>1. /\ finished = FALSE /\ finished' = TRUE /\ fed' = fed /\ config' = config
      /\ step' = [step EXCEPT !.sum = <<>>]
      /\ sent' = sent \o (IF step.sum = <<>> THEN <<>> ELSE <<Average(step.sum[1])>>)
  BY Zenon DEF AvgFinish, Ended, Send, AvgTypes
<1>2. step' = [sum |-> <<>>, input |-> step.input] BY <1>1 DEF AvgTypes
<1>3. step'.sum = <<>> /\ step'.input = step.input BY <1>2
<1>4. /\ r \in 0 .. n - 1 /\ fed = q * n + r /\ q * n \in Nat
      /\ Len(sent) = q /\ sent \in Seq(AveragesOf(config)) /\ step.input \in Seq(BOOLEAN)
  BY <1>0, <1>1 DEF AvgMain, AvgTypes
<1>5. step.sum = IF r = 0 THEN <<>> ELSE <<SumOf(config, step.input, q * n, r)>>
  BY <1>0, <1>1 DEF AvgMain
<1>6. \A k \in 1 .. q : sent[k] = AverageOf(config, step.input, (k - 1) * n, n)
  BY <1>0, <1>4 DEF AvgMain
<1>7. ASSUME sent' \in Seq(AveragesOf(config)) PROVE AvgTypes'
  <2>1. step' = [sum |-> step'.sum, input |-> step'.input] BY <1>2
  <2>2. finished' \in BOOLEAN BY <1>1
  <2> QED BY <1>1, <1>3, <1>7, <2>1, <2>2, Zenon DEF AvgTypes
<1>8. CASE r = 0
  <2>1. sent' = sent BY <1>1, <1>4, <1>5, <1>8
  <2>2. AvgMain(q, r)'
    <3>1. Len(sent') = q BY <1>4, <2>1
    <3>2. \A k \in 1 .. q : sent'[k] = AverageOf(config', step'.input, (k - 1) * n, n)
      BY <1>1, <1>3, <1>6, <2>1, Zenon
    <3>3. config'.navg = n /\ fed' = q * n + r BY <1>0, <1>1, <1>4
    <3> QED BY <1>1, <1>3, <1>4, <1>8, <3>1, <3>2, <3>3 DEF AvgMain
  <2> QED BY <1>4, <1>7, <2>1, <2>2 DEF AvgInv
<1>9. CASE r # 0
  <2> DEFINE x == AverageOf(config, step.input, q * n, r)
  <2>1. n > 1 /\ ~config.noavg BY <1>0, <1>4, <1>9 DEF AvgTypes
  <2>2. Average(SumOf(config, step.input, q * n, r)) = x BY <1>0, <1>4, <2>1, AverageOfSum
  <2>3. step.sum[1] = SumOf(config, step.input, q * n, r) /\ step.sum # <<>> BY <1>5, <1>9
  <2>4. sent' = sent \o <<x>> BY <1>1, <2>2, <2>3
  <2>5. x \in AveragesOf(config) BY <1>4 DEF AveragesOf
  <2> HIDE DEF x
  <2>6. /\ sent' \in Seq(AveragesOf(config)) /\ Len(sent') = q + 1
        /\ sent'[q + 1] = x /\ \A k \in 1 .. q : sent'[k] = sent[k]
    <3>1. PICK S, all : S = AveragesOf(config) /\ all = sent OBVIOUS
    <3>2. all \in Seq(S) /\ Len(all) = q /\ x \in S BY <1>4, <2>5, <3>1
    <3>3. /\ all \o <<x>> \in Seq(S) /\ Len(all \o <<x>>) = q + 1
          /\ (all \o <<x>>)[q + 1] = x /\ \A k \in 1 .. q : (all \o <<x>>)[k] = all[k]
      BY <3>2, OneAverageMore
    <3> QED BY <2>4, <3>1, <3>3
  <2>7. AvgMain(q, r)'
    <3>1. \A k \in 1 .. q + 1 :
            sent'[k] = AverageOf(config', step'.input, (k - 1) * n, IF k <= q THEN n ELSE r)
      <4> TAKE k \in 1 .. q + 1
      <4>1. CASE k = q + 1
        <5>1. (k - 1) * n = q * n /\ ~(k <= q) BY <4>1
        <5> QED BY <1>1, <1>3, <2>6, <4>1, <5>1, Zenon DEF x
      <4>2. CASE k \in 1 .. q
        <5>1. k <= q BY <4>2
        <5> QED BY <1>1, <1>3, <1>6, <2>6, <4>2, <5>1, Zenon
      <4> QED BY <4>1, <4>2
    <3>3. config'.navg = n /\ fed' = q * n + r BY <1>0, <1>1, <1>4
    <3>4. /\ \A k \in 1 .. Len(sent') :
                sent'[k] = AverageOf(config', step'.input, (k - 1) * config'.navg,
                                     IF k <= q THEN config'.navg ELSE r)
          /\ step'.sum = <<>> /\ r \in 0 .. config'.navg - 1 /\ fed' = q * config'.navg + r
      BY <1>3, <1>4, <2>6, <3>1, <3>3, Zenon
    <3>5. Len(sent') = q + IF finished' /\ r > 0 THEN 1 ELSE 0 BY <1>1, <1>4, <1>9, <2>6
    <3> QED BY <1>1, <3>4, <3>5, Zenon DEF AvgMain
  <2> QED BY <1>7, <2>6, <2>7 DEF AvgInv
<1> QED BY <1>8, <1>9

LEMMA AvgStutterInv == AvgInv /\ UNCHANGED calls => AvgInv'
<1> SUFFICES ASSUME AvgTypes, NEW q \in Nat, NEW r \in Nat, AvgMain(q, r), UNCHANGED calls
             PROVE  AvgInv'
  BY DEF AvgInv
<1>1. AvgTypes' BY Zenon DEF AvgTypes, calls
<1>2. AvgMain(q, r)' BY Zenon DEF AvgMain, calls
<1> QED BY <1>1, <1>2 DEF AvgInv

LEMMA AvgNextInv == AvgInv /\ [AvgNext]_calls => AvgInv'
  BY AvgProcessInv, AvgFinishInv, AvgStutterInv DEF AvgNext

-----------------------------------------------------------------------------
\* An average that is promised is one of the slots that were given.
LEMMA PromisedIs ==
  ASSUME AvgTypes, NEW q \in Nat, NEW r \in Nat, AvgMain(q, r), NEW k \in 1 .. q + 1, k <= q \/ r > 0
  PROVE  PromisedAverage(k) =
            AverageOf(config, step.input, (k - 1) * config.navg, IF k <= q THEN config.navg ELSE r)
<1>1. PICK n \in Nat \ {0} : n = config.navg BY DEF AvgTypes
<1>2. PICK first \in Nat : first = (k - 1) * n
  <2>1. k - 1 \in Nat OBVIOUS
  <2> QED BY <2>1
<1>3. PICK m \in Nat : m = IF k <= q THEN n ELSE r BY <1>1
<1>4. /\ fed = q * n + r /\ fed \in Nat /\ r < n /\ q * n \in Nat
  BY <1>1, SMTT(60) DEF AvgMain, AvgTypes
<1>5. IF k <= q THEN first + n <= fed ELSE first + r = fed
  <2>1. CASE k <= q BY <1>1, <1>2, <2>1, EarlierAverages
  <2>2. CASE k = q + 1 BY <1>2, <1>4, <2>2
  <2> QED BY <2>1, <2>2
<1>6. {s \in first .. first + n - 1 : s < fed} = first .. first + m - 1 BY <1>3, <1>4, <1>5
<1>7. GoodOf(first .. first + m - 1) = GoodSlots(step.input, first, m) BY DEF GoodOf, GoodSlots
<1>8. \A i \in 0 .. n - 1 : first + i \in first .. first + m - 1 <=> i < m BY <1>3
<1>9. (2 * k - 1) * n - 1 = 2 * first + n - 1
  <2>1. (2 * k - 1) * n = 2 * ((k - 1) * n) + n OBVIOUS
  <2>2. PICK a \in Int : a = (2 * k - 1) * n OBVIOUS
  <2> QED BY <1>2, <2>1, <2>2
<1>10. [i \in 0 .. n - 1 |-> IF first + i \in first .. first + m - 1 THEN first + i ELSE -1]
        = [i \in 0 .. n - 1 |-> IF i < m THEN first + i ELSE -1]
  BY <1>8
<1> DEFINE all == first .. first + m - 1
           good == GoodSlots(step.input, first, m)
           enough == Cardinality(good) >= config.minpoints /\ good # {}
           full == [i \in 0 .. n - 1 |-> IF i < m THEN first + i ELSE -1]
<1>11. PromisedAverage(k) =
         [time |-> 2 * first + n - 1, uvw |-> all,
          flagged |-> IF config.noavg THEN good = {} ELSE ~enough,
          of |-> IF enough /\ ~config.noavg THEN good ELSE all, fullres |-> full]
  BY <1>1, <1>2, <1>6, <1>7, <1>9, <1>10, Zenon DEF PromisedAverage
<1>12. AverageOf(config, step.input, first, m) =
         [time |-> 2 * first + n - 1, uvw |-> all,
          flagged |-> IF config.noavg THEN good = {} ELSE ~enough,
          of |-> IF enough /\ ~config.noavg THEN good ELSE all, fullres |-> full]
  BY <1>1, Zenon DEF AverageOf
<1> HIDE DEF all, good, enough, full
<1> QED BY <1>1, <1>2, <1>3, <1>11, <1>12, Zenon

LEMMA AvgInvIsEnough == AvgInv => AveragesAreOfTheirTime
<1> SUFFICES ASSUME AvgTypes, NEW q \in Nat, NEW r \in Nat, AvgMain(q, r)
             PROVE  AveragesAreOfTheirTime
  BY DEF AvgInv
<1>1. PICK n \in Nat \ {0} : n = config.navg BY DEF AvgTypes
<1>2. fed = q * n + r /\ fed \in Nat /\ r < n BY <1>1 DEF AvgMain, AvgTypes
<1>3. AveragesSoFar = IF r = 0 THEN q ELSE q + 1
  <2>1. (fed + n - 1) \div n = IF r = 0 THEN q ELSE q + 1 BY <1>2, IntervalsOf
  <2> QED BY <1>1, <2>1, Zenon DEF AveragesSoFar
<1>4. Len(sent) = q + IF finished /\ r > 0 THEN 1 ELSE 0 BY DEF AvgMain
<1>5. \A k \in 1 .. Len(sent) : sent[k] = PromisedAverage(k)
  <2> TAKE k \in 1 .. Len(sent)
  <2>1. k \in 1 .. q + 1 /\ (k <= q \/ r > 0) BY <1>4
  <2>2. sent[k] = AverageOf(config, step.input, (k - 1) * config.navg, IF k <= q THEN config.navg ELSE r)
    BY Zenon DEF AvgMain
  <2> QED BY <2>1, <2>2, PromisedIs
<1> DEFINE promised == [k \in 1 .. AveragesSoFar |-> PromisedAverage(k)]
<1>6. Len(promised) = AveragesSoFar BY <1>3
<1>7. \A k \in 1 .. Len(sent) : k \in 1 .. AveragesSoFar BY <1>3, <1>4
<1>8. \A k \in 1 .. Len(sent) : sent[k] = promised[k] BY <1>5, <1>7
<1> HIDE DEF promised
<1>9. Len(sent) <= Len(promised) /\ (finished => Len(sent) = Len(promised)) BY <1>3, <1>4, <1>6
<1>10. Keeps(promised) BY <1>8, <1>9 DEF Keeps
<1>11. finished /\ fed = config.ntime => Len(sent) = AnnouncedTimes
  <2> SUFFICES ASSUME finished, fed = config.ntime PROVE Len(sent) = AnnouncedTimes OBVIOUS
  <2>1. AnnouncedTimes = AveragesSoFar BY DEF AnnouncedTimes, AveragesSoFar
  <2> QED BY <1>6, <1>9, <2>1
<1> QED BY <1>10, <1>11 DEF AveragesAreOfTheirTime, promised

(***************************************************************************)
(* The averages of timestep slots have the times, weights and flags of     *)
(* their own slots, also the last ones of fewer, and all slots are in one. *)
(***************************************************************************)
THEOREM EverySlotIsInItsAverage ==
  ASSUME AveragerGiven
  PROVE  AvgSpec => []AveragesAreOfTheirTime
<1>1. AvgInit => AvgInv BY AvgInitInv
<1>2. AvgInv /\ [AvgNext]_calls => AvgInv' BY AvgNextInv
<1>3. AvgInv => AveragesAreOfTheirTime BY AvgInvIsEnough
<1> QED BY <1>1, <1>2, <1>3, PTL DEF AvgSpec

-----------------------------------------------------------------------------
(***************************************************************************)
(* OneApplyCal: each slot gets the parameters of its own time.             *)
(***************************************************************************)
\* Blocks have slots; slots come less than half an interval early.
BlocksGiven ==
    /\ Interval \in Nat \ {0} /\ Interval % 2 = 0
    /\ BlockSizes \subseteq Nat \ {0}
    /\ Moves \subseteq 0 .. Interval \div 2 - 1

HalfInterval == Interval \div 2

\* The first slot of the block that is in memory.
BlockStart == fed - 1 - step.time_step

RowsOf(first, n) == [k \in 1 .. n |-> first + k - 1]

RowsInBlock(first) ==
    IF first + config.block > config.ntime THEN config.ntime - first ELSE config.block

ApplyTypes ==
    /\ config.ntime \in Nat \ {0} /\ config.block \in Nat \ {0} /\ config.h5 \in BOOLEAN
    /\ config.h5 => config.block = config.ntime
    /\ step = [last_time |-> step.last_time, time_step |-> step.time_step, rows |-> step.rows,
               failed |-> FALSE, moved |-> step.moved]
    /\ step.last_time \in Int /\ step.time_step \in Nat
    /\ step.moved \in 0 .. HalfInterval - 1
    /\ fed \in 0 .. config.ntime
    /\ finished \in BOOLEAN

\* Blocks start at multiples of their size, and the block ends before the next one.
BlockIsInMemory ==
    /\ BlockStart \in Nat /\ \E j \in Nat : BlockStart = j * config.block
    /\ step.time_step < config.block
    /\ step.rows = RowsOf(BlockStart, RowsInBlock(BlockStart))
    /\ \E m \in 0 .. step.moved :
          step.last_time = IF BlockStart + config.block > config.ntime THEN LastMSTime
                           ELSE (BlockStart + config.block) * Interval - m

ApplyMain ==
    /\ fed = 0 => step.last_time = -1 /\ step.time_step = 0
    /\ fed > 0 => BlockIsInMemory
    /\ sent = [i \in 1 .. fed |-> [slot |-> i - 1, parms |-> i - 1]]

ApplyInv == ApplyTypes /\ ApplyMain

LEMMA HalfOfInterval ==
  ASSUME BlocksGiven
  PROVE  HalfInterval \in Nat \ {0} /\ Interval = 2 * HalfInterval
BY DEF BlocksGiven, HalfInterval

(* Slot a + k of a block of b slots from slot a on, that moved by m when it   *)
(* came and by m0 when the block was read, is before the end of the block if  *)
(* and only if it lies in it.                                                 *)
LEMMA SlotInBlock ==
  ASSUME NEW I \in Nat, NEW h \in Nat \ {0}, I = 2 * h, NEW a \in Nat, NEW k \in Nat, NEW b \in Nat,
         k <= b, NEW m \in 0 .. h - 1, NEW m0 \in 0 .. m
  PROVE  ((a + k) * I + h - m <= (a + b) * I - m0) <=> k < b
<1>1. (a + k) * I = a * I + k * I /\ (a + b) * I = a * I + b * I /\ a * I \in Nat /\ k * I \in Nat /\ b * I \in Nat
  OBVIOUS
<1>2. CASE k = b
  BY <1>1, <1>2
<1>3. CASE k < b
  <2>0. b - k - 1 \in Nat BY <1>3
  <2>1. PICK d \in Nat : b = k + 1 + d BY <2>0
  <2>2. b * I = k * I + I + d * I /\ d * I \in Nat BY <2>1
  <2> HIDE <2>1
  <2> QED BY <1>1, <1>3, <2>2
<1> QED BY <1>2, <1>3

LEMMA SlotBeforeEnd ==
  ASSUME NEW I \in Nat, NEW h \in Nat \ {0}, I = 2 * h, NEW a \in Nat, NEW n \in Nat, a < n,
         NEW m \in 0 .. h - 1
  PROVE  a * I + h - m <= n * I
<1>0. n - a - 1 \in Nat OBVIOUS
<1>1. PICK d \in Nat : n = a + 1 + d BY <1>0
<1>2. n * I = a * I + I + d * I /\ d * I \in Nat /\ a * I \in Nat BY <1>1
<1> HIDE <1>1
<1> QED BY <1>2

LEMMA EndOfBlock ==
  ASSUME NEW I \in Nat, NEW h \in Nat \ {0}, I = 2 * h, NEW a \in Nat, NEW b \in Nat, NEW n \in Nat,
         NEW m \in 0 .. h - 1
  PROVE  ((a * I + h - m) - h + b * I > n * I) <=> a + b > n
<1>0. a * I \in Nat /\ b * I \in Nat /\ n * I \in Nat OBVIOUS
<1>1. CASE a + b > n
  <2>0. a + b - n - 1 \in Nat BY <1>1
  <2>1. PICK d \in Nat : a + b = n + 1 + d BY <2>0
  <2>2. (a + b) * I = n * I + I + d * I /\ (a + b) * I = a * I + b * I /\ d * I \in Nat BY <2>1
  <2> HIDE <2>1
  <2> QED BY <1>0, <1>1, <2>2
<1>2. CASE a + b <= n
  <2>0. n - a - b \in Nat BY <1>2
  <2>1. PICK d \in Nat : n = a + b + d BY <2>0
  <2>2. n * I = a * I + b * I + d * I /\ d * I \in Nat BY <2>1
  <2> HIDE <2>1
  <2> QED BY <1>0, <1>2, <2>2
<1> QED BY <1>1, <1>2

-----------------------------------------------------------------------------
(* What a block of parameters holds that is read for slot f, when it comes m  *)
(* early.                                                                     *)
LEMMA BlockIsRead ==
  ASSUME BlocksGiven, ApplyTypes, NEW f \in Nat, f < config.ntime, NEW m \in 0 .. HalfInterval - 1,
         NEW j \in Nat, f = j * config.block, config.h5 => f = 0
  PROVE  /\ LastTime(TimeOf(f, m)) = IF f + config.block > config.ntime THEN LastMSTime
                                     ELSE (f + config.block) * Interval - m
         /\ ~config.h5 => /\ NumTimes(TimeOf(f, m)) = RowsInBlock(f)
                          /\ RowsInParmDB(TimeOf(f, m)) = RowsInBlock(f)
                          /\ ParmDBRows(TimeOf(f, m)) = RowsOf(f, RowsInBlock(f))
         /\ config.h5 => RowsOf(f, RowsInBlock(f)) = [t \in 1 .. config.ntime |-> t - 1]
<1> DEFINE I == Interval
           h == HalfInterval
           b == config.block
           n == config.ntime
           t == TimeOf(f, m)
<1>0. /\ I \in Nat /\ h \in Nat \ {0} /\ I = 2 * h /\ b \in Nat \ {0} /\ n \in Nat \ {0}
      /\ m \in 0 .. h - 1 /\ f \in Nat /\ f < n
  BY HalfOfInterval DEF ApplyTypes, BlocksGiven
<1>1. t = f * I + h - m BY DEF TimeOf, HalfInterval
<1>2. f * I \in Nat /\ b * I \in Nat /\ n * I \in Nat BY <1>0
<1>3. BlockEnd(t) = (t - h) + b * I BY DEF BlockEnd, HalfInterval
<1>4. LastMSTime = n * I BY DEF LastMSTime
<1>5. PastTheEnd(t) <=> f + b > n
  <2>1. ((f * I + h - m) - h + b * I > n * I) <=> f + b > n
    <3> HIDE DEF I, h, b, n, t
    <3> QED BY <1>0, EndOfBlock
  <2> HIDE DEF I, h, b, n, t
  <2> QED BY <2>1, <1>1, <1>3, <1>4 DEF PastTheEnd
<1>6. (f + b) * I = f * I + b * I
  <2> HIDE DEF I, h, b, n, t
  <2> QED BY <1>0
<1>7. LastTime(t) = IF f + b > n THEN n * I ELSE (f + b) * I - m
  <2>1. BlockEnd(t) = (f + b) * I - m
    <3> HIDE DEF I, h, b, n, t
    <3> QED BY <1>0, <1>1, <1>2, <1>3, <1>6
  <2> HIDE DEF I, h, b, n, t
  <2> QED BY <1>4, <1>5, <2>1 DEF LastTime
<1>8. RowsInBlock(f) = IF f + b > n THEN n - f ELSE b
  BY DEF RowsInBlock
<1>9. RowsInBlock(f) \in Nat \ {0}
  <2> HIDE DEF I, h, b, n, t
  <2> QED BY <1>0, <1>8
<1>10. ASSUME ~config.h5
       PROVE  NumTimes(t) = RowsInBlock(f)
  <2>1. NumTimes(t) = IF f + b > n THEN n % b ELSE b
    <3>1. NumTimes(t) = IF PastTheEnd(t) THEN n % b ELSE b BY DEF NumTimes
    <3> HIDE DEF t, n, b
    <3> QED BY <3>1, <1>5
  <2>2. ASSUME f + b > n PROVE n % b = n - f
    <3>1. f = j * b OBVIOUS
    <3> HIDE DEF n, b
    <3>2. j * b <= n /\ n < j * b + b BY <1>0, <2>2, <3>1
    <3>3. n % b = n - j * b BY <1>0, <3>2, RemainderIs
    <3> QED BY <3>1, <3>3
  <2> HIDE DEF t, n, b
  <2> QED BY <2>1, <2>2, <1>8
<1>11. ASSUME ~config.h5
       PROVE  RowsInParmDB(t) = RowsInBlock(f)
  <2> DEFINE range == LastTime(t) - (t - h)
             q == RowsInBlock(f)
  <2>1. RowsInParmDB(t) = LET rounded == (2 * range + I) \div (2 * I)
                          IN  IF rounded > 1 THEN rounded ELSE 1
    BY DEF RowsInParmDB, HalfInterval
  <2>2. q * I \in Nat /\ range \in {q * I, q * I + m}
    <3>1. CASE f + b > n
      <4>1. q = n - f BY <1>8, <3>1
      <4>2. n * I = f * I + q * I /\ q * I \in Nat
        <5> HIDE DEF I, h, b, n, t, q
        <5>1. n = f + q /\ q \in Nat BY <1>0, <4>1
        <5>2. (f + q) * I = f * I + q * I /\ q * I \in Nat BY <1>0, <5>1
        <5> QED BY <5>1, <5>2
      <4>3. range = q * I + m
        <5>1. LastTime(t) = n * I BY <1>7, <3>1
        <5>2. range = LastTime(t) - (t - h) OBVIOUS
        <5> HIDE DEF I, h, b, n, t, q, range
        <5> QED BY <5>1, <5>2, <1>0, <1>1, <1>2, <4>2
      <4> QED BY <4>2, <4>3
    <3>2. CASE ~(f + b > n)
      <4>1. q = b BY <1>8, <3>2
      <4>2. range = b * I
        <5>1. LastTime(t) = (f + b) * I - m BY <1>7, <3>2
        <5>2. range = LastTime(t) - (t - h) OBVIOUS
        <5> HIDE DEF I, h, b, n, t, q, range
        <5> QED BY <5>1, <5>2, <1>0, <1>1, <1>2, <1>6
      <4> HIDE DEF I, h, b, n, t, q, range
      <4> QED BY <4>1, <4>2, <1>2
    <3> QED BY <3>1, <3>2
  <2>3. (2 * range + I) \div (2 * I) = q
    <3>1. q \in Nat \ {0} BY <1>9
    <3> HIDE DEF I, h, b, n, t, q, range
    <3> DEFINE x == 2 * range + I
               y == 2 * I
    <3>2. x \in Nat /\ y \in Nat \ {0} BY <1>0, <2>2
    <3>3. q * y = 2 * (q * I) BY <1>0, <3>1
    <3>4. q * y <= x /\ x < q * y + y
      BY <1>0, <2>2, <3>3
    <3> HIDE DEF x, y
    <3>5. x \div y = q BY <3>1, <3>2, <3>4, QuotientIs
    <3> QED BY <3>5 DEF x, y
  <2> HIDE DEF range, t
  <2> QED BY <2>1, <2>3, <1>9
<1>12. ASSUME NEW k \in Nat \ {0}
       PROVE  (t + (k - 1) * I) \div I = f + k - 1
  <2> HIDE DEF I, h, t
  <2> DEFINE q == f + k - 1
             x == t + (k - 1) * I
  <2>1. q * I = f * I + (k - 1) * I /\ q * I \in Nat /\ (k - 1) * I \in Nat BY <1>0
  <2>2. x \in Nat /\ q * I <= x /\ x < q * I + I /\ q \in Nat
    <3>1. q \in Nat BY <1>0
    <3>2. x = f * I + h - m + (k - 1) * I BY <1>1
    <3> HIDE DEF q, x
    <3> QED BY <1>0, <1>2, <2>1, <3>1, <3>2
  <2>3. I \in Nat \ {0} BY <1>0
  <2> HIDE DEF q, x
  <2>4. x \div I = q BY <2>2, <2>3, QuotientIs
  <2> QED BY <2>4 DEF x, q
<1>13. ASSUME ~config.h5
       PROVE  ParmDBRows(t) = RowsOf(f, RowsInBlock(f))
  <2>1. ParmDBRows(t) = [k \in 1 .. RowsInBlock(f) |-> (t + (k - 1) * I) \div I]
    BY <1>11, <1>13 DEF ParmDBRows
  <2>2. \A k \in 1 .. RowsInBlock(f) : k \in Nat \ {0} BY <1>9
  <2> HIDE DEF t, I
  <2> QED BY <2>1, <2>2, <1>12 DEF RowsOf
<1>14. ASSUME config.h5
       PROVE  RowsOf(f, RowsInBlock(f)) = [k \in 1 .. n |-> k - 1]
  <2>1. f = 0 /\ b = n BY <1>14 DEF ApplyTypes
  <2>2. RowsInBlock(f) = n
    <3> HIDE DEF b, n
    <3> QED BY <1>0, <1>8, <2>1
  <2>3. \A k \in 1 .. n : f + k - 1 = k - 1
    <3> HIDE DEF n
    <3> QED BY <1>0, <2>1
  <2> HIDE DEF n
  <2> QED BY <2>2, <2>3 DEF RowsOf
<1> QED BY <1>4, <1>7, <1>10, <1>11, <1>13, <1>14

LEMMA BlockGoesOn ==
  ASSUME BlocksGiven, ApplyInv, fed > 0, fed < config.ntime,
         NEW m \in step.moved .. HalfInterval - 1
  PROVE  TimeOf(fed, m) <= step.last_time <=> step.time_step + 1 < config.block
<1> DEFINE I == Interval
           h == HalfInterval
           b == config.block
           n == config.ntime
           a == BlockStart
           k == step.time_step + 1
<1>0. /\ I \in Nat /\ h \in Nat \ {0} /\ I = 2 * h /\ b \in Nat \ {0} /\ n \in Nat \ {0}
      /\ m \in 0 .. h - 1 /\ fed \in Nat /\ fed < n /\ step.moved <= m
  BY HalfOfInterval DEF ApplyTypes, BlocksGiven, ApplyInv
<1>1. a \in Nat /\ k \in Nat /\ fed = a + k /\ k <= b
  <2>1. BlockIsInMemory BY DEF ApplyInv, ApplyMain
  <2>2. step.time_step \in Nat BY DEF ApplyInv, ApplyTypes
  <2> QED BY <2>1, <2>2, <1>0 DEF BlockIsInMemory, BlockStart
<1>2. PICK m0 \in 0 .. step.moved :
          step.last_time = IF a + b > n THEN LastMSTime ELSE (a + b) * I - m0
  BY DEF ApplyInv, ApplyMain, BlockIsInMemory
<1>3. TimeOf(fed, m) = (a + k) * I + h - m
  BY <1>1 DEF TimeOf, HalfInterval
<1>4. m0 \in 0 .. m BY <1>0, <1>2 DEF ApplyInv, ApplyTypes
<1>5. LastMSTime = n * I BY DEF LastMSTime
<1> HIDE DEF I, h, b, n, a, k
<1>6. CASE a + b > n
  <2>1. (a + k) * I + h - m <= n * I
    <3>1. a + k \in Nat /\ a + k < n BY <1>0, <1>1
    <3> QED BY <1>0, <3>1, SlotBeforeEnd
  <2>2. k < b BY <1>0, <1>1, <1>6
  <2>3. TimeOf(fed, m) <= step.last_time BY <1>2, <1>3, <1>5, <1>6, <2>1
  <2> QED BY <2>2, <2>3 DEF k, b
<1>7. CASE ~(a + b > n)
  <2>1. ((a + k) * I + h - m <= (a + b) * I - m0) <=> k < b
    BY <1>0, <1>1, <1>4, SlotInBlock
  <2>2. TimeOf(fed, m) <= step.last_time <=> k < b BY <1>2, <1>3, <1>7, <2>1
  <2> QED BY <2>2 DEF k, b
<1> QED BY <1>6, <1>7

LEMMA ApplyInitInv == BlocksGiven /\ ApplyInit => ApplyInv
<1> SUFFICES ASSUME BlocksGiven, ApplyInit PROVE ApplyInv
  OBVIOUS
<1>1. PICK n \in 1 .. MaxSlots, b \in BlockSizes, h5 \in BOOLEAN :
        Start([ntime |-> n, h5 |-> h5, block |-> IF h5 THEN n ELSE b],
              [last_time |-> -1, time_step |-> 0, rows |-> <<>>, failed |-> FALSE, moved |-> 0])
  BY DEF ApplyInit
<1>2. n \in Nat \ {0} /\ b \in Nat \ {0} BY MaxSlotsAssumption DEF BlocksGiven
<1>3. 0 \in 0 .. HalfInterval - 1
  <2>1. HalfInterval \in Nat \ {0} BY HalfOfInterval
  <2> QED BY <2>1
<1>4. ApplyTypes
  <2>1. /\ config = [ntime |-> n, h5 |-> h5, block |-> IF h5 THEN n ELSE b] /\ fed = 0 /\ finished = FALSE
        /\ step = [last_time |-> -1, time_step |-> 0, rows |-> <<>>, failed |-> FALSE, moved |-> 0]
    BY <1>1 DEF Start
  <2>2. /\ config.ntime = n /\ config.h5 = h5 /\ config.block = IF h5 THEN n ELSE b
        /\ step.last_time = -1 /\ step.time_step = 0 /\ step.rows = <<>> /\ step.moved = 0
    BY <2>1
  <2>3. step = [last_time |-> step.last_time, time_step |-> step.time_step, rows |-> step.rows,
                failed |-> FALSE, moved |-> step.moved]
    BY <2>1, <2>2
  <2>4. h5 \in BOOLEAN OBVIOUS
  <2>5. config.block \in Nat \ {0} BY <2>2, <1>2
  <2>6. config.h5 => config.block = config.ntime BY <2>2
  <2>7. config.ntime \in Nat \ {0} /\ config.h5 \in BOOLEAN BY <2>2, <2>4, <1>2
  <2>8. step.last_time \in Int /\ step.time_step \in Nat BY <2>2
  <2>9. step.moved \in 0 .. HalfInterval - 1 BY <2>2, <1>3
  <2>10. fed \in 0 .. config.ntime
    <3>1. fed = 0 BY <2>1
    <3> QED BY <2>7, <3>1
  <2>11. finished \in BOOLEAN BY <2>1
  <2> QED BY <2>3, <2>5, <2>6, <2>7, <2>8, <2>9, <2>10, <2>11 DEF ApplyTypes
<1>5. ApplyMain
  <2>1. fed = 0 /\ sent = <<>> /\ step.failed = FALSE /\ step.last_time = -1 /\ step.time_step = 0
    BY <1>1 DEF Start
  <2>2. sent = [i \in 1 .. fed |-> [slot |-> i - 1, parms |-> i - 1]]
    BY <2>1
  <2> QED BY <2>1, <2>2 DEF ApplyMain
<1> QED BY <1>4, <1>5 DEF ApplyInv

LEMMA SentOneMore ==
  ASSUME NEW n \in Nat, NEW s, s = [i \in 1 .. n |-> [slot |-> i - 1, parms |-> i - 1]]
  PROVE  s \o <<[slot |-> n, parms |-> n]>>
            = [i \in 1 .. n + 1 |-> [slot |-> i - 1, parms |-> i - 1]]
<1> DEFINE t == s \o <<[slot |-> n, parms |-> n]>>
           p(i) == [slot |-> i - 1, parms |-> i - 1]
<1>1. s \in Seq([slot : Int, parms : Int]) /\ Len(s) = n
  OBVIOUS
<1>2. <<[slot |-> n, parms |-> n]>> \in Seq([slot : Int, parms : Int]) OBVIOUS
<1>3. t \in Seq([slot : Int, parms : Int]) /\ Len(t) = n + 1
      /\ \A i \in 1 .. n + 1 : t[i] = IF i <= n THEN s[i] ELSE <<[slot |-> n, parms |-> n]>>[i - n]
  BY <1>1, <1>2
<1>4. \A i \in 1 .. n + 1 : t[i] = [slot |-> i - 1, parms |-> i - 1]
  <2> SUFFICES ASSUME NEW i \in 1 .. n + 1 PROVE t[i] = [slot |-> i - 1, parms |-> i - 1]
    OBVIOUS
  <2>1. CASE i <= n BY <1>3, <2>1
  <2>2. CASE i = n + 1
    <3>1. t[i] = <<[slot |-> n, parms |-> n]>>[1] BY <1>3, <2>2
    <3> QED BY <3>1, <2>2
  <2> QED BY <2>1, <2>2
<1>5. t = [i \in 1 .. n + 1 |-> t[i]]
  <2> HIDE DEF t
  <2> QED BY <1>3
<1> HIDE DEF t
<1> QED BY <1>4, <1>5 DEF t

Members(last, at, rows, failed, moved) ==
    [last_time |-> last, time_step |-> at, rows |-> rows, failed |-> failed, moved |-> moved]

LEMMA ApplyProcessInv ==
  ASSUME BlocksGiven, ApplyInv, ApplyProcess
  PROVE  ApplyInv'
<1>1. PICK m \in Moves :
        /\ ~step.failed
        /\ m >= step.moved
        /\ Processed([Updated(TimeOf(fed, m)) EXCEPT !.moved = m])
        /\ IF step'.failed THEN UNCHANGED sent
           ELSE Send(<<[slot |-> fed,
                        parms |-> IF step'.time_step < Len(step'.rows)
                                  THEN step'.rows[step'.time_step + 1] ELSE -1]>>)
  BY DEF ApplyProcess
<1>2. m \in step.moved .. HalfInterval - 1 /\ m \in 0 .. HalfInterval - 1
  BY <1>1 DEF BlocksGiven, HalfInterval, ApplyInv, ApplyTypes
<1>3. /\ ~finished /\ fed < config.ntime /\ fed' = fed + 1 /\ config' = config
      /\ finished' = finished /\ fed \in Nat
      /\ step' = [Updated(TimeOf(fed, m)) EXCEPT !.moved = m]
  BY <1>1 DEF Processed, Given, ApplyInv, ApplyTypes
<1> DEFINE t == TimeOf(fed, m)
           b == config.block
           n == config.ntime
<1>4. b \in Nat \ {0} /\ n \in Nat \ {0} BY DEF ApplyInv, ApplyTypes
<1>5. t \in Int /\ t > -1
  <2>1. t = fed * Interval + HalfInterval - m BY DEF TimeOf, HalfInterval
  <2>2. HalfInterval \in Nat \ {0} /\ Interval \in Nat BY HalfOfInterval DEF BlocksGiven
  <2>3. fed * Interval \in Nat BY <1>3, <2>2
  <2> HIDE DEF t
  <2> QED BY <1>2, <2>1, <2>2, <2>3
\* The block that is in memory afterwards: it starts at a, and the slot is its k-th.
<1>6. \E a \in Nat, k \in Nat, j \in Nat, m0 \in 0 .. m :
        /\ fed = a + k /\ k < b /\ a = j * b /\ a < n
        /\ step' = [last_time |-> IF a + b > n THEN LastMSTime ELSE (a + b) * Interval - m0,
                    time_step |-> k, rows |-> RowsOf(a, RowsInBlock(a)),
                    failed |-> FALSE, moved |-> m]
  <2>1. step = [last_time |-> step.last_time, time_step |-> step.time_step, rows |-> step.rows,
                failed |-> FALSE, moved |-> step.moved]
    BY DEF ApplyInv, ApplyTypes
  <2>2. CASE t <= step.last_time
    <3>1. fed # 0
      <4>1. step.last_time \in Int BY DEF ApplyInv, ApplyTypes
      <4>2. fed = 0 => step.last_time = -1 BY DEF ApplyInv, ApplyMain
      <4> HIDE DEF t
      <4> QED BY <4>1, <4>2, <1>5, <2>2
    <3>2. step.time_step + 1 < b BY <1>2, <1>3, <2>2, <3>1, BlockGoesOn
    <3>3. BlockIsInMemory BY <3>1, <1>3 DEF ApplyInv, ApplyMain
    <3>4. PICK j \in Nat : BlockStart = j * b BY <3>3 DEF BlockIsInMemory
    <3>5. PICK m0 \in 0 .. step.moved :
              step.last_time = IF BlockStart + b > n THEN LastMSTime ELSE (BlockStart + b) * Interval - m0
      BY <3>3 DEF BlockIsInMemory
    <3>6. step.time_step \in Nat /\ step.moved \in Nat BY DEF ApplyInv, ApplyTypes
    <3>7. m0 \in 0 .. m BY <1>2, <3>5, <3>6
    <3>8. BlockStart \in Nat /\ fed = BlockStart + (step.time_step + 1) /\ BlockStart < n
      BY <3>3, <3>6, <1>3, <1>4 DEF BlockIsInMemory, BlockStart
    <3>9. step' = [last_time |-> step.last_time, time_step |-> step.time_step + 1, rows |-> step.rows,
                   failed |-> FALSE, moved |-> m]
      <4>1. PICK l, k, r, f, v, k2, u, v2 :
              /\ step = Members(l, k, r, f, v) /\ f = FALSE /\ l = step.last_time /\ r = step.rows
              /\ k2 = step.time_step + 1 /\ u = Updated(t) /\ v2 = m
        BY <2>1 DEF Members
      <4>2. PICK s : s = step OBVIOUS
      <4>3. u = [s EXCEPT !.time_step = k2] BY <2>2, <4>1, <4>2 DEF Updated
      <4>4. u = Members(l, k2, r, f, v)
        <5>1. s = Members(l, k, r, f, v) BY <4>1, <4>2
        <5>2. [s EXCEPT !.time_step = k2] = Members(l, k2, r, f, v) BY <5>1 DEF Members
        <5> QED BY <4>3, <5>2
      <4>5. [u EXCEPT !.moved = v2] = Members(l, k2, r, f, v2) BY <4>4 DEF Members
      <4>6. step' = [u EXCEPT !.moved = v2] BY <4>1, <1>3
      <4> QED BY <4>1, <4>5, <4>6 DEF Members
    <3>10. step.rows = RowsOf(BlockStart, RowsInBlock(BlockStart)) BY <3>3 DEF BlockIsInMemory
    <3>11. step' = [last_time |-> IF BlockStart + b > n THEN LastMSTime
                                  ELSE (BlockStart + b) * Interval - m0,
                    time_step |-> step.time_step + 1, rows |-> RowsOf(BlockStart, RowsInBlock(BlockStart)),
                    failed |-> FALSE, moved |-> m]
      BY <3>5, <3>9, <3>10
    <3>12. step.time_step + 1 \in Nat BY <3>6
    <3> HIDE DEF b, n, t
    <3> QED BY <3>2, <3>4, <3>7, <3>8, <3>11, <3>12
  <2>3. CASE ~(t <= step.last_time)
    <3>1. \E j \in Nat : fed = j * b /\ (config.h5 => fed = 0)
      <4>1. CASE fed = 0
        <5>1. fed = 0 * b BY <4>1, <1>4
        <5> QED BY <4>1, <5>1
      <4>2. CASE fed # 0
        <5>1. ~(step.time_step + 1 < b) BY <1>2, <1>3, <2>3, <4>2, BlockGoesOn
        <5>2. BlockIsInMemory BY <4>2, <1>3 DEF ApplyInv, ApplyMain
        <5>3. PICK j \in Nat : BlockStart = j * b BY <5>2 DEF BlockIsInMemory
        <5>4. step.time_step \in Nat /\ step.time_step < b
          BY <5>2 DEF BlockIsInMemory, ApplyInv, ApplyTypes
        <5>5. fed = j * b + b /\ j * b \in Nat
          <6>1. fed - 1 - step.time_step = j * b BY <5>3 DEF BlockStart
          <6>2. j * b \in Nat BY <1>4
          <6> HIDE DEF b
          <6> QED BY <6>1, <6>2, <5>1, <5>4, <1>3, <1>4
        <5>6. (j + 1) * b = j * b + b
          <6> HIDE DEF b
          <6> QED BY <1>4
        <5>7. ~config.h5
          <6>1. config.h5 => b = n BY DEF ApplyInv, ApplyTypes
          <6> HIDE DEF b, n
          <6>2. fed < n BY <1>3 DEF n
          <6> QED BY <6>1, <6>2, <5>5, <1>4
        <5>8. fed = (j + 1) * b /\ j + 1 \in Nat BY <5>5, <5>6
        <5> QED BY <5>7, <5>8
      <4> QED BY <4>1, <4>2
    <3>2. PICK j \in Nat : fed = j * b /\ (config.h5 => fed = 0) BY <3>1
    <3>3. ApplyTypes BY DEF ApplyInv
    <3>4. /\ LastTime(t) = IF fed + b > n THEN LastMSTime ELSE (fed + b) * Interval - m
          /\ ~config.h5 => /\ NumTimes(t) = RowsInBlock(fed)
                           /\ RowsInParmDB(t) = RowsInBlock(fed)
                           /\ ParmDBRows(t) = RowsOf(fed, RowsInBlock(fed))
          /\ config.h5 => RowsOf(fed, RowsInBlock(fed)) = [k \in 1 .. n |-> k - 1]
      BY <1>2, <1>3, <3>2, <3>3, BlockIsRead
    <3>5. step' = [last_time |-> LastTime(t), time_step |-> 0, rows |-> RowsOf(fed, RowsInBlock(fed)),
                   failed |-> FALSE, moved |-> m]
      <4>1. PICK s, l, k, r, f, v, l2, k2, r2, f2, u, v2 :
              /\ s = step /\ s = Members(l, k, r, f, v) /\ f = FALSE
              /\ l2 = LastTime(t) /\ k2 = 0 /\ r2 = RowsOf(fed, RowsInBlock(fed)) /\ f2 = FALSE
              /\ u = Updated(t) /\ v2 = m
        BY <2>1 DEF Members
      <4> DEFINE s1 == [s EXCEPT !.last_time = l2]
                 s2 == [s1 EXCEPT !.time_step = k2]
                 s3 == [s2 EXCEPT !.rows = r2]
                 s4 == [s3 EXCEPT !.failed = f2]
      <4>a. s = Members(l, k, r, f, v) BY <4>1
      <4>b. s1 = Members(l2, k, r, f, v) BY <4>a DEF Members
      <4> HIDE DEF s1
      <4>c. s2 = Members(l2, k2, r, f, v) BY <4>b DEF Members
      <4> HIDE DEF s2
      <4>d. s3 = Members(l2, k2, r2, f, v) BY <4>c DEF Members
      <4> HIDE DEF s3
      <4>e. s4 = Members(l2, k2, r2, f2, v) BY <4>d DEF Members
      <4> HIDE DEF s4
      <4>2. u = Members(l2, k2, r2, f2, v)
        <5>1. CASE config.h5
          <6>1. r2 = [i \in 1 .. n |-> i - 1] BY <3>4, <4>1, <5>1
          <6>2. u = [s EXCEPT !.last_time = l2, !.time_step = k2, !.rows = r2]
            BY <2>3, <4>1, <5>1, <6>1 DEF Updated, UpdateParmsH5
          <6>3. [s EXCEPT !.last_time = l2, !.time_step = k2, !.rows = r2] = Members(l2, k2, r2, f, v)
            BY <4>d, Zenon DEF s3, s2, s1
          <6> QED BY <4>1, <6>2, <6>3
        <5>2. CASE ~config.h5
          <6>1. (RowsInParmDB(t) # NumTimes(t)) = f2 /\ ParmDBRows(t) = r2 BY <3>4, <4>1, <5>2
          <6>2. u = [s EXCEPT !.last_time = l2, !.time_step = k2, !.rows = r2, !.failed = f2]
            BY <2>3, <4>1, <5>2, <6>1 DEF Updated, UpdateParmsParmDB
          <6>3. [s EXCEPT !.last_time = l2, !.time_step = k2, !.rows = r2, !.failed = f2]
                    = Members(l2, k2, r2, f2, v)
            BY <4>e, Zenon DEF s4, s3, s2, s1
          <6> QED BY <6>2, <6>3
        <5> QED BY <5>1, <5>2
      <4>3. [u EXCEPT !.moved = v2] = Members(l2, k2, r2, f2, v2) BY <4>2 DEF Members
      <4>4. step' = [u EXCEPT !.moved = v2] BY <4>1, <1>3
      <4> QED BY <4>1, <4>3, <4>4 DEF Members
    <3>6. fed = fed + 0 /\ 0 < b /\ 0 \in Nat /\ m \in 0 .. m BY <1>2, <1>3, <1>4 DEF HalfInterval
    <3>7. fed < n BY <1>3
    <3>8. step' = [last_time |-> IF fed + b > n THEN LastMSTime ELSE (fed + b) * Interval - m,
                   time_step |-> 0, rows |-> RowsOf(fed, RowsInBlock(fed)),
                   failed |-> FALSE, moved |-> m]
      BY <3>4, <3>5
    <3> HIDE DEF b, n, t
    <3>9. fed \in Nat /\ fed = j * b BY <3>2, <1>3
    <3> USE <3>6, <3>9
    <3> WITNESS fed \in Nat, 0 \in Nat, j \in Nat, m \in 0 .. m
    <3> QED BY <3>6, <3>7, <3>8, <3>9
  <2> QED BY <2>2, <2>3
<1>7. PICK a \in Nat, k \in Nat, j \in Nat, m0 \in 0 .. m :
        /\ fed = a + k /\ k < b /\ a = j * b /\ a < n
        /\ step' = [last_time |-> IF a + b > n THEN LastMSTime ELSE (a + b) * Interval - m0,
                    time_step |-> k, rows |-> RowsOf(a, RowsInBlock(a)),
                    failed |-> FALSE, moved |-> m]
  BY <1>6
<1>8. /\ step'.time_step = k /\ step'.rows = RowsOf(a, RowsInBlock(a)) /\ step'.failed = FALSE
      /\ step'.last_time = (IF a + b > n THEN LastMSTime ELSE (a + b) * Interval - m0)
      /\ step'.moved = m
  BY <1>7
<1>9. sent' = [i \in 1 .. fed' |-> [slot |-> i - 1, parms |-> i - 1]]
  <2>1. RowsInBlock(a) \in Nat /\ k < RowsInBlock(a)
    <3>1. RowsInBlock(a) = IF a + b > n THEN n - a ELSE b BY DEF RowsInBlock
    <3>2. fed < n BY <1>3
    <3> HIDE DEF b, n
    <3> QED BY <3>1, <3>2, <1>4, <1>7
  <2>2. Len(RowsOf(a, RowsInBlock(a))) = RowsInBlock(a) /\ RowsOf(a, RowsInBlock(a))[k + 1] = a + k
    BY <2>1 DEF RowsOf
  <2>3. Send(<<[slot |-> fed, parms |-> fed]>>)
    <3>1. Send(<<[slot |-> fed, parms |-> IF k < RowsInBlock(a) THEN a + k ELSE -1]>>)
      BY <1>1, <1>8, <2>2
    <3> QED BY <3>1, <2>1, <1>7
  <2>4. sent = [i \in 1 .. fed |-> [slot |-> i - 1, parms |-> i - 1]] BY DEF ApplyInv, ApplyMain
  <2> QED BY <2>3, <2>4, <1>3, SentOneMore DEF Send
<1>10. ApplyTypes'
  <2>1. (IF a + b > n THEN LastMSTime ELSE (a + b) * Interval - m0) \in Int
    <3>1. Interval \in Nat BY DEF BlocksGiven
    <3>2. LastMSTime \in Int BY <1>4, <3>1 DEF LastMSTime
    <3>3. (a + b) * Interval \in Nat BY <1>4, <1>7, <3>1
    <3> HIDE DEF b, n
    <3> QED BY <3>2, <3>3, <1>7
  <2>2. fed' \in 0 .. config.ntime BY <1>3, <1>4
  <2>3. finished' \in BOOLEAN BY <1>3 DEF ApplyInv, ApplyTypes
  <2>4. step' = [last_time |-> step'.last_time, time_step |-> step'.time_step, rows |-> step'.rows,
                 failed |-> FALSE, moved |-> step'.moved]
    BY <1>7, <1>8
  <2>5. ApplyTypes BY DEF ApplyInv
  <2> QED BY <1>2, <1>3, <1>7, <1>8, <2>1, <2>2, <2>3, <2>4, <2>5 DEF ApplyTypes
<1>11. BlockStart' = a
  BY <1>3, <1>7, <1>8 DEF BlockStart
<1>12. RowsInBlock(a)' = RowsInBlock(a) /\ LastMSTime' = LastMSTime
  BY <1>3 DEF RowsInBlock, LastMSTime
<1>13. BlockIsInMemory'
  <2>1. BlockStart' \in Nat /\ \E i \in Nat : BlockStart' = i * config'.block
    BY <1>3, <1>7, <1>11
  <2>2. step'.time_step < config'.block BY <1>3, <1>7, <1>8
  <2>3. step'.rows = RowsOf(BlockStart', RowsInBlock(BlockStart)')
    BY <1>3, <1>8, <1>11 DEF RowsInBlock
  <2>4. \E i \in 0 .. step'.moved :
          step'.last_time = IF BlockStart' + config'.block > config'.ntime THEN LastMSTime'
                            ELSE (BlockStart' + config'.block) * Interval - i
    BY <1>3, <1>7, <1>8, <1>11, <1>12
  <2> QED BY <2>1, <2>2, <2>3, <2>4 DEF BlockIsInMemory, RowsOf
<1>14. fed' # 0 BY <1>3
<1> QED BY <1>9, <1>10, <1>13, <1>14 DEF ApplyInv, ApplyMain

LEMMA ApplyNextInv ==
  ASSUME BlocksGiven, ApplyInv, [ApplyNext]_calls
  PROVE  ApplyInv'
<1>1. CASE ApplyProcess BY <1>1, ApplyProcessInv
<1>2. CASE ApplyFinish
  <2>1. /\ finished' = TRUE /\ step' = step /\ config' = config /\ fed' = fed /\ sent' = sent \o <<>>
    BY <1>2 DEF ApplyFinish, Ended, Send
  <2>2. sent' = sent
    <3>1. sent = [i \in 1 .. fed |-> [slot |-> i - 1, parms |-> i - 1]] /\ fed \in Nat
      BY DEF ApplyInv, ApplyMain, ApplyTypes
    <3>2. sent \in Seq([slot : Int, parms : Int]) BY <3>1
    <3> QED BY <2>1, <3>2
  <2> QED BY <2>1, <2>2 DEF ApplyInv, ApplyTypes, ApplyMain, BlockIsInMemory, BlockStart,
                            RowsInBlock, RowsOf, LastMSTime
<1>3. CASE UNCHANGED calls
  BY <1>3 DEF calls, ApplyInv, ApplyTypes, ApplyMain, BlockIsInMemory, BlockStart,
              RowsInBlock, RowsOf, LastMSTime
<1> QED BY <1>1, <1>2, <1>3 DEF ApplyNext

LEMMA ApplyInvIsEnough == ApplyInv => ParametersAreOfTheirTime
<1> SUFFICES ASSUME ApplyInv PROVE ParametersAreOfTheirTime
  OBVIOUS
<1>1. step.failed = FALSE
  <2>1. step = [last_time |-> step.last_time, time_step |-> step.time_step, rows |-> step.rows,
                failed |-> FALSE, moved |-> step.moved]
    BY DEF ApplyInv, ApplyTypes
  <2> QED BY <2>1
<1>2. fed \in Nat BY DEF ApplyInv, ApplyTypes
<1>3. sent = [i \in 1 .. fed |-> [slot |-> i - 1, parms |-> i - 1]] BY DEF ApplyInv, ApplyMain
<1>4. Keeps(sent)
  <2>1. Len(sent) = fed BY <1>2, <1>3
  <2> QED BY <1>2, <2>1 DEF Keeps
<1> QED BY <1>1, <1>3, <1>4 DEF ParametersAreOfTheirTime

(***************************************************************************)
(* For every size of the blocks of parameters, every number of slots, and  *)
(* slots that come less than half an interval early: a slot is corrected   *)
(* with the parameters of its own time, and none is read beyond those of   *)
(* the database.                                                           *)
(***************************************************************************)
THEOREM EverySlotGetsItsParameters ==
  ASSUME BlocksGiven
  PROVE  ApplySpec => []ParametersAreOfTheirTime
<1>1. ApplyInit => ApplyInv BY ApplyInitInv
<1>2. ApplyInv /\ [ApplyNext]_calls => ApplyInv' BY ApplyNextInv
<1>3. ApplyInv => ParametersAreOfTheirTime BY ApplyInvIsEnough
<1> QED BY <1>1, <1>2, <1>3, PTL DEF ApplySpec

-----------------------------------------------------------------------------
(***************************************************************************)
(* Demixer: sources are removed with the solution of their interval.       *)
(***************************************************************************)
\* The constants: times and chunks are positive numbers.
DemixGiven ==
    /\ DemixTimeSteps \subseteq Nat \ {0}
    /\ OutputTimeSteps \subseteq Nat \ {0}
    /\ TimeChunks \subseteq Nat \ {0}

\* Interval k of n slots, when so many slots were given; what is solved for it; and
\* what the next step gets for output k.
SlotsWithin(k, n, given) == k * n .. AtMost((k + 1) * n, given) - 1

SolvedOf(cfg, given, k) ==
    [of |-> SlotsWithin(k, cfg.avg, given), mix |-> Mixing(SlotsWithin(k, cfg.avg, given))]

OutputOf(cfg, given, k) ==
    LET slots == SlotsWithin(k, cfg.subtr, given)
    IN  [of |-> slots,
         minus |-> IF cfg.model
                   THEN {[solution |-> SolvedOf(cfg, given, (k * cfg.subtr) \div cfg.avg),
                          mix |-> Mixing(slots)]}
                   ELSE {},
         deselected |-> IF cfg.selection THEN slots ELSE {}]

\* The intervals from number first on, before number end, were averaged; the slots after them are in the sum.
ResultsAre(results, n, first, end, given) ==
    /\ results \in Seq(SUBSET Int)
    /\ Len(results) = end - first
    /\ \A i \in 1 .. Len(results) : results[i] = SlotsWithin(first + i - 1, n, given)

AveragingIs(a, n, first, end, given) ==
    /\ a = [n |-> n, sum |-> end * n .. given - 1, results |-> a.results]
    /\ ResultsAre(a.results, n, first, end, given)

\* Their factors stand in a list that may still have more, of an earlier chunk.
FactorsAre(factors, n, first, end, given) ==
    /\ factors \in Seq([phases : SUBSET Int, weights : SUBSET Int])
    /\ Len(factors) >= end - first
    /\ \A i \in 1 .. end - first : factors[i] = Mixing(SlotsWithin(first + i - 1, n, given))

\* The interval that the next slot is in is number end.
IsIn(given, n, end) == end * n <= given /\ given < end * n + n

-----------------------------------------------------------------------------
LEMMA IntervalStays ==
  ASSUME NEW n \in Nat \ {0}, NEW k \in Nat, NEW given \in Nat, NEW more \in Nat,
         (k + 1) * n <= given, given <= more
  PROVE  SlotsWithin(k, n, more) = SlotsWithin(k, n, given)
<1>1. PICK p \in Int : p = (k + 1) * n OBVIOUS
<1>2. PICK q \in Int : q = k * n OBVIOUS
<1>3. AtMost(p, given) = p /\ AtMost(p, more) = p BY <1>1 DEF AtMost
<1> QED BY <1>1, <1>2, <1>3, Zenon DEF SlotsWithin

LEMMA IntervalIsSum ==
  ASSUME NEW n \in Nat \ {0}, NEW k \in Nat, NEW given \in Nat, k * n <= given, given <= k * n + n
  PROVE  SlotsWithin(k, n, given) = k * n .. given - 1
<1>1. PICK q \in Int : q = k * n OBVIOUS
<1>2. (k + 1) * n = q + n BY <1>1, TimesNext
<1>3. AtMost(q + n, given) = given BY <1>1 DEF AtMost
<1> QED BY <1>1, <1>2, <1>3, Zenon DEF SlotsWithin

LEMMA EarlierEnds ==
  ASSUME NEW n \in Nat \ {0}, NEW end \in Nat, NEW k \in Nat, k < end
  PROVE  (k + 1) * n <= end * n
<1>1. k + 1 \in Nat /\ k + 1 <= end OBVIOUS
<1> QED BY <1>1, TimesOrder

LEMMA ResultsStay ==
  ASSUME NEW n \in Nat \ {0}, NEW first \in Nat, NEW end \in Nat, first <= end,
         NEW given \in Nat, NEW more \in Nat, end * n <= given, given <= more,
         NEW results, ResultsAre(results, n, first, end, given)
  PROVE  ResultsAre(results, n, first, end, more)
<1>1. ASSUME NEW i \in 1 .. Len(results)
      PROVE  SlotsWithin(first + i - 1, n, more) = SlotsWithin(first + i - 1, n, given)
  <2>1. PICK k \in Nat : k = first + i - 1 OBVIOUS
  <2>2. k < end BY <2>1 DEF ResultsAre
  <2>3. PICK p \in Int : p = (k + 1) * n OBVIOUS
  <2>4. PICK e \in Int : e = end * n OBVIOUS
  <2>5. p <= e BY <2>2, <2>3, <2>4, EarlierEnds
  <2>6. p <= given BY <2>3, <2>4, <2>5
  <2>7. SlotsWithin(k, n, more) = SlotsWithin(k, n, given) BY <2>3, <2>6, IntervalStays
  <2> QED BY <2>1, <2>7
<1> QED BY <1>1 DEF ResultsAre

LEMMA FactorsStay ==
  ASSUME NEW n \in Nat \ {0}, NEW first \in Nat, NEW end \in Nat, first <= end,
         NEW given \in Nat, NEW more \in Nat, end * n <= given, given <= more,
         NEW factors, FactorsAre(factors, n, first, end, given)
  PROVE  FactorsAre(factors, n, first, end, more)
<1>1. ASSUME NEW i \in 1 .. end - first
      PROVE  SlotsWithin(first + i - 1, n, more) = SlotsWithin(first + i - 1, n, given)
  <2>1. PICK k \in Nat : k = first + i - 1 OBVIOUS
  <2>2. k < end BY <2>1
  <2>3. PICK p \in Int : p = (k + 1) * n OBVIOUS
  <2>4. PICK e \in Int : e = end * n OBVIOUS
  <2>5. p <= e BY <2>2, <2>3, <2>4, EarlierEnds
  <2>6. p <= given BY <2>3, <2>4, <2>5
  <2>7. SlotsWithin(k, n, more) = SlotsWithin(k, n, given) BY <2>3, <2>6, IntervalStays
  <2> QED BY <2>1, <2>7
<1> QED BY <1>1 DEF FactorsAre

LEMMA OneResultMore ==
  ASSUME NEW n \in Nat \ {0}, NEW first \in Nat, NEW end \in Nat, first <= end,
         NEW given \in Nat, end * n < given, given <= end * n + n,
         NEW results, ResultsAre(results, n, first, end, given)
  PROVE  ResultsAre(Append(results, end * n .. given - 1), n, first, end + 1, given)
<1>1. PICK e \in Nat : e = end * n OBVIOUS
<1>2. PICK x \in SUBSET Int : x = end * n .. given - 1 BY <1>1
<1>3. SlotsWithin(end, n, given) = x BY <1>1, <1>2, IntervalIsSum
<1>4. PICK l \in Nat : l = Len(results) /\ l = end - first /\ results \in Seq(SUBSET Int) BY DEF ResultsAre
<1>5. \A i \in 1 .. l : results[i] = SlotsWithin(first + i - 1, n, given) BY <1>4 DEF ResultsAre
<1> DEFINE longer == Append(results, x)
<1>6. /\ longer \in Seq(SUBSET Int) /\ Len(longer) = l + 1 /\ longer[l + 1] = x
      /\ \A i \in 1 .. l : longer[i] = results[i]
  <2>1. PICK S : S = SUBSET Int OBVIOUS
  <2>2. results \in Seq(S) /\ x \in S BY <1>2, <1>4, <2>1
  <2>3. /\ Append(results, x) \in Seq(S) /\ Len(Append(results, x)) = Len(results) + 1
        /\ Append(results, x)[Len(results) + 1] = x
        /\ \A i \in 1 .. Len(results) : Append(results, x)[i] = results[i]
    <3> HIDE <1>4
    <3> QED BY <2>2, AppendedFacts
  <2> QED BY <1>4, <2>1, <2>3, Zenon
<1>7. first + (l + 1) - 1 = end /\ l + 1 = (end + 1) - first BY <1>4
<1> HIDE DEF longer
<1>8. \A i \in 1 .. l + 1 : longer[i] = SlotsWithin(first + i - 1, n, given)
  <2> TAKE i \in 1 .. l + 1
  <2>1. CASE i = l + 1 BY <1>3, <1>6, <1>7, <2>1, Zenon
  <2>2. CASE i \in 1 .. l BY <1>5, <1>6, <2>2, Zenon
  <2> QED BY <2>1, <2>2
<1>9. ResultsAre(longer, n, first, end + 1, given) BY <1>6, <1>7, <1>8 DEF ResultsAre
<1> QED BY <1>2, <1>9, Zenon DEF longer

LEMMA OneAveragedMore ==
  ASSUME NEW n \in Nat \ {0}, NEW first \in Nat, NEW end \in Nat, first <= end,
         NEW given \in Nat, IsIn(given, n, end), NEW a, AveragingIs(a, n, first, end, given)
  PROVE  /\ (end * n .. given - 1) \cup {given} = end * n .. given
         /\ given + 1 = end * n + n => AveragingIs(Averaged(a, given), n, first, end + 1, given + 1)
         /\ given + 1 # end * n + n => AveragingIs(Averaged(a, given), n, first, end, given + 1)
<1>1. PICK e \in Nat : e = end * n OBVIOUS
<1>2. e <= given /\ given < e + n BY <1>1 DEF IsIn
<1>3. PICK r : r = a.results OBVIOUS
<1>4. a = [n |-> n, sum |-> e .. given - 1, results |-> r] /\ ResultsAre(r, n, first, end, given)
  BY <1>1, <1>3 DEF AveragingIs
<1>5. (e .. given - 1) \cup {given} = e .. given BY <1>2
<1>6. Cardinality(e .. given) = given - e + 1 BY <1>2, FS_Interval
<1>7. a.n = n /\ a.sum \cup {given} = e .. given BY <1>4, <1>5
<1>8. PICK more \in Nat : more = given + 1 OBVIOUS
<1>9. e .. given = e .. more - 1 BY <1>8
<1>10. ResultsAre(r, n, first, end, more) BY <1>1, <1>2, <1>4, <1>8, ResultsStay
<1>11. ASSUME more = e + n PROVE AveragingIs(Averaged(a, given), n, first, end + 1, more)
  <2>1. Cardinality(e .. given) = n BY <1>2, <1>6, <1>8, <1>11
  <2>2. Averaged(a, given) = [a EXCEPT !.sum = {}, !.results = Append(@, e .. given)]
    BY <1>7, <2>1 DEF Averaged
  <2>3. Averaged(a, given) = [n |-> n, sum |-> {}, results |-> Append(r, e .. given)] BY <1>4, <2>2
  <2>4. ResultsAre(Append(r, e .. more - 1), n, first, end + 1, more)
    <3>1. end * n < more /\ more <= end * n + n BY <1>1, <1>11, <1>8, <1>2
    <3> QED BY <1>1, <1>10, <3>1, OneResultMore
  <2>5. (end + 1) * n .. more - 1 = {}
    <3>1. (end + 1) * n = e + n BY <1>1, TimesNext
    <3> QED BY <1>11, <3>1
  <2>6. Averaged(a, given).results = Append(r, e .. more - 1) BY <1>9, <2>3
  <2> QED BY <1>9, <2>3, <2>4, <2>5, <2>6, Zenon DEF AveragingIs
<1>12. ASSUME more # e + n PROVE AveragingIs(Averaged(a, given), n, first, end, more)
  <2>1. Cardinality(e .. given) # n BY <1>2, <1>6, <1>8, <1>12
  <2>2. Averaged(a, given) = [a EXCEPT !.sum = e .. given] BY <1>7, <2>1 DEF Averaged
  <2>3. Averaged(a, given) = [n |-> n, sum |-> e .. given, results |-> r] BY <1>4, <2>2
  <2>4. Averaged(a, given).results = r BY <2>3
  <2> QED BY <1>1, <1>9, <1>10, <2>3, <2>4, Zenon DEF AveragingIs
<1> QED BY <1>1, <1>5, <1>8, <1>11, <1>12, Zenon

\* With the result of the sum that is cut off, and its factors.
LEMMA OneFactorMore ==
  ASSUME NEW n \in Nat \ {0}, NEW first \in Nat, NEW end \in Nat, first <= end, NEW given \in Nat,
         NEW factors, FactorsAre(factors, n, first, end, given),
         NEW a, ResultsAre(a.results, n, first, end + 1, given),
         NEW nout \in Nat, nout = end - first, NEW buf, buf = SlotsWithin(end, n, given)
  PROVE  FactorsAre(Append(SubSeq(factors, 1, nout), Factors(buf, a, nout + 1)), n, first, end + 1, given)
<1> DEFINE all == SlotsWithin(end, n, given)
           x == Mixing(all)
           cut == SubSeq(factors, 1, nout)
           new == Append(cut, x)
<1>1. Factors(buf, a, nout + 1) = x
  <2>1. nout + 1 \in 1 .. Len(a.results) /\ first + (nout + 1) - 1 = end BY DEF ResultsAre
  <2>2. a.results[nout + 1] = all BY <2>1, Zenon DEF ResultsAre
  <2> QED BY <2>2, Zenon DEF Factors, Mixing
<1>2. all \in SUBSET Int BY DEF SlotsWithin
<1>3. x \in [phases : SUBSET Int, weights : SUBSET Int] BY <1>2 DEF Mixing
<1>4. PICK S : S = [phases : SUBSET Int, weights : SUBSET Int] OBVIOUS
<1>5. factors \in Seq(S) /\ Len(factors) >= nout BY <1>4 DEF FactorsAre
<1>6. \A i \in 1 .. nout : factors[i] = Mixing(SlotsWithin(first + i - 1, n, given)) BY DEF FactorsAre
<1> HIDE DEF x
<1>7. cut \in Seq(S) /\ Len(cut) = nout /\ \A i \in 1 .. nout : cut[i] = factors[i] BY <1>5
<1> HIDE DEF cut
<1>8. new \in Seq(S) /\ Len(new) = nout + 1 /\ new[nout + 1] = x /\ \A i \in 1 .. nout : new[i] = cut[i]
  BY <1>3, <1>4, <1>7, AppendedFacts
<1> HIDE DEF new
<1>9. first + (nout + 1) - 1 = end /\ nout + 1 = (end + 1) - first OBVIOUS
<1>10. \A i \in 1 .. nout + 1 : new[i] = Mixing(SlotsWithin(first + i - 1, n, given))
  <2> TAKE i \in 1 .. nout + 1
  <2>1. CASE i = nout + 1 BY <1>8, <1>9, <2>1, Zenon DEF x
  <2>2. CASE i \in 1 .. nout BY <1>6, <1>7, <1>8, <2>2, Zenon
  <2> QED BY <2>1, <2>2
<1>11. FactorsAre(new, n, first, end + 1, given) BY <1>4, <1>8, <1>9, <1>10 DEF FactorsAre
<1> QED BY <1>1, <1>11, Zenon DEF new, cut

\* An averaging, with the sum of its factors, those that were made, and their number.
StreamIs(a, buf, factors, nout, n, first, end, given) ==
    /\ first <= end
    /\ IsIn(given, n, end)
    /\ AveragingIs(a, n, first, end, given)
    /\ buf = end * n .. given - 1
    /\ FactorsAre(factors, n, first, end, given)
    /\ nout = end - first

\* One slot more, which is the last of the interval or not.
LEMMA StreamGrows ==
  ASSUME NEW n \in Nat \ {0}, NEW first \in Nat, NEW end \in Nat, NEW given \in Nat,
         NEW a, NEW buf, NEW factors, NEW nout \in Nat,
         StreamIs(a, buf, factors, nout, n, first, end, given),
         NEW more \in Nat, more = given + 1
  PROVE  /\ more = end * n + n =>
               StreamIs(Averaged(a, given), {},
                        Append(SubSeq(factors, 1, nout),
                               Factors(buf \cup {given}, Averaged(a, given), nout + 1)),
                        nout + 1, n, first, end + 1, more)
         /\ more # end * n + n =>
               StreamIs(Averaged(a, given), buf \cup {given}, factors, nout, n, first, end, more)
<1>1. PICK e \in Nat : e = end * n OBVIOUS
<1>2. first <= end /\ IsIn(given, n, end) /\ AveragingIs(a, n, first, end, given) /\ nout = end - first
      /\ FactorsAre(factors, n, first, end, given) /\ buf = e .. given - 1
  BY <1>1 DEF StreamIs
<1>3. e <= given /\ given < e + n BY <1>1, <1>2 DEF IsIn
<1>4. PICK new : new = Averaged(a, given) OBVIOUS
<1>5. /\ e .. given = e .. more - 1 /\ buf \cup {given} = e .. more - 1
      /\ more = e + n => AveragingIs(new, n, first, end + 1, more)
      /\ more # e + n => AveragingIs(new, n, first, end, more)
  <2>1. e .. given = e .. more - 1 /\ given + 1 = more BY <1>1
  <2>2. /\ (e .. given - 1) \cup {given} = e .. given
        /\ more = e + n => AveragingIs(new, n, first, end + 1, more)
        /\ more # e + n => AveragingIs(new, n, first, end, more)
    <3>1. /\ (end * n .. given - 1) \cup {given} = end * n .. given
          /\ given + 1 = end * n + n => AveragingIs(Averaged(a, given), n, first, end + 1, given + 1)
          /\ given + 1 # end * n + n => AveragingIs(Averaged(a, given), n, first, end, given + 1)
      <4> HIDE <1>1
      <4> QED BY <1>2, OneAveragedMore
    <3> QED BY <1>1, <1>4, <2>1, <3>1, Zenon
  <2> QED BY <1>2, <2>1, <2>2, Zenon
<1>6. FactorsAre(factors, n, first, end, more) BY <1>1, <1>2, <1>3, FactorsStay
<1>7. ASSUME more = e + n
      PROVE  StreamIs(new, {}, Append(SubSeq(factors, 1, nout), Factors(buf \cup {given}, new, nout + 1)),
                      nout + 1, n, first, end + 1, more)
  <2>1. (end + 1) * n = e + n BY <1>1, TimesNext
  <2>2. SlotsWithin(end, n, more) = e .. more - 1
    <3>1. end * n <= more /\ more <= end * n + n BY <1>1, <1>3, <1>7
    <3> QED BY <1>1, <3>1, IntervalIsSum
  <2>3. ResultsAre(new.results, n, first, end + 1, more) BY <1>5, <1>7 DEF AveragingIs
  <2>4. FactorsAre(Append(SubSeq(factors, 1, nout), Factors(buf \cup {given}, new, nout + 1)),
                   n, first, end + 1, more)
    <3>1. buf \cup {given} = SlotsWithin(end, n, more) BY <1>5, <2>2
    <3> QED BY <1>2, <1>6, <2>3, <3>1, OneFactorMore
  <2>5. IsIn(more, n, end + 1) /\ {} = (end + 1) * n .. more - 1 BY <1>7, <2>1 DEF IsIn
  <2>6. first <= end + 1 /\ nout + 1 = (end + 1) - first BY <1>2
  <2> QED BY <1>5, <1>7, <2>4, <2>5, <2>6 DEF StreamIs
<1>8. ASSUME more # e + n
      PROVE  StreamIs(new, buf \cup {given}, factors, nout, n, first, end, more)
  <2>1. IsIn(more, n, end) BY <1>1, <1>3, <1>8 DEF IsIn
  <2> QED BY <1>1, <1>2, <1>5, <1>6, <1>8, <2>1, Zenon DEF StreamIs
<1> QED BY <1>1, <1>4, <1>7, <1>8, Zenon

\* What a chunk is solved and made of: complete intervals, and in the end a partial one.
StreamEnds(a, factors, nout, n, first, end, given) ==
    /\ first <= end
    /\ end * n < given + n
    /\ given <= end * n
    /\ ResultsAre(a.results, n, first, end, given)
    /\ FactorsAre(factors, n, first, end, given)
    /\ nout = end - first

LEMMA StreamIsEnded ==
  ASSUME NEW n \in Nat \ {0}, NEW first \in Nat, NEW end \in Nat, NEW given \in Nat,
         NEW a, NEW buf, NEW factors, NEW nout \in Nat,
         StreamIs(a, buf, factors, nout, n, first, end, given)
  PROVE  /\ given = end * n =>
               /\ FinishAverage(a) = a
               /\ StreamEnds(FinishAverage(a), factors, nout, n, first, end, given)
         /\ given # end * n =>
               StreamEnds(FinishAverage(a),
                          Append(SubSeq(factors, 1, nout), Factors(buf, FinishAverage(a), nout + 1)),
                          nout + 1, n, first, end + 1, given)
<1>1. PICK e \in Nat : e = end * n OBVIOUS
<1>2. first <= end /\ IsIn(given, n, end) /\ AveragingIs(a, n, first, end, given) /\ nout = end - first
      /\ FactorsAre(factors, n, first, end, given) /\ buf = e .. given - 1
  BY <1>1 DEF StreamIs
<1>3. e <= given /\ given < e + n BY <1>1, <1>2 DEF IsIn
<1>4. PICK r : r = a.results OBVIOUS
<1>5. a = [n |-> n, sum |-> e .. given - 1, results |-> r] /\ ResultsAre(r, n, first, end, given)
  BY <1>1, <1>2, <1>4 DEF AveragingIs
<1>6. a.sum = e .. given - 1 BY <1>5
<1>7. ASSUME given = e
      PROVE  FinishAverage(a) = a /\ StreamEnds(FinishAverage(a), factors, nout, n, first, end, given)
  <2>1. a.sum = {} BY <1>6, <1>7
  <2>2. FinishAverage(a) = a BY <2>1 DEF FinishAverage
  <2>3. end * n < given + n /\ given <= end * n BY <1>1, <1>7
  <2> QED BY <1>2, <1>4, <1>5, <2>2, <2>3, Zenon DEF StreamEnds
<1>8. ASSUME given # e
      PROVE  StreamEnds(FinishAverage(a),
                        Append(SubSeq(factors, 1, nout), Factors(buf, FinishAverage(a), nout + 1)),
                        nout + 1, n, first, end + 1, given)
  <2>1. e \in a.sum BY <1>3, <1>6, <1>8
  <2>2. a.sum # {} BY <2>1
  <2>3. FinishAverage(a) = [a EXCEPT !.sum = {}, !.results = Append(@, a.sum)] BY <2>2 DEF FinishAverage
  <2>4. FinishAverage(a) = [n |-> n, sum |-> {}, results |-> Append(r, e .. given - 1)] BY <1>5, <1>6, <2>3
  <2>5. FinishAverage(a).results = Append(r, e .. given - 1) BY <2>4
  <2>6. end * n < given /\ given <= end * n + n BY <1>1, <1>3, <1>8
  <2>7. ResultsAre(FinishAverage(a).results, n, first, end + 1, given)
    BY <1>1, <1>2, <1>5, <2>5, <2>6, OneResultMore
  <2>8. buf = SlotsWithin(end, n, given) BY <1>1, <1>2, <2>6, IntervalIsSum
  <2>9. FactorsAre(Append(SubSeq(factors, 1, nout), Factors(buf, FinishAverage(a), nout + 1)),
                   n, first, end + 1, given)
    BY <1>2, <2>7, <2>8, OneFactorMore
  <2>10. (end + 1) * n = e + n BY <1>1, TimesNext
  <2>11. (end + 1) * n < given + n /\ given <= (end + 1) * n /\ first <= end + 1 /\ nout + 1 = (end + 1) - first
    BY <1>1, <1>2, <1>3, <1>8, <2>10
  <2> QED BY <2>7, <2>9, <2>11, Zenon DEF StreamEnds
<1> QED BY <1>1, <1>7, <1>8, Zenon

-----------------------------------------------------------------------------
\* The members of the step, and what the parts of its handlers change.
DemixMembers(n_in, n_out, n_out_subtr, index, demix, output, buf, buf_subtr, factors, factors_subtr, unknowns) ==
    [n_in |-> n_in, n_out |-> n_out, n_out_subtr |-> n_out_subtr, time_index |-> index,
     demix |-> demix, output |-> output, factor_buf |-> buf, factor_buf_subtr |-> buf_subtr,
     factors |-> factors, factors_subtr |-> factors_subtr, unknowns |-> unknowns]

LEMMA CollectedIs ==
  ASSUME NEW ni, NEW no, NEW nos, NEW ti, NEW d, NEW o, NEW fb, NEW fbs, NEW f, NEW fs, NEW u,
         step = DemixMembers(ni, no, nos, ti, d, o, fb, fbs, f, fs, u), NEW slot
  PROVE  Collected(slot) = DemixMembers(ni + 1, no, nos, ti, Averaged(d, slot), Averaged(o, slot),
                                   fb \cup {slot}, fbs \cup {slot}, f, fs, u)
<1>1. PICK n, d2, o2, fb2, fbs2 :
        n = ni + 1 /\ d2 = Averaged(d, slot) /\ o2 = Averaged(o, slot)
        /\ fb2 = fb \cup {slot} /\ fbs2 = fbs \cup {slot}
  OBVIOUS
<1>2. step.n_in = ni /\ step.demix = d /\ step.output = o /\ step.factor_buf = fb
      /\ step.factor_buf_subtr = fbs
  BY DEF DemixMembers
<1>3. Collected(slot) = [step EXCEPT !.n_in = n, !.demix = d2, !.output = o2,
                                     !.factor_buf = fb2, !.factor_buf_subtr = fbs2]
  BY <1>1, <1>2 DEF Collected
<1> HIDE <1>1
<1>4. [step EXCEPT !.n_in = n, !.demix = d2, !.output = o2, !.factor_buf = fb2, !.factor_buf_subtr = fbs2]
        = DemixMembers(n, no, nos, ti, d2, o2, fb2, fbs2, f, fs, u)
  <2>1. [DemixMembers(ni, no, nos, ti, d, o, fb, fbs, f, fs, u) EXCEPT !.n_in = n]
        = DemixMembers(n, no, nos, ti, d, o, fb, fbs, f, fs, u)
    BY DEF DemixMembers
  <2>2. [DemixMembers(n, no, nos, ti, d, o, fb, fbs, f, fs, u) EXCEPT !.demix = d2]
        = DemixMembers(n, no, nos, ti, d2, o, fb, fbs, f, fs, u)
    BY DEF DemixMembers
  <2>3. [DemixMembers(n, no, nos, ti, d2, o, fb, fbs, f, fs, u) EXCEPT !.output = o2]
        = DemixMembers(n, no, nos, ti, d2, o2, fb, fbs, f, fs, u)
    BY DEF DemixMembers
  <2>4. [DemixMembers(n, no, nos, ti, d2, o2, fb, fbs, f, fs, u) EXCEPT !.factor_buf = fb2]
        = DemixMembers(n, no, nos, ti, d2, o2, fb2, fbs, f, fs, u)
    BY DEF DemixMembers
  <2>5. [DemixMembers(n, no, nos, ti, d2, o2, fb2, fbs, f, fs, u) EXCEPT !.factor_buf_subtr = fbs2]
        = DemixMembers(n, no, nos, ti, d2, o2, fb2, fbs2, f, fs, u)
    BY DEF DemixMembers
  <2>6. [step EXCEPT !.n_in = n, !.demix = d2, !.output = o2]
        = DemixMembers(n, no, nos, ti, d2, o2, fb, fbs, f, fs, u)
    BY <2>1, <2>2, <2>3, Zenon
  <2> QED BY <2>6, <2>4, <2>5, Zenon
<1> QED BY <1>1, <1>3, <1>4, Zenon

LEMMA MakeFactorsIs ==
  ASSUME NEW ni, NEW no, NEW nos, NEW ti, NEW d, NEW o, NEW fb, NEW fbs, NEW f, NEW fs, NEW u
  PROVE  MakeFactors(DemixMembers(ni, no, nos, ti, d, o, fb, fbs, f, fs, u))
            = DemixMembers(ni, no + 1, nos, ti, d, o, {}, fbs,
                      Append(SubSeq(f, 1, no), Factors(fb, d, no + 1)), fs, u)
<1>1. PICK s : s = DemixMembers(ni, no, nos, ti, d, o, fb, fbs, f, fs, u) OBVIOUS
<1>2. PICK n, f2 : n = no + 1 /\ f2 = Append(SubSeq(f, 1, no), Factors(fb, d, no + 1)) OBVIOUS
<1>3. s.n_out = no /\ s.factors = f /\ s.factor_buf = fb /\ s.demix = d BY <1>1 DEF DemixMembers
<1>4. MakeFactors(s) = [s EXCEPT !.factors = f2, !.factor_buf = {}, !.n_out = n]
  BY <1>2, <1>3 DEF MakeFactors
<1> HIDE <1>2
<1>5. [s EXCEPT !.factors = f2, !.factor_buf = {}, !.n_out = n]
        = DemixMembers(ni, n, nos, ti, d, o, {}, fbs, f2, fs, u)
  <2>1. [DemixMembers(ni, no, nos, ti, d, o, fb, fbs, f, fs, u) EXCEPT !.factors = f2]
        = DemixMembers(ni, no, nos, ti, d, o, fb, fbs, f2, fs, u)
    BY DEF DemixMembers
  <2>2. [DemixMembers(ni, no, nos, ti, d, o, fb, fbs, f2, fs, u) EXCEPT !.factor_buf = {}]
        = DemixMembers(ni, no, nos, ti, d, o, {}, fbs, f2, fs, u)
    BY DEF DemixMembers
  <2>3. [DemixMembers(ni, no, nos, ti, d, o, {}, fbs, f2, fs, u) EXCEPT !.n_out = n]
        = DemixMembers(ni, n, nos, ti, d, o, {}, fbs, f2, fs, u)
    BY DEF DemixMembers
  <2> QED BY <1>1, <2>1, <2>2, <2>3, Zenon
<1> QED BY <1>1, <1>2, <1>4, <1>5, Zenon

LEMMA MakeFactorsSubtrIs ==
  ASSUME NEW ni, NEW no, NEW nos, NEW ti, NEW d, NEW o, NEW fb, NEW fbs, NEW f, NEW fs, NEW u
  PROVE  MakeFactorsSubtr(DemixMembers(ni, no, nos, ti, d, o, fb, fbs, f, fs, u))
            = DemixMembers(ni, no, nos + 1, ti, d, o, fb, {}, f,
                      Append(SubSeq(fs, 1, nos), Factors(fbs, o, nos + 1)), u)
<1>1. PICK s : s = DemixMembers(ni, no, nos, ti, d, o, fb, fbs, f, fs, u) OBVIOUS
<1>2. PICK n, f2 : n = nos + 1 /\ f2 = Append(SubSeq(fs, 1, nos), Factors(fbs, o, nos + 1)) OBVIOUS
<1>3. s.n_out_subtr = nos /\ s.factors_subtr = fs /\ s.factor_buf_subtr = fbs /\ s.output = o
  BY <1>1 DEF DemixMembers
<1>4. MakeFactorsSubtr(s) = [s EXCEPT !.factors_subtr = f2, !.factor_buf_subtr = {}, !.n_out_subtr = n]
  BY <1>2, <1>3 DEF MakeFactorsSubtr
<1> HIDE <1>2
<1>5. [s EXCEPT !.factors_subtr = f2, !.factor_buf_subtr = {}, !.n_out_subtr = n]
        = DemixMembers(ni, no, n, ti, d, o, fb, {}, f, f2, u)
  <2>1. [DemixMembers(ni, no, nos, ti, d, o, fb, fbs, f, fs, u) EXCEPT !.factors_subtr = f2]
        = DemixMembers(ni, no, nos, ti, d, o, fb, fbs, f, f2, u)
    BY DEF DemixMembers
  <2>2. [DemixMembers(ni, no, nos, ti, d, o, fb, fbs, f, f2, u) EXCEPT !.factor_buf_subtr = {}]
        = DemixMembers(ni, no, nos, ti, d, o, fb, {}, f, f2, u)
    BY DEF DemixMembers
  <2>3. [DemixMembers(ni, no, nos, ti, d, o, fb, {}, f, f2, u) EXCEPT !.n_out_subtr = n]
        = DemixMembers(ni, no, n, ti, d, o, fb, {}, f, f2, u)
    BY DEF DemixMembers
  <2> QED BY <1>1, <2>1, <2>2, <2>3, Zenon
<1> QED BY <1>1, <1>2, <1>4, <1>5, Zenon

LEMMA FinishedIs ==
  ASSUME NEW ni, NEW no, NEW nos, NEW ti, NEW d, NEW o, NEW fb, NEW fbs, NEW f, NEW fs, NEW u,
         step = DemixMembers(ni, no, nos, ti, d, o, fb, fbs, f, fs, u)
  PROVE  [step EXCEPT !.demix = FinishAverage(@), !.output = FinishAverage(@)]
            = DemixMembers(ni, no, nos, ti, FinishAverage(d), FinishAverage(o), fb, fbs, f, fs, u)
<1>1. PICK d2, o2 : d2 = FinishAverage(d) /\ o2 = FinishAverage(o) OBVIOUS
<1>2. step.demix = d /\ step.output = o BY DEF DemixMembers
<1>3. [step EXCEPT !.demix = FinishAverage(@), !.output = FinishAverage(@)]
        = [step EXCEPT !.demix = d2, !.output = o2]
  BY <1>1, <1>2
<1>4. [step EXCEPT !.demix = d2, !.output = o2]
        = DemixMembers(ni, no, nos, ti, d2, o2, fb, fbs, f, fs, u)
  <2>1. [DemixMembers(ni, no, nos, ti, d, o, fb, fbs, f, fs, u) EXCEPT !.demix = d2]
        = DemixMembers(ni, no, nos, ti, d2, o, fb, fbs, f, fs, u)
    BY DEF DemixMembers
  <2>2. [DemixMembers(ni, no, nos, ti, d2, o, fb, fbs, f, fs, u) EXCEPT !.output = o2]
        = DemixMembers(ni, no, nos, ti, d2, o2, fb, fbs, f, fs, u)
    BY DEF DemixMembers
  <2> QED BY <2>1, <2>2, Zenon
<1> QED BY <1>1, <1>3, <1>4, Zenon

LEMMA HandledDemixIs ==
  ASSUME NEW ni, NEW no, NEW nos, NEW ti, NEW d, NEW o, NEW fb, NEW fbs, NEW f, NEW fs, NEW u,
         NEW s, s = DemixMembers(ni, no, nos, ti, d, o, fb, fbs, f, fs, u)
  PROVE  HandledDemix(s) = DemixMembers(0, 0, 0, ti + config.chunk, ClearResults(d), ClearResults(o),
                                   fb, fbs, f, fs, IF config.model THEN Unknowns(s) ELSE u)
<1>1. PICK d2, o2, u2, t2 :
        d2 = ClearResults(d) /\ o2 = ClearResults(o) /\ t2 = ti + config.chunk
        /\ u2 = IF config.model THEN Unknowns(s) ELSE u
  OBVIOUS
<1>2. s.demix = d /\ s.output = o /\ s.unknowns = u /\ s.time_index = ti BY DEF DemixMembers
<1>3. NextTimeIndex(s) = t2 BY <1>1, <1>2 DEF NextTimeIndex
<1>4. HandledDemix(s)
        = [s EXCEPT !.unknowns = u2, !.demix = d2, !.output = o2,
                    !.n_in = 0, !.n_out = 0, !.n_out_subtr = 0, !.time_index = t2]
  BY <1>1, <1>2, <1>3, Zenon DEF HandledDemix
<1> HIDE <1>1
<1>5. [s EXCEPT !.unknowns = u2, !.demix = d2, !.output = o2,
                !.n_in = 0, !.n_out = 0, !.n_out_subtr = 0, !.time_index = t2]
        = DemixMembers(0, 0, 0, t2, d2, o2, fb, fbs, f, fs, u2)
  <2>1. [DemixMembers(ni, no, nos, ti, d, o, fb, fbs, f, fs, u) EXCEPT !.unknowns = u2]
        = DemixMembers(ni, no, nos, ti, d, o, fb, fbs, f, fs, u2)
    BY DEF DemixMembers
  <2>2. [DemixMembers(ni, no, nos, ti, d, o, fb, fbs, f, fs, u2) EXCEPT !.demix = d2]
        = DemixMembers(ni, no, nos, ti, d2, o, fb, fbs, f, fs, u2)
    BY DEF DemixMembers
  <2>3. [DemixMembers(ni, no, nos, ti, d2, o, fb, fbs, f, fs, u2) EXCEPT !.output = o2]
        = DemixMembers(ni, no, nos, ti, d2, o2, fb, fbs, f, fs, u2)
    BY DEF DemixMembers
  <2>4. [DemixMembers(ni, no, nos, ti, d2, o2, fb, fbs, f, fs, u2) EXCEPT !.n_in = 0]
        = DemixMembers(0, no, nos, ti, d2, o2, fb, fbs, f, fs, u2)
    BY DEF DemixMembers
  <2>5. [DemixMembers(0, no, nos, ti, d2, o2, fb, fbs, f, fs, u2) EXCEPT !.n_out = 0]
        = DemixMembers(0, 0, nos, ti, d2, o2, fb, fbs, f, fs, u2)
    BY DEF DemixMembers
  <2>6. [DemixMembers(0, 0, nos, ti, d2, o2, fb, fbs, f, fs, u2) EXCEPT !.n_out_subtr = 0]
        = DemixMembers(0, 0, 0, ti, d2, o2, fb, fbs, f, fs, u2)
    BY DEF DemixMembers
  <2>7. [DemixMembers(0, 0, 0, ti, d2, o2, fb, fbs, f, fs, u2) EXCEPT !.time_index = t2]
        = DemixMembers(0, 0, 0, t2, d2, o2, fb, fbs, f, fs, u2)
    BY DEF DemixMembers
  <2>8. [s EXCEPT !.unknowns = u2, !.demix = d2, !.output = o2, !.n_in = 0]
        = DemixMembers(0, no, nos, ti, d2, o2, fb, fbs, f, fs, u2)
    BY <2>1, <2>2, <2>3, <2>4, Zenon
  <2> QED BY <2>8, <2>5, <2>6, <2>7, Zenon
<1> QED BY <1>1, <1>4, <1>5, Zenon

-----------------------------------------------------------------------------
DemixSettings ==
    /\ config.ntime \in Nat \ {0} /\ config.avg \in Nat \ {0} /\ config.subtr \in Nat \ {0}
    /\ config.chunk \in Nat \ {0} /\ config.model \in BOOLEAN /\ config.selection \in BOOLEAN
    /\ config.avg % config.subtr = 0

LEMMA MultiplierIs ==
  ASSUME DemixSettings
  PROVE  Multiplier \in Nat \ {0} /\ config.avg = Multiplier * config.subtr
<1>1. PICK n \in Nat \ {0} : n = config.avg BY DEF DemixSettings
<1>2. PICK b \in Nat \ {0} : b = config.subtr BY DEF DemixSettings
<1>3. n % b = 0 BY <1>1, <1>2 DEF DemixSettings
<1>4. n = b * (n \div b) + (n % b) OBVIOUS
<1>5. n \div b \in Nat OBVIOUS
<1>6. PICK m \in Nat : m = n \div b BY <1>5
<1>7. n = b * m BY <1>3, <1>4, <1>6
<1>8. m # 0 /\ n = m * b BY <1>7
<1> QED BY <1>1, <1>2, <1>6, <1>8 DEF Multiplier

\* An output is in one of the intervals that are solved, number ts of the chunk.
IsOfChunk(m, b, n, fd, ae, fo, be, given, k) ==
    /\ m \in Nat \ {0} /\ b \in Nat \ {0} /\ n \in Nat \ {0}
    /\ fd \in Nat /\ ae \in Nat /\ fo \in Nat /\ be \in Nat /\ given \in Nat /\ k \in Nat
    /\ n = m * b /\ fo = fd * m /\ be * b < given + b /\ given <= ae * n /\ fo + k < be

IsOutputOf(m, b, n, fd, ae, fo, k, ts) ==
    /\ fd + ts < ae
    /\ m * ts <= k /\ k < m * (ts + 1)
    /\ ((fo + k) * b) \div n = fd + ts

LEMMA OutputIsInInterval ==
  ASSUME NEW m, NEW b, NEW n, NEW fd, NEW ae, NEW fo, NEW be, NEW given, NEW k,
         IsOfChunk(m, b, n, fd, ae, fo, be, given, k)
  PROVE  \E ts \in Nat : IsOutputOf(m, b, n, fd, ae, fo, k, ts)
<1> USE DEF IsOfChunk
<1>1. PICK ts \in Nat : ts = k \div m OBVIOUS
<1>2. PICK p \in Nat : p = m * ts OBVIOUS
<1>3. p <= k /\ k < p + m
  <2>1. k = m * (k \div m) + (k % m) /\ k % m \in 0 .. m - 1 OBVIOUS
  <2>2. PICK r \in Int : r = k % m BY <2>1
  <2> QED BY <1>1, <1>2, <2>1, <2>2
<1>4. m * (ts + 1) = p + m BY <1>2
<1>5. PICK g \in Nat : g = fd + ts OBVIOUS
<1>6. g * m = fo + p BY <1>2, <1>5
<1>7. be <= ae * m
  <2>1. PICK e \in Nat : e = ae * m OBVIOUS
  <2>2. ae * n = e * b BY <2>1
  <2>3. SUFFICES ASSUME e < be PROVE FALSE BY <2>1
  <2>4. e + 1 <= be BY <2>3
  <2>5. (e + 1) * b <= be * b
    <3>1. e + 1 \in Nat OBVIOUS
    <3> HIDE <2>3
    <3> QED BY <2>4, <3>1, TimesOrder
  <2>6. (e + 1) * b = e * b + b BY TimesNext
  <2>7. PICK x \in Nat : x = e * b OBVIOUS
  <2>8. PICK y \in Nat : y = be * b OBVIOUS
  <2> HIDE <2>1
  <2> QED BY <2>2, <2>5, <2>6, <2>7, <2>8
<1>8. g < ae
  <2>1. g * m < ae * m
    <3>1. PICK e \in Nat : e = ae * m OBVIOUS
    <3> QED BY <1>3, <1>6, <1>7, <3>1
  <2>2. SUFFICES ASSUME ae <= g PROVE FALSE BY <1>5
  <2>3. ae * m <= g * m BY <2>2, TimesOrder
  <2>4. PICK x \in Nat : x = ae * m OBVIOUS
  <2>5. PICK y \in Nat : y = g * m OBVIOUS
  <2> QED BY <2>1, <2>3, <2>4, <2>5
<1>9. ((fo + k) * b) \div n = g
  <2>1. PICK j \in Nat : j = fo + k OBVIOUS
  <2>2. PICK u \in Nat : u = g * m OBVIOUS
  <2>3. u <= j /\ j + 1 <= u + m BY <1>3, <1>6, <2>1, <2>2
  <2>4. u * b <= j * b BY <2>3, TimesOrder
  <2>5. (j + 1) * b <= (u + m) * b
    <3>1. j + 1 \in Nat /\ u + m \in Nat OBVIOUS
    <3> QED BY <2>3, <3>1, TimesOrder
  <2>6. (j + 1) * b = j * b + b /\ (u + m) * b = u * b + n OBVIOUS
  <2>7. g * n = u * b BY <2>2
  <2>8. PICK x \in Nat : x = j * b OBVIOUS
  <2>9. PICK y \in Nat : y = u * b OBVIOUS
  <2>10. g * n <= x /\ x < g * n + n
    <3> HIDE <2>1, <2>2
    <3> QED BY <2>4, <2>5, <2>6, <2>7, <2>8, <2>9
  <2>11. x \div n = g BY <2>10, QuotientIs
  <2> QED BY <2>1, <2>8, <2>11
<1>10. fd + ts < ae /\ m * ts <= k /\ k < m * (ts + 1) BY <1>2, <1>3, <1>4, <1>5, <1>8
<1> QED BY <1>5, <1>9, <1>10 DEF IsOutputOf

\* The chunk as it is handled: the averages and their factors.
ChunkIs(s, fd, ae, fo, be, given) ==
    /\ fd \in Nat /\ ae \in Nat /\ fo \in Nat /\ be \in Nat /\ given \in Nat
    /\ StreamEnds(s.demix, s.factors, s.n_out, config.avg, fd, ae, given)
    /\ StreamEnds(s.output, s.factors_subtr, s.n_out_subtr, config.subtr, fo, be, given)

LEMMA EstimatedIs ==
  ASSUME DemixSettings, NEW fd, NEW ae, NEW fo, NEW be, NEW given,
         NEW s, ChunkIs(s, fd, ae, fo, be, given), NEW ts \in Nat, fd + ts < ae
  PROVE  Estimated(s, ts) = SolvedOf(config, given, fd + ts)
<1>0. fd \in Nat /\ ae \in Nat /\ fo \in Nat /\ be \in Nat /\ given \in Nat BY DEF ChunkIs
<1> USE <1>0
<1>1. /\ ResultsAre(s.demix.results, config.avg, fd, ae, given)
      /\ FactorsAre(s.factors, config.avg, fd, ae, given)
  BY DEF ChunkIs, StreamEnds
<1>2. ts + 1 \in 1 .. ae - fd /\ fd + (ts + 1) - 1 = fd + ts OBVIOUS
<1>3. s.demix.results[ts + 1] = SlotsWithin(fd + ts, config.avg, given)
  BY <1>1, <1>2, Zenon DEF ResultsAre
<1>4. s.factors[ts + 1] = Mixing(SlotsWithin(fd + ts, config.avg, given))
  BY <1>1, <1>2, Zenon DEF FactorsAre
<1> QED BY <1>3, <1>4, Zenon DEF Estimated, SolvedOf

LEMMA OutputIs ==
  ASSUME DemixSettings, NEW fd, NEW ae, NEW fo, NEW be, NEW given,
         NEW s, ChunkIs(s, fd, ae, fo, be, given), fo = fd * Multiplier,
         NEW k \in Nat, fo + k < be
  PROVE  Output(s, k) = OutputOf(config, given, fo + k)
<1>0. fd \in Nat /\ ae \in Nat /\ fo \in Nat /\ be \in Nat /\ given \in Nat BY DEF ChunkIs
<1> USE <1>0
<1>1. PICK m \in Nat \ {0} : m = Multiplier BY MultiplierIs
<1>2. PICK b \in Nat \ {0} : b = config.subtr BY DEF DemixSettings
<1>3. PICK n \in Nat \ {0} : n = config.avg BY DEF DemixSettings
<1>4. n = m * b BY <1>1, <1>2, <1>3, MultiplierIs
<1>5. /\ be * b < given + b
      /\ ResultsAre(s.output.results, b, fo, be, given)
      /\ FactorsAre(s.factors_subtr, b, fo, be, given)
      /\ given <= ae * n /\ Len(s.demix.results) = ae - fd
  BY <1>2, <1>3 DEF ChunkIs, StreamEnds, ResultsAre
<1>6. PICK ts \in Nat :
        fd + ts < ae /\ m * ts <= k /\ k < m * (ts + 1) /\ ((fo + k) * b) \div n = fd + ts
  <2>1. IsOfChunk(m, b, n, fd, ae, fo, be, given, k) BY <1>1, <1>4, <1>5 DEF IsOfChunk
  <2>3. \E t \in Nat : IsOutputOf(m, b, n, fd, ae, fo, k, t) BY <2>1, OutputIsInInterval
  <2> QED BY <2>3 DEF IsOutputOf
<1>7. k + 1 \in 1 .. be - fo /\ fo + (k + 1) - 1 = fo + k OBVIOUS
<1>8. s.output.results[k + 1] = SlotsWithin(fo + k, b, given) /\ Len(s.output.results) = be - fo
  BY <1>5, <1>7, Zenon DEF ResultsAre
<1>9. s.factors_subtr[k + 1] = Mixing(SlotsWithin(fo + k, b, given))
  BY <1>5, <1>7, Zenon DEF FactorsAre
<1>10. Estimated(s, ts) = SolvedOf(config, given, fd + ts)
  <2>1. fd + ts < ae /\ ts \in Nat BY <1>6
  <2> QED BY <2>1, EstimatedIs
<1>11. \A t \in 0 .. ae - fd - 1 : k \in m * t .. AtMost(m * (t + 1), be - fo) - 1 <=> t = ts
  <2> TAKE t \in 0 .. ae - fd - 1
  <2>1. PICK x \in Nat : x = m * t OBVIOUS
  <2>2. m * (t + 1) = x + m BY <2>1
  <2>3. PICK z \in Nat : z = m * ts OBVIOUS
  <2>4. m * (ts + 1) = z + m BY <2>3
  <2>5. k \in x .. AtMost(x + m, be - fo) - 1 <=> x <= k /\ k < x + m BY DEF AtMost
  <2>6. x <= k /\ k < x + m => t = ts
    <3> SUFFICES ASSUME x <= k, k < x + m PROVE t = ts OBVIOUS
    <3>1. t * m <= k /\ k < t * m + m BY <2>1
    <3>2. ts * m <= k /\ k < ts * m + m BY <1>6, <2>3, <2>4
    <3>3. k \div m = t BY <1>1, <3>1, QuotientIs
    <3>4. k \div m = ts BY <1>1, <1>6, <3>2, QuotientIs
    <3> QED BY <3>3, <3>4
  <2>7. t = ts => x <= k /\ k < x + m BY <1>6, <2>1, <2>3, <2>4
  <2> QED BY <2>1, <2>2, <2>5, <2>6, <2>7, Zenon
<1>12. ts \in 0 .. ae - fd - 1 BY <1>6
<1>13. {t \in 0 .. ae - fd - 1 : k \in m * t .. AtMost(m * (t + 1), be - fo) - 1} = {ts}
  <2> DEFINE In(t) == k \in m * t .. AtMost(m * (t + 1), be - fo) - 1
  <2>1. \A t \in 0 .. ae - fd - 1 : In(t) <=> t = ts BY <1>11
  <2> HIDE DEF In
  <2>2. {t \in 0 .. ae - fd - 1 : In(t)} = {ts} BY <1>12, <2>1
  <2> QED BY <2>2, Zenon DEF In
<1>14. Residual(s, k) = {[solution |-> Estimated(s, t), mix |-> s.factors_subtr[k + 1]] : t \in {ts}}
  BY <1>1, <1>5, <1>8, <1>13, Zenon DEF Residual
<1>15. Residual(s, k) = {[solution |-> Estimated(s, ts), mix |-> s.factors_subtr[k + 1]]}
  BY <1>14
<1> DEFINE slots == SlotsWithin(fo + k, b, given)
<1>16. Residual(s, k) = {[solution |-> SolvedOf(config, given, ((fo + k) * b) \div n), mix |-> Mixing(slots)]}
  BY <1>6, <1>9, <1>10, <1>15, Zenon
<1> HIDE DEF slots
<1> QED BY <1>2, <1>3, <1>8, <1>16, Zenon DEF Output, OutputOf, slots

\* What is written of the n intervals that were solved.
UnknownsIs(unknowns, n, given) ==
    /\ DOMAIN unknowns = IF config.model THEN 0 .. n - 1 ELSE {}
    /\ \A k \in DOMAIN unknowns : unknowns[k] = SolvedOf(config, given, k)

LEMMA UnknownsAre ==
  ASSUME DemixSettings, NEW fd, NEW ae, NEW fo, NEW be, NEW given,
         NEW s, ChunkIs(s, fd, ae, fo, be, given), s.time_index = fd, UnknownsIs(s.unknowns, fd, given),
         config.model
  PROVE  UnknownsIs(Unknowns(s), ae, given)
<1>0. fd \in Nat /\ ae \in Nat /\ fo \in Nat /\ be \in Nat /\ given \in Nat BY DEF ChunkIs
<1> USE <1>0
<1>1. fd <= ae /\ Len(s.demix.results) = ae - fd BY DEF ChunkIs, StreamEnds, ResultsAre
<1> DEFINE solved == fd .. ae - 1
<1>9. DOMAIN s.unknowns = 0 .. fd - 1 /\ \A k \in DOMAIN s.unknowns : s.unknowns[k] = SolvedOf(config, given, k)
  BY DEF UnknownsIs
<1>2. s.time_index .. s.time_index + Len(s.demix.results) - 1 = solved BY <1>1
<1>3. (0 .. fd - 1) \cup solved = 0 .. ae - 1 BY <1>1
<1>4. \A k \in solved : Estimated(s, k - fd) = SolvedOf(config, given, k)
  <2> TAKE k \in solved
  <2>1. PICK ts \in Nat : ts = k - fd OBVIOUS
  <2>2. fd + ts < ae /\ fd + ts = k BY <2>1
  <2>3. Estimated(s, ts) = SolvedOf(config, given, fd + ts) BY <2>1, <2>2, EstimatedIs
  <2> QED BY <2>1, <2>2, <2>3
<1>5. \A k \in 0 .. ae - 1 : k \notin solved => k \in 0 .. fd - 1 BY <1>1
<1> HIDE DEF solved
<1>6. Unknowns(s) = [k \in 0 .. ae - 1 |-> IF k \in solved THEN Estimated(s, k - fd) ELSE s.unknowns[k]]
  BY <1>2, <1>3, <1>9, Zenon DEF Unknowns
<1>7. DOMAIN Unknowns(s) = 0 .. ae - 1 BY <1>6, Zenon
<1>8. \A k \in 0 .. ae - 1 : Unknowns(s)[k] = IF k \in solved THEN Estimated(s, k - fd) ELSE s.unknowns[k]
  BY <1>6, Zenon
<1>10. \A k \in 0 .. ae - 1 : Unknowns(s)[k] = SolvedOf(config, given, k)
  BY <1>4, <1>5, <1>8, <1>9, Zenon
<1> QED BY <1>7, <1>10, Zenon DEF UnknownsIs

-----------------------------------------------------------------------------
OutputsOf(cfg) == {OutputOf(cfg, given, k) : given \in Nat, k \in Nat}

OutputsAre(slots, n, given) ==
    Len(slots) = n /\ \A k \in 1 .. n : slots[k] = OutputOf(config, given, k - 1)

DemixTypes ==
    /\ DemixSettings
    /\ fed \in 0 .. config.ntime
    /\ finished \in BOOLEAN
    /\ sent \in Seq(OutputsOf(config))

\* The chunks before have fd intervals and fo outputs; the averagings are at a and b.
DemixState(s, fd, fo, a, b, given) ==
    /\ fd \in Nat /\ fo \in Nat /\ a \in Nat /\ b \in Nat
    /\ fo = fd * Multiplier
    /\ s = DemixMembers(given - fd * config.avg, s.n_out, s.n_out_subtr, fd, s.demix, s.output,
                   s.factor_buf, s.factor_buf_subtr, s.factors, s.factors_subtr, s.unknowns)
    /\ StreamIs(s.demix, s.factor_buf, s.factors, s.n_out, config.avg, fd, a, given)
    /\ StreamIs(s.output, s.factor_buf_subtr, s.factors_subtr, s.n_out_subtr, config.subtr, fo, b, given)

DemixRuns(fd, fo, a, b) ==
    /\ DemixState(step, fd, fo, a, b, fed)
    /\ a < fd + config.chunk
    /\ UnknownsIs(step.unknowns, fd, fed)
    /\ OutputsAre(sent, fo, fed)

\* There are so many intervals of n slots.
Needed(end, n, given) == end \in Nat /\ end * n < given + n /\ given <= end * n

DemixIsDone(a, b) ==
    /\ Needed(a, config.avg, fed) /\ Needed(b, config.subtr, fed)
    /\ UnknownsIs(step.unknowns, a, fed)
    /\ OutputsAre(sent, b, fed)

DemixInv ==
    /\ DemixTypes
    /\ finished = FALSE => \E fd, fo, a, b \in Nat : DemixRuns(fd, fo, a, b)
    /\ finished => \E a, b \in Nat : DemixIsDone(a, b)

-----------------------------------------------------------------------------
RestOf(given, first, n) == (given - first * n) % n
Within(given, first, n, end) ==
    /\ n \in Nat \ {0} /\ first \in Nat /\ end \in Nat /\ given \in Nat
    /\ first <= end /\ end * n <= given /\ given <= end * n + n

LEMMA RemainderOfStream ==
  ASSUME NEW n, NEW first, NEW end, NEW given, Within(given, first, n, end)
  PROVE  RestOf(given, first, n) = 0 <=> given = end * n \/ given = end * n + n
<1> USE DEF Within, RestOf
<1>1. PICK f \in Nat : f = first * n OBVIOUS
<1>2. PICK e \in Nat : e = end * n OBVIOUS
<1>3. PICK k \in Nat : k = end - first OBVIOUS
<1>4. PICK p \in Nat : p = k * n OBVIOUS
<1>5. e = f + p
  <2>1. end = first + k BY <1>3
  <2>2. end * n = first * n + k * n BY <2>1
  <2> QED BY <1>1, <1>2, <1>4, <2>2
<1>6. PICK x \in Nat : x = given - f BY <1>2, <1>5
<1>7. p <= x /\ x <= p + n /\ (given = e <=> x = p) /\ (given = e + n <=> x = p + n)
  BY <1>2, <1>5, <1>6
<1>8. CASE x < p + n
  <2>1. x % n = x - p BY <1>4, <1>7, <1>8, RemainderIs
  <2> QED BY <1>1, <1>2, <1>6, <1>7, <1>8, <2>1
<1>9. CASE x = p + n
  <2>1. PICK j \in Nat : j = k + 1 OBVIOUS
  <2>2. j * n = p + n BY <1>4, <2>1
  <2>3. j * n <= x /\ x < j * n + n BY <1>9, <2>2
  <2>4. x % n = x - j * n BY <2>3, RemainderIs
  <2>5. x % n = 0 BY <1>9, <2>2, <2>4
  <2> QED BY <1>1, <1>2, <1>6, <1>7, <1>9, <2>5
<1> QED BY <1>7, <1>8, <1>9

LEMMA SolvedStays ==
  ASSUME DemixSettings, NEW fd \in Nat, NEW given \in Nat, NEW more \in Nat,
         fd * config.avg <= given, given <= more, NEW k \in Nat, k < fd
  PROVE  SolvedOf(config, more, k) = SolvedOf(config, given, k)
<1>1. PICK n \in Nat \ {0} : n = config.avg BY DEF DemixSettings
<1>2. (k + 1) * n <= fd * n BY EarlierEnds
<1>3. PICK x \in Int : x = (k + 1) * n OBVIOUS
<1>4. PICK y \in Int : y = fd * n OBVIOUS
<1>5. (k + 1) * n <= given BY <1>1, <1>2, <1>3, <1>4
<1>6. SlotsWithin(k, n, more) = SlotsWithin(k, n, given) BY <1>5, IntervalStays
<1> QED BY <1>1, <1>6, Zenon DEF SolvedOf

LEMMA OutputStays ==
  ASSUME DemixSettings, NEW fd \in Nat, NEW fo \in Nat, fo = fd * Multiplier,
         NEW given \in Nat, NEW more \in Nat, fd * config.avg <= given, given <= more,
         NEW k \in Nat, k < fo
  PROVE  OutputOf(config, more, k) = OutputOf(config, given, k)
<1>1. PICK n \in Nat \ {0} : n = config.avg BY DEF DemixSettings
<1>2. PICK b \in Nat \ {0} : b = config.subtr BY DEF DemixSettings
<1>3. PICK m \in Nat \ {0} : m = Multiplier BY MultiplierIs
<1>4. n = m * b BY <1>1, <1>2, <1>3, MultiplierIs
<1>5. fo = fd * m BY <1>3
<1>6. PICK x \in Nat : x = fd * n OBVIOUS
<1>7. fo * b = x BY <1>4, <1>5, <1>6
<1>8. PICK ts \in Nat : IsOutputOf(m, b, n, 0, fd, 0, k, ts)
  <2>1. 0 = 0 * m /\ fo * b < x + b /\ x <= fd * n /\ 0 + k < fo BY <1>6, <1>7
  <2>2. IsOfChunk(m, b, n, 0, fd, 0, fo, x, k)
    <3> HIDE <1>5, <1>6, <1>7
    <3> QED BY <1>1, <1>2, <1>3, <1>4, <1>6, <2>1 DEF IsOfChunk
  <2> QED BY <2>2, OutputIsInInterval
<1>9. ts < fd /\ (k * b) \div n = ts
  <2>1. 0 + ts < fd /\ ((0 + k) * b) \div n = 0 + ts BY <1>8 DEF IsOutputOf
  <2>2. 0 + k = k /\ 0 + ts = ts BY <1>8
  <2> QED BY <2>1, <2>2
<1>10. SolvedOf(config, more, ts) = SolvedOf(config, given, ts) BY <1>8, <1>9, SolvedStays
<1>11. SlotsWithin(k, b, more) = SlotsWithin(k, b, given)
  <2>1. (k + 1) * b <= fo * b BY <1>2, EarlierEnds
  <2>2. PICK y \in Int : y = (k + 1) * b OBVIOUS
  <2>3. (k + 1) * b <= given BY <1>1, <1>6, <1>7, <2>1, <2>2
  <2> QED BY <1>2, <2>3, IntervalStays
<1> QED BY <1>1, <1>2, <1>9, <1>10, <1>11, Zenon DEF OutputOf

LEMMA HandledStays ==
  ASSUME DemixSettings, NEW fd \in Nat, NEW fo \in Nat, fo = fd * Multiplier,
         NEW given \in Nat, NEW more \in Nat, fd * config.avg <= given, given <= more,
         NEW unknowns, UnknownsIs(unknowns, fd, given), NEW slots, OutputsAre(slots, fo, given)
  PROVE  UnknownsIs(unknowns, fd, more) /\ OutputsAre(slots, fo, more)
<1>1. \A k \in DOMAIN unknowns : SolvedOf(config, more, k) = SolvedOf(config, given, k)
  <2> TAKE k \in DOMAIN unknowns
  <2>1. k \in 0 .. fd - 1 BY DEF UnknownsIs
  <2>2. k \in Nat /\ k < fd BY <2>1
  <2> QED BY <2>2, SolvedStays
<1>2. \A k \in 1 .. fo : OutputOf(config, more, k - 1) = OutputOf(config, given, k - 1)
  <2> TAKE k \in 1 .. fo
  <2>1. PICK j \in Nat : j = k - 1 OBVIOUS
  <2>2. j < fo BY <2>1
  <2>3. OutputOf(config, more, j) = OutputOf(config, given, j) BY <2>1, <2>2, OutputStays
  <2> QED BY <2>1, <2>3
<1>3. UnknownsIs(unknowns, fd, more) BY <1>1, Zenon DEF UnknownsIs
<1>4. OutputsAre(slots, fo, more) BY <1>2, Zenon DEF OutputsAre
<1> QED BY <1>3, <1>4

\* When a chunk is handled, its outputs follow those that were sent.
LEMMA ChunkIsSent ==
  ASSUME DemixSettings, NEW fd, NEW ae, NEW fo, NEW be, NEW given,
         NEW s, ChunkIs(s, fd, ae, fo, be, given), fo = fd * Multiplier,
         NEW slots \in Seq(OutputsOf(config)), OutputsAre(slots, fo, given)
  PROVE  slots \o Outputs(s) \in Seq(OutputsOf(config)) /\ OutputsAre(slots \o Outputs(s), be, given)
<1>0. fd \in Nat /\ ae \in Nat /\ fo \in Nat /\ be \in Nat /\ given \in Nat BY DEF ChunkIs
<1> USE <1>0
<1>1. fo <= be /\ s.n_out_subtr = be - fo BY DEF ChunkIs, StreamEnds
<1>2. PICK n \in Nat : n = be - fo BY <1>1
<1> DEFINE new == Outputs(s)
<1>3. \A k \in 1 .. n : Output(s, k - 1) = OutputOf(config, given, fo + k - 1)
  <2> TAKE k \in 1 .. n
  <2>1. PICK j \in Nat : j = k - 1 OBVIOUS
  <2>2. fo + j < be /\ fo + k - 1 = fo + j BY <1>2, <2>1
  <2>3. Output(s, j) = OutputOf(config, given, fo + j) BY <2>1, <2>2, OutputIs
  <2> QED BY <2>1, <2>2, <2>3
<1>4. \A k \in 1 .. n : fo + k - 1 \in Nat /\ OutputOf(config, given, fo + k - 1) \in OutputsOf(config)
  <2> TAKE k \in 1 .. n
  <2>1. PICK j \in Nat : j = fo + k - 1 OBVIOUS
  <2> QED BY <2>1 DEF OutputsOf
<1>5. PICK S : S = OutputsOf(config) OBVIOUS
<1>6. new = [k \in 1 .. n |-> Output(s, k - 1)] BY <1>1, <1>2 DEF Outputs
<1>7. new \in Seq(S) /\ Len(new) = n /\ \A k \in 1 .. n : new[k] = OutputOf(config, given, fo + k - 1)
  <2>1. new \in [1 .. n -> S] BY <1>3, <1>4, <1>5, <1>6
  <2> HIDE DEF new
  <2>2. new \in Seq(S) /\ Len(new) = n BY <1>2, <2>1, SMTT(60)
  <2> QED BY <1>2, <1>3, <1>6, <2>2
<1> HIDE DEF new
<1>8. Len(slots) = fo /\ slots \in Seq(S) BY <1>5 DEF OutputsAre
<1> DEFINE all == slots \o new
<1>9. /\ all \in Seq(S) /\ Len(all) = be
      /\ \A i \in 1 .. fo : all[i] = slots[i]
      /\ \A i \in 1 .. n : all[fo + i] = new[i]
  <2>1. /\ all \in Seq(S) /\ Len(all) = Len(slots) + Len(new)
        /\ \A i \in 1 .. Len(slots) : all[i] = slots[i]
        /\ \A i \in 1 .. Len(new) : all[Len(slots) + i] = new[i]
    <3>1. slots \in Seq(S) /\ new \in Seq(S) BY <1>7, <1>8
    <3> QED BY <3>1, JoinedFacts, SMTT(60)
  <2>2. fo + n = be BY <1>2
  <2> HIDE DEF all
  <2> QED BY <1>7, <1>8, <2>1, <2>2
<1> HIDE DEF all
<1>10. \A k \in 1 .. be : all[k] = OutputOf(config, given, k - 1)
  <2> TAKE k \in 1 .. be
  <2>1. CASE k <= fo
    <3>1. k \in 1 .. fo BY <2>1
    <3> QED BY <1>9, <3>1, Zenon DEF OutputsAre
  <2>2. CASE k > fo
    <3>1. PICK i \in 1 .. n : k = fo + i
      <4>1. k - fo \in 1 .. n /\ k = fo + (k - fo) BY <1>2, <2>2
      <4> QED BY <4>1
    <3>2. fo + i - 1 = k - 1 BY <3>1
    <3> QED BY <1>7, <1>9, <3>1, <3>2
  <2> QED BY <2>1, <2>2
<1> QED BY <1>5, <1>9, <1>10, Zenon DEF OutputsAre, all, new

LEMMA ChunkIsSolved ==
  ASSUME DemixSettings, NEW fd, NEW ae, NEW fo, NEW be, NEW given,
         NEW s, ChunkIs(s, fd, ae, fo, be, given), s.time_index = fd, UnknownsIs(s.unknowns, fd, given)
  PROVE  UnknownsIs(IF config.model THEN Unknowns(s) ELSE s.unknowns, ae, given)
<1>1. CASE config.model
  <2>1. UnknownsIs(Unknowns(s), ae, given) BY <1>1, UnknownsAre
  <2> QED BY <1>1, <2>1
<1>2. CASE ~config.model BY <1>2 DEF UnknownsIs
<1> QED BY <1>1, <1>2

-----------------------------------------------------------------------------
LEMMA MembersAre ==
  ASSUME NEW ni, NEW no, NEW nos, NEW ti, NEW d, NEW o, NEW fb, NEW fbs, NEW f, NEW fs, NEW u,
         NEW s, s = DemixMembers(ni, no, nos, ti, d, o, fb, fbs, f, fs, u)
  PROVE  /\ s.n_in = ni /\ s.n_out = no /\ s.n_out_subtr = nos /\ s.time_index = ti
         /\ s.demix = d /\ s.output = o /\ s.factor_buf = fb /\ s.factor_buf_subtr = fbs
         /\ s.factors = f /\ s.factors_subtr = fs /\ s.unknowns = u
  BY DEF DemixMembers

AreMembers(s) ==
    s = DemixMembers(s.n_in, s.n_out, s.n_out_subtr, s.time_index, s.demix, s.output,
                s.factor_buf, s.factor_buf_subtr, s.factors, s.factors_subtr, s.unknowns)

\* What DemixProcess makes of the members before it asks if the chunk is full.
Grown ==
    LET s1 == Collected(fed)
        s2 == IF s1.n_in % config.avg = 0 THEN MakeFactors(s1) ELSE s1
    IN  IF s1.n_in % config.subtr = 0 THEN MakeFactorsSubtr(s2) ELSE s2

LEMMA StateGrows ==
  ASSUME DemixSettings, fed \in Nat, NEW more \in Nat, more = fed + 1,
         NEW fd, NEW fo, NEW a, NEW b, DemixState(step, fd, fo, a, b, fed),
         step.n_out \in Nat, step.n_out_subtr \in Nat
  PROVE  /\ Grown.unknowns = step.unknowns
         /\ \E a2, b2 \in Nat :
               /\ DemixState(Grown, fd, fo, a2, b2, more)
               /\ a2 = a \/ (a2 = a + 1 /\ more = a2 * config.avg)
<1>1. PICK n \in Nat \ {0} : n = config.avg BY DEF DemixSettings
<1>2. PICK w \in Nat \ {0} : w = config.subtr BY DEF DemixSettings
<1>3. fd \in Nat /\ fo \in Nat /\ a \in Nat /\ b \in Nat /\ fo = fd * Multiplier BY DEF DemixState
<1>0. fd \in Nat /\ fo \in Nat /\ a \in Nat /\ b \in Nat BY DEF DemixState
<1>4. PICK m \in Nat \ {0} : m = Multiplier BY MultiplierIs
<1>5. n = m * w BY <1>1, <1>2, <1>4, MultiplierIs
<1>6. PICK x \in Nat : x = fd * n BY <1>3
<1>7. fo * w = x BY <1>3, <1>4, <1>5, <1>6
<1>8. PICK ni, no, nos, d, o, fb, fbs, f, fs, u :
        /\ ni = fed - x /\ no = step.n_out /\ nos = step.n_out_subtr /\ d = step.demix /\ o = step.output
        /\ fb = step.factor_buf /\ fbs = step.factor_buf_subtr /\ f = step.factors
        /\ fs = step.factors_subtr /\ u = step.unknowns
  OBVIOUS
<1>9. step = DemixMembers(ni, no, nos, fd, d, o, fb, fbs, f, fs, u) BY <1>1, <1>6, <1>8, Zenon DEF DemixState
<1>10. StreamIs(d, fb, f, no, n, fd, a, fed) /\ StreamIs(o, fbs, fs, nos, w, fo, b, fed)
  BY <1>1, <1>2, <1>8, Zenon DEF DemixState
<1>11. no \in Nat /\ nos \in Nat BY <1>8
<1> DEFINE endsA == more = a * n + n
           endsB == more = b * w + w
           d2 == Averaged(d, fed)
           o2 == Averaged(o, fed)
           a2 == IF endsA THEN a + 1 ELSE a
           b2 == IF endsB THEN b + 1 ELSE b
           no2 == IF endsA THEN no + 1 ELSE no
           nos2 == IF endsB THEN nos + 1 ELSE nos
           fb2 == IF endsA THEN {} ELSE fb \cup {fed}
           fbs2 == IF endsB THEN {} ELSE fbs \cup {fed}
           f2 == IF endsA THEN Append(SubSeq(f, 1, no), Factors(fb \cup {fed}, d2, no + 1)) ELSE f
           fs2 == IF endsB THEN Append(SubSeq(fs, 1, nos), Factors(fbs \cup {fed}, o2, nos + 1)) ELSE fs
<1>12. StreamIs(d2, fb2, f2, no2, n, fd, a2, more)
  <2>1. /\ endsA => StreamIs(d2, {}, Append(SubSeq(f, 1, no), Factors(fb \cup {fed}, d2, no + 1)), no + 1,
                             n, fd, a + 1, more)
        /\ ~endsA => StreamIs(d2, fb \cup {fed}, f, no, n, fd, a, more)
    <3> HIDE <1>1, <1>2, <1>4, <1>6, <1>8
    <3> QED BY <1>1, <1>3, <1>10, <1>11, StreamGrows
  <2> HIDE DEF d2, endsA
  <2>2. CASE endsA BY <2>1, <2>2
  <2>3. CASE ~endsA BY <2>1, <2>3
  <2> QED BY <2>2, <2>3
<1>13. StreamIs(o2, fbs2, fs2, nos2, w, fo, b2, more)
  <2>1. /\ endsB => StreamIs(o2, {}, Append(SubSeq(fs, 1, nos), Factors(fbs \cup {fed}, o2, nos + 1)), nos + 1,
                             w, fo, b + 1, more)
        /\ ~endsB => StreamIs(o2, fbs \cup {fed}, fs, nos, w, fo, b, more)
    <3> HIDE <1>1, <1>2, <1>4, <1>6, <1>8
    <3> QED BY <1>2, <1>3, <1>10, <1>11, StreamGrows
  <2> HIDE DEF o2, endsB
  <2>2. CASE endsB BY <2>1, <2>2
  <2>3. CASE ~endsB BY <2>1, <2>3
  <2> QED BY <2>2, <2>3
<1>14. PICK n2 : n2 = ni + 1 OBVIOUS
<1>15. n2 = more - x BY <1>6, <1>8, <1>14
<1>16. n2 % n = 0 <=> endsA
  <2>1. fd <= a /\ IsIn(fed, n, a) BY <1>10 DEF StreamIs
  <2>2. PICK e \in Nat : e = a * n BY <1>1, <1>3
  <2>3. e < more /\ more <= e + n BY <2>1, <2>2 DEF IsIn
  <2>4. (more - fd * n) % n = 0 <=> more = a * n \/ more = a * n + n
    <3>1. Within(more, fd, n, a)
      <4> HIDE <1>4, <1>5, <1>6, <1>7
      <4> QED BY <1>1, <1>0, <2>1, <2>2, <2>3 DEF Within
    <3>2. RestOf(more, fd, n) = 0 <=> more = a * n \/ more = a * n + n BY <3>1, RemainderOfStream
    <3> QED BY <3>2 DEF RestOf
  <2> QED BY <1>6, <1>15, <2>2, <2>3, <2>4
<1>17. n2 % w = 0 <=> endsB
  <2>1. fo <= b /\ IsIn(fed, w, b) BY <1>10 DEF StreamIs
  <2>2. PICK e \in Nat : e = b * w BY <1>2, <1>3
  <2>3. e < more /\ more <= e + w BY <2>1, <2>2 DEF IsIn
  <2>4. (more - fo * w) % w = 0 <=> more = b * w \/ more = b * w + w
    <3>1. Within(more, fo, w, b)
      <4> HIDE <1>4, <1>5, <1>6, <1>7
      <4> QED BY <1>2, <1>0, <2>1, <2>2, <2>3 DEF Within
    <3>2. RestOf(more, fo, w) = 0 <=> more = b * w \/ more = b * w + w BY <3>1, RemainderOfStream
    <3> QED BY <3>2 DEF RestOf
  <2> QED BY <1>7, <1>15, <2>2, <2>3, <2>4
<1> DEFINE s1 == DemixMembers(n2, no, nos, fd, d2, o2, fb \cup {fed}, fbs \cup {fed}, f, fs, u)
           s2 == DemixMembers(n2, no2, nos, fd, d2, o2, fb2, fbs \cup {fed}, f2, fs, u)
           s3 == DemixMembers(n2, no2, nos2, fd, d2, o2, fb2, fbs2, f2, fs2, u)
<1>18. Collected(fed) = s1 BY <1>9, <1>14, CollectedIs
<1>19. s1.n_in = n2 BY MembersAre
<1>20. (IF n2 % n = 0 THEN MakeFactors(s1) ELSE s1) = s2
  <2>1. MakeFactors(s1) = DemixMembers(n2, no + 1, nos, fd, d2, o2, {}, fbs \cup {fed},
                                  Append(SubSeq(f, 1, no), Factors(fb \cup {fed}, d2, no + 1)), fs, u)
    BY MakeFactorsIs
  <2> HIDE DEF endsA, d2, o2
  <2>2. CASE endsA BY <1>16, <2>1, <2>2
  <2>3. CASE ~endsA BY <1>16, <2>3
  <2> QED BY <2>2, <2>3
<1>21. (IF n2 % w = 0 THEN MakeFactorsSubtr(s2) ELSE s2) = s3
  <2>1. MakeFactorsSubtr(s2) = DemixMembers(n2, no2, nos + 1, fd, d2, o2, fb2, {}, f2,
                                  Append(SubSeq(fs, 1, nos), Factors(fbs \cup {fed}, o2, nos + 1)), u)
    BY MakeFactorsSubtrIs
  <2> HIDE DEF endsB, d2, o2, no2, fb2, f2
  <2>2. CASE endsB BY <1>17, <2>1, <2>2
  <2>3. CASE ~endsB BY <1>17, <2>3
  <2> QED BY <2>2, <2>3
<1> HIDE DEF s1, s2
<1>22. Grown = s3 BY <1>1, <1>2, <1>18, <1>19, <1>20, <1>21, Zenon DEF Grown
<1>23. a2 \in Nat /\ b2 \in Nat /\ (a2 = a \/ (a2 = a + 1 /\ more = a2 * n))
  <2>1. (a + 1) * n = a * n + n
    <3>1. a \in Int /\ n \in Int BY <1>0, <1>1
    <3> QED BY <3>1, TimesNext
  <2>2. CASE endsA BY <1>0, <2>1, <2>2
  <2>3. CASE ~endsA BY <1>0, <2>3
  <2> QED BY <2>2, <2>3
<1> HIDE DEF a2, b2, d2, o2, no2, nos2, fb2, fbs2, f2, fs2
<1>24. /\ Grown.n_out = no2 /\ Grown.n_out_subtr = nos2 /\ Grown.demix = d2 /\ Grown.output = o2
       /\ Grown.factor_buf = fb2 /\ Grown.factor_buf_subtr = fbs2 /\ Grown.factors = f2
       /\ Grown.factors_subtr = fs2 /\ Grown.unknowns = u
  BY <1>22, MembersAre
<1>25. n2 = more - fd * config.avg BY <1>1, <1>6, <1>15
<1>26. DemixState(Grown, fd, fo, a2, b2, more)
  BY <1>1, <1>2, <1>3, <1>12, <1>13, <1>22, <1>23, <1>24, <1>25, Zenon DEF DemixState
<1> QED BY <1>1, <1>8, <1>23, <1>24, <1>26

\* After a chunk the averagings start over where they were.
LEMMA StreamIsCleared ==
  ASSUME NEW n \in Nat \ {0}, NEW first \in Nat, NEW end \in Nat, NEW given \in Nat,
         NEW a, NEW buf, NEW factors, NEW nout,
         StreamIs(a, buf, factors, nout, n, first, end, given)
  PROVE  StreamIs(ClearResults(a), buf, factors, 0, n, end, end, given)
<1>1. PICK x : x = end * n .. given - 1 OBVIOUS
<1>2. a = [n |-> n, sum |-> x, results |-> a.results] BY <1>1, Zenon DEF StreamIs, AveragingIs
<1>3. ClearResults(a) = [n |-> n, sum |-> x, results |-> <<>>] BY <1>2 DEF ClearResults
<1>4. ClearResults(a).results = <<>> BY <1>3
<1>5. ResultsAre(<<>>, n, end, end, given) BY DEF ResultsAre
<1>6. AveragingIs(ClearResults(a), n, end, end, given) BY <1>1, <1>3, <1>4, <1>5, Zenon DEF AveragingIs
<1>7. FactorsAre(factors, n, end, end, given)
  <2>1. PICK S : S = [phases : SUBSET Int, weights : SUBSET Int] OBVIOUS
  <2>2. factors \in Seq(S) BY <2>1 DEF StreamIs, FactorsAre
  <2>3. Len(factors) \in Nat BY <2>2
  <2>4. Len(factors) >= end - end BY <2>3
  <2>5. 1 .. end - end = {} OBVIOUS
  <2> QED BY <2>1, <2>2, <2>4, <2>5 DEF FactorsAre
<1>8. end <= end /\ 0 = end - end OBVIOUS
<1> QED BY <1>6, <1>7, <1>8, Zenon DEF StreamIs

\* A chunk is full at the end of an interval, which is also that of an output.
LEMMA ChunkIsFull ==
  ASSUME DemixSettings, NEW s, NEW fd, NEW fo, NEW a, NEW b, NEW given \in Nat,
         DemixState(s, fd, fo, a, b, given), given = a * config.avg
  PROVE  b = a * Multiplier /\ ChunkIs(s, fd, a, fo, b, given)
<1>1. PICK n \in Nat \ {0} : n = config.avg BY DEF DemixSettings
<1>2. PICK w \in Nat \ {0} : w = config.subtr BY DEF DemixSettings
<1>3. fd \in Nat /\ fo \in Nat /\ a \in Nat /\ b \in Nat BY DEF DemixState
<1>4. PICK m \in Nat \ {0} : m = Multiplier BY MultiplierIs
<1>5. n = m * w BY <1>1, <1>2, <1>4, MultiplierIs
<1>6. /\ StreamIs(s.demix, s.factor_buf, s.factors, s.n_out, n, fd, a, given)
      /\ StreamIs(s.output, s.factor_buf_subtr, s.factors_subtr, s.n_out_subtr, w, fo, b, given)
  BY <1>1, <1>2 DEF DemixState
<1>7. IsIn(given, w, b) BY <1>6 DEF StreamIs
<1>8. b = a * m
  <2>1. PICK e \in Nat : e = a * m BY <1>3
  <2>2. given = e * w BY <1>1, <1>3, <1>5, <2>1
  <2>3. b * w <= given /\ given < b * w + w BY <1>7 DEF IsIn
  <2>4. given \div w = b BY <1>3, <2>3, QuotientIs
  <2>5. e * w <= given /\ given < e * w + w
    <3>1. PICK x \in Nat : x = e * w OBVIOUS
    <3> QED BY <2>2, <3>1
  <2>6. given \div w = e BY <2>5, QuotientIs
  <2> QED BY <2>1, <2>4, <2>6
<1>9. StreamEnds(s.demix, s.factors, s.n_out, n, fd, a, given)
  <2>1. PICK e \in Nat : e = a * n BY <1>3
  <2>2. a * n < given + n /\ given <= a * n BY <1>1, <2>1
  <2> QED BY <1>6, <2>2 DEF StreamIs, StreamEnds, AveragingIs
<1>10. StreamEnds(s.output, s.factors_subtr, s.n_out_subtr, w, fo, b, given)
  <2>1. PICK e \in Nat : e = b * w BY <1>3
  <2>2. given = e BY <1>1, <1>3, <1>5, <1>8, <2>1
  <2>3. b * w < given + w /\ given <= b * w BY <2>1, <2>2
  <2> QED BY <1>6, <2>3 DEF StreamIs, StreamEnds, AveragingIs
<1> QED BY <1>1, <1>2, <1>3, <1>4, <1>8, <1>9, <1>10 DEF ChunkIs

LEMMA ChunkIsHandled ==
  ASSUME DemixSettings, NEW s, NEW fd, NEW fo, NEW a, NEW b, NEW given \in Nat,
         DemixState(s, fd, fo, a, b, given), given = a * config.avg, a = fd + config.chunk,
         NEW slots \in Seq(OutputsOf(config)), OutputsAre(slots, fo, given),
         UnknownsIs(s.unknowns, fd, given)
  PROVE  /\ DemixState(HandledDemix(s), a, b, a, b, given)
         /\ slots \o Outputs(s) \in Seq(OutputsOf(config))
         /\ OutputsAre(slots \o Outputs(s), b, given)
         /\ UnknownsIs(HandledDemix(s).unknowns, a, given)
<1>1. PICK n \in Nat \ {0} : n = config.avg BY DEF DemixSettings
<1>2. PICK w \in Nat \ {0} : w = config.subtr BY DEF DemixSettings
<1>3. fd \in Nat /\ fo \in Nat /\ a \in Nat /\ b \in Nat BY DEF DemixState
<1>4. fo = fd * Multiplier BY DEF DemixState
<1>5. b = a * Multiplier /\ ChunkIs(s, fd, a, fo, b, given) BY ChunkIsFull
<1>6. slots \o Outputs(s) \in Seq(OutputsOf(config)) /\ OutputsAre(slots \o Outputs(s), b, given)
  BY <1>4, <1>5, ChunkIsSent
<1>7. PICK ni, no, nos, d, o, fb, fbs, f, fs, u :
        /\ s = DemixMembers(ni, no, nos, fd, d, o, fb, fbs, f, fs, u)
        /\ d = s.demix /\ o = s.output /\ fb = s.factor_buf /\ fbs = s.factor_buf_subtr
        /\ f = s.factors /\ fs = s.factors_subtr /\ u = s.unknowns /\ no = s.n_out /\ nos = s.n_out_subtr
  BY Zenon DEF DemixState
<1>18. s = DemixMembers(ni, no, nos, fd, d, o, fb, fbs, f, fs, u) /\ u = s.unknowns BY <1>7, Zenon
<1> HIDE <1>7
<1>19. s = DemixMembers(ni, no, nos, fd, d, o, fb, fbs, f, fs, u) BY <1>18, Zenon
<1>8. s.time_index = fd BY <1>19, MembersAre
<1> DEFINE u2 == IF config.model THEN Unknowns(s) ELSE u
<1>9. UnknownsIs(u2, a, given)
  <2>1. UnknownsIs(IF config.model THEN Unknowns(s) ELSE s.unknowns, a, given)
    BY <1>5, <1>8, ChunkIsSolved, SMTT(60)
  <2> QED BY <1>18, <2>1, Zenon
<1> HIDE DEF u2
<1>10. HandledDemix(s) = DemixMembers(0, 0, 0, fd + config.chunk, ClearResults(d), ClearResults(o), fb, fbs, f, fs, u2)
  <2>1. HandledDemix(s) = DemixMembers(0, 0, 0, fd + config.chunk, ClearResults(d), ClearResults(o), fb, fbs, f, fs,
                                  IF config.model THEN Unknowns(s) ELSE u)
    BY <1>19, HandledDemixIs, SMTT(60)
  <2> QED BY <2>1 DEF u2
<1> DEFINE t == HandledDemix(s)
<1>11. t = DemixMembers(0, 0, 0, a, ClearResults(d), ClearResults(o), fb, fbs, f, fs, u2) BY <1>10
<1> HIDE DEF t
<1>12. /\ t.n_out = 0 /\ t.n_out_subtr = 0 /\ t.demix = ClearResults(d) /\ t.output = ClearResults(o)
       /\ t.factor_buf = fb /\ t.factor_buf_subtr = fbs /\ t.factors = f /\ t.factors_subtr = fs
       /\ t.unknowns = u2
  BY <1>11, MembersAre
<1>13. /\ StreamIs(d, fb, f, no, n, fd, a, given)
       /\ StreamIs(o, fbs, fs, nos, w, fo, b, given)
  BY <1>1, <1>2, <1>7, Zenon DEF DemixState
<1>14. StreamIs(ClearResults(d), fb, f, 0, n, a, a, given)
  <2> HIDE <1>1, <1>2, <1>7
  <2> QED BY <1>1, <1>3, <1>13, StreamIsCleared
<1>15. StreamIs(ClearResults(o), fbs, fs, 0, w, b, b, given)
  <2> HIDE <1>1, <1>2, <1>7
  <2> QED BY <1>2, <1>3, <1>13, StreamIsCleared
<1>16. 0 = given - a * config.avg BY <1>1, <1>3
<1>17. DemixState(t, a, b, a, b, given)
  BY <1>1, <1>2, <1>3, <1>5, <1>11, <1>12, <1>14, <1>15, <1>16, ZenonT(120) DEF DemixState
<1> QED BY <1>6, <1>9, <1>12, <1>17, Zenon DEF t

LEMMA OutputCounts ==
  ASSUME DemixSettings, NEW s, NEW fd, NEW fo, NEW a, NEW b, NEW given \in Nat,
         DemixState(s, fd, fo, a, b, given)
  PROVE  /\ s.n_out = a - fd /\ s.n_out \in Nat /\ s.n_out_subtr = b - fo /\ s.n_out_subtr \in Nat
         /\ fd * config.avg <= given /\ fo * config.subtr = fd * config.avg /\ s.n_in = given - fd * config.avg
         /\ s.time_index = fd
<1>1. PICK n \in Nat \ {0} : n = config.avg BY DEF DemixSettings
<1>2. PICK w \in Nat \ {0} : w = config.subtr BY DEF DemixSettings
<1>3. fd \in Nat /\ fo \in Nat /\ a \in Nat /\ b \in Nat BY DEF DemixState
<1>4. PICK m \in Nat \ {0} : m = Multiplier BY MultiplierIs
<1>5. n = m * w BY <1>1, <1>2, <1>4, MultiplierIs
<1>6. fd <= a /\ IsIn(given, n, a) /\ s.n_out = a - fd BY <1>1 DEF DemixState, StreamIs
<1>7. fo <= b /\ s.n_out_subtr = b - fo BY DEF DemixState, StreamIs
<1>8. fo = fd * m BY <1>4 DEF DemixState
<1>9. PICK x \in Nat : x = fd * n BY <1>3
<1>10. fo * w = x BY <1>3, <1>5, <1>8, <1>9
<1>11. x <= given
  <2>1. PICK e \in Nat : e = a * n BY <1>3
  <2>2. fd * n <= a * n BY <1>3, <1>6, TimesOrder
  <2>3. e <= given BY <1>6, <2>1 DEF IsIn
  <2> QED BY <1>9, <2>1, <2>2, <2>3
<1>12. s.n_in = given - fd * config.avg /\ s.time_index = fd
  <2>1. s = DemixMembers(given - fd * config.avg, s.n_out, s.n_out_subtr, fd, s.demix, s.output,
                    s.factor_buf, s.factor_buf_subtr, s.factors, s.factors_subtr, s.unknowns)
    BY DEF DemixState
  <2> QED BY <2>1, MembersAre
<1> QED BY <1>1, <1>2, <1>3, <1>6, <1>7, <1>9, <1>10, <1>11, <1>12

\* What DemixFinish makes of the members before it handles the last chunk.
Cut ==
    LET s1 == [step EXCEPT !.demix = FinishAverage(@), !.output = FinishAverage(@)]
        s2 == IF s1.n_in % config.avg # 0 THEN MakeFactors(s1) ELSE s1
    IN  IF s1.n_in % config.subtr # 0 THEN MakeFactorsSubtr(s2) ELSE s2

LEMMA StateEnds ==
  ASSUME DemixSettings, fed \in Nat,
         NEW fd, NEW fo, NEW a, NEW b, DemixState(step, fd, fo, a, b, fed)
  PROVE  /\ Cut.unknowns = step.unknowns /\ Cut.time_index = fd /\ AreMembers(Cut)
         /\ \E a2, b2 \in Nat :
               /\ Needed(a2, config.avg, fed) /\ Needed(b2, config.subtr, fed)
               /\ ChunkIs(Cut, fd, a2, fo, b2, fed)
<1>1. PICK n \in Nat \ {0} : n = config.avg BY DEF DemixSettings
<1>2. PICK w \in Nat \ {0} : w = config.subtr BY DEF DemixSettings
<1>3. fd \in Nat /\ fo \in Nat /\ a \in Nat /\ b \in Nat BY DEF DemixState
<1>4. /\ step.n_out \in Nat /\ step.n_out_subtr \in Nat
      /\ fo * config.subtr = fd * config.avg
  BY OutputCounts
<1>6. PICK x \in Nat : x = fd * n BY <1>3
<1>7. fo * w = x BY <1>1, <1>2, <1>4, <1>6
<1>8. PICK ni, no, nos, d, o, fb, fbs, f, fs, u :
        /\ ni = fed - x /\ no = step.n_out /\ nos = step.n_out_subtr /\ d = step.demix /\ o = step.output
        /\ fb = step.factor_buf /\ fbs = step.factor_buf_subtr /\ f = step.factors
        /\ fs = step.factors_subtr /\ u = step.unknowns
  OBVIOUS
<1>9. step = DemixMembers(ni, no, nos, fd, d, o, fb, fbs, f, fs, u) BY <1>1, <1>6, <1>8, Zenon DEF DemixState
<1>10. StreamIs(d, fb, f, no, n, fd, a, fed) /\ StreamIs(o, fbs, fs, nos, w, fo, b, fed)
  BY <1>1, <1>2, <1>8, Zenon DEF DemixState
<1>11. no \in Nat /\ nos \in Nat BY <1>4, <1>8
<1> DEFINE endsA == fed = a * n
           endsB == fed = b * w
           d2 == FinishAverage(d)
           o2 == FinishAverage(o)
           a2 == IF endsA THEN a ELSE a + 1
           b2 == IF endsB THEN b ELSE b + 1
           no2 == IF endsA THEN no ELSE no + 1
           nos2 == IF endsB THEN nos ELSE nos + 1
           fb2 == IF endsA THEN fb ELSE {}
           fbs2 == IF endsB THEN fbs ELSE {}
           f2 == IF endsA THEN f ELSE Append(SubSeq(f, 1, no), Factors(fb, d2, no + 1))
           fs2 == IF endsB THEN fs ELSE Append(SubSeq(fs, 1, nos), Factors(fbs, o2, nos + 1))
<1>12. StreamEnds(d2, f2, no2, n, fd, a2, fed)
  <2>1. /\ endsA => d2 = d /\ StreamEnds(d2, f, no, n, fd, a, fed)
        /\ ~endsA => StreamEnds(d2, Append(SubSeq(f, 1, no), Factors(fb, d2, no + 1)), no + 1, n, fd, a + 1, fed)
    <3> HIDE <1>1, <1>2, <1>4, <1>6, <1>8
    <3> QED BY <1>1, <1>3, <1>10, <1>11, StreamIsEnded
  <2> HIDE DEF d2, endsA
  <2>2. CASE endsA BY <2>1, <2>2
  <2>3. CASE ~endsA BY <2>1, <2>3
  <2> QED BY <2>2, <2>3
<1>13. StreamEnds(o2, fs2, nos2, w, fo, b2, fed)
  <2>1. /\ endsB => o2 = o /\ StreamEnds(o2, fs, nos, w, fo, b, fed)
        /\ ~endsB => StreamEnds(o2, Append(SubSeq(fs, 1, nos), Factors(fbs, o2, nos + 1)), nos + 1, w, fo, b + 1, fed)
    <3> HIDE <1>1, <1>2, <1>4, <1>6, <1>8
    <3> QED BY <1>2, <1>3, <1>10, <1>11, StreamIsEnded
  <2> HIDE DEF o2, endsB
  <2>2. CASE endsB BY <2>1, <2>2
  <2>3. CASE ~endsB BY <2>1, <2>3
  <2> QED BY <2>2, <2>3
<1>16. ni % n = 0 <=> endsA
  <2>1. fd <= a /\ IsIn(fed, n, a) BY <1>10 DEF StreamIs
  <2>2. PICK e \in Nat : e = a * n BY <1>1, <1>3
  <2>3. e <= fed /\ fed < e + n BY <2>2, <2>1 DEF IsIn
  <2>4. RestOf(fed, fd, n) = 0 <=> fed = a * n \/ fed = a * n + n
    <3>1. Within(fed, fd, n, a)
      <4> HIDE <1>4, <1>6, <1>7
      <4> QED BY <1>1, <1>3, <2>1, <2>2, <2>3 DEF Within
    <3> QED BY <3>1, RemainderOfStream
  <2>5. RestOf(fed, fd, n) = ni % n BY <1>6, <1>8 DEF RestOf
  <2> QED BY <2>2, <2>3, <2>4, <2>5
<1>17. ni % w = 0 <=> endsB
  <2>1. fo <= b /\ IsIn(fed, w, b) BY <1>10 DEF StreamIs
  <2>2. PICK e \in Nat : e = b * w BY <1>2, <1>3
  <2>3. e <= fed /\ fed < e + w BY <2>2, <2>1 DEF IsIn
  <2>4. RestOf(fed, fo, w) = 0 <=> fed = b * w \/ fed = b * w + w
    <3>1. Within(fed, fo, w, b)
      <4> HIDE <1>4, <1>6, <1>7
      <4> QED BY <1>2, <1>3, <2>1, <2>2, <2>3 DEF Within
    <3> QED BY <3>1, RemainderOfStream
  <2>5. RestOf(fed, fo, w) = ni % w BY <1>7, <1>8 DEF RestOf
  <2> QED BY <2>2, <2>3, <2>4, <2>5
<1> DEFINE s1 == DemixMembers(ni, no, nos, fd, d2, o2, fb, fbs, f, fs, u)
           s2 == DemixMembers(ni, no2, nos, fd, d2, o2, fb2, fbs, f2, fs, u)
           s3 == DemixMembers(ni, no2, nos2, fd, d2, o2, fb2, fbs2, f2, fs2, u)
<1>18. [step EXCEPT !.demix = FinishAverage(@), !.output = FinishAverage(@)] = s1 BY <1>9, FinishedIs
<1>19. s1.n_in = ni BY MembersAre
<1>20. (IF ni % n # 0 THEN MakeFactors(s1) ELSE s1) = s2
  <2>1. MakeFactors(s1) = DemixMembers(ni, no + 1, nos, fd, d2, o2, {}, fbs,
                                  Append(SubSeq(f, 1, no), Factors(fb, d2, no + 1)), fs, u)
    BY MakeFactorsIs
  <2> HIDE DEF endsA, d2, o2
  <2>2. CASE endsA BY <1>16, <2>2
  <2>3. CASE ~endsA BY <1>16, <2>1, <2>3
  <2> QED BY <2>2, <2>3
<1>21. (IF ni % w # 0 THEN MakeFactorsSubtr(s2) ELSE s2) = s3
  <2>1. MakeFactorsSubtr(s2) = DemixMembers(ni, no2, nos + 1, fd, d2, o2, fb2, {}, f2,
                                  Append(SubSeq(fs, 1, nos), Factors(fbs, o2, nos + 1)), u)
    BY MakeFactorsSubtrIs
  <2> HIDE DEF endsB, d2, o2, no2, fb2, f2
  <2>2. CASE endsB BY <1>17, <2>2
  <2>3. CASE ~endsB BY <1>17, <2>1, <2>3
  <2> QED BY <2>2, <2>3
<1> HIDE DEF s1, s2
<1>22. Cut = s3 BY <1>1, <1>2, <1>18, <1>19, <1>20, <1>21, Zenon DEF Cut
<1>23. a2 \in Nat /\ b2 \in Nat BY <1>3
<1> HIDE DEF a2, b2, d2, o2, no2, nos2, fb2, fbs2, f2, fs2
<1>24. /\ Cut.n_out = no2 /\ Cut.n_out_subtr = nos2 /\ Cut.demix = d2 /\ Cut.output = o2
       /\ Cut.factors = f2 /\ Cut.factors_subtr = fs2 /\ Cut.unknowns = u /\ Cut.time_index = fd
       /\ Cut.n_in = ni /\ Cut.factor_buf = fb2 /\ Cut.factor_buf_subtr = fbs2
  BY <1>22, MembersAre
<1>27. AreMembers(Cut) BY <1>22, <1>24, Zenon DEF AreMembers
<1>25. ChunkIs(Cut, fd, a2, fo, b2, fed)
  BY <1>1, <1>2, <1>3, <1>12, <1>13, <1>23, <1>24, Zenon DEF ChunkIs
<1>26. Needed(a2, n, fed) /\ Needed(b2, w, fed) BY <1>12, <1>13, <1>23, Zenon DEF StreamEnds, Needed
<1> QED BY <1>1, <1>2, <1>8, <1>23, <1>24, <1>25, <1>26, <1>27, Zenon

-----------------------------------------------------------------------------
LEMMA DemixProcessInv == DemixInv /\ DemixProcess => DemixInv'
<1> SUFFICES ASSUME DemixInv, DemixProcess PROVE DemixInv'
  OBVIOUS
<1>1. /\ finished = FALSE /\ fed < config.ntime /\ fed' = fed + 1 /\ config' = config /\ finished' = FALSE
  BY DEF DemixProcess, Processed, Given, DemixInv, DemixTypes
<1>2. DemixTypes /\ DemixSettings BY DEF DemixInv, DemixTypes
<1>3. fed \in Nat /\ sent \in Seq(OutputsOf(config)) BY <1>2 DEF DemixTypes, DemixSettings
<1>4. PICK fd, fo, a, b \in Nat : DemixRuns(fd, fo, a, b) BY <1>1 DEF DemixInv
<1>5. DemixState(step, fd, fo, a, b, fed) /\ UnknownsIs(step.unknowns, fd, fed) /\ OutputsAre(sent, fo, fed)
      /\ a < fd + config.chunk
  BY <1>4 DEF DemixRuns
<1>6. step.n_out \in Nat /\ step.n_out_subtr \in Nat /\ fd * config.avg <= fed BY <1>2, <1>3, <1>5, OutputCounts
<1>7. PICK more \in Nat : more = fed + 1 BY <1>3
<1>8. PICK s : s = Grown OBVIOUS
<1>9. /\ s.unknowns = step.unknowns
      /\ \E a2, b2 \in Nat :
            /\ DemixState(s, fd, fo, a2, b2, more)
            /\ a2 = a \/ (a2 = a + 1 /\ more = a2 * config.avg)
  <2> HIDE <1>4
  <2> QED BY <1>2, <1>3, <1>5, <1>6, <1>7, <1>8, StateGrows
<1>10. PICK a2, b2 \in Nat :
         DemixState(s, fd, fo, a2, b2, more) /\ (a2 = a \/ (a2 = a + 1 /\ more = a2 * config.avg))
  BY <1>9
<1>11. s.n_out = a2 - fd BY <1>2, <1>7, <1>10, OutputCounts
<1>12. UnknownsIs(s.unknowns, fd, more) /\ OutputsAre(sent, fo, more)
  <2>1. fo = fd * Multiplier BY <1>5 DEF DemixState
  <2>2. fed <= more BY <1>3, <1>7
  <2>3. UnknownsIs(step.unknowns, fd, more) /\ OutputsAre(sent, fo, more)
    <3> HIDE <1>7, <1>10
    <3> QED BY <1>2, <1>3, <1>4, <1>5, <1>6, <1>7, <2>1, <2>2, HandledStays
  <2> QED BY <1>9, <2>3
<1>13. /\ step' = (IF s.n_out = config.chunk THEN HandledDemix(s) ELSE s)
       /\ sent' = sent \o (IF s.n_out = config.chunk THEN Outputs(s) ELSE <<>>)
  BY <1>8, Zenon DEF DemixProcess, Processed, Send, Grown
<1>14. DemixSettings' BY <1>1, <1>2, Zenon DEF DemixSettings
<1>15. fed' \in 0 .. config'.ntime /\ finished' \in BOOLEAN
  <2>1. PICK t \in Nat : t = config.ntime BY <1>2 DEF DemixSettings
  <2>2. fed' \in 0 .. t BY <1>1, <1>3, <2>1
  <2>3. config'.ntime = t BY <1>1, <2>1
  <2>4. finished' = FALSE BY <1>1
  <2> QED BY <2>2, <2>3, <2>4
<1>16. ASSUME s.n_out # config.chunk PROVE DemixInv'
  <2>1. step' = s /\ sent' = sent BY <1>3, <1>13, <1>16
  <2>2. a2 < fd + config.chunk
    <3>1. PICK c \in Nat : c = config.chunk BY <1>2 DEF DemixSettings
    <3>2. a < fd + c BY <1>5, <3>1
    <3>3. a2 # fd + c BY <1>4, <1>10, <1>11, <1>16, <3>1
    <3>4. a2 = a \/ a2 = a + 1 BY <1>10
    <3> QED BY <1>4, <1>10, <3>1, <3>2, <3>3, <3>4
  <2>3. DemixRuns(fd, fo, a2, b2)'
    <3>1. DemixState(s, fd, fo, a2, b2, more) BY <1>10
    <3> QED BY <1>1, <1>7, <1>12, <2>1, <2>2, <3>1, Zenon
            DEF DemixRuns, DemixState, UnknownsIs, OutputsAre, Multiplier, SolvedOf, OutputOf
  <2>4. DemixTypes' BY <1>1, <1>3, <1>14, <1>15, <2>1, Zenon DEF DemixTypes
  <2> QED BY <1>1, <1>4, <1>10, <2>3, <2>4 DEF DemixInv
<1>17. ASSUME s.n_out = config.chunk PROVE DemixInv'
  <2>1. step' = HandledDemix(s) /\ sent' = sent \o Outputs(s) BY <1>13, <1>17
  <2>2. PICK c \in Nat \ {0} : c = config.chunk BY <1>2 DEF DemixSettings
  <2>3. a2 = fd + c BY <1>4, <1>10, <1>11, <1>17, <2>2
  <2>4. more = a2 * config.avg
    <3>1. a2 # a BY <1>4, <1>5, <2>2, <2>3
    <3> QED BY <1>10, <3>1
  <2>5. /\ DemixState(HandledDemix(s), a2, b2, a2, b2, more)
        /\ sent \o Outputs(s) \in Seq(OutputsOf(config))
        /\ OutputsAre(sent \o Outputs(s), b2, more)
        /\ UnknownsIs(HandledDemix(s).unknowns, a2, more)
    <3>1. a2 = fd + config.chunk BY <2>2, <2>3
    <3>2. DemixState(s, fd, fo, a2, b2, more) /\ more \in Nat BY <1>7, <1>10
    <3> HIDE <1>7, <1>10, <2>2, <2>3
    <3> QED BY <1>2, <1>3, <1>12, <2>4, <3>1, <3>2, ChunkIsHandled
  <2>6. a2 < a2 + config.chunk BY <1>10, <2>2
  <2>7. DemixRuns(a2, b2, a2, b2)'
    BY <1>1, <1>7, <2>1, <2>5, <2>6, Zenon
       DEF DemixRuns, DemixState, UnknownsIs, OutputsAre, Multiplier, SolvedOf, OutputOf
  <2>8. DemixTypes' BY <1>1, <1>14, <1>15, <2>1, <2>5, Zenon DEF DemixTypes
  <2> QED BY <1>1, <1>10, <2>7, <2>8 DEF DemixInv
<1> QED BY <1>16, <1>17

LEMMA DemixFinishInv == DemixInv /\ DemixFinish => DemixInv'
<1> SUFFICES ASSUME DemixInv, DemixFinish PROVE DemixInv'
  OBVIOUS
<1>1. /\ finished = FALSE /\ fed' = fed /\ config' = config /\ finished' = TRUE
  BY DEF DemixFinish, Ended, DemixInv, DemixTypes
<1>2. DemixTypes /\ DemixSettings BY DEF DemixInv, DemixTypes
<1>3. fed \in Nat /\ sent \in Seq(OutputsOf(config)) BY <1>2 DEF DemixTypes, DemixSettings
<1>4. PICK fd, fo, a, b \in Nat : DemixRuns(fd, fo, a, b) BY <1>1 DEF DemixInv
<1>5. DemixState(step, fd, fo, a, b, fed) /\ UnknownsIs(step.unknowns, fd, fed) /\ OutputsAre(sent, fo, fed)
  BY <1>4 DEF DemixRuns
<1>6. step.n_in = fed - fd * config.avg /\ fo * config.subtr = fd * config.avg
  BY <1>2, <1>3, <1>5, OutputCounts
<1>7. DemixSettings' BY <1>1, <1>2, Zenon DEF DemixSettings
<1>8. fed' \in 0 .. config'.ntime /\ finished' \in BOOLEAN
  <2>1. finished' = TRUE BY <1>1
  <2>2. finished' \in BOOLEAN BY <2>1
  <2> QED BY <1>1, <1>2, <2>2, Zenon DEF DemixTypes
<1>9. PICK s : s = Cut OBVIOUS
<1>10. IF step.n_in > 0 THEN step' = HandledDemix(s) /\ sent' = sent \o Outputs(s)
       ELSE step' = step /\ sent' = sent \o <<>>
  BY <1>9, Zenon DEF DemixFinish, Ended, Send, Cut
<1>11. ASSUME NEW a2 \in Nat, NEW b2 \in Nat, DemixIsDone(a2, b2)', sent' \in Seq(OutputsOf(config))
       PROVE  DemixInv'
  <2>1. DemixTypes' BY <1>1, <1>7, <1>8, <1>11, Zenon DEF DemixTypes
  <2> QED BY <1>1, <1>11, <2>1 DEF DemixInv
<1>12. CASE step.n_in > 0
  <2>1. /\ s.unknowns = step.unknowns /\ s.time_index = fd /\ AreMembers(s)
        /\ \E a2, b2 \in Nat :
              /\ Needed(a2, config.avg, fed) /\ Needed(b2, config.subtr, fed)
              /\ ChunkIs(s, fd, a2, fo, b2, fed)
    <3> HIDE <1>4
    <3> QED BY <1>2, <1>3, <1>5, <1>9, StateEnds
  <2>2. PICK a2, b2 \in Nat :
          /\ Needed(a2, config.avg, fed) /\ Needed(b2, config.subtr, fed)
          /\ ChunkIs(s, fd, a2, fo, b2, fed)
    BY <2>1
  <2>3. fo = fd * Multiplier BY <1>5 DEF DemixState
  <2>4. sent \o Outputs(s) \in Seq(OutputsOf(config)) /\ OutputsAre(sent \o Outputs(s), b2, fed)
    BY <1>2, <1>3, <1>5, <2>2, <2>3, ChunkIsSent
  <2>5. UnknownsIs(IF config.model THEN Unknowns(s) ELSE s.unknowns, a2, fed)
    BY <1>2, <1>5, <2>1, <2>2, ChunkIsSolved
  <2>6. PICK t : t = HandledDemix(s) OBVIOUS
  <2>7. t.unknowns = IF config.model THEN Unknowns(s) ELSE s.unknowns
    <3>1. PICK ni, no, nos, ti, d, o, fb, fbs, f, fs, u :
            s = DemixMembers(ni, no, nos, ti, d, o, fb, fbs, f, fs, u) /\ u = s.unknowns
      <4>1. s = DemixMembers(s.n_in, s.n_out, s.n_out_subtr, s.time_index, s.demix, s.output,
                s.factor_buf, s.factor_buf_subtr, s.factors, s.factors_subtr, s.unknowns)
        BY <2>1 DEF AreMembers
      <4> QED BY <4>1, Zenon
    <3>2. s = DemixMembers(ni, no, nos, ti, d, o, fb, fbs, f, fs, u) BY <3>1, Zenon
    <3>3. t = DemixMembers(0, 0, 0, ti + config.chunk, ClearResults(d), ClearResults(o), fb, fbs, f, fs,
                      IF config.model THEN Unknowns(s) ELSE u)
      BY <2>6, <3>2, HandledDemixIs, SMTT(60)
    <3>4. t.unknowns = IF config.model THEN Unknowns(s) ELSE u BY <3>3, MembersAre
    <3> QED BY <3>1, <3>4, Zenon
  <2>8. step' = t /\ sent' = sent \o Outputs(s) BY <1>10, <1>12, <2>6
  <2>9. UnknownsIs(t.unknowns, a2, fed) BY <2>5, <2>7
  <2>10. DemixIsDone(a2, b2)'
    BY <1>1, <2>2, <2>4, <2>8, <2>9, Zenon DEF DemixIsDone, Needed, UnknownsIs, OutputsAre, SolvedOf, OutputOf
  <2> QED BY <1>11, <2>2, <2>4, <2>8, <2>10
<1>13. CASE ~(step.n_in > 0)
  <2>1. PICK n \in Nat \ {0} : n = config.avg BY <1>2 DEF DemixSettings
  <2>2. PICK w \in Nat \ {0} : w = config.subtr BY <1>2 DEF DemixSettings
  <2>3. PICK x \in Nat : x = fd * n BY <1>4, <2>1
  <2>4. x <= fed BY <1>2, <1>3, <1>5, <2>1, <2>3, OutputCounts
  <2>5. fed = x /\ fo * w = x BY <1>3, <1>6, <1>13, <2>1, <2>2, <2>3, <2>4
  <2>6. Needed(fd, n, fed) /\ Needed(fo, w, fed)
    <3>1. fd * n < fed + n /\ fd * n >= fed BY <2>1, <2>3, <2>5
    <3>2. fo * w < fed + w /\ fo * w >= fed BY <2>2, <2>3, <2>5
    <3> QED BY <1>4, <3>1, <3>2 DEF Needed
  <2>7. step' = step /\ sent' = sent BY <1>3, <1>10, <1>13
  <2>8. DemixIsDone(fd, fo)'
    BY <1>1, <1>5, <2>1, <2>2, <2>6, <2>7, Zenon DEF DemixIsDone, Needed, UnknownsIs, OutputsAre, SolvedOf, OutputOf
  <2> QED BY <1>3, <1>4, <1>11, <2>7, <2>8
<1> QED BY <1>12, <1>13

LEMMA DemixStutterInv == DemixInv /\ UNCHANGED calls => DemixInv'
<1> SUFFICES ASSUME DemixInv, UNCHANGED calls PROVE DemixInv'
  OBVIOUS
<1>1. DemixTypes' BY Zenon DEF DemixInv, DemixTypes, DemixSettings, calls
<1>2. ASSUME NEW fd \in Nat, NEW fo \in Nat, NEW a \in Nat, NEW b \in Nat, DemixRuns(fd, fo, a, b)
      PROVE  DemixRuns(fd, fo, a, b)'
  <2>1. DemixState(step, fd, fo, a, b, fed)' BY <1>2, Zenon DEF DemixRuns, DemixState, Multiplier, calls
  <2>2. UnknownsIs(step.unknowns, fd, fed)' BY <1>2, Zenon DEF DemixRuns, UnknownsIs, SolvedOf, calls
  <2>3. OutputsAre(sent, fo, fed)' BY <1>2, Zenon DEF DemixRuns, OutputsAre, SolvedOf, OutputOf, calls
  <2>4. (a < fd + config.chunk)' BY <1>2, Zenon DEF DemixRuns, calls
  <2> QED BY <2>1, <2>2, <2>3, <2>4, Zenon DEF DemixRuns
<1>3. ASSUME NEW a \in Nat, NEW b \in Nat, DemixIsDone(a, b) PROVE DemixIsDone(a, b)'
  <2>1. Needed(a, config.avg, fed)' /\ Needed(b, config.subtr, fed)' BY <1>3, Zenon DEF DemixIsDone, Needed, calls
  <2>2. UnknownsIs(step.unknowns, a, fed)' BY <1>3, Zenon DEF DemixIsDone, UnknownsIs, SolvedOf, calls
  <2>3. OutputsAre(sent, b, fed)' BY <1>3, Zenon DEF DemixIsDone, OutputsAre, SolvedOf, OutputOf, calls
  <2> QED BY <2>1, <2>2, <2>3, Zenon DEF DemixIsDone
<1>4. finished' = finished BY DEF calls
<1> QED BY <1>1, <1>2, <1>3, <1>4 DEF DemixInv

LEMMA DemixNextInv == DemixInv /\ [DemixNext]_calls => DemixInv'
  BY DemixProcessInv, DemixFinishInv, DemixStutterInv DEF DemixNext

LEMMA DemixInitInv == DemixGiven /\ DemixInit => DemixInv
<1> SUFFICES ASSUME DemixGiven, DemixInit PROVE DemixInv
  OBVIOUS
<1>1. PICK n \in 1 .. MaxSlots, t \in DemixTimeSteps, o \in OutputTimeSteps, c \in TimeChunks,
           model, selection \in BOOLEAN :
        LET avg == AtMost(t, n)
            subtr == AtMost(o, n)
        IN  /\ (c * t) % o = 0
            /\ avg % subtr = 0
            /\ Start([ntime |-> n, avg |-> avg, subtr |-> subtr, chunk |-> c,
                      model |-> model, selection |-> selection],
                     [n_in |-> 0, n_out |-> 0, n_out_subtr |-> 0, time_index |-> 0,
                      demix |-> Averaging(avg), output |-> Averaging(subtr),
                      factor_buf |-> {}, factor_buf_subtr |-> {},
                      factors |-> <<>>, factors_subtr |-> <<>>, unknowns |-> <<>>])
  BY DEF DemixInit
<1>2. n \in Nat \ {0} /\ t \in Nat \ {0} /\ o \in Nat \ {0} /\ c \in Nat \ {0}
  BY MaxSlotsAssumption DEF DemixGiven
<1>3. PICK x \in Nat \ {0} : x = AtMost(t, n) BY <1>2 DEF AtMost
<1>4. PICK y \in Nat \ {0} : y = AtMost(o, n) BY <1>2 DEF AtMost
<1>5. /\ config.ntime = n /\ config.avg = x /\ config.subtr = y /\ config.chunk = c
      /\ config.model = model /\ config.selection = selection
      /\ fed = 0 /\ sent = <<>> /\ finished = FALSE
  BY <1>1, <1>3, <1>4 DEF Start
<1>6. step = DemixMembers(0, 0, 0, 0, Averaging(x), Averaging(y), {}, {}, <<>>, <<>>, <<>>)
  BY <1>1, <1>3, <1>4, Zenon DEF Start, DemixMembers
<1>7. x % y = 0 BY <1>1, <1>3, <1>4
<1>8. DemixSettings BY <1>1, <1>2, <1>3, <1>4, <1>5, <1>7 DEF DemixSettings
<1>9. PICK m \in Nat \ {0} : m = Multiplier BY <1>8, MultiplierIs
<1>10. /\ step.n_out = 0 /\ step.n_out_subtr = 0 /\ step.demix = Averaging(x) /\ step.output = Averaging(y)
       /\ step.factor_buf = {} /\ step.factor_buf_subtr = {} /\ step.factors = <<>> /\ step.factors_subtr = <<>>
       /\ step.unknowns = <<>>
  BY <1>6, MembersAre
<1>11. ASSUME NEW k \in Nat \ {0} PROVE StreamIs(Averaging(k), {}, <<>>, 0, k, 0, 0, 0)
  <2>1. 0 * k = 0 /\ 0 .. 0 - 1 = {} OBVIOUS
  <2>2. Averaging(k) = [n |-> k, sum |-> {}, results |-> <<>>] /\ Averaging(k).results = <<>> BY DEF Averaging
  <2>3. ResultsAre(<<>>, k, 0, 0, 0) BY DEF ResultsAre
  <2>4. AveragingIs(Averaging(k), k, 0, 0, 0) BY <2>1, <2>2, <2>3, Zenon DEF AveragingIs
  <2>5. FactorsAre(<<>>, k, 0, 0, 0) BY DEF FactorsAre
  <2>6. IsIn(0, k, 0) BY <2>1 DEF IsIn
  <2>7. 0 <= 0 /\ 0 = 0 - 0 OBVIOUS
  <2> QED BY <2>1, <2>4, <2>5, <2>6, <2>7, Zenon DEF StreamIs
<1>12. StreamIs(step.demix, step.factor_buf, step.factors, step.n_out, config.avg, 0, 0, fed)
  BY <1>3, <1>5, <1>10, <1>11
<1>13. StreamIs(step.output, step.factor_buf_subtr, step.factors_subtr, step.n_out_subtr, config.subtr, 0, 0, fed)
  BY <1>4, <1>5, <1>10, <1>11
<1>14. 0 = 0 * Multiplier /\ 0 - 0 * x = 0 BY <1>3, <1>9
<1>15. DemixState(step, 0, 0, 0, 0, fed)
  <2>1. step = DemixMembers(fed - 0 * config.avg, step.n_out, step.n_out_subtr, 0, step.demix, step.output,
                       step.factor_buf, step.factor_buf_subtr, step.factors, step.factors_subtr, step.unknowns)
    BY <1>5, <1>6, <1>10, <1>14, Zenon
  <2>2. 0 \in Nat OBVIOUS
  <2> QED BY <1>12, <1>13, <1>14, <2>1, <2>2, Zenon DEF DemixState
<1>16. UnknownsIs(step.unknowns, 0, fed) BY <1>10 DEF UnknownsIs
<1>17. OutputsAre(sent, 0, fed) BY <1>5 DEF OutputsAre
<1>18. 0 < 0 + config.chunk BY <1>2, <1>5
<1>19. DemixRuns(0, 0, 0, 0) BY <1>15, <1>16, <1>17, <1>18, Zenon DEF DemixRuns
<1>20. DemixTypes
  <2>1. fed \in 0 .. config.ntime BY <1>2, <1>5
  <2>2. sent \in Seq(OutputsOf(config)) BY <1>5
  <2>3. finished \in BOOLEAN
    <3>1. finished = FALSE BY <1>5
    <3> QED BY <3>1
  <2> QED BY <1>8, <2>1, <2>2, <2>3 DEF DemixTypes
<1>21. 0 \in Nat /\ finished = FALSE BY <1>5
<1> QED BY <1>19, <1>20, <1>21 DEF DemixInv

-----------------------------------------------------------------------------
LEMMA NeededIs ==
  ASSUME NEW n \in Nat \ {0}, NEW given \in Nat, NEW end, Needed(end, n, given)
  PROVE  (given + n - 1) \div n = end
<1>1. PICK x \in Nat : x = given + n - 1 OBVIOUS
<1>2. end \in Nat BY DEF Needed
<1>3. PICK e \in Nat : e = end * n BY <1>2
<1>4. end * n <= x /\ x < end * n + n BY <1>1, <1>3 DEF Needed
<1>5. x \div n = end BY <1>2, <1>4, QuotientIs
<1> QED BY <1>1, <1>5

LEMMA NoMoreThanNeeded ==
  ASSUME NEW n \in Nat \ {0}, NEW given \in Nat, NEW end \in Nat, end * n <= given
  PROVE  end <= (given + n - 1) \div n /\ (given + n - 1) \div n \in Nat
<1>1. PICK x \in Nat : x = given + n - 1 OBVIOUS
<1>2. PICK q \in Nat : q = x \div n OBVIOUS
<1>3. PICK p \in Nat : p = q * n OBVIOUS
<1>4. x < p + n
  <2>1. x = n * (x \div n) + (x % n) /\ x % n \in 0 .. n - 1 OBVIOUS
  <2>2. PICK r \in Int : r = x % n BY <2>1
  <2>3. x = n * q + r BY <1>2, <2>1, <2>2
  <2>4. n * q = p BY <1>3
  <2> QED BY <2>1, <2>2, <2>3, <2>4
<1>5. end <= q
  <2>1. SUFFICES ASSUME q + 1 <= end PROVE FALSE OBVIOUS
  <2>2. q + 1 \in Nat OBVIOUS
  <2>3. (q + 1) * n <= end * n BY <2>1, <2>2, TimesOrder
  <2>4. (q + 1) * n = p + n BY <1>3
  <2>5. PICK e \in Nat : e = end * n OBVIOUS
  <2> QED BY <1>1, <1>4, <2>3, <2>4, <2>5
<1> QED BY <1>1, <1>2, <1>5

LEMMA DemixInvIsEnough == DemixInv => SourcesAreRemovedInTime
<1> SUFFICES ASSUME DemixInv PROVE SourcesAreRemovedInTime
  OBVIOUS
<1>1. DemixTypes /\ DemixSettings BY DEF DemixInv, DemixTypes
<1>2. PICK n \in Nat \ {0} : n = config.avg BY <1>1 DEF DemixSettings
<1>3. PICK w \in Nat \ {0} : w = config.subtr BY <1>1 DEF DemixSettings
<1>4. fed \in Nat /\ finished \in BOOLEAN BY <1>1 DEF DemixTypes, DemixSettings
<1>5. \A k : Solved(k) = SolvedOf(config, fed, k) /\ PromisedOutput(k) = OutputOf(config, fed, k)
  BY Zenon DEF Solved, SolvedOf, PromisedOutput, OutputOf, IntervalSlots, SlotsWithin
<1> DEFINE outs == (fed + config.subtr - 1) \div config.subtr
           promised == [k \in 1 .. outs |-> PromisedOutput(k - 1)]
<1>6. \E end, known \in Nat :
        /\ end <= outs /\ outs \in Nat /\ (finished => end = outs)
        /\ OutputsAre(sent, end, fed) /\ UnknownsIs(step.unknowns, known, fed)
        /\ finished => known = (fed + n - 1) \div n
  <2>1. CASE finished
    <3>1. PICK a, b \in Nat : DemixIsDone(a, b) BY <2>1 DEF DemixInv
    <3>2. Needed(a, n, fed) /\ Needed(b, w, fed) BY <1>2, <1>3, <3>1 DEF DemixIsDone
    <3>3. (fed + n - 1) \div n = a BY <1>2, <1>4, <3>2, NeededIs
    <3>4. (fed + w - 1) \div w = b BY <1>3, <1>4, <3>2, NeededIs
    <3>5. outs = b BY <1>3, <3>4
    <3> HIDE DEF outs
    <3>6. b <= outs /\ outs \in Nat BY <3>1, <3>5
    <3> QED BY <2>1, <3>1, <3>3, <3>5, <3>6 DEF DemixIsDone
  <2>2. CASE finished = FALSE
    <3>1. PICK fd, fo, a, b \in Nat : DemixRuns(fd, fo, a, b) BY <2>2 DEF DemixInv
    <3>2. DemixState(step, fd, fo, a, b, fed) BY <3>1 DEF DemixRuns
    <3>3. fd * config.avg <= fed /\ fo * config.subtr = fd * config.avg BY <1>1, <1>4, <3>2, OutputCounts
    <3>4. fo * w <= fed BY <1>3, <3>3
    <3>5. fo <= (fed + w - 1) \div w /\ (fed + w - 1) \div w \in Nat BY <1>3, <1>4, <3>1, <3>4, NoMoreThanNeeded
    <3>6. fo <= outs /\ outs \in Nat BY <1>3, <3>5
    <3> HIDE DEF outs
    <3> QED BY <2>2, <3>1, <3>6 DEF DemixRuns
  <2> QED BY <1>4, <2>1, <2>2
<1>7. PICK end, known \in Nat :
        /\ end <= outs /\ outs \in Nat /\ (finished => end = outs)
        /\ OutputsAre(sent, end, fed) /\ UnknownsIs(step.unknowns, known, fed)
        /\ finished => known = (fed + n - 1) \div n
  BY <1>6
<1> HIDE DEF outs
<1>8. Len(promised) = outs /\ \A k \in 1 .. outs : promised[k] = PromisedOutput(k - 1) BY <1>7
<1>9. Len(sent) = end /\ \A k \in 1 .. end : sent[k] = PromisedOutput(k - 1)
  BY <1>5, <1>7, Zenon DEF OutputsAre
<1>10. \A k \in 1 .. end : k \in 1 .. outs BY <1>7
<1> HIDE DEF promised
<1>11. Keeps(promised) BY <1>7, <1>8, <1>9, <1>10 DEF Keeps
<1>12. \A k \in DOMAIN step.unknowns : step.unknowns[k] = Solved(k) BY <1>5, <1>7, Zenon DEF UnknownsIs
<1>13. finished /\ config.model =>
          DOMAIN step.unknowns = 0 .. (fed + config.avg - 1) \div config.avg - 1
  BY <1>2, <1>7 DEF UnknownsIs
<1> QED BY <1>11, <1>12, <1>13, Zenon DEF SourcesAreRemovedInTime, promised, outs

(***************************************************************************)
(* Demixer: from each output the sources are subtracted once, with the     *)
(* solution of the interval it lies in, and the solutions that are written *)
(* are of their intervals, for all numbers of slots, averagings and chunks *)
(* that the step accepts, partial ones in the end included.                *)
(***************************************************************************)
THEOREM EverySourceIsRemovedInTime ==
  ASSUME DemixGiven
  PROVE  DemixSpec => []SourcesAreRemovedInTime
<1>1. DemixInit => DemixInv BY DemixInitInv
<1>2. DemixInv /\ [DemixNext]_calls => DemixInv' BY DemixNextInv
<1>3. DemixInv => SourcesAreRemovedInTime BY DemixInvIsEnough
<1> QED BY <1>1, <1>2, <1>3, PTL DEF DemixSpec

-----------------------------------------------------------------------------
(***************************************************************************)
(* SolverLoop: the last iterations are exact, and their number is right.   *)
(***************************************************************************)
\* Solvers do at least one iteration.
LoopsGiven ==
    /\ MaxIterations \subseteq Nat \ {0}
    /\ MaxApproxIterations \subseteq Nat

Solvers == IF config.hybrid THEN 2 ELSE 1

LoopSettings ==
    [max : Nat \ {0}, maxima : Seq(Nat), hybrid : BOOLEAN, approximate : BOOLEAN,
     max_approx : Nat, detect_stalling : BOOLEAN]

LoopMembers ==
    [pc : {"solver", "iterate", "end", "solved"}, interval : Int, at : Nat,
     finished_approximate : [1 .. Solvers -> BOOLEAN], max : Int, available : Int,
     iteration : Nat, converged : BOOLEAN, previously : BOOLEAN, satisfied : BOOLEAN,
     even : Nat, iterations : Int, constraint_iterations : Int, constrained : Int,
     done : Int, exact : Int, unsatisfied : Int, stalled : BOOLEAN]

LoopTypes ==
    /\ config \in LoopSettings
    /\ Len(config.maxima) = Solvers
    /\ config.maxima[Solvers] = config.max
    /\ config.maxima[1] \in 1 .. config.max
    /\ config.hybrid /\ config.max > 1 => config.maxima[1] < config.max
    /\ step \in LoopMembers
    /\ step.at \in 1 .. Solvers
    /\ step.interval \in Int

\* The iterations of the solvers before the one that runs.
Before == step.done - (IF step.pc = "solver" THEN 0 ELSE step.iteration)

\* A solver has what the solvers before it left of the iterations.
LoopBudget ==
    step.pc # "solved" =>
        /\ step.at = 1 => Before = 0 /\ step.iterations = 0 /\ step.available = config.max
        /\ step.at = 2 =>
              /\ Before \in 1 .. config.maxima[1]
              /\ step.iterations = Before \/ step.iterations = Before + 1
              /\ step.available = config.max - Before \/ step.available = config.max - Before - 1
        /\ step.pc # "solver" =>
              /\ step.max = IF config.maxima[step.at] < step.available
                            THEN config.maxima[step.at] ELSE step.available
              /\ step.iteration <= 1 \/ step.iteration <= step.max
        /\ step.pc = "iterate" => step.iteration = 0 \/ step.iteration < step.max
        /\ step.pc = "end" =>
              /\ step.iteration >= 1
              /\ step.iteration >= step.max \/ (step.converged /\ step.satisfied) \/ step.stalled

\* Iterations are inexact at first, and then exact, which the next one sees.
LoopStages ==
    step.pc \in {"iterate", "end"} /\ config.approximate =>
        /\ step.constrained = step.unsatisfied
        /\ step.iteration = 0 => ~step.satisfied /\ step.exact = 0
        /\ ~step.satisfied => step.unsatisfied = step.iteration
        /\ ~step.finished_approximate[step.at] =>
              ~step.satisfied /\ (step.iteration = 0 \/ step.iteration < step.max)
        /\ step.finished_approximate[step.at] =>
              /\ step.iteration > 0 => step.exact >= 1
              /\ step.iteration = 0 => config.max_approx = 0
              /\ \/ step.previously
                 \/ step.iteration >= config.max_approx
                 \/ step.iteration > 0 /\ step.iteration >= step.max
        /\ step.satisfied /\ config.max_approx > 0 => step.exact >= 2
        /\ step.exact >= 0
        /\ step.stalled => step.satisfied

LoopInv == LoopTypes /\ LoopBudget /\ LoopStages /\ Loop!IterationsTellConvergence

\* One member of another value of its type.
LEMMA MembersStay ==
  ASSUME NEW m \in LoopMembers
  PROVE  /\ \A x \in {"solver", "iterate", "end", "solved"} : [m EXCEPT !.pc = x] \in LoopMembers
         /\ \A x \in [1 .. Solvers -> BOOLEAN] : [m EXCEPT !.finished_approximate = x] \in LoopMembers
         /\ \A x \in Int : [m EXCEPT !.max = x] \in LoopMembers
         /\ \A x \in Nat : [m EXCEPT !.iteration = x] \in LoopMembers
         /\ \A x \in BOOLEAN : [m EXCEPT !.converged = x] \in LoopMembers
         /\ \A x \in BOOLEAN : [m EXCEPT !.previously = x] \in LoopMembers
         /\ \A x \in BOOLEAN : [m EXCEPT !.satisfied = x] \in LoopMembers
         /\ \A x \in Nat : [m EXCEPT !.even = x] \in LoopMembers
         /\ \A x \in Int : [m EXCEPT !.constrained = x] \in LoopMembers
         /\ \A x \in Int : [m EXCEPT !.done = x] \in LoopMembers
         /\ \A x \in Int : [m EXCEPT !.exact = x] \in LoopMembers
         /\ \A x \in Int : [m EXCEPT !.unsatisfied = x] \in LoopMembers
         /\ \A x \in BOOLEAN : [m EXCEPT !.stalled = x] \in LoopMembers
<1>1. ASSUME NEW x \in {"solver", "iterate", "end", "solved"} PROVE [m EXCEPT !.pc = x] \in LoopMembers BY DEF LoopMembers
<1>2. ASSUME NEW x \in [1 .. Solvers -> BOOLEAN] PROVE [m EXCEPT !.finished_approximate = x] \in LoopMembers BY DEF LoopMembers
<1>3. ASSUME NEW x \in Int PROVE [m EXCEPT !.max = x] \in LoopMembers BY DEF LoopMembers
<1>4. ASSUME NEW x \in Nat PROVE [m EXCEPT !.iteration = x] \in LoopMembers BY DEF LoopMembers
<1>5. ASSUME NEW x \in BOOLEAN PROVE [m EXCEPT !.converged = x] \in LoopMembers BY DEF LoopMembers
<1>6. ASSUME NEW x \in BOOLEAN PROVE [m EXCEPT !.previously = x] \in LoopMembers BY DEF LoopMembers
<1>7. ASSUME NEW x \in BOOLEAN PROVE [m EXCEPT !.satisfied = x] \in LoopMembers BY DEF LoopMembers
<1>8. ASSUME NEW x \in Nat PROVE [m EXCEPT !.even = x] \in LoopMembers BY DEF LoopMembers
<1>9. ASSUME NEW x \in Int PROVE [m EXCEPT !.constrained = x] \in LoopMembers BY DEF LoopMembers
<1>10. ASSUME NEW x \in Int PROVE [m EXCEPT !.done = x] \in LoopMembers BY DEF LoopMembers
<1>11. ASSUME NEW x \in Int PROVE [m EXCEPT !.exact = x] \in LoopMembers BY DEF LoopMembers
<1>12. ASSUME NEW x \in Int PROVE [m EXCEPT !.unsatisfied = x] \in LoopMembers BY DEF LoopMembers
<1>13. ASSUME NEW x \in BOOLEAN PROVE [m EXCEPT !.stalled = x] \in LoopMembers BY DEF LoopMembers
<1> QED BY <1>1, <1>2, <1>3, <1>4, <1>5, <1>6, <1>7, <1>8, <1>9, <1>10, <1>11, <1>12, <1>13, Zenon

\* What PrepareConstraints() and Solve() start with.
LEMMA ResetMembers ==
  ASSUME NEW m \in LoopMembers
  PROVE  [m EXCEPT !.satisfied = FALSE, !.even = 0, !.constrained = 0, !.exact = 0,
                   !.unsatisfied = 0, !.stalled = FALSE] \in LoopMembers
<1>0. 0 \in Nat /\ 0 \in Int /\ FALSE \in BOOLEAN OBVIOUS
<1>1. PICK n1 \in LoopMembers : n1 = [m EXCEPT !.satisfied = FALSE] BY <1>0, MembersStay, Zenon
<1>2. PICK n2 \in LoopMembers : n2 = [n1 EXCEPT !.even = 0] BY <1>0, MembersStay, Zenon
<1>3. PICK n3 \in LoopMembers : n3 = [n2 EXCEPT !.constrained = 0] BY <1>0, MembersStay, Zenon
<1>4. PICK n4 \in LoopMembers : n4 = [n3 EXCEPT !.exact = 0] BY <1>0, MembersStay, Zenon
<1>5. PICK n5 \in LoopMembers : n5 = [n4 EXCEPT !.unsatisfied = 0] BY <1>0, MembersStay, Zenon
<1>6. PICK n6 \in LoopMembers : n6 = [n5 EXCEPT !.stalled = FALSE] BY <1>0, MembersStay, Zenon
<1> QED BY <1>1, <1>2, <1>3, <1>4, <1>5, <1>6, Zenon

LEMMA LoopInitInv ==
  ASSUME LoopsGiven, Loop!LoopInit
  PROVE  LoopInv
<1>1. PICK max \in MaxIterations, hybrid, approximate, stall \in BOOLEAN, m \in MaxApproxIterations :
        /\ config = [max |-> max, maxima |-> Loop!SolverMaxima(max, hybrid), hybrid |-> hybrid,
                       approximate |-> approximate, max_approx |-> m, detect_stalling |-> stall]
        /\ step = Loop!Fresh([s \in DOMAIN Loop!SolverMaxima(max, hybrid) |-> FALSE], 1)
  BY DEF Loop!LoopInit
<1>2. max \in Nat \ {0} /\ m \in Nat BY DEF LoopsGiven
<1>3. PICK maxima : maxima = Loop!SolverMaxima(max, hybrid) OBVIOUS
<1>4. /\ maxima \in Seq(Nat) /\ Len(maxima) = IF hybrid THEN 2 ELSE 1
      /\ maxima[IF hybrid THEN 2 ELSE 1] = max
      /\ maxima[1] \in 1 .. max
      /\ hybrid /\ max > 1 => maxima[1] < max
  <2>1. CASE hybrid
    <3>1. PICK a \in Nat : a = Loop!Largest(1, max \div 6)
      <4>1. max \div 6 \in Nat BY <1>2
      <4> QED BY <4>1 DEF Loop!Largest
    <3>2. maxima = <<a, max>> BY <1>3, <2>1, <3>1 DEF Loop!SolverMaxima
    <3>3. a >= 1 /\ a <= max /\ (max > 1 => a < max) BY <1>2, <3>1 DEF Loop!Largest
    <3> QED BY <1>2, <2>1, <3>2, <3>3
  <2>2. CASE ~hybrid
    <3>1. maxima = <<max>> BY <1>3, <2>2 DEF Loop!SolverMaxima
    <3> QED BY <1>2, <2>2, <3>1
  <2> QED BY <2>1, <2>2
<1>5. config = [max |-> max, maxima |-> maxima, hybrid |-> hybrid,
                       approximate |-> approximate, max_approx |-> m, detect_stalling |-> stall]
  BY <1>1, <1>3
<1>6. /\ config \in LoopSettings /\ config.maxima = maxima /\ config.max = max
      /\ config.hybrid = hybrid /\ config.approximate = approximate
  BY <1>2, <1>4, <1>5 DEF LoopSettings
<1>7. PICK fa : fa = [s \in DOMAIN maxima |-> FALSE] OBVIOUS
<1>8. fa \in [1 .. Solvers -> BOOLEAN]
  <2>1. Len(maxima) = Solvers BY <1>4, <1>6, Zenon DEF Solvers
  <2>2. DOMAIN maxima = 1 .. Solvers BY <1>4, <2>1
  <2> QED BY <1>7, <2>2
<1>9. step = [pc |-> "solver", interval |-> 1, at |-> 1, finished_approximate |-> fa,
     max |-> 0, available |-> max, iteration |-> 0, converged |-> FALSE,
     previously |-> FALSE, satisfied |-> FALSE, even |-> 0, iterations |-> 0,
     constraint_iterations |-> 0, constrained |-> 0,
     done |-> 0, exact |-> 0, unsatisfied |-> 0, stalled |-> FALSE]
  BY <1>1, <1>3, <1>6, <1>7 DEF Loop!Fresh
<1> HIDE <1>1, <1>3, <1>5, <1>7
<1>10. step \in LoopMembers /\ step.at = 1 /\ step.pc = "solver" /\ step.done = 0 /\ step.iterations = 0
       /\ step.available = max /\ step.interval = 1
  BY <1>2, <1>8, <1>9 DEF LoopMembers
<1>11. LoopTypes BY <1>4, <1>6, <1>10 DEF LoopTypes, Solvers
<1>12. LoopBudget BY <1>6, <1>10 DEF LoopBudget, Before
<1> QED BY <1>10, <1>11, <1>12 DEF LoopInv, LoopStages, Loop!IterationsTellConvergence

LEMMA LoopFacts ==
  ASSUME LoopTypes
  PROVE  /\ config.max \in Nat /\ config.max >= 1 /\ config.max_approx \in Nat
         /\ config.hybrid \in BOOLEAN /\ config.approximate \in BOOLEAN
         /\ config.maxima[1] \in Nat /\ config.maxima[step.at] \in Nat
         /\ config.maxima[step.at] <= config.max
         /\ step.at = 1 \/ (step.at = 2 /\ config.hybrid /\ config.maxima[2] = config.max)
         /\ Solvers = (IF config.hybrid THEN 2 ELSE 1) /\ Len(config.maxima) = Solvers
<1>1. config \in LoopSettings /\ step.at \in 1 .. Solvers BY DEF LoopTypes
<1>2. /\ config.max \in Nat /\ config.max >= 1 /\ config.max_approx \in Nat
      /\ config.hybrid \in BOOLEAN /\ config.approximate \in BOOLEAN
  BY <1>1 DEF LoopSettings
<1>3. config.maxima[1] \in 1 .. config.max /\ config.maxima[Solvers] = config.max
      /\ Len(config.maxima) = Solvers
  BY DEF LoopTypes
<1>4. CASE config.hybrid
  <2>1. Solvers = 2 BY <1>4 DEF Solvers
  <2>2. step.at = 1 \/ step.at = 2 BY <1>1, <2>1
  <2>3. config.maxima[2] = config.max BY <1>3, <2>1
  <2> QED BY <1>2, <1>3, <1>4, <2>1, <2>2, <2>3
<1>5. CASE ~config.hybrid
  <2>1. Solvers = 1 BY <1>5 DEF Solvers
  <2>2. step.at = 1 BY <1>1, <2>1
  <2> QED BY <1>2, <1>3, <1>5, <2>1, <2>2
<1> QED BY <1>4, <1>5

LEMMA LoopTypesStay ==
  ASSUME LoopTypes, config' = config, step' \in LoopMembers, step'.at \in 1 .. Solvers
  PROVE  LoopTypes'
<1>1. Solvers' = Solvers /\ LoopSettings' = LoopSettings BY DEF Solvers, LoopSettings
<1>2. LoopMembers' = LoopMembers BY <1>1 DEF LoopMembers
<1>3. step'.interval \in Int BY DEF LoopMembers
<1> QED BY <1>1, <1>2, <1>3, Zenon DEF LoopTypes

LEMMA StartSolverInv ==
  ASSUME LoopInv, Loop!StartSolver
  PROVE  LoopInv'
<1>1. LoopTypes /\ LoopBudget /\ step.pc = "solver" BY DEF LoopInv, Loop!StartSolver
<1>2. config' = config BY DEF Loop!StartSolver
<1>3. PICK first \in BOOLEAN : first = Loop!PrepareIteration(FALSE, 0, FALSE)
  BY DEF Loop!PrepareIteration
<1>4. first => config.max_approx = 0
  <2>1. PICK m \in Nat : m = config.max_approx BY <1>1, LoopFacts
  <2>2. first => 0 >= m BY <1>3, <2>1, Zenon DEF Loop!PrepareIteration
  <2> QED BY <2>1, <2>2
<1>5. PICK max \in Int : max = IF config.maxima[step.at] < step.available
                             THEN config.maxima[step.at] ELSE step.available
  <2>1. config.maxima[step.at] \in Int /\ step.available \in Int
    <3>1. step.available \in Int BY <1>1 DEF LoopTypes, LoopMembers
    <3> QED BY <1>1, <3>1, LoopFacts
  <2> QED BY <2>1
<1>6. max = Loop!Smallest(config.maxima[step.at], step.available)
  BY <1>5, Zenon DEF Loop!Smallest
<1>7. step' = [step EXCEPT
          !.pc = "iterate", !.max = max, !.finished_approximate[step.at] = first,
          !.iteration = 0, !.converged = FALSE, !.previously = FALSE, !.satisfied = FALSE,
          !.even = 0, !.constrained = 0, !.exact = 0, !.unsatisfied = 0, !.stalled = FALSE]
  BY <1>3, <1>6 DEF Loop!StartSolver
<1>8. PICK fa \in [1 .. Solvers -> BOOLEAN] : fa = [step.finished_approximate EXCEPT ![step.at] = first]
  BY <1>1 DEF LoopTypes, LoopMembers
<1>9. fa[step.at] = first BY <1>1, <1>8 DEF LoopTypes, LoopMembers
<1>10. step' = [step EXCEPT
          !.pc = "iterate", !.max = max, !.finished_approximate = fa,
          !.iteration = 0, !.converged = FALSE, !.previously = FALSE, !.satisfied = FALSE,
          !.even = 0, !.constrained = 0, !.exact = 0, !.unsatisfied = 0, !.stalled = FALSE]
  BY <1>7, <1>8, Zenon
<1>11. /\ step' \in LoopMembers /\ step'.pc = "iterate" /\ step'.max = max
       /\ step'.at = step.at /\ step'.finished_approximate = fa /\ step'.iteration = 0
       /\ step'.done = step.done /\ step'.iterations = step.iterations
       /\ step'.available = step.available /\ step'.interval = step.interval
       /\ step'.constrained = 0 /\ step'.exact = 0 /\ step'.unsatisfied = 0
       /\ ~step'.satisfied /\ ~step'.stalled
  <2>1. step \in LoopMembers BY <1>1 DEF LoopTypes
  <2>2. PICK old \in LoopMembers : old = step BY <2>1
  <2>3. PICK mid : mid = [old EXCEPT
          !.pc = "iterate", !.max = max, !.finished_approximate = fa,
          !.iteration = 0, !.converged = FALSE, !.previously = FALSE]
    OBVIOUS
  <2>4. step' = [mid EXCEPT !.satisfied = FALSE,
          !.even = 0, !.constrained = 0, !.exact = 0, !.unsatisfied = 0, !.stalled = FALSE]
    BY <1>10, <2>2, <2>3, Zenon
  <2> HIDE <1>7, <1>8, <1>10, <2>2
  <2>5. mid \in LoopMembers /\ mid.pc = "iterate" /\ mid.max = max
        /\ mid.at = old.at /\ mid.finished_approximate = fa /\ mid.iteration = 0
        /\ mid.done = old.done /\ mid.iterations = old.iterations
        /\ mid.available = old.available /\ mid.interval = old.interval
    BY <2>3 DEF LoopMembers
  <2> HIDE <2>3
  <2>6. step' \in LoopMembers BY <2>4, <2>5, ResetMembers, Zenon
  <2>8. step'.pc = mid.pc /\ step'.max = mid.max /\ step'.at = mid.at
    BY <2>4, <2>5 DEF LoopMembers
  <2>9. step'.finished_approximate = mid.finished_approximate /\ step'.iteration = mid.iteration
        /\ step'.done = mid.done /\ step'.iterations = mid.iterations
    BY <2>4, <2>5 DEF LoopMembers
  <2>10. step'.available = mid.available /\ step'.interval = mid.interval
         /\ step'.constrained = 0 /\ step'.exact = 0 /\ step'.unsatisfied = 0
    BY <2>4, <2>5 DEF LoopMembers
  <2>7. step'.satisfied = FALSE /\ step'.stalled = FALSE
    BY <2>4, <2>5 DEF LoopMembers
  <2> QED BY <2>2, <2>5, <2>6, <2>7, <2>8, <2>9, <2>10
<1> HIDE <1>7, <1>10
<1>12. LoopTypes'
  <2>1. step'.at \in 1 .. Solvers BY <1>1, <1>11 DEF LoopTypes
  <2> QED BY <1>1, <1>2, <1>11, <2>1, LoopTypesStay
<1>13. LoopBudget'
  <2>0. step.done \in Int BY <1>1 DEF LoopTypes, LoopMembers
  <2>1. Before' = Before BY <1>1, <1>11, <2>0 DEF Before
  <2> QED BY <1>1, <1>2, <1>5, <1>11, <2>1 DEF LoopBudget
<1>14. LoopStages' BY <1>2, <1>4, <1>9, <1>11 DEF LoopStages
<1> QED BY <1>11, <1>12, <1>13, <1>14 DEF LoopInv, Loop!IterationsTellConvergence

LEMMA EndSolverInv ==
  ASSUME LoopInv, Loop!EndSolver
  PROVE  LoopInv'
<1>1. LoopTypes /\ LoopBudget /\ LoopStages /\ step.pc = "end" BY DEF LoopInv, Loop!EndSolver
<1>2. config' = config BY DEF Loop!EndSolver
<1>3. /\ config.max \in Nat /\ config.max >= 1
      /\ config.hybrid \in BOOLEAN /\ config.maxima[1] \in Nat /\ config.maxima[step.at] \in Nat
      /\ config.maxima[step.at] <= config.max
      /\ step.at = 1 \/ (step.at = 2 /\ config.hybrid /\ config.maxima[2] = config.max)
      /\ Len(config.maxima) = IF config.hybrid THEN 2 ELSE 1
  BY <1>1, LoopFacts
<1>4. /\ step \in LoopMembers /\ step.iteration \in Nat /\ step.max \in Int /\ step.available \in Int
      /\ step.iterations \in Int /\ step.done \in Int /\ step.constrained \in Int
      /\ step.constraint_iterations \in Int /\ step.converged \in BOOLEAN /\ step.satisfied \in BOOLEAN
      /\ step.stalled \in BOOLEAN
  BY <1>1 DEF LoopTypes, LoopMembers
<1>5. PICK n \in Int : n = Loop!NIterations
  BY <1>4 DEF Loop!NIterations
<1>6. /\ step.converged /\ step.satisfied => n = step.iteration
      /\ ~(step.converged /\ step.satisfied) => n = step.iteration + 1
  BY <1>4, <1>5 DEF Loop!NIterations
<1>7. PICK a \in Int : a = Loop!Available
  BY <1>4, <1>5 DEF Loop!Available, Loop!IsConverged
<1>8. /\ n <= step.max => a = step.available - (step.iterations + n)
      /\ ~(n <= step.max) => a = step.available - step.max
  BY <1>4, <1>5, <1>7 DEF Loop!Available, Loop!IsConverged
<1>9. PICK i \in Int :
        i = IF config.hybrid /\ step.at = 2 /\ ~Loop!IsConverged THEN config.max + 1
            ELSE step.iterations + Loop!NIterations
  BY <1>3, <1>4, <1>5
<1>10. /\ config.hybrid /\ step.at = 2 /\ ~(n <= step.max) => i = config.max + 1
       /\ ~(config.hybrid /\ step.at = 2 /\ ~(n <= step.max)) => i = step.iterations + n
  BY <1>3, <1>4, <1>5, <1>9 DEF Loop!IsConverged
<1>11. PICK c \in Int : c = step.constraint_iterations + step.constrained BY <1>4
<1>12. PICK more \in BOOLEAN : more <=> step.at < Len(config.maxima) OBVIOUS
<1>13. more <=> config.hybrid /\ step.at = 1 BY <1>3, <1>12
<1>14. PICK at \in Nat : at = IF step.at < Len(config.maxima) THEN step.at + 1 ELSE step.at
  BY <1>3
<1>15. at = (IF more THEN 2 ELSE step.at) BY <1>3, <1>12, <1>13, <1>14
<1>16. PICK pc \in {"solver", "solved"} : pc = IF step.at < Len(config.maxima) THEN "solver" ELSE "solved"
  OBVIOUS
<1>17. pc = (IF more THEN "solver" ELSE "solved") BY <1>12, <1>16
<1>18. step' = [step EXCEPT !.available = a, !.iterations = i, !.constraint_iterations = c,
                            !.at = at, !.pc = pc]
  BY <1>7, <1>9, <1>11, <1>14, <1>16, Zenon DEF Loop!EndSolver
<1>19. /\ step' \in LoopMembers /\ step'.available = a /\ step'.iterations = i /\ step'.at = at
       /\ step'.pc = pc /\ step'.done = step.done /\ step'.iteration = step.iteration
       /\ step'.converged = step.converged /\ step'.satisfied = step.satisfied
       /\ step'.stalled = step.stalled
  BY <1>4, <1>18 DEF LoopMembers
<1> HIDE <1>5, <1>7, <1>9, <1>14, <1>16, <1>18
<1>20. at \in 1 .. Solvers
  <2>1. Solvers = IF config.hybrid THEN 2 ELSE 1 BY <1>1, LoopFacts
  <2> QED BY <1>3, <1>13, <1>15, <2>1
<1>21. LoopTypes' BY <1>1, <1>2, <1>19, <1>20, LoopTypesStay
<1>22. LoopStages' BY <1>17, <1>19 DEF LoopStages
<1>23. /\ step.at = 1 => step.done = step.iteration /\ step.iterations = 0 /\ step.available = config.max
       /\ step.at = 2 =>
             /\ step.done - step.iteration \in 1 .. config.maxima[1]
             /\ step.iterations = step.done - step.iteration \/ step.iterations = step.done - step.iteration + 1
             /\ \/ step.available = config.max - (step.done - step.iteration)
                \/ step.available = config.max - (step.done - step.iteration) - 1
       /\ step.max = IF config.maxima[step.at] < step.available
                     THEN config.maxima[step.at] ELSE step.available
       /\ step.iteration <= 1 \/ step.iteration <= step.max
       /\ step.iteration >= 1
       /\ step.iteration >= step.max \/ (step.converged /\ step.satisfied) \/ step.stalled
  <2>1. Before = step.done - step.iteration BY <1>1, <1>4, Zenon DEF Before
  <2>2. PICK b \in Int : b = Before BY <1>4, <2>1
  <2>3. /\ step.at = 1 => b = 0 /\ step.iterations = 0 /\ step.available = config.max
        /\ step.at = 2 =>
              /\ b \in 1 .. config.maxima[1]
              /\ step.iterations = b \/ step.iterations = b + 1
              /\ step.available = config.max - b \/ step.available = config.max - b - 1
        /\ step.max = IF config.maxima[step.at] < step.available
                      THEN config.maxima[step.at] ELSE step.available
        /\ step.iteration <= 1 \/ step.iteration <= step.max
        /\ step.iteration >= 1
        /\ step.iteration >= step.max \/ (step.converged /\ step.satisfied) \/ step.stalled
    BY <1>1, <2>2 DEF LoopBudget
  <2>4. b = step.done - step.iteration BY <2>1, <2>2
  <2> HIDE <2>1, <2>2
  <2> QED BY <1>3, <1>4, <2>3, <2>4
<1>24. LoopBudget'
  <2>1. CASE more
    <3>1. config.hybrid /\ step.at = 1 /\ pc = "solver" /\ at = 2 BY <1>13, <1>15, <1>17, <2>1
    <3>2. step.max = config.maxima[1]
      BY <1>3, <1>4, <1>23, <3>1
    <3>3. step.done = step.iteration /\ step.iterations = 0 /\ step.available = config.max
      BY <1>23, <3>1
    <3>4. config.maxima[1] \in 1 .. config.max BY <1>1 DEF LoopTypes
    <3>5. step.done \in 1 .. config.maxima[1] BY <1>4, <1>3, <1>23, <3>2, <3>3, <3>4
    <3>6. i = step.done \/ i = step.done + 1 BY <1>4, <1>6, <1>10, <3>1, <3>3, SMTT(60)
    <3>7. a = config.max - step.done \/ a = config.max - step.done - 1
      <4>1. PICK all, most, left, does \in Int :
              all = config.max /\ most = step.max /\ left = step.available /\ does = step.done
        BY <1>3, <1>4, SMTT(60)
      <4>2. n = does \/ n = does + 1
        <5>1. n = step.iteration \/ n = step.iteration + 1 BY <1>6
        <5> QED BY <3>3, <4>1, <5>1
      <4>3. left = all /\ does <= most
        <5>1. step.done <= step.max BY <3>2, <3>5
        <5> QED BY <3>3, <4>1, <5>1
      <4>4. CASE n <= most
        <5>1. a = left - (0 + n) BY <1>8, <3>3, <4>1, <4>4
        <5>2. a = all - does \/ a = all - does - 1 BY <4>2, <4>3, <5>1
        <5> QED BY <4>1, <5>2
      <4>5. CASE ~(n <= most)
        <5>1. a = left - most BY <1>8, <4>1, <4>5
        <5>2. does = most BY <4>2, <4>3, <4>5
        <5>3. a = all - does BY <4>3, <5>1, <5>2
        <5> QED BY <4>1, <5>3
      <4> QED BY <4>4, <4>5
    <3>8. Before' = step.done BY <1>4, <1>19, <3>1 DEF Before
    <3> QED BY <1>2, <1>19, <3>1, <3>5, <3>6, <3>7, <3>8 DEF LoopBudget
  <2>2. CASE ~more
    <3>1. pc = "solved" BY <1>17, <2>2
    <3> QED BY <1>19, <3>1 DEF LoopBudget
  <2> QED BY <2>1, <2>2
<1>25. Loop!IterationsTellConvergence'
  <2>1. CASE more BY <1>17, <1>19, <2>1 DEF Loop!IterationsTellConvergence
  <2>2. CASE ~more
    <3>1. at = step.at /\ (step.at = 2 \/ ~config.hybrid) BY <1>3, <1>13, <1>15, <2>2
    <3>2. PICK ok \in BOOLEAN : ok <=> step.converged /\ step.satisfied OBVIOUS
    <3>3. step.done <= (IF config.max < Len(config.maxima) THEN Len(config.maxima) ELSE config.max)
      <4>1. CASE step.at = 1 BY <1>3, <1>4, <1>23, <3>1, <4>1
      <4>2. CASE step.at = 2
        <5>1. config.max > 1 => config.maxima[1] < config.max BY <1>1, <1>3, <4>2 DEF LoopTypes
        <5>2. config.maxima[1] \in 1 .. config.max BY <1>1 DEF LoopTypes
        <5>3. Len(config.maxima) = 2 BY <1>3, <4>2
        <5> QED BY <1>3, <1>4, <1>23, <4>2, <5>1, <5>2, <5>3, SMTT(60)
      <4> QED BY <1>3, <4>1, <4>2
    <3>4. ~(i > config.max) => ok \/ step.stalled
      <4>1. CASE step.at = 1
        <5>1. ~config.hybrid BY <3>1, <4>1
        <5>2. i = n BY <1>4, <1>10, <1>23, <4>1, <5>1
        <5>3. step.max = config.max
          <6>1. Len(config.maxima) = 1 /\ Solvers = 1 BY <1>1, <1>3, <5>1, LoopFacts
          <6>2. config.maxima[1] = config.max BY <1>1, <6>1 DEF LoopTypes
          <6> QED BY <1>3, <1>23, <4>1, <6>2
        <5> QED BY <1>3, <1>4, <1>6, <1>23, <3>2, <5>2, <5>3
      <4>2. CASE step.at = 2
        <5>1. config.hybrid BY <1>3, <4>2
        <5>2. ~(n <= step.max) => i = config.max + 1 BY <1>10, <4>2, <5>1
        <5>3. ~ok /\ ~step.stalled => ~(n <= step.max) BY <1>4, <1>6, <1>23, <3>2
        <5> QED BY <1>3, <5>2, <5>3
      <4> QED BY <1>3, <4>1, <4>2
    <3>5. i > config.max /\ ok => config.hybrid /\ step.done >= config.max
      <4>1. CASE step.at = 1
        BY <1>3, <1>4, <1>6, <1>10, <1>23, <3>1, <3>2, <4>1
      <4>2. CASE step.at = 2
        <5>1. config.hybrid BY <1>3, <4>2
        <5>2. PICK b \in Int : b = step.done - step.iteration BY <1>4
        <5>3. /\ step.iterations = b \/ step.iterations = b + 1
              /\ step.available = config.max - b \/ step.available = config.max - b - 1
          BY <1>23, <4>2, <5>2
        <5>4. ASSUME ok PROVE n = step.iteration BY <1>6, <3>2, <5>4
        <5>5. CASE n <= step.max
          <6>1. i = step.iterations + n BY <1>10, <5>5
          <6>2. ASSUME ok, i > config.max PROVE step.done >= config.max
            <7>1. b + 1 + step.iteration > config.max BY <1>3, <1>4, <5>3, <5>4, <6>1, <6>2, SMTT(60)
            <7>2. step.done = b + step.iteration BY <1>4, <5>2
            <7> QED BY <1>3, <1>4, <7>1, <7>2, SMTT(60)
          <6> QED BY <5>1, <6>2
        <5>6. CASE ~(n <= step.max)
          <6>1. ASSUME ok PROVE step.done >= config.max
            <7>1. step.iteration = 1 /\ step.max <= 0 BY <1>4, <1>23, <5>4, <5>6, <6>1
            <7>2. config.maxima[step.at] = config.max BY <1>3, <4>2
            <7>3. step.available <= 0 BY <1>3, <1>4, <1>23, <7>1, <7>2
            <7>4. step.done = b + 1 BY <1>4, <5>2, <7>1
            <7> QED BY <1>3, <1>4, <5>3, <7>3, <7>4
          <6> QED BY <5>1, <6>1
        <5> QED BY <5>5, <5>6
      <4> QED BY <1>3, <4>1, <4>2
    <3>6. /\ step'.done <= Loop!Largest(config'.max, Len(config'.maxima))
      BY <1>2, <1>19, <3>3, Zenon DEF Loop!Largest
    <3>7. Loop!TakenForUnconverged' <=> i > config.max
      BY <1>2, <1>19, Zenon DEF Loop!TakenForUnconverged
    <3> QED BY <1>2, <1>19, <3>2, <3>4, <3>5, <3>6, <3>7, Zenon DEF Loop!IterationsTellConvergence
  <2> QED BY <2>1, <2>2
<1> QED BY <1>21, <1>22, <1>24, <1>25 DEF LoopInv

LEMMA NextIntervalInv ==
  ASSUME LoopInv, Loop!NextInterval
  PROVE  LoopInv'
<1>1. LoopTypes BY DEF LoopInv
<1>2. config' = config /\ step' = Loop!Fresh(step.finished_approximate, step.interval + 1)
  BY DEF Loop!NextInterval
<1>3. step.finished_approximate \in [1 .. Solvers -> BOOLEAN] /\ step.interval \in Int
  BY <1>1 DEF LoopTypes, LoopMembers
<1>4. PICK fa \in [1 .. Solvers -> BOOLEAN], n \in Int, max \in Nat :
        fa = step.finished_approximate /\ n = step.interval + 1 /\ max = config.max
  BY <1>1, <1>3, LoopFacts
<1>5. step' = [pc |-> "solver", interval |-> n, at |-> 1, finished_approximate |-> fa,
     max |-> 0, available |-> max, iteration |-> 0, converged |-> FALSE,
     previously |-> FALSE, satisfied |-> FALSE, even |-> 0, iterations |-> 0,
     constraint_iterations |-> 0, constrained |-> 0,
     done |-> 0, exact |-> 0, unsatisfied |-> 0, stalled |-> FALSE]
  BY <1>2, <1>4, Zenon DEF Loop!Fresh
<1>6. step' \in LoopMembers /\ step'.at = 1 /\ step'.pc = "solver" /\ step'.done = 0
      /\ step'.iterations = 0 /\ step'.available = max
  BY <1>5 DEF LoopMembers
<1>7. LoopTypes'
  <2>1. 1 \in 1 .. Solvers BY <1>1, LoopFacts
  <2> QED BY <1>1, <1>2, <1>6, <2>1, LoopTypesStay
<1>8. LoopBudget' BY <1>2, <1>4, <1>6 DEF LoopBudget, Before
<1> QED BY <1>6, <1>7, <1>8 DEF LoopInv, LoopStages, Loop!IterationsTellConvergence

LEMMA IterateInv ==
  ASSUME LoopInv, Loop!Iterate
  PROVE  LoopInv'
<1>1. LoopTypes /\ LoopBudget /\ LoopStages /\ step.pc = "iterate" BY DEF LoopInv, Loop!Iterate
<1>2. config' = config BY DEF Loop!Iterate
<1>3. PICK within \in SUBSET {"accuracy", "constraint_accuracy"}, same \in BOOLEAN :
        LET prepared == Loop!PrepareIteration(step.previously, step.iteration,
                                         step.iteration + 1 >= step.max)
            satisfied == Loop!ConstraintsSatisfied(prepared)
            converged == Loop!HasConverged(within, satisfied)
            iteration == step.iteration + 1
            even == IF same THEN Loop!Smallest(2, step.even + 1) ELSE 0
            stalled == config.detect_stalling /\ satisfied /\ Loop!DetectStall(iteration, even)
        IN  step' = [step EXCEPT
                !.finished_approximate[step.at] = prepared,
                !.satisfied = satisfied,
                !.constrained = IF satisfied THEN @ ELSE iteration,
                !.converged = converged,
                !.iteration = iteration,
                !.even = even,
                !.previously = converged \/ @,
                !.stalled = stalled,
                !.pc = IF Loop!ReachedStoppingCriterion(iteration, converged, satisfied, stalled)
                       THEN "end" ELSE "iterate",
                !.done = @ + 1,
                !.exact = @ + IF prepared THEN 1 ELSE 0,
                !.unsatisfied = @ + IF satisfied THEN 0 ELSE 1]
  BY DEF Loop!Iterate
<1>4. /\ step \in LoopMembers /\ step.iteration \in Nat /\ step.max \in Int /\ step.even \in Nat
      /\ step.done \in Int /\ step.exact \in Int /\ step.unsatisfied \in Int /\ step.constrained \in Int
      /\ step.previously \in BOOLEAN
      /\ step.finished_approximate \in [1 .. Solvers -> BOOLEAN]
      /\ step.at \in 1 .. Solvers
  BY <1>1 DEF LoopTypes, LoopMembers
<1>5. config.max_approx \in Nat /\ config.approximate \in BOOLEAN BY <1>1, LoopFacts
<1>6. PICK prepared \in BOOLEAN :
        prepared = Loop!PrepareIteration(step.previously, step.iteration, step.iteration + 1 >= step.max)
  BY DEF Loop!PrepareIteration
<1>7. PICK satisfied \in BOOLEAN : satisfied = Loop!ConstraintsSatisfied(prepared)
  BY DEF Loop!ConstraintsSatisfied, Loop!Satisfied
<1>8. PICK converged \in BOOLEAN : converged = Loop!HasConverged(within, satisfied)
  <2>1. PICK accuracy : accuracy = IF satisfied THEN "accuracy" ELSE "constraint_accuracy"
    OBVIOUS
  <2>2. Loop!HasConverged(within, satisfied) = (accuracy \in within)
    BY <2>1, Zenon DEF Loop!HasConverged
  <2>3. (accuracy \in within) \in BOOLEAN OBVIOUS
  <2> QED BY <2>2, <2>3, Zenon
<1>9. PICK n \in Nat : n = step.iteration + 1 BY <1>4
<1>10. PICK even \in Nat : even = IF same THEN Loop!Smallest(2, step.even + 1) ELSE 0
  <2>1. Loop!Smallest(2, step.even + 1) \in Nat BY <1>4 DEF Loop!Smallest
  <2> QED BY <2>1
<1>11. PICK stalled \in BOOLEAN :
         stalled = (config.detect_stalling /\ satisfied /\ Loop!DetectStall(n, even))
  OBVIOUS
<1>12. PICK ends \in BOOLEAN : ends = Loop!ReachedStoppingCriterion(n, converged, satisfied, stalled)
  BY DEF Loop!ReachedStoppingCriterion
<1>13. PICK pc \in {"end", "iterate"} :
         pc = IF Loop!ReachedStoppingCriterion(n, converged, satisfied, stalled) THEN "end" ELSE "iterate"
  OBVIOUS
<1>14. PICK c \in Int : c = IF satisfied THEN step.constrained ELSE n BY <1>4
<1>15. PICK p \in BOOLEAN : p = (converged \/ step.previously) OBVIOUS
<1>16. PICK d \in Int : d = step.done + 1 BY <1>4
<1>17. PICK e \in Int : e = step.exact + IF prepared THEN 1 ELSE 0 BY <1>4
<1>18. PICK u \in Int : u = step.unsatisfied + IF satisfied THEN 0 ELSE 1 BY <1>4
<1>19. PICK fa \in [1 .. Solvers -> BOOLEAN] : fa = [step.finished_approximate EXCEPT ![step.at] = prepared]
  BY <1>4
<1>20. step' = [step EXCEPT
                !.finished_approximate = fa, !.satisfied = satisfied, !.constrained = c,
                !.converged = converged, !.iteration = n, !.even = even, !.previously = p,
                !.stalled = stalled, !.pc = pc, !.done = d, !.exact = e, !.unsatisfied = u]
  <2>1. step' = [step EXCEPT
                !.finished_approximate[step.at] = prepared, !.satisfied = satisfied,
                !.constrained = IF satisfied THEN step.constrained ELSE n,
                !.converged = converged, !.iteration = n, !.even = even,
                !.previously = converged \/ step.previously,
                !.stalled = stalled,
                !.pc = IF Loop!ReachedStoppingCriterion(n, converged, satisfied, stalled)
                       THEN "end" ELSE "iterate",
                !.done = step.done + 1,
                !.exact = step.exact + IF prepared THEN 1 ELSE 0,
                !.unsatisfied = step.unsatisfied + IF satisfied THEN 0 ELSE 1]
    BY <1>3, <1>6, <1>7, <1>8, <1>9, <1>10, <1>11, ZenonT(200)
  <2> QED BY <2>1, <1>13, <1>14, <1>15, <1>16, <1>17, <1>18, <1>19, ZenonT(60)
<1>21. /\ step' \in LoopMembers
       /\ step'.finished_approximate = fa /\ step'.satisfied = satisfied /\ step'.constrained = c
       /\ step'.converged = converged /\ step'.iteration = n /\ step'.previously = p
       /\ step'.stalled = stalled /\ step'.pc = pc /\ step'.done = d /\ step'.exact = e
       /\ step'.unsatisfied = u /\ step'.at = step.at /\ step'.max = step.max
       /\ step'.available = step.available /\ step'.iterations = step.iterations
  <2>1. PICK old \in LoopMembers : old = step BY <1>4
  <2>2. PICK mid : mid = [old EXCEPT
                !.finished_approximate = fa, !.satisfied = satisfied, !.constrained = c,
                !.converged = converged, !.iteration = n, !.even = even]
    OBVIOUS
  <2>3. step' = [mid EXCEPT !.previously = p, !.stalled = stalled, !.pc = pc, !.done = d,
                            !.exact = e, !.unsatisfied = u]
    BY <1>20, <2>1, <2>2, Zenon
  <2> HIDE <1>3, <1>6, <1>7, <1>8, <1>9, <1>10, <1>11, <1>12, <1>13, <1>14, <1>15, <1>16, <1>17,
           <1>18, <1>19, <1>20, <2>1
  <2>4. mid \in LoopMembers /\ mid.at = old.at /\ mid.max = old.max /\ mid.available = old.available
        /\ mid.iterations = old.iterations /\ mid.finished_approximate = fa
        /\ mid.satisfied = satisfied /\ mid.constrained = c /\ mid.converged = converged
        /\ mid.iteration = n
    BY <2>2 DEF LoopMembers
  <2> HIDE <2>2
  <2>5. step' \in LoopMembers /\ step'.at = mid.at /\ step'.max = mid.max
        /\ step'.available = mid.available /\ step'.iterations = mid.iterations
    BY <2>3, <2>4, ZenonT(120) DEF LoopMembers
  <2>6. /\ step'.finished_approximate = mid.finished_approximate
        /\ step'.satisfied = mid.satisfied /\ step'.constrained = mid.constrained
        /\ step'.converged = mid.converged /\ step'.iteration = mid.iteration
    BY <2>3, <2>4 DEF LoopMembers
  <2>7. /\ step'.previously = p /\ step'.stalled = stalled /\ step'.pc = pc /\ step'.done = d
        /\ step'.exact = e /\ step'.unsatisfied = u
    BY <2>3, <2>4 DEF LoopMembers
  <2> QED BY <2>1, <2>4, <2>5, <2>6, <2>7, Zenon
<1>22. prepared <=> step.previously \/ n >= step.max \/ step.iteration >= config.max_approx
  <2>1. prepared <=> step.previously \/ step.iteration + 1 >= step.max
                     \/ step.iteration >= config.max_approx
    BY <1>6, Zenon DEF Loop!PrepareIteration
  <2> QED BY <1>9, <2>1
<1>23. satisfied <=> (config.approximate => step.finished_approximate[step.at])
  BY <1>7, Zenon DEF Loop!ConstraintsSatisfied, Loop!Satisfied
<1>24. ends <=> n >= step.max \/ (converged /\ satisfied) \/ stalled
  BY <1>12, Zenon DEF Loop!ReachedStoppingCriterion
<1>25. pc = (IF ends THEN "end" ELSE "iterate") BY <1>12, <1>13, Zenon
<1>26. stalled => satisfied BY <1>11, Zenon
<1>27. fa[step.at] = prepared BY <1>4, <1>19
<1>28. p <=> converged \/ step.previously BY <1>15, Zenon
<1>29. (satisfied => c = step.constrained /\ u = step.unsatisfied)
       /\ (~satisfied => c = n /\ u = step.unsatisfied + 1)
  BY <1>4, <1>14, <1>18
<1>30. (prepared => e = step.exact + 1) /\ (~prepared => e = step.exact) BY <1>4, <1>17
<1> HIDE <1>3, <1>6, <1>7, <1>8, <1>11, <1>12, <1>13, <1>14, <1>15, <1>17, <1>18, <1>19, <1>20
<1>31. LoopTypes' BY <1>1, <1>2, <1>4, <1>21, LoopTypesStay
<1>32. LoopBudget'
  <2>1. Before' = Before
    <3>1. Before = step.done - step.iteration BY <1>1, <1>4, Zenon DEF Before
    <3>2. Before' = d - n BY <1>21, <1>25, Zenon DEF Before
    <3> QED BY <1>4, <1>9, <1>16, <3>1, <3>2
  <2>2. n >= 1 /\ (n <= 1 \/ n <= step.max)
    <3>1. step.iteration = 0 \/ step.iteration < step.max BY <1>1 DEF LoopBudget
    <3> QED BY <1>4, <1>9, <3>1
  <2>3. ~ends => n < step.max BY <1>4, <1>24
  <2>4. step'.pc # "solver" /\ step'.pc # "solved" BY <1>21, <1>25
  <2>5. /\ step.at = 1 => Before = 0 /\ step.iterations = 0 /\ step.available = config.max
        /\ step.at = 2 =>
              /\ Before \in 1 .. config.maxima[1]
              /\ step.iterations = Before \/ step.iterations = Before + 1
              /\ step.available = config.max - Before \/ step.available = config.max - Before - 1
        /\ step.max = IF config.maxima[step.at] < step.available
                      THEN config.maxima[step.at] ELSE step.available
    BY <1>1 DEF LoopBudget
  <2>6. PICK b : b = Before OBVIOUS
  <2>7. Before' = b BY <2>1, <2>6
  <2>8. /\ step'.at = 1 => Before' = 0 /\ step'.iterations = 0 /\ step'.available = config'.max
        /\ step'.at = 2 =>
              /\ Before' \in 1 .. config'.maxima[1]
              /\ step'.iterations = Before' \/ step'.iterations = Before' + 1
              /\ step'.available = config'.max - Before' \/ step'.available = config'.max - Before' - 1
        /\ step'.max = IF config'.maxima[step'.at] < step'.available
                       THEN config'.maxima[step'.at] ELSE step'.available
    <3> HIDE <2>1
    <3> QED BY <1>2, <1>21, <2>5, <2>6, <2>7, Zenon
  <2>9. step'.iteration <= 1 \/ step'.iteration <= step'.max BY <1>21, <2>2, Zenon
  <2>10. step'.pc = "iterate" => step'.iteration = 0 \/ step'.iteration < step'.max
    BY <1>21, <1>25, <2>3
  <2>11. step'.pc = "end" =>
           /\ step'.iteration >= 1
           /\ step'.iteration >= step'.max \/ (step'.converged /\ step'.satisfied) \/ step'.stalled
    BY <1>21, <1>24, <1>25, <2>2
  <2> QED BY <2>4, <2>8, <2>9, <2>10, <2>11, Zenon DEF LoopBudget
<1>33. LoopStages'
  <2>1. SUFFICES ASSUME config.approximate
                 PROVE  LoopStages'
    BY <1>2, Zenon DEF LoopStages
  <2>2. /\ step.constrained = step.unsatisfied
        /\ step.iteration = 0 => ~step.satisfied /\ step.exact = 0
        /\ ~step.satisfied => step.unsatisfied = step.iteration
        /\ ~step.finished_approximate[step.at] =>
              ~step.satisfied /\ (step.iteration = 0 \/ step.iteration < step.max)
        /\ step.finished_approximate[step.at] =>
              /\ step.iteration > 0 => step.exact >= 1
              /\ step.iteration = 0 => config.max_approx = 0
              /\ \/ step.previously
                 \/ step.iteration >= config.max_approx
                 \/ step.iteration > 0 /\ step.iteration >= step.max
        /\ step.exact >= 0
    BY <1>1, <2>1, Zenon DEF LoopStages
  <2>3. satisfied <=> step.finished_approximate[step.at] BY <1>23, <2>1, Zenon
  <2>4. c = u /\ (~satisfied => u = n) BY <1>4, <1>9, <1>29, <2>2, <2>3
  <2>5. step.iteration = 0 \/ step.iteration < step.max BY <1>1 DEF LoopBudget
  <2>6. satisfied => prepared BY <1>4, <1>5, <1>22, <2>2, <2>3, <2>5
  <2>7. ~prepared => n < step.max BY <1>4, <1>9, <1>22
  <2>8. e >= 0 /\ (prepared => e >= 1) BY <1>4, <1>30, <2>2
  <2>9. satisfied /\ config.max_approx > 0 => e >= 2
    <3>1. ASSUME satisfied, config.max_approx > 0 PROVE e >= 2
      <4>1. step.iteration > 0 BY <1>4, <1>5, <2>2, <2>3, <3>1
      <4>2. step.exact >= 1 BY <2>2, <2>3, <3>1, <4>1
      <4> QED BY <1>4, <1>30, <2>6, <3>1, <4>2
    <3> QED BY <3>1
  <2>10. prepared => p \/ n >= config.max_approx \/ n >= step.max
    BY <1>4, <1>5, <1>9, <1>22, <1>28
  <2>11. n # 0 /\ n > 0 BY <1>4, <1>9
  <2>12. step'.finished_approximate[step'.at] = prepared BY <1>21, <1>27, Zenon
  <2>13. /\ step'.constrained = step'.unsatisfied
         /\ step'.iteration = 0 => ~step'.satisfied /\ step'.exact = 0
         /\ ~step'.satisfied => step'.unsatisfied = step'.iteration
         /\ step'.satisfied /\ config'.max_approx > 0 => step'.exact >= 2
         /\ step'.exact >= 0
         /\ step'.stalled => step'.satisfied
    BY <1>2, <1>21, <1>26, <2>4, <2>8, <2>9, <2>11, Zenon
  <2>14. ~step'.finished_approximate[step'.at] =>
           ~step'.satisfied /\ (step'.iteration = 0 \/ step'.iteration < step'.max)
    BY <1>21, <2>6, <2>7, <2>12, Zenon
  <2>15. step'.finished_approximate[step'.at] =>
              /\ step'.iteration > 0 => step'.exact >= 1
              /\ step'.iteration = 0 => config'.max_approx = 0
              /\ \/ step'.previously
                 \/ step'.iteration >= config'.max_approx
                 \/ step'.iteration > 0 /\ step'.iteration >= step'.max
    BY <1>2, <1>21, <2>8, <2>10, <2>11, <2>12, Zenon
  <2> QED BY <2>13, <2>14, <2>15, Zenon DEF LoopStages
<1>34. Loop!IterationsTellConvergence'
  BY <1>21, <1>25 DEF Loop!IterationsTellConvergence
<1> QED BY <1>31, <1>32, <1>33, <1>34 DEF LoopInv

LEMMA LoopNextInv ==
  ASSUME LoopInv, [Loop!LoopNext]_(Loop!loopVars)
  PROVE  LoopInv'
<1>1. CASE Loop!StartSolver BY <1>1, StartSolverInv
<1>2. CASE Loop!Iterate BY <1>2, IterateInv
<1>3. CASE Loop!EndSolver BY <1>3, EndSolverInv
<1>4. CASE Loop!NextInterval BY <1>4, NextIntervalInv
<1>5. CASE UNCHANGED Loop!loopVars
  <2>1. config' = config /\ step' = step BY <1>5 DEF Loop!loopVars
  <2>2. LoopTypes /\ LoopBudget /\ LoopStages /\ Loop!IterationsTellConvergence BY DEF LoopInv
  <2>3. LoopTypes' BY <2>1, <2>2, LoopTypesStay DEF LoopTypes
  <2>4. Before' = Before BY <2>1 DEF Before
  <2>5. LoopBudget' BY <2>1, <2>2, <2>4 DEF LoopBudget
  <2>6. LoopStages' BY <2>1, <2>2 DEF LoopStages
  <2>7. Loop!IterationsTellConvergence'
    BY <2>1, <2>2, Zenon DEF Loop!IterationsTellConvergence, Loop!TakenForUnconverged
  <2> QED BY <2>3, <2>5, <2>6, <2>7 DEF LoopInv
<1> QED BY <1>1, <1>2, <1>3, <1>4, <1>5 DEF Loop!LoopNext

\* At the end either the maximum was reached, whose iteration is exact, or
\* the constraint was satisfied before the last iteration.
LEMMA LoopInvIsEnough ==
  ASSUME LoopInv
  PROVE  Loop!SolutionsAreExact /\ Loop!IterationsTellConvergence
<1>1. LoopTypes /\ LoopBudget /\ LoopStages /\ Loop!IterationsTellConvergence BY DEF LoopInv
<1>2. SUFFICES ASSUME step.pc = "end", config.approximate
               PROVE  /\ step.exact >= 1
                      /\ config.max_approx > 0 /\ step.iteration < step.max => step.exact >= 2
                      /\ step.constrained = step.unsatisfied
  BY <1>1, Zenon DEF Loop!SolutionsAreExact
<1>3. /\ step.iteration >= 1
      /\ step.iteration >= step.max \/ (step.converged /\ step.satisfied) \/ step.stalled
  BY <1>1, <1>2 DEF LoopBudget
<1>4. /\ step.iteration \in Nat /\ step.max \in Int /\ step.exact \in Int
  BY <1>1 DEF LoopTypes, LoopMembers
<1>5. /\ step.constrained = step.unsatisfied
      /\ ~step.finished_approximate[step.at] =>
            ~step.satisfied /\ (step.iteration = 0 \/ step.iteration < step.max)
      /\ step.finished_approximate[step.at] => (step.iteration > 0 => step.exact >= 1)
      /\ step.satisfied /\ config.max_approx > 0 => step.exact >= 2
      /\ step.stalled => step.satisfied
  BY <1>1, <1>2 DEF LoopStages
<1> QED BY <1>3, <1>4, <1>5

(***************************************************************************)
(* For every maximum of the iterations, with or without a hybrid solver    *)
(* and an approximate stage, and over any number of intervals: the result  *)
(* is of exact iterations, and the number that is reported tells what      *)
(* converged.                                                              *)
(***************************************************************************)
THEOREM SolversEndExactly ==
  ASSUME LoopsGiven
  PROVE  Loop!LoopSpec => [](Loop!SolutionsAreExact /\ Loop!IterationsTellConvergence)
<1>1. Loop!LoopInit => LoopInv BY LoopInitInv
<1>2. LoopInv /\ [Loop!LoopNext]_(Loop!loopVars) => LoopInv' BY LoopNextInv
<1>3. LoopInv => Loop!SolutionsAreExact /\ Loop!IterationsTellConvergence BY LoopInvIsEnough
<1> QED BY <1>1, <1>2, <1>3, PTL DEF Loop!LoopSpec

-----------------------------------------------------------------------------
(***************************************************************************)
(* The steps together: one of them runs, and its invariant is kept.        *)
(***************************************************************************)
SettingsGiven ==
    /\ TimeWindows \subseteq Nat \ {0}
    /\ SizesGiven /\ UpsamplerGiven /\ AveragerGiven /\ BlocksGiven /\ CalSettings /\ GainSettings /\ CellsGiven
    /\ LoopsGiven /\ DemixGiven

StepsInv ==
    /\ kind = "medflagger" => MedInv
    /\ kind = "aoflagger" => AOInv
    /\ kind = "applycal" => ApplyInv
    /\ kind = "ddecal" => CalInv
    /\ kind = "gaincal" => GainInv
    /\ kind = "cells" => GainsInv
    /\ kind = "solver" => LoopInv
    /\ kind = "upsample" => UpInv
    /\ kind = "averager" => AvgInv
    /\ kind = "demixer" => DemixInv

LEMMA StepsInitInv ==
  ASSUME SettingsGiven, Init
  PROVE  StepsInv
<1>1. /\ TimeWindows \subseteq Nat \ {0}
      /\ SizesGiven /\ UpsamplerGiven /\ AveragerGiven /\ BlocksGiven /\ CalSettings /\ GainSettings /\ CellsGiven
      /\ LoopsGiven /\ DemixGiven
  BY Zenon DEF SettingsGiven
<1>2. ASSUME kind = "medflagger" PROVE MedInv BY <1>1, <1>2, MedInitInv DEF Init
<1>3. ASSUME kind = "aoflagger" PROVE AOInv BY <1>1, <1>3, AOInitInv DEF Init
<1>4. ASSUME kind = "applycal" PROVE ApplyInv BY <1>1, <1>4, ApplyInitInv DEF Init
<1>5. ASSUME kind = "ddecal" PROVE CalInv BY <1>1, <1>5, CalInitInv DEF Init
<1>6. ASSUME kind = "gaincal" PROVE GainInv BY <1>1, <1>6, GainInitInv DEF Init
<1>7. ASSUME kind = "cells" PROVE GainsInv BY <1>1, <1>7, GainsInitInv DEF Init
<1>8. ASSUME kind = "solver" PROVE LoopInv BY <1>1, <1>8, LoopInitInv DEF Init
<1>9. ASSUME kind = "averager" PROVE AvgInv BY <1>1, <1>9, AvgInitInv DEF Init
<1>10. ASSUME kind = "demixer" PROVE DemixInv BY <1>1, <1>10, DemixInitInv DEF Init
<1>11. ASSUME kind = "upsample" PROVE UpInv BY <1>1, <1>11, UpInitInv DEF Init
<1> QED BY <1>2, <1>3, <1>4, <1>5, <1>6, <1>7, <1>8, <1>9, <1>10, <1>11, Zenon DEF StepsInv

LEMMA StepsNextInv ==
  ASSUME SettingsGiven, StepsInv, [Next]_vars
  PROVE  StepsInv'
<1>1. BlocksGiven /\ CellsGiven /\ UpsamplerGiven BY Zenon DEF SettingsGiven
<1>2. kind' = kind BY DEF Next, vars
<1>3. ASSUME kind = "medflagger" PROVE MedInv'
  <2>1. [MedNext]_calls BY <1>3 DEF Next, vars
  <2> QED BY <1>3, <2>1, MedNextInv DEF StepsInv
<1>4. ASSUME kind = "aoflagger" PROVE AOInv'
  <2>1. [AONext]_calls BY <1>4 DEF Next, vars
  <2> QED BY <1>4, <2>1, AONextInv DEF StepsInv
<1>5. ASSUME kind = "applycal" PROVE ApplyInv'
  <2>1. [ApplyNext]_calls BY <1>5 DEF Next, vars
  <2> QED BY <1>1, <1>5, <2>1, ApplyNextInv DEF StepsInv
<1>6. ASSUME kind = "ddecal" PROVE CalInv'
  <2>1. [CalNext]_calls BY <1>6 DEF Next, vars
  <2> QED BY <1>6, <2>1, CalNextInv DEF StepsInv
<1>7. ASSUME kind = "gaincal" PROVE GainInv'
  <2>1. [GainNext]_calls BY <1>7 DEF Next, vars
  <2> QED BY <1>7, <2>1, GainNextInv DEF StepsInv
<1>8. ASSUME kind = "cells" PROVE GainsInv'
  <2>1. [GainsNext]_calls BY <1>8 DEF Next, vars
  <2> QED BY <1>1, <1>8, <2>1, GainsNextInv DEF StepsInv
<1>9. ASSUME kind = "solver" PROVE LoopInv'
  <2>1. [Loop!LoopNext]_(Loop!loopVars) BY <1>9 DEF Next, vars, calls, Loop!loopVars
  <2> QED BY <1>9, <2>1, LoopNextInv DEF StepsInv
<1>10. ASSUME kind = "averager" PROVE AvgInv'
  <2>1. [AvgNext]_calls BY <1>10 DEF Next, vars
  <2> QED BY <1>10, <2>1, AvgNextInv DEF StepsInv
<1>11. ASSUME kind = "demixer" PROVE DemixInv'
  <2>1. [DemixNext]_calls BY <1>11 DEF Next, vars
  <2> QED BY <1>11, <2>1, DemixNextInv DEF StepsInv
<1>12. ASSUME kind = "upsample" PROVE UpInv'
  <2>1. [UpNext]_calls BY <1>12 DEF Next, vars
  <2> QED BY <1>1, <1>12, <2>1, UpNextInv DEF StepsInv
<1> QED BY <1>2, <1>3, <1>4, <1>5, <1>6, <1>7, <1>8, <1>9, <1>10, <1>11, <1>12, Zenon DEF StepsInv

\* Whichever step runs, with all settings that the constants allow.
LEMMA StepsKeepInv ==
  ASSUME SettingsGiven
  PROVE  Spec => []StepsInv
<1>1. Init => StepsInv BY StepsInitInv
<1>2. StepsInv /\ [Next]_vars => StepsInv' BY StepsNextInv
<1> QED BY <1>1, <1>2, PTL DEF Spec

(***************************************************************************)
(* Slots that pass a flagger are judged with all slots of their window and *)
(* its overlap, and slots that pass an averager are in the average of      *)
(* their time, whatever the window and the number of slots.                *)
(***************************************************************************)
THEOREM SlotsAreFlagged ==
  ASSUME SettingsGiven
  PROVE  Spec => []SlotsMeetTheirWindow
<1>1. StepsInv => SlotsMeetTheirWindow
  BY MedInvIsEnough, AOInvIsEnough, AvgInvIsEnough, Zenon DEF StepsInv, SlotsMeetTheirWindow
<1> QED BY <1>1, StepsKeepInv, PTL

(***************************************************************************)
(* Slots that pass an upsampler leave once for each time of the output.    *)
(***************************************************************************)
THEOREM TimesAreUpsampled ==
  ASSUME SettingsGiven
  PROVE  Spec => []UpsampledTimesAreRight
<1>1. StepsInv => UpsampledTimesAreRight
  BY UpInvIsEnough, Zenon DEF StepsInv, UpsampledTimesAreRight
<1> QED BY <1>1, StepsKeepInv, PTL

(***************************************************************************)
(* Slots that pass OneApplyCal, DDECal or GainCal meet the parameters or   *)
(* the solutions of their own time, and these are written with that time;  *)
(* slots that pass a demixer lose the sources solved for their interval.   *)
(***************************************************************************)
THEOREM SlotsMeetTheirSolutions ==
  ASSUME SettingsGiven
  PROVE  Spec => []SolutionsMeetTheirInterval
<1>1. StepsInv => SolutionsMeetTheirInterval
  BY ApplyInvIsEnough, CalInvImplies, SolutionsAreRight, DemixInvIsEnough, Zenon
     DEF StepsInv, SolutionsMeetTheirInterval
<1> QED BY <1>1, StepsKeepInv, PTL

(***************************************************************************)
(* The loops of the direction dependent solvers end with exact iterations  *)
(* and report a number of them that tells what converged; the cells of     *)
(* GainCal forget the flagged stations of earlier intervals.               *)
(***************************************************************************)
THEOREM IterationsEndExactly ==
  ASSUME SettingsGiven
  PROVE  Spec => []SolutionsAreExact
<1>1. StepsInv => SolutionsAreExact
  BY GainsInvIsEnough, LoopInvIsEnough, Zenon DEF StepsInv, SolutionsAreExact
<1> QED BY <1>1, StepsKeepInv, PTL

=============================================================================
