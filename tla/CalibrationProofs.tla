-------------------------- MODULE CalibrationProofs --------------------------
(***************************************************************************)
(* What DDECal and GainCal guarantee for every number of slots, every      *)
(* solution interval and number of intervals in a batch or chunk, and      *)
(* every mode; with predictions that come at once or late, and whatever    *)
(* the iterations of GainCal do.                                           *)
(***************************************************************************)
EXTENDS DDECal, GainCal, FiniteSetTheorems, TLAPS

-----------------------------------------------------------------------------
(***************************************************************************)
(* DDECal: each slot meets the solutions and the model of its interval.    *)
(***************************************************************************)
CalSettings ==
    /\ SolInts \subseteq Nat
    /\ SolIntCounts \subseteq Nat \ {0}
    /\ MinVisRatios \subseteq Int
    /\ Modes \subseteq [subtract : BOOLEAN, only_predict : BOOLEAN, propagate : BOOLEAN,
                        converged_only : BOOLEAN]

CalModel == [Directions -> Int]
Minus == {<<>>} \cup (CalModel \X Int)
CalBuffer == [slot : Int, flagged : BOOLEAN, weight : Int, original : BOOLEAN, minus : Minus]
CalInterval == [n_solution : Int, buffers : Seq(CalBuffer)]
CalData == [slot : Int, weight : Int, model : CalModel]
CalSolution == [data : Seq(CalData), start : Int, converged : BOOLEAN]
CalInput == [flagged : BOOLEAN, used : BOOLEAN]
CalSlot == [slot : Int, flagged : BOOLEAN, weight : Int, minus : Minus]

CalMembers ==
    [pc : {"process", "flush", "flushlast", "solve", "solvelast", "send", "sendlast", "finish"},
     intervals : Seq(CalInterval), buffered : Nat, nsolints : Nat, waiting : Seq(Int),
     results : [Directions -> Seq(Int)], at : Nat, vis : [used : Int, total : Int],
     sols : Seq(CalSolution), input : Seq(CalInput)]

CalConfig ==
    [ntime : Nat \ {0}, solint : Nat \ {0}, count : Nat \ {0}, idg : BOOLEAN,
     mode : [subtract : BOOLEAN, only_predict : BOOLEAN, propagate : BOOLEAN, converged_only : BOOLEAN],
     minvis : Int]

CalTypes ==
    /\ config \in CalConfig
    /\ fed \in 0 .. config.ntime
    /\ finished \in BOOLEAN
    /\ sent \in Seq(CalSlot)
    /\ step \in CalMembers

\* What is subtracted from a slot in the end.
MinusOf(cfg, slot) ==
    IF cfg.mode.subtract \/ cfg.mode.only_predict
    THEN <<[d \in Directions |-> slot],
           IF cfg.mode.only_predict THEN -1 ELSE slot \div cfg.solint>>
    ELSE <<>>

\* What leaves of a slot, and what m slots of interval n are solved from.
SlotOf(cfg, input, slot) ==
    [slot |-> slot, flagged |-> input[slot + 1].flagged, weight |-> 1, minus |-> MinusOf(cfg, slot)]

DatumOf(input, slot) ==
    [slot |-> slot, weight |-> IF input[slot + 1].used THEN 1 ELSE 0,
     model |-> [d \in Directions |-> slot]]

DataOf(cfg, input, n, m) == [t \in 1 .. m |-> DatumOf(input, n * cfg.solint + t - 1)]

\* The slots of interval n when so many were given.
SizeOf(cfg, given, n) ==
    IF (n + 1) * cfg.solint <= given THEN cfg.solint ELSE given - n * cfg.solint

\* The slots from the first one on are in their places, with their own flags.
Held(buffers, first, input) ==
    \A t \in 1 .. Len(buffers) :
        buffers[t].slot = first + t - 1 /\ buffers[t].original = input[first + t].flagged

\* Not yet solved; and solved.
Fresh(buffers, first, input) ==
    \A t \in 1 .. Len(buffers) :
        buffers[t].weight = (IF input[first + t].used THEN 1 ELSE 0) /\ buffers[t].minus = <<>>

Corrected(cfg, buffers, first) ==
    \A t \in 1 .. Len(buffers) : buffers[t].minus = MinusOf(cfg, first + t - 1)

\* Interval k of the batch is number + k - 1 of the observation; some are full,
\* and what rests of the slots is in one more.
FirstSlot(cfg, number, k) == (number + k - 1) * cfg.solint

IntervalIs(cfg, interval, first, n, m, input, k, solved) ==
    /\ interval.n_solution = n
    /\ Len(interval.buffers) = m
    /\ Held(interval.buffers, first, input)
    /\ k > solved => Fresh(interval.buffers, first, input)
    /\ k <= solved => Corrected(cfg, interval.buffers, first)

BatchIs(cfg, all, number, buffered, rest, input, solved) ==
    /\ Len(all) = buffered + IF rest = 0 THEN 0 ELSE 1
    /\ \A k \in 1 .. Len(all) :
          IntervalIs(cfg, all[k], FirstSlot(cfg, number, k), number + k - 1,
                     IF k <= buffered THEN cfg.solint ELSE rest, input, k, solved)

\* A direction is predicted for the m slots from the first one on.
PredictionsAre(slots, first, m) ==
    Len(slots) = m /\ \A i \in 1 .. m : slots[i] = first + i - 1

SentIs(cfg, input, slots, m) ==
    Len(slots) = m /\ \A i \in 1 .. m : slots[i] = SlotOf(cfg, input, i - 1)

SolutionsAre(cfg, input, given, sols, n) ==
    /\ Len(sols) = IF cfg.mode.only_predict THEN 0 ELSE n
    /\ \A i \in 1 .. Len(sols) : sols[i].data = DataOf(cfg, input, i - 1, SizeOf(cfg, given, i - 1))

Number == step.nsolints - step.buffered
Rest == fed - step.nsolints * config.solint

CalMain ==
    LET first == Number * config.solint
        L == Len(step.intervals)
        m == fed - first
    IN  /\ Len(step.input) = fed
        /\ Number \in Nat /\ Rest \in 0 .. config.solint - 1
        /\ finished => step.pc = "finish"
        /\ step.pc \in {"process", "flush", "flushlast"} =>
            /\ BatchIs(config, step.intervals, Number, step.buffered, Rest, step.input, 0)
            /\ SentIs(config, step.input, sent, first)
            /\ SolutionsAre(config, step.input, fed, step.sols, Number)
            /\ PredictionsAre(step.results[2], first, m)
            /\ config.idg => PredictionsAre(step.waiting, first, m) /\ step.results[1] = <<>>
            /\ ~config.idg => PredictionsAre(step.results[1], first, m) /\ step.waiting = <<>>
        /\ step.pc = "process" => step.buffered < config.count
        /\ step.pc \in {"flush", "solve", "send"} => Rest = 0
        /\ step.pc \in {"solve", "solvelast"} =>
            /\ step.at \in 1 .. L + 1
            /\ BatchIs(config, step.intervals, Number, step.buffered, Rest, step.input, step.at - 1)
            /\ SentIs(config, step.input, sent, first)
            /\ SolutionsAre(config, step.input, fed, step.sols, Number + step.at - 1)
            /\ \A d \in Directions : PredictionsAre(step.results[d], first, m)
            /\ step.waiting = <<>>
        /\ step.pc \in {"send", "sendlast"} =>
            /\ step.at \in 1 .. L + 1
            /\ BatchIs(config, step.intervals, Number, step.buffered, Rest, step.input, L)
            /\ SentIs(config, step.input, sent,
                      IF step.at <= step.buffered + 1 THEN FirstSlot(config, Number, step.at) ELSE fed)
            /\ SolutionsAre(config, step.input, fed, step.sols, Number + L)
            /\ step.waiting = <<>>
        /\ step.pc = "finish" =>
            /\ SentIs(config, step.input, sent, fed)
            /\ SolutionsAre(config, step.input, fed, step.sols, (fed + config.solint - 1) \div config.solint)

CalInv == CalTypes /\ CalMain

-----------------------------------------------------------------------------
LEMMA AppendedFacts ==
  ASSUME NEW S, NEW s \in Seq(S), NEW e \in S
  PROVE  /\ Append(s, e) \in Seq(S)
         /\ Len(Append(s, e)) = Len(s) + 1
         /\ Append(s, e)[Len(s) + 1] = e
         /\ \A i \in 1 .. Len(s) : Append(s, e)[i] = s[i]
  OBVIOUS

LEMMA JoinedFacts ==
  ASSUME NEW S, NEW s \in Seq(S), NEW t \in Seq(S)
  PROVE  /\ s \o t \in Seq(S)
         /\ Len(s \o t) = Len(s) + Len(t)
         /\ \A i \in 1 .. Len(s) : (s \o t)[i] = s[i]
         /\ \A i \in 1 .. Len(t) : (s \o t)[Len(s) + i] = t[i]
  OBVIOUS

LEMMA TimesNext ==
  ASSUME NEW a \in Int, NEW b \in Int
  PROVE  (a + 1) * b = a * b + b /\ (a - 1) * b = a * b - b /\ a * b \in Int
  OBVIOUS

LEMMA TimesOrder ==
  ASSUME NEW a \in Nat, NEW b \in Nat, NEW c \in Nat, a <= b
  PROVE  a * c <= b * c /\ a * c \in Nat /\ b * c \in Nat
<1>1. b - a \in Nat OBVIOUS
<1>2. (b - a) * c \in Nat BY <1>1
<1>3. b * c = a * c + (b - a) * c OBVIOUS
<1>4. a * c \in Nat OBVIOUS
<1> QED BY <1>2, <1>3, <1>4

LEMMA LessThan ==
  ASSUME NEW x \in Int, NEW y \in Int, x < y
  PROVE  \E d \in Nat : y = x + 1 + d
<1>1. y - x - 1 \in Nat OBVIOUS
<1> QED BY <1>1

LEMMA QuotientIs ==
  ASSUME NEW x \in Nat, NEW y \in Nat \ {0}, NEW q \in Nat, q * y <= x, x < q * y + y
  PROVE  x \div y = q
<1> DEFINE p == x \div y
           r == x % y
<1>1. x = y * p + r /\ r \in 0 .. y - 1 /\ p \in Nat OBVIOUS
<1> HIDE DEF p, r
<1>2. CASE p = q
  BY <1>2 DEF p
<1>3. CASE p < q
  <2>1. PICK d \in Nat : q = p + 1 + d BY <1>1, <1>3, LessThan
  <2>2. q * y = y * p + y + d * y /\ d * y \in Nat /\ y * p \in Nat BY <2>1, <1>1
  <2> HIDE <2>1
  <2> QED BY <1>1, <2>2
<1>4. CASE p > q
  <2>1. PICK d \in Nat : p = q + 1 + d BY <1>1, <1>4, LessThan
  <2>2. y * p = q * y + y + d * y /\ d * y \in Nat /\ q * y \in Nat BY <2>1, <1>1
  <2> HIDE <2>1
  <2> QED BY <1>1, <2>2
<1> QED BY <1>1, <1>2, <1>3, <1>4

LEMMA RemainderIs ==
  ASSUME NEW j \in Nat, NEW b \in Nat \ {0}, NEW n \in Nat, j * b <= n, n < j * b + b
  PROVE  n % b = n - j * b
<1>1. n \div b = j BY QuotientIs
<1>2. n = b * (n \div b) + (n % b) OBVIOUS
<1>3. n = b * j + (n % b) /\ n % b \in Nat /\ b * j = j * b /\ b * j \in Nat BY <1>1, <1>2
<1> QED BY <1>3

(* The number of intervals that a whole number of them and a rest make.      *)
LEMMA IntervalsOf ==
  ASSUME NEW s \in Nat \ {0}, NEW j \in Nat, NEW m \in Nat, m < s, NEW n \in Nat, n = j * s + m
  PROVE  (n + s - 1) \div s = IF m = 0 THEN j ELSE j + 1
<1>1. PICK p \in Nat : p = j * s OBVIOUS
<1>2. PICK x \in Nat : x = n + s - 1 OBVIOUS
<1>3. CASE m = 0
  <2>1. j * s <= x /\ x < j * s + s BY <1>1, <1>2, <1>3
  <2>2. x \div s = j BY <2>1, QuotientIs
  <2> QED BY <1>2, <1>3, <2>2
<1>4. CASE m # 0
  <2>1. (j + 1) * s = p + s BY <1>1
  <2>2. PICK j1 \in Nat : j1 = j + 1 OBVIOUS
  <2>3. j1 * s = p + s BY <2>1, <2>2
  <2>4. j1 * s <= x /\ x < j1 * s + s BY <1>1, <1>2, <1>4, <2>3
  <2>5. x \div s = j1 BY <2>4, QuotientIs
  <2> QED BY <1>2, <1>4, <2>2, <2>5
<1> QED BY <1>3, <1>4


-----------------------------------------------------------------------------
LEMMA MinusType == ASSUME NEW cfg \in CalConfig, NEW slot \in Nat PROVE MinusOf(cfg, slot) \in Minus
<1>1. cfg.solint \in Nat \ {0} BY DEF CalConfig
<1>2. slot \div cfg.solint \in Int
  <2>1. PICK s \in Nat \ {0} : s = cfg.solint BY <1>1
  <2>2. slot \div s \in Int OBVIOUS
  <2> QED BY <2>1, <2>2
<1>3. [d \in Directions |-> slot] \in CalModel BY DEF CalModel
<1>4. PICK n \in Int : n = IF cfg.mode.only_predict THEN -1 ELSE slot \div cfg.solint BY <1>2
<1>5. <<[d \in Directions |-> slot], n>> \in CalModel \X Int BY <1>3
<1> QED BY <1>4, <1>5 DEF Minus, MinusOf

(* The first slots of the intervals of a batch.                              *)
LEMMA FirstSlots ==
  ASSUME NEW cfg \in CalConfig, NEW number \in Nat, NEW k \in Nat \ {0}
  PROVE  /\ FirstSlot(cfg, number, k) \in Nat
         /\ FirstSlot(cfg, number, k + 1) = FirstSlot(cfg, number, k) + cfg.solint
         /\ FirstSlot(cfg, number, k) = number * cfg.solint + (k - 1) * cfg.solint
         /\ (k - 1) * cfg.solint \in Nat /\ number * cfg.solint \in Nat
<1> DEFINE s == cfg.solint
<1>1. s \in Nat \ {0} BY DEF CalConfig
<1>2. PICK j \in Nat : k = j + 1
  <2>1. k - 1 \in Nat /\ k = (k - 1) + 1 OBVIOUS
  <2> QED BY <2>1
<1>3. number + k - 1 = number + j /\ number + (k + 1) - 1 = number + j + 1 /\ k - 1 = j BY <1>2
<1>4. FirstSlot(cfg, number, k) = (number + j) * s /\ FirstSlot(cfg, number, k + 1) = (number + j + 1) * s
  BY <1>3 DEF FirstSlot
<1>5. (k - 1) * s = j * s BY <1>3
<1> HIDE DEF s
<1>6. /\ (number + j) * s \in Nat /\ (number + j + 1) * s = (number + j) * s + s
      /\ (number + j) * s = number * s + j * s /\ j * s \in Nat /\ number * s \in Nat
  BY <1>1
<1> QED BY <1>4, <1>5, <1>6 DEF s

(* Intervals that are full end before the slots that rest.                   *)
LEMMA FullEndsBefore ==
  ASSUME NEW cfg \in CalConfig, NEW number \in Nat, NEW buffered \in Nat, NEW k \in 1 .. buffered
  PROVE  FirstSlot(cfg, number, k) + cfg.solint <= (number + buffered) * cfg.solint
<1> DEFINE s == cfg.solint
<1>1. s \in Nat \ {0} BY DEF CalConfig
<1>2. number + k \in Nat /\ number + buffered \in Nat /\ number + k <= number + buffered OBVIOUS
<1>3. (number + k) * s <= (number + buffered) * s
  <2> HIDE DEF s
  <2> QED BY <1>1, <1>2, TimesOrder
<1>4. number + (k + 1) - 1 = number + k OBVIOUS
<1>5. FirstSlot(cfg, number, k + 1) = (number + k) * s BY <1>4 DEF FirstSlot
<1>6. FirstSlot(cfg, number, k + 1) = FirstSlot(cfg, number, k) + s BY FirstSlots
<1> QED BY <1>3, <1>5, <1>6

LEMMA SlotsOfInterval ==
  ASSUME NEW s \in Nat \ {0}, NEW given \in Nat, NEW n \in Nat, NEW m \in 0 .. s,
         n * s + m <= given, m < s => n * s + m = given
  PROVE  Cardinality({x \in n * s .. (n + 1) * s - 1 : x < given}) = m
<1> DEFINE first == n * s
<1>1. first \in Nat /\ (n + 1) * s = first + s OBVIOUS
<1>2. m \in Nat /\ m <= s /\ first + m <= given /\ (m < s => first + m = given) OBVIOUS
<1>3. PICK last \in Int : last = (n + 1) * s - 1 BY <1>1
<1> HIDE DEF first
<1>4. last = first + s - 1 BY <1>1, <1>3
<1>5. {x \in first .. last : x < given} = first .. first + m - 1
  BY <1>1, <1>2, <1>4
<1>6. Cardinality(first .. first + m - 1) = m
  <2>1. PICK b \in Int : b = first + m - 1 BY <1>1, <1>2
  <2>2. Cardinality(first .. b) = IF first > b THEN 0 ELSE b - first + 1 BY <1>1, <2>1, FS_Interval
  <2> QED BY <1>1, <1>2, <2>1, <2>2
<1> QED BY <1>3, <1>5, <1>6 DEF first

LEMMA CalInitInv == CalSettings /\ CalInit => CalInv
<1> SUFFICES ASSUME CalSettings, CalInit PROVE CalInv
  OBVIOUS
<1>1. PICK n \in 1 .. MaxSlots, s \in SolInts, idg \in BOOLEAN, c \in SolIntCounts,
           mode \in Modes, r \in MinVisRatios :
        Start([ntime |-> n, solint |-> IF s = 0 THEN n ELSE s, count |-> c, idg |-> idg,
               mode |-> mode, minvis |-> r],
              [pc |-> "process", intervals |-> <<>>, buffered |-> 0, nsolints |-> 0,
               waiting |-> <<>>, results |-> [d \in Directions |-> <<>>], at |-> 1,
               vis |-> [used |-> 0, total |-> 0], sols |-> <<>>, input |-> <<>>])
  BY DEF CalInit
<1>2. n \in Nat \ {0} /\ c \in Nat \ {0} /\ s \in Nat /\ r \in Int
  BY MaxSlotsAssumption DEF CalSettings
<1>3. PICK solint \in Nat \ {0} : solint = IF s = 0 THEN n ELSE s BY <1>2
<1>4. /\ config = [ntime |-> n, solint |-> solint, count |-> c, idg |-> idg, mode |-> mode, minvis |-> r]
      /\ step = [pc |-> "process", intervals |-> <<>>, buffered |-> 0, nsolints |-> 0,
                 waiting |-> <<>>, results |-> [d \in Directions |-> <<>>], at |-> 1,
                 vis |-> [used |-> 0, total |-> 0], sols |-> <<>>, input |-> <<>>]
      /\ fed = 0 /\ sent = <<>> /\ finished = FALSE
  BY <1>1, <1>3 DEF Start
<1>5. CalTypes
  <2>1. config \in CalConfig
    <3>1. mode \in [subtract : BOOLEAN, only_predict : BOOLEAN, propagate : BOOLEAN,
                    converged_only : BOOLEAN]
      BY DEF CalSettings
    <3> QED BY <1>2, <1>4, <3>1 DEF CalConfig
  <2>2. step \in CalMembers BY <1>4 DEF CalMembers
  <2>3. fed \in 0 .. config.ntime
    <3>1. config.ntime \in Nat BY <2>1 DEF CalConfig
    <3> QED BY <1>4, <3>1
  <2>4. finished \in BOOLEAN
    <3>1. finished = FALSE BY <1>4
    <3> QED BY <3>1
  <2>5. sent \in Seq(CalSlot)
    <3>1. sent = <<>> BY <1>4
    <3> QED BY <3>1
  <2> QED BY <2>1, <2>2, <2>3, <2>4, <2>5 DEF CalTypes
<1>6. /\ step.pc = "process" /\ step.intervals = <<>> /\ step.buffered = 0 /\ step.nsolints = 0
      /\ step.waiting = <<>> /\ step.results = [d \in Directions |-> <<>>] /\ step.sols = <<>>
      /\ step.input = <<>>
  BY <1>4
<1>7. config.solint \in Nat \ {0} /\ config.count \in Nat \ {0} /\ config.idg \in BOOLEAN BY <1>5 DEF CalTypes, CalConfig
<1>8. Number = 0 BY <1>6 DEF Number
<1>9. 0 * config.solint = 0
  <2>1. PICK s0 \in Nat : s0 = config.solint BY <1>7
  <2> QED BY <2>1
<1>10. Rest = 0 BY <1>4, <1>6, <1>9 DEF Rest
<1>11. BatchIs(config, step.intervals, Number, step.buffered, Rest, step.input, 0)
  BY <1>6, <1>8, <1>10 DEF BatchIs
<1>12. SolutionsAre(config, step.input, fed, step.sols, Number) BY <1>6, <1>8 DEF SolutionsAre
<1>13. fed - Number * config.solint = 0 /\ Number * config.solint = 0 BY <1>4, <1>8, <1>9
<1>14. \A d \in Directions : PredictionsAre(step.results[d], Number * config.solint, fed - Number * config.solint)
       /\ step.results[d] = <<>>
  BY <1>6, <1>13 DEF PredictionsAre
<1>15. PredictionsAre(step.waiting, Number * config.solint, fed - Number * config.solint)
  BY <1>6, <1>13 DEF PredictionsAre
<1>16. SentIs(config, step.input, sent, Number * config.solint) BY <1>4, <1>13 DEF SentIs
<1>17. 1 \in Directions /\ 2 \in Directions BY DEF Directions
<1>18. Len(step.input) = fed /\ Rest \in 0 .. config.solint - 1 /\ Number \in Nat
  BY <1>4, <1>6, <1>7, <1>8, <1>10
<1>19. CalMain
  BY <1>4, <1>6, <1>7, <1>11, <1>12, <1>14, <1>15, <1>16, <1>17, <1>18 DEF CalMain
<1> QED BY <1>5, <1>19 DEF CalInv

(* One more slot, b, in the interval that is being filled.                   *)
OneSlotMore(cfg, all, new, number, buffered, rest, input, x, old, b) ==
    /\ rest < cfg.solint
    /\ Len(input) = (number + buffered) * cfg.solint + rest
    /\ BatchIs(cfg, all, number, buffered, rest, input, 0)
    /\ rest = 0 => old = <<>>
    /\ rest # 0 => old = all[buffered + 1].buffers
    /\ b.slot = Len(input) /\ b.original = x.flagged
    /\ b.weight = (IF x.used THEN 1 ELSE 0) /\ b.minus = <<>>
    /\ Len(new) = buffered + 1
    /\ \A k \in 1 .. buffered : new[k] = all[k]
    /\ new[buffered + 1].n_solution = number + buffered
    /\ new[buffered + 1].buffers = Append(old, b)

LEMMA BatchGrows ==
  ASSUME NEW cfg \in CalConfig, NEW all \in Seq(CalInterval), NEW new \in Seq(CalInterval),
         NEW number \in Nat, NEW buffered \in Nat, NEW rest \in Nat,
         NEW input \in Seq(CalInput), NEW x \in CalInput,
         NEW old \in Seq(CalBuffer), NEW b \in CalBuffer,
         OneSlotMore(cfg, all, new, number, buffered, rest, input, x, old, b)
  PROVE  /\ rest + 1 = cfg.solint => BatchIs(cfg, new, number, buffered + 1, 0, Append(input, x), 0)
         /\ rest + 1 # cfg.solint => BatchIs(cfg, new, number, buffered, rest + 1, Append(input, x), 0)
<1> USE DEF OneSlotMore
<1> DEFINE more == Append(input, x)
<1> DEFINE s == cfg.solint
           first == (number + buffered) * s
<1>1. s \in Nat \ {0} BY DEF CalConfig
<1>2. first \in Nat /\ Len(input) = first + rest
  <2>1. Len(input) = (number + buffered) * s + rest OBVIOUS
  <2> HIDE DEF s
  <2> QED BY <1>1, <2>1
<1>3. FirstSlot(cfg, number, buffered + 1) = first
  <2>1. number + (buffered + 1) - 1 = number + buffered OBVIOUS
  <2> QED BY <2>1 DEF FirstSlot
<1>4. more[first + rest + 1] = x /\ \A i \in 1 .. first + rest : more[i] = input[i]
  BY <1>2, AppendedFacts, SMTT(60)
<1>5. /\ Len(old) = rest /\ Held(old, first, input) /\ Fresh(old, first, input)
  <2>1. CASE rest = 0 BY <2>1 DEF Held, Fresh
  <2>2. CASE rest # 0
    <3>1. Len(all) = buffered + 1 /\ buffered + 1 \in 1 .. Len(all) /\ ~(buffered + 1 <= buffered)
          /\ buffered + 1 > 0
      BY <2>2 DEF BatchIs
    <3>2. IntervalIs(cfg, all[buffered + 1], first, number + (buffered + 1) - 1, rest, input, buffered + 1, 0)
      BY <1>3, <3>1 DEF BatchIs
    <3> QED BY <2>2, <3>2 DEF IntervalIs
  <2> QED BY <2>1, <2>2
<1>6. PICK last \in Seq(CalBuffer) : last = Append(old, b)
  <2>1. Append(old, b) \in Seq(CalBuffer) BY AppendedFacts
  <2> QED BY <2>1
<1>7. Len(last) = rest + 1 /\ last[rest + 1] = b /\ \A t \in 1 .. rest : last[t] = old[t]
  BY <1>5, <1>6, AppendedFacts
<1> HIDE DEF first
<1>8. Held(last, first, more)
  <2>1. ASSUME NEW t \in 1 .. Len(last)
        PROVE  last[t].slot = first + t - 1 /\ last[t].original = more[first + t].flagged
    <3>1. CASE t = rest + 1
      <4>1. first + t = first + rest + 1 /\ first + t - 1 = first + rest BY <1>2, <3>1
      <4> QED BY <1>2, <1>4, <1>7, <3>1, <4>1
    <3>2. CASE t # rest + 1
      <4>1. t \in 1 .. rest /\ t \in 1 .. Len(old) BY <1>5, <1>7, <3>2
      <4>2. first + t \in 1 .. first + rest BY <1>2, <4>1
      <4>3. old[t].slot = first + t - 1 /\ old[t].original = input[first + t].flagged
        BY <1>5, <4>1 DEF Held
      <4> QED BY <1>4, <1>7, <4>1, <4>2, <4>3
    <3> QED BY <3>1, <3>2
  <2> QED BY <2>1 DEF Held
<1>9. Fresh(last, first, more)
  <2>1. ASSUME NEW t \in 1 .. Len(last)
        PROVE  last[t].weight = (IF more[first + t].used THEN 1 ELSE 0) /\ last[t].minus = <<>>
    <3>1. CASE t = rest + 1
      <4>1. first + t = first + rest + 1 BY <1>2, <3>1
      <4> QED BY <1>4, <1>7, <3>1, <4>1
    <3>2. CASE t # rest + 1
      <4>1. t \in 1 .. rest /\ t \in 1 .. Len(old) BY <1>5, <1>7, <3>2
      <4>2. first + t \in 1 .. first + rest BY <1>2, <4>1
      <4>3. old[t].weight = (IF input[first + t].used THEN 1 ELSE 0) /\ old[t].minus = <<>>
        BY <1>5, <4>1 DEF Fresh
      <4> QED BY <1>4, <1>7, <4>1, <4>2, <4>3
    <3> QED BY <3>1, <3>2
  <2> QED BY <2>1 DEF Fresh
<1>10. ASSUME NEW k \in 1 .. buffered
       PROVE  IntervalIs(cfg, new[k], FirstSlot(cfg, number, k), number + k - 1, s, more, k, 0)
  <2>1. k \in 1 .. Len(all) /\ k <= buffered /\ k > 0 BY DEF BatchIs
  <2>2. IntervalIs(cfg, all[k], FirstSlot(cfg, number, k), number + k - 1, s, input, k, 0)
    BY <2>1 DEF BatchIs
  <2>3. PICK f \in Nat : f = FirstSlot(cfg, number, k)
    <3>1. k \in Nat \ {0} OBVIOUS
    <3>2. FirstSlot(cfg, number, k) \in Nat BY <3>1, FirstSlots
    <3> QED BY <3>2
  <2>4. f + s <= first BY <2>3, FullEndsBefore DEF first
  <2>5. PICK bs : bs = new[k].buffers OBVIOUS
  <2>6. Len(bs) = s /\ Held(bs, f, input) /\ Fresh(bs, f, input) /\ new[k].n_solution = number + k - 1
    BY <2>1, <2>2, <2>3, <2>5 DEF IntervalIs
  <2> HIDE DEF s
  <2>7. \A t \in 1 .. s : more[f + t] = input[f + t]
    <3> SUFFICES ASSUME NEW t \in 1 .. s PROVE more[f + t] = input[f + t]
      OBVIOUS
    <3>1. f + t \in 1 .. first + rest BY <1>1, <1>2, <2>4
    <3> QED BY <1>4, <3>1
  <2>8. Held(bs, f, more) BY <2>6, <2>7 DEF Held
  <2>9. Fresh(bs, f, more) BY <2>6, <2>7 DEF Fresh
  <2> QED BY <2>3, <2>5, <2>6, <2>8, <2>9 DEF IntervalIs
<1>11. IntervalIs(cfg, new[buffered + 1], first, number + (buffered + 1) - 1, rest + 1, more, buffered + 1, 0)
  BY <1>6, <1>7, <1>8, <1>9 DEF IntervalIs
<1>12. ASSUME NEW k \in 1 .. buffered + 1
       PROVE  IntervalIs(cfg, new[k], FirstSlot(cfg, number, k), number + k - 1,
                         IF k <= buffered THEN s ELSE rest + 1, more, k, 0)
  <2> HIDE DEF s
  <2>1. CASE k <= buffered
    <3>1. k \in 1 .. buffered BY <2>1
    <3> QED BY <1>10, <2>1, <3>1
  <2>2. CASE k = buffered + 1
    <3>1. ~(k <= buffered) BY <2>2
    <3> QED BY <1>3, <1>11, <2>2, <3>1
  <2> QED BY <2>1, <2>2
<1>14. ASSUME rest + 1 = s PROVE BatchIs(cfg, new, number, buffered + 1, 0, more, 0)
  <2>1. ASSUME NEW k \in 1 .. buffered + 1
        PROVE  IntervalIs(cfg, new[k], FirstSlot(cfg, number, k), number + k - 1,
                          IF k <= buffered + 1 THEN s ELSE 0, more, k, 0)
    <3>1. (IF k <= buffered THEN s ELSE rest + 1) = s /\ (IF k <= buffered + 1 THEN s ELSE 0) = s
      <4> HIDE DEF s
      <4> QED BY <1>14
    <3> HIDE DEF s
    <3> QED BY <1>12, <3>1
  <2>2. Len(new) = (buffered + 1) + 0 OBVIOUS
  <2> QED BY <2>1, <2>2 DEF BatchIs
<1>15. ASSUME rest + 1 # s PROVE BatchIs(cfg, new, number, buffered, rest + 1, more, 0)
  <2>1. rest + 1 # 0 OBVIOUS
  <2> QED BY <1>12, <2>1 DEF BatchIs
<1> QED BY <1>14, <1>15

(* What was sent and solved does not change when another slot comes.         *)
LEMMA SentStays ==
  ASSUME NEW cfg, NEW input \in Seq(CalInput), NEW x \in CalInput, NEW slots, NEW m \in 0 .. Len(input),
         SentIs(cfg, input, slots, m)
  PROVE  SentIs(cfg, Append(input, x), slots, m)
<1>1. \A i \in 1 .. m : (i - 1) + 1 \in 1 .. Len(input) OBVIOUS
<1>2. \A i \in 1 .. m : Append(input, x)[(i - 1) + 1] = input[(i - 1) + 1]
  BY <1>1, AppendedFacts
<1>3. \A i \in 1 .. m : SlotOf(cfg, Append(input, x), i - 1) = SlotOf(cfg, input, i - 1)
  BY <1>2 DEF SlotOf
<1> QED BY <1>3 DEF SentIs

LEMMA SolutionsStay ==
  ASSUME NEW cfg \in CalConfig, NEW input \in Seq(CalInput), NEW x \in CalInput, NEW sols,
         NEW n \in Nat, n * cfg.solint <= Len(input),
         SolutionsAre(cfg, input, Len(input), sols, n)
  PROVE  SolutionsAre(cfg, Append(input, x), Len(input) + 1, sols, n)
<1> DEFINE s == cfg.solint
<1>1. s \in Nat \ {0} BY DEF CalConfig
<1>2. Len(sols) = IF cfg.mode.only_predict THEN 0 ELSE n BY DEF SolutionsAre
<1>3. ASSUME NEW i \in 1 .. Len(sols)
      PROVE  sols[i].data = DataOf(cfg, Append(input, x), i - 1, SizeOf(cfg, Len(input) + 1, i - 1))
  <2>1. i \in Nat \ {0} /\ i <= n BY <1>2
  <2>2. PICK j \in Nat : j = i - 1 BY <2>1
  <2>3. (j + 1) * s <= n * s /\ (j + 1) * s \in Nat /\ (j + 1) * s = j * s + s /\ j * s \in Nat
        /\ n * s \in Nat
    <3>1. j + 1 \in Nat /\ j + 1 <= n BY <2>1, <2>2
    <3> HIDE DEF s
    <3> QED BY <1>1, <3>1, TimesOrder
  <2>4. n * s <= Len(input) OBVIOUS
  <2>5. (j + 1) * s <= Len(input) /\ (j + 1) * s <= Len(input) + 1
    <3> HIDE DEF s
    <3>1. PICK a \in Nat : a = (j + 1) * s BY <2>3
    <3>2. PICK b \in Nat : b = n * s BY <2>3
    <3> QED BY <2>3, <2>4, <3>1, <3>2
  <2>6. SizeOf(cfg, Len(input), j) = s /\ SizeOf(cfg, Len(input) + 1, j) = s BY <2>5 DEF SizeOf
  <2>7. sols[i].data = DataOf(cfg, input, j, s) BY <2>2, <2>6 DEF SolutionsAre
  <2>8. DataOf(cfg, Append(input, x), j, s) = DataOf(cfg, input, j, s)
    <3>1. PICK first \in Nat : first = j * s BY <2>3
    <3>2. first + s <= Len(input)
      <4> HIDE DEF s
      <4> QED BY <1>1, <2>3, <2>5, <3>1
    <3>3. ASSUME NEW t \in 1 .. s
          PROVE  DatumOf(Append(input, x), first + t - 1) = DatumOf(input, first + t - 1)
      <4>1. PICK slot \in Nat : slot = first + t - 1 /\ slot + 1 \in 1 .. Len(input)
        <5> HIDE DEF s
        <5>1. first + t - 1 \in Nat /\ (first + t - 1) + 1 \in 1 .. Len(input) BY <1>1, <3>2
        <5> QED BY <5>1
      <4>2. Append(input, x)[slot + 1] = input[slot + 1] BY <4>1, AppendedFacts
      <4> QED BY <4>1, <4>2 DEF DatumOf
    <3>4. \A t \in 1 .. s : DatumOf(Append(input, x), j * s + t - 1) = DatumOf(input, j * s + t - 1)
      <4> HIDE DEF s
      <4> QED BY <3>1, <3>3
    <3> QED BY <3>4 DEF DataOf
  <2> HIDE DEF s
  <2> QED BY <2>2, <2>6, <2>7, <2>8
<1> QED BY <1>2, <1>3 DEF SolutionsAre

LEMMA OneMorePrediction ==
  ASSUME NEW slots \in Seq(Int), NEW first \in Nat, NEW m \in Nat, PredictionsAre(slots, first, m)
  PROVE  Append(slots, first + m) \in Seq(Int) /\ PredictionsAre(Append(slots, first + m), first, m + 1)
<1>1. PICK e \in Int : e = first + m OBVIOUS
<1>2. Append(slots, e) \in Seq(Int) /\ Len(Append(slots, e)) = Len(slots) + 1
      /\ Append(slots, e)[Len(slots) + 1] = e /\ \A i \in 1 .. Len(slots) : Append(slots, e)[i] = slots[i]
  BY AppendedFacts
<1>3. Len(slots) = m /\ \A i \in 1 .. m : slots[i] = first + i - 1 BY DEF PredictionsAre
<1>4. ASSUME NEW i \in 1 .. m + 1 PROVE Append(slots, e)[i] = first + i - 1
  <2>1. CASE i = m + 1
    <3>1. first + i - 1 = first + m BY <2>1
    <3> QED BY <1>1, <1>2, <1>3, <2>1, <3>1
  <2>2. CASE i # m + 1
    <3>1. i \in 1 .. m BY <2>2
    <3> QED BY <1>2, <1>3, <3>1
  <2> QED BY <2>1, <2>2
<1> QED BY <1>1, <1>2, <1>3, <1>4 DEF PredictionsAre

-----------------------------------------------------------------------------
LEMMA CalProcessInv ==
  ASSUME CalInv, Process
  PROVE  CalInv'
<1>1. /\ step.pc = "process"
      /\ \E flagged, uvwflagged \in BOOLEAN :
          LET opened == Opened
              last == Len(opened)
              current == Len(opened[last].buffers) + 1
              pushed == [opened EXCEPT ![step.buffered + 1].buffers = Append(@, Buffer(fed, flagged))]
              b == Prepared(pushed[last].buffers[current], uvwflagged)
              full == IsFull(pushed[last].buffers)
              buffered == step.buffered + IF full THEN 1 ELSE 0
          IN  Processed([step EXCEPT
                  !.intervals = [pushed EXCEPT ![last].buffers[current] = b],
                  !.vis = Counted(b),
                  !.results = Predicted(fed),
                  !.waiting = IF config.idg THEN Append(@, fed) ELSE @,
                  !.buffered = buffered,
                  !.nsolints = @ + IF full THEN 1 ELSE 0,
                  !.input = Append(@, [flagged |-> flagged, used |-> ~(flagged \/ uvwflagged)]),
                  !.pc = IF buffered = config.count THEN "flush" ELSE "process"])
      /\ UNCHANGED sent
  BY Zenon DEF Process
<1>2. PICK flagged \in BOOLEAN, uvwflagged \in BOOLEAN :
          LET opened == Opened
              last == Len(opened)
              current == Len(opened[last].buffers) + 1
              pushed == [opened EXCEPT ![step.buffered + 1].buffers = Append(@, Buffer(fed, flagged))]
              b == Prepared(pushed[last].buffers[current], uvwflagged)
              full == IsFull(pushed[last].buffers)
              buffered == step.buffered + IF full THEN 1 ELSE 0
          IN  Processed([step EXCEPT
                  !.intervals = [pushed EXCEPT ![last].buffers[current] = b],
                  !.vis = Counted(b),
                  !.results = Predicted(fed),
                  !.waiting = IF config.idg THEN Append(@, fed) ELSE @,
                  !.buffered = buffered,
                  !.nsolints = @ + IF full THEN 1 ELSE 0,
                  !.input = Append(@, [flagged |-> flagged, used |-> ~(flagged \/ uvwflagged)]),
                  !.pc = IF buffered = config.count THEN "flush" ELSE "process"])
  BY <1>1, ZenonT(60)
<1> DEFINE s == config.solint
           first == Number * s
           m == fed - first
           all == step.intervals
           full0 == step.buffered
           rest == Rest
           x == [flagged |-> flagged, used |-> ~(flagged \/ uvwflagged)]
           b0 == Buffer(fed, flagged)
           opened == Opened
           last == Len(opened)
           current == Len(opened[last].buffers) + 1
           pushed == [opened EXCEPT ![step.buffered + 1].buffers = Append(@, b0)]
           b == Prepared(pushed[last].buffers[current], uvwflagged)
           full == IsFull(pushed[last].buffers)
           buffered == step.buffered + IF full THEN 1 ELSE 0
           nsolints == step.nsolints + IF full THEN 1 ELSE 0
           new == [pushed EXCEPT ![last].buffers[current] = b]
           waiting == IF config.idg THEN Append(step.waiting, fed) ELSE step.waiting
           input == Append(step.input, x)
           pc == IF buffered = config.count THEN "flush" ELSE "process"
<1>3. /\ step' = [step EXCEPT !.intervals = new, !.vis = Counted(b), !.results = Predicted(fed),
                              !.waiting = waiting, !.buffered = buffered, !.nsolints = nsolints,
                              !.input = input, !.pc = pc]
      /\ sent' = sent /\ config' = config /\ fed' = fed + 1 /\ finished' = finished
      /\ ~finished /\ fed < config.ntime
  BY <1>1, <1>2, ZenonT(60) DEF Processed, Given
<1>4. CalTypes /\ CalMain BY DEF CalInv
<1>5. /\ config \in CalConfig /\ s \in Nat \ {0} /\ config.ntime \in Nat /\ config.count \in Nat \ {0}
      /\ fed \in Nat /\ step \in CalMembers /\ config.idg \in BOOLEAN
      /\ all \in Seq(CalInterval) /\ full0 \in Nat /\ step.nsolints \in Nat /\ step.waiting \in Seq(Int)
      /\ step.results \in [Directions -> Seq(Int)] /\ step.input \in Seq(CalInput)
      /\ step.vis.used \in Int /\ step.vis.total \in Int /\ sent \in Seq(CalSlot)
  BY <1>4 DEF CalTypes, CalConfig, CalMembers
<1>6. /\ Len(step.input) = fed /\ Number \in Nat /\ rest \in 0 .. s - 1
      /\ BatchIs(config, all, Number, full0, rest, step.input, 0)
      /\ SentIs(config, step.input, sent, first)
      /\ SolutionsAre(config, step.input, fed, step.sols, Number)
      /\ PredictionsAre(step.results[2], first, m)
      /\ config.idg => PredictionsAre(step.waiting, first, m) /\ step.results[1] = <<>>
      /\ ~config.idg => PredictionsAre(step.results[1], first, m) /\ step.waiting = <<>>
      /\ full0 < config.count
  BY <1>1, <1>4 DEF CalMain
<1>7. /\ step.nsolints = Number + full0 /\ first \in Nat /\ m \in Nat /\ first + m = fed
      /\ (Number + full0) * s + rest = fed /\ rest \in Nat /\ rest < s /\ rest + 1 <= s
      /\ (Number + full0) * s \in Nat
  <2>1. step.nsolints = Number + full0 BY <1>5 DEF Number
  <2>2. PICK a \in Nat : a = step.nsolints * s
    <3> HIDE DEF s
    <3> QED BY <1>5
  <2>3. rest = fed - a BY <2>2 DEF Rest
  <2>4. first \in Nat /\ first <= a
    <3>1. Number <= step.nsolints BY <1>5, <1>6, <2>1
    <3> HIDE DEF s
    <3> QED BY <1>5, <1>6, <2>2, <3>1, TimesOrder
  <2>5. rest \in Nat /\ rest < s /\ rest + 1 <= s /\ a + rest = fed
    <3> HIDE DEF s, rest
    <3> QED BY <1>5, <1>6, <2>3
  <2>6. m \in Nat /\ first + m = fed
    <3> HIDE DEF s, rest, first
    <3> QED BY <1>5, <2>4, <2>5
  <2> HIDE DEF s, rest, first, m
  <2> QED BY <2>1, <2>2, <2>4, <2>5, <2>6
<1> DEFINE old == opened[last].buffers
<1>8. /\ opened \in Seq(CalInterval) /\ last = full0 + 1 /\ last \in Nat \ {0}
      /\ \A k \in 1 .. full0 : opened[k] = all[k]
      /\ opened[last].n_solution = Number + full0
      /\ old \in Seq(CalBuffer) /\ Len(old) = rest
      /\ (rest = 0 => old = <<>>) /\ (rest # 0 => old = all[full0 + 1].buffers)
  <2>1. CASE rest = 0
    <3> HIDE DEF rest
    <3>1. Len(all) = full0 BY <1>5, <1>6, <2>1 DEF BatchIs
    <3> DEFINE e == [n_solution |-> step.nsolints, buffers |-> <<>>]
    <3>2. opened = Append(all, e)
      <4>1. CASE all = <<>> BY <4>1 DEF Opened
      <4>2. CASE all # <<>>
        <5>1. Len(all) \in 1 .. Len(all) /\ Len(all) <= full0 BY <1>5, <3>1, <4>2
        <5>2. IntervalIs(config, all[Len(all)], FirstSlot(config, Number, Len(all)),
                         Number + Len(all) - 1, s, step.input, Len(all), 0)
          BY <1>6, <5>1 DEF BatchIs
        <5>3. Len(all[Len(all)].buffers) = s BY <5>2 DEF IntervalIs
        <5> QED BY <4>2, <5>3 DEF Opened
      <4> QED BY <4>1, <4>2
    <3>3. e \in CalInterval /\ e.n_solution = step.nsolints /\ e.buffers = <<>>
      BY <1>5 DEF CalInterval
    <3>4. PICK e0 \in CalInterval : e0 = e BY <3>3
    <3>5. PICK a0 \in Seq(CalInterval) : a0 = all BY <1>5
    <3>6. Append(a0, e0) \in Seq(CalInterval) /\ Len(Append(a0, e0)) = Len(a0) + 1
          /\ Append(a0, e0)[Len(a0) + 1] = e0 /\ \A i \in 1 .. Len(a0) : Append(a0, e0)[i] = a0[i]
      BY AppendedFacts
    <3> HIDE DEF e, opened
    <3>7. opened = Append(a0, e0) /\ Len(a0) = full0 BY <3>1, <3>2, <3>4, <3>5
    <3>8. last = full0 + 1 BY <3>6, <3>7
    <3> HIDE DEF last, full0, all
    <3>9. opened[last] = e0 BY <3>6, <3>7, <3>8
    <3>10. old = <<>> /\ old \in Seq(CalBuffer) /\ Len(old) = 0
      <4>1. old = <<>> BY <3>3, <3>4, <3>9
      <4> HIDE DEF old
      <4> QED BY <4>1
    <3>11. opened \in Seq(CalInterval) /\ last \in Nat \ {0} BY <1>5, <3>6, <3>7, <3>8
    <3>12. \A k \in 1 .. full0 : opened[k] = all[k] BY <3>5, <3>6, <3>7
    <3>13. opened[last].n_solution = Number + full0 BY <1>7, <3>3, <3>4, <3>9
    <3> HIDE DEF old
    <3> QED BY <2>1, <3>8, <3>10, <3>11, <3>12, <3>13
  <2>2. CASE rest # 0
    <3> HIDE DEF rest
    <3>1. Len(all) = full0 + 1 /\ full0 + 1 \in 1 .. Len(all) /\ ~(full0 + 1 <= full0)
          /\ full0 + 1 > 0
      <4>1. Len(all) = full0 + IF rest = 0 THEN 0 ELSE 1 BY <1>6 DEF BatchIs
      <4>2. full0 \in Nat BY <1>5
      <4> HIDE DEF all, full0
      <4> QED BY <2>2, <4>1, <4>2
    <3>2. IntervalIs(config, all[full0 + 1], FirstSlot(config, Number, full0 + 1),
                     Number + (full0 + 1) - 1, rest, step.input, full0 + 1, 0)
      BY <1>6, <3>1 DEF BatchIs
    <3>3. Len(all[full0 + 1].buffers) = rest /\ all[full0 + 1].n_solution = Number + (full0 + 1) - 1
      BY <3>2 DEF IntervalIs
    <3>4. all # <<>> /\ rest # s
      <4>1. full0 \in Nat /\ rest \in Nat /\ rest < s /\ s \in Nat BY <1>5, <1>7
      <4>2. Len(all) = full0 + 1 BY <3>1
      <4> HIDE DEF s, all, full0
      <4> QED BY <4>1, <4>2
    <3>5. opened = all
      <4>1. ~(all = <<>> \/ Len(all[Len(all)].buffers) = config.solint) BY <3>1, <3>3, <3>4
      <4> QED BY <4>1 DEF Opened
    <3> HIDE DEF opened
    <3>6. last = full0 + 1 /\ old = all[full0 + 1].buffers BY <3>1, <3>5
    <3>7. all[full0 + 1] \in CalInterval BY <1>5, <3>1
    <3>8. old \in Seq(CalBuffer) BY <3>6, <3>7 DEF CalInterval
    <3>9. Number + (full0 + 1) - 1 = Number + full0
      <4>1. full0 \in Nat BY <1>5
      <4>2. Number \in Nat BY <1>6, Zenon
      <4> HIDE DEF full0
      <4> QED BY <4>1, <4>2
    <3> HIDE DEF old, last, full0
    <3> QED BY <1>5, <2>2, <3>3, <3>5, <3>6, <3>8, <3>9
  <2> QED BY <2>1, <2>2
<1>9. b0 \in CalBuffer /\ x \in CalInput
  BY <1>5 DEF Buffer, CalBuffer, CalInput, Minus
<1> DEFINE more == Append(old, b0)
<1>10. /\ more \in Seq(CalBuffer) /\ Len(more) = rest + 1 /\ more[rest + 1] = b0
       /\ \A t \in 1 .. rest : more[t] = old[t]
  <2> HIDE DEF old, b0, rest
  <2>1. PICK o \in Seq(CalBuffer) : o = old BY <1>8
  <2>2. PICK e \in CalBuffer : e = b0 BY <1>9
  <2>3. Append(o, e) \in Seq(CalBuffer) /\ Len(Append(o, e)) = Len(o) + 1
        /\ Append(o, e)[Len(o) + 1] = e /\ \A i \in 1 .. Len(o) : Append(o, e)[i] = o[i]
    BY AppendedFacts
  <2>4. Len(o) = rest /\ more = Append(o, e) BY <1>8, <2>1, <2>2
  <2> QED BY <2>1, <2>2, <2>3, <2>4, Zenon
<1>11. /\ pushed \in Seq(CalInterval) /\ Len(pushed) = last
       /\ \A k \in 1 .. full0 : pushed[k] = all[k]
       /\ pushed[last].n_solution = Number + full0 /\ pushed[last].buffers = more
       /\ pushed[last] \in CalInterval
  <2>1. pushed = [opened EXCEPT ![last] = [@ EXCEPT !.buffers = more]]
    BY <1>8
  <2> HIDE DEF more, old, pushed, b0, rest, full0, all
  <2>2. PICK o \in Seq(CalInterval) : o = opened BY <1>8
  <2>3. PICK n \in Nat \ {0} : n = last BY <1>8
  <2>4. Len(o) = n /\ n \in 1 .. Len(o) /\ n = full0 + 1 BY <1>8, <2>2, <2>3
  <2>5. PICK bs \in Seq(CalBuffer) : bs = more BY <1>10
  <2>6. PICK e \in CalInterval : e = o[n] BY <2>4
  <2>7. [e EXCEPT !.buffers = bs] \in CalInterval /\ [e EXCEPT !.buffers = bs].buffers = bs
        /\ [e EXCEPT !.buffers = bs].n_solution = e.n_solution
    BY DEF CalInterval
  <2>8. PICK e2 \in CalInterval : e2 = [e EXCEPT !.buffers = bs] BY <2>7
  <2>9. pushed = [o EXCEPT ![n] = e2] BY <2>1, <2>2, <2>3, <2>5, <2>6, <2>8
  <2>10. [o EXCEPT ![n] = e2] \in Seq(CalInterval) /\ Len([o EXCEPT ![n] = e2]) = Len(o)
         /\ [o EXCEPT ![n] = e2][n] = e2 /\ \A k \in 1 .. Len(o) : k # n => [o EXCEPT ![n] = e2][k] = o[k]
    BY <2>4
  <2>11. e.n_solution = Number + full0 BY <1>8, <2>2, <2>3, <2>6
  <2> HIDE DEF last, opened
  <2>12. pushed \in Seq(CalInterval) /\ Len(pushed) = last BY <2>3, <2>4, <2>9, <2>10
  <2>13. pushed[last] = e2 BY <2>3, <2>9, <2>10
  <2>14. \A k \in 1 .. full0 : pushed[k] = all[k]
    <3>1. ASSUME NEW k \in 1 .. full0 PROVE pushed[k] = all[k]
      <4>1. k \in 1 .. Len(o) /\ k # n BY <1>5, <2>4, SMTT(60) DEF full0
      <4> QED BY <1>8, <2>2, <2>9, <2>10, <4>1
    <3> QED BY <3>1
  <2> QED BY <2>5, <2>7, <2>8, <2>11, <2>12, <2>13, <2>14
<1>12. /\ current = rest + 1 /\ pushed[last].buffers[current] = b0 /\ b = Prepared(b0, uvwflagged)
       /\ (full <=> rest + 1 = s)
  <2>1. current = rest + 1 BY <1>8
  <2>2. pushed[last].buffers = more BY <1>11
  <2> HIDE DEF more, old, pushed, rest, current, last, opened, b0
  <2>3. pushed[last].buffers[current] = b0 BY <1>10, <2>1, <2>2
  <2>4. full <=> rest + 1 = s BY <1>10, <2>2 DEF IsFull
  <2> QED BY <2>1, <2>3, <2>4
<1>13. /\ b \in CalBuffer /\ b.slot = fed /\ b.original = x.flagged /\ b.minus = <<>>
       /\ b.weight = IF x.used THEN 1 ELSE 0
  <2>1. b = Prepared(b0, uvwflagged) BY <1>12
  <2>2. b0 \in CalBuffer /\ b0.slot = fed /\ b0.flagged = flagged /\ b0.original = flagged /\ b0.minus = <<>>
    BY <1>9 DEF Buffer
  <2>3. PICK e \in CalBuffer : e = b0 BY <2>2
  <2>4. PICK g \in BOOLEAN : g = (e.flagged \/ uvwflagged) BY DEF CalBuffer
  <2>5. PICK w \in Int : w = IF g THEN 0 ELSE 1 OBVIOUS
  <2>6. [e EXCEPT !.flagged = g, !.weight = w] \in CalBuffer
        /\ [e EXCEPT !.flagged = g, !.weight = w].slot = e.slot
        /\ [e EXCEPT !.flagged = g, !.weight = w].original = e.original
        /\ [e EXCEPT !.flagged = g, !.weight = w].minus = e.minus
        /\ [e EXCEPT !.flagged = g, !.weight = w].weight = w
    BY DEF CalBuffer
  <2> HIDE DEF b, b0
  <2>7. b = [e EXCEPT !.flagged = g, !.weight = w]
    BY <2>1, <2>3, <2>4, <2>5 DEF Prepared
  <2>8. x.flagged = flagged /\ x.used = ~(flagged \/ uvwflagged) OBVIOUS
  <2>9. w = IF x.used THEN 1 ELSE 0 BY <2>2, <2>3, <2>4, <2>5, <2>8
  <2> HIDE DEF x
  <2> QED BY <2>2, <2>3, <2>6, <2>7, <2>8, <2>9
<1>14. /\ new \in Seq(CalInterval) /\ Len(new) = full0 + 1
       /\ \A k \in 1 .. full0 : new[k] = all[k]
       /\ new[full0 + 1].n_solution = Number + full0 /\ new[full0 + 1].buffers = Append(old, b)
  <2>1. new = [pushed EXCEPT ![last] = [pushed[last] EXCEPT !.buffers = [pushed[last].buffers EXCEPT ![rest + 1] = b]]]
    <3>1. new = [pushed EXCEPT ![last].buffers[rest + 1] = b] BY <1>12
    <3> HIDE DEF pushed, last, b, rest, new
    <3> QED BY <3>1
  <2> HIDE DEF more, old, pushed, b0, b, new, rest, full0, all, last, opened
  <2>2. PICK o \in Seq(CalInterval) : o = pushed BY <1>11
  <2>3. PICK n \in Nat \ {0} : n = last BY <1>8
  <2>4. Len(o) = n /\ n \in 1 .. Len(o) /\ n = full0 + 1 BY <1>8, <1>11, <2>2, <2>3
  <2>5. PICK e \in CalInterval : e = o[n] BY <2>4
  <2>6. e.n_solution = Number + full0 /\ e.buffers = more BY <1>11, <2>2, <2>3, <2>5
  <2>7. [more EXCEPT ![rest + 1] = b] = Append(old, b) /\ Append(old, b) \in Seq(CalBuffer)
    <3>1. PICK oo \in Seq(CalBuffer) : oo = old BY <1>8
    <3>2. PICK bb \in CalBuffer : bb = b BY <1>13
    <3>3. Append(oo, bb) \in Seq(CalBuffer) /\ Len(Append(oo, bb)) = Len(oo) + 1
          /\ Append(oo, bb)[Len(oo) + 1] = bb
          /\ \A i \in 1 .. Len(oo) : Append(oo, bb)[i] = oo[i]
      BY AppendedFacts
    <3>4. PICK mm \in Seq(CalBuffer) : mm = more BY <1>10
    <3>5. PICK r \in Nat : r = rest BY <1>7
    <3>6. Len(oo) = r /\ Len(mm) = r + 1 /\ \A t \in 1 .. r : mm[t] = oo[t]
      BY <1>8, <1>10, <3>1, <3>4, <3>5
    <3>7. [mm EXCEPT ![r + 1] = bb] \in Seq(CalBuffer) /\ Len([mm EXCEPT ![r + 1] = bb]) = r + 1
          /\ \A t \in 1 .. r + 1 : [mm EXCEPT ![r + 1] = bb][t] = IF t = r + 1 THEN bb ELSE mm[t]
      BY <3>6
    <3>8. \A t \in 1 .. r + 1 : [mm EXCEPT ![r + 1] = bb][t] = Append(oo, bb)[t]
      BY <3>3, <3>6, <3>7
    <3>9. [mm EXCEPT ![r + 1] = bb] = Append(oo, bb)
      <4>1. PICK s1 \in Seq(CalBuffer) : s1 = [mm EXCEPT ![r + 1] = bb] BY <3>7
      <4>2. PICK s2 \in Seq(CalBuffer) : s2 = Append(oo, bb) BY <3>3
      <4>3. Len(s1) = r + 1 /\ Len(s2) = r + 1 /\ \A t \in 1 .. r + 1 : s1[t] = s2[t]
        BY <3>3, <3>6, <3>7, <3>8, <4>1, <4>2
      <4>4. s1 = s2 BY <4>3
      <4> QED BY <4>1, <4>2, <4>4
    <3> QED BY <3>1, <3>2, <3>3, <3>4, <3>5, <3>9
  <2>8. PICK bs \in Seq(CalBuffer) : bs = Append(old, b) BY <2>7
  <2>9. [e EXCEPT !.buffers = bs] \in CalInterval /\ [e EXCEPT !.buffers = bs].buffers = bs
        /\ [e EXCEPT !.buffers = bs].n_solution = e.n_solution
    BY DEF CalInterval
  <2>10. PICK e2 \in CalInterval : e2 = [e EXCEPT !.buffers = bs] BY <2>9
  <2>11. new = [o EXCEPT ![n] = e2]
    <3>1. [e EXCEPT !.buffers = [e.buffers EXCEPT ![rest + 1] = b]] = e2
      BY <2>6, <2>7, <2>8, <2>10
    <3>2. pushed[last] = e BY <2>2, <2>3, <2>5
    <3> QED BY <2>1, <2>2, <2>3, <3>1, <3>2
  <2>12. [o EXCEPT ![n] = e2] \in Seq(CalInterval) /\ Len([o EXCEPT ![n] = e2]) = Len(o)
         /\ [o EXCEPT ![n] = e2][n] = e2 /\ \A k \in 1 .. Len(o) : k # n => [o EXCEPT ![n] = e2][k] = o[k]
    BY <2>4
  <2>13. new \in Seq(CalInterval) /\ Len(new) = full0 + 1 /\ new[full0 + 1] = e2
    BY <2>4, <2>11, <2>12
  <2>14. ASSUME NEW k \in 1 .. full0 PROVE new[k] = all[k]
    <3>1. k \in 1 .. Len(o) /\ k # n BY <1>5, <2>4, SMTT(60) DEF full0
    <3> QED BY <1>11, <2>2, <2>11, <2>12, <3>1
  <2> QED BY <2>6, <2>8, <2>9, <2>10, <2>13, <2>14
<1>15. /\ full => BatchIs(config, new, Number, full0 + 1, 0, input, 0)
       /\ ~full => BatchIs(config, new, Number, full0, rest + 1, input, 0)
  <2> HIDE DEF old, b, new, rest, x, input, full, pushed, last, opened, more, b0, first, m
  <2>1. PICK cfg \in CalConfig : cfg = config BY <1>5
  <2>2. PICK a0 \in Seq(CalInterval) : a0 = all BY <1>5
  <2>3. PICK a1 \in Seq(CalInterval) : a1 = new BY <1>14
  <2>4. PICK n \in Nat : n = Number BY <1>6
  <2>5. PICK u \in Nat : u = full0 BY <1>5
  <2>6. PICK r \in Nat : r = rest BY <1>7
  <2>7. PICK i0 \in Seq(CalInput) : i0 = step.input BY <1>5
  <2>8. PICK x0 \in CalInput : x0 = x BY <1>9
  <2>10. PICK o \in Seq(CalBuffer) : o = old BY <1>8
  <2>11. PICK e \in CalBuffer : e = b BY <1>13
  <2>12. r < cfg.solint /\ Len(i0) = (n + u) * cfg.solint + r
    <3>1. Len(i0) = fed /\ (n + u) * cfg.solint = (Number + full0) * s
      BY <1>6, <2>1, <2>4, <2>5, <2>7
    <3> QED BY <1>7, <2>1, <2>6, <3>1
  <2>13. BatchIs(cfg, a0, n, u, r, i0, 0) BY <1>6, <2>1, <2>2, <2>4, <2>5, <2>6, <2>7
  <2>14. /\ e.slot = Len(i0) /\ e.original = x0.flagged /\ e.minus = <<>>
         /\ e.weight = IF x0.used THEN 1 ELSE 0
    BY <1>6, <1>13, <2>7, <2>8, <2>11
  <2>15. (r = 0 => o = <<>>) /\ (r # 0 => o = a0[u + 1].buffers)
    BY <1>8, <2>2, <2>5, <2>6, <2>10
  <2>16. /\ Len(a1) = u + 1 /\ \A k \in 1 .. u : a1[k] = a0[k]
         /\ a1[u + 1].n_solution = n + u /\ a1[u + 1].buffers = Append(o, e)
    BY <1>14, <2>2, <2>3, <2>4, <2>5, <2>10, <2>11
  <2>9. OneSlotMore(cfg, a0, a1, n, u, r, i0, x0, o, e)
    BY <2>12, <2>13, <2>14, <2>15, <2>16, Zenon DEF OneSlotMore
  <2>17. /\ r + 1 = cfg.solint => BatchIs(cfg, a1, n, u + 1, 0, Append(i0, x0), 0)
         /\ r + 1 # cfg.solint => BatchIs(cfg, a1, n, u, r + 1, Append(i0, x0), 0)
    BY <2>9, BatchGrows
  <2>18. Append(i0, x0) = input BY <2>7, <2>8 DEF input
  <2>19. full <=> r + 1 = cfg.solint BY <1>12, <2>1, <2>6
  <2> QED BY <2>1, <2>3, <2>4, <2>5, <2>6, <2>17, <2>18, <2>19
<1>16. /\ input \in Seq(CalInput) /\ Len(input) = fed + 1
       /\ SentIs(config, input, sent, first)
       /\ SolutionsAre(config, input, fed + 1, step.sols, Number)
  <2> HIDE DEF x, first, m, rest
  <2>1. PICK i0 \in Seq(CalInput) : i0 = step.input BY <1>5
  <2>2. PICK x0 \in CalInput : x0 = x BY <1>9
  <2>3. Append(i0, x0) \in Seq(CalInput) /\ Len(Append(i0, x0)) = Len(i0) + 1 BY AppendedFacts
  <2>4. input = Append(i0, x0) /\ Len(i0) = fed BY <1>6, <2>1, <2>2
  <2>5. SentIs(config, Append(i0, x0), sent, first)
    <3>1. first \in 0 .. Len(i0) BY <1>7, <2>4
    <3>2. SentIs(config, i0, sent, first) BY <1>6, <2>1
    <3> QED BY <3>1, <3>2, SentStays
  <2>6. SolutionsAre(config, Append(i0, x0), Len(i0) + 1, step.sols, Number)
    <3>1. PICK n \in Nat : n = Number BY <1>6
    <3>2. PICK cfg \in CalConfig : cfg = config BY <1>5
    <3>3. n * cfg.solint <= Len(i0)
      <4>1. n * cfg.solint = first BY <3>1, <3>2 DEF first
      <4> QED BY <1>5, <1>7, <2>4, <4>1
    <3>4. SolutionsAre(cfg, i0, Len(i0), step.sols, n) BY <1>6, <2>1, <2>4, <3>1, <3>2
    <3>5. SolutionsAre(cfg, Append(i0, x0), Len(i0) + 1, step.sols, n) BY <3>3, <3>4, SolutionsStay
    <3> QED BY <3>1, <3>2, <3>5
  <2> HIDE DEF input
  <2> QED BY <2>3, <2>4, <2>5, <2>6
<1> DEFINE results == Predicted(fed)
<1>17. /\ results \in [Directions -> Seq(Int)] /\ waiting \in Seq(Int)
       /\ PredictionsAre(results[2], first, m + 1)
       /\ config.idg => PredictionsAre(waiting, first, m + 1) /\ results[1] = <<>>
       /\ ~config.idg => PredictionsAre(results[1], first, m + 1) /\ waiting = <<>>
  <2>1. 1 \in Directions /\ 2 \in Directions /\ \A d \in Directions : d = 1 \/ d = 2 BY DEF Directions
  <2>2. results = [d \in Directions |->
          IF d = 1 /\ config.idg THEN step.results[d] ELSE Append(step.results[d], fed)]
    BY DEF Predicted
  <2>3. results[2] = Append(step.results[2], fed)
        /\ results[1] = IF config.idg THEN step.results[1] ELSE Append(step.results[1], fed)
    BY <2>1, <2>2
  <2>4. step.results[1] \in Seq(Int) /\ step.results[2] \in Seq(Int) BY <1>5, <2>1
  <2> HIDE DEF first, m, rest
  <2>5. \A slots \in Seq(Int) : PredictionsAre(slots, first, m)
            => Append(slots, fed) \in Seq(Int) /\ PredictionsAre(Append(slots, fed), first, m + 1)
    <3> SUFFICES ASSUME NEW slots \in Seq(Int), PredictionsAre(slots, first, m)
                 PROVE  Append(slots, fed) \in Seq(Int) /\ PredictionsAre(Append(slots, fed), first, m + 1)
      OBVIOUS
    <3>1. PICK f \in Nat : f = first BY <1>7
    <3>2. PICK k \in Nat : k = m BY <1>7
    <3>3. Append(slots, f + k) \in Seq(Int) /\ PredictionsAre(Append(slots, f + k), f, k + 1)
      BY <3>1, <3>2, OneMorePrediction
    <3>4. f + k = fed BY <1>7, <3>1, <3>2
    <3> QED BY <3>1, <3>2, <3>3, <3>4
  <2>6. PredictionsAre(results[2], first, m + 1) /\ results[2] \in Seq(Int)
    BY <1>6, <2>3, <2>4, <2>5
  <2>7. config.idg => PredictionsAre(waiting, first, m + 1) /\ results[1] = <<>>
                      /\ waiting \in Seq(Int) /\ results[1] \in Seq(Int)
    <3> SUFFICES ASSUME config.idg
                 PROVE  PredictionsAre(waiting, first, m + 1) /\ results[1] = <<>>
                        /\ waiting \in Seq(Int) /\ results[1] \in Seq(Int)
      OBVIOUS
    <3>1. waiting = Append(step.waiting, fed) /\ results[1] = <<>> BY <1>6, <2>3
    <3> HIDE DEF waiting, results
    <3> QED BY <1>5, <1>6, <2>5, <3>1
  <2>8. ~config.idg => PredictionsAre(results[1], first, m + 1) /\ waiting = <<>>
                       /\ waiting \in Seq(Int) /\ results[1] \in Seq(Int)
    <3> SUFFICES ASSUME ~config.idg
                 PROVE  PredictionsAre(results[1], first, m + 1) /\ waiting = <<>>
                        /\ waiting \in Seq(Int) /\ results[1] \in Seq(Int)
      OBVIOUS
    <3>1. waiting = <<>> /\ results[1] = Append(step.results[1], fed) BY <1>6, <2>3
    <3> HIDE DEF waiting, results
    <3> QED BY <1>5, <1>6, <2>4, <2>5, <3>1
  <2>9. \A d \in Directions : results[d] \in Seq(Int) BY <1>5, <2>1, <2>6, <2>7, <2>8
  <2>10. results \in [Directions -> Seq(Int)]
    <3>1. results = [d \in Directions |-> results[d]] BY <2>2
    <3> HIDE DEF results
    <3> QED BY <2>9, <3>1
  <2> HIDE DEF results, waiting
  <2> QED BY <1>5, <2>6, <2>7, <2>8, <2>10
<1>18. Counted(b) \in [used : Int, total : Int]
  <2>1. b.flagged \in BOOLEAN BY <1>13 DEF CalBuffer
  <2> HIDE DEF b
  <2>2. PICK k \in Int : k = IF b.flagged THEN 0 ELSE 1 OBVIOUS
  <2>3. Counted(b) = [used |-> step.vis.used + k, total |-> step.vis.total + 1]
    BY <2>2 DEF Counted
  <2>4. step.vis.used \in Int /\ step.vis.total \in Int BY <1>5
  <2> QED BY <2>3, <2>4
<1>19. /\ buffered \in Nat /\ nsolints \in Nat
       /\ full => buffered = full0 + 1 /\ nsolints = step.nsolints + 1
       /\ ~full => buffered = full0 /\ nsolints = step.nsolints
       /\ nsolints - buffered = Number
       /\ fed + 1 - nsolints * s = IF full THEN 0 ELSE rest + 1
       /\ buffered <= config.count /\ (buffered = config.count => full)
       /\ (IF full THEN 0 ELSE rest + 1) \in 0 .. s - 1
  <2>1. /\ full => buffered = full0 + 1 /\ nsolints = step.nsolints + 1
        /\ ~full => buffered = full0 + 0 /\ nsolints = step.nsolints + 0
    OBVIOUS
  <2> HIDE DEF full, buffered, nsolints, s, first, m, rest
  <2>2. /\ full => buffered = full0 + 1 /\ nsolints = step.nsolints + 1
        /\ ~full => buffered = full0 /\ nsolints = step.nsolints
    BY <1>5, <2>1
  <2>3. PICK a \in Nat : a = step.nsolints * s /\ fed = a + rest
    <3>1. step.nsolints * s = (Number + full0) * s BY <1>7
    <3>2. PICK a \in Nat : a = (Number + full0) * s BY <1>7
    <3> QED BY <1>7, <3>1, <3>2
  <2>4. (step.nsolints + 1) * s = a + s BY <1>5, <2>3
  <2>5. fed + 1 - nsolints * s = IF full THEN 0 ELSE rest + 1
    <3>1. CASE full
      <4>1. rest + 1 = s BY <1>12, <3>1
      <4>2. nsolints * s = a + s BY <2>2, <2>4, <3>1
      <4>3. PICK p \in Int : p = nsolints * s BY <1>5, <2>3, <4>2
      <4>4. fed + 1 - p = 0
        <5>1. p = a + s BY <4>2, <4>3
        <5>2. fed = a + rest BY <2>3
        <5>3. s \in Nat /\ rest \in Nat BY <1>5, <1>7
        <5> QED BY <4>1, <5>1, <5>2, <5>3
      <4> QED BY <3>1, <4>3, <4>4
    <3>2. CASE ~full
      <4>1. nsolints * s = a BY <2>2, <2>3, <3>2
      <4>2. PICK p \in Int : p = nsolints * s BY <1>5, <2>3, <4>1
      <4>3. fed + 1 - p = rest + 1 BY <1>5, <1>7, <2>3, <4>1, <4>2
      <4> QED BY <3>2, <4>2, <4>3
    <3> QED BY <3>1, <3>2
  <2>6. nsolints - buffered = Number /\ buffered \in Nat /\ nsolints \in Nat
    <3>1. step.nsolints = Number + full0 BY <1>7
    <3>2. Number \in Nat /\ full0 \in Nat /\ step.nsolints \in Nat BY <1>5, <1>6
    <3> HIDE DEF full0
    <3>3. CASE full BY <2>2, <3>1, <3>2, <3>3
    <3>4. CASE ~full BY <2>2, <3>1, <3>2, <3>4
    <3> QED BY <3>3, <3>4
  <2>7. buffered <= config.count /\ (buffered = config.count => full) BY <1>5, <1>6, <2>2
  <2>8. (IF full THEN 0 ELSE rest + 1) \in 0 .. s - 1
    <3>1. (full <=> rest + 1 = s) /\ s \in Nat \ {0} /\ rest \in Nat /\ rest < s BY <1>5, <1>7, <1>12
    <3> QED BY <3>1
  <2> QED BY <2>2, <2>5, <2>6, <2>7, <2>8
<1> HIDE DEF x, b0, opened, last, current, pushed, b, full, buffered, nsolints, new, waiting, input, pc,
             results, old, more, rest
<1>20. pc \in {"flush", "process"} /\ (pc = "flush" <=> buffered = config.count) BY DEF pc
<1>21. /\ step'.intervals = new /\ step'.results = results /\ step'.waiting = waiting
       /\ step'.buffered = buffered /\ step'.nsolints = nsolints /\ step'.input = input
       /\ step'.pc = pc /\ step'.sols = step.sols /\ step' \in CalMembers
  <2>1. step' = [step EXCEPT !.intervals = new, !.vis = Counted(b), !.results = results,
                             !.waiting = waiting, !.buffered = buffered, !.nsolints = nsolints,
                             !.input = input, !.pc = pc]
    BY <1>3 DEF results
  <2> QED BY <1>5, <1>14, <1>16, <1>17, <1>18, <1>19, <1>20, <2>1 DEF CalMembers
<1>22. CalTypes'
  <2>1. fed' \in 0 .. config'.ntime BY <1>3, <1>5
  <2> QED BY <1>3, <1>4, <1>21, <2>1 DEF CalTypes
<1>23. Number' = Number /\ Rest' = (IF full THEN 0 ELSE rest + 1) /\ config' = config
  <2>1. Number' = nsolints - buffered BY <1>21 DEF Number
  <2>2. Rest' = fed + 1 - nsolints * s
    <3>1. Rest' = fed' - step'.nsolints * config'.solint BY DEF Rest
    <3>2. fed' - step'.nsolints * config'.solint = (fed + 1) - nsolints * s BY <1>3, <1>21
    <3>3. PICK p : p = nsolints * s OBVIOUS
    <3>4. p \in Int
      <4> HIDE DEF s
      <4> QED BY <1>5, <1>19, <3>3
    <3>5. (fed + 1) - p = fed + 1 - p BY <1>5, <3>4
    <3> QED BY <3>1, <3>2, <3>3, <3>5, Zenon
  <2> QED BY <1>3, <1>19, <2>1, <2>2
<1>24. BatchIs(config, step.intervals, Number, step.buffered, Rest, step.input, 0)'
  <2>1. BatchIs(config, new, Number, buffered, IF full THEN 0 ELSE rest + 1, input, 0)
    BY <1>15, <1>19
  <2> QED BY <1>21, <1>23, <2>1
<1>25. CalMain'
  <2>1. Len(step'.input) = fed' /\ Number' \in Nat /\ Rest' \in 0 .. config'.solint - 1
        /\ ~finished'
    BY <1>3, <1>6, <1>16, <1>19, <1>21, <1>23
  <2>2. fed' - Number' * config'.solint = m + 1 /\ Number' * config'.solint = first
    <3>1. Number' * config'.solint = first BY <1>23
    <3> HIDE DEF first, m
    <3> QED BY <1>3, <1>5, <1>7, <3>1
  <2>3. SentIs(config, step.input, sent, Number * config.solint)'
    <3> HIDE DEF first
    <3> QED BY <1>3, <1>16, <1>21, <2>2
  <2>4. SolutionsAre(config, step.input, fed, step.sols, Number)' BY <1>3, <1>16, <1>21, <1>23
  <2>5. step'.pc \in {"flush", "process"} BY <1>20, <1>21
  <2>6. step'.pc = "process" => step'.buffered < config'.count
    BY <1>5, <1>19, <1>20, <1>21, <1>23
  <2>7. step'.pc = "flush" => Rest' = 0 BY <1>19, <1>20, <1>21, <1>23
  <2>8. /\ PredictionsAre(step.results[2], Number * config.solint, fed - Number * config.solint)'
        /\ config'.idg => PredictionsAre(step.waiting, Number * config.solint, fed - Number * config.solint)'
                          /\ step'.results[1] = <<>>
        /\ ~config'.idg => PredictionsAre(step.results[1], Number * config.solint, fed - Number * config.solint)'
                          /\ step'.waiting = <<>>
    <3>1. config' = config /\ step'.results = results /\ step'.waiting = waiting BY <1>3, <1>21
    <3> HIDE DEF first, m
    <3> QED BY <1>17, <2>2, <3>1
  <2> QED BY <1>24, <2>1, <2>3, <2>4, <2>5, <2>6, <2>7, <2>8 DEF CalMain
<1> QED BY <1>22, <1>25 DEF CalInv
-----------------------------------------------------------------------------
(* What the inductive invariant says of the members and of the slots.        *)
LEMMA CalFacts ==
  ASSUME CalInv
  PROVE  /\ config \in CalConfig /\ config.solint \in Nat \ {0} /\ config.count \in Nat \ {0}
         /\ fed \in Nat /\ finished \in BOOLEAN /\ sent \in Seq(CalSlot) /\ step \in CalMembers
         /\ step.intervals \in Seq(CalInterval) /\ step.buffered \in Nat /\ step.nsolints \in Nat
         /\ step.waiting \in Seq(Int) /\ step.results \in [Directions -> Seq(Int)] /\ step.at \in Nat
         /\ step.sols \in Seq(CalSolution) /\ step.input \in Seq(CalInput)
         /\ step.vis.used \in Int /\ step.vis.total \in Int
         /\ Len(step.input) = fed
         /\ Number \in Nat /\ step.nsolints = Number + step.buffered
         /\ Number * config.solint \in Nat /\ fed - Number * config.solint \in Nat
         /\ (Number + step.buffered) * config.solint \in Nat
         /\ (Number + step.buffered) * config.solint + Rest = fed
         /\ Rest \in Nat /\ Rest < config.solint
<1> DEFINE s == config.solint
           rest == Rest
           first == Number * s
<1>1. CalTypes /\ CalMain BY DEF CalInv
<1>2. /\ config \in CalConfig /\ s \in Nat \ {0} /\ config.count \in Nat \ {0} /\ config.ntime \in Nat
      /\ fed \in Nat /\ finished \in BOOLEAN /\ sent \in Seq(CalSlot) /\ step \in CalMembers
      /\ step.intervals \in Seq(CalInterval) /\ step.buffered \in Nat /\ step.nsolints \in Nat
      /\ step.waiting \in Seq(Int) /\ step.results \in [Directions -> Seq(Int)] /\ step.at \in Nat
      /\ step.sols \in Seq(CalSolution) /\ step.input \in Seq(CalInput)
      /\ step.vis.used \in Int /\ step.vis.total \in Int
  BY <1>1 DEF CalTypes, CalConfig, CalMembers
<1>3. Len(step.input) = fed /\ Number \in Nat /\ rest \in 0 .. s - 1 BY <1>1 DEF CalMain
<1>4. step.nsolints = Number + step.buffered BY <1>2 DEF Number
<1>5. PICK a \in Nat : a = step.nsolints * s
  <2> HIDE DEF s
  <2> QED BY <1>2
<1>6. rest = fed - a BY <1>5 DEF Rest
<1>7. first \in Nat /\ first <= a
  <2>1. Number <= step.nsolints BY <1>2, <1>3, <1>4
  <2> HIDE DEF s
  <2> QED BY <1>2, <1>3, <1>5, <2>1, TimesOrder
<1>8. rest \in Nat /\ rest < s /\ a + rest = fed
  <2> HIDE DEF s, rest
  <2> QED BY <1>2, <1>3, <1>6
<1>9. fed - first \in Nat
  <2> HIDE DEF s, rest, first
  <2> QED BY <1>2, <1>7, <1>8
<1>10. (Number + step.buffered) * s = a BY <1>4, <1>5
<1> HIDE DEF s, rest, first
<1> QED BY <1>2, <1>3, <1>4, <1>7, <1>8, <1>9, <1>10 DEF s, rest, first

(* The slots of an interval of the batch were given; those and no more.      *)
LEMMA SlotsAreGiven ==
  ASSUME NEW cfg \in CalConfig, NEW number \in Nat, NEW buffered \in Nat, NEW rest \in Nat,
         NEW given \in Nat, rest < cfg.solint, (number + buffered) * cfg.solint + rest = given,
         NEW k \in 1 .. buffered + 1
  PROVE  LET size == IF k <= buffered THEN cfg.solint ELSE rest
         IN  /\ FirstSlot(cfg, number, k) + size <= given
             /\ k = buffered + 1 => FirstSlot(cfg, number, k) + rest = given
             /\ SizeOf(cfg, given, number + k - 1) = size
             /\ size \in 0 .. cfg.solint
<1> DEFINE s == cfg.solint
           size == IF k <= buffered THEN s ELSE rest
<1>1. s \in Nat \ {0} BY DEF CalConfig
<1>2. PICK a \in Nat : a = (number + buffered) * s
  <2> HIDE DEF s
  <2> QED BY <1>1
<1>3. PICK f \in Nat : f = FirstSlot(cfg, number, k)
  <2>1. k \in Nat \ {0} OBVIOUS
  <2>2. FirstSlot(cfg, number, k) \in Nat BY <2>1, FirstSlots
  <2> QED BY <2>2
<1>4. f = (number + k - 1) * s BY <1>3 DEF FirstSlot
<1>5. (number + k - 1 + 1) * s = f + s
  <2>1. PICK n \in Nat : n = number + k - 1 OBVIOUS
  <2>2. f = n * s BY <1>4, <2>1
  <2>3. (n + 1) * s = n * s + s
    <3> HIDE DEF s
    <3> QED BY <1>1
  <2> QED BY <2>1, <2>2, <2>3
<1>6. a + rest = given BY <1>2
<1>7. rest < s OBVIOUS
<1>8. CASE k <= buffered
  <2>1. k \in 1 .. buffered BY <1>8
  <2>2. f + s <= a BY <1>2, <1>3, <2>1, FullEndsBefore
  <2>3. size = s BY <1>8
  <2>4. f + s <= given /\ s \in 0 .. s
    <3> HIDE DEF s
    <3> QED BY <1>1, <1>6, <2>2
  <2>5. SizeOf(cfg, given, number + k - 1) = s
    <3>1. SizeOf(cfg, given, number + k - 1) = IF f + s <= given THEN s ELSE given - f
      BY <1>4, <1>5 DEF SizeOf
    <3> HIDE DEF s
    <3> QED BY <2>4, <3>1
  <2>6. k # buffered + 1 BY <1>8
  <2> HIDE DEF s, size
  <2>7. f + size <= given /\ SizeOf(cfg, given, number + k - 1) = size /\ size \in 0 .. s
    BY <2>3, <2>4, <2>5
  <2> QED BY <1>3, <2>6, <2>7 DEF s, size
<1>9. CASE k = buffered + 1
  <2>1. number + k - 1 = number + buffered BY <1>9
  <2>2. f = a BY <1>2, <1>4, <2>1
  <2>3. size = rest BY <1>9
  <2>4. f + rest = given /\ ~(f + s <= given) /\ given - f = rest /\ rest \in 0 .. s
    <3> HIDE DEF s
    <3> QED BY <1>1, <1>6, <1>7, <2>2
  <2>5. SizeOf(cfg, given, number + k - 1) = rest
    <3>1. SizeOf(cfg, given, number + k - 1) = IF f + s <= given THEN s ELSE given - f
      BY <1>4, <1>5 DEF SizeOf
    <3> HIDE DEF s
    <3> QED BY <2>4, <3>1
  <2> HIDE DEF s, size
  <2>6. f + size <= given /\ SizeOf(cfg, given, number + k - 1) = size /\ size \in 0 .. s
    BY <2>3, <2>4, <2>5
  <2> QED BY <1>3, <2>4, <2>6 DEF s, size
<1> QED BY <1>8, <1>9

(* IDGPredict's slots are handed over, or there are none: both directions    *)
(* are complete then.                                                        *)
LEMMA CalFlushInv ==
  ASSUME CalInv, FlushPredictions
  PROVE  CalInv'
<1> DEFINE first == Number * config.solint
           m == fed - first
           joined == step.results[1] \o step.waiting
           results == [step.results EXCEPT ![1] = joined]
           pc == IF step.pc = "flush" THEN "solve" ELSE "solvelast"
<1>1. /\ step.pc \in {"flush", "flushlast"}
      /\ step' = [step EXCEPT !.results = results, !.waiting = <<>>, !.at = 1, !.pc = pc]
      /\ sent' = sent /\ config' = config /\ fed' = fed /\ finished' = finished
  BY DEF FlushPredictions, Skip
<1>2. CalTypes /\ CalMain BY DEF CalInv
<1>3. 1 \in Directions /\ 2 \in Directions /\ \A d \in Directions : d = 1 \/ d = 2 BY DEF Directions
<1>4. /\ step.results \in [Directions -> Seq(Int)] /\ step.waiting \in Seq(Int) /\ step \in CalMembers
      /\ step.intervals \in Seq(CalInterval) /\ config \in CalConfig
  BY CalFacts
<1>5. /\ Len(step.input) = fed /\ Number \in Nat /\ Rest \in 0 .. config.solint - 1
      /\ ~finished
      /\ BatchIs(config, step.intervals, Number, step.buffered, Rest, step.input, 0)
      /\ SentIs(config, step.input, sent, first)
      /\ SolutionsAre(config, step.input, fed, step.sols, Number)
      /\ PredictionsAre(step.results[2], first, m)
      /\ config.idg => PredictionsAre(step.waiting, first, m) /\ step.results[1] = <<>>
      /\ ~config.idg => PredictionsAre(step.results[1], first, m) /\ step.waiting = <<>>
      /\ step.pc = "flush" => Rest = 0
  BY <1>1, <1>2 DEF CalMain
<1>6. config.idg \in BOOLEAN BY <1>4 DEF CalConfig
<1>7. PredictionsAre(joined, first, m) /\ joined \in Seq(Int)
  <2>1. step.results[1] \in Seq(Int) BY <1>3, <1>4
  <2>2. CASE config.idg
    <3>1. joined = <<>> \o step.waiting BY <1>5, <2>2
    <3>2. <<>> \o step.waiting = step.waiting BY <1>4
    <3> QED BY <1>4, <1>5, <2>2, <3>1, <3>2
  <2>3. CASE ~config.idg
    <3>1. joined = step.results[1] \o <<>> BY <1>5, <2>3
    <3>2. step.results[1] \o <<>> = step.results[1] BY <2>1
    <3> QED BY <1>5, <2>1, <2>3, <3>1, <3>2
  <2> QED BY <1>6, <2>2, <2>3
<1> HIDE DEF joined
<1>8. /\ results \in [Directions -> Seq(Int)] /\ results[1] = joined /\ results[2] = step.results[2]
  BY <1>3, <1>4, <1>7
<1>9. \A d \in Directions : PredictionsAre(results[d], first, m)
  BY <1>3, <1>5, <1>7, <1>8
<1>13. pc \in {"solve", "solvelast"} /\ (pc = "solve" => Rest = 0) BY <1>5
<1> HIDE DEF results, pc
<1>18. PICK none \in Seq(Int) : none = <<>>
  <2>1. <<>> \in Seq(Int) OBVIOUS
  <2> QED BY <2>1
<1>19. step' = [step EXCEPT !.results = results, !.waiting = none, !.at = 1, !.pc = pc]
  BY <1>1, <1>18
<1>10. /\ step' \in CalMembers /\ step'.intervals = step.intervals /\ step'.buffered = step.buffered
       /\ step'.nsolints = step.nsolints /\ step'.waiting = <<>> /\ step'.results = results
       /\ step'.at = 1 /\ step'.sols = step.sols /\ step'.input = step.input /\ step'.pc = pc
  BY <1>4, <1>8, <1>13, <1>18, <1>19 DEF CalMembers
<1>11. CalTypes' BY <1>1, <1>2, <1>10 DEF CalTypes
<1>12. Number' = Number /\ Rest' = Rest BY <1>1, <1>10 DEF Number, Rest
<1>14. 1 - 1 = 0 /\ Number + 1 - 1 = Number /\ 1 \in 1 .. Len(step.intervals) + 1
       /\ step'.at - 1 = 0 /\ Number + step'.at - 1 = Number
  BY <1>4, <1>5, <1>10
<1>15. /\ BatchIs(config, step.intervals, Number, step.buffered, Rest, step.input, step.at - 1)'
       /\ SolutionsAre(config, step.input, fed, step.sols, Number + step.at - 1)'
       /\ SentIs(config, step.input, sent, Number * config.solint)'
  BY <1>1, <1>5, <1>10, <1>12, <1>14
<1>16. \A d \in Directions : PredictionsAre(step.results[d], Number * config.solint, fed - Number * config.solint)'
  BY <1>1, <1>9, <1>10, <1>12
<1> HIDE DEF first, m
<1>17. CalMain'
  BY <1>1, <1>5, <1>10, <1>12, <1>13, <1>14, <1>15, <1>16 DEF CalMain
<1> QED BY <1>11, <1>17 DEF CalInv
(* Interval k is solved: its slots have their models subtracted, the others  *)
(* are as they were.                                                         *)
OneSolved(cfg, all, new, number, buffered, rest, input, k, bs) ==
    /\ BatchIs(cfg, all, number, buffered, rest, input, k - 1)
    /\ Len(bs) = Len(all[k].buffers)
    /\ \A t \in 1 .. Len(bs) : /\ bs[t].slot = all[k].buffers[t].slot
                              /\ bs[t].original = all[k].buffers[t].original
                              /\ bs[t].minus = MinusOf(cfg, FirstSlot(cfg, number, k) + t - 1)
    /\ new = [all EXCEPT ![k].buffers = bs]

LEMMA OneIntervalMore ==
  ASSUME NEW cfg \in CalConfig, NEW all \in Seq(CalInterval), NEW new, NEW number \in Nat,
         NEW buffered \in Nat, NEW rest \in Nat, NEW input, NEW k \in 1 .. Len(all),
         NEW bs \in Seq(CalBuffer),
         OneSolved(cfg, all, new, number, buffered, rest, input, k, bs)
  PROVE  /\ new \in Seq(CalInterval) /\ Len(new) = Len(all)
         /\ BatchIs(cfg, new, number, buffered, rest, input, k)
<1> USE DEF OneSolved
<1>1. PICK e \in CalInterval : e = [all[k] EXCEPT !.buffers = bs]
  <2>1. all[k] \in CalInterval OBVIOUS
  <2> QED BY <2>1 DEF CalInterval
<1>2. e.buffers = bs /\ e.n_solution = all[k].n_solution
  <2>1. all[k] \in CalInterval OBVIOUS
  <2> QED BY <1>1, <2>1 DEF CalInterval
<1>3. new = [all EXCEPT ![k] = e] BY <1>1
<1>4. /\ new \in Seq(CalInterval) /\ Len(new) = Len(all) /\ new[k] = e
      /\ \A j \in 1 .. Len(all) : j # k => new[j] = all[j]
  BY <1>3, SMTT(60)
<1>5. ASSUME NEW j \in 1 .. Len(all)
      PROVE  IntervalIs(cfg, new[j], FirstSlot(cfg, number, j), number + j - 1,
                        IF j <= buffered THEN cfg.solint ELSE rest, input, j, k)
  <2>1. PICK f : f = FirstSlot(cfg, number, j) OBVIOUS
  <2>2. PICK n : n = number + j - 1 OBVIOUS
  <2>3. PICK size : size = IF j <= buffered THEN cfg.solint ELSE rest OBVIOUS
  <2>4. IntervalIs(cfg, all[j], f, n, size, input, j, k - 1) BY <2>1, <2>2, <2>3 DEF BatchIs
  <2>5. IntervalIs(cfg, new[j], f, n, size, input, j, k)
    <3>1. CASE j = k
      <4>1. Held(bs, f, input) BY <2>4, <3>1 DEF IntervalIs, Held
      <4>2. Corrected(cfg, bs, f) BY <2>1, <3>1 DEF Corrected
      <4>3. Len(bs) = size /\ e.n_solution = n BY <1>2, <2>4, <3>1 DEF IntervalIs
      <4>4. ~(j > k) BY <3>1
      <4> QED BY <1>2, <1>4, <3>1, <4>1, <4>2, <4>3, <4>4 DEF IntervalIs
    <3>2. CASE j # k
      <4>1. (j > k => j > k - 1) /\ (j <= k => j <= k - 1) BY <3>2
      <4>2. new[j] = all[j] BY <1>4, <3>2
      <4> QED BY <2>4, <4>1, <4>2 DEF IntervalIs
    <3> QED BY <3>1, <3>2
  <2> QED BY <2>1, <2>2, <2>3, <2>5
<1>6. BatchIs(cfg, new, number, buffered, rest, input, k)
  BY <1>4, <1>5 DEF BatchIs
<1> QED BY <1>4, <1>6

\* Solution e is put in place n + 1.
OneSolution(cfg, input, given, sols, new, n, e) ==
    /\ ~cfg.mode.only_predict
    /\ SolutionsAre(cfg, input, given, sols, n)
    /\ e.data = DataOf(cfg, input, n, SizeOf(cfg, given, n))
    /\ new = [i \in DOMAIN sols \cup {n + 1} |-> IF i = n + 1 THEN e ELSE sols[i]]

LEMMA OneSolutionMore ==
  ASSUME NEW cfg, NEW input, NEW given, NEW sols \in Seq(CalSolution), NEW new, NEW n \in Nat,
         NEW e \in CalSolution, OneSolution(cfg, input, given, sols, new, n, e)
  PROVE  new \in Seq(CalSolution) /\ SolutionsAre(cfg, input, given, new, n + 1)
<1> USE DEF OneSolution
<1>1. Len(sols) = n BY DEF SolutionsAre
<1>2. DOMAIN sols \cup {n + 1} = 1 .. n + 1 BY <1>1
<1>3. new = [i \in 1 .. n + 1 |-> IF i = n + 1 THEN e ELSE sols[i]] BY <1>2
<1>4. \A i \in 1 .. n : sols[i] \in CalSolution BY <1>1
<1>8. PICK m \in Nat : m = n + 1 OBVIOUS
<1>9. new = [i \in 1 .. m |-> IF i = m THEN e ELSE sols[i]] BY <1>3, <1>8
<1>10. \A i \in 1 .. m : (IF i = m THEN e ELSE sols[i]) \in CalSolution BY <1>4, <1>8
<1>5. /\ new \in Seq(CalSolution) /\ Len(new) = n + 1
      /\ \A i \in 1 .. n + 1 : new[i] = IF i = n + 1 THEN e ELSE sols[i]
  BY <1>8, <1>9, <1>10
<1>6. ASSUME NEW i \in 1 .. n + 1
      PROVE  new[i].data = DataOf(cfg, input, i - 1, SizeOf(cfg, given, i - 1))
  <2>1. CASE i = n + 1
    <3>1. i - 1 = n BY <2>1
    <3> QED BY <1>5, <2>1, <3>1
  <2>2. CASE i # n + 1
    <3>1. i \in 1 .. n /\ i \in 1 .. Len(sols) BY <1>1, <2>2
    <3>2. sols[i].data = DataOf(cfg, input, i - 1, SizeOf(cfg, given, i - 1)) BY <3>1 DEF SolutionsAre
    <3> QED BY <1>5, <2>2, <3>2
  <2> QED BY <2>1, <2>2
<1>7. SolutionsAre(cfg, input, given, new, n + 1) BY <1>5, <1>6 DEF SolutionsAre
<1> QED BY <1>5, <1>7
(* The models of interval k's slots are those of the slots themselves.       *)
LEMMA ModelsAreOfTheSlots ==
  ASSUME CalInv, step.pc \in {"solve", "solvelast"}, NEW k \in 1 .. step.buffered + 1,
         NEW t \in Nat \ {0},
         t <= (IF k <= step.buffered THEN config.solint ELSE Rest)
  PROVE  ModelOf(k, t) = [d \in Directions |-> FirstSlot(config, Number, k) + t - 1]
<1> DEFINE s == config.solint
           first == Number * s
           m == fed - first
           size == IF k <= step.buffered THEN s ELSE Rest
<1>1. CalMain BY DEF CalInv
<1>2. \A d \in Directions : PredictionsAre(step.results[d], first, m) BY <1>1 DEF CalMain
<1>3. config \in CalConfig /\ s \in Nat \ {0} /\ Number \in Nat /\ first \in Nat /\ m \in Nat /\ fed \in Nat
      /\ Rest \in Nat /\ step.buffered \in Nat /\ Rest < config.solint
      /\ (Number + step.buffered) * config.solint + Rest = fed
  BY CalFacts
<1>4. FirstSlot(config, Number, k) + size <= fed
  <2>1. PICK cfg \in CalConfig : cfg = config BY <1>3
  <2>2. PICK n \in Nat : n = Number BY <1>3
  <2>3. PICK b \in Nat : b = step.buffered BY <1>3
  <2>4. PICK r \in Nat : r = Rest BY <1>3
  <2>5. PICK g \in Nat : g = fed BY <1>3
  <2>6. k \in 1 .. b + 1 /\ r < cfg.solint /\ (n + b) * cfg.solint + r = g
    BY <1>3, <2>1, <2>2, <2>3, <2>4, <2>5
  <2>7. FirstSlot(cfg, n, k) + (IF k <= b THEN cfg.solint ELSE r) <= g
    BY <2>6, SlotsAreGiven
  <2> QED BY <2>1, <2>2, <2>3, <2>4, <2>5, <2>7
<1>5. k \in Nat \ {0} BY <1>3
<1>6. FirstSlot(config, Number, k) = first + (k - 1) * s /\ (k - 1) * s \in Nat BY <1>3, <1>5, FirstSlots
<1>7. PICK q \in Nat : q = (k - 1) * s BY <1>6
<1>8. size \in Int /\ t <= size BY <1>3
<1> HIDE DEF size, first, m
<1>9. q + t \in 1 .. m /\ first + (q + t) - 1 = FirstSlot(config, Number, k) + t - 1
  <2>1. first + q + size <= fed BY <1>4, <1>6, <1>7
  <2>2. m + first = fed BY <1>3 DEF m
  <2> HIDE DEF s
  <2> QED BY <1>3, <1>6, <1>7, <1>8, <2>1, <2>2
<1>10. \A d \in Directions : step.results[d][q + t] = FirstSlot(config, Number, k) + t - 1
  BY <1>2, <1>9 DEF PredictionsAre
<1>11. (k - 1) * config.solint + t = q + t BY <1>7
<1> QED BY <1>10, <1>11 DEF ModelOf

\* The interval that is to be solved: of the batch, of the observation, its slots.
LEMMA ToBeSolved ==
  ASSUME CalInv, step.pc \in {"solve", "solvelast"}, step.at <= Len(step.intervals)
  PROVE  LET k == step.at
             size == IF k <= step.buffered THEN config.solint ELSE Rest
         IN  /\ k \in 1 .. step.buffered + 1 /\ k \in 1 .. Len(step.intervals)
             /\ step.intervals[k].n_solution = Number + k - 1 /\ Number + k - 1 \in Nat
             /\ step.intervals[k].buffers \in Seq(CalBuffer)
             /\ Len(step.intervals[k].buffers) = size
             /\ Held(step.intervals[k].buffers, FirstSlot(config, Number, k), step.input)
             /\ Fresh(step.intervals[k].buffers, FirstSlot(config, Number, k), step.input)
             /\ FirstSlot(config, Number, k) \in Nat
             /\ FirstSlot(config, Number, k) = (Number + k - 1) * config.solint
             /\ size \in Nat /\ size <= config.solint /\ FirstSlot(config, Number, k) + size <= fed
             /\ SizeOf(config, fed, Number + k - 1) = size
<1> DEFINE k == step.at
           size == IF k <= step.buffered THEN config.solint ELSE Rest
<1>1. /\ step.at \in 1 .. Len(step.intervals) + 1
      /\ BatchIs(config, step.intervals, Number, step.buffered, Rest, step.input, step.at - 1)
  BY DEF CalInv, CalMain
<1>2. config \in CalConfig /\ config.solint \in Nat \ {0} /\ Number \in Nat /\ fed \in Nat
      /\ Rest \in Nat /\ step.buffered \in Nat /\ Rest < config.solint
      /\ (Number + step.buffered) * config.solint + Rest = fed
      /\ step.intervals \in Seq(CalInterval)
  BY CalFacts
<1>3. k \in 1 .. Len(step.intervals) BY <1>1, <1>2
<1>4. k \in 1 .. step.buffered + 1 BY <1>1, <1>2, <1>3 DEF BatchIs
<1>5. IntervalIs(config, step.intervals[k], FirstSlot(config, Number, k), Number + k - 1, size, step.input,
                 k, k - 1)
  BY <1>1, <1>3 DEF BatchIs
<1>6. k > k - 1 BY <1>3
<1>7. step.intervals[k] \in CalInterval BY <1>2, <1>3
<1>8. /\ step.intervals[k].n_solution = Number + k - 1 /\ step.intervals[k].buffers \in Seq(CalBuffer)
      /\ Len(step.intervals[k].buffers) = size
      /\ Held(step.intervals[k].buffers, FirstSlot(config, Number, k), step.input)
      /\ Fresh(step.intervals[k].buffers, FirstSlot(config, Number, k), step.input)
  BY <1>5, <1>6, <1>7 DEF IntervalIs, CalInterval
<1>9. /\ FirstSlot(config, Number, k) + size <= fed
      /\ SizeOf(config, fed, Number + k - 1) = size /\ size \in 0 .. config.solint
  <2>1. PICK cfg \in CalConfig : cfg = config BY <1>2
  <2>2. PICK n \in Nat : n = Number BY <1>2
  <2>3. PICK b \in Nat : b = step.buffered BY <1>2
  <2>4. PICK r \in Nat : r = Rest BY <1>2
  <2>5. PICK g \in Nat : g = fed BY <1>2
  <2>6. PICK k0 \in 1 .. b + 1 : k0 = k BY <1>4, <2>3
  <2>7. r < cfg.solint /\ (n + b) * cfg.solint + r = g
    BY <1>2, <2>1, <2>2, <2>3, <2>4, <2>5
  <2>8. LET z == IF k0 <= b THEN cfg.solint ELSE r
        IN  /\ FirstSlot(cfg, n, k0) + z <= g /\ SizeOf(cfg, g, n + k0 - 1) = z /\ z \in 0 .. cfg.solint
    BY <2>7, SlotsAreGiven
  <2> QED BY <2>1, <2>2, <2>3, <2>4, <2>5, <2>6, <2>8
<1>10. FirstSlot(config, Number, k) \in Nat
  <2>1. k \in Nat \ {0} BY <1>3
  <2> QED BY <1>2, <2>1, FirstSlots
<1>11. FirstSlot(config, Number, k) = (Number + k - 1) * config.solint BY DEF FirstSlot
<1>12. size \in Nat /\ size <= config.solint BY <1>2, <1>9
<1>13. Number + k - 1 \in Nat BY <1>2, <1>3
<1> HIDE DEF size
<1>14. k = step.at OBVIOUS
<1> HIDE DEF k
<1>15. /\ k \in 1 .. step.buffered + 1 /\ k \in 1 .. Len(step.intervals)
       /\ step.intervals[k].n_solution = Number + k - 1 /\ Number + k - 1 \in Nat
       /\ step.intervals[k].buffers \in Seq(CalBuffer)
       /\ Len(step.intervals[k].buffers) = size
       /\ Held(step.intervals[k].buffers, FirstSlot(config, Number, k), step.input)
       /\ Fresh(step.intervals[k].buffers, FirstSlot(config, Number, k), step.input)
       /\ FirstSlot(config, Number, k) \in Nat
       /\ FirstSlot(config, Number, k) = (Number + k - 1) * config.solint
       /\ size \in Nat /\ size <= config.solint /\ FirstSlot(config, Number, k) + size <= fed
       /\ SizeOf(config, fed, Number + k - 1) = size
  BY <1>3, <1>4, <1>8, <1>9, <1>10, <1>11, <1>12, <1>13
<1> QED BY <1>14, <1>15, Zenon DEF k, size
(* A solution is solved from all slots of its interval and their models.     *)
LEMMA SolvedFromItsSlots ==
  ASSUME CalInv, step.pc \in {"solve", "solvelast"}, step.at <= Len(step.intervals)
  PROVE  LET n == Number + step.at - 1
         IN  Weighted(step.at) = DataOf(config, step.input, n, SizeOf(config, fed, n))
             /\ Weighted(step.at) \in Seq(CalData)
<1> DEFINE k == step.at
           n == Number + k - 1
           size0 == IF k <= step.buffered THEN config.solint ELSE Rest
           bs == step.intervals[k].buffers
<1>1. PICK f \in Nat : f = FirstSlot(config, Number, k) BY ToBeSolved
<1>2. PICK size \in Nat : size = size0 BY ToBeSolved
<1>3. /\ k \in 1 .. step.buffered + 1 /\ bs \in Seq(CalBuffer) /\ Len(bs) = size
      /\ Held(bs, f, step.input) /\ Fresh(bs, f, step.input)
      /\ n * config.solint = f /\ SizeOf(config, fed, n) = size
      /\ f + size <= fed /\ Len(step.input) = fed /\ step.input \in Seq(CalInput)
  BY <1>1, <1>2, ToBeSolved, CalFacts
<1> HIDE DEF bs, n
<1>4. ASSUME NEW t \in 1 .. size
      PROVE  /\ bs[t].slot = f + t - 1
             /\ bs[t].weight = (IF step.input[f + t].used THEN 1 ELSE 0)
             /\ ModelOf(k, t) = [d \in Directions |-> f + t - 1]
             /\ f + t - 1 \in Nat /\ (f + t - 1) + 1 = f + t
  <2>1. t \in 1 .. Len(bs) BY <1>3
  <2>2. bs[t].slot = f + t - 1 BY <1>3, <2>1 DEF Held
  <2>3. bs[t].weight = (IF step.input[f + t].used THEN 1 ELSE 0) BY <1>3, <2>1 DEF Fresh
  <2>4. t \in Nat \ {0} /\ t <= size0 BY <1>2
  <2>5. ModelOf(k, t) = [d \in Directions |-> FirstSlot(config, Number, k) + t - 1]
    BY <1>3, <2>4, ModelsAreOfTheSlots
  <2>6. f + t - 1 \in Nat /\ (f + t - 1) + 1 = f + t OBVIOUS
  <2> QED BY <1>1, <2>2, <2>3, <2>5, <2>6
<1>5. \A t \in 1 .. size :
        [slot |-> bs[t].slot, weight |-> bs[t].weight, model |-> ModelOf(k, t)]
            = DatumOf(step.input, n * config.solint + t - 1)
  BY <1>3, <1>4 DEF DatumOf
<1>6. Weighted(k) = [t \in 1 .. size |->
        [slot |-> bs[t].slot, weight |-> bs[t].weight, model |-> ModelOf(k, t)]]
  BY <1>3 DEF Weighted, bs
<1>7. Weighted(k) = DataOf(config, step.input, n, size)
  BY <1>5, <1>6 DEF DataOf
<1>8. \A t \in 1 .. size :
        [slot |-> bs[t].slot, weight |-> bs[t].weight, model |-> ModelOf(k, t)] \in CalData
  <2> SUFFICES ASSUME NEW t \in 1 .. size
               PROVE [slot |-> bs[t].slot, weight |-> bs[t].weight, model |-> ModelOf(k, t)] \in CalData
    OBVIOUS
  <2>1. bs[t].slot \in Int /\ bs[t].weight \in Int /\ f + t - 1 \in Int
    <3>1. PICK i \in Nat : i = f + t - 1 BY <1>4
    <3>2. bs[t].slot = f + t - 1 /\ bs[t].weight \in {0, 1} BY <1>4, Zenon
    <3> QED BY <3>1, <3>2
  <2>2. ModelOf(k, t) \in CalModel BY <1>4, <2>1 DEF CalModel
  <2> QED BY <2>1, <2>2 DEF CalData
<1>9. Weighted(k) \in Seq(CalData)
  <2>1. PICK w : w = [t \in 1 .. size |->
          [slot |-> bs[t].slot, weight |-> bs[t].weight, model |-> ModelOf(k, t)]]
    OBVIOUS
  <2>2. w \in [1 .. size -> CalData] BY <1>8, <2>1
  <2>3. w \in Seq(CalData) BY <2>2
  <2> QED BY <1>6, <2>1, <2>3
<1> QED BY <1>3, <1>7, <1>9 DEF n

(* What is subtracted from a slot is its own models, with the solution of    *)
(* its own interval.                                                         *)
LEMMA SubtractedFromItsSlots ==
  ASSUME CalInv, step.pc \in {"solve", "solvelast"}, step.at <= Len(step.intervals),
         NEW flagged \in {step.intervals[step.at].buffers,
                          WithMinimumVisibilities(step.intervals[step.at].buffers)}
  PROVE  LET k == step.at
             bs == Subtracted(k, flagged)
         IN  /\ bs \in Seq(CalBuffer) /\ Len(bs) = Len(step.intervals[k].buffers)
             /\ \A t \in 1 .. Len(bs) :
                  /\ bs[t].slot = step.intervals[k].buffers[t].slot
                  /\ bs[t].original = step.intervals[k].buffers[t].original
                  /\ bs[t].minus = MinusOf(config, FirstSlot(config, Number, k) + t - 1)
<1> DEFINE k == step.at
           n0 == Number + k - 1
           size0 == IF k <= step.buffered THEN config.solint ELSE Rest
           old == step.intervals[k].buffers
           bs == Subtracted(k, flagged)
<1>1. PICK f \in Nat : f = FirstSlot(config, Number, k) BY ToBeSolved
<1>2. PICK size \in Nat : size = size0 BY ToBeSolved
<1>3. PICK n \in Nat : n = n0 BY ToBeSolved
<1>4. PICK s \in Nat \ {0} : s = config.solint BY CalFacts
<1>5. /\ k \in 1 .. step.buffered + 1 /\ old \in Seq(CalBuffer) /\ Len(old) = size
      /\ Fresh(old, f, step.input) /\ step.intervals[k].n_solution = n
      /\ n * s = f /\ size <= s
  BY <1>1, <1>2, <1>3, <1>4, ToBeSolved
<1>6. config \in CalConfig BY CalFacts
<1> HIDE DEF old, n0
<1>7. /\ flagged \in Seq(CalBuffer) /\ Len(flagged) = size
      /\ \A t \in 1 .. size : /\ flagged[t].slot = old[t].slot /\ flagged[t].original = old[t].original
                              /\ flagged[t].minus = <<>>
  <2>1. \A t \in 1 .. size : old[t].minus = <<>> /\ old[t] \in CalBuffer BY <1>5 DEF Fresh
  <2>2. CASE flagged = old BY <1>5, <2>1, <2>2
  <2>3. CASE flagged # old
    <3>1. flagged = WithMinimumVisibilities(old) BY <2>3 DEF old
    <3>2. flagged = [t \in 1 .. size |-> [old[t] EXCEPT !.weight = 0]]
      BY <1>5, <2>3, <3>1 DEF WithMinimumVisibilities
    <3>3. \A t \in 1 .. size :
            LET b == [old[t] EXCEPT !.weight = 0]
            IN  b \in CalBuffer /\ b.slot = old[t].slot /\ b.original = old[t].original
                /\ b.minus = <<>>
      BY <2>1 DEF CalBuffer
    <3>4. DOMAIN flagged = 1 .. size /\ flagged = [t \in 1 .. size |-> flagged[t]]
          /\ \A t \in 1 .. size : flagged[t] = [old[t] EXCEPT !.weight = 0]
      BY <3>2
    <3>5. \A t \in 1 .. size : /\ flagged[t] \in CalBuffer /\ flagged[t].slot = old[t].slot
                              /\ flagged[t].original = old[t].original /\ flagged[t].minus = <<>>
      BY <3>3, <3>4
    <3>6. flagged \in [1 .. size -> CalBuffer] BY <3>4, <3>5
    <3>7. flagged \in Seq(CalBuffer) /\ Len(flagged) = size BY <3>6
    <3> QED BY <3>5, <3>7
  <2> QED BY <2>2, <2>3
<1>8. PICK mode : mode = config.mode OBVIOUS
<1>9. mode.subtract \in BOOLEAN /\ mode.only_predict \in BOOLEAN BY <1>6, <1>8 DEF CalConfig
<1>10. ASSUME NEW t \in 1 .. size
       PROVE  LET b == IF mode.subtract \/ mode.only_predict
                       THEN [flagged[t] EXCEPT !.minus =
                               <<ModelOf(k, t), IF mode.only_predict THEN -1 ELSE n>>]
                       ELSE flagged[t]
              IN  /\ b \in CalBuffer /\ b.slot = old[t].slot /\ b.original = old[t].original
                  /\ b.minus = MinusOf(config, f + t - 1)
  <2>1. PICK slot \in Nat : slot = f + t - 1 OBVIOUS
  <2>2. t \in Nat \ {0} /\ t <= size0 BY <1>2
  <2>3. ModelOf(k, t) = [d \in Directions |-> slot]
    <3>1. ModelOf(k, t) = [d \in Directions |-> FirstSlot(config, Number, k) + t - 1]
      BY <1>5, <2>2, ModelsAreOfTheSlots
    <3> QED BY <1>1, <2>1, <3>1
  <2>4. slot \div s = n
    <3>1. n * s <= slot /\ slot < n * s + s
      <4>1. PICK a \in Nat : a = n * s /\ a = f BY <1>5
      <4>2. a <= slot /\ slot < a + s BY <1>5, <2>1, <4>1
      <4> QED BY <4>1, <4>2
    <3> QED BY <3>1, QuotientIs
  <2>5. MinusOf(config, slot) = IF mode.subtract \/ mode.only_predict
                                THEN <<ModelOf(k, t), IF mode.only_predict THEN -1 ELSE n>> ELSE <<>>
    BY <1>4, <1>8, <2>3, <2>4 DEF MinusOf
  <2>6. MinusOf(config, slot) \in Minus BY <1>6, MinusType
  <2>7. flagged[t] \in CalBuffer BY <1>7
  <2>8. CASE mode.subtract \/ mode.only_predict
    <3>1. PICK x \in Minus : x = MinusOf(config, slot) BY <2>6
    <3>2. x = <<ModelOf(k, t), IF mode.only_predict THEN -1 ELSE n>> BY <2>5, <2>8, <3>1
    <3>3. LET b == [flagged[t] EXCEPT !.minus = x]
          IN  /\ b \in CalBuffer /\ b.slot = old[t].slot /\ b.original = old[t].original
              /\ b.minus = x
      BY <1>7, <2>7 DEF CalBuffer
    <3> QED BY <2>1, <2>8, <3>1, <3>2, <3>3
  <2>9. CASE ~(mode.subtract \/ mode.only_predict)
    <3>1. MinusOf(config, slot) = <<>> BY <2>5, <2>9
    <3> QED BY <1>7, <2>1, <2>7, <2>9, <3>1
  <2> QED BY <2>8, <2>9
<1>11. bs = [t \in 1 .. size |-> IF mode.subtract \/ mode.only_predict
                       THEN [flagged[t] EXCEPT !.minus =
                               <<ModelOf(k, t), IF mode.only_predict THEN -1 ELSE n>>]
                       ELSE flagged[t]]
  BY <1>5, <1>7, <1>8 DEF Subtracted
<1>12. PICK made : made = [t \in 1 .. size |-> IF mode.subtract \/ mode.only_predict
                       THEN [flagged[t] EXCEPT !.minus =
                               <<ModelOf(k, t), IF mode.only_predict THEN -1 ELSE n>>]
                       ELSE flagged[t]]
  OBVIOUS
<1>13. \A t \in 1 .. size : /\ made[t] \in CalBuffer /\ made[t].slot = old[t].slot
                            /\ made[t].original = old[t].original
                            /\ made[t].minus = MinusOf(config, f + t - 1)
  BY <1>10, <1>12
<1>14. made \in Seq(CalBuffer) /\ Len(made) = size
  <2>1. DOMAIN made = 1 .. size /\ made = [t \in 1 .. size |-> made[t]] BY <1>12
  <2>2. made \in [1 .. size -> CalBuffer] BY <1>13, <2>1
  <2> QED BY <2>2
<1> HIDE DEF bs
<1> QED BY <1>1, <1>5, <1>11, <1>12, <1>13, <1>14 DEF bs, old
LEMMA CalSolveInv ==
  ASSUME CalInv, SolveInterval
  PROVE  CalInv'
<1> DEFINE k == step.at
           n == Number + k - 1
           buffers == step.intervals[k].buffers
           L == Len(step.intervals)
           only == config.mode.only_predict
<1>1. /\ step.pc \in {"solve", "solvelast"} /\ step.at <= Len(step.intervals)
      /\ sent' = sent /\ config' = config /\ fed' = fed /\ finished' = finished
  BY ZenonT(60) DEF SolveInterval, Skip
<1>2. PICK converged \in (IF config.mode.propagate THEN BOOLEAN ELSE {TRUE}) :
        LET k0 == step.at
            n0 == step.intervals[k0].n_solution
            solution == [data |-> Weighted(k0), start |-> StartsWith(n0), converged |-> converged]
            bs == step.intervals[k0].buffers
            flagged == IF config.mode.only_predict THEN bs ELSE WithMinimumVisibilities(bs)
        IN  step' = [step EXCEPT
                        !.at = k0 + 1,
                        !.intervals[k0].buffers = Subtracted(k0, flagged),
                        !.sols = IF config.mode.only_predict THEN @
                                 ELSE [i \in DOMAIN @ \cup {n0 + 1} |->
                                          IF i = n0 + 1 THEN solution ELSE @[i]]]
  BY ZenonT(60) DEF SolveInterval
<1>3. CalTypes /\ CalMain BY DEF CalInv
<1>4. /\ config \in CalConfig /\ step \in CalMembers /\ step.intervals \in Seq(CalInterval)
      /\ step.sols \in Seq(CalSolution) /\ Number \in Nat /\ step.buffered \in Nat /\ Rest \in Nat
  BY CalFacts
<1>5. /\ k \in 1 .. L /\ n \in Nat /\ step.intervals[k].n_solution = n BY <1>1, ToBeSolved
<1>6. config.mode.only_predict \in BOOLEAN BY <1>4 DEF CalConfig
<1> DEFINE flagged == IF config.mode.only_predict THEN buffers ELSE WithMinimumVisibilities(buffers)
           bs == Subtracted(k, flagged)
           all == [step.intervals EXCEPT ![k].buffers = bs]
           solution == [data |-> Weighted(k), start |-> StartsWith(n), converged |-> converged]
           grown == [i \in DOMAIN step.sols \cup {n + 1} |-> IF i = n + 1 THEN solution ELSE step.sols[i]]
           sols == IF config.mode.only_predict THEN step.sols ELSE grown
<1>7. step' = [step EXCEPT !.at = k + 1, !.intervals = all, !.sols = sols]
  <2>1. step.intervals[step.at].n_solution = n BY <1>5
  <2> QED BY <1>2, <2>1
<1>8. flagged \in {buffers, WithMinimumVisibilities(buffers)} BY SMTT(60)
<1> HIDE DEF flagged
<1>9. /\ bs \in Seq(CalBuffer) /\ Len(bs) = Len(step.intervals[k].buffers)
      /\ \A t \in 1 .. Len(bs) :
           /\ bs[t].slot = step.intervals[k].buffers[t].slot
           /\ bs[t].original = step.intervals[k].buffers[t].original
           /\ bs[t].minus = MinusOf(config, FirstSlot(config, Number, k) + t - 1)
  BY <1>1, <1>8, SubtractedFromItsSlots
<1> HIDE DEF bs
<1>10. /\ BatchIs(config, step.intervals, Number, step.buffered, Rest, step.input, k - 1)
       /\ SolutionsAre(config, step.input, fed, step.sols, Number + k - 1)
       /\ \A d \in Directions : PredictionsAre(step.results[d], Number * config.solint, fed - Number * config.solint)
       /\ step.waiting = <<>> /\ SentIs(config, step.input, sent, Number * config.solint)
       /\ step.pc = "solve" => Rest = 0
       /\ Len(step.input) = fed /\ Rest \in 0 .. config.solint - 1 /\ ~finished
  BY <1>1, <1>3 DEF CalMain
<1>11. all \in Seq(CalInterval) /\ Len(all) = L
       /\ BatchIs(config, all, Number, step.buffered, Rest, step.input, k)
  <2>1. PICK cfg \in CalConfig : cfg = config BY <1>4
  <2>2. PICK a0 \in Seq(CalInterval) : a0 = step.intervals BY <1>4
  <2>3. PICK m \in Nat : m = Number BY <1>4
  <2>4. PICK b \in Nat : b = step.buffered BY <1>4
  <2>5. PICK r \in Nat : r = Rest BY <1>4
  <2>6. PICK q \in 1 .. Len(a0) : q = k BY <1>5, <2>2
  <2>7. PICK b0 \in Seq(CalBuffer) : b0 = bs BY <1>9
  <2>8. BatchIs(cfg, a0, m, b, r, step.input, q - 1)
    BY <1>10, <2>1, <2>2, <2>3, <2>4, <2>5, <2>6
  <2>9. /\ Len(b0) = Len(a0[q].buffers)
        /\ \A t \in 1 .. Len(b0) : /\ b0[t].slot = a0[q].buffers[t].slot
                                   /\ b0[t].original = a0[q].buffers[t].original
                                   /\ b0[t].minus = MinusOf(cfg, FirstSlot(cfg, m, q) + t - 1)
    BY <1>9, <2>1, <2>2, <2>3, <2>6, <2>7
  <2>11. [a0 EXCEPT ![q].buffers = b0] = all BY <2>2, <2>6, <2>7
  <2> HIDE DEF all
  <2>12. OneSolved(cfg, a0, all, m, b, r, step.input, q, b0)
    BY <2>8, <2>9, <2>11, Zenon DEF OneSolved
  <2>10. /\ all \in Seq(CalInterval) /\ Len(all) = Len(a0)
         /\ BatchIs(cfg, all, m, b, r, step.input, q)
    BY <2>12, OneIntervalMore
  <2> QED BY <2>1, <2>2, <2>3, <2>4, <2>5, <2>6, <2>10
<1>12. sols \in Seq(CalSolution) /\ SolutionsAre(config, step.input, fed, sols, Number + k)
  <2>1. CASE only
    <3>1. SolutionsAre(config, step.input, fed, step.sols, Number + k) BY <1>10, <2>1 DEF SolutionsAre
    <3> QED BY <1>4, <2>1, <3>1
  <2>2. CASE ~only
    <3>1. Weighted(k) = DataOf(config, step.input, n, SizeOf(config, fed, n)) /\ Weighted(k) \in Seq(CalData)
      BY <1>1, SolvedFromItsSlots
    <3>2. converged \in BOOLEAN
      <4>1. converged \in BOOLEAN \/ converged \in {TRUE} OBVIOUS
      <4> QED BY <4>1
    <3>3. StartsWith(n) \in Int
      <4>1. StartsWith(n) = n \/ StartsWith(n) = n - 1 BY DEF StartsWith
      <4> QED BY <1>5, <4>1
    <3>4. solution \in CalSolution BY <3>1, <3>2, <3>3 DEF CalSolution
    <3>5. PICK e \in CalSolution : e = solution BY <3>4
    <3>6. e.data = DataOf(config, step.input, n, SizeOf(config, fed, n)) BY <3>1, <3>5
    <3>7. PICK n0 \in Nat : n0 = n BY <1>5
    <3>8. PICK s0 \in Seq(CalSolution) : s0 = step.sols BY <1>4
    <3> HIDE DEF solution
    <3>9. SolutionsAre(config, step.input, fed, s0, n0) BY <1>10, <3>7, <3>8
    <3>11. grown = [i \in DOMAIN s0 \cup {n0 + 1} |-> IF i = n0 + 1 THEN e ELSE s0[i]]
      BY <3>5, <3>7, <3>8
    <3>12. n0 + 1 = Number + k BY <1>4, <1>5, <3>7
    <3>13. sols = grown BY <2>2
    <3> HIDE DEF grown, sols
    <3>14. e.data = DataOf(config, step.input, n0, SizeOf(config, fed, n0)) BY <3>6, <3>7
    <3>15. OneSolution(config, step.input, fed, s0, grown, n0, e)
      BY <2>2, <3>9, <3>11, <3>14, Zenon DEF OneSolution
    <3>10. grown \in Seq(CalSolution) /\ SolutionsAre(config, step.input, fed, grown, n0 + 1)
      BY <3>15, OneSolutionMore
    <3> QED BY <3>10, <3>12, <3>13
  <2> QED BY <1>6, <2>1, <2>2
<1> HIDE DEF all, sols
<1>13. /\ step' \in CalMembers /\ step'.intervals = all /\ step'.buffered = step.buffered
       /\ step'.nsolints = step.nsolints /\ step'.waiting = step.waiting /\ step'.results = step.results
       /\ step'.at = k + 1 /\ step'.sols = sols /\ step'.input = step.input /\ step'.pc = step.pc
  <2>1. k + 1 \in Nat BY <1>5
  <2> QED BY <1>4, <1>7, <1>11, <1>12, <2>1 DEF CalMembers
<1>14. CalTypes' BY <1>1, <1>3, <1>13 DEF CalTypes
<1>15. Number' = Number /\ Rest' = Rest BY <1>1, <1>13 DEF Number, Rest
<1>16. step'.at - 1 = k /\ Number + step'.at - 1 = Number + k /\ step'.at \in 1 .. Len(step'.intervals) + 1
  <2>1. PICK j \in Nat : j = k BY <1>5
  <2>2. PICK l \in Nat : l = L /\ Len(step'.intervals) = l BY <1>4, <1>11, <1>13
  <2>3. j \in 1 .. l BY <1>5, <2>1, <2>2
  <2>4. step'.at = j + 1 BY <1>13, <2>1
  <2>5. step'.at - 1 = j /\ Number + step'.at - 1 = Number + j /\ step'.at \in 1 .. l + 1
    BY <1>4, <2>3, <2>4
  <2> QED BY <2>1, <2>2, <2>5
<1>17. /\ BatchIs(config, step.intervals, Number, step.buffered, Rest, step.input, step.at - 1)'
       /\ SolutionsAre(config, step.input, fed, step.sols, Number + step.at - 1)'
       /\ SentIs(config, step.input, sent, Number * config.solint)'
  BY <1>1, <1>10, <1>11, <1>12, <1>13, <1>15, <1>16
<1>18. \A d \in Directions : PredictionsAre(step.results[d], Number * config.solint, fed - Number * config.solint)'
  BY <1>1, <1>10, <1>13, <1>15
<1>19. CalMain'
  BY <1>1, <1>4, <1>10, <1>13, <1>15, <1>16, <1>17, <1>18 DEF CalMain
<1> QED BY <1>14, <1>19 DEF CalInv
LEMMA CalEndSolveInv ==
  ASSUME CalInv, EndSolve
  PROVE  CalInv'
<1> DEFINE pc == IF step.pc = "solve" THEN "send" ELSE "sendlast"
           L == Len(step.intervals)
<1>1. /\ step.pc \in {"solve", "solvelast"} /\ step.at > L
      /\ step' = [step EXCEPT !.at = 1, !.pc = pc]
      /\ sent' = sent /\ config' = config /\ fed' = fed /\ finished' = finished
  BY DEF EndSolve, Skip
<1>2. CalTypes /\ CalMain BY DEF CalInv
<1>3. /\ config \in CalConfig /\ step \in CalMembers /\ step.intervals \in Seq(CalInterval)
      /\ Number \in Nat /\ step.buffered \in Nat /\ config.solint \in Nat
  BY CalFacts
<1>4. pc \in {"send", "sendlast"} /\ (pc = "send" => step.pc = "solve") BY <1>1
<1> HIDE DEF pc
<1>5. /\ step' \in CalMembers /\ step'.intervals = step.intervals /\ step'.buffered = step.buffered
      /\ step'.nsolints = step.nsolints /\ step'.waiting = step.waiting /\ step'.results = step.results
      /\ step'.at = 1 /\ step'.sols = step.sols /\ step'.input = step.input /\ step'.pc = pc
  BY <1>1, <1>3, <1>4 DEF CalMembers
<1>6. CalTypes' BY <1>1, <1>2, <1>5 DEF CalTypes
<1>7. Number' = Number /\ Rest' = Rest BY <1>1, <1>5 DEF Number, Rest
<1>8. /\ step.at \in 1 .. L + 1
      /\ BatchIs(config, step.intervals, Number, step.buffered, Rest, step.input, step.at - 1)
      /\ SentIs(config, step.input, sent, Number * config.solint)
      /\ SolutionsAre(config, step.input, fed, step.sols, Number + step.at - 1)
      /\ step.waiting = <<>> /\ (step.pc = "solve" => Rest = 0)
      /\ Len(step.input) = fed /\ Rest \in 0 .. config.solint - 1 /\ ~finished
  BY <1>1, <1>2 DEF CalMain
<1>9. step.at - 1 = L /\ Number + step.at - 1 = Number + L /\ 1 \in 1 .. L + 1
      /\ 1 <= step.buffered + 1
  <2>1. PICK l \in Nat : l = L BY <1>3
  <2>2. PICK j \in Nat : j = step.at BY <1>8
  <2>3. j = l + 1 BY <1>1, <1>8, <2>1, <2>2
  <2>4. j - 1 = l /\ Number + j - 1 = Number + l /\ 1 \in 1 .. l + 1 BY <1>3, <2>3
  <2>5. 1 <= step.buffered + 1 BY <1>3
  <2> QED BY <2>1, <2>2, <2>4, <2>5
<1>10. FirstSlot(config, Number, 1) = Number * config.solint
  <2>1. 1 \in Nat \ {0} OBVIOUS
  <2>2. FirstSlot(config, Number, 1) = Number * config.solint + (1 - 1) * config.solint
    BY <1>3, <2>1, FirstSlots
  <2>3. (1 - 1) * config.solint = 0
    <3>1. PICK s \in Nat : s = config.solint BY <1>3
    <3> QED BY <3>1
  <2>4. Number * config.solint \in Nat BY CalFacts
  <2>5. PICK a \in Nat : a = Number * config.solint BY <2>4
  <2>6. FirstSlot(config, Number, 1) = a + 0 BY <2>2, <2>3, <2>5
  <2> QED BY <2>5, <2>6
<1>11. SentIs(config, step.input, sent,
              IF step'.at <= step.buffered + 1 THEN FirstSlot(config, Number, step'.at) ELSE fed)
  BY <1>5, <1>8, <1>9, <1>10
<1>12. CalMain'
  <2>1. /\ Len(step'.input) = fed' /\ Number' \in Nat /\ Rest' \in 0 .. config'.solint - 1 /\ ~finished'
        /\ step'.pc \in {"send", "sendlast"} /\ (step'.pc = "send" => Rest' = 0)
        /\ step'.at \in 1 .. Len(step'.intervals) + 1 /\ step'.waiting = <<>>
    BY <1>1, <1>3, <1>4, <1>5, <1>7, <1>8, <1>9
  <2>2. BatchIs(config, step.intervals, Number, step.buffered, Rest, step.input, Len(step.intervals))'
    BY <1>1, <1>5, <1>7, <1>8, <1>9
  <2>3. SolutionsAre(config, step.input, fed, step.sols, Number + Len(step.intervals))'
    BY <1>1, <1>5, <1>7, <1>8, <1>9
  <2>4. SentIs(config, step.input, sent,
               IF step.at <= step.buffered + 1 THEN FirstSlot(config, Number, step.at) ELSE fed)'
    BY <1>1, <1>5, <1>7, <1>11
  <2> QED BY <2>1, <2>2, <2>3, <2>4 DEF CalMain
<1> QED BY <1>6, <1>12 DEF CalInv

-----------------------------------------------------------------------------
LEMMA MoreIsSent ==
  ASSUME NEW cfg, NEW input, NEW slots \in Seq(CalSlot), NEW m \in Nat, NEW more \in Seq(CalSlot),
         NEW size \in Nat, SentIs(cfg, input, slots, m), Len(more) = size,
         \A t \in 1 .. size : more[t] = SlotOf(cfg, input, m + t - 1)
  PROVE  slots \o more \in Seq(CalSlot) /\ SentIs(cfg, input, slots \o more, m + size)
<1>5. \A x \in Seq(CalSlot), y \in Seq(CalSlot) :
        /\ x \o y \in Seq(CalSlot) /\ Len(x \o y) = Len(x) + Len(y)
        /\ \A i \in 1 .. Len(x) : (x \o y)[i] = x[i]
        /\ \A i \in 1 .. Len(y) : (x \o y)[Len(x) + i] = y[i]
  OBVIOUS
<1>1. PICK all \in Seq(CalSlot) : all = slots \o more BY <1>5
<1>2. Len(slots) = m /\ \A i \in 1 .. m : slots[i] = SlotOf(cfg, input, i - 1) BY DEF SentIs
<1>3. Len(all) = m + size /\ (\A i \in 1 .. m : all[i] = slots[i])
      /\ \A t \in 1 .. size : all[m + t] = more[t]
  <2>1. /\ Len(slots \o more) = Len(slots) + Len(more)
        /\ \A i \in 1 .. Len(slots) : (slots \o more)[i] = slots[i]
        /\ \A t \in 1 .. Len(more) : (slots \o more)[Len(slots) + t] = more[t]
    BY <1>5, Zenon
  <2>2. Len(slots) = m /\ Len(more) = size BY <1>2
  <2> QED BY <1>1, <2>1, <2>2
<1>4. ASSUME NEW i \in 1 .. m + size PROVE all[i] = SlotOf(cfg, input, i - 1)
  <2>1. CASE i <= m
    <3>1. i \in 1 .. m BY <2>1
    <3> QED BY <1>2, <1>3, <3>1
  <2>2. CASE ~(i <= m)
    <3>1. i - m \in 1 .. size /\ m + (i - m) = i /\ m + (i - m) - 1 = i - 1 BY <2>2
    <3>2. PICK t \in 1 .. size : m + t = i /\ m + t - 1 = i - 1 BY <3>1
    <3> QED BY <1>3, <3>2
  <2> QED BY <2>1, <2>2
<1> QED BY <1>1, <1>3, <1>4 DEF SentIs

\* The interval that is to be sent: its slots are those that the next step is promised.
LEMMA ToBeSent ==
  ASSUME CalInv, step.pc \in {"send", "sendlast"}, step.at <= Len(step.intervals)
  PROVE  LET k == step.at
             buffers == step.intervals[k].buffers
             more == [t \in 1 .. Len(buffers) |-> Restored(buffers[t])]
             size == IF k <= step.buffered THEN config.solint ELSE Rest
         IN  /\ more \in Seq(CalSlot) /\ Len(more) = size
             /\ \A t \in 1 .. size :
                    more[t] = SlotOf(config, step.input, FirstSlot(config, Number, k) + t - 1)
<1> DEFINE k == step.at
           L == Len(step.intervals)
           buffers == step.intervals[k].buffers
           more == [t \in 1 .. Len(buffers) |-> Restored(buffers[t])]
           size0 == IF k <= step.buffered THEN config.solint ELSE Rest
<1>1. /\ step.at \in 1 .. L + 1
      /\ BatchIs(config, step.intervals, Number, step.buffered, Rest, step.input, L)
  BY DEF CalInv, CalMain
<1>2. /\ config \in CalConfig /\ config.solint \in Nat \ {0} /\ Number \in Nat
      /\ Rest \in Nat /\ step.buffered \in Nat /\ step.intervals \in Seq(CalInterval)
      /\ step.input \in Seq(CalInput)
  BY CalFacts
<1>3. k \in 1 .. L /\ k <= L /\ k \in Nat \ {0} BY <1>1, <1>2
<1>4. PICK f \in Nat : f = FirstSlot(config, Number, k)
  <2>1. FirstSlot(config, Number, k) \in Nat BY <1>2, <1>3, FirstSlots
  <2> QED BY <2>1
<1>5. PICK size \in Nat : size = size0 BY <1>2
<1>6. IntervalIs(config, step.intervals[k], f, Number + k - 1, size, step.input, k, L)
  BY <1>1, <1>3, <1>4, <1>5 DEF BatchIs
<1>7. step.intervals[k] \in CalInterval BY <1>2, <1>3
<1>8. buffers \in Seq(CalBuffer) /\ Len(buffers) = size
      /\ Held(buffers, f, step.input) /\ Corrected(config, buffers, f)
  BY <1>3, <1>6, <1>7 DEF IntervalIs, CalInterval
<1> HIDE DEF buffers
<1>9. ASSUME NEW t \in 1 .. size
      PROVE  Restored(buffers[t]) = SlotOf(config, step.input, f + t - 1) /\ Restored(buffers[t]) \in CalSlot
  <2>1. t \in 1 .. Len(buffers) BY <1>8
  <2>2. buffers[t].slot = f + t - 1 /\ buffers[t].original = step.input[f + t].flagged
    BY <1>8, <2>1 DEF Held
  <2>3. buffers[t].minus = MinusOf(config, f + t - 1) BY <1>8, <2>1 DEF Corrected
  <2>4. (f + t - 1) + 1 = f + t OBVIOUS
  <2>5. Restored(buffers[t]) = SlotOf(config, step.input, f + t - 1)
    BY <2>2, <2>3, <2>4 DEF Restored, SlotOf
  <2>6. buffers[t] \in CalBuffer BY <1>8, <2>1
  <2>7. Restored(buffers[t]) \in CalSlot BY <2>6 DEF Restored, CalSlot, CalBuffer
  <2> QED BY <2>5, <2>7
<1>10. PICK made : made = [t \in 1 .. size |-> Restored(buffers[t])] OBVIOUS
<1>11. \A t \in 1 .. size : made[t] = SlotOf(config, step.input, f + t - 1) /\ made[t] \in CalSlot
  BY <1>9, <1>10
<1>12. made \in Seq(CalSlot) /\ Len(made) = size
  <2>1. DOMAIN made = 1 .. size /\ made = [t \in 1 .. size |-> made[t]] BY <1>10
  <2>2. made \in [1 .. size -> CalSlot] BY <1>11, <2>1
  <2> QED BY <2>2
<1>13. more = made BY <1>8, <1>10
<1> HIDE DEF more
<1>14. more \in Seq(CalSlot) /\ Len(more) = size
       /\ \A t \in 1 .. size : more[t] = SlotOf(config, step.input, FirstSlot(config, Number, k) + t - 1)
  BY <1>4, <1>11, <1>12, <1>13
<1> QED BY <1>5, <1>14 DEF more, buffers

LEMMA CalSendInv ==
  ASSUME CalInv, SendInterval
  PROVE  CalInv'
<1> DEFINE k == step.at
           L == Len(step.intervals)
           buffers == step.intervals[k].buffers
           more == [t \in 1 .. Len(buffers) |-> Restored(buffers[t])]
           size0 == IF k <= step.buffered THEN config.solint ELSE Rest
           next == k + 1
<1>1. /\ step.pc \in {"send", "sendlast"} /\ k <= L
      /\ sent' = sent \o more
      /\ step' = [step EXCEPT !.at = next]
      /\ config' = config /\ fed' = fed /\ finished' = finished
  BY DEF SendInterval, Send, Skip
<1>2. CalTypes /\ CalMain BY DEF CalInv
<1>3. /\ config \in CalConfig /\ step \in CalMembers /\ step.intervals \in Seq(CalInterval)
      /\ Number \in Nat /\ step.buffered \in Nat /\ config.solint \in Nat \ {0} /\ Rest \in Nat
      /\ sent \in Seq(CalSlot) /\ fed \in Nat /\ Rest < config.solint
      /\ (Number + step.buffered) * config.solint + Rest = fed
  BY CalFacts, SMTT(60)
<1>4. /\ k \in 1 .. L + 1
      /\ BatchIs(config, step.intervals, Number, step.buffered, Rest, step.input, L)
      /\ SentIs(config, step.input, sent,
                IF k <= step.buffered + 1 THEN FirstSlot(config, Number, k) ELSE fed)
      /\ SolutionsAre(config, step.input, fed, step.sols, Number + L)
      /\ step.waiting = <<>> /\ (step.pc = "send" => Rest = 0)
      /\ Len(step.input) = fed /\ Rest \in 0 .. config.solint - 1 /\ ~finished
  BY <1>1, <1>2 DEF CalMain
<1>5. k \in 1 .. L /\ k \in Nat \ {0} /\ next \in Nat /\ next \in 1 .. L + 1
  <2>1. k \in 1 .. L + 1 /\ L \in Nat BY <1>3, <1>4, SMTT(60)
  <2>2. k <= L BY <1>1
  <2> HIDE DEF k, L
  <2> QED BY <2>1, <2>2
<1>6. k \in 1 .. step.buffered + 1 BY <1>3, <1>5, <1>4, SMTT(60) DEF BatchIs
<1>7. PICK f \in Nat : f = FirstSlot(config, Number, k)
  <2>1. FirstSlot(config, Number, k) \in Nat BY <1>3, <1>5, FirstSlots
  <2> QED BY <2>1
<1>8. PICK size \in Nat : size = size0 BY <1>3
<1>9. more \in Seq(CalSlot) /\ Len(more) = size
      /\ \A t \in 1 .. size : more[t] = SlotOf(config, step.input, f + t - 1)
  BY <1>1, <1>7, <1>8, ToBeSent
<1>10. SentIs(config, step.input, sent, f)
  <2>1. k <= step.buffered + 1 BY <1>6
  <2> QED BY <1>4, <1>7, <2>1
<1> HIDE DEF more
<1>11. sent' \in Seq(CalSlot) /\ SentIs(config, step.input, sent', f + size)
  BY <1>1, <1>3, <1>9, <1>10, MoreIsSent
<1> HIDE DEF next
<1>12. (IF next <= step.buffered + 1 THEN FirstSlot(config, Number, next) ELSE fed) = f + size
  <2>1. CASE k <= step.buffered
    <3>1. size = config.solint BY <1>8, <2>1
    <3>2. FirstSlot(config, Number, k + 1) = f + config.solint BY <1>3, <1>5, <1>7, FirstSlots
    <3>3. next <= step.buffered + 1 /\ next = k + 1
      <4>1. PICK j \in Nat : j = k BY <1>5
      <4>2. PICK b \in Nat : b = step.buffered BY <1>3
      <4>3. next = j + 1 BY <4>1 DEF next
      <4>4. j <= b BY <2>1, <4>1, <4>2
      <4>5. j + 1 <= b + 1 BY <4>4
      <4> QED BY <4>1, <4>2, <4>3, <4>5
    <3> QED BY <3>1, <3>2, <3>3
  <2>2. CASE ~(k <= step.buffered)
    <3>1. PICK j \in Nat : j = k BY <1>5
    <3>2. PICK b \in Nat : b = step.buffered BY <1>3
    <3>3. j = b + 1 BY <1>6, <2>2, <3>1, <3>2
    <3>4. next = j + 1 BY <3>1 DEF next
    <3>5. ~(next <= step.buffered + 1) BY <3>2, <3>3, <3>4
    <3>6. size = Rest BY <1>8, <2>2
    <3>7. Number + k - 1 = Number + step.buffered BY <1>3, <3>1, <3>2, <3>3
    <3>8. f = (Number + step.buffered) * config.solint BY <1>7, <3>7 DEF FirstSlot
    <3> QED BY <1>3, <3>5, <3>6, <3>8
  <2> QED BY <2>1, <2>2
<1>13. /\ step' \in CalMembers /\ step'.intervals = step.intervals /\ step'.buffered = step.buffered
       /\ step'.nsolints = step.nsolints /\ step'.waiting = step.waiting
       /\ step'.at = next /\ step'.sols = step.sols /\ step'.input = step.input /\ step'.pc = step.pc
  BY <1>1, <1>3, <1>5 DEF CalMembers
<1>14. CalTypes' BY <1>1, <1>2, <1>11, <1>13 DEF CalTypes
<1>15. Number' = Number /\ Rest' = Rest BY <1>1, <1>13 DEF Number, Rest
<1>16. CalMain'
  <2>1. /\ Len(step'.input) = fed' /\ Number' \in Nat /\ Rest' \in 0 .. config'.solint - 1 /\ ~finished'
        /\ step'.pc \in {"send", "sendlast"} /\ (step'.pc = "send" => Rest' = 0)
        /\ step'.at \in 1 .. Len(step'.intervals) + 1 /\ step'.waiting = <<>>
    BY <1>1, <1>3, <1>4, <1>5, <1>13, <1>15
  <2>2. BatchIs(config, step.intervals, Number, step.buffered, Rest, step.input, Len(step.intervals))'
    BY <1>1, <1>4, <1>13, <1>15
  <2>3. SolutionsAre(config, step.input, fed, step.sols, Number + Len(step.intervals))'
    BY <1>1, <1>4, <1>13, <1>15
  <2>4. SentIs(config, step.input, sent,
               IF step.at <= step.buffered + 1 THEN FirstSlot(config, Number, step.at) ELSE fed)'
    BY <1>1, <1>11, <1>12, <1>13, <1>15
  <2> QED BY <2>1, <2>2, <2>3, <2>4 DEF CalMain
<1> QED BY <1>14, <1>16, SMTT(60) DEF CalInv
\* All slots of the batch were sent.
LEMMA BatchIsSent ==
  ASSUME CalInv, step.pc \in {"send", "sendlast"}, step.at > Len(step.intervals)
  PROVE  /\ SentIs(config, step.input, sent, fed)
         /\ SolutionsAre(config, step.input, fed, step.sols,
                         step.nsolints + IF Rest = 0 THEN 0 ELSE 1)
         /\ ~finished /\ step.waiting = <<>>
         /\ step.pc = "send" => Rest = 0
<1> DEFINE L == Len(step.intervals)
<1>1. CalMain BY DEF CalInv
<1>2. /\ config \in CalConfig /\ step.intervals \in Seq(CalInterval)
      /\ Number \in Nat /\ step.buffered \in Nat /\ config.solint \in Nat \ {0} /\ Rest \in Nat
      /\ fed \in Nat /\ step.nsolints = Number + step.buffered
      /\ (Number + step.buffered) * config.solint + Rest = fed
  BY CalFacts
<1>3. /\ step.at \in 1 .. L + 1
      /\ BatchIs(config, step.intervals, Number, step.buffered, Rest, step.input, L)
      /\ SentIs(config, step.input, sent,
                IF step.at <= step.buffered + 1 THEN FirstSlot(config, Number, step.at) ELSE fed)
      /\ SolutionsAre(config, step.input, fed, step.sols, Number + L)
      /\ ~finished /\ step.waiting = <<>> /\ (step.pc = "send" => Rest = 0)
  BY <1>1 DEF CalMain
<1>4. L = step.buffered + IF Rest = 0 THEN 0 ELSE 1 BY <1>3 DEF BatchIs
<1>5. PICK j \in Nat : j = step.at BY <1>3
<1>6. PICK b \in Nat : b = step.buffered BY <1>2
<1>7. PICK l \in Nat : l = L BY <1>2
<1>8. j = l + 1 BY <1>3, <1>5, <1>7
<1> HIDE DEF L
<1>9. CASE Rest = 0
  <2>1. l = b BY <1>4, <1>6, <1>7, <1>9
  <2>2. j = b + 1 /\ j <= b + 1 BY <1>8, <2>1
  <2>3. Number + j - 1 = Number + b BY <1>2, <2>2
  <2>4. FirstSlot(config, Number, j) = (Number + b) * config.solint BY <2>3 DEF FirstSlot
  <2>5. FirstSlot(config, Number, j) = fed
    <3>1. PICK a \in Nat : a = (Number + b) * config.solint /\ a = (Number + step.buffered) * config.solint
      <4>1. (Number + step.buffered) * config.solint \in Nat BY CalFacts
      <4> QED BY <1>6, <4>1
    <3>2. a + 0 = fed BY <1>2, <1>9, <3>1
    <3>3. a = fed BY <3>2
    <3> QED BY <2>4, <3>1, <3>3
  <2>6. SentIs(config, step.input, sent, fed) BY <1>3, <1>5, <1>6, <2>2, <2>5
  <2>7. Number + L = step.nsolints + 0 BY <1>2, <1>6, <1>7, <2>1
  <2>8. SolutionsAre(config, step.input, fed, step.sols, step.nsolints + 0) BY <1>3, <2>7
  <2> QED BY <1>3, <1>9, <2>6, <2>8
<1>10. CASE Rest # 0
  <2>1. l = b + 1 BY <1>4, <1>6, <1>7, <1>10
  <2>2. ~(j <= b + 1) BY <1>8, <2>1
  <2>3. SentIs(config, step.input, sent, fed) BY <1>3, <1>5, <1>6, <2>2
  <2>4. Number + L = step.nsolints + 1
    <3>1. Number + (b + 1) = (Number + b) + 1 BY <1>2
    <3> QED BY <1>2, <1>6, <1>7, <2>1, <3>1
  <2>5. SolutionsAre(config, step.input, fed, step.sols, step.nsolints + 1) BY <1>3, <2>4
  <2> QED BY <1>3, <1>10, <2>3, <2>5
<1> QED BY <1>9, <1>10

\* In the end there is a solution for every whole interval and for the partial one.
LEMMA NumberOfSolutions ==
  ASSUME CalInv
  PROVE  (fed + config.solint - 1) \div config.solint = step.nsolints + IF Rest = 0 THEN 0 ELSE 1
<1>1. /\ config.solint \in Nat \ {0} /\ Rest \in Nat /\ Rest < config.solint /\ fed \in Nat
      /\ step.nsolints \in Nat /\ step.nsolints = Number + step.buffered
      /\ (Number + step.buffered) * config.solint + Rest = fed
  BY CalFacts
<1>2. PICK s \in Nat \ {0} : s = config.solint BY <1>1
<1>3. PICK j \in Nat : j = step.nsolints BY <1>1
<1>4. PICK m \in Nat : m = Rest BY <1>1
<1>5. PICK n \in Nat : n = fed BY <1>1
<1>6. n = j * s + m BY <1>1, <1>2, <1>3, <1>4, <1>5
<1>7. m < s BY <1>1, <1>2, <1>4
<1>8. (n + s - 1) \div s = IF m = 0 THEN j ELSE j + 1 BY <1>6, <1>7, IntervalsOf
<1>9. j + 0 = j OBVIOUS
<1> QED BY <1>2, <1>3, <1>4, <1>5, <1>8, <1>9

LEMMA CalNextBatchInv ==
  ASSUME CalInv, NextBatch
  PROVE  CalInv'
<1> DEFINE none == [d \in Directions |-> <<>>]
<1>1. /\ step.pc = "send" /\ step.at > Len(step.intervals)
      /\ step' = [step EXCEPT !.pc = "process", !.intervals = <<>>, !.buffered = 0,
                              !.results = none, !.vis = [used |-> 0, total |-> 0]]
      /\ sent' = sent /\ config' = config /\ fed' = fed /\ finished' = finished
  BY DEF NextBatch, Skip
<1>2. CalTypes /\ CalMain BY DEF CalInv
<1>3. /\ config \in CalConfig /\ step \in CalMembers /\ Number \in Nat /\ step.nsolints \in Nat
      /\ config.solint \in Nat \ {0} /\ config.count \in Nat \ {0} /\ fed \in Nat
      /\ step.nsolints = Number + step.buffered /\ Len(step.input) = fed
      /\ (Number + step.buffered) * config.solint + Rest = fed
      /\ (Number + step.buffered) * config.solint \in Nat
  BY CalFacts
<1>4. /\ SentIs(config, step.input, sent, fed) /\ ~finished /\ step.waiting = <<>> /\ Rest = 0
      /\ SolutionsAre(config, step.input, fed, step.sols, step.nsolints + IF Rest = 0 THEN 0 ELSE 1)
  BY <1>1, BatchIsSent
<1>5. none \in [Directions -> Seq(Int)]
  <2>1. <<>> \in Seq(Int) OBVIOUS
  <2> QED BY <2>1
<1>6. PICK empty \in Seq(CalInterval) : empty = <<>>
  <2>1. <<>> \in Seq(CalInterval) OBVIOUS
  <2> QED BY <2>1
<1>7. PICK vis \in [used : Int, total : Int] : vis = [used |-> 0, total |-> 0]
  <2>1. [used |-> 0, total |-> 0] \in [used : Int, total : Int] OBVIOUS
  <2> QED BY <2>1
<1> HIDE DEF none
<1>8. step' = [step EXCEPT !.pc = "process", !.intervals = empty, !.buffered = 0,
                           !.results = none, !.vis = vis]
  BY <1>1, <1>6, <1>7
<1>9. /\ step' \in CalMembers /\ step'.intervals = empty /\ step'.buffered = 0
      /\ step'.nsolints = step.nsolints /\ step'.waiting = step.waiting /\ step'.results = none
      /\ step'.sols = step.sols /\ step'.input = step.input /\ step'.pc = "process"
  BY <1>3, <1>5, <1>8 DEF CalMembers
<1>10. CalTypes' BY <1>1, <1>2, <1>9 DEF CalTypes
<1>11. Number' = step.nsolints
  <2>1. Number' = step.nsolints - 0 BY <1>9 DEF Number
  <2> QED BY <1>3, <2>1
<1>12. PICK a \in Nat : a = step.nsolints * config.solint BY <1>3
<1>13. a = fed
  <2>1. a + 0 = fed BY <1>3, <1>4, <1>12
  <2> QED BY <2>1
<1>14. Rest' = 0
  <2>1. Rest' = fed - step.nsolints * config.solint BY <1>1, <1>9 DEF Rest
  <2> QED BY <1>12, <1>13, <2>1
<1>15. /\ Number' * config'.solint = fed /\ fed' - Number' * config'.solint = 0
  <2>1. Number' * config'.solint = a BY <1>1, <1>11, <1>12
  <2> QED BY <1>1, <1>13, <2>1
<1>16. BatchIs(config, step.intervals, Number, step.buffered, Rest, step.input, 0)'
  <2>1. Len(empty) = 0 BY <1>6
  <2>2. BatchIs(config, empty, step.nsolints, 0, 0, step.input, 0) BY <2>1 DEF BatchIs
  <2> QED BY <1>1, <1>9, <1>11, <1>14, <2>2
<1>17. SolutionsAre(config, step.input, fed, step.sols, Number)'
  <2>1. step.nsolints + 0 = step.nsolints BY <1>3
  <2> QED BY <1>1, <1>4, <1>9, <1>11, <2>1
<1>18. SentIs(config, step.input, sent, Number * config.solint)' BY <1>1, <1>4, <1>9, <1>15
<1>19. /\ 1 \in Directions /\ 2 \in Directions BY DEF Directions
<1>20. none[1] = <<>> /\ none[2] = <<>> BY <1>19 DEF none
<1>21. /\ PredictionsAre(step'.results[2], Number' * config'.solint, 0)
       /\ PredictionsAre(step'.results[1], Number' * config'.solint, 0)
       /\ PredictionsAre(step'.waiting, Number' * config'.solint, 0)
       /\ step'.results[1] = <<>> /\ step'.waiting = <<>>
  BY <1>4, <1>9, <1>20 DEF PredictionsAre
<1>22. CalMain'
  <2>1. /\ Len(step'.input) = fed' /\ Number' \in Nat /\ Rest' \in 0 .. config'.solint - 1 /\ ~finished'
        /\ step'.buffered < config'.count
    BY <1>1, <1>3, <1>4, <1>9, <1>11, <1>14
  <2> QED BY <1>9, <1>15, <1>16, <1>17, <1>18, <1>21, <2>1 DEF CalMain
<1> QED BY <1>10, <1>22 DEF CalInv

LEMMA CalFinishInv ==
  ASSUME CalInv, Finish
  PROVE  CalInv'
<1> DEFINE pc == IF step.intervals = <<>> THEN "finish" ELSE "flushlast"
<1>1. /\ step.pc = "process" /\ ~finished
      /\ step' = [step EXCEPT !.pc = pc]
      /\ sent' = sent /\ config' = config /\ fed' = fed /\ finished' = finished
  BY DEF Finish, Skip
<1>2. CalTypes /\ CalMain BY DEF CalInv
<1>3. /\ config \in CalConfig /\ step \in CalMembers /\ Number \in Nat /\ step.nsolints \in Nat
      /\ step.buffered \in Nat /\ config.solint \in Nat \ {0} /\ fed \in Nat /\ Rest \in Nat
      /\ step.nsolints = Number + step.buffered /\ Len(step.input) = fed
      /\ (Number + step.buffered) * config.solint + Rest = fed
      /\ Number * config.solint \in Nat
  BY CalFacts
<1>4. pc \in {"finish", "flushlast"} /\ (pc = "finish" <=> step.intervals = <<>>) OBVIOUS
<1> HIDE DEF pc
<1>5. /\ step' \in CalMembers /\ step'.intervals = step.intervals /\ step'.buffered = step.buffered
      /\ step'.nsolints = step.nsolints /\ step'.waiting = step.waiting /\ step'.results = step.results
      /\ step'.sols = step.sols /\ step'.input = step.input /\ step'.pc = pc
  BY <1>1, <1>3, <1>4 DEF CalMembers
<1>6. CalTypes' BY <1>1, <1>2, <1>5 DEF CalTypes
<1>7. Number' = Number /\ Rest' = Rest BY <1>1, <1>5 DEF Number, Rest
<1> DEFINE first == Number * config.solint
           m == fed - first
<1>8. /\ Len(step.input) = fed /\ Rest \in 0 .. config.solint - 1
      /\ BatchIs(config, step.intervals, Number, step.buffered, Rest, step.input, 0)
      /\ SentIs(config, step.input, sent, first)
      /\ SolutionsAre(config, step.input, fed, step.sols, Number)
      /\ PredictionsAre(step.results[2], first, m)
      /\ config.idg => PredictionsAre(step.waiting, first, m) /\ step.results[1] = <<>>
      /\ ~config.idg => PredictionsAre(step.results[1], first, m) /\ step.waiting = <<>>
  BY <1>1, <1>2 DEF CalMain
<1>9. Number' * config'.solint = first /\ fed' - Number' * config'.solint = m BY <1>1, <1>7
<1> HIDE DEF first, m
<1>10. CASE pc = "flushlast"
  <2>1. /\ BatchIs(config, step.intervals, Number, step.buffered, Rest, step.input, 0)'
        /\ SolutionsAre(config, step.input, fed, step.sols, Number)'
        /\ SentIs(config, step.input, sent, Number * config.solint)'
    BY <1>1, <1>5, <1>7, <1>8, <1>9
  <2>2. /\ PredictionsAre(step.results[2], Number * config.solint, fed - Number * config.solint)'
        /\ config'.idg => PredictionsAre(step.waiting, Number * config.solint, fed - Number * config.solint)'
                          /\ step'.results[1] = <<>>
        /\ ~config'.idg => PredictionsAre(step.results[1], Number * config.solint, fed - Number * config.solint)'
                          /\ step'.waiting = <<>>
    BY <1>1, <1>5, <1>8, <1>9
  <2>3. /\ Len(step'.input) = fed' /\ Number' \in Nat /\ Rest' \in 0 .. config'.solint - 1 /\ ~finished'
        /\ step'.pc = "flushlast"
    BY <1>1, <1>3, <1>5, <1>7, <1>8, <1>10
  <2>4. CalMain' BY <2>1, <2>2, <2>3 DEF CalMain
  <2> QED BY <1>6, <2>4 DEF CalInv
<1>11. CASE pc = "finish"
  <2>1. Len(step.intervals) = 0 BY <1>4, <1>11
  <2>2. step.buffered = 0 /\ Rest = 0 BY <1>3, <1>8, <2>1 DEF BatchIs
  <2>3. step.nsolints = Number BY <1>3, <2>2
  <2>4. first = fed
    <3>1. (Number + step.buffered) * config.solint = first BY <1>3, <2>3 DEF first
    <3>2. PICK a \in Nat : a = first BY <1>3 DEF first
    <3>3. a + 0 = fed BY <1>3, <2>2, <3>1, <3>2
    <3> QED BY <3>2, <3>3
  <2>5. (fed + config.solint - 1) \div config.solint = Number
    <3>1. (fed + config.solint - 1) \div config.solint = step.nsolints + 0 BY <2>2, NumberOfSolutions
    <3> QED BY <1>3, <2>3, <3>1
  <2>6. /\ SentIs(config, step.input, sent, fed)'
        /\ SolutionsAre(config, step.input, fed, step.sols, (fed + config.solint - 1) \div config.solint)'
    BY <1>1, <1>5, <1>8, <2>4, <2>5
  <2>7. /\ Len(step'.input) = fed' /\ Number' \in Nat /\ Rest' \in 0 .. config'.solint - 1
        /\ step'.pc = "finish"
    BY <1>1, <1>3, <1>5, <1>7, <1>8, <1>11
  <2>8. CalMain' BY <2>6, <2>7 DEF CalMain
  <2> QED BY <1>6, <2>8 DEF CalInv
<1> QED BY <1>4, <1>10, <1>11

LEMMA CalClearLastInv ==
  ASSUME CalInv, ClearLast
  PROVE  CalInv'
<1>1. /\ step.pc = "sendlast" /\ step.at > Len(step.intervals)
      /\ step' = [step EXCEPT !.pc = "finish", !.intervals = <<>>]
      /\ sent' = sent /\ config' = config /\ fed' = fed /\ finished' = finished
  BY DEF ClearLast, Skip
<1>2. CalTypes /\ CalMain BY DEF CalInv
<1>3. step \in CalMembers /\ Number \in Nat /\ Len(step.input) = fed BY CalFacts
<1>4. /\ SentIs(config, step.input, sent, fed) /\ ~finished
      /\ SolutionsAre(config, step.input, fed, step.sols, (fed + config.solint - 1) \div config.solint)
  BY <1>1, BatchIsSent, NumberOfSolutions
<1>5. PICK empty \in Seq(CalInterval) : empty = <<>>
  <2>1. <<>> \in Seq(CalInterval) OBVIOUS
  <2> QED BY <2>1
<1>6. /\ step' \in CalMembers /\ step'.buffered = step.buffered /\ step'.nsolints = step.nsolints
      /\ step'.sols = step.sols /\ step'.input = step.input /\ step'.pc = "finish"
  BY <1>1, <1>3, <1>5 DEF CalMembers
<1>7. CalTypes' BY <1>1, <1>2, <1>6 DEF CalTypes
<1>8. Number' = Number /\ Rest' = Rest /\ Rest \in 0 .. config.solint - 1
  BY <1>1, <1>2, <1>6 DEF Number, Rest, CalMain
<1>9. CalMain' BY <1>1, <1>3, <1>4, <1>6, <1>8 DEF CalMain
<1> QED BY <1>7, <1>9 DEF CalInv

LEMMA CalFinishNextInv ==
  ASSUME CalInv, FinishNextStep
  PROVE  CalInv'
<1>1. /\ step.pc = "finish" /\ step' = step /\ sent' = sent /\ config' = config /\ fed' = fed
      /\ finished' = TRUE
  BY DEF FinishNextStep, Ended
<1>2. CalTypes /\ CalMain BY DEF CalInv
<1>3. CalTypes'
  <2>1. finished' \in BOOLEAN BY <1>1
  <2> QED BY <1>1, <1>2, <2>1 DEF CalTypes
<1>4. Number' = Number /\ Rest' = Rest BY <1>1 DEF Number, Rest
<1>5. CalMain' BY <1>1, <1>2, <1>4 DEF CalMain
<1> QED BY <1>3, <1>5 DEF CalInv

LEMMA CalStutterInv ==
  ASSUME CalInv, UNCHANGED calls
  PROVE  CalInv'
<1>1. /\ step' = step /\ sent' = sent /\ config' = config /\ fed' = fed /\ finished' = finished
  BY DEF calls
<1>2. CalTypes /\ CalMain BY DEF CalInv
<1>3. CalTypes' BY <1>1, <1>2 DEF CalTypes
<1>4. Number' = Number /\ Rest' = Rest BY <1>1 DEF Number, Rest
<1>5. CalMain' BY <1>1, <1>2, <1>4 DEF CalMain
<1> QED BY <1>3, <1>5 DEF CalInv
-----------------------------------------------------------------------------
LEMMA CalNextInv ==
  ASSUME CalInv, [CalNext]_calls
  PROVE  CalInv'
<1>1. CASE Process BY <1>1, CalProcessInv
<1>2. CASE FlushPredictions BY <1>2, CalFlushInv
<1>3. CASE SolveInterval BY <1>3, CalSolveInv
<1>4. CASE EndSolve BY <1>4, CalEndSolveInv
<1>5. CASE SendInterval BY <1>5, CalSendInv
<1>6. CASE NextBatch BY <1>6, CalNextBatchInv
<1>7. CASE Finish BY <1>7, CalFinishInv
<1>8. CASE ClearLast BY <1>8, CalClearLastInv
<1>9. CASE FinishNextStep BY <1>9, CalFinishNextInv
<1>10. CASE UNCHANGED calls BY <1>10, CalStutterInv
<1> QED BY <1>1, <1>2, <1>3, <1>4, <1>5, <1>6, <1>7, <1>8, <1>9, <1>10 DEF CalNext

\* In each phase some first slots were sent, in the end all; there are solutions for the first intervals.
LEMMA CalProgress ==
  ASSUME CalInv
  PROVE  /\ \E m \in 0 .. fed : SentIs(config, step.input, sent, m) /\ (finished => m = fed)
         /\ \E n \in 0 .. step.nsolints + (IF Rest = 0 THEN 0 ELSE 1) :
                /\ SolutionsAre(config, step.input, fed, step.sols, n)
                /\ finished => n = (fed + config.solint - 1) \div config.solint
<1> DEFINE last == step.nsolints + (IF Rest = 0 THEN 0 ELSE 1)
           first == Number * config.solint
           L == Len(step.intervals)
<1>1. CalTypes /\ CalMain BY DEF CalInv
<1>2. /\ config \in CalConfig /\ config.solint \in Nat \ {0} /\ fed \in Nat /\ finished \in BOOLEAN
      /\ Number \in Nat /\ step.nsolints \in Nat /\ step.buffered \in Nat
      /\ step.nsolints = Number + step.buffered /\ Rest \in Nat /\ Rest < config.solint
      /\ first \in Nat /\ fed - first \in Nat /\ step.intervals \in Seq(CalInterval)
      /\ (Number + step.buffered) * config.solint + Rest = fed
  BY CalFacts
<1>3. last \in Nat /\ Number \in 0 .. last /\ first \in 0 .. fed
  <2>1. PICK r \in {0, 1} : r = IF Rest = 0 THEN 0 ELSE 1 OBVIOUS
  <2>2. last = Number + step.buffered + r BY <1>2, <2>1
  <2> HIDE DEF last, first
  <2> QED BY <1>2, <2>1, <2>2
<1>4. step.pc \in {"process", "flush", "flushlast", "solve", "solvelast", "send", "sendlast", "finish"}
  BY <1>1 DEF CalTypes, CalMembers
<1>5. CASE step.pc \in {"process", "flush", "flushlast"}
  <2>1. /\ SentIs(config, step.input, sent, first) /\ ~finished
        /\ SolutionsAre(config, step.input, fed, step.sols, Number)
    BY <1>1, <1>5 DEF CalMain
  <2> HIDE DEF last, first
  <2> QED BY <1>3, <2>1 DEF last
<1>6. CASE step.pc \in {"solve", "solvelast"}
  <2>1. /\ SentIs(config, step.input, sent, first) /\ ~finished /\ step.at \in 1 .. L + 1
        /\ SolutionsAre(config, step.input, fed, step.sols, Number + step.at - 1)
        /\ BatchIs(config, step.intervals, Number, step.buffered, Rest, step.input, step.at - 1)
    BY <1>1, <1>6 DEF CalMain
  <2>2. L = step.buffered + IF Rest = 0 THEN 0 ELSE 1 BY <2>1 DEF BatchIs
  <2>3. PICK r \in {0, 1} : r = IF Rest = 0 THEN 0 ELSE 1 OBVIOUS
  <2>4. last = Number + step.buffered + r /\ L = step.buffered + r BY <1>2, <2>2, <2>3
  <2>6. PICK at \in Nat : at = step.at BY <2>1
  <2>7. PICK b \in Nat : b = step.buffered BY <1>2
  <2>8. PICK n \in Nat : n = Number BY <1>2
  <2> HIDE DEF last, first, L
  <2>9. at \in 1 .. b + r + 1 /\ last = n + b + r BY <2>1, <2>4, <2>6, <2>7, <2>8
  <2>10. n + at - 1 \in 0 .. last BY <2>9
  <2>5. Number + step.at - 1 \in 0 .. last BY <2>6, <2>8, <2>10
  <2> QED BY <1>3, <2>1, <2>5 DEF last
<1>7. CASE step.pc \in {"send", "sendlast"}
  <2>1. /\ ~finished /\ step.at \in 1 .. L + 1
        /\ SentIs(config, step.input, sent,
                  IF step.at <= step.buffered + 1 THEN FirstSlot(config, Number, step.at) ELSE fed)
        /\ SolutionsAre(config, step.input, fed, step.sols, Number + L)
        /\ BatchIs(config, step.intervals, Number, step.buffered, Rest, step.input, L)
    BY <1>1, <1>7 DEF CalMain
  <2>2. L = step.buffered + IF Rest = 0 THEN 0 ELSE 1 BY <2>1 DEF BatchIs
  <2>3. PICK r \in {0, 1} : r = IF Rest = 0 THEN 0 ELSE 1 OBVIOUS
  <2>4. last = Number + step.buffered + r /\ L = step.buffered + r BY <1>2, <2>2, <2>3
  <2>5. Number + L \in 0 .. last
    <3> HIDE DEF last, L
    <3> QED BY <1>2, <2>3, <2>4
  <2>6. (IF step.at <= step.buffered + 1 THEN FirstSlot(config, Number, step.at) ELSE fed) \in 0 .. fed
    <3>1. CASE step.at <= step.buffered + 1
      <4>1. PICK cfg \in CalConfig : cfg = config BY <1>2
      <4>2. PICK n \in Nat : n = Number BY <1>2
      <4>3. PICK b \in Nat : b = step.buffered BY <1>2
      <4>4. PICK r0 \in Nat : r0 = Rest BY <1>2
      <4>5. PICK g \in Nat : g = fed BY <1>2
      <4>6. PICK k \in 1 .. b + 1 : k = step.at BY <2>1, <3>1, <4>3
      <4>7. r0 < cfg.solint /\ (n + b) * cfg.solint + r0 = g
        BY <1>2, <4>1, <4>2, <4>3, <4>4, <4>5
      <4>8. PICK z \in Nat : z = (IF k <= b THEN cfg.solint ELSE r0) BY <1>2, <4>1
      <4>9. FirstSlot(cfg, n, k) + z <= g BY <4>7, <4>8, SlotsAreGiven
      <4>10. FirstSlot(cfg, n, k) \in Nat
        <5>1. k \in Nat \ {0} OBVIOUS
        <5> QED BY <5>1, FirstSlots
      <4>11. FirstSlot(cfg, n, k) \in 0 .. g BY <4>9, <4>10
      <4> QED BY <3>1, <4>1, <4>2, <4>5, <4>6, <4>11
    <3>2. CASE ~(step.at <= step.buffered + 1) BY <1>2, <3>2
    <3> QED BY <3>1, <3>2
  <2> HIDE DEF last, L
  <2> QED BY <2>1, <2>5, <2>6 DEF last
<1>8. CASE step.pc = "finish"
  <2>1. /\ SentIs(config, step.input, sent, fed)
        /\ SolutionsAre(config, step.input, fed, step.sols, (fed + config.solint - 1) \div config.solint)
    BY <1>1, <1>8 DEF CalMain
  <2>2. (fed + config.solint - 1) \div config.solint = last BY NumberOfSolutions
  <2>3. fed \in 0 .. fed BY <1>2
  <2> HIDE DEF last
  <2>4. last \in 0 .. last BY <1>3
  <2> QED BY <2>1, <2>2, <2>3, <2>4 DEF last
<1> QED BY <1>4, <1>5, <1>6, <1>7, <1>8

\* An interval that is solved has these slots, and no others.
LEMMA SlotsOfSolved ==
  ASSUME CalInv, NEW n \in Nat, n < step.nsolints + (IF Rest = 0 THEN 0 ELSE 1)
  PROVE  Cardinality(SlotsOf(n)) = SizeOf(config, fed, n)
<1>1. /\ config.solint \in Nat \ {0} /\ fed \in Nat /\ step.nsolints \in Nat /\ Rest \in Nat
      /\ Rest < config.solint /\ step.nsolints = Number + step.buffered
      /\ (Number + step.buffered) * config.solint + Rest = fed
  BY CalFacts
<1>2. PICK s \in Nat \ {0} : s = config.solint BY <1>1
<1>3. PICK j \in Nat : j = step.nsolints BY <1>1
<1>4. PICK r \in Nat : r = Rest BY <1>1
<1>5. PICK g \in Nat : g = fed BY <1>1
<1>6. g = j * s + r /\ r < s BY <1>1, <1>2, <1>3, <1>4, <1>5
<1>7. n < j + IF r = 0 THEN 0 ELSE 1 BY <1>3, <1>4
<1>8. PICK f \in Nat : f = n * s OBVIOUS
<1>9. (n + 1) * s = f + s BY <1>8
<1>10. SizeOf(config, fed, n) = IF f + s <= g THEN s ELSE g - f
  BY <1>2, <1>5, <1>8, <1>9 DEF SizeOf
<1>11. f <= g
  <2>1. n <= j BY <1>7
  <2>2. n * s <= j * s /\ j * s \in Nat BY <2>1, TimesOrder
  <2>3. PICK a \in Nat : a = j * s OBVIOUS
  <2> QED BY <1>6, <1>8, <2>2, <2>3
<1>12. PICK m \in Nat : m = IF f + s <= g THEN s ELSE g - f
  <2>1. g - f \in Nat /\ s \in Nat BY <1>11
  <2> QED BY <2>1
<1>13. m \in 0 .. s /\ f + m <= g /\ (m < s => f + m = g) BY <1>11, <1>12
<1>14. n * s + m <= g /\ (m < s => n * s + m = g) BY <1>8, <1>13
<1>15. Cardinality({x \in n * s .. (n + 1) * s - 1 : x < g}) = m BY <1>13, <1>14, SlotsOfInterval
<1>16. SlotsOf(n) = {x \in n * s .. (n + 1) * s - 1 : x < g} BY <1>2, <1>5 DEF SlotsOf
<1> QED BY <1>10, <1>12, <1>15, <1>16

LEMMA CalInvImplies == CalInv => SlotsMeetTheirInterval
<1> SUFFICES ASSUME CalInv PROVE SlotsMeetTheirInterval
  OBVIOUS
<1> DEFINE last == step.nsolints + (IF Rest = 0 THEN 0 ELSE 1)
           promised == [i \in 1 .. fed |-> PromisedSlot(i - 1)]
<1>1. fed \in Nat /\ step.sols \in Seq(CalSolution) /\ config \in CalConfig /\ step.nsolints \in Nat
      /\ finished \in BOOLEAN
  BY CalFacts
<1>2. PICK m \in 0 .. fed : SentIs(config, step.input, sent, m) /\ (finished => m = fed) BY CalProgress
<1>3. PICK n \in 0 .. last :
        /\ SolutionsAre(config, step.input, fed, step.sols, n)
        /\ finished => n = (fed + config.solint - 1) \div config.solint
  BY CalProgress
<1>4. Keeps(promised)
  <2>1. Len(promised) = fed
    <3> HIDE DEF Keeps
    <3> QED BY <1>1
  <2>2. \A i \in 1 .. fed : promised[i] = SlotOf(config, step.input, i - 1)
    <3> SUFFICES ASSUME NEW i \in 1 .. fed PROVE promised[i] = SlotOf(config, step.input, i - 1)
      OBVIOUS
    <3>1. PromisedSlot(i - 1) = SlotOf(config, step.input, i - 1)
      BY DEF PromisedSlot, SlotOf, MinusOf
    <3> QED BY <3>1
  <2> HIDE DEF promised
  <2>3. Len(sent) = m /\ \A i \in 1 .. m : sent[i] = SlotOf(config, step.input, i - 1)
    BY <1>2 DEF SentIs
  <2>4. \A i \in 1 .. Len(sent) : sent[i] = promised[i]
    <3> SUFFICES ASSUME NEW i \in 1 .. Len(sent) PROVE sent[i] = promised[i]
      OBVIOUS
    <3>1. i \in 1 .. m /\ i \in 1 .. fed BY <1>1, <2>3
    <3> QED BY <2>2, <2>3, <3>1
  <2>5. Len(sent) <= Len(promised) /\ (finished => Len(sent) = Len(promised))
    BY <1>1, <1>2, <2>1, <2>3
  <2> QED BY <2>4, <2>5 DEF Keeps
<1> HIDE DEF promised, last
<1>5. Len(step.sols) = (IF config.mode.only_predict THEN 0 ELSE n) BY <1>3 DEF SolutionsAre
<1>6. DOMAIN step.sols = 1 .. Len(step.sols) BY <1>1
<1>7. ASSUME NEW i \in DOMAIN step.sols PROVE step.sols[i].data = PromisedData(i - 1)
  <2>1. i \in 1 .. Len(step.sols) BY <1>6
  <2>2. PICK j \in Nat : j = i - 1 /\ j < n
    <3>1. i \in 1 .. n BY <1>3, <1>5, <2>1
    <3>2. i - 1 \in Nat /\ i - 1 < n BY <3>1
    <3> QED BY <3>2
  <2>3. step.sols[i].data = DataOf(config, step.input, j, SizeOf(config, fed, j))
    BY <1>3, <2>1, <2>2 DEF SolutionsAre
  <2>4. j < last
    <3>1. last \in Int BY <1>1 DEF last
    <3> QED BY <1>3, <2>2, <3>1
  <2>5. Cardinality(SlotsOf(j)) = SizeOf(config, fed, j) BY <2>4, SlotsOfSolved DEF last
  <2>6. PromisedData(j) = DataOf(config, step.input, j, SizeOf(config, fed, j))
    BY <2>5 DEF PromisedData, DataOf, DatumOf
  <2> QED BY <2>2, <2>3, <2>6
<1>8. finished /\ ~config.mode.only_predict =>
        DOMAIN step.sols = 1 .. (fed + config.solint - 1) \div config.solint
  BY <1>3, <1>5, <1>6
<1> QED BY <1>4, <1>7, <1>8 DEF SlotsMeetTheirInterval, promised

(***************************************************************************)
(* For every solution interval, number of intervals in a batch, mode and   *)
(* number of slots, with predictions that come at once or late: each slot  *)
(* meets the solutions, the model and the flags of its own interval, and   *)
(* is sent once.                                                           *)
(***************************************************************************)
THEOREM EverySlotMeetsItsInterval ==
  ASSUME CalSettings
  PROVE  CalSpec => []SlotsMeetTheirInterval
<1>1. CalInit => CalInv BY CalInitInv
<1>2. CalInv /\ [CalNext]_calls => CalInv' BY CalNextInv
<1>3. CalInv => SlotsMeetTheirInterval BY CalInvImplies
<1> QED BY <1>1, <1>2, <1>3, PTL DEF CalSpec

-----------------------------------------------------------------------------
(***************************************************************************)
(* GainCalAlgorithm: NaNs of flagged stations are not propagated.          *)
(***************************************************************************)
CellsGiven == NCells \in Nat /\ NStations \in Nat

WorkCell ==
    [g : [Stations -> {"zero", "value"}], flagged : SUBSET Stations, unused : SUBSET Stations,
     status : {"NOTCONVERGED", "CONVERGED", "STALLED"}, trend : {"better", "little", "worse"},
     bad : Nat, very_bad : Nat]

\* Without a flag a station has a value, and only the others are flagged.
FlagsAreRight(c) ==
    /\ \A st \in Stations : st \notin c.flagged => c.g[st] = "value"
    /\ \A st \in Stations : Solvable(c, st) => st \notin c.flagged

\* A cell that stalled has no reason to go on.
StallIsKept(c) ==
    /\ c.very_bad <= 3
    /\ c.status = "NOTCONVERGED" => c.bad < 3
    /\ c.status = "STALLED" => c.bad >= 3 /\ c.trend # "better"

InWork(c) == c \in WorkCell /\ FlagsAreRight(c) /\ StallIsKept(c)

LEMMA SweptKeeps ==
  ASSUME NEW c \in WorkCell, FlagsAreRight(c)
  PROVE  /\ Swept(c) \in WorkCell /\ FlagsAreRight(Swept(c))
         /\ Swept(c).status = c.status /\ Swept(c).trend = c.trend
         /\ Swept(c).bad = c.bad /\ Swept(c).very_bad = c.very_bad
<1> DEFINE zero == {st \in Stations \ c.flagged : IsZero(c, st)}
           fl == c.flagged \cup zero
           gains == [st \in Stations |->
                      IF st \in c.flagged THEN c.g[st]
                      ELSE IF \E o \in Stations : c.g[o] = "nan" THEN "nan"
                      ELSE IF st \in zero THEN "zero" ELSE "value"]
<1>1. Swept(c) = [c EXCEPT !.flagged = fl, !.g = gains]
  BY Zenon DEF Swept
<1>2. c.g \in [Stations -> {"zero", "value"}] /\ c.flagged \subseteq Stations
  BY DEF WorkCell
<1>3. fl \in SUBSET Stations BY <1>2
<1>4. \A st \in Stations : gains[st] = IF st \in c.flagged THEN c.g[st] ELSE IF st \in zero THEN "zero" ELSE "value"
  BY <1>2
<1>5. gains \in [Stations -> {"zero", "value"}] BY <1>2, <1>4
<1>6. \A st \in Stations : Solvable(c, st) => st \notin zero
  <2> SUFFICES ASSUME NEW st \in Stations, Solvable(c, st), IsZero(c, st) PROVE FALSE
    OBVIOUS
  <2>1. PICK o \in Stations \ {st} : o \notin c.unused /\ st \notin c.unused BY DEF Solvable
  <2>2. Solvable(c, o) BY <2>1 DEF Solvable
  <2>3. c.g[o] = "value" BY <2>1, <2>2 DEF FlagsAreRight
  <2>4. c.g[o] = "zero" BY <2>1 DEF IsZero
  <2> QED BY <2>3, <2>4
<1>7. \A st \in Stations : st \notin fl => gains[st] = "value" BY <1>4
<1>8. \A st \in Stations : Solvable(c, st) => st \notin fl BY <1>6 DEF FlagsAreRight
<1> HIDE DEF fl, gains, zero
<1> DEFINE w == [c EXCEPT !.flagged = fl, !.g = gains]
<1>9. /\ w \in WorkCell
      /\ w.g = gains /\ w.flagged = fl /\ w.unused = c.unused
      /\ w.status = c.status /\ w.trend = c.trend /\ w.bad = c.bad /\ w.very_bad = c.very_bad
  BY <1>3, <1>5 DEF WorkCell
<1> HIDE DEF w
<1>10. \A st : Solvable(w, st) <=> Solvable(c, st) BY <1>9 DEF Solvable
<1>11. FlagsAreRight(w) BY <1>7, <1>8, <1>9, <1>10 DEF FlagsAreRight
<1>12. Swept(c) = w BY <1>1 DEF w
<1> QED BY <1>9, <1>11, <1>12

LEMMA JudgedKeeps ==
  ASSUME NEW c \in WorkCell, FlagsAreRight(c), StallIsKept(c), c.status # "CONVERGED", NEW i
  PROVE  /\ Judged(c, i) \in WorkCell /\ FlagsAreRight(Judged(c, i))
         /\ HasStalled(Judged(c, i)) => Judged(c, i).trend # "better"
         /\ c.status = "STALLED" => HasStalled(Judged(c, i))
<1> DEFINE j == Judged(c, i)
<1>1. /\ c.status \in {"NOTCONVERGED", "STALLED"} /\ c.trend \in {"better", "little", "worse"}
      /\ c.bad \in Nat /\ c.very_bad \in Nat
  BY DEF WorkCell
<1>2. CASE ~(config.detect_stalling /\ i > 3)
  <2>1. j = c BY <1>2, Zenon DEF Judged
  <2>2. HasStalled(c) => c.trend # "better" BY <1>1 DEF StallIsKept, HasStalled
  <2>3. c.status = "STALLED" => HasStalled(c) BY <1>1 DEF StallIsKept, HasStalled
  <2> QED BY <2>1, <2>2, <2>3
<1>3. CASE config.detect_stalling /\ i > 3
  <2>1. /\ c.trend = "little" => j = [c EXCEPT !.bad = c.bad + 1]
        /\ c.trend = "worse" => j = [c EXCEPT !.very_bad = c.very_bad + 1]
        /\ c.trend = "better" => j = [c EXCEPT !.bad = 0]
    BY <1>3 DEF Judged
  <2> HIDE DEF j
  <2>2. /\ j \in WorkCell /\ j.g = c.g /\ j.flagged = c.flagged /\ j.unused = c.unused
        /\ j.status = c.status /\ j.trend = c.trend
        /\ j.bad = IF c.trend = "little" THEN c.bad + 1 ELSE IF c.trend = "better" THEN 0 ELSE c.bad
        /\ j.very_bad = IF c.trend = "worse" THEN c.very_bad + 1 ELSE c.very_bad
    <3>1. CASE c.trend = "little" BY <2>1, <1>1, <3>1 DEF WorkCell
    <3>2. CASE c.trend = "worse" BY <2>1, <1>1, <3>2 DEF WorkCell
    <3>3. CASE c.trend = "better" BY <2>1, <1>1, <3>3 DEF WorkCell
    <3> QED BY <1>1, <3>1, <3>2, <3>3
  <2>3. \A st : Solvable(j, st) <=> Solvable(c, st) BY <2>2 DEF Solvable
  <2>4. FlagsAreRight(j) BY <2>2, <2>3 DEF FlagsAreRight
  <2>5. HasStalled(j) => j.trend # "better" BY <1>1, <2>2 DEF StallIsKept, HasStalled
  <2>6. c.status = "STALLED" => HasStalled(j) BY <1>1, <2>2 DEF StallIsKept, HasStalled
  <2> QED BY <2>2, <2>4, <2>5, <2>6 DEF j
<1> QED BY <1>2, <1>3

LEMMA RelaxedKeeps ==
  ASSUME NEW c \in WorkCell, FlagsAreRight(c), HasStalled(c) => c.trend # "better",
         NEW converged \in BOOLEAN, NEW trend \in {"little", "worse", "better"},
         NEW mixed \in {"zero", "value"}
  PROVE  /\ InWork(Relaxed(c, converged, trend, mixed))
         /\ HasStalled(c) => Relaxed(c, converged, trend, mixed).status # "NOTCONVERGED"
<1> DEFINE r == Relaxed(c, converged, trend, mixed)
           gains == [st \in Stations |-> IF st \in c.flagged /\ c.g[st] = "zero" THEN mixed
                                         ELSE c.g[st]]
<1>1. c.g \in [Stations -> {"zero", "value"}] /\ c.flagged \subseteq Stations
      /\ c.bad \in Nat /\ c.very_bad \in Nat
  BY DEF WorkCell
<1>2. gains \in [Stations -> {"zero", "value"}]
      /\ \A st \in Stations : st \notin c.flagged => gains[st] = c.g[st]
  BY <1>1
<1>3. /\ HasStalled(c) => r = [c EXCEPT !.status = "STALLED", !.bad = 3, !.very_bad = 0]
      /\ ~HasStalled(c) /\ converged =>
            r = [c EXCEPT !.status = "CONVERGED", !.trend = "better", !.bad = 0, !.very_bad = 0]
      /\ ~HasStalled(c) /\ ~converged =>
            r = [c EXCEPT !.status = "NOTCONVERGED", !.trend = trend, !.g = gains]
  BY Zenon DEF Relaxed
<1> HIDE DEF r, gains
<1>4. /\ r \in WorkCell /\ r.flagged = c.flagged /\ r.unused = c.unused
      /\ \A st \in Stations : st \notin c.flagged => r.g[st] = c.g[st]
      /\ StallIsKept(r)
      /\ HasStalled(c) => r.status # "NOTCONVERGED"
  <2>1. CASE HasStalled(c)
    <3>1. r = [c EXCEPT !.status = "STALLED", !.bad = 3, !.very_bad = 0] BY <1>3, <2>1
    <3>2. /\ r \in WorkCell /\ r.flagged = c.flagged /\ r.unused = c.unused /\ r.g = c.g
          /\ r.status = "STALLED" /\ r.bad = 3 /\ r.very_bad = 0 /\ r.trend = c.trend
      BY <3>1 DEF WorkCell
    <3> QED BY <2>1, <3>2 DEF StallIsKept
  <2>2. CASE ~HasStalled(c) /\ converged
    <3>1. r = [c EXCEPT !.status = "CONVERGED", !.trend = "better", !.bad = 0, !.very_bad = 0]
      BY <1>3, <2>2
    <3>2. /\ r \in WorkCell /\ r.flagged = c.flagged /\ r.unused = c.unused /\ r.g = c.g
          /\ r.status = "CONVERGED" /\ r.bad = 0 /\ r.very_bad = 0
      BY <3>1 DEF WorkCell
    <3> QED BY <2>2, <3>2 DEF StallIsKept
  <2>3. CASE ~HasStalled(c) /\ ~converged
    <3>1. r = [c EXCEPT !.status = "NOTCONVERGED", !.trend = trend, !.g = gains]
      BY <1>3, <2>3
    <3>2. /\ r \in WorkCell /\ r.flagged = c.flagged /\ r.unused = c.unused /\ r.g = gains
          /\ r.status = "NOTCONVERGED" /\ r.bad = c.bad /\ r.very_bad = c.very_bad
      BY <1>2, <3>1 DEF WorkCell
    <3>3. StallIsKept(r) BY <1>1, <2>3, <3>2 DEF StallIsKept, HasStalled
    <3> QED BY <1>2, <2>3, <3>2, <3>3
  <2> QED BY <2>1, <2>2, <2>3
<1>5. \A st : Solvable(r, st) <=> Solvable(c, st) BY <1>4 DEF Solvable
<1>6. FlagsAreRight(r) BY <1>4, <1>5 DEF FlagsAreRight
<1> QED BY <1>4, <1>6 DEF InWork, r

LEMMA SteppedKeeps ==
  ASSUME NEW c, InWork(c), NEW i, NEW converged \in BOOLEAN, NEW trend \in {"little", "worse", "better"},
         NEW mixed \in {"zero", "value"}
  PROVE  /\ InWork(Stepped(c, i, converged, trend, mixed))
         /\ c.status # "NOTCONVERGED" => Stepped(c, i, converged, trend, mixed).status # "NOTCONVERGED"
<1> DEFINE n == Stepped(c, i, converged, trend, mixed)
<1>0. c \in WorkCell /\ FlagsAreRight(c) /\ StallIsKept(c) BY DEF InWork
<1>1. CASE c.status = "CONVERGED"
  <2>1. n = c BY <1>1 DEF Stepped
  <2> QED BY <2>1
<1>2. CASE c.status # "CONVERGED" /\ c.flagged = Stations
  <2>1. n = [c EXCEPT !.status = "CONVERGED"] BY <1>2 DEF Stepped
  <2> HIDE DEF n
  <2>2. /\ n \in WorkCell /\ n.g = c.g /\ n.flagged = c.flagged /\ n.unused = c.unused
        /\ n.status = "CONVERGED" /\ n.very_bad = c.very_bad
    BY <1>0, <2>1 DEF WorkCell
  <2>3. \A st : Solvable(n, st) <=> Solvable(c, st) BY <2>2 DEF Solvable
  <2>4. FlagsAreRight(n) BY <1>0, <2>2, <2>3 DEF FlagsAreRight
  <2>5. StallIsKept(n) BY <1>0, <2>2 DEF StallIsKept
  <2>6. InWork(n) /\ n.status # "NOTCONVERGED" BY <2>2, <2>4, <2>5 DEF InWork
  <2> QED BY <2>6 DEF n
<1>3. CASE c.status # "CONVERGED" /\ c.flagged # Stations
  <2> DEFINE s1 == Swept(c)
             s2 == Swept(s1)
             j == Judged(s2, 2 * i)
  <2>1. /\ s1 \in WorkCell /\ FlagsAreRight(s1) /\ s1.status = c.status /\ s1.trend = c.trend
        /\ s1.bad = c.bad /\ s1.very_bad = c.very_bad
    BY <1>0, SweptKeeps
  <2> HIDE DEF s1
  <2>2. /\ s2 \in WorkCell /\ FlagsAreRight(s2) /\ s2.status = c.status /\ s2.trend = c.trend
        /\ s2.bad = c.bad /\ s2.very_bad = c.very_bad
    BY <2>1, SweptKeeps
  <2> HIDE DEF s2
  <2>3. StallIsKept(s2) BY <1>0, <2>2 DEF StallIsKept
  <2>4. /\ j \in WorkCell /\ FlagsAreRight(j)
        /\ HasStalled(j) => j.trend # "better"
        /\ c.status = "STALLED" => HasStalled(j)
    BY <1>3, <2>2, <2>3, JudgedKeeps
  <2>5. n = Relaxed(j, converged, trend, mixed) BY <1>3, Zenon DEF Stepped, j, s2, s1
  <2> HIDE DEF j, n
  <2>6. InWork(n) /\ (HasStalled(j) => n.status # "NOTCONVERGED") BY <2>4, <2>5, RelaxedKeeps
  <2>7. c.status \in {"NOTCONVERGED", "CONVERGED", "STALLED"} BY <1>0 DEF WorkCell
  <2>8. c.status # "NOTCONVERGED" => n.status # "NOTCONVERGED" BY <1>3, <2>4, <2>6, <2>7
  <2> QED BY <2>6, <2>8 DEF n
<1> QED BY <1>1, <1>2, <1>3

-----------------------------------------------------------------------------
FirstCell == [g : [Stations -> {"nan", "value"}], flagged : SUBSET Stations]
IdleCell == [g : [Stations -> {"nan", "value"}], flagged : SUBSET Stations, unused : SUBSET Stations]

Iterations ==
    [pc : {"idle", "iterate", "end"}, interval : Nat, iter : Nat, cell : 1 .. NCells + 1,
     all : BOOLEAN, cells : [Cells -> FirstCell \cup IdleCell \cup WorkCell], settled : SUBSET Cells]

GainsTypes ==
    /\ config \in [propagate : BOOLEAN, detect_stalling : BOOLEAN]
    /\ step \in Iterations

\* Between calibrations stations have a value, or a NaN where they had a flag.
CellsAreIdle ==
    /\ step.cell = 1 /\ step.all = TRUE /\ step.settled = {} /\ step.iter = 0
    /\ step.interval = 0 => \A c \in Cells : step.cells[c] \in FirstCell
    /\ step.interval > 0 =>
        \A c \in Cells :
            /\ step.cells[c] \in IdleCell
            /\ \A st \in Stations : Solvable(step.cells[c], st) => step.cells[c].g[st] = "value"

CellsAreInWork ==
    /\ \A c \in Cells : InWork(step.cells[c])
    /\ \A c \in step.settled : step.cells[c].status # "NOTCONVERGED"

GainsInv ==
    /\ GainsTypes
    /\ step.pc = "idle" => CellsAreIdle
    /\ step.pc # "idle" => step.interval > 0
    /\ step.pc = "iterate" =>
        /\ CellsAreInWork
        /\ step.all => \A c \in Cells : c < step.cell => c \in step.settled
    /\ step.pc = "end" =>
        /\ CellsAreInWork
        /\ step.cell = 1 /\ step.all = TRUE
        /\ step.iter < MaxIter => step.settled = Cells

LEMMA StartedInWork ==
  ASSUME CellsGiven, NEW c, c.g \in [Stations -> {"nan", "value"}], NEW unused \in SUBSET Stations
  PROVE  InWork(StartedCell(c, unused))
<1> DEFINE w == StartedCell(c, unused)
           gains == StartingGains(c.g, {})
<1>1. gains = [st \in Stations |-> "value"]
  <2> DEFINE asks == {st \in Stations : c.g[st] = "nan"}
  <2>1. \A st \in Stations : c.g[st] = "nan" => \E a \in asks : a <= st
    <3> SUFFICES ASSUME NEW st \in Stations, c.g[st] = "nan" PROVE \E a \in asks : a <= st
      OBVIOUS
    <3>1. st \in asks /\ st <= st BY DEF Stations, CellsGiven
    <3> QED BY <3>1
  <2>2. \A st \in Stations : c.g[st] # "nan" => c.g[st] = "value" OBVIOUS
  <2>3. Stations \ {} = Stations OBVIOUS
  <2>4. gains = IF ~config.propagate \/ (asks # {} /\ AverageUnflaggedSolution(c.g) = "zero")
                THEN [st \in Stations |-> "value"]
                ELSE [st \in Stations |-> IF c.g[st] # "nan" THEN c.g[st]
                                          ELSE IF \E a \in asks : a <= st THEN "value" ELSE "zero"]
    BY <2>3 DEF StartingGains
  <2> HIDE DEF asks, gains
  <2>5. [st \in Stations |-> IF c.g[st] # "nan" THEN c.g[st]
                             ELSE IF \E a \in asks : a <= st THEN "value" ELSE "zero"]
            = [st \in Stations |-> "value"]
    BY <2>1, <2>2
  <2> QED BY <2>4, <2>5
<1>2. w = [g |-> gains, unused |-> unused, flagged |-> {}, status |-> "NOTCONVERGED",
           trend |-> "better", bad |-> 0, very_bad |-> 0]
  BY DEF StartedCell, ClearStationFlagged
<1> HIDE DEF w, gains
<1>3. w \in WorkCell BY <1>1, <1>2 DEF WorkCell
<1>4. FlagsAreRight(w) BY <1>1, <1>2 DEF FlagsAreRight
<1>5. StallIsKept(w) BY <1>2 DEF StallIsKept
<1> QED BY <1>3, <1>4, <1>5 DEF InWork, w

LEMMA GainsInitInv == CellsGiven /\ GainsInit => GainsInv
<1> SUFFICES ASSUME CellsGiven, GainsInit PROVE GainsInv
  OBVIOUS
<1> DEFINE first == [g |-> [st \in Stations |-> "value"], flagged |-> {}]
<1>1. first \in FirstCell BY DEF FirstCell
<1>2. 1 \in 1 .. NCells + 1 BY DEF CellsGiven
<1>3. step = [pc |-> "idle", interval |-> 0, iter |-> 0, cell |-> 1, all |-> TRUE,
              cells |-> [c \in Cells |-> first], settled |-> {}]
  BY DEF GainsInit
<1> HIDE DEF first
<1>4. step \in Iterations BY <1>1, <1>2, <1>3 DEF Iterations
<1>5. CellsAreIdle BY <1>1, <1>3 DEF CellsAreIdle
<1>6. step.pc = "idle" BY <1>3
<1>7. GainsTypes BY <1>4 DEF GainsTypes, GainsInit
<1> QED BY <1>5, <1>6, <1>7 DEF GainsInv

LEMMA CalibrateInv ==
  ASSUME CellsGiven, GainsInv, Calibrate
  PROVE  GainsInv'
<1>1. PICK unused \in [Cells -> SUBSET Stations] :
        step' = [step EXCEPT
            !.pc = "iterate", !.interval = step.interval + 1, !.iter = 0, !.settled = {},
            !.cells = [c \in Cells |-> StartedCell(step.cells[c], unused[c])]]
  BY DEF Calibrate
<1>2. step.pc = "idle" /\ config' = config BY DEF Calibrate
<1>3. step \in Iterations /\ CellsAreIdle BY <1>2 DEF GainsInv, GainsTypes
<1> DEFINE cells == [c \in Cells |-> StartedCell(step.cells[c], unused[c])]
<1>4. \A c \in Cells : InWork(cells[c])
  <2> SUFFICES ASSUME NEW c \in Cells PROVE InWork(StartedCell(step.cells[c], unused[c]))
    OBVIOUS
  <2>1. step.cells[c] \in FirstCell \/ step.cells[c] \in IdleCell
    <3>1. step.interval = 0 \/ step.interval > 0 BY <1>3 DEF Iterations
    <3> QED BY <1>3, <3>1 DEF CellsAreIdle
  <2>2. step.cells[c].g \in [Stations -> {"nan", "value"}] BY <2>1 DEF FirstCell, IdleCell
  <2>3. unused[c] \in SUBSET Stations BY <1>1
  <2> QED BY <2>2, <2>3, StartedInWork
<1>5. cells \in [Cells -> WorkCell] BY <1>4 DEF InWork
<1> HIDE DEF cells
<1>6. step' = [step EXCEPT !.pc = "iterate", !.interval = step.interval + 1, !.iter = 0,
                           !.settled = {}, !.cells = cells]
  BY <1>1 DEF cells
<1>7. /\ step' \in Iterations /\ step'.pc = "iterate" /\ step'.cells = cells /\ step'.settled = {}
      /\ step'.cell = 1 /\ step'.interval > 0
  <2>1. step.interval + 1 \in Nat /\ step.interval + 1 > 0 BY <1>3 DEF Iterations
  <2>2. cells \in [Cells -> FirstCell \cup IdleCell \cup WorkCell] BY <1>5
  <2>3. step.cell = 1 BY <1>3 DEF CellsAreIdle
  <2>4. PICK old \in Iterations : old = step BY <1>3
  <2>5. PICK m \in Nat : m = step.interval + 1 /\ m > 0 BY <2>1
  <2>6. PICK all \in [Cells -> FirstCell \cup IdleCell \cup WorkCell] : all = cells BY <2>2
  <2>7. step' = [old EXCEPT !.pc = "iterate", !.interval = m, !.iter = 0, !.settled = {},
                            !.cells = all]
        /\ old.cell = 1
    BY <1>6, <2>3, <2>4, <2>5, <2>6
  <2> HIDE <1>1, <1>2, <1>3, <1>5, <1>6, <2>1, <2>2, <2>3, <2>4
  <2>8. /\ step' \in Iterations /\ step'.pc = "iterate" /\ step'.cells = all /\ step'.settled = {}
        /\ step'.cell = 1 /\ step'.interval = m
    BY <2>7 DEF Iterations
  <2> QED BY <2>5, <2>6, <2>8
<1>8. CellsAreInWork' BY <1>4, <1>7 DEF CellsAreInWork
<1>9. \A c \in Cells : ~(c < step'.cell) BY <1>7 DEF Cells, CellsGiven
<1> QED BY <1>2, <1>7, <1>8, <1>9, SMTT(60) DEF GainsInv, GainsTypes

LEMMA DoStepInv ==
  ASSUME CellsGiven, GainsInv, DoStep
  PROVE  GainsInv'
<1>1. step.pc = "iterate" /\ step.cell <= NCells /\ config' = config BY DEF DoStep
<1>2. step \in Iterations /\ CellsAreInWork /\ (step.all => \A c \in Cells : c < step.cell => c \in step.settled)
  BY <1>1 DEF GainsInv, GainsTypes
<1> DEFINE k == step.cell
           w == step.cells[k]
<1>3. k \in Cells /\ k + 1 \in 1 .. NCells + 1 BY <1>1, <1>2 DEF Iterations, Cells, CellsGiven
<1>4. PICK converged \in BOOLEAN, trend \in {"little", "worse", "better"}, mixed \in {"zero", "value"} :
        /\ converged => trend = "better" /\ mixed = "zero"
        /\ LET next == Stepped(step.cells[step.cell], step.iter, converged, trend, mixed)
           IN  step' = [step EXCEPT
                        !.cells[step.cell] = next,
                        !.cell = @ + 1,
                        !.settled = IF next.status = "NOTCONVERGED" THEN @
                                    ELSE @ \cup {step.cell},
                        !.all = @ /\ next.status # "NOTCONVERGED"]
  BY Zenon DEF DoStep
<1> DEFINE next == Stepped(w, step.iter, converged, trend, mixed)
           cells == [step.cells EXCEPT ![k] = next]
           settled == IF next.status = "NOTCONVERGED" THEN step.settled ELSE step.settled \cup {k}
           all == step.all /\ next.status # "NOTCONVERGED"
<1>5. InWork(w) BY <1>2, <1>3 DEF CellsAreInWork
<1>6. InWork(next) /\ (w.status # "NOTCONVERGED" => next.status # "NOTCONVERGED")
  <2> HIDE DEF w
  <2> QED BY <1>5, SteppedKeeps
<1>7. step' = [step EXCEPT !.cells = cells, !.cell = k + 1, !.settled = settled, !.all = all]
  BY <1>4
<1> HIDE DEF next
<1>8. cells \in [Cells -> FirstCell \cup IdleCell \cup WorkCell]
      /\ \A c \in Cells : cells[c] = IF c = k THEN next ELSE step.cells[c]
  BY <1>2, <1>3, <1>6 DEF Iterations, InWork
<1>9. settled \in SUBSET Cells BY <1>2, <1>3 DEF Iterations
<1>10. all \in BOOLEAN OBVIOUS
<1>a. settled = step.settled \/ settled = step.settled \cup {k} OBVIOUS
<1>b. k \in settled => next.status # "NOTCONVERGED"
  <2>1. k \in step.settled => w.status # "NOTCONVERGED" BY <1>2 DEF CellsAreInWork
  <2> QED BY <1>6, <2>1
<1>c. all => step.all /\ k \in settled OBVIOUS
<1> HIDE DEF cells, settled, all
<1>11. /\ step' \in Iterations /\ step'.pc = "iterate" /\ step'.cells = cells
       /\ step'.settled = settled /\ step'.cell = k + 1 /\ step'.all = all
       /\ step'.interval = step.interval
  BY <1>1, <1>2, <1>3, <1>7, <1>8, <1>9, <1>10 DEF Iterations
<1>12. CellsAreInWork'
  <2>1. \A c \in Cells : InWork(cells[c]) BY <1>2, <1>6, <1>8 DEF CellsAreInWork
  <2>2. \A c \in settled : cells[c].status # "NOTCONVERGED"
    <3> SUFFICES ASSUME NEW c \in settled PROVE cells[c].status # "NOTCONVERGED"
      OBVIOUS
    <3>1. CASE c = k BY <1>3, <1>8, <1>b, <3>1
    <3>2. CASE c # k
      <4>1. c \in step.settled /\ c \in Cells BY <1>9, <1>a, <3>2
      <4> QED BY <1>2, <1>8, <3>2, <4>1 DEF CellsAreInWork
    <3> QED BY <3>1, <3>2
  <2> QED BY <1>11, <2>1, <2>2 DEF CellsAreInWork
<1>13. all => \A c \in Cells : c < k + 1 => c \in settled
  <2> SUFFICES ASSUME all, NEW c \in Cells, c < k + 1 PROVE c \in settled
    OBVIOUS
  <2>1. c = k \/ c < k BY <1>3 DEF Cells
  <2> QED BY <1>2, <1>a, <1>c, <2>1
<1> QED BY <1>1, <1>11, <1>12, <1>13 DEF GainsInv, GainsTypes

LEMMA EndIterationInv ==
  ASSUME CellsGiven, GainsInv, EndIteration
  PROVE  GainsInv'
<1>1. step.pc = "iterate" /\ step.cell > NCells /\ config' = config BY DEF EndIteration
<1>2. step \in Iterations /\ CellsAreInWork /\ (step.all => \A c \in Cells : c < step.cell => c \in step.settled)
  BY <1>1 DEF GainsInv, GainsTypes
<1> DEFINE iter == IF step.all THEN step.iter ELSE step.iter + 1
           pc == IF step.all \/ step.iter + 1 = MaxIter THEN "end" ELSE "iterate"
<1>3. step' = [step EXCEPT !.iter = iter, !.cell = 1, !.all = TRUE, !.pc = pc]
  BY DEF EndIteration
<1>4. iter \in Nat /\ pc \in {"iterate", "end"} /\ 1 \in 1 .. NCells + 1
  BY <1>2 DEF Iterations, CellsGiven
<1>5. step.all => step.settled = Cells
  <2>1. \A c \in Cells : c < step.cell BY <1>1, <1>2 DEF Iterations, Cells, CellsGiven
  <2>2. step.settled \subseteq Cells BY <1>2 DEF Iterations
  <2> QED BY <1>2, <2>1, <2>2
<1>6. pc = "end" => (iter < MaxIter => step.settled = Cells)
  <2>1. CASE step.all BY <1>5, <2>1
  <2>2. CASE ~step.all
    <3>1. iter = step.iter + 1 /\ (pc = "end" => MaxIter = iter) BY <2>2
    <3> HIDE DEF iter, pc
    <3> QED BY <1>4, <3>1
  <2> QED BY <2>1, <2>2
<1> HIDE DEF iter, pc
<1>7. /\ step' \in Iterations /\ step'.pc = pc /\ step'.cells = step.cells /\ step'.settled = step.settled
      /\ step'.cell = 1 /\ step'.all = TRUE /\ step'.iter = iter /\ step'.interval = step.interval
  BY <1>2, <1>3, <1>4 DEF Iterations
<1>8. CellsAreInWork' BY <1>2, <1>7 DEF CellsAreInWork
<1>9. \A c \in Cells : ~(c < step'.cell) BY <1>7 DEF Cells, CellsGiven
<1> QED BY <1>1, <1>4, <1>6, <1>7, <1>8, <1>9 DEF GainsInv, GainsTypes

LEMMA EndCalibrateInv ==
  ASSUME CellsGiven, GainsInv, EndCalibrate
  PROVE  GainsInv'
<1>1. step.pc = "end" /\ config' = config BY DEF EndCalibrate
<1>2. /\ step \in Iterations /\ CellsAreInWork /\ step.cell = 1 /\ step.all = TRUE /\ step.interval > 0
  BY <1>1 DEF GainsInv, GainsTypes
<1> DEFINE cells == [c \in Cells |-> [g |-> Solution(step.cells[c]),
                                      flagged |-> step.cells[c].flagged,
                                      unused |-> step.cells[c].unused]]
<1>3. step' = [step EXCEPT !.pc = "idle", !.iter = 0, !.settled = {}, !.cells = cells]
  BY DEF EndCalibrate
<1>4. ASSUME NEW c \in Cells
      PROVE  /\ cells[c] \in IdleCell
             /\ \A st \in Stations : Solvable(cells[c], st) => cells[c].g[st] = "value"
  <2> DEFINE w == step.cells[c]
             n == cells[c]
  <2>1. w \in WorkCell /\ FlagsAreRight(w) BY <1>2 DEF CellsAreInWork, InWork
  <2>2. n = [g |-> Solution(w), flagged |-> w.flagged, unused |-> w.unused] OBVIOUS
  <2>3. Solution(w) = [st \in Stations |-> IF st \in w.flagged THEN "nan" ELSE w.g[st]]
    BY DEF Solution
  <2> HIDE DEF w, n
  <2>4. w.flagged \in SUBSET Stations /\ w.unused \in SUBSET Stations BY <2>1 DEF WorkCell
  <2>5. Solution(w) \in [Stations -> {"nan", "value"}] BY <2>1, <2>3 DEF FlagsAreRight
  <2>6. n \in IdleCell BY <2>2, <2>4, <2>5 DEF IdleCell
  <2>7. \A st : Solvable(n, st) <=> Solvable(w, st) BY <2>2 DEF Solvable
  <2>8. \A st \in Stations : Solvable(n, st) => n.g[st] = "value"
    BY <2>1, <2>2, <2>3, <2>7 DEF FlagsAreRight
  <2> QED BY <2>6, <2>8 DEF n
<1>5. cells \in [Cells -> FirstCell \cup IdleCell \cup WorkCell]
  <2>1. \A c \in Cells : cells[c] \in IdleCell BY <1>4
  <2>2. cells = [c \in Cells |-> cells[c]] OBVIOUS
  <2> HIDE DEF cells
  <2> QED BY <2>1, <2>2
<1> HIDE DEF cells
<1>6. /\ step' \in Iterations /\ step'.pc = "idle" /\ step'.cells = cells /\ step'.settled = {}
      /\ step'.cell = 1 /\ step'.all = TRUE /\ step'.iter = 0 /\ step'.interval = step.interval
  BY <1>2, <1>3, <1>5 DEF Iterations
<1>7. step'.interval # 0
  <2>1. step.interval \in Nat BY <1>2 DEF Iterations
  <2> QED BY <1>2, <1>6, <2>1
<1>8. CellsAreIdle' BY <1>4, <1>6, <1>7 DEF CellsAreIdle
<1> QED BY <1>1, <1>6, <1>8 DEF GainsInv, GainsTypes

LEMMA GainsNextInv ==
  ASSUME CellsGiven, GainsInv, [GainsNext]_calls
  PROVE  GainsInv'
<1>1. CASE Calibrate BY <1>1, CalibrateInv
<1>2. CASE DoStep BY <1>2, DoStepInv
<1>3. CASE EndIteration BY <1>3, EndIterationInv
<1>4. CASE EndCalibrate BY <1>4, EndCalibrateInv
<1>5. CASE UNCHANGED calls
  BY <1>5 DEF calls, GainsInv, GainsTypes, CellsAreIdle, CellsAreInWork
<1> QED BY <1>1, <1>2, <1>3, <1>4, <1>5 DEF GainsNext

LEMMA GainsInvIsEnough == GainsInv => NaNsAreNotPropagated /\ CellsSettle
<1> SUFFICES ASSUME GainsInv PROVE NaNsAreNotPropagated /\ CellsSettle
  OBVIOUS
<1>1. step \in Iterations BY DEF GainsInv, GainsTypes
<1>2. NaNsAreNotPropagated
  BY DEF NaNsAreNotPropagated, GainsInv, CellsAreIdle
<1>3. step.pc \in {"idle", "iterate", "end"} BY <1>1 DEF Iterations
<1>4. CellsSettle
  <2>1. CASE step.pc = "idle" BY <2>1 DEF GainsInv, CellsAreIdle, CellsSettle
  <2>2. CASE step.pc = "iterate" BY <2>2 DEF GainsInv, CellsAreInWork, CellsSettle
  <2>3. CASE step.pc = "end" BY <2>3 DEF GainsInv, CellsAreInWork, CellsSettle
  <2> QED BY <1>3, <2>1, <2>2, <2>3
<1> QED BY <1>2, <1>4

(***************************************************************************)
(* For every number of cells, stations, solutions and iterations: a        *)
(* station without data in one interval leaves no NaN behind for the next, *)
(* and a cell that is done stays as it is.                                 *)
(***************************************************************************)
THEOREM FlaggedStationsDoNotSpread ==
  ASSUME CellsGiven
  PROVE  GainsSpec => [](NaNsAreNotPropagated /\ CellsSettle)
<1>1. CellsGiven /\ GainsInit => GainsInv BY GainsInitInv
<1>2. GainsInv /\ [GainsNext]_calls => GainsInv' BY GainsNextInv
<1>3. GainsInv => NaNsAreNotPropagated /\ CellsSettle BY GainsInvIsEnough
<1> QED BY <1>1, <1>2, <1>3, PTL DEF GainsSpec

-----------------------------------------------------------------------------
(***************************************************************************)
(* GainCal: solutions are of the time that they are written with.          *)
(***************************************************************************)
GainSettings ==
    /\ GainSolInts \subseteq Nat
    /\ ChunkSizes \subseteq Nat \ {0}

GainInput == [flagged : BOOLEAN, used : BOOLEAN]
GainSlot == [slot : Int, flagged : BOOLEAN, sol : Int]
GainSolution == [number : Int, vis : Seq(Int), start : Int]
GainRow == [low : Int, high : Int, sol : GainSolution] \cup [middle : Int, sol : GainSolution]

GainMembers ==
    [buf : Seq(GainSlot), vis : Seq(Int), sols : Seq(GainSolution), made : Nat, inUpdate : Nat,
     chunkStart : Int, written : Seq(GainRow), failed : BOOLEAN, input : Seq(GainInput)]

GainTypes ==
    /\ config \in [ntime : Nat \ {0}, solint : Nat \ {0}, chunk : Nat \ {0}, h5 : BOOLEAN,
                   apply : BOOLEAN, propagate : BOOLEAN]
    /\ fed \in 0 .. config.ntime
    /\ finished \in BOOLEAN
    /\ sent \in Seq(GainSlot)
    /\ step \in GainMembers

\* What the matrices hold of m slots from the first on.
VisOf(input, first, m) ==
    [i \in 1 .. m |-> IF input[first + i].used THEN first + i - 1 ELSE -1]

\* Solution k of a whole interval, and the row that is written of it.
SolutionOf(input, k) ==
    [number |-> k, vis |-> VisOf(input, (k - 1) * config.solint, config.solint),
     start |-> IF config.propagate THEN k - 1 ELSE 0]

RowOf(solution, k) ==
    [low |-> (k - 1) * config.solint, high |-> Least(k * config.solint, config.ntime), sol |-> solution]

SlotsAreRight(slots) ==
    \A i \in 1 .. Len(slots) :
        slots[i].slot = i - 1 /\ (config.apply => slots[i].sol = IntervalOf(i - 1))

\* The chunk in memory follows the one that was written; what waits is the
\* interval that is being filled.
GainMain ==
    LET first == step.made * config.solint
        w == Len(step.written)
    IN  /\ Len(step.input) = fed
        /\ first <= fed /\ fed < first + config.solint
        /\ step.vis = VisOf(step.input, first, fed - first)
        /\ step.made = w + step.inUpdate
        /\ Len(step.sols) = step.inUpdate
        /\ \A t \in 1 .. step.inUpdate : step.sols[t] = SolutionOf(step.input, w + t)
        /\ step.chunkStart = w * config.solint
        /\ config.h5 => w = 0
        /\ ~config.h5 => step.inUpdate < config.chunk
        /\ ~config.h5 => \A k \in 1 .. w : step.written[k] = RowOf(SolutionOf(step.input, k), k)
        /\ config.apply => Len(step.buf) = fed - first
        /\ ~config.apply => step.buf = <<>>
        /\ \A i \in 1 .. Len(step.buf) : step.buf[i].slot = first + i - 1
        /\ SlotsAreRight(sent)
        /\ Len(sent) = IF config.apply THEN first ELSE fed

GainInv ==
    /\ GainTypes
    /\ ~finished /\ ~step.failed => GainMain
    /\ finished \/ step.failed => SolutionsAreOfTheirTime

-----------------------------------------------------------------------------
LEMMA VisType ==
  ASSUME NEW input \in Seq(GainInput), NEW first \in Nat, NEW m \in Nat
  PROVE  VisOf(input, first, m) \in Seq(Int) /\ Len(VisOf(input, first, m)) = m
  BY DEF VisOf

LEMMA VisIsKept ==
  ASSUME NEW input \in Seq(GainInput), NEW x \in GainInput, NEW first \in Nat, NEW m \in Nat,
         first + m <= Len(input)
  PROVE  VisOf(Append(input, x), first, m) = VisOf(input, first, m)
<1>1. \A i \in 1 .. m : first + i \in 1 .. Len(input) OBVIOUS
<1>2. \A i \in 1 .. m : Append(input, x)[first + i] = input[first + i]
  BY <1>1, AppendedFacts
<1> QED BY <1>2 DEF VisOf

LEMMA VisGrows ==
  ASSUME NEW input \in Seq(GainInput), NEW x \in GainInput, NEW first \in Nat, NEW m \in Nat,
         first + m = Len(input)
  PROVE  Append(VisOf(input, first, m), IF x.used THEN first + m ELSE -1)
            = VisOf(Append(input, x), first, m + 1)
<1> DEFINE v == VisOf(input, first, m)
           e == IF x.used THEN first + m ELSE -1
           new == VisOf(Append(input, x), first, m + 1)
<1>1. v \in Seq(Int) /\ Len(v) = m BY VisType
<1>2. e \in Int OBVIOUS
<1>3. Append(input, x) \in Seq(GainInput) /\ Append(input, x)[first + m + 1] = x
      /\ \A i \in 1 .. m : Append(input, x)[first + i] = input[first + i]
  <2>1. \A i \in 1 .. m : first + i \in 1 .. Len(input) OBVIOUS
  <2> QED BY <2>1, AppendedFacts
<1>4. new \in Seq(Int) /\ Len(new) = m + 1
  <2>1. m + 1 \in Nat OBVIOUS
  <2>2. PICK in2 \in Seq(GainInput) : in2 = Append(input, x) BY <1>3
  <2>3. VisOf(in2, first, m + 1) \in Seq(Int) /\ Len(VisOf(in2, first, m + 1)) = m + 1
    BY <2>1, VisType
  <2> QED BY <2>2, <2>3
<1>5. \A i \in 1 .. m : new[i] = v[i] BY <1>3 DEF VisOf
<1>6. new[m + 1] = e
  <2>1. new[m + 1] = IF Append(input, x)[first + (m + 1)].used THEN first + (m + 1) - 1 ELSE -1
    BY DEF VisOf
  <2>2. first + (m + 1) = first + m + 1 /\ first + (m + 1) - 1 = first + m OBVIOUS
  <2> QED BY <1>3, <2>1, <2>2
<1> HIDE DEF v, e, new
<1>7. Append(v, e) \in Seq(Int) /\ Len(Append(v, e)) = m + 1
      /\ Append(v, e)[m + 1] = e /\ \A i \in 1 .. m : Append(v, e)[i] = v[i]
  BY <1>1, <1>2, AppendedFacts
<1>8. \A i \in 1 .. m + 1 : Append(v, e)[i] = new[i]
  BY <1>5, <1>6, <1>7
<1>9. Append(v, e) = new
  <2>1. PICK s, t \in Seq(Int) : s = Append(v, e) /\ t = new BY <1>4, <1>7
  <2>2. Len(s) = Len(t) /\ \A i \in 1 .. Len(s) : s[i] = t[i] BY <1>4, <1>7, <1>8, <2>1
  <2>3. s = [i \in 1 .. Len(s) |-> s[i]] /\ t = [i \in 1 .. Len(t) |-> t[i]] OBVIOUS
  <2>4. [i \in 1 .. Len(s) |-> s[i]] = [i \in 1 .. Len(t) |-> t[i]] BY <2>2
  <2> QED BY <2>1, <2>3, <2>4, Zenon
<1> QED BY <1>9 DEF v, e, new

LEMMA SolutionType ==
  ASSUME GainTypes, NEW input \in Seq(GainInput), NEW k \in Nat \ {0}
  PROVE  SolutionOf(input, k) \in GainSolution
<1>1. config.solint \in Nat \ {0} BY DEF GainTypes
<1>2. (k - 1) * config.solint \in Nat
  <2>1. k - 1 \in Nat OBVIOUS
  <2> HIDE DEF SolutionOf
  <2> QED BY <1>1, <2>1
<1>3. VisOf(input, (k - 1) * config.solint, config.solint) \in Seq(Int) BY <1>1, <1>2, VisType
<1> QED BY <1>3 DEF SolutionOf, GainSolution

(* Solutions of whole intervals do not change when another slot comes.      *)
LEMMA SolutionIsKept ==
  ASSUME GainTypes, NEW input \in Seq(GainInput), NEW x \in GainInput, NEW k \in Nat \ {0},
         k * config.solint <= Len(input)
  PROVE  SolutionOf(Append(input, x), k) = SolutionOf(input, k)
<1> DEFINE s == config.solint
           first == (k - 1) * s
<1>1. s \in Nat \ {0} BY DEF GainTypes
<1>2. first = k * s - s /\ first \in Nat
  <2>1. k - 1 \in Nat OBVIOUS
  <2> HIDE DEF s
  <2>2. (k - 1) * s = k * s - s BY <1>1, TimesNext
  <2>3. (k - 1) * s \in Nat BY <1>1, <2>1
  <2> QED BY <2>2, <2>3
<1>3. first + s <= Len(input)
  <2>1. k * s \in Int BY <1>1
  <2>2. k * s <= Len(input) OBVIOUS
  <2> HIDE DEF s, first
  <2> QED BY <1>1, <1>2, <2>1, <2>2
<1>4. VisOf(Append(input, x), first, s) = VisOf(input, first, s)
  <2> HIDE DEF s, first
  <2> QED BY <1>1, <1>2, <1>3, VisIsKept
<1> QED BY <1>4 DEF SolutionOf

LEMMA GainInitInv == GainSettings /\ GainInit => GainInv
<1> SUFFICES ASSUME GainSettings, GainInit PROVE GainInv
  OBVIOUS
<1>1. PICK n \in 1 .. MaxSlots, s \in GainSolInts, c \in ChunkSizes, h5, apply, propagate \in BOOLEAN :
        Start([ntime |-> n, solint |-> IF s = 0 THEN n ELSE s, chunk |-> c, h5 |-> h5,
               apply |-> apply, propagate |-> propagate],
              [buf |-> <<>>, vis |-> <<>>, sols |-> <<>>, made |-> 0, inUpdate |-> 0,
               chunkStart |-> 0, written |-> <<>>, failed |-> FALSE, input |-> <<>>])
  BY DEF GainInit
<1>2. n \in Nat \ {0} /\ c \in Nat \ {0} /\ s \in Nat BY MaxSlotsAssumption DEF GainSettings
<1>3. PICK solint \in Nat \ {0} : solint = IF s = 0 THEN n ELSE s BY <1>2
<1>4. /\ config = [ntime |-> n, solint |-> solint, chunk |-> c, h5 |-> h5,
                   apply |-> apply, propagate |-> propagate]
      /\ step = [buf |-> <<>>, vis |-> <<>>, sols |-> <<>>, made |-> 0, inUpdate |-> 0,
                 chunkStart |-> 0, written |-> <<>>, failed |-> FALSE, input |-> <<>>]
      /\ fed = 0 /\ sent = <<>> /\ finished = FALSE
  BY <1>1, <1>3 DEF Start
<1>5. GainTypes
  <2>1. config \in [ntime : Nat \ {0}, solint : Nat \ {0}, chunk : Nat \ {0}, h5 : BOOLEAN,
                    apply : BOOLEAN, propagate : BOOLEAN]
    BY <1>2, <1>4
  <2>2. step \in GainMembers BY <1>4 DEF GainMembers
  <2>3. fed \in 0 .. config.ntime
    <3>1. config.ntime \in Nat BY <2>1
    <3> QED BY <1>4, <3>1
  <2>4. finished \in BOOLEAN /\ sent \in Seq(GainSlot)
    <3>1. finished = FALSE /\ sent = <<>> BY <1>4
    <3>2. finished \in BOOLEAN BY <3>1
    <3>3. sent \in Seq(GainSlot) BY <3>1
    <3> QED BY <3>2, <3>3
  <2> QED BY <2>1, <2>2, <2>3, <2>4 DEF GainTypes
<1>6. GainMain
  <2>1. /\ step.made = 0 /\ step.input = <<>> /\ step.vis = <<>> /\ step.sols = <<>> /\ step.inUpdate = 0
        /\ step.chunkStart = 0 /\ step.written = <<>> /\ step.buf = <<>>
    BY <1>4
  <2>2. config.solint \in Nat \ {0} /\ config.chunk \in Nat \ {0} BY <1>5 DEF GainTypes
  <2>3. step.made * config.solint = 0
    <3> DEFINE s0 == config.solint
    <3>1. step.made * s0 = 0 * s0 BY <2>1
    <3> HIDE DEF s0
    <3>2. 0 * s0 = 0 BY <2>2 DEF s0
    <3> QED BY <3>1, <3>2 DEF s0
  <2>4. Len(step.written) = 0 /\ Len(step.written) * config.solint = 0
    BY <2>1, <2>3
  <2>5. step.vis = VisOf(step.input, 0, fed - 0)
    <3>1. fed - 0 = 0 BY <1>4
    <3>2. VisOf(step.input, 0, 0) = <<>> BY DEF VisOf
    <3> QED BY <2>1, <3>1, <3>2
  <2>6. SlotsAreRight(sent) BY <1>4 DEF SlotsAreRight
  <2>7. Len(step.input) = fed /\ fed < 0 + config.solint BY <1>4, <2>1, <2>2
  <2> QED BY <1>4, <2>1, <2>2, <2>3, <2>4, <2>5, <2>6, <2>7 DEF GainMain
<1> QED BY <1>4, <1>5, <1>6 DEF GainInv

LEMMA LeastOfParts ==
  ASSUME NEW a \in Nat, NEW b \in Nat, NEW c \in Nat, NEW n \in Nat, b <= c
  PROVE  Least(a + b, Least(a + c, n)) = Least(a + b, n)
  BY DEF Least

(* What calibrate() adds is the solution of the interval that is full, or of   *)
(* what there is of it.                                                       *)
LEMMA RowsOfChunk ==
  ASSUME GainTypes, NEW w \in Nat, NEW n \in Nat, NEW sols \in Seq(GainSolution), Len(sols) = n,
         step.chunkStart = w * config.solint
  PROVE  /\ ParmDBSolutions(sols) \in Seq(GainRow) /\ Len(ParmDBSolutions(sols)) = n
         /\ \A t \in 1 .. n : ParmDBSolutions(sols)[t] = RowOf(sols[t], w + t)
<1> DEFINE s == config.solint
           end == Least(step.chunkStart + n * s, config.ntime)
<1>1. s \in Nat \ {0} /\ config.ntime \in Nat BY DEF GainTypes
<1>2. ASSUME NEW t \in 1 .. n
      PROVE  /\ step.chunkStart + s * (t - 1) = (w + t - 1) * s
             /\ Least(step.chunkStart + s * t, end) = Least((w + t) * s, config.ntime)
             /\ (w + t - 1) * s \in Nat /\ (w + t) * s \in Nat
  <2>1. w * s \in Nat /\ t * s \in Nat /\ n * s \in Nat /\ t * s <= n * s
    <3> HIDE DEF s
    <3> QED BY <1>1, TimesOrder
  <2>2. s * t = t * s /\ s * (t - 1) = t * s - s
    <3> HIDE DEF s
    <3> QED BY <1>1
  <2>3. (w + t) * s = w * s + t * s /\ (w + t - 1) * s = w * s + t * s - s
    <3> HIDE DEF s
    <3> QED BY <1>1
  <2>4. t * s - s \in Nat
    <3>1. t - 1 \in Nat OBVIOUS
    <3> HIDE DEF s
    <3>2. (t - 1) * s \in Nat BY <1>1, <3>1
    <3>3. (t - 1) * s = t * s - s BY <1>1
    <3> QED BY <3>2, <3>3
  <2>5. step.chunkStart = w * s OBVIOUS
  <2>6. end = Least(w * s + n * s, config.ntime) BY <2>5
  <2> HIDE DEF s, end
  <2>7. PICK a \in Nat, b \in Nat, c \in Nat : a = w * s /\ b = t * s /\ c = n * s BY <2>1
  <2>8. Least(a + b, end) = Least(a + b, config.ntime)
    <3>1. end = Least(a + c, config.ntime) /\ b <= c BY <2>1, <2>6, <2>7
    <3>2. PICK n0 \in Nat : n0 = config.ntime BY <1>1
    <3>3. Least(a + b, Least(a + c, n0)) = Least(a + b, n0) BY <3>1 DEF Least
    <3> QED BY <3>1, <3>2, <3>3
  <2>9. step.chunkStart + s * t = a + b /\ (w + t) * s = a + b BY <2>2, <2>3, <2>5, <2>7
  <2>10. step.chunkStart + s * (t - 1) = a + b - s /\ (w + t - 1) * s = a + b - s
    BY <1>1, <2>2, <2>3, <2>5, <2>7
  <2>11. a + b - s \in Nat BY <1>1, <2>4, <2>7
  <2> QED BY <2>8, <2>9, <2>10, <2>11
<1>3. ChunkEnd(sols) = end BY DEF ChunkEnd
<1>4. ParmDBSolutions(sols) = [t \in 1 .. n |->
        [low |-> step.chunkStart + s * (t - 1), high |-> Least(step.chunkStart + s * t, end),
         sol |-> sols[t]]]
  BY <1>3 DEF ParmDBSolutions
<1>5. ASSUME NEW t \in 1 .. n
      PROVE  /\ ParmDBSolutions(sols)[t] = RowOf(sols[t], w + t)
             /\ RowOf(sols[t], w + t) \in GainRow
  <2>1. ParmDBSolutions(sols)[t] = [low |-> (w + t - 1) * s, high |-> Least((w + t) * s, config.ntime),
                               sol |-> sols[t]]
    <3> HIDE DEF s, end
    <3> QED BY <1>2, <1>4
  <2>2. RowOf(sols[t], w + t) = [low |-> (w + t - 1) * s, high |-> Least((w + t) * s, config.ntime),
                                 sol |-> sols[t]]
    BY DEF RowOf
  <2>3. sols[t] \in GainSolution OBVIOUS
  <2>4. Least((w + t) * s, config.ntime) \in Int
    <3> HIDE DEF s
    <3> QED BY <1>1, <1>2 DEF Least
  <2>5. (w + t - 1) * s \in Int
    <3> HIDE DEF s, end
    <3>1. (w + t - 1) * s \in Nat BY <1>2, Zenon
    <3> QED BY <3>1
  <2> HIDE DEF s
  <2> QED BY <2>1, <2>2, <2>3, <2>4, <2>5 DEF GainRow
<1>6. ParmDBSolutions(sols) = [t \in 1 .. n |-> RowOf(sols[t], w + t)]
  <2> HIDE DEF s, end
  <2> QED BY <1>4, <1>5
<1> QED BY <1>5, <1>6

(* Slots of an interval that its solution is applied to.                     *)
LEMMA AppliedSlots ==
  ASSUME GainTypes, NEW buf \in Seq(GainSlot), NEW j \in Nat, Len(buf) <= config.solint,
         \A i \in 1 .. Len(buf) : buf[i].slot = j * config.solint + i - 1
  PROVE  /\ Applied(buf, j + 1) \in Seq(GainSlot) /\ Len(Applied(buf, j + 1)) = Len(buf)
         /\ \A i \in 1 .. Len(buf) :
               /\ Applied(buf, j + 1)[i].slot = j * config.solint + i - 1
               /\ Applied(buf, j + 1)[i].sol = IntervalOf(j * config.solint + i - 1)
<1> DEFINE s == config.solint
<1>1. s \in Nat \ {0} /\ j * s \in Nat
  <2>1. s \in Nat \ {0} BY DEF GainTypes
  <2> HIDE DEF s
  <2> QED BY <2>1
<1>2. Applied(buf, j + 1) = [i \in 1 .. Len(buf) |-> [buf[i] EXCEPT !.sol = j + 1]]
  BY DEF Applied
<1>3. ASSUME NEW i \in 1 .. Len(buf)
      PROVE  /\ Applied(buf, j + 1)[i] \in GainSlot
             /\ Applied(buf, j + 1)[i].slot = j * s + i - 1
             /\ Applied(buf, j + 1)[i].sol = IntervalOf(j * s + i - 1)
  <2>1. PICK e \in GainSlot : e = buf[i] OBVIOUS
  <2>2. Applied(buf, j + 1)[i] = [e EXCEPT !.sol = j + 1] BY <1>2, <2>1
  <2>3. [e EXCEPT !.sol = j + 1] \in GainSlot /\ [e EXCEPT !.sol = j + 1].slot = e.slot
        /\ [e EXCEPT !.sol = j + 1].sol = j + 1
    <3>1. PICK n \in Int : n = j + 1 OBVIOUS
    <3>2. [e EXCEPT !.sol = n] \in GainSlot /\ [e EXCEPT !.sol = n].slot = e.slot
          /\ [e EXCEPT !.sol = n].sol = n
      BY DEF GainSlot
    <3> QED BY <3>1, <3>2
  <2>4. e.slot = j * s + i - 1 BY <2>1
  <2>5. IntervalOf(j * s + i - 1) = j + 1
    <3>1. i - 1 \in Nat /\ i - 1 < s
      <4> HIDE DEF s
      <4>1. Len(buf) <= s BY DEF s
      <4> QED BY <1>1, <4>1
    <3>2. (j * s + i - 1) \div s = j
      <4> HIDE DEF s
      <4>1. PICK a \in Nat : a = j * s BY <1>1
      <4>2. PICK x \in Nat : x = a + i - 1 BY <3>1
      <4>3. a <= x /\ x < a + s BY <1>1, <3>1, <4>2
      <4>4. j * s <= x /\ x < j * s + s BY <4>1, <4>3
      <4>5. x \div s = j BY <1>1, <4>4, QuotientIs
      <4> QED BY <4>1, <4>2, <4>5
    <3> QED BY <3>2 DEF IntervalOf
  <2> HIDE DEF s
  <2> QED BY <2>2, <2>3, <2>4, <2>5
<1>4. Applied(buf, j + 1) \in Seq(GainSlot) /\ Len(Applied(buf, j + 1)) = Len(buf)
  BY <1>2, <1>3
<1> QED BY <1>3, <1>4

LEMMA SentIsRight ==
  ASSUME GainTypes, SlotsAreRight(sent), NEW out \in Seq(GainSlot),
         \A i \in 1 .. Len(out) :
            out[i].slot = Len(sent) + i - 1
            /\ (config.apply => out[i].sol = IntervalOf(Len(sent) + i - 1))
  PROVE  /\ sent \o out \in Seq(GainSlot) /\ Len(sent \o out) = Len(sent) + Len(out)
         /\ SlotsAreRight(sent \o out)
<1>1. PICK old \in Seq(GainSlot) : old = sent BY DEF GainTypes
<1>2. old \o out \in Seq(GainSlot) /\ Len(old \o out) = Len(old) + Len(out)
      /\ (\A i \in 1 .. Len(old) : (old \o out)[i] = old[i])
      /\ \A i \in 1 .. Len(out) : (old \o out)[Len(old) + i] = out[i]
  BY JoinedFacts
<1> DEFINE new == old \o out
<1>3. ASSUME NEW i \in 1 .. Len(new)
      PROVE  new[i].slot = i - 1 /\ (config.apply => new[i].sol = IntervalOf(i - 1))
  <2> HIDE DEF new
  <2>1. CASE i <= Len(old)
    <3>1. i \in 1 .. Len(old) BY <2>1
    <3>2. new[i] = old[i] BY <1>2, <3>1 DEF new
    <3> QED BY <1>1, <3>1, <3>2 DEF SlotsAreRight
  <2>2. CASE i > Len(old)
    <3>1. PICK k \in 1 .. Len(out) : i = Len(old) + k
      <4>1. i - Len(old) \in 1 .. Len(out) /\ i = Len(old) + (i - Len(old)) BY <1>2, <2>2 DEF new
      <4> QED BY <4>1
    <3>2. new[i] = out[k] BY <1>2, <3>1 DEF new
    <3>3. Len(sent) + k - 1 = i - 1 BY <1>1, <3>1
    <3> QED BY <3>2, <3>3
  <2> QED BY <2>1, <2>2
<1>4. SlotsAreRight(new)
  <2> HIDE DEF new
  <2> QED BY <1>3 DEF SlotsAreRight
<1> QED BY <1>1, <1>2, <1>4

LEMMA GainProcessInv ==
  ASSUME GainInv, ~step.failed, GainProcess
  PROVE  GainInv'
<1>1. PICK flagged \in BOOLEAN, uvwflagged \in BOOLEAN :
        LET b == [slot |-> fed, flagged |-> flagged \/ uvwflagged, sol |-> 0]
            buf == Append(step.buf, b)
            vis == Append(step.vis, IF b.flagged THEN -1 ELSE fed)
            full == Len(vis) = config.solint
            sols == IF full THEN Calibrated(vis) ELSE step.sols
            made == step.made + IF full THEN 1 ELSE 0
            inUpdate == step.inUpdate + IF full THEN 1 ELSE 0
            write == ~config.h5 /\ inUpdate = config.chunk
        IN  /\ Processed([step EXCEPT
                  !.buf = IF config.apply /\ ~full THEN buf ELSE <<>>,
                  !.vis = IF full THEN <<>> ELSE vis,
                  !.sols = IF write THEN <<>> ELSE sols,
                  !.made = made,
                  !.inUpdate = IF write THEN 0 ELSE inUpdate,
                  !.chunkStart = IF write THEN NextChunkStart ELSE @,
                  !.written = IF write THEN @ \o ParmDBSolutions(sols) ELSE @,
                  !.input = Append(@, [flagged |-> flagged, used |-> ~b.flagged])])
            /\ Send(IF ~config.apply THEN <<b>> ELSE IF full THEN Applied(buf, made) ELSE <<>>)
  BY Zenon DEF GainProcess
<1> DEFINE s == config.solint
           first == step.made * s
           m == fed - first
           w == Len(step.written)
           b == [slot |-> fed, flagged |-> flagged \/ uvwflagged, sol |-> 0]
           x == [flagged |-> flagged, used |-> ~b.flagged]
           buf == Append(step.buf, b)
           vis == Append(step.vis, IF b.flagged THEN -1 ELSE fed)
           full == Len(vis) = s
           sols == IF full THEN Calibrated(vis) ELSE step.sols
           made == step.made + IF full THEN 1 ELSE 0
           inUpdate == step.inUpdate + IF full THEN 1 ELSE 0
           write == ~config.h5 /\ inUpdate = config.chunk
           nbuf == IF config.apply /\ ~full THEN buf ELSE <<>>
           nvis == IF full THEN <<>> ELSE vis
           nsols == IF write THEN <<>> ELSE sols
           nupdate == IF write THEN 0 ELSE inUpdate
           nstart == IF write THEN NextChunkStart ELSE step.chunkStart
           nwritten == IF write THEN step.written \o ParmDBSolutions(sols) ELSE step.written
           ninput == Append(step.input, x)
           out == IF ~config.apply THEN <<b>> ELSE IF full THEN Applied(buf, made) ELSE <<>>
<1>2. /\ step' = [step EXCEPT !.buf = nbuf, !.vis = nvis, !.sols = nsols, !.made = made,
                              !.inUpdate = nupdate, !.chunkStart = nstart, !.written = nwritten,
                              !.input = ninput]
      /\ sent' = sent \o out
      /\ ~finished /\ fed < config.ntime /\ fed' = fed + 1 /\ config' = config /\ finished' = finished
  BY <1>1 DEF Processed, Given, Send
<1>3. /\ GainTypes /\ GainMain
  BY <1>2 DEF GainInv
<1>4. /\ s \in Nat \ {0} /\ config.ntime \in Nat /\ config.chunk \in Nat \ {0} /\ fed \in Nat
      /\ config.h5 \in BOOLEAN /\ config.apply \in BOOLEAN
      /\ step \in GainMembers /\ step.made \in Nat /\ step.inUpdate \in Nat /\ step.input \in Seq(GainInput)
      /\ step.buf \in Seq(GainSlot) /\ step.vis \in Seq(Int) /\ step.sols \in Seq(GainSolution)
      /\ step.written \in Seq(GainRow) /\ sent \in Seq(GainSlot) /\ step.chunkStart \in Int
  BY <1>3 DEF GainTypes, GainMembers
<1>5. first \in Nat
  <2> HIDE DEF s
  <2> QED BY <1>4
<1>6. /\ m \in Nat /\ m < s /\ first + m = fed /\ Len(step.input) = fed
      /\ step.vis = VisOf(step.input, first, m) /\ Len(step.vis) = m
  <2>1. first <= fed /\ fed < first + s /\ Len(step.input) = fed
        /\ step.vis = VisOf(step.input, first, m)
    BY <1>3 DEF GainMain
  <2> HIDE DEF s, first
  <2>2. m \in Nat /\ m < s /\ first + m = fed BY <1>4, <1>5, <2>1
  <2> HIDE DEF m
  <2> QED BY <1>4, <1>5, <2>1, <2>2, VisType
<1>7. b \in GainSlot /\ x \in GainInput /\ x.used = ~b.flagged /\ b.slot = fed /\ b.sol = 0
  BY <1>4 DEF GainSlot, GainInput
<1>8. ninput \in Seq(GainInput) /\ Len(ninput) = fed + 1
  <2> HIDE DEF x
  <2> QED BY <1>4, <1>6, <1>7, AppendedFacts
<1>9. vis = VisOf(ninput, first, m + 1) /\ vis \in Seq(Int) /\ Len(vis) = m + 1
  <2> DEFINE e == IF b.flagged THEN -1 ELSE fed
             e2 == IF x.used THEN first + m ELSE -1
  <2>1. e = e2 BY <1>6, <1>7
  <2>2. e \in Int BY <1>4
  <2>3. vis = Append(step.vis, e) OBVIOUS
  <2> HIDE DEF s, first, m, b, x, vis
  <2>4. Append(VisOf(step.input, first, m), e2) = VisOf(Append(step.input, x), first, m + 1)
    <3>1. PICK i0 \in Seq(GainInput) : i0 = step.input BY <1>4
    <3>2. PICK x0 \in GainInput : x0 = x BY <1>7
    <3>3. PICK f0 \in Nat : f0 = first BY <1>5
    <3>4. PICK m0 \in Nat : m0 = m BY <1>6
    <3>5. f0 + m0 = Len(i0) BY <1>6, <3>1, <3>3, <3>4
    <3>6. Append(VisOf(i0, f0, m0), IF x0.used THEN f0 + m0 ELSE -1) = VisOf(Append(i0, x0), f0, m0 + 1)
      BY <3>5, VisGrows, Zenon
    <3> QED BY <3>1, <3>2, <3>3, <3>4, <3>6, Zenon DEF e2
  <2> HIDE DEF e, e2
  <2>5. Append(step.vis, e) \in Seq(Int) /\ Len(Append(step.vis, e)) = m + 1
    BY <1>4, <1>6, <2>2, AppendedFacts, SMTT(60)
  <2> QED BY <1>6, <2>1, <2>3, <2>4, <2>5, SMTT(60) DEF ninput
<1>10. full <=> m + 1 = s BY <1>9
<1>11. /\ step.made = w + step.inUpdate /\ Len(step.sols) = step.inUpdate /\ w \in Nat
       /\ \A t \in 1 .. step.inUpdate : step.sols[t] = SolutionOf(step.input, w + t)
       /\ step.chunkStart = w * s /\ (config.h5 => w = 0)
       /\ ~config.h5 => step.inUpdate < config.chunk
       /\ ~config.h5 => \A k \in 1 .. w : step.written[k] = RowOf(SolutionOf(step.input, k), k)
  <2>1. w \in Nat BY <1>4
  <2> QED BY <1>3, <2>1, Zenon DEF GainMain
<1> DEFINE mm == step.made
           nn == step.inUpdate
<1>110. mm = w + nn /\ w \in Nat /\ nn \in Nat /\ mm \in Nat /\ (~config.h5 => nn < config.chunk)
  BY <1>4, <1>11
<1>12. \A k \in 1 .. step.made : SolutionOf(ninput, k) = SolutionOf(step.input, k)
  <2> SUFFICES ASSUME NEW k \in 1 .. step.made PROVE SolutionOf(ninput, k) = SolutionOf(step.input, k)
    OBVIOUS
  <2>1. k \in Nat \ {0} /\ k <= step.made BY <1>4
  <2>2. k * s <= first
    <3> HIDE DEF s
    <3> QED BY <1>4, <2>1, TimesOrder
  <2>3. k * s \in Nat
    <3> HIDE DEF s
    <3> QED BY <1>4, <2>1
  <2>4. k * s <= Len(step.input)
    <3> HIDE DEF s, first, m
    <3> QED BY <1>4, <1>5, <1>6, <2>2, <2>3
  <2>5. k * config.solint <= Len(step.input) BY <2>4
  <2> HIDE DEF x, s, first
  <2> QED BY <1>3, <1>4, <1>7, <2>1, <2>5, SolutionIsKept
<1>13. ASSUME full
       PROVE  /\ Calibrated(vis) = Append(step.sols, SolutionOf(ninput, step.made + 1))
              /\ (step.made + 1) * s = fed + 1
  <2>1. m + 1 = s BY <1>10, <1>13
  <2>2. (step.made + 1) * s = first + s
    <3> HIDE DEF s
    <3> QED BY <1>4
  <2>3. first + s = fed + 1
    <3> HIDE DEF s, first, m
    <3> QED BY <1>4, <1>5, <1>6, <2>1
  <2>4. SolutionOf(ninput, step.made + 1) =
            [number |-> step.made + 1, vis |-> VisOf(ninput, ((step.made + 1) - 1) * s, s),
             start |-> IF config.propagate THEN (step.made + 1) - 1 ELSE 0]
    <3> HIDE DEF ninput
    <3> QED BY Zenon DEF SolutionOf, s
  <2>5. (step.made + 1) - 1 = step.made BY <1>4
  <2>6. vis = VisOf(ninput, step.made * s, s) BY <1>9, <2>1
  <2>7. Calibrated(vis) = Append(step.sols,
            [number |-> step.made + 1, vis |-> vis,
             start |-> IF config.propagate THEN step.made ELSE 0])
    BY DEF Calibrated
  <2> HIDE DEF s, vis, ninput
  <2> QED BY <2>2, <2>3, <2>4, <2>5, <2>6, <2>7 DEF first
<1>14. /\ sols \in Seq(GainSolution) /\ Len(sols) = inUpdate
       /\ \A t \in 1 .. inUpdate : sols[t] = SolutionOf(ninput, w + t)
       /\ made = w + inUpdate /\ made \in Nat /\ inUpdate \in Nat
       /\ inUpdate = step.inUpdate + IF full THEN 1 ELSE 0
  <2>1. CASE full
    <3> DEFINE new == SolutionOf(ninput, step.made + 1)
    <3>1. sols = Append(step.sols, new) /\ inUpdate = step.inUpdate + 1 /\ made = step.made + 1
      BY <1>13, <2>1
    <3>2. new \in GainSolution
      <4>1. step.made + 1 \in Nat \ {0} BY <1>4
      <4> HIDE DEF ninput
      <4> QED BY <1>3, <1>8, <4>1, SolutionType, SMTT(60)
    <3> HIDE DEF new, sols, made, inUpdate, w, full, ninput, s, first, m
    <3>3. sols \in Seq(GainSolution) /\ Len(sols) = step.inUpdate + 1
          /\ sols[step.inUpdate + 1] = new /\ \A t \in 1 .. step.inUpdate : sols[t] = step.sols[t]
      <4>1. PICK ss \in Seq(GainSolution) : ss = step.sols BY <1>4
      <4>2. PICK e \in GainSolution : e = new BY <3>2
      <4>3. Append(ss, e) \in Seq(GainSolution) /\ Len(Append(ss, e)) = Len(ss) + 1
            /\ Append(ss, e)[Len(ss) + 1] = e /\ \A i \in 1 .. Len(ss) : Append(ss, e)[i] = ss[i]
        BY AppendedFacts
      <4>4. Len(ss) = step.inUpdate /\ sols = Append(ss, e) BY <1>11, <3>1, <4>1, <4>2
      <4> QED BY <4>1, <4>2, <4>3, <4>4, Zenon
    <3>4. ASSUME NEW t \in 1 .. inUpdate
          PROVE  sols[t] = SolutionOf(ninput, w + t)
      <4>1. CASE t = step.inUpdate + 1
        <5>1. w + t = step.made + 1 BY <1>4, <1>11, <4>1
        <5> QED BY <3>3, <4>1, <5>1 DEF new
      <4>2. CASE t # step.inUpdate + 1
        <5>1. t \in 1 .. step.inUpdate BY <1>4, <3>1, <4>2
        <5>2. w + t \in 1 .. step.made BY <1>4, <1>11, <5>1
        <5>3. sols[t] = SolutionOf(step.input, w + t) BY <1>11, <3>3, <5>1
        <5>4. SolutionOf(ninput, w + t) = SolutionOf(step.input, w + t) BY <1>12, <5>2
        <5> QED BY <5>3, <5>4
      <4> QED BY <4>1, <4>2
    <3>5. made = w + inUpdate /\ made \in Nat /\ inUpdate \in Nat /\ Len(sols) = inUpdate
      <4>1. inUpdate = nn + 1 /\ made = mm + 1 /\ Len(sols) = nn + 1 BY <3>1, <3>3
      <4> HIDE DEF mm, nn
      <4> QED BY <1>110, <4>1
    <3>6. inUpdate = step.inUpdate + IF full THEN 1 ELSE 0 BY <2>1, <3>1
    <3> QED BY <3>3, <3>4, <3>5, <3>6, Zenon
  <2>2. CASE ~full
    <3>1. sols = step.sols /\ inUpdate = step.inUpdate /\ made = step.made BY <1>4, <2>2
    <3> HIDE DEF sols, made, inUpdate, w, full, ninput, s, first, m
    <3>2. ASSUME NEW t \in 1 .. inUpdate
          PROVE  sols[t] = SolutionOf(ninput, w + t)
      <4>1. w + t \in 1 .. step.made
        <5>1. t \in 1 .. nn BY <3>1
        <5> HIDE DEF mm, nn
        <5>2. w + t \in 1 .. mm BY <1>110, <5>1
        <5> QED BY <5>2 DEF mm
      <4>2. SolutionOf(ninput, w + t) = SolutionOf(step.input, w + t) BY <1>12, <4>1
      <4>3. sols[t] = SolutionOf(step.input, w + t) BY <1>11, <3>1
      <4> QED BY <4>2, <4>3
    <3>3. inUpdate = step.inUpdate + IF full THEN 1 ELSE 0 BY <1>4, <2>2, <3>1
    <3>4. sols \in Seq(GainSolution) /\ Len(sols) = inUpdate /\ made = w + inUpdate /\ made \in Nat
          /\ inUpdate \in Nat
      BY <1>4, <1>11, <3>1
    <3> QED BY <3>2, <3>3, <3>4, Zenon
  <2> QED BY <2>1, <2>2
<1> DEFINE nw == IF write THEN w + inUpdate ELSE w
<1>15. /\ nsols \in Seq(GainSolution) /\ nwritten \in Seq(GainRow) /\ nstart \in Int /\ nupdate \in Nat
       /\ nw \in Nat /\ Len(nwritten) = nw
       /\ made = nw + nupdate /\ Len(nsols) = nupdate
       /\ \A t \in 1 .. nupdate : nsols[t] = SolutionOf(ninput, nw + t)
       /\ nstart = nw * s /\ (config.h5 => nw = 0)
       /\ ~config.h5 => nupdate < config.chunk
       /\ ~config.h5 => \A k \in 1 .. nw : nwritten[k] = RowOf(SolutionOf(ninput, k), k)
  <2>0. ASSUME ~config.h5, NEW k \in 1 .. w
        PROVE  step.written[k] = RowOf(SolutionOf(ninput, k), k)
    <3> HIDE DEF ninput, w
    <3>1. k \in 1 .. step.made BY <1>4, <1>11
    <3>2. SolutionOf(ninput, k) = SolutionOf(step.input, k) BY <1>12, <3>1
    <3> QED BY <1>11, <2>0, <3>2
  <2>1. CASE write
    <3>1. /\ nsols = <<>> /\ nupdate = 0 /\ nstart = NextChunkStart /\ nw = w + inUpdate
          /\ nwritten = step.written \o ParmDBSolutions(sols) /\ ~config.h5 /\ inUpdate = config.chunk
      BY <2>1
    <3> DEFINE rows == ParmDBSolutions(sols)
    <3> HIDE DEF w, sols, inUpdate, made, nsols, nupdate, nstart, nw, nwritten, ninput, write, full
    <3>2. /\ rows \in Seq(GainRow) /\ Len(rows) = inUpdate
          /\ \A t \in 1 .. inUpdate : rows[t] = RowOf(sols[t], w + t)
      BY <1>3, <1>11, <1>14, RowsOfChunk
    <3> HIDE DEF rows
    <3>3. nwritten = step.written \o rows BY <3>1 DEF rows
    <3>4. /\ nwritten \in Seq(GainRow) /\ Len(nwritten) = w + inUpdate
          /\ \A k \in 1 .. w : nwritten[k] = step.written[k]
          /\ \A t \in 1 .. inUpdate : nwritten[w + t] = rows[t]
      <4>1. PICK ww \in Seq(GainRow) : ww = step.written BY <1>4
      <4>2. PICK rr \in Seq(GainRow) : rr = rows BY <3>2
      <4>3. ww \o rr \in Seq(GainRow) /\ Len(ww \o rr) = Len(ww) + Len(rr)
            /\ (\A i \in 1 .. Len(ww) : (ww \o rr)[i] = ww[i])
            /\ \A i \in 1 .. Len(rr) : (ww \o rr)[Len(ww) + i] = rr[i]
        BY JoinedFacts
      <4>4. w = Len(ww) /\ Len(rr) = inUpdate /\ nwritten = ww \o rr BY <3>2, <3>3, <4>1, <4>2 DEF w
      <4> QED BY <4>1, <4>2, <4>3, <4>4, Zenon
    <3>5. ASSUME NEW k \in 1 .. w + inUpdate
          PROVE  nwritten[k] = RowOf(SolutionOf(ninput, k), k)
      <4>1. CASE k <= w
        <5>1. k \in 1 .. w BY <4>1
        <5> QED BY <2>0, <3>1, <3>4, <5>1
      <4>2. CASE k > w
        <5>1. PICK t \in 1 .. inUpdate : k = w + t
          <6>1. k - w \in 1 .. inUpdate /\ k = w + (k - w) BY <1>11, <1>14, <4>2
          <6> QED BY <6>1
        <5>2. nwritten[k] = RowOf(sols[t], k) BY <3>2, <3>4, <5>1
        <5>3. sols[t] = SolutionOf(ninput, k) BY <1>14, <5>1
        <5> QED BY <5>2, <5>3
      <4> QED BY <1>11, <4>1, <4>2
    <3>6. nstart = (w + inUpdate) * s
      <4>1. nstart = step.chunkStart + s * config.chunk BY <3>1 DEF NextChunkStart
      <4>2. step.chunkStart = w * s /\ inUpdate = config.chunk BY <1>11, <3>1
      <4> HIDE DEF s
      <4>3. (w + inUpdate) * s = w * s + s * inUpdate BY <1>4, <1>11, <1>14
      <4> QED BY <4>1, <4>2, <4>3
    <3>7. nstart \in Int
      <4>1. w + inUpdate \in Nat BY <1>11, <1>14
      <4> HIDE DEF s
      <4> QED BY <1>4, <3>6, <4>1
    <3>8. nsols \in Seq(GainSolution) /\ Len(nsols) = 0 BY <3>1
    <3>9. nw \in Nat /\ made = nw + nupdate /\ nupdate < config.chunk /\ nupdate \in Nat
      <4>1. made = w + inUpdate /\ inUpdate \in Nat BY <1>14
      <4>2. nw = w + inUpdate /\ nupdate = 0 BY <3>1
      <4> QED BY <1>4, <1>110, <4>1, <4>2
    <3>10. \A t \in 1 .. nupdate : nsols[t] = SolutionOf(ninput, nw + t) BY <3>1
    <3> QED BY <3>1, <3>4, <3>5, <3>6, <3>7, <3>8, <3>9, <3>10
  <2>2. CASE ~write
    <3>1. /\ nsols = sols /\ nupdate = inUpdate /\ nstart = step.chunkStart /\ nw = w
          /\ nwritten = step.written /\ (~config.h5 => inUpdate # config.chunk)
      BY <2>2
    <3>2. ~config.h5 => inUpdate < config.chunk
      <4>1. inUpdate = nn + IF full THEN 1 ELSE 0 BY <1>14
      <4>2. ~config.h5 => inUpdate # config.chunk BY <3>1
      <4> HIDE DEF inUpdate, full, nn, mm, w
      <4> QED BY <1>4, <1>110, <4>1, <4>2
    <3> HIDE DEF sols, inUpdate, made, nsols, nupdate, nstart, nw, nwritten, ninput, write, full, w, s
    <3>3. nsols \in Seq(GainSolution) /\ nwritten \in Seq(GainRow) /\ nstart \in Int /\ nupdate \in Nat
          /\ nw \in Nat /\ made = nw + nupdate /\ Len(nsols) = nupdate
          /\ nstart = nw * s /\ (config.h5 => nw = 0) /\ (~config.h5 => nupdate < config.chunk)
      BY <1>4, <1>11, <1>14, <3>1, <3>2, Zenon
    <3>4. Len(nwritten) = nw BY <3>1 DEF w
    <3>5. \A t \in 1 .. nupdate : nsols[t] = SolutionOf(ninput, nw + t) BY <1>14, <3>1
    <3>6. ~config.h5 => \A k \in 1 .. nw : nwritten[k] = RowOf(SolutionOf(ninput, k), k)
      BY <2>0, <3>1
    <3> QED BY <3>3, <3>4, <3>5, <3>6
  <2> QED BY <2>1, <2>2
<1>16. /\ made * s \in Nat /\ made * s <= fed + 1 /\ fed + 1 < made * s + s
       /\ nvis = VisOf(ninput, made * s, fed + 1 - made * s) /\ nvis \in Seq(Int)
       /\ (full => made * s = fed + 1) /\ (~full => made * s = first)
  <2>1. CASE full
    <3>1. made = step.made + 1 /\ nvis = <<>> BY <2>1
    <3>2. made * s = fed + 1 BY <1>13, <2>1, <3>1
    <3>3. fed + 1 - made * s = 0
      <4> HIDE DEF s, made, full
      <4> QED BY <1>4, <3>2, SMTT(60)
    <3>4. VisOf(ninput, made * s, 0) = <<>> BY DEF VisOf
    <3> HIDE DEF s, made, full, nvis, ninput
    <3>5. nvis \in Seq(Int) BY <3>1
    <3>6. nvis = VisOf(ninput, made * s, fed + 1 - made * s) BY <3>1, <3>3, <3>4
    <3>7. made * s \in Nat /\ made * s <= fed + 1 /\ fed + 1 < made * s + s BY <1>4, <3>2, SMTT(60)
    <3> QED BY <2>1, <3>2, <3>5, <3>6, <3>7, Zenon
  <2>2. CASE ~full
    <3>1. made = step.made /\ nvis = vis
      <4>1. nvis = vis /\ made = step.made + 0 BY <2>2
      <4> HIDE DEF made, nvis, vis
      <4> QED BY <1>4, <4>1
    <3>2. made * s = first BY <3>1
    <3> HIDE DEF s, made, full, nvis, vis, ninput, first, m
    <3>3. m + 1 < s BY <1>4, <1>6, <1>10, <2>2
    <3>4. fed + 1 - made * s = m + 1 /\ made * s <= fed + 1 /\ fed + 1 < made * s + s
      BY <1>4, <1>5, <1>6, <3>2, <3>3, SMTT(60)
    <3> QED BY <1>5, <1>9, <2>2, <3>1, <3>2, <3>4, SMTT(60)
  <2> QED BY <2>1, <2>2
<1>17. /\ buf \in Seq(GainSlot)
       /\ config.apply => Len(buf) = m + 1 /\ \A i \in 1 .. m + 1 : buf[i].slot = first + i - 1
  <2> HIDE DEF b, first, m, s, w
  <2>1. PICK old \in Seq(GainSlot) : old = step.buf BY <1>4
  <2>2. PICK e \in GainSlot : e = b BY <1>7
  <2>3. Append(old, e) \in Seq(GainSlot) /\ Len(Append(old, e)) = Len(old) + 1
        /\ Append(old, e)[Len(old) + 1] = e /\ \A i \in 1 .. Len(old) : Append(old, e)[i] = old[i]
    BY AppendedFacts
  <2>4. buf = Append(old, e) BY <2>1, <2>2
  <2> HIDE DEF buf
  <2>5. ASSUME config.apply
        PROVE  Len(buf) = m + 1 /\ \A i \in 1 .. m + 1 : buf[i].slot = first + i - 1
    <3>1. Len(old) = m /\ \A i \in 1 .. m : old[i].slot = first + i - 1
      BY <1>3, <2>1, <2>5 DEF GainMain, m, first, s
    <3>2. e.slot = first + m BY <1>6, <1>7, <2>2
    <3>3. ASSUME NEW i \in 1 .. m + 1 PROVE buf[i].slot = first + i - 1
      <4>1. CASE i = m + 1 BY <1>5, <1>6, <2>3, <2>4, <3>1, <3>2, <4>1
      <4>2. CASE i # m + 1
        <5>1. i \in 1 .. m BY <1>6, <4>2
        <5> QED BY <2>3, <2>4, <3>1, <5>1
      <4> QED BY <4>1, <4>2
    <3> QED BY <2>3, <2>4, <3>1, <3>3
  <2> QED BY <2>3, <2>4, <2>5
<1>18. /\ nbuf \in Seq(GainSlot) /\ (config.apply => Len(nbuf) = fed + 1 - made * s)
       /\ (~config.apply => nbuf = <<>>)
       /\ \A i \in 1 .. Len(nbuf) : nbuf[i].slot = made * s + i - 1
  <2>1. CASE config.apply /\ ~full
    <3>1. nbuf = buf BY <2>1
    <3> HIDE DEF nbuf, buf, made, s, first, m, full
    <3>2. fed + 1 - made * s = m + 1 BY <1>4, <1>5, <1>6, <1>16, <2>1, SMTT(60)
    <3> QED BY <1>16, <1>17, <2>1, <3>1, <3>2
  <2>2. CASE ~(config.apply /\ ~full)
    <3>1. nbuf = <<>> BY <2>2
    <3> HIDE DEF nbuf, made, s, first, m, full
    <3>2. config.apply => fed + 1 - made * s = 0 BY <1>4, <1>16, <2>2
    <3> QED BY <3>1, <3>2
  <2> QED BY <2>1, <2>2
<1>19. /\ SlotsAreRight(sent) /\ Len(sent) = IF config.apply THEN first ELSE fed
  BY <1>3 DEF GainMain
<1>20. /\ out \in Seq(GainSlot)
       /\ Len(out) = IF ~config.apply THEN 1 ELSE IF full THEN s ELSE 0
       /\ \A i \in 1 .. Len(out) :
            out[i].slot = Len(sent) + i - 1
            /\ (config.apply => out[i].sol = IntervalOf(Len(sent) + i - 1))
  <2>1. CASE ~config.apply
    <3>1. out = <<b>> /\ Len(sent) = fed BY <1>19, <2>1
    <3> HIDE DEF out, b
    <3> QED BY <1>4, <1>7, <2>1, <3>1
  <2>2. CASE config.apply /\ full
    <3>1. out = Applied(buf, step.made + 1) /\ Len(sent) = first BY <1>19, <2>2
    <3>2. Len(buf) = s /\ \A i \in 1 .. s : buf[i].slot = first + i - 1
      <4>1. m + 1 = s BY <1>10, <2>2
      <4> HIDE DEF buf, s, m, first, full
      <4> QED BY <1>17, <2>2, <4>1
    <3>3. /\ Applied(buf, step.made + 1) \in Seq(GainSlot) /\ Len(Applied(buf, step.made + 1)) = Len(buf)
          /\ \A i \in 1 .. Len(buf) :
               /\ Applied(buf, step.made + 1)[i].slot = step.made * config.solint + i - 1
               /\ Applied(buf, step.made + 1)[i].sol = IntervalOf(step.made * config.solint + i - 1)
      <4> HIDE DEF buf
      <4>1. Len(buf) <= config.solint
        <5>1. Len(buf) = config.solint BY <3>2
        <5> QED BY <1>4, <5>1
      <4>2. \A i \in 1 .. Len(buf) : buf[i].slot = step.made * config.solint + i - 1 BY <3>2
      <4> QED BY <1>3, <1>4, <1>17, <4>1, <4>2, AppliedSlots
    <3> HIDE DEF out, buf, full
    <3> QED BY <2>2, <3>1, <3>2, <3>3
  <2>3. CASE config.apply /\ ~full
    <3>1. out = <<>> BY <2>3
    <3> HIDE DEF out, full
    <3> QED BY <2>3, <3>1
  <2> QED BY <2>1, <2>2, <2>3
<1>21. /\ sent \o out \in Seq(GainSlot) /\ SlotsAreRight(sent \o out)
       /\ Len(sent \o out) = IF config.apply THEN made * s ELSE fed + 1
  <2> HIDE DEF out, made, s, first, full
  <2>1. sent \o out \in Seq(GainSlot) /\ Len(sent \o out) = Len(sent) + Len(out)
        /\ SlotsAreRight(sent \o out)
    BY <1>3, <1>19, <1>20, SentIsRight
  <2>2. Len(sent) + Len(out) = IF config.apply THEN made * s ELSE fed + 1
    <3>1. CASE ~config.apply BY <1>4, <1>19, <1>20, <3>1
    <3>2. CASE config.apply /\ full
      <4>1. first + s = fed + 1
        <5>1. made * s = first + s
          <6>1. made = step.made + 1 BY <3>2 DEF made
          <6> QED BY <1>4, <6>1 DEF first
        <5> QED BY <1>16, <3>2, <5>1
      <4> QED BY <1>16, <1>19, <1>20, <3>2, <4>1
    <3>3. CASE config.apply /\ ~full BY <1>5, <1>16, <1>19, <1>20, <3>3
    <3> QED BY <3>1, <3>2, <3>3
  <2> QED BY <2>1, <2>2
<1> HIDE DEF nbuf, nvis, nsols, made, nupdate, nstart, nwritten, ninput, out, first, m, w, b, x, buf,
             vis, full, sols, inUpdate, write
<1>22. /\ step'.buf = nbuf /\ step'.vis = nvis /\ step'.sols = nsols /\ step'.made = made
       /\ step'.inUpdate = nupdate /\ step'.chunkStart = nstart /\ step'.written = nwritten
       /\ step'.input = ninput /\ step'.failed = step.failed /\ step' \in GainMembers
  <2>1. PICK old \in GainMembers : old = step BY <1>4
  <2>2. PICK p \in Seq(GainSlot) : p = nbuf BY <1>18
  <2>3. PICK q \in Seq(GainSolution) : q = nsols BY <1>15
  <2>4. PICK r \in Seq(GainRow) : r = nwritten BY <1>15
  <2>5. PICK v \in Seq(Int) : v = nvis BY <1>16
  <2>6. PICK i \in Seq(GainInput) : i = ninput BY <1>8
  <2>7. PICK n \in Nat : n = made BY <1>14
  <2>8. PICK u \in Nat : u = nupdate BY <1>15
  <2>9. PICK c \in Int : c = nstart BY <1>15
  <2>10. step' = [old EXCEPT !.buf = p, !.vis = v, !.sols = q, !.made = n, !.inUpdate = u,
                               !.chunkStart = c, !.written = r, !.input = i]
    BY <1>2, <2>1, <2>2, <2>3, <2>4, <2>5, <2>6, <2>7, <2>8, <2>9
  <2> HIDE <1>2, <1>3, <1>4, <1>7, <1>8, <1>9, <1>14, <1>15, <1>16, <1>17, <1>18, <1>20, <1>21
  <2>11. /\ step'.buf = p /\ step'.vis = v /\ step'.sols = q /\ step'.made = n
         /\ step'.inUpdate = u /\ step'.chunkStart = c /\ step'.written = r
         /\ step'.input = i /\ step'.failed = old.failed /\ step' \in GainMembers
    BY <2>10 DEF GainMembers
  <2> QED BY <2>1, <2>2, <2>3, <2>4, <2>5, <2>6, <2>7, <2>8, <2>9, <2>11
<1>23. GainTypes'
  <2>1. fed' \in 0 .. config'.ntime BY <1>2, <1>4, SMTT(60)
  <2>2. sent' \in Seq(GainSlot) BY <1>2, <1>21
  <2> QED BY <1>2, <1>3, <1>22, <2>1, <2>2 DEF GainTypes
<1>24. GainMain'
  <2>1. config' = config /\ fed' = fed + 1 /\ sent' = sent \o out BY <1>2
  <2>2. SlotsAreRight(sent)' BY <1>21, <2>1 DEF SlotsAreRight, IntervalOf
  <2>3. /\ Len(step'.input) = fed' /\ step'.made * config'.solint <= fed'
        /\ fed' < step'.made * config'.solint + config'.solint
    BY <1>8, <1>16, <1>22, <2>1
  <2>4. step'.vis = VisOf(step'.input, step'.made * config'.solint, fed' - step'.made * config'.solint)
    <3>1. nvis = VisOf(ninput, made * s, fed + 1 - made * s) BY <1>16, Zenon
    <3>2. step'.made = made /\ config'.solint = s BY <1>22, <2>1
    <3> HIDE DEF s
    <3>3. step'.made * config'.solint = made * s BY <3>2, Zenon
    <3>4. fed' - step'.made * config'.solint = fed + 1 - made * s
      <4>1. PICK p \in Nat : p = made * s BY <1>16
      <4>2. step'.made * config'.solint = p BY <3>3, <4>1
      <4>3. fed' - p = fed + 1 - p BY <1>4, <2>1
      <4> QED BY <4>1, <4>2, <4>3, Zenon
    <3>5. step'.vis = nvis /\ step'.input = ninput BY <1>22
    <3> QED BY <3>1, <3>3, <3>4, <3>5, Zenon
  <2>5. /\ step'.made = Len(step'.written) + step'.inUpdate /\ Len(step'.sols) = step'.inUpdate
        /\ step'.chunkStart = Len(step'.written) * config'.solint
        /\ (config'.h5 => Len(step'.written) = 0) /\ (~config'.h5 => step'.inUpdate < config'.chunk)
    BY <1>15, <1>22, <2>1
  <2>6. \A k : SolutionOf(step.input, k)' = SolutionOf(ninput, k)
    BY <1>22, <2>1 DEF SolutionOf
  <2>7. \A t \in 1 .. step'.inUpdate :
            step'.sols[t] = SolutionOf(step.input, Len(step.written) + t)'
    BY <1>15, <1>22, <2>1, <2>6
  <2>8. \A r, k : RowOf(r, k)' = RowOf(r, k) BY <2>1 DEF RowOf
  <2>9. ~config'.h5 => \A k \in 1 .. Len(step'.written) :
            step'.written[k] = RowOf(SolutionOf(step.input, k), k)'
    <3>1. \A k : RowOf(SolutionOf(step.input, k), k)' = RowOf(SolutionOf(ninput, k), k)
      <4> SUFFICES ASSUME NEW k
                   PROVE  RowOf(SolutionOf(step.input, k), k)' = RowOf(SolutionOf(ninput, k), k)
        OBVIOUS
      <4>1. RowOf(SolutionOf(step.input, k), k)'
              = [low |-> (k - 1) * config.solint, high |-> Least(k * config.solint, config.ntime),
                 sol |-> SolutionOf(step.input, k)']
        BY <2>1 DEF RowOf, Least
      <4> QED BY <2>6, <4>1 DEF RowOf
    <3> QED BY <1>15, <1>22, <2>1, <3>1
  <2>10. /\ config'.apply => Len(step'.buf) = fed' - step'.made * config'.solint
         /\ ~config'.apply => step'.buf = <<>>
         /\ \A i \in 1 .. Len(step'.buf) :
                step'.buf[i].slot = step'.made * config'.solint + i - 1
    <3>1. step'.made = made /\ config'.solint = s /\ step'.buf = nbuf BY <1>22, <2>1
    <3> HIDE DEF s
    <3>2. step'.made * config'.solint = made * s BY <3>1, Zenon
    <3>3. fed' - step'.made * config'.solint = fed + 1 - made * s
      <4>1. PICK p \in Nat : p = made * s BY <1>16
      <4>2. step'.made * config'.solint = p BY <3>2, <4>1
      <4>3. fed' - p = fed + 1 - p BY <1>4, <2>1
      <4> QED BY <4>1, <4>2, <4>3, Zenon
    <3>4. config'.apply = config.apply BY <2>1
    <3>5. PICK p : p = made * s OBVIOUS
    <3>6. (config.apply => Len(nbuf) = fed + 1 - p) /\ (~config.apply => nbuf = <<>>)
          /\ \A i \in 1 .. Len(nbuf) : nbuf[i].slot = p + i - 1
      BY <1>18, <3>5, Zenon
    <3>7. fed' - step'.made * config'.solint = fed + 1 - p /\ step'.made * config'.solint = p
      BY <3>2, <3>3, <3>5, Zenon
    <3> QED BY <3>1, <3>4, <3>6, <3>7, Zenon
  <2>11. Len(sent') = IF config'.apply THEN step'.made * config'.solint ELSE fed'
    BY <1>21, <1>22, <2>1
  <2> HIDE DEF s
  <2> QED BY <2>2, <2>3, <2>4, <2>5, <2>7, <2>9, <2>10, <2>11, Zenon DEF GainMain
<1> QED BY <1>2, <1>23, <1>24 DEF GainInv

(* A whole interval has the solution that is promised for it.                *)
LEMMA PromisedIsSolution ==
  ASSUME GainTypes, NEW k \in Nat \ {0}, k * config.solint <= fed
  PROVE  PromisedSolution(k) = SolutionOf(step.input, k)
<1> DEFINE s == config.solint
           first == (k - 1) * s
<1>1. s \in Nat \ {0} /\ fed \in Nat BY DEF GainTypes
<1>2. first = k * s - s /\ k * s \in Nat
  <2> HIDE DEF s
  <2> QED BY <1>1
<1>3. Least(s, fed - first) = s
  <2>1. k * s <= fed OBVIOUS
  <2> HIDE DEF s, first
  <2>2. PICK p \in Nat : p = k * s BY <1>2
  <2>3. s <= fed - first BY <1>1, <1>2, <2>1, <2>2
  <2>4. first \in Int BY <1>1, <1>2, <2>2
  <2> QED BY <1>1, <2>3, <2>4 DEF Least
<1>4. PromisedSolution(k) =
        [number |-> k, start |-> IF config.propagate THEN k - 1 ELSE 0,
         vis |-> VisOf(step.input, first, Least(s, fed - first))]
  BY DEF PromisedSolution, VisOf
<1> QED BY <1>3, <1>4 DEF SolutionOf

(* What the slots of the interval that is being filled give.                 *)
LEMMA PromisedOfRest ==
  ASSUME GainTypes, NEW j \in Nat, NEW m \in Nat, m < config.solint,
         fed = j * config.solint + m
  PROVE  PromisedSolution(j + 1) =
            [number |-> j + 1, vis |-> VisOf(step.input, j * config.solint, m),
             start |-> IF config.propagate THEN j ELSE 0]
<1> DEFINE s == config.solint
           first == ((j + 1) - 1) * s
<1>1. s \in Nat \ {0} /\ fed \in Nat BY DEF GainTypes
<1>2. (j + 1) - 1 = j OBVIOUS
<1>3. first = j * s BY <1>2
<1>4. Least(s, fed - first) = m
  <2>1. fed = j * s + m OBVIOUS
  <2> HIDE DEF s, first
  <2>2. PICK p \in Nat : p = j * s BY <1>1
  <2>3. fed - first = m BY <1>3, <2>1, <2>2
  <2>4. m < s BY DEF s
  <2> QED BY <1>1, <2>3, <2>4 DEF Least
<1>5. PromisedSolution(j + 1) =
        [number |-> j + 1, start |-> IF config.propagate THEN (j + 1) - 1 ELSE 0,
         vis |-> VisOf(step.input, first, Least(s, fed - first))]
  BY DEF PromisedSolution, VisOf
<1> HIDE DEF first
<1> QED BY <1>2, <1>3, <1>4, <1>5

LEMMA SolutionsAreRight == GainInv => SolutionsAreOfTheirTime
<1> SUFFICES ASSUME GainInv, ~finished, ~step.failed PROVE SolutionsAreOfTheirTime
  BY DEF GainInv
<1>1. GainTypes /\ GainMain BY DEF GainInv
<1> DEFINE w == Len(step.written)
           s == config.solint
           first == step.made * s
<1>2. /\ s \in Nat \ {0} /\ fed \in Nat /\ step.made \in Nat /\ step.inUpdate \in Nat /\ w \in Nat
      /\ config.h5 \in BOOLEAN /\ config.apply \in BOOLEAN
  BY <1>1 DEF GainTypes, GainMembers
<1>3. /\ step.made = w + step.inUpdate /\ first <= fed
      /\ config.h5 => w = 0
      /\ ~config.h5 => \A k \in 1 .. w : step.written[k] = RowOf(SolutionOf(step.input, k), k)
      /\ SlotsAreRight(sent) /\ Len(sent) = IF config.apply THEN first ELSE fed
  BY <1>1 DEF GainMain
<1>4. ASSUME NEW k \in 1 .. w
      PROVE  step.written[k] = PromisedRow(k)
  <2>1. ~config.h5 /\ k \in Nat \ {0} /\ k <= step.made
    <3> HIDE DEF w, first
    <3> QED BY <1>2, <1>3
  <2>2. k * s <= fed
    <3> HIDE DEF s
    <3>1. k * s <= first /\ k * s \in Nat /\ first \in Nat BY <1>2, <2>1, TimesOrder
    <3> HIDE DEF first
    <3>2. PICK p \in Nat : p = k * s BY <3>1
    <3> QED BY <1>2, <1>3, <3>1, <3>2
  <2>3. PromisedSolution(k) = SolutionOf(step.input, k)
    <3>1. k * config.solint <= fed BY <2>2
    <3> QED BY <1>1, <2>1, <3>1, PromisedIsSolution
  <2>4. step.written[k] = RowOf(PromisedSolution(k), k)
    <3> HIDE DEF w
    <3> QED BY <1>3, <2>1, <2>3
  <2> QED BY <2>1, <2>4 DEF PromisedRow, RowOf
<1> QED BY <1>2, <1>3, <1>4 DEF SolutionsAreOfTheirTime, SlotsAreRight

LEMMA GainFinishInv ==
  ASSUME GainInv, GainFinish
  PROVE  GainInv'
<1>1. /\ ~finished /\ ~step.failed
      /\ LET partial == step.vis # <<>>
             sols == IF partial THEN Calibrated(step.vis) ELSE step.sols
             made == step.made + IF partial THEN 1 ELSE 0
             fails == config.h5 /\ sols # <<>> /\ Len(sols) # AnnouncedSolutions
         IN  /\ Send(IF partial /\ config.apply THEN Applied(step.buf, made) ELSE <<>>)
             /\ IF fails
                THEN step' = [step EXCEPT !.failed = TRUE] /\ UNCHANGED <<config, fed, finished>>
                ELSE Ended([step EXCEPT !.made = made, !.sols = sols, !.written = @ \o LastRows(sols)])
  BY Zenon DEF GainFinish
<1> DEFINE s == config.solint
           first == step.made * s
           m == fed - first
           w == Len(step.written)
           partial == step.vis # <<>>
           sols == IF partial THEN Calibrated(step.vis) ELSE step.sols
           made == step.made + IF partial THEN 1 ELSE 0
           fails == config.h5 /\ sols # <<>> /\ Len(sols) # AnnouncedSolutions
           out == IF partial /\ config.apply THEN Applied(step.buf, made) ELSE <<>>
           written == step.written \o LastRows(sols)
           n == step.inUpdate + IF partial THEN 1 ELSE 0
<1>2. /\ sent' = sent \o out /\ fed' = fed /\ config' = config
      /\ fails => step' = [step EXCEPT !.failed = TRUE] /\ finished' = finished
      /\ ~fails => finished' = TRUE /\ step' = [step EXCEPT !.made = made, !.sols = sols, !.written = written]
  BY <1>1 DEF Ended, Send
<1>3. GainTypes /\ GainMain
  BY <1>1 DEF GainInv
<1>4. /\ s \in Nat \ {0} /\ config.ntime \in Nat /\ fed \in Nat /\ fed <= config.ntime
      /\ config.h5 \in BOOLEAN /\ config.apply \in BOOLEAN
      /\ step \in GainMembers /\ step.made \in Nat /\ step.inUpdate \in Nat /\ step.input \in Seq(GainInput)
      /\ step.buf \in Seq(GainSlot) /\ step.vis \in Seq(Int) /\ step.sols \in Seq(GainSolution)
      /\ step.written \in Seq(GainRow) /\ sent \in Seq(GainSlot) /\ step.chunkStart \in Int
  BY <1>3 DEF GainTypes, GainMembers
<1>5. first \in Nat
  <2> HIDE DEF s
  <2> QED BY <1>4
<1>6. /\ m \in Nat /\ m < s /\ first + m = fed
      /\ step.vis = VisOf(step.input, first, m) /\ (partial <=> m # 0)
  <2>1. first <= fed /\ fed < first + s /\ Len(step.input) = fed
        /\ step.vis = VisOf(step.input, first, m)
    BY <1>3 DEF GainMain
  <2> HIDE DEF s, first
  <2>2. m \in Nat /\ m < s /\ first + m = fed BY <1>4, <1>5, <2>1
  <2> HIDE DEF m
  <2>3. Len(step.vis) = m BY <1>4, <1>5, <2>1, <2>2, VisType
  <2> QED BY <1>4, <2>1, <2>2, <2>3
<1>7. /\ step.made = w + step.inUpdate /\ Len(step.sols) = step.inUpdate /\ w \in Nat
      /\ \A t \in 1 .. step.inUpdate : step.sols[t] = SolutionOf(step.input, w + t)
      /\ step.chunkStart = w * s /\ (config.h5 => w = 0)
      /\ ~config.h5 => \A k \in 1 .. w : step.written[k] = RowOf(SolutionOf(step.input, k), k)
  BY <1>3, <1>4 DEF GainMain
<1>8. \A k \in 1 .. step.made : SolutionOf(step.input, k) = PromisedSolution(k)
  <2> SUFFICES ASSUME NEW k \in 1 .. step.made PROVE SolutionOf(step.input, k) = PromisedSolution(k)
    OBVIOUS
  <2>1. k \in Nat \ {0} /\ k <= step.made BY <1>4
  <2>2. k * s <= first /\ k * s \in Nat
    <3> HIDE DEF s
    <3> QED BY <1>4, <2>1, TimesOrder
  <2>3. k * s <= fed
    <3> HIDE DEF s, first, m
    <3> QED BY <1>4, <1>5, <1>6, <2>2
  <2>4. k * config.solint <= fed BY <2>3
  <2> QED BY <1>3, <2>1, <2>4, PromisedIsSolution
<1>9. ASSUME partial
      PROVE  sols = Append(step.sols, PromisedSolution(step.made + 1)) /\ PromisedSolution(step.made + 1) \in GainSolution
  <2>1. PromisedSolution(step.made + 1) =
            [number |-> step.made + 1, vis |-> VisOf(step.input, step.made * config.solint, m),
             start |-> IF config.propagate THEN step.made ELSE 0]
    <3>1. m < config.solint /\ fed = step.made * config.solint + m
      <4>1. m < s /\ fed = first + m BY <1>6
      <4> HIDE DEF m
      <4> QED BY <4>1
    <3>2. m \in Nat BY <1>6
    <3> HIDE DEF m
    <3> QED BY <1>3, <1>4, <3>1, <3>2, PromisedOfRest
  <2>2. sols = Append(step.sols, [number |-> step.made + 1, vis |-> step.vis,
                                  start |-> IF config.propagate THEN step.made ELSE 0])
    BY <1>9 DEF Calibrated
  <2>3. step.vis = VisOf(step.input, step.made * config.solint, m) BY <1>6
  <2>4. PromisedSolution(step.made + 1) = [number |-> step.made + 1, vis |-> step.vis,
                                  start |-> IF config.propagate THEN step.made ELSE 0]
    <3> HIDE DEF m
    <3> QED BY <2>1, <2>3
  <2>5. PromisedSolution(step.made + 1) \in GainSolution
    BY <1>4, <2>4, SMTT(60) DEF GainSolution
  <2> HIDE DEF sols
  <2> QED BY <2>2, <2>4, <2>5
<1> DEFINE mm == step.made
           nn == step.inUpdate
<1>10. mm = w + nn /\ w \in Nat /\ nn \in Nat /\ mm \in Nat
  BY <1>4, <1>7
<1>11. /\ sols \in Seq(GainSolution) /\ Len(sols) = n
       /\ \A t \in 1 .. n : sols[t] = PromisedSolution(w + t)
       /\ made = w + n /\ made \in Nat /\ n \in Nat
  <2>1. CASE partial
    <3> DEFINE new == PromisedSolution(step.made + 1)
    <3>1. sols = Append(step.sols, new) /\ n = nn + 1 /\ made = mm + 1 /\ new \in GainSolution
      BY <1>9, <2>1
    <3> HIDE DEF new, sols, made, n, w, partial, s, first, m
    <3>2. sols \in Seq(GainSolution) /\ Len(sols) = nn + 1
          /\ sols[nn + 1] = new /\ \A t \in 1 .. nn : sols[t] = step.sols[t]
      <4>1. PICK ss \in Seq(GainSolution) : ss = step.sols BY <1>4
      <4>2. PICK e \in GainSolution : e = new BY <3>1
      <4>3. Append(ss, e) \in Seq(GainSolution) /\ Len(Append(ss, e)) = Len(ss) + 1
            /\ Append(ss, e)[Len(ss) + 1] = e /\ \A i \in 1 .. Len(ss) : Append(ss, e)[i] = ss[i]
        BY AppendedFacts
      <4>4. Len(ss) = nn /\ sols = Append(ss, e) BY <1>7, <3>1, <4>1, <4>2
      <4> QED BY <4>1, <4>2, <4>3, <4>4, Zenon
    <3>3. \A t \in 1 .. nn : step.sols[t] = SolutionOf(step.input, w + t) BY <1>7
    <3>4. \A k \in 1 .. mm : SolutionOf(step.input, k) = PromisedSolution(k) BY <1>8
    <3>5. new = PromisedSolution(mm + 1) BY DEF new
    <3> HIDE DEF mm, nn
    <3>6. ASSUME NEW t \in 1 .. n
          PROVE  sols[t] = PromisedSolution(w + t)
      <4>1. CASE t = nn + 1
        <5>1. w + t = mm + 1 BY <1>10, <4>1
        <5> QED BY <3>2, <3>5, <4>1, <5>1
      <4>2. CASE t # nn + 1
        <5>1. t \in 1 .. nn BY <1>10, <3>1, <4>2
        <5>2. w + t \in 1 .. mm BY <1>10, <5>1
        <5> QED BY <3>2, <3>3, <3>4, <5>1, <5>2
      <4> QED BY <4>1, <4>2
    <3>7. made = w + n /\ made \in Nat /\ n \in Nat /\ Len(sols) = n BY <1>10, <3>1, <3>2
    <3> QED BY <3>2, <3>6, <3>7
  <2>2. CASE ~partial
    <3>1. sols = step.sols /\ n = nn /\ made = mm BY <1>4, <2>2
    <3> HIDE DEF sols, made, n, w, partial, s, first, m
    <3>2. \A t \in 1 .. nn : step.sols[t] = SolutionOf(step.input, w + t) BY <1>7
    <3>3. \A k \in 1 .. mm : SolutionOf(step.input, k) = PromisedSolution(k) BY <1>8
    <3>4. Len(step.sols) = nn BY <1>7
    <3> HIDE DEF mm, nn
    <3>5. ASSUME NEW t \in 1 .. n
          PROVE  sols[t] = PromisedSolution(w + t)
      <4>1. t \in 1 .. nn BY <3>1
      <4>2. w + t \in 1 .. mm BY <1>10, <4>1
      <4> QED BY <3>1, <3>2, <3>3, <4>1, <4>2
    <3> QED BY <1>4, <1>10, <3>1, <3>4, <3>5
  <2> QED BY <2>1, <2>2
<1>12. made = SolutionsFor(fed)
  <2>1. fed = mm * s + m BY <1>6
  <2>2. made = IF m = 0 THEN mm ELSE mm + 1
    <3>1. made = mm + IF partial THEN 1 ELSE 0 OBVIOUS
    <3> HIDE DEF made, partial, m, mm
    <3> QED BY <1>6, <1>10, <3>1
  <2> HIDE DEF s, m, mm, made, first
  <2>3. (fed + s - 1) \div s = IF m = 0 THEN mm ELSE mm + 1
    <3>1. PICK s0 \in Nat \ {0} : s0 = s BY <1>4
    <3>2. PICK j0 \in Nat : j0 = mm BY <1>10
    <3>3. PICK m0 \in Nat : m0 = m BY <1>6
    <3>4. PICK n0 \in Nat : n0 = fed BY <1>4
    <3>5. n0 = j0 * s0 + m0 /\ m0 < s0 BY <1>6, <2>1, <3>1, <3>2, <3>3, <3>4
    <3>6. (n0 + s0 - 1) \div s0 = IF m0 = 0 THEN j0 ELSE j0 + 1 BY <3>5, IntervalsOf
    <3> QED BY <3>1, <3>2, <3>3, <3>4, <3>6
  <2> QED BY <2>2, <2>3 DEF SolutionsFor, s
<1>13. /\ SlotsAreRight(sent) /\ Len(sent) = IF config.apply THEN first ELSE fed
  BY <1>3 DEF GainMain
<1>14. /\ sent \o out \in Seq(GainSlot) /\ SlotsAreRight(sent \o out)
       /\ Len(sent \o out) = fed
  <2>1. /\ out \in Seq(GainSlot)
        /\ Len(out) = IF config.apply THEN m ELSE 0
        /\ \A i \in 1 .. Len(out) :
             out[i].slot = Len(sent) + i - 1
             /\ (config.apply => out[i].sol = IntervalOf(Len(sent) + i - 1))
    <3>1. CASE partial /\ config.apply
      <4>1. out = Applied(step.buf, step.made + 1) BY <3>1
      <4>2. Len(step.buf) = m /\ \A i \in 1 .. Len(step.buf) : step.buf[i].slot = first + i - 1
        BY <1>3, <3>1 DEF GainMain
      <4>3. /\ Applied(step.buf, step.made + 1) \in Seq(GainSlot)
            /\ Len(Applied(step.buf, step.made + 1)) = Len(step.buf)
            /\ \A i \in 1 .. Len(step.buf) :
                 /\ Applied(step.buf, step.made + 1)[i].slot = step.made * config.solint + i - 1
                 /\ Applied(step.buf, step.made + 1)[i].sol = IntervalOf(step.made * config.solint + i - 1)
        <5>1. Len(step.buf) <= config.solint
          <6>1. m <= config.solint
            <7>1. m < s /\ m \in Nat BY <1>6
            <7> HIDE DEF m
            <7> QED BY <1>4, <7>1
          <6> HIDE DEF m
          <6> QED BY <4>2, <6>1
        <5>2. \A i \in 1 .. Len(step.buf) : step.buf[i].slot = step.made * config.solint + i - 1
          BY <4>2
        <5> QED BY <1>3, <1>4, <5>1, <5>2, AppliedSlots
      <4>4. Len(sent) = first BY <1>13, <3>1
      <4> HIDE DEF out, m, partial
      <4> QED BY <3>1, <4>1, <4>2, <4>3, <4>4
    <3>2. CASE ~(partial /\ config.apply)
      <4>1. out = <<>> BY <3>2
      <4> HIDE DEF out, m, partial
      <4> QED BY <1>6, <3>2, <4>1
    <3> QED BY <3>1, <3>2
  <2> HIDE DEF out, m, first, s, partial
  <2>2. sent \o out \in Seq(GainSlot) /\ Len(sent \o out) = Len(sent) + Len(out)
        /\ SlotsAreRight(sent \o out)
    BY <1>3, <1>13, <2>1, SentIsRight
  <2>3. Len(sent) + Len(out) = fed BY <1>4, <1>6, <1>13, <2>1
  <2> QED BY <2>2, <2>3
<1>15. ASSUME ~fails
       PROVE  /\ written \in Seq(GainRow) /\ Len(written) = made
              /\ \A k \in 1 .. made : written[k] = PromisedRow(k)
  <2> DEFINE rows == LastRows(sols)
  <2>1. /\ rows \in Seq(GainRow) /\ Len(rows) = n
        /\ \A t \in 1 .. n : rows[t] = PromisedRow(w + t)
    <3>1. CASE sols = <<>>
      <4>1. rows = <<>> BY <3>1 DEF LastRows
      <4> HIDE DEF rows, sols, n, w
      <4> QED BY <1>11, <3>1, <4>1
    <3>2. CASE sols # <<>> /\ config.h5
      <4>1. rows = H5Rows(sols) /\ n = AnnouncedSolutions /\ w = 0
        <5>1. rows = H5Rows(sols) BY <3>2 DEF LastRows
        <5>2. Len(sols) = AnnouncedSolutions BY <1>15, <3>2
        <5> HIDE DEF rows, sols, n, w
        <5> QED BY <1>7, <1>11, <3>2, <5>1, <5>2
      <4>2. rows = [t \in 1 .. n |-> [middle |-> (2 * t - 1) * config.solint, sol |-> sols[t]]]
        <5> HIDE DEF sols, n, w
        <5> QED BY <4>1 DEF H5Rows
      <4> HIDE DEF rows, sols, n, w
      <4>3. ASSUME NEW t \in 1 .. n
            PROVE  rows[t] = PromisedRow(w + t) /\ rows[t] \in GainRow
        <5>1. rows[t] = [middle |-> (2 * t - 1) * config.solint, sol |-> sols[t]] BY <4>2
        <5>2. sols[t] = PromisedSolution(t) /\ sols[t] \in GainSolution /\ w + t = t
          BY <1>11, <4>1
        <5>3. PromisedRow(w + t) = [middle |-> (2 * t - 1) * config.solint, sol |-> PromisedSolution(t)]
          BY <3>2, <5>2 DEF PromisedRow
        <5>4. (2 * t - 1) * config.solint \in Int
          <6>1. PICK a \in Int : a = 2 * t - 1 OBVIOUS
          <6> QED BY <1>4, <6>1
        <5>5. rows[t] \in GainRow
          <6>1. PICK mid \in Int : mid = (2 * t - 1) * config.solint BY <5>4
          <6>2. rows[t] = [middle |-> mid, sol |-> sols[t]] BY <5>1, <6>1
          <6> QED BY <5>2, <6>2 DEF GainRow
        <5> QED BY <5>1, <5>2, <5>3, <5>5
      <4> QED BY <1>11, <4>2, <4>3, SMTT(60)
    <3>3. CASE sols # <<>> /\ ~config.h5
      <4>1. rows = ParmDBSolutions(sols) BY <3>3 DEF LastRows
      <4> HIDE DEF rows, sols, n, w
      <4>2. /\ rows \in Seq(GainRow) /\ Len(rows) = n
            /\ \A t \in 1 .. n : rows[t] = RowOf(sols[t], w + t)
        BY <1>3, <1>7, <1>11, <4>1, RowsOfChunk
      <4>3. \A t \in 1 .. n : rows[t] = PromisedRow(w + t)
        BY <1>11, <3>3, <4>2 DEF PromisedRow, RowOf
      <4> QED BY <4>2, <4>3
    <3> QED BY <1>4, <3>1, <3>2, <3>3
  <2>2. \A k \in 1 .. w : step.written[k] = PromisedRow(k)
    BY <1>1, SolutionsAreRight DEF SolutionsAreOfTheirTime
  <2> HIDE DEF rows, sols, n, made, fails
  <2>3. PICK ww \in Seq(GainRow) : ww = step.written BY <1>4
  <2>4. PICK rr \in Seq(GainRow) : rr = rows BY <2>1
  <2>5. ww \o rr \in Seq(GainRow) /\ Len(ww \o rr) = Len(ww) + Len(rr)
        /\ (\A i \in 1 .. Len(ww) : (ww \o rr)[i] = ww[i])
        /\ \A i \in 1 .. Len(rr) : (ww \o rr)[Len(ww) + i] = rr[i]
    BY JoinedFacts
  <2>6. w = Len(ww) /\ Len(rr) = n /\ written = ww \o rr BY <2>1, <2>3, <2>4 DEF rows
  <2> HIDE DEF written, w
  <2>7. Len(written) = made BY <1>11, <2>5, <2>6
  <2>8. ASSUME NEW k \in 1 .. made PROVE written[k] = PromisedRow(k)
    <3>1. CASE k <= w
      <4>1. k \in 1 .. w BY <3>1
      <4>2. written[k] = ww[k] BY <2>5, <2>6, <4>1
      <4> QED BY <2>2, <2>3, <4>1, <4>2
    <3>2. CASE k > w
      <4>1. PICK t \in 1 .. n : k = w + t
        <5>1. k - w \in 1 .. n /\ k = w + (k - w) BY <1>10, <1>11, <3>2
        <5> QED BY <5>1
      <4>2. written[k] = rr[t] BY <2>5, <2>6, <4>1
      <4> QED BY <2>1, <2>4, <4>1, <4>2
    <3> QED BY <1>10, <3>1, <3>2
  <2> QED BY <2>5, <2>6, <2>7, <2>8
<1>16. ASSUME fails PROVE w = 0 /\ fed < config.ntime /\ config.h5
  <2>1. config.h5 /\ Len(sols) # AnnouncedSolutions BY <1>16
  <2>2. w = 0 BY <1>7, <2>1
  <2>3. n = SolutionsFor(fed)
    <3> HIDE DEF made, n, w
    <3> QED BY <1>11, <1>12, <2>2
  <2>4. AnnouncedSolutions = SolutionsFor(config.ntime) BY DEF AnnouncedSolutions, SolutionsFor
  <2>5. fed # config.ntime
    <3> HIDE DEF sols, n
    <3> QED BY <1>11, <2>1, <2>3, <2>4
  <2> HIDE DEF w, sols
  <2> QED BY <1>4, <2>1, <2>2, <2>5
<1> HIDE DEF out, sols, made, n, w, partial, written, fails, s, first, m, mm, nn
<1>17. sent' \in Seq(GainSlot) /\ config' = config /\ fed' = fed BY <1>2, <1>14
<1>18. \A k : fed' = fed /\ config' = config /\ step'.input = step.input => PromisedRow(k)' = PromisedRow(k)
  <2> SUFFICES ASSUME fed' = fed, config' = config, step'.input = step.input, NEW k
               PROVE  PromisedRow(k)' = PromisedRow(k)
    OBVIOUS
  <2>1. PromisedSolution(k)' = PromisedSolution(k) BY DEF PromisedSolution, Least
  <2> QED BY <2>1 DEF PromisedRow, Least
<1>19. /\ \A i \in 1 .. Len(sent') :
             sent'[i].slot = i - 1 /\ (config'.apply => sent'[i].sol = IntervalOf(i - 1)')
       /\ Len(sent') = fed'
  BY <1>2, <1>14, <1>17 DEF SlotsAreRight, IntervalOf
<1>20. CASE fails
  <2>1. step' = [step EXCEPT !.failed = TRUE] /\ finished' = finished BY <1>2, <1>20
  <2>10. step'.written = step.written /\ step'.failed = TRUE /\ step' \in GainMembers
    BY <1>4, <2>1 DEF GainMembers
  <2>11. ~finished' /\ w = 0 /\ fed < config.ntime BY <1>1, <1>16, <1>20, <2>1
  <2>2. GainTypes'
    <3>1. finished' \in BOOLEAN BY <1>3, <2>1 DEF GainTypes
    <3> QED BY <1>3, <1>17, <2>10, <3>1 DEF GainTypes
  <2>3. SolutionsAreOfTheirTime'
    <3>1. Len(step'.written) = 0 BY <2>10, <2>11 DEF w
    <3> QED BY <1>17, <1>19, <2>10, <2>11, <3>1 DEF SolutionsAreOfTheirTime
  <2> QED BY <2>10, <2>11, <2>2, <2>3 DEF GainInv
<1>21. CASE ~fails
  <2>1. step' = [step EXCEPT !.made = made, !.sols = sols, !.written = written] /\ finished' = TRUE
    BY <1>2, <1>21
  <2>2. step'.written = written /\ step'.failed = step.failed /\ step' \in GainMembers
        /\ step'.input = step.input
    BY <1>4, <1>11, <1>15, <1>21, <2>1 DEF GainMembers
  <2>3. GainTypes'
    <3>1. finished' \in BOOLEAN BY <2>1
    <3> QED BY <1>3, <1>17, <2>2, <3>1 DEF GainTypes
  <2>4. \A k \in 1 .. Len(step'.written) : step'.written[k] = PromisedRow(k)'
    BY <1>15, <1>17, <1>18, <1>21, <2>2
  <2>5. Len(step'.written) = SolutionsFor(fed)'
    <3>1. SolutionsFor(fed)' = SolutionsFor(fed) BY <1>17 DEF SolutionsFor
    <3> QED BY <1>12, <1>15, <1>21, <2>2, <3>1
  <2>6. ~step'.failed BY <1>1, <2>2
  <2>7. SolutionsAreOfTheirTime'
    BY <1>19, <2>1, <2>4, <2>5, <2>6 DEF SolutionsAreOfTheirTime
  <2> QED BY <2>1, <2>3, <2>7 DEF GainInv
<1> QED BY <1>20, <1>21

LEMMA GainStutterInv == GainInv /\ UNCHANGED calls => GainInv'
<1> SUFFICES ASSUME GainInv, UNCHANGED calls PROVE GainInv'
  OBVIOUS
<1>1. config' = config /\ step' = step /\ fed' = fed /\ sent' = sent /\ finished' = finished
  BY DEF calls
<1>2. GainTypes' BY <1>1 DEF GainInv, GainTypes
<1>3. \A input, k : SolutionOf(input, k)' = SolutionOf(input, k) BY <1>1 DEF SolutionOf
<1>4. \A k : PromisedRow(k)' = PromisedRow(k)
  BY <1>1 DEF PromisedRow, PromisedSolution, Least
<1>5. \A k : IntervalOf(k)' = IntervalOf(k) BY <1>1 DEF IntervalOf
<1>6. SlotsAreRight(sent)' = SlotsAreRight(sent) BY <1>1, <1>5 DEF SlotsAreRight
<1>7. ASSUME GainMain PROVE GainMain'
  <2>1. \A k : SolutionOf(step.input, k)' = SolutionOf(step.input, k) BY <1>1 DEF SolutionOf
  <2>2. \A k : RowOf(SolutionOf(step.input, k), k)' = RowOf(SolutionOf(step.input, k), k)
    BY <1>1 DEF RowOf, SolutionOf, Least
  <2> QED BY <1>1, <1>6, <1>7, <2>1, <2>2 DEF GainMain
<1>8. ASSUME SolutionsAreOfTheirTime PROVE SolutionsAreOfTheirTime'
  BY <1>1, <1>4, <1>5, <1>8 DEF SolutionsAreOfTheirTime, SolutionsFor
<1> QED BY <1>1, <1>2, <1>7, <1>8 DEF GainInv

LEMMA GainNextInv == GainInv /\ [GainNext]_calls => GainInv'
BY GainProcessInv, GainFinishInv, GainStutterInv DEF GainNext

(***************************************************************************)
(* For every solution interval and size of the chunks of the output: a     *)
(* slot is corrected with the solution of its interval, each solution is   *)
(* of the slots of its interval and is written with their times, whether   *)
(* the solutions are applied or not.                                       *)
(***************************************************************************)
THEOREM EverySolutionIsOfItsTime ==
  ASSUME GainSettings
  PROVE  GainSpec => []SolutionsAreOfTheirTime
<1>1. GainInit => GainInv BY GainInitInv
<1>2. GainInv /\ [GainNext]_calls => GainInv' BY GainNextInv
<1>3. GainInv => SolutionsAreOfTheirTime BY SolutionsAreRight
<1> QED BY <1>1, <1>2, <1>3, PTL DEF GainSpec
=============================================================================
