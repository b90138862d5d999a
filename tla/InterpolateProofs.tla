-------------------------- MODULE InterpolateProofs --------------------------
(***************************************************************************)
(* What Interpolate guarantees for every window, number of channels and    *)
(* threads, and size of their batches, whatever samples are flagged.       *)
(***************************************************************************)
EXTENDS Interpolate, FiniteSetTheorems, WellFoundedInduction, TLAPS

-----------------------------------------------------------------------------
(***************************************************************************)
(* The invariant: types, ...                                               *)
(***************************************************************************)
Value == SUBSET (Nat \X Channels)
Element == Channels \cup {NoElement}
Buf == [time : Nat, flags : SUBSET Channels, data : [Channels -> Value]]

TypeOK ==
    /\ flagged \in FlagLists
    /\ fed \in Nat
    /\ buffers \in Seq(Buf)
    /\ interpolated_pos \in Nat
    /\ pc \in {"idle", "window", "write", "join", "finished"}
    /\ finishing \in BOOLEAN
    /\ sent \in Seq(Buf)
    /\ todo \in Seq(Channels)
    /\ left \in Seq(Channels)
    /\ interpolator \in [Interpolators -> {"none", "read", "replace", "store", "gone"}]
    /\ batch \in [Interpolators -> Seq(Channels)]
    /\ value \in [Interpolators -> Value]
    /\ buffer \in [Positions -> Element]
    /\ write_position \in Positions
    /\ free_write_space \in 0 .. Capacity
    /\ ended \in BOOLEAN

\* ... the window: it holds the times after those that were sent, and those
\* around the one that is interpolated, as far as the observation has them, ...
Working == pc \in {"write", "join"}

WindowInv ==
    /\ fed = Len(sent) + Len(buffers) /\ fed <= Len(flagged)
    /\ \A i \in DOMAIN buffers : /\ buffers[i].time = Len(sent) + i
                                 /\ buffers[i].flags = flagged[Len(sent) + i]
    /\ interpolated_pos <= Len(buffers)
    /\ Working => interpolated_pos < Len(buffers)
    /\ sent # <<>> => \/ interpolated_pos >= Half
                      \/ finishing /\ interpolated_pos = Len(buffers)
    /\ finishing => fed = Len(flagged) /\ pc # "idle"
    /\ (~finishing /\ pc # "idle") => Len(buffers) >= WindowSize
    /\ (~finishing /\ Working) => interpolated_pos <= Half

\* ... the threads and the lane: a thread ends when nothing can follow, ...
ThreadInv ==
    /\ ~Working => /\ todo = <<>> /\ left = <<>>
                   /\ \A t \in Interpolators :
                         batch[t] = <<>> /\ interpolator[t] \in {"none", "gone"}
    /\ pc = "write" => ~ended
    /\ pc = "join" => ended /\ todo = <<>> /\ left = <<>>
    /\ \A t \in Interpolators :
          /\ (Working /\ interpolator[t] = "gone") =>
                batch[t] = <<>> /\ ended /\ free_read_space = 0
          /\ interpolator[t] = "store" => batch[t] # <<>>
          /\ Len(batch[t]) <= BufferSize

\* ... each sample to replace is in one place, ...
Current == interpolated_pos + 1
Distinct(q) == \A i, j \in DOMAIN q : q[i] = q[j] => i = j

Places(q, b, flags) ==
    /\ \A i \in DOMAIN q : q[i] \in flags
    /\ \A t \in Interpolators : \A i \in DOMAIN b[t] : b[t][i] \in flags
    /\ Distinct(q)
    /\ \A t, u \in Interpolators : \A i \in DOMAIN b[t], j \in DOMAIN b[u] :
          b[t][i] = b[u][j] => t = u /\ i = j
    /\ \A t \in Interpolators : \A i \in DOMAIN b[t], j \in DOMAIN q : b[t][i] # q[j]

PlaceInv == Working => Places(Queue, batch, buffers[Current].flags)

\* ... and the values: what is not flagged stays, what is before the time that
\* is interpolated, or was taken out of its place, is what it must become.
Pending(q, b, ch) ==
    \/ \E i \in DOMAIN q : q[i] = ch
    \/ \E t \in Interpolators : \E i \in DOMAIN b[t] : b[t][i] = ch

BuffersInv ==
    \A i \in DOMAIN buffers : \A ch \in Channels :
        /\ ch \notin flagged[Len(sent) + i] => buffers[i].data[ch] = {<<Len(sent) + i, ch>>}
        /\ i <= interpolated_pos => buffers[i].data[ch] = Wanted(flagged, Len(sent) + i, ch)

CurrentInv ==
    /\ Working => \A ch \in Channels :
          \/ Pending(Queue, batch, ch)
          \/ buffers[Current].data[ch] = Wanted(flagged, Len(sent) + Current, ch)
    /\ \A t \in Interpolators :
          interpolator[t] = "store" => value[t] = Wanted(flagged, Len(sent) + Current, Head(batch[t]))

IInv ==
    /\ TypeOK /\ WindowInv /\ ThreadInv
    /\ PlaceInv /\ BuffersInv /\ CurrentInv /\ SentIsWanted

-----------------------------------------------------------------------------
(***************************************************************************)
(* Positions in the lane are counted modulo its capacity.                  *)
(***************************************************************************)
LEMMA Constants ==
  /\ NChan \in Nat \ {0} /\ BufferSize \in Nat \ {0} /\ WindowSize \in Nat
  /\ FlagLists \subseteq Seq(SUBSET Channels)
  /\ IsFiniteSet(Interpolators) /\ Interpolators # {}
BY InterpolateAssumption DEF Channels

LEMMA CapacityType == Capacity \in Nat \ {0}
<1>1. Cardinality(Interpolators) \in Nat BY Constants, FS_CardinalityType
<1>2. Cardinality(Interpolators) # 0 BY Constants, FS_EmptySet
<1>3. ASSUME NEW a \in Nat \ {0}, NEW b \in Nat \ {0} PROVE a * b \in Nat \ {0}
  <2>1. a * b >= 1 * b BY SMT
  <2> QED BY <2>1
<1> QED BY <1>1, <1>2, <1>3, Constants DEF Capacity

LEMMA SmallRemainder ==
  ASSUME NEW c \in Nat \ {0}, NEW x \in 0 .. c - 1
  PROVE  x % c = x /\ (x + c) % c = x /\ (x - c) % c = x
OBVIOUS

LEMMA RemainderType ==
  ASSUME NEW c \in Nat \ {0}, NEW x \in Int
  PROVE  x % c \in 0 .. c - 1
OBVIOUS

\* The position after w that is n further on, if n is at most the capacity.
LEMMA Further ==
  ASSUME NEW c \in Nat \ {0}, NEW w \in 0 .. c - 1, NEW n \in 0 .. c
  PROVE  (w + n) % c = IF w + n < c THEN w + n ELSE w + n - c
<1>1. CASE w + n < c BY <1>1, SmallRemainder
<1>2. CASE w + n >= c
  <2>1. w + n - c \in 0 .. c - 1 BY <1>2
  <2>2. w + n = (w + n - c) + c OBVIOUS
  <2> QED BY <1>2, <2>1, <2>2, SmallRemainder
<1> QED BY <1>1, <1>2

\* Where the i-th element of the lane is, in terms of where is written.
LEMMA Position ==
  ASSUME NEW c \in Nat \ {0}, NEW w \in 0 .. c - 1, NEW f \in 0 .. c, NEW i \in 1 .. c
  PROVE  /\ (w + f) % c \in 0 .. c - 1
         /\ (((w + f) % c) + i - 1) % c \in 0 .. c - 1
         /\ (((((w + f) % c) + i - 1) % c) - w) % c = IF f + i - 1 < c THEN f + i - 1
                                                    ELSE f + i - 1 - c
<1> DEFINE r == (w + f) % c
           p == (r + i - 1) % c
<1>1. r = IF w + f < c THEN w + f ELSE w + f - c BY Further
<1>2. r \in 0 .. c - 1 BY <1>1
<1>3. i - 1 \in 0 .. c /\ r + (i - 1) = r + i - 1 BY <1>2
<1> HIDE DEF r
<1>4. p = IF r + i - 1 < c THEN r + i - 1 ELSE r + i - 1 - c BY <1>2, <1>3, Further
<1>5. p \in 0 .. c - 1 BY <1>2, <1>4
<1> HIDE DEF p
<1> DEFINE d == IF f + i - 1 < c THEN f + i - 1 ELSE f + i - 1 - c
<1>6. d \in 0 .. c - 1 OBVIOUS
<1>7. p - w = d \/ p - w = d - c BY <1>1, <1>2, <1>4, <1>5
<1> HIDE DEF d
<1>8. (p - w) % c = d BY <1>6, <1>7, SmallRemainder
<1> QED BY <1>2, <1>5, <1>8 DEF d, p, r

\* Writing does not move where is read; reading n moves it by n.
LEMMA ReadPosition ==
  ASSUME NEW c \in Nat \ {0}, NEW w \in 0 .. c - 1, NEW f \in 0 .. c
  PROVE  /\ \A n \in 0 .. f : (((w + n) % c) + (f - n)) % c = (w + f) % c
         /\ \A n \in 0 .. c - f, i \in 1 .. c :
               n + i <= c => (((w + (f + n)) % c) + i - 1) % c = (((w + f) % c) + (n + i) - 1) % c
<1>1. ASSUME NEW n \in 0 .. f PROVE (((w + n) % c) + (f - n)) % c = (w + f) % c
  <2> DEFINE x == (w + n) % c
  <2>0. n \in 0 .. c OBVIOUS
  <2>1. x = IF w + n < c THEN w + n ELSE w + n - c BY <2>0, Further
  <2>2. x \in 0 .. c - 1 /\ f - n \in 0 .. c BY <2>1
  <2> HIDE DEF x
  <2>3. (x + (f - n)) % c = IF x + (f - n) < c THEN x + (f - n) ELSE x + (f - n) - c
    BY <2>2, Further
  <2>4. (w + f) % c = IF w + f < c THEN w + f ELSE w + f - c BY Further
  <2>5. (x + (f - n)) % c = (w + f) % c BY <2>1, <2>2, <2>3, <2>4
  <2> QED BY <2>5 DEF x
<1>2. ASSUME NEW n \in 0 .. c - f, NEW i \in 1 .. c, n + i <= c
      PROVE  (((w + (f + n)) % c) + i - 1) % c = (((w + f) % c) + (n + i) - 1) % c
  <2> DEFINE x == (w + (f + n)) % c
             y == (w + f) % c
  <2>1. f + n \in 0 .. c OBVIOUS
  <2>2. x = IF w + (f + n) < c THEN w + (f + n) ELSE w + (f + n) - c BY <2>1, Further
  <2>3. y = IF w + f < c THEN w + f ELSE w + f - c BY Further
  <2>4. x \in 0 .. c - 1 /\ y \in 0 .. c - 1 BY <2>2, <2>3
  <2> HIDE DEF x, y
  <2>5. i - 1 \in 0 .. c /\ n + i - 1 \in 0 .. c BY <1>2
  <2>6. (x + (i - 1)) % c = IF x + (i - 1) < c THEN x + (i - 1) ELSE x + (i - 1) - c
    BY <2>4, <2>5, Further
  <2>7. (y + (n + i - 1)) % c = IF y + (n + i - 1) < c THEN y + (n + i - 1)
                                ELSE y + (n + i - 1) - c
    BY <2>4, <2>5, Further
  <2>8. (x + (i - 1)) % c = (y + (n + i - 1)) % c BY <1>2, <2>2, <2>3, <2>4, <2>6, <2>7
  <2>9. x + i - 1 = x + (i - 1) /\ y + (n + i) - 1 = y + (n + i - 1) BY <2>4
  <2> QED BY <2>8, <2>9 DEF x, y
<1> QED BY <1>1, <1>2

-----------------------------------------------------------------------------
(***************************************************************************)
(* The lane as a sequence.                                                 *)
(***************************************************************************)
LaneOf(buf, w, f) ==
    [i \in 1 .. (Capacity - f) |-> buf[(((w + f) % Capacity) + i - 1) % Capacity]]

LEMMA LaneIs ==
  ASSUME TypeOK
  PROVE  /\ InLane = LaneOf(buffer, write_position, free_write_space)
         /\ InLane \in Seq(Element) /\ Len(InLane) = free_read_space
         /\ free_read_space \in Nat /\ free_read_space <= Capacity
<1>1. /\ Capacity \in Nat \ {0} /\ write_position \in 0 .. Capacity - 1
      /\ free_write_space \in 0 .. Capacity /\ buffer \in [0 .. Capacity - 1 -> Element]
  BY CapacityType DEF TypeOK, Positions
<1>2. free_read_space \in Nat /\ free_read_space <= Capacity BY <1>1 DEF free_read_space
<1>3. ASSUME NEW i \in 1 .. free_read_space
      PROVE  buffer[(read_position + i - 1) % Capacity] \in Element
  <2>1. i \in 1 .. Capacity BY <1>1, <1>2
  <2>2. (((write_position + free_write_space) % Capacity) + i - 1) % Capacity
           \in 0 .. Capacity - 1
    BY <1>1, <2>1, Position
  <2> QED BY <1>1, <2>2 DEF read_position
<1>4. InLane = LaneOf(buffer, write_position, free_write_space)
  BY DEF InLane, Readable, LaneOf, read_position, free_read_space
<1>5. InLane \in Seq(Element) /\ Len(InLane) = free_read_space
  BY <1>2, <1>3 DEF InLane, Readable
<1> QED BY <1>2, <1>4, <1>5

\* What is written comes after what is there.
WrittenTo(buf, w, e) ==
    [p \in Positions |-> LET i == ((p - w) % Capacity) + 1
                         IN  IF i <= Len(e) THEN e[i] ELSE buf[p]]

LEMMA Written ==
  ASSUME NEW buf \in [Positions -> Element], NEW w \in Positions, NEW f \in 0 .. Capacity,
         NEW e \in Seq(Element), Len(e) <= f,
         NEW b, b = WrittenTo(buf, w, e)
  PROVE  /\ b \in [Positions -> Element]
         /\ (w + Len(e)) % Capacity \in Positions /\ f - Len(e) \in 0 .. Capacity
         /\ \A i \in 1 .. (Capacity - f) + Len(e) :
               LaneOf(b, (w + Len(e)) % Capacity, f - Len(e))[i]
                   = IF i <= Capacity - f THEN LaneOf(buf, w, f)[i] ELSE e[i - (Capacity - f)]
<1> DEFINE c == Capacity
<1>1. c \in Nat \ {0} /\ Positions = 0 .. c - 1 BY CapacityType DEF Positions
<1> HIDE DEF c
<1> USE DEF WrittenTo
<1> DEFINE n == Len(e)
<1>2. n \in 0 .. f BY <1>1
<1>3. \A i \in 1 .. n : e[i] \in Element OBVIOUS
<1>4. b \in [Positions -> Element]
  <2>1. ASSUME NEW p \in Positions
        PROVE  (IF ((p - w) % Capacity) + 1 <= Len(e) THEN e[((p - w) % Capacity) + 1]
                                                      ELSE buf[p]) \in Element
    <3>1. (p - w) % c \in 0 .. c - 1 BY <1>1, RemainderType
    <3> QED BY <1>3, <3>1 DEF c
  <2> QED BY <2>1
<1>5. (w + n) % c \in Positions /\ f - n \in 0 .. c
  <2>1. w \in Int /\ f \in 0 .. c BY <1>1 DEF c
  <2> HIDE DEF n
  <2>2. w + n \in Int /\ f - n \in 0 .. c BY <1>1, <1>2, <2>1
  <2>3. (w + n) % c \in 0 .. c - 1 BY <1>1, <2>2, RemainderType
  <2> QED BY <1>1, <2>2, <2>3
<1>6. ASSUME NEW i \in 1 .. (c - f) + n
      PROVE  LaneOf(b, (w + n) % c, f - n)[i]
                = IF i <= c - f THEN LaneOf(buf, w, f)[i] ELSE e[i - (c - f)]
  <2> DEFINE r == (((w + f) % c) + i - 1) % c
  <2>0. i \in 1 .. c /\ f \in 0 .. c /\ w \in 0 .. c - 1 BY <1>1, <1>2 DEF c
  <2>1. /\ r \in 0 .. c - 1
        /\ (r - w) % c = IF f + i - 1 < c THEN f + i - 1 ELSE f + i - 1 - c
    BY <1>1, <2>0, Position
  <2>2. (((w + n) % c) + (f - n)) % c = (w + f) % c BY <1>1, <1>2, <2>0, ReadPosition
  <2>3. LaneOf(b, (w + n) % c, f - n)[i] = b[r]
    <3>1. i \in 1 .. (c - (f - n))
      <4> HIDE DEF n
      <4> QED BY <1>1, <1>2, <2>0
    <3> QED BY <2>2, <3>1 DEF LaneOf, c
  <2> HIDE DEF r
  <2>4. b[r] = IF ((r - w) % c) + 1 <= n THEN e[((r - w) % c) + 1] ELSE buf[r]
    BY <1>1, <2>1 DEF c
  <2> HIDE DEF n
  <2>5. CASE i <= c - f
    <3>1. (r - w) % c = f + i - 1 BY <1>1, <2>0, <2>1, <2>5
    <3>2. ~(((r - w) % c) + 1 <= n) BY <1>2, <2>0, <3>1
    <3>3. LaneOf(buf, w, f)[i] = buf[r] BY <2>0, <2>5 DEF LaneOf, r, c
    <3> QED BY <2>3, <2>4, <2>5, <3>2, <3>3
  <2>6. CASE i > c - f
    <3>1. (r - w) % c = f + i - 1 - c BY <1>1, <2>0, <2>1, <2>6
    <3>2. ((r - w) % c) + 1 = i - (c - f) /\ i - (c - f) <= n BY <1>1, <1>2, <2>0, <3>1
    <3> QED BY <2>3, <2>4, <2>6, <2>0, <1>1, <3>2
  <2> QED BY <2>0, <1>1, <2>5, <2>6
<1> QED BY <1>4, <1>5, <1>6 DEF c

\* What is left after n are read are those that follow them.
LEMMA LaneRest ==
  ASSUME NEW buf, NEW w \in Positions, NEW f \in 0 .. Capacity, NEW n \in 0 .. Capacity - f
  PROVE  /\ f + n \in 0 .. Capacity
         /\ \A i \in 1 .. Capacity - (f + n) :
               LaneOf(buf, w, f + n)[i] = LaneOf(buf, w, f)[n + i]
<1> DEFINE c == Capacity
<1>1. c \in Nat \ {0} /\ Positions = 0 .. c - 1 BY CapacityType DEF Positions
<1> HIDE DEF c
<1>2. f + n \in 0 .. c BY <1>1 DEF c
<1>3. ASSUME NEW i \in 1 .. c - (f + n)
      PROVE  LaneOf(buf, w, f + n)[i] = LaneOf(buf, w, f)[n + i]
  <2>1. /\ i \in 1 .. c /\ n + i <= c /\ n + i \in 1 .. c - f /\ n \in 0 .. c - f
        /\ f \in 0 .. c /\ w \in 0 .. c - 1
    BY <1>1, <1>2 DEF c
  <2>2. (((w + (f + n)) % c) + i - 1) % c = (((w + f) % c) + (n + i) - 1) % c
    BY <1>1, <2>1, ReadPosition
  <2>3. LaneOf(buf, w, f + n)[i] = buf[(((w + (f + n)) % c) + i - 1) % c] BY DEF LaneOf, c
  <2>4. LaneOf(buf, w, f)[n + i] = buf[(((w + f) % c) + (n + i) - 1) % c]
    BY <2>1 DEF LaneOf, c
  <2> QED BY <2>2, <2>3, <2>4
<1> QED BY <1>2, <1>3 DEF c

\* The queue: what the lane holds, what is being written, what is to follow.
QueueFacts ==
    /\ free_read_space \in Nat /\ Len(left) \in Nat /\ Len(todo) \in Nat
    /\ Len(Queue) = free_read_space + Len(left) + Len(todo)
    /\ DOMAIN Queue = 1 .. free_read_space + Len(left) + Len(todo)
    /\ \A i \in 1 .. free_read_space :
          Queue[i] = LaneOf(buffer, write_position, free_write_space)[i]
    /\ \A i \in 1 .. Len(left) : Queue[free_read_space + i] = left[i]
    /\ \A i \in 1 .. Len(todo) : Queue[free_read_space + Len(left) + i] = todo[i]

LEMMA ConcatenatedTwo ==
  ASSUME NEW a \in Seq(Element), NEW b \in Seq(Element)
  PROVE  /\ a \o b \in Seq(Element) /\ Len(a \o b) = Len(a) + Len(b)
         /\ Len(a) \in Nat /\ Len(b) \in Nat /\ DOMAIN (a \o b) = 1 .. Len(a) + Len(b)
         /\ \A i \in 1 .. Len(a) : (a \o b)[i] = a[i]
         /\ \A i \in 1 .. Len(b) : (a \o b)[Len(a) + i] = b[i]
OBVIOUS

LEMMA Concatenated ==
  ASSUME NEW a \in Seq(Element), NEW b \in Seq(Element), NEW c \in Seq(Element)
  PROVE  /\ Len(a) \in Nat /\ Len(b) \in Nat /\ Len(c) \in Nat
         /\ a \o b \o c \in Seq(Element)
         /\ Len(a \o b \o c) = Len(a) + Len(b) + Len(c)
         /\ DOMAIN (a \o b \o c) = 1 .. Len(a) + Len(b) + Len(c)
         /\ \A i \in 1 .. Len(a) : (a \o b \o c)[i] = a[i]
         /\ \A i \in 1 .. Len(b) : (a \o b \o c)[Len(a) + i] = b[i]
         /\ \A i \in 1 .. Len(c) : (a \o b \o c)[Len(a) + Len(b) + i] = c[i]
<1> DEFINE ab == a \o b
<1>1. /\ ab \in Seq(Element) /\ Len(ab) = Len(a) + Len(b)
      /\ \A i \in 1 .. Len(a) : ab[i] = a[i]
      /\ \A i \in 1 .. Len(b) : ab[Len(a) + i] = b[i]
  BY ConcatenatedTwo
<1> HIDE DEF ab
<1>2. /\ ab \o c \in Seq(Element) /\ Len(ab \o c) = Len(ab) + Len(c)
      /\ DOMAIN (ab \o c) = 1 .. Len(ab \o c)
      /\ \A i \in 1 .. Len(ab) : (ab \o c)[i] = ab[i]
      /\ \A i \in 1 .. Len(c) : (ab \o c)[Len(ab) + i] = c[i]
  BY <1>1, ConcatenatedTwo
<1>3. Len(a) \in Nat /\ Len(b) \in Nat /\ Len(c) \in Nat OBVIOUS
<1>4. \A i \in 1 .. Len(a) : (ab \o c)[i] = a[i] BY <1>1, <1>2, <1>3
<1>5. \A i \in 1 .. Len(b) : (ab \o c)[Len(a) + i] = b[i]
  <2>1. ASSUME NEW i \in 1 .. Len(b) PROVE (ab \o c)[Len(a) + i] = b[i]
    <3>1. Len(a) + i \in 1 .. Len(ab) BY <1>1, <1>3
    <3> QED BY <1>1, <1>2, <3>1
  <2> QED BY <2>1
<1>6. \A i \in 1 .. Len(c) : (ab \o c)[Len(a) + Len(b) + i] = c[i] BY <1>1, <1>2
<1> QED BY <1>1, <1>2, <1>3, <1>4, <1>5, <1>6 DEF ab

LEMMA QueueIs == TypeOK => QueueFacts
<1> SUFFICES ASSUME TypeOK PROVE QueueFacts OBVIOUS
<1>1. /\ InLane = LaneOf(buffer, write_position, free_write_space)
      /\ InLane \in Seq(Element) /\ Len(InLane) = free_read_space
  BY LaneIs
<1>2. left \in Seq(Element) /\ todo \in Seq(Element) BY DEF TypeOK, Element
<1>3. Queue = InLane \o left \o todo BY DEF Queue
<1>4. /\ Len(left) \in Nat /\ Len(todo) \in Nat /\ Len(InLane) \in Nat
      /\ Len(Queue) = Len(InLane) + Len(left) + Len(todo)
      /\ DOMAIN Queue = 1 .. Len(InLane) + Len(left) + Len(todo)
      /\ \A i \in 1 .. Len(InLane) : Queue[i] = InLane[i]
      /\ \A i \in 1 .. Len(left) : Queue[Len(InLane) + i] = left[i]
      /\ \A i \in 1 .. Len(todo) : Queue[Len(InLane) + Len(left) + i] = todo[i]
  <2>1. PICK a \in Seq(Element) : a = InLane BY <1>1
  <2>2. PICK b \in Seq(Element) : b = left BY <1>2
  <2>3. PICK c \in Seq(Element) : c = todo BY <1>2
  <2>4. Queue = a \o b \o c BY <1>3, <2>1, <2>2, <2>3
  <2>5. /\ Len(b) \in Nat /\ Len(c) \in Nat /\ Len(a) \in Nat
        /\ Len(Queue) = Len(a) + Len(b) + Len(c)
        /\ DOMAIN Queue = 1 .. Len(a) + Len(b) + Len(c)
        /\ \A i \in 1 .. Len(a) : Queue[i] = a[i]
        /\ \A i \in 1 .. Len(b) : Queue[Len(a) + i] = b[i]
        /\ \A i \in 1 .. Len(c) : Queue[Len(a) + Len(b) + i] = c[i]
    <3>1. /\ Len(b) \in Nat /\ Len(c) \in Nat /\ Len(a) \in Nat
          /\ Len(a \o b \o c) = Len(a) + Len(b) + Len(c)
          /\ DOMAIN (a \o b \o c) = 1 .. Len(a) + Len(b) + Len(c)
          /\ \A i \in 1 .. Len(a) : (a \o b \o c)[i] = a[i]
          /\ \A i \in 1 .. Len(b) : (a \o b \o c)[Len(a) + i] = b[i]
          /\ \A i \in 1 .. Len(c) : (a \o b \o c)[Len(a) + Len(b) + i] = c[i]
      BY Concatenated
    <3> QED BY <2>4, <3>1
  <2> QED BY <2>1, <2>2, <2>3, <2>5
<1> QED BY <1>1, <1>4 DEF QueueFacts

-----------------------------------------------------------------------------
(***************************************************************************)
(* The flagged channels are emplaced once each.                            *)
(***************************************************************************)
LEMMA Below ==
  ASSUME NEW n \in Nat, NEW T,
         \A k \in 0 .. n : (\A j \in 0 .. n : j < k => j \in T) => k \in T
  PROVE  \A k \in 0 .. n : k \in T
<1> DEFINE B == {k \in 0 .. n : k \notin T}
           less == {ss \in Nat \X Nat : ss[1] < ss[2]}
<1>1. SUFFICES ASSUME B # {} PROVE FALSE OBVIOUS
<1>2. B \subseteq Nat OBVIOUS
<1>3. IsWellFoundedOn(less, Nat) BY NatLessThanWellFounded DEF OpToRel
<1>4. PICK m \in B : \A j \in B : ~ (<<j, m>> \in less)
  <2> HIDE DEF B, less
  <2> QED BY <1>1, <1>2, <1>3, WFMin
<1>5. ASSUME NEW j \in 0 .. n, j < m PROVE j \in T
  <2>1. j \in Nat /\ m \in Nat OBVIOUS
  <2> QED BY <1>4, <1>5, <2>1
<1>6. m \in T BY <1>5
<1> QED BY <1>6

IsUpTo(f, flags, n) ==
    f = [ch \in 0 .. n |-> IF ch = 0 THEN <<>>
                           ELSE IF ch \in flags THEN Append(f[ch - 1], ch) ELSE f[ch - 1]]

LEMMA UpToExists ==
  ASSUME NEW flags, NEW n \in Nat
  PROVE  \E f : IsUpTo(f, flags, n)
<1> DEFINE T == {k \in 0 .. n : \E f : IsUpTo(f, flags, k)}
<1>1. ASSUME NEW k \in 0 .. n, \A j \in 0 .. n : j < k => j \in T
      PROVE  k \in T
  <2>1. CASE k = 0
    <3> DEFINE f == [j \in 0 .. 0 |-> <<>>]
    <3>1. f = [ch \in 0 .. 0 |-> IF ch = 0 THEN <<>>
                                 ELSE IF ch \in flags THEN Append(f[ch - 1], ch)
                                                      ELSE f[ch - 1]]
      OBVIOUS
    <3>2. IsUpTo(f, flags, 0) BY <3>1 DEF IsUpTo
    <3> QED BY <2>1, <3>2
  <2>2. CASE k > 0
    <3>1. k - 1 \in 0 .. n /\ k - 1 < k BY <2>2
    <3>2. k - 1 \in T BY <1>1, <3>1
    <3>3. PICK g : IsUpTo(g, flags, k - 1) BY <3>2
    <3> DEFINE last == IF k \in flags THEN Append(g[k - 1], k) ELSE g[k - 1]
               f == [j \in 0 .. k |-> IF j < k THEN g[j] ELSE last]
    <3>4. ASSUME NEW j \in 0 .. k
          PROVE  f[j] = IF j = 0 THEN <<>>
                        ELSE IF j \in flags THEN Append(f[j - 1], j) ELSE f[j - 1]
      <4>1. \A i \in 0 .. k - 1 : g[i] = IF i = 0 THEN <<>>
                                         ELSE IF i \in flags THEN Append(g[i - 1], i)
                                                             ELSE g[i - 1]
        BY <3>3 DEF IsUpTo
      <4>2. CASE j < k
        <5>1. j \in 0 .. k - 1 /\ f[j] = g[j] BY <4>2
        <5>2. j # 0 => j - 1 \in 0 .. k /\ j - 1 < k /\ f[j - 1] = g[j - 1] BY <4>2
        <5> QED BY <4>1, <5>1, <5>2
      <4>3. CASE j = k
        <5>0. k \in 0 .. k /\ ~(k < k) OBVIOUS
        <5>1. f[j] = last BY <4>3, <5>0
        <5>2. f[j - 1] = g[k - 1] BY <2>2, <4>3
        <5> QED BY <2>2, <4>3, <5>1, <5>2
      <4> QED BY <4>2, <4>3
    <3>5. f = [ch \in 0 .. k |-> IF ch = 0 THEN <<>>
                                 ELSE IF ch \in flags THEN Append(f[ch - 1], ch)
                                                      ELSE f[ch - 1]]
      <4>1. f = [j \in 0 .. k |-> f[j]] OBVIOUS
      <4> HIDE DEF f
      <4> QED BY <3>4, <4>1
    <3>6. IsUpTo(f, flags, k)
      <4> HIDE DEF f
      <4> QED BY <3>5 DEF IsUpTo
    <3> QED BY <3>6
  <2> QED BY <2>1, <2>2
<1>2. \A k \in 0 .. n : k \in T
  <2> HIDE DEF T
  <2> QED BY <1>1, Below
<1> QED BY <1>2

\* The members of flags up to k, each once.
Lists(q, flags, k) ==
    /\ q \in Seq(1 .. k)
    /\ \A i \in DOMAIN q : q[i] \in flags
    /\ \A ch \in 1 .. k : ch \in flags => \E i \in DOMAIN q : q[i] = ch
    /\ Distinct(q)

LEMMA ListsNone ==
  ASSUME NEW flags
  PROVE  Lists(<<>>, flags, 0)
<1>1. <<>> \in Seq(1 .. 0) /\ DOMAIN <<>> = {} OBVIOUS
<1>2. \A ch \in 1 .. 0 : FALSE OBVIOUS
<1> QED BY <1>1, <1>2 DEF Lists, Distinct

LEMMA ListsNext ==
  ASSUME NEW q, NEW flags, NEW k \in Nat \ {0}, Lists(q, flags, k - 1)
  PROVE  Lists(IF k \in flags THEN Append(q, k) ELSE q, flags, k)
<1>1. /\ q \in Seq(1 .. k) /\ Len(q) \in Nat /\ DOMAIN q = 1 .. Len(q)
      /\ \A i \in DOMAIN q : q[i] \in 1 .. k - 1
  <2>1. q \in Seq(1 .. k - 1) BY DEF Lists
  <2>2. 1 .. k - 1 \subseteq 1 .. k OBVIOUS
  <2> QED BY <2>1, <2>2
<1>2. CASE k \notin flags
  <2>1. \A ch \in 1 .. k : ch \in flags => ch \in 1 .. k - 1 BY <1>2
  <2> QED BY <1>1, <1>2, <2>1 DEF Lists
<1>3. CASE k \in flags
  <2> DEFINE r == Append(q, k)
  <2>1. /\ r \in Seq(1 .. k) /\ DOMAIN r = 1 .. Len(q) + 1
        /\ \A i \in DOMAIN q : r[i] = q[i]
        /\ r[Len(q) + 1] = k
    BY <1>1
  <2> HIDE DEF r
  <2>2. \A i \in DOMAIN r : i \in DOMAIN q \/ i = Len(q) + 1 BY <1>1, <2>1
  <2>3. \A i \in DOMAIN r : r[i] \in flags BY <1>3, <2>1, <2>2 DEF Lists
  <2>4. ASSUME NEW ch \in 1 .. k, ch \in flags PROVE \E i \in DOMAIN r : r[i] = ch
    <3>1. CASE ch = k BY <1>1, <2>1, <3>1
    <3>2. CASE ch # k
      <4>1. ch \in 1 .. k - 1 BY <3>2
      <4>2. PICK i \in DOMAIN q : q[i] = ch BY <2>4, <4>1 DEF Lists
      <4> QED BY <1>1, <2>1, <4>2
    <3> QED BY <3>1, <3>2
  <2>5. Distinct(r)
    <3>1. SUFFICES ASSUME NEW i \in DOMAIN r, NEW j \in DOMAIN r, r[i] = r[j] PROVE i = j
      BY DEF Distinct
    <3>2. \A m \in DOMAIN q : q[m] # k BY <1>1
    <3>3. Distinct(q) BY DEF Lists
    <3> QED BY <2>1, <2>2, <3>1, <3>2, <3>3 DEF Distinct
  <2>6. Lists(r, flags, k) BY <2>1, <2>3, <2>4, <2>5 DEF Lists
  <2> QED BY <1>3, <2>6 DEF r
<1> QED BY <1>2, <1>3

LEMMA InOrderLists ==
  ASSUME NEW flags
  PROVE  Lists(InOrderOfChannel(flags), flags, NChan)
<1> DEFINE upTo == CHOOSE f : IsUpTo(f, flags, NChan)
<1>0. NChan \in Nat \ {0} BY Constants
<1>1. IsUpTo(upTo, flags, NChan) BY <1>0, UpToExists
<1>2. InOrderOfChannel(flags) = upTo[NChan] BY DEF InOrderOfChannel, IsUpTo
<1> HIDE DEF upTo
<1> DEFINE T == {k \in 0 .. NChan : Lists(upTo[k], flags, k)}
<1>3. ASSUME NEW k \in 0 .. NChan, \A j \in 0 .. NChan : j < k => j \in T
      PROVE  k \in T
  <2>1. upTo[k] = IF k = 0 THEN <<>>
                  ELSE IF k \in flags THEN Append(upTo[k - 1], k) ELSE upTo[k - 1]
    BY <1>1 DEF IsUpTo
  <2>2. CASE k = 0
    <3>1. Lists(upTo[k], flags, k) BY <2>1, <2>2, ListsNone
    <3> QED BY <3>1
  <2>3. CASE k > 0
    <3>1. k - 1 \in 0 .. NChan /\ k - 1 < k /\ k \in Nat \ {0} BY <1>0, <2>3
    <3>2. Lists(upTo[k - 1], flags, k - 1) BY <1>3, <3>1
    <3>3. Lists(upTo[k], flags, k) BY <2>1, <2>3, <3>1, <3>2, ListsNext
    <3> QED BY <3>3
  <2> QED BY <2>2, <2>3
<1>4. \A k \in 0 .. NChan : k \in T
  <2> HIDE DEF T
  <2> QED BY <1>0, <1>3, Below
<1> QED BY <1>0, <1>2, <1>4

-----------------------------------------------------------------------------
(***************************************************************************)
(* The sum over the window is over all unflagged samples of the input that *)
(* are near enough: the step keeps as many buffers as that takes.          *)
(***************************************************************************)
LEMMA HalfType == Half \in Nat /\ WindowSize = 2 * Half + 1
BY InterpolateAssumption DEF Half

\* A time of the observation that is near enough to the one at pos is in a
\* buffer: n buffers were sent, there are b, and m in the observation.
LEMMA NearIsThere ==
  ASSUME NEW n \in Nat, NEW b \in Nat, NEW pos \in Nat, NEW h \in Nat, NEW m \in Nat,
         n # 0 => pos >= h,
         n + b = m \/ (b >= 2 * h + 1 /\ pos <= h),
         NEW u \in 1 .. m, u - (n + pos + 1) \in -h .. h
  PROVE  u - n \in 1 .. b /\ (u - n) - 1 >= pos - h /\ (u - n) - 1 <= pos + h
<1>1. u - (n + pos + 1) >= -h /\ u - (n + pos + 1) <= h OBVIOUS
<1>2. u >= n + pos + 1 - h /\ u <= n + pos + 1 + h BY <1>1
<1>3. u - n >= 1
  <2>1. CASE n = 0 BY <2>1
  <2>2. CASE n # 0 BY <1>2, <2>2
  <2> QED BY <2>1, <2>2
<1>4. u - n <= b
  <2>1. CASE n + b = m BY <2>1
  <2>2. CASE b >= 2 * h + 1 /\ pos <= h BY <1>2, <2>2
  <2> QED BY <2>1, <2>2
<1> QED BY <1>2, <1>3, <1>4

LEMMA SumIsWanted ==
  ASSUME IInv, Working, NEW ch \in buffers[Current].flags
  PROVE  UNION {buffers[w[1]].data[w[2]] :
                   w \in {x \in Window(interpolated_pos, ch) :
                             x[2] \notin buffers[x[1]].flags}}
            = Wanted(flagged, Len(sent) + Current, ch)
<1> DEFINE n == Len(sent)
           b == Len(buffers)
           pos == interpolated_pos
           Unflagged == {x \in Window(pos, ch) : x[2] \notin buffers[x[1]].flags}
           W == UNION {buffers[w[1]].data[w[2]] : w \in Unflagged}
<1>0. TypeOK /\ WindowInv /\ BuffersInv BY DEF IInv
<1>1. /\ n \in Nat /\ b \in Nat /\ pos \in Nat /\ Half \in Nat
      /\ WindowSize = 2 * Half + 1 /\ pos < b /\ Len(flagged) \in Nat
      /\ DOMAIN buffers = 1 .. b /\ DOMAIN flagged = 1 .. Len(flagged)
  <2>1. flagged \in Seq(SUBSET Channels) BY <1>0, Constants DEF TypeOK
  <2>2. sent \in Seq(Buf) /\ buffers \in Seq(Buf) /\ pos \in Nat /\ pos < b
    BY <1>0 DEF TypeOK, WindowInv
  <2> QED BY <2>1, <2>2, HalfType
<1>2. sent = <<>> <=> n = 0
  <2>1. sent \in Seq(Buf) BY <1>0 DEF TypeOK
  <2> QED BY <2>1
<1>3. /\ fed = n + b /\ fed <= Len(flagged)
      /\ n # 0 => pos >= Half
      /\ finishing => fed = Len(flagged)
      /\ ~finishing => b >= WindowSize /\ pos <= Half
  <2>1. sent # <<>> => pos >= Half \/ pos = b BY <1>0 DEF WindowInv
  <2>2. n # 0 => pos >= Half BY <1>1, <1>2, <2>1
  <2>3. pc # "idle" BY DEF Working
  <2> QED BY <1>0, <2>2, <2>3 DEF WindowInv
<1>4. /\ Current = pos + 1 /\ Current \in DOMAIN buffers
      /\ buffers[Current].flags = flagged[n + Current] /\ n + Current = n + pos + 1
  <2>1. Current = pos + 1 BY DEF Current
  <2> HIDE DEF n, b, pos
  <2>2. Current \in DOMAIN buffers /\ n + Current = n + pos + 1 BY <1>1, <2>1
  <2> QED BY <1>0, <2>1, <2>2 DEF WindowInv, n
<1>5. ch \in Channels
  <2>1. buffers[Current] \in Buf BY <1>0, <1>4 DEF TypeOK
  <2> QED BY <2>1 DEF Buf
<1>6. \A x : x \in Unflagged <=>
               \E i \in 1 .. b, c \in Channels :
                  /\ x = <<i, c>> /\ i - 1 >= pos - Half /\ i - 1 <= pos + Half
                  /\ c >= ch - Half /\ c <= ch + Half /\ c \notin flagged[n + i]
  <2>1. \A i \in 1 .. b : buffers[i].flags = flagged[n + i] BY <1>0, <1>1 DEF WindowInv
  <2> QED BY <1>1, <2>1 DEF Window
<1>7. ASSUME NEW x \in Unflagged PROVE buffers[x[1]].data[x[2]] = {<<n + x[1], x[2]>>}
  <2>1. PICK i \in 1 .. b, c \in Channels : x = <<i, c>> /\ c \notin flagged[n + i] BY <1>6
  <2> QED BY <1>0, <1>1, <2>1 DEF BuffersInv
<1>8. \A s : s \in Wanted(flagged, n + Current, ch) <=>
               \E u \in 1 .. Len(flagged), c \in Channels :
                  /\ s = <<u, c>>
                  /\ u - (n + pos + 1) \in -Half .. Half /\ c - ch \in -Half .. Half
                  /\ c \notin flagged[u]
  <2> DEFINE T == n + pos + 1
  <2>1. n + Current = T /\ ch \in flagged[T] BY <1>4
  <2> HIDE DEF T
  <2>2. Wanted(flagged, T, ch) = {s \in (DOMAIN flagged) \X Channels :
                           /\ s[1] - T \in -Half .. Half
                           /\ s[2] - ch \in -Half .. Half
                           /\ s[2] \notin flagged[s[1]]}
    BY <2>1 DEF Wanted
  <2>3. \A s : s \in Wanted(flagged, T, ch) <=>
                 \E u \in 1 .. Len(flagged), c \in Channels :
                    /\ s = <<u, c>>
                    /\ u - T \in -Half .. Half /\ c - ch \in -Half .. Half
                    /\ c \notin flagged[u]
    <3> HIDE DEF n, b, pos
    <3>1. DOMAIN flagged = 1 .. Len(flagged) BY <1>1
    <3> HIDE DEF Channels, Half
    <3> QED BY <2>2, <3>1
  <2> QED BY <2>1, <2>3 DEF T
<1> HIDE DEF Unflagged, n, b, pos
<1>9. ASSUME NEW s \in W PROVE s \in Wanted(flagged, n + Current, ch)
  <2>1. PICK x \in Unflagged : s \in buffers[x[1]].data[x[2]] OBVIOUS
  <2>2. s = <<n + x[1], x[2]>> BY <1>7, <2>1
  <2>3. PICK i \in 1 .. b, c \in Channels :
           /\ x = <<i, c>> /\ i - 1 >= pos - Half /\ i - 1 <= pos + Half
           /\ c >= ch - Half /\ c <= ch + Half /\ c \notin flagged[n + i]
    BY <1>6, <2>1
  <2>4. n + i \in 1 .. Len(flagged)
    <3>1. n + b <= Len(flagged) /\ n \in Nat /\ b \in Nat /\ Len(flagged) \in Nat
      BY <1>1, <1>3
    <3> QED BY <3>1
  <2>5. (n + i) - (n + pos + 1) \in -Half .. Half BY <1>1, <2>3
  <2>6. c - ch \in -Half .. Half
    <3>1. c \in Int /\ ch \in Int BY <1>5 DEF Channels
    <3> HIDE DEF Half
    <3> QED BY <1>1, <2>3, <3>1
  <2> QED BY <1>8, <2>2, <2>3, <2>4, <2>5, <2>6
<1>10. ASSUME NEW s \in Wanted(flagged, n + Current, ch) PROVE s \in W
  <2>1. PICK u \in 1 .. Len(flagged), c \in Channels :
           /\ s = <<u, c>>
           /\ u - (n + pos + 1) \in -Half .. Half /\ c - ch \in -Half .. Half
           /\ c \notin flagged[u]
    BY <1>8
  <2> DEFINE i == u - n
  <2>2. i \in 1 .. b /\ i - 1 >= pos - Half /\ i - 1 <= pos + Half
    <3>1. n + b = Len(flagged) \/ (b >= 2 * Half + 1 /\ pos <= Half) BY <1>1, <1>3
    <3>2. n # 0 => pos >= Half BY <1>3
    <3> HIDE DEF Half
    <3> QED BY <1>1, <2>1, <3>1, <3>2, NearIsThere
  <2>3. c >= ch - Half /\ c <= ch + Half
    <3>1. c \in Int /\ ch \in Int BY <1>5 DEF Channels
    <3> HIDE DEF Half
    <3> QED BY <1>1, <2>1, <3>1
  <2>4. u = n + i
    <3>1. u \in Int BY <1>1
    <3> QED BY <1>1, <3>1
  <2> HIDE DEF i
  <2>5. <<i, c>> \in Unflagged BY <1>6, <2>1, <2>2, <2>3, <2>4
  <2>6. buffers[i].data[c] = {s} BY <1>7, <2>1, <2>4, <2>5
  <2> QED BY <2>5, <2>6
<1>11. W = Wanted(flagged, n + Current, ch)
  <2> HIDE DEF W
  <2> QED BY <1>9, <1>10
<1> QED BY <1>11 DEF Unflagged, n, pos

-----------------------------------------------------------------------------
(***************************************************************************)
(* The initial state, and the steps between those that interpolate.        *)
(***************************************************************************)
LEMMA InitInterpolate == InterpolateInit => IInv
<1> SUFFICES ASSUME InterpolateInit PROVE IInv OBVIOUS
<1> USE DEF InterpolateInit, EmptyLane
<1>1. Capacity \in Nat \ {0} BY CapacityType
<1>2. TypeOK
  <2>1. 0 \in Positions /\ Capacity \in 0 .. Capacity BY <1>1 DEF Positions
  <2>2. buffer \in [Positions -> Element] BY DEF Element
  <2> QED BY <2>1, <2>2 DEF TypeOK, Value
<1>3. WindowInv
  <2>1. flagged \in Seq(SUBSET Channels) BY Constants
  <2>2. Len(flagged) \in Nat BY <2>1
  <2> QED BY <2>2 DEF WindowInv, Working
<1>4. ThreadInv
  <2>1. BufferSize \in Nat BY Constants
  <2> QED BY <2>1 DEF ThreadInv, Working
<1>5. PlaceInv BY DEF PlaceInv, Working
<1>6. BuffersInv /\ CurrentInv /\ SentIsWanted BY DEF BuffersInv, CurrentInv, Working, SentIsWanted
<1> QED BY <1>2, <1>3, <1>4, <1>5, <1>6 DEF IInv

LEMMA NotWorking ==
  ASSUME IInv, ~Working, ~Working', UNCHANGED <<todo, left, samplerVars>>
  PROVE  ThreadInv' /\ PlaceInv' /\ CurrentInv'
<1>1. ThreadInv BY DEF IInv
<1>2. /\ todo' = <<>> /\ left' = <<>> /\ pc' \notin {"write", "join"}
      /\ \A t \in Interpolators :
            /\ batch'[t] = <<>> /\ interpolator'[t] \in {"none", "gone"}
            /\ Len(batch'[t]) <= BufferSize
  BY <1>1 DEF ThreadInv, Working, samplerVars
<1>3. ThreadInv' BY <1>2 DEF ThreadInv, Working
<1>4. PlaceInv' BY DEF PlaceInv
<1>5. CurrentInv' BY <1>2 DEF CurrentInv
<1> QED BY <1>3, <1>4, <1>5

LEMMA ProcessKeeps ==
  ASSUME IInv, Process
  PROVE  IInv'
<1> USE DEF Process
<1>0. TypeOK /\ WindowInv /\ BuffersInv BY DEF IInv
<1> DEFINE n == Len(sent)
           b == Len(buffers)
           e == InputBuffer(fed + 1)
<1>1. /\ buffers \in Seq(Buf) /\ sent \in Seq(Buf) /\ n \in Nat /\ b \in Nat
      /\ flagged \in Seq(SUBSET Channels) /\ fed \in Nat /\ interpolated_pos \in Nat
      /\ fed + 1 \in 1 .. Len(flagged) /\ Len(flagged) \in Nat
  <2>1. flagged \in Seq(SUBSET Channels) BY <1>0, Constants DEF TypeOK
  <2>2. Len(flagged) \in Nat BY <2>1
  <2>3. fed < Len(flagged) /\ fed \in Nat BY <1>0 DEF TypeOK
  <2> QED BY <1>0, <2>1, <2>2, <2>3 DEF TypeOK
<1>2. /\ e \in Buf /\ e.time = fed + 1 /\ e.flags = flagged[fed + 1]
      /\ \A ch \in Channels : e.data[ch] = {<<fed + 1, ch>>}
  <2>1. flagged[fed + 1] \in SUBSET Channels BY <1>1
  <2>2. [ch \in Channels |-> {<<fed + 1, ch>>}] \in [Channels -> Value] BY <1>1 DEF Value
  <2> QED BY <1>1, <2>1, <2>2 DEF InputBuffer, Buf
<1>3. buffers' = Append(buffers, e) OBVIOUS
<1> HIDE DEF e
<1>4. /\ buffers' \in Seq(Buf) /\ Len(buffers') = b + 1 /\ DOMAIN buffers' = 1 .. b + 1
      /\ DOMAIN buffers = 1 .. b
      /\ \A i \in 1 .. b : buffers'[i] = buffers[i]
      /\ buffers'[b + 1] = e
  BY <1>1, <1>2, <1>3
<1>5. fed = n + b /\ fed + 1 = n + (b + 1) /\ interpolated_pos <= b /\ ~finishing
  BY <1>0, <1>1 DEF WindowInv
<1>6. TypeOK'
  <2>1. pc' \in {"idle", "window"} OBVIOUS
  <2> QED BY <1>0, <1>1, <1>4, <2>1 DEF TypeOK, samplerVars, laneVars
<1>7. WindowInv'
  <2>1. ASSUME NEW i \in DOMAIN buffers'
        PROVE  /\ buffers'[i].time = n + i /\ buffers'[i].flags = flagged[n + i]
    <3>1. CASE i \in 1 .. b BY <1>0, <1>4, <3>1 DEF WindowInv
    <3>2. CASE i = b + 1 BY <1>2, <1>4, <1>5, <3>2
    <3> QED BY <1>1, <1>4, <3>1, <3>2
  <2>2. sent # <<>> => interpolated_pos >= Half BY <1>0, <1>5 DEF WindowInv
  <2>3. pc' # "idle" => Len(buffers') >= WindowSize OBVIOUS
  <2>4. fed' = n + (b + 1) /\ fed' <= Len(flagged) BY <1>1, <1>5
  <2>5. interpolated_pos <= b + 1 BY <1>1, <1>5
  <2> QED BY <1>4, <1>5, <2>1, <2>2, <2>3, <2>4, <2>5 DEF WindowInv, Working
<1>8. BuffersInv'
  <2>1. SUFFICES ASSUME NEW i \in DOMAIN buffers', NEW ch \in Channels
                 PROVE  /\ ch \notin flagged[n + i] => buffers'[i].data[ch] = {<<n + i, ch>>}
                        /\ i <= interpolated_pos =>
                              buffers'[i].data[ch] = Wanted(flagged, n + i, ch)
    BY DEF BuffersInv
  <2>2. CASE i \in 1 .. b BY <1>0, <1>4, <2>2 DEF BuffersInv
  <2>3. CASE i = b + 1
    <3>1. ~(i <= interpolated_pos) BY <1>1, <1>5, <2>3
    <3> QED BY <1>2, <1>4, <1>5, <2>3, <3>1
  <2> QED BY <1>1, <1>4, <2>1, <2>2, <2>3
<1>9. ThreadInv' /\ PlaceInv' /\ CurrentInv' BY NotWorking DEF Working
<1>10. SentIsWanted' BY DEF IInv, SentIsWanted
<1> QED BY <1>6, <1>7, <1>8, <1>9, <1>10 DEF IInv

LEMMA FinishKeeps ==
  ASSUME IInv, Finish
  PROVE  IInv'
<1> USE DEF Finish
<1>0. TypeOK /\ WindowInv /\ BuffersInv BY DEF IInv
<1>1. TypeOK' BY <1>0 DEF TypeOK, samplerVars, laneVars
<1>2. WindowInv' BY <1>0 DEF WindowInv, Working
<1>3. BuffersInv' BY <1>0 DEF BuffersInv
<1>4. ThreadInv' /\ PlaceInv' /\ CurrentInv' BY NotWorking DEF Working
<1>5. SentIsWanted' BY DEF IInv, SentIsWanted
<1> QED BY <1>1, <1>2, <1>3, <1>4, <1>5 DEF IInv

LEMMA FinishNextStepKeeps ==
  ASSUME IInv, FinishNextStep
  PROVE  IInv'
<1> USE DEF FinishNextStep, stepVars
<1>0. TypeOK /\ WindowInv /\ BuffersInv BY DEF IInv
<1>1. TypeOK' BY <1>0 DEF TypeOK, samplerVars, laneVars
<1>2. WindowInv' BY <1>0 DEF WindowInv, Working
<1>3. BuffersInv' BY <1>0 DEF BuffersInv
<1>4. ThreadInv' /\ PlaceInv' /\ CurrentInv' BY NotWorking DEF Working
<1>5. SentIsWanted' BY DEF IInv, SentIsWanted
<1> QED BY <1>1, <1>2, <1>3, <1>4, <1>5 DEF IInv

(* The front buffer is before the time that comes next, so it is complete.    *)
LEMMA SendFrontBufferKeeps ==
  ASSUME IInv, SendFrontBuffer
  PROVE  IInv'
<1> USE DEF SendFrontBuffer
<1>0. TypeOK /\ WindowInv /\ BuffersInv /\ SentIsWanted BY DEF IInv
<1> DEFINE n == Len(sent)
           b == Len(buffers)
           pos == interpolated_pos
           e == Cleared(Head(buffers))
<1>1. /\ buffers \in Seq(Buf) /\ buffers # <<>> /\ sent \in Seq(Buf)
      /\ n \in Nat /\ b \in Nat \ {0} /\ pos \in Nat /\ Half \in Nat
  BY <1>0, HalfType DEF TypeOK
<1>2. /\ pos >= 1 /\ pos <= b /\ fed = n + b
      /\ ~finishing => pos > Half
      /\ finishing => pos = b
  <2>1. pos <= b /\ fed = n + b BY <1>0 DEF WindowInv
  <2>2. CASE finishing
    <3>1. ~(pos < b) BY <2>2 DEF InterpolateNext
    <3> QED BY <1>1, <2>1, <2>2, <3>1
  <2>3. CASE ~finishing
    <3>1. ~(pos <= Half) BY <2>3 DEF InterpolateNext
    <3> QED BY <1>1, <2>1, <2>3, <3>1
  <2> QED BY <2>2, <2>3
<1>3. /\ buffers' \in Seq(Buf) /\ Len(buffers') = b - 1 /\ DOMAIN buffers' = 1 .. b - 1
      /\ DOMAIN buffers = 1 .. b
      /\ \A i \in 1 .. b - 1 : buffers'[i] = buffers[i + 1]
      /\ Head(buffers) = buffers[1] /\ 1 \in DOMAIN buffers
  BY <1>1
<1>4. /\ e \in Buf /\ e.time = n + 1
      /\ \A ch \in Channels : /\ e.data[ch] = Wanted(flagged, n + 1, ch)
                              /\ ch \in e.flags <=> Wanted(flagged, n + 1, ch) = {}
  <2>1. PICK f \in Buf : f = buffers[1] BY <1>1, <1>3
  <2>2. f.time = n + 1 BY <1>0, <1>3, <2>1 DEF WindowInv
  <2>3. ASSUME NEW ch \in Channels PROVE f.data[ch] = Wanted(flagged, n + 1, ch)
    BY <1>0, <1>2, <1>3, <2>1 DEF BuffersInv
  <2>4. e = [f EXCEPT !.flags = {ch \in Channels : f.data[ch] = {}}]
    BY <1>3, <2>1 DEF Cleared
  <2>5. /\ e \in Buf /\ e.time = f.time /\ e.data = f.data
        /\ e.flags = {ch \in Channels : f.data[ch] = {}}
    <3> HIDE DEF e
    <3> QED BY <2>4 DEF Buf
  <2> HIDE DEF e
  <2> QED BY <2>2, <2>3, <2>5
<1>5. sent' = Append(sent, e) OBVIOUS
<1> HIDE DEF e
<1>6. /\ sent' \in Seq(Buf) /\ Len(sent') = n + 1 /\ DOMAIN sent' = 1 .. n + 1
      /\ DOMAIN sent = 1 .. n
      /\ \A k \in 1 .. n : sent'[k] = sent[k]
      /\ sent'[n + 1] = e
  BY <1>1, <1>4, <1>5
<1>7. TypeOK'
  <2>1. pc' \in {"idle", "window"} OBVIOUS
  <2>2. interpolated_pos' \in Nat BY <1>1, <1>2
  <2> QED BY <1>0, <1>3, <1>6, <2>1, <2>2 DEF TypeOK, samplerVars, laneVars
<1>8. WindowInv'
  <2>1. ASSUME NEW i \in DOMAIN buffers'
        PROVE  /\ buffers'[i].time = n + 1 + i /\ buffers'[i].flags = flagged[n + 1 + i]
    <3>1. i \in 1 .. b - 1 /\ i + 1 \in DOMAIN buffers /\ n + (i + 1) = n + 1 + i
      <4>1. n \in Nat /\ b \in Nat BY <1>1
      <4>2. i \in 1 .. b - 1 /\ DOMAIN buffers = 1 .. b BY <1>3
      <4> HIDE DEF n, b
      <4> QED BY <4>1, <4>2
    <3>2. buffers'[i] = buffers[i + 1] BY <1>3, <3>1
    <3>3. /\ buffers[i + 1].time = n + (i + 1) /\ buffers[i + 1].flags = flagged[n + (i + 1)]
      BY <1>0, <3>1 DEF WindowInv
    <3> QED BY <3>1, <3>2, <3>3
  <2>2. /\ fed' = (n + 1) + (b - 1) /\ interpolated_pos' <= b - 1
        /\ (~finishing => interpolated_pos' >= Half)
        /\ (finishing => interpolated_pos' = b - 1)
    BY <1>1, <1>2
  <2>3. /\ ~Working' /\ finishing' = finishing /\ flagged' = flagged
        /\ finishing => pc' # "idle"
        /\ ~finishing => pc' = "idle"
    BY DEF Working
  <2>4. fed' <= Len(flagged) /\ (finishing => fed' = Len(flagged)) BY <1>0 DEF WindowInv
  <2> QED BY <1>3, <1>6, <2>1, <2>2, <2>3, <2>4 DEF WindowInv
<1>9. BuffersInv'
  <2>1. SUFFICES ASSUME NEW i \in DOMAIN buffers', NEW ch \in Channels
                 PROVE  /\ ch \notin flagged[n + 1 + i] =>
                              buffers'[i].data[ch] = {<<n + 1 + i, ch>>}
                        /\ i <= pos - 1 =>
                              buffers'[i].data[ch] = Wanted(flagged, n + 1 + i, ch)
    BY <1>6 DEF BuffersInv
  <2>2. i \in 1 .. b - 1 /\ i + 1 \in DOMAIN buffers /\ n + (i + 1) = n + 1 + i
    <3>1. n \in Nat /\ b \in Nat BY <1>1
    <3>2. i \in 1 .. b - 1 /\ DOMAIN buffers = 1 .. b BY <1>3
    <3> HIDE DEF n, b
    <3> QED BY <3>1, <3>2
  <2>3. buffers'[i] = buffers[i + 1] BY <1>3, <2>2
  <2>4. i <= pos - 1 => i + 1 <= pos BY <1>1, <2>2
  <2> QED BY <1>0, <2>2, <2>3, <2>4 DEF BuffersInv
<1>10. ThreadInv' /\ PlaceInv' /\ CurrentInv'
  <2>1. ~Working /\ ~Working' BY DEF Working
  <2> QED BY <2>1, NotWorking
<1>11. SentIsWanted'
  <2>1. SUFFICES ASSUME NEW k \in DOMAIN sent'
                 PROVE  /\ sent'[k].time = k
                        /\ \A ch \in Channels :
                              /\ sent'[k].data[ch] = Wanted(flagged, k, ch)
                              /\ ch \in sent'[k].flags <=> Wanted(flagged, k, ch) = {}
    BY DEF SentIsWanted
  <2>2. CASE k \in 1 .. n BY <1>0, <1>6, <2>2 DEF SentIsWanted
  <2>3. CASE k = n + 1 BY <1>4, <1>6, <2>3
  <2> QED BY <1>1, <1>6, <2>1, <2>2, <2>3
<1> QED BY <1>7, <1>8, <1>9, <1>10, <1>11 DEF IInv

-----------------------------------------------------------------------------
(***************************************************************************)
(* The steps that interpolate a time.  First what samples have moved.      *)
(***************************************************************************)
\* The first n samples of the queue go to the batch of a thread.
AreMoved(q, r, b, c, t, len, m, n) ==
    /\ DOMAIN q = 1 .. len /\ DOMAIN r = 1 .. len - n
    /\ \A i \in 1 .. len - n : r[i] = q[n + i]
    /\ \A u \in Interpolators : u # t => c[u] = b[u]
    /\ DOMAIN b[t] = 1 .. m /\ DOMAIN c[t] = 1 .. m + n
    /\ \A i \in 1 .. m : c[t][i] = b[t][i]
    /\ \A i \in 1 .. n : c[t][m + i] = q[i]

LEMMA Moved ==
  ASSUME NEW q, NEW r, NEW b, NEW c, NEW flags, NEW t \in Interpolators,
         NEW len \in Nat, NEW m \in Nat, NEW n \in 0 .. len,
         AreMoved(q, r, b, c, t, len, m, n), Places(q, b, flags)
  PROVE  /\ Places(r, c, flags)
         /\ \A ch : Pending(q, b, ch) => Pending(r, c, ch)
<1> USE DEF AreMoved
<1>0. /\ \A i \in DOMAIN q : q[i] \in flags
      /\ \A u \in Interpolators : \A i \in DOMAIN b[u] : b[u][i] \in flags
  BY DEF Places
<1>1. \A i, j \in DOMAIN q : q[i] = q[j] => i = j BY DEF Places, Distinct
<1>2. \A u, v \in Interpolators : \A i \in DOMAIN b[u], j \in DOMAIN b[v] :
         b[u][i] = b[v][j] => u = v /\ i = j
  BY DEF Places
<1>3. \A u \in Interpolators : \A i \in DOMAIN b[u], j \in DOMAIN q : b[u][i] # q[j]
  BY DEF Places
<1>4. \A i \in DOMAIN r : n + i \in DOMAIN q /\ n + i > n /\ r[i] = q[n + i] OBVIOUS
<1>5. ASSUME NEW u \in Interpolators, NEW i \in DOMAIN c[u]
      PROVE  \/ i \in DOMAIN b[u] /\ c[u][i] = b[u][i]
             \/ /\ u = t /\ i \in Int /\ i - m \in DOMAIN q /\ i - m <= n
                /\ c[u][i] = q[i - m]
  <2>1. CASE u # t BY <2>1
  <2>2. CASE u = t /\ i <= m BY <2>2
  <2>3. CASE u = t /\ i > m
    <3>1. i \in Int /\ i - m \in 1 .. n /\ m + (i - m) = i BY <2>3
    <3> QED BY <2>3, <3>1
  <2>4. u = t => i \in Int OBVIOUS
  <2> QED BY <2>1, <2>2, <2>3, <2>4
<1>6. /\ \A i \in DOMAIN r : r[i] \in flags
      /\ \A u \in Interpolators : \A i \in DOMAIN c[u] : c[u][i] \in flags
  BY <1>0, <1>4, <1>5
<1>7. Distinct(r)
  <2>1. SUFFICES ASSUME NEW i \in DOMAIN r, NEW j \in DOMAIN r, r[i] = r[j] PROVE i = j
    BY DEF Distinct
  <2>2. n + i = n + j BY <1>1, <1>4, <2>1
  <2> QED BY <2>2
<1>8. ASSUME NEW u \in Interpolators, NEW v \in Interpolators,
             NEW i \in DOMAIN c[u], NEW j \in DOMAIN c[v], c[u][i] = c[v][j]
      PROVE  u = v /\ i = j
  <2>1. CASE i \in DOMAIN b[u] /\ c[u][i] = b[u][i]
    <3>1. CASE j \in DOMAIN b[v] /\ c[v][j] = b[v][j]
      <4>1. b[u][i] = b[v][j] BY <1>8, <2>1, <3>1
      <4> QED BY <1>2, <2>1, <3>1, <4>1
    <3>2. CASE j - m \in DOMAIN q /\ c[v][j] = q[j - m]
      <4>1. b[u][i] = q[j - m] BY <1>8, <2>1, <3>2
      <4> QED BY <1>3, <2>1, <3>2, <4>1
    <3> QED BY <1>5, <3>1, <3>2
  <2>2. CASE u = t /\ i \in Int /\ i - m \in DOMAIN q /\ c[u][i] = q[i - m]
    <3>1. CASE j \in DOMAIN b[v] /\ c[v][j] = b[v][j]
      <4>1. b[v][j] = q[i - m] BY <1>8, <2>2, <3>1
      <4> QED BY <1>3, <2>2, <3>1, <4>1
    <3>2. CASE v = t /\ j \in Int /\ j - m \in DOMAIN q /\ c[v][j] = q[j - m]
      <4>1. i - m = j - m BY <1>1, <1>8, <2>2, <3>2
      <4> QED BY <2>2, <3>2, <4>1
    <3> QED BY <1>5, <3>1, <3>2
  <2> QED BY <1>5, <2>1, <2>2
<1>9. ASSUME NEW u \in Interpolators, NEW i \in DOMAIN c[u], NEW j \in DOMAIN r
      PROVE  c[u][i] # r[j]
  <2>1. n + j \in DOMAIN q /\ n + j > n /\ r[j] = q[n + j] BY <1>4
  <2>2. CASE i \in DOMAIN b[u] /\ c[u][i] = b[u][i] BY <1>3, <2>1, <2>2
  <2>3. CASE i - m \in DOMAIN q /\ i - m <= n /\ c[u][i] = q[i - m]
    <3>1. i - m # n + j BY <2>1, <2>3
    <3> QED BY <1>1, <2>1, <2>3, <3>1
  <2> QED BY <1>5, <2>2, <2>3
<1>10. ASSUME NEW ch, Pending(q, b, ch) PROVE Pending(r, c, ch)
  <2>1. CASE \E i \in DOMAIN q : q[i] = ch
    <3>1. PICK i \in 1 .. len : q[i] = ch BY <2>1
    <3>2. CASE i <= n
      <4>1. m + i \in DOMAIN c[t] /\ c[t][m + i] = ch BY <3>1, <3>2
      <4> QED BY <4>1 DEF Pending
    <3>3. CASE i > n
      <4>1. i - n \in 1 .. len - n /\ n + (i - n) = i BY <3>3
      <4>2. i - n \in DOMAIN r /\ r[i - n] = ch BY <3>1, <4>1
      <4> QED BY <4>2 DEF Pending
    <3> QED BY <3>2, <3>3
  <2>2. CASE \E u \in Interpolators : \E i \in DOMAIN b[u] : b[u][i] = ch
    <3>1. PICK u \in Interpolators : \E i \in DOMAIN b[u] : b[u][i] = ch BY <2>2
    <3>2. PICK i \in DOMAIN b[u] : b[u][i] = ch BY <3>1
    <3>3. i \in DOMAIN c[u] /\ c[u][i] = ch BY <3>2
    <3> QED BY <3>3 DEF Pending
  <2> QED BY <1>10, <2>1, <2>2 DEF Pending
<1>11. Places(r, c, flags) BY <1>6, <1>7, <1>8, <1>9 DEF Places
<1> QED BY <1>10, <1>11

\* The first sample of a batch is replaced.
AreDropped(b, c, t, m) ==
    /\ \A u \in Interpolators : u # t => c[u] = b[u]
    /\ DOMAIN b[t] = 1 .. m /\ DOMAIN c[t] = 1 .. m - 1
    /\ \A i \in 1 .. m - 1 : c[t][i] = b[t][i + 1]

LEMMA Dropped ==
  ASSUME NEW q, NEW b, NEW c, NEW flags, NEW t \in Interpolators,
         NEW m \in Nat \ {0}, AreDropped(b, c, t, m), Places(q, b, flags)
  PROVE  /\ Places(q, c, flags)
         /\ b[t][1] \in flags
         /\ \A ch : Pending(q, b, ch) /\ ch # b[t][1] => Pending(q, c, ch)
<1> USE DEF AreDropped
<1>1. /\ Distinct(q) /\ \A i \in DOMAIN q : q[i] \in flags
      /\ \A u \in Interpolators : \A i \in DOMAIN b[u] : b[u][i] \in flags
      /\ \A u \in Interpolators : \A i \in DOMAIN b[u], j \in DOMAIN q : b[u][i] # q[j]
  BY DEF Places
<1>2. b[t][1] \in flags BY <1>1
<1>3. ASSUME NEW u \in Interpolators, NEW i \in DOMAIN c[u]
      PROVE  \E k \in DOMAIN b[u] : c[u][i] = b[u][k] /\ k = IF u = t THEN i + 1 ELSE i
  <2>1. CASE u # t BY <2>1
  <2>2. CASE u = t
    <3>1. i + 1 \in DOMAIN b[t] /\ c[t][i] = b[t][i + 1] BY <2>2
    <3> QED BY <2>2, <3>1
  <2> QED BY <2>1, <2>2
<1>4. ASSUME NEW u \in Interpolators, NEW v \in Interpolators,
             NEW i \in DOMAIN c[u], NEW j \in DOMAIN c[v], c[u][i] = c[v][j]
      PROVE  u = v /\ i = j
  <2>1. PICK k \in DOMAIN b[u] : c[u][i] = b[u][k] /\ k = IF u = t THEN i + 1 ELSE i
    BY <1>3
  <2>2. PICK l \in DOMAIN b[v] : c[v][j] = b[v][l] /\ l = IF v = t THEN j + 1 ELSE j
    BY <1>3
  <2>3. b[u][k] = b[v][l] BY <1>4, <2>1, <2>2
  <2>4. u = v /\ k = l BY <2>3 DEF Places
  <2>5. u = t => i \in Int /\ j \in Int BY <2>4
  <2> QED BY <2>1, <2>2, <2>4, <2>5
<1>5. \A u \in Interpolators : \A i \in DOMAIN c[u], j \in DOMAIN q : c[u][i] # q[j]
  BY <1>1, <1>3
<1>6. ASSUME NEW ch, Pending(q, b, ch), ch # b[t][1] PROVE Pending(q, c, ch)
  <2>1. CASE \E i \in DOMAIN q : q[i] = ch BY <2>1 DEF Pending
  <2>2. CASE \E u \in Interpolators : \E i \in DOMAIN b[u] : b[u][i] = ch
    <3>1. PICK u \in Interpolators : \E i \in DOMAIN b[u] : b[u][i] = ch BY <2>2
    <3>2. PICK i \in DOMAIN b[u] : b[u][i] = ch BY <3>1
    <3>3. CASE u # t BY <3>2, <3>3 DEF Pending
    <3>4. CASE u = t
      <4>1. i \in 1 .. m /\ i # 1 BY <1>6, <3>2, <3>4
      <4>2. i - 1 \in 1 .. m - 1 /\ (i - 1) + 1 = i BY <4>1
      <4>3. c[t][i - 1] = ch BY <3>2, <3>4, <4>2
      <4> QED BY <4>2, <4>3 DEF Pending
    <3> QED BY <3>3, <3>4
  <2> QED BY <1>6, <2>1, <2>2 DEF Pending
<1>7. \A u \in Interpolators : \A i \in DOMAIN c[u] : c[u][i] \in flags BY <1>1, <1>3
<1>8. Places(q, c, flags) BY <1>1, <1>4, <1>5, <1>7 DEF Places
<1> QED BY <1>2, <1>6, <1>8

\* The time that is interpolated.
LEMMA AtWork ==
  ASSUME TypeOK, WindowInv, interpolated_pos < Len(buffers)
  PROVE  /\ interpolated_pos \in Nat /\ Len(sent) \in Nat /\ Len(buffers) \in Nat
         /\ DOMAIN buffers = 1 .. Len(buffers)
         /\ Current = interpolated_pos + 1 /\ Current \in DOMAIN buffers
         /\ buffers[Current] \in Buf /\ buffers[Current].time = Len(sent) + Current
         /\ buffers[Current].flags = flagged[Len(sent) + Current]
         /\ buffers[Current].flags \subseteq Channels
<1>1. /\ interpolated_pos \in Nat /\ Len(sent) \in Nat /\ Len(buffers) \in Nat
      /\ DOMAIN buffers = 1 .. Len(buffers) /\ buffers \in Seq(Buf)
  BY DEF TypeOK
<1>2. Current = interpolated_pos + 1 /\ Current \in DOMAIN buffers BY <1>1 DEF Current
<1>3. buffers[Current] \in Buf BY <1>1, <1>2
<1>4. /\ buffers[Current].time = Len(sent) + Current
      /\ buffers[Current].flags = flagged[Len(sent) + Current]
  BY <1>2 DEF WindowInv
<1> QED BY <1>1, <1>2, <1>3, <1>4 DEF Buf

LEMMA StepVarsKeep ==
  ASSUME WindowInv, BuffersInv, SentIsWanted, UNCHANGED stepVars, Working, Working'
  PROVE  WindowInv' /\ BuffersInv' /\ SentIsWanted'
<1>1. WindowInv' BY DEF WindowInv, Working, stepVars
<1>2. BuffersInv' BY DEF BuffersInv, stepVars
<1>3. SentIsWanted' BY DEF SentIsWanted, stepVars
<1> QED BY <1>1, <1>2, <1>3

LEMMA QueueKeeps ==
  ASSUME PlaceInv, CurrentInv, Working, UNCHANGED <<stepVars, samplerVars>>,
         DOMAIN Queue' = DOMAIN Queue, \A i \in DOMAIN Queue : Queue'[i] = Queue[i]
  PROVE  PlaceInv' /\ CurrentInv'
<1>1. PICK q : q = Queue OBVIOUS
<1>2. PICK r : r = Queue' OBVIOUS
<1>3. DOMAIN r = DOMAIN q /\ \A i \in DOMAIN q : r[i] = q[i] BY <1>1, <1>2
<1>4. /\ buffers' = buffers /\ batch' = batch /\ Current' = Current /\ flagged' = flagged
      /\ sent' = sent /\ value' = value /\ interpolator' = interpolator
  BY DEF stepVars, samplerVars, Current
<1>5. Places(q, batch, buffers[Current].flags) => Places(r, batch, buffers[Current].flags)
  BY <1>3 DEF Places, Distinct
<1>6. \A ch : Pending(q, batch, ch) => Pending(r, batch, ch) BY <1>3 DEF Pending
<1>7. PlaceInv' BY <1>1, <1>2, <1>4, <1>5 DEF PlaceInv
<1>8. CurrentInv' BY <1>1, <1>2, <1>4, <1>6 DEF CurrentInv
<1> QED BY <1>7, <1>8

\* A sequence in two pieces.
LEMMA Cut ==
  ASSUME NEW S, NEW q \in Seq(S), NEW n \in 0 .. Len(q)
  PROVE  /\ SubSeq(q, 1, n) \in Seq(S) /\ Len(SubSeq(q, 1, n)) = n
         /\ \A i \in 1 .. n : SubSeq(q, 1, n)[i] = q[i]
         /\ SubSeq(q, n + 1, Len(q)) \in Seq(S)
         /\ Len(SubSeq(q, n + 1, Len(q))) = Len(q) - n
         /\ \A i \in 1 .. Len(q) - n : SubSeq(q, n + 1, Len(q))[i] = q[n + i]
OBVIOUS

LEMMA FlushKeeps ==
  ASSUME IInv, Flush
  PROVE  IInv'
<1> USE DEF Flush
<1>0. /\ TypeOK /\ WindowInv /\ ThreadInv /\ PlaceInv /\ BuffersInv /\ CurrentInv
      /\ SentIsWanted
  BY DEF IInv
<1>1. Working /\ Working' BY DEF Working
<1> DEFINE n == Smallest(BufferSize, Len(todo))
           m == Len(todo)
<1>2. todo \in Seq(Channels) /\ m \in Nat /\ n \in 0 .. m
  BY <1>0, Constants DEF TypeOK, Smallest
<1>3. left' = SubSeq(todo, 1, n) /\ todo' = SubSeq(todo, n + 1, m) OBVIOUS
<1>4. /\ left' \in Seq(Channels) /\ Len(left') = n
      /\ \A i \in 1 .. n : left'[i] = todo[i]
      /\ todo' \in Seq(Channels) /\ Len(todo') = m - n
      /\ \A i \in 1 .. m - n : todo'[i] = todo[n + i]
  <2> HIDE DEF n, m
  <2>1. PICK q \in Seq(Channels) : q = todo BY <1>2
  <2>2. m = Len(q) /\ n \in 0 .. Len(q) BY <1>2, <2>1 DEF m
  <2>3. /\ SubSeq(q, 1, n) \in Seq(Channels) /\ Len(SubSeq(q, 1, n)) = n
        /\ \A i \in 1 .. n : SubSeq(q, 1, n)[i] = q[i]
        /\ SubSeq(q, n + 1, Len(q)) \in Seq(Channels)
        /\ Len(SubSeq(q, n + 1, Len(q))) = Len(q) - n
        /\ \A i \in 1 .. Len(q) - n : SubSeq(q, n + 1, Len(q))[i] = q[n + i]
    BY <2>2, Cut
  <2> QED BY <1>3, <2>1, <2>2, <2>3
<1> HIDE DEF n
<1>5. TypeOK' BY <1>0, <1>4 DEF TypeOK, stepVars, samplerVars, laneVars
<1>6. QueueFacts /\ QueueFacts'
  <2>1. (TypeOK => QueueFacts)' BY QueueIs, PTL
  <2> QED BY <1>0, <1>5, <2>1, QueueIs
<1> DEFINE f == free_read_space
<1>7. /\ f \in Nat /\ free_read_space' = f /\ Len(left) = 0
      /\ DOMAIN Queue = 1 .. f + m /\ DOMAIN Queue' = 1 .. f + m
  <2>1. free_read_space' = f BY DEF laneVars, free_read_space
  <2>2. f \in Nat /\ Len(left) = 0 /\ DOMAIN Queue = 1 .. f + 0 + m
    BY <1>6 DEF QueueFacts
  <2>3. DOMAIN Queue' = 1 .. f + n + (m - n) BY <1>4, <1>6, <2>1 DEF QueueFacts
  <2> HIDE DEF f, m
  <2>4. f + n + (m - n) = f + m /\ f + 0 + m = f + m BY <1>2, <2>2
  <2> QED BY <2>1, <2>2, <2>3, <2>4
<1>8. ASSUME NEW i \in DOMAIN Queue PROVE Queue'[i] = Queue[i]
  <2>0. \A j \in 1 .. m : Queue[f + j] = todo[j]
    <3>1. \A j \in 1 .. m : Queue[f + Len(left) + j] = todo[j] BY <1>6 DEF QueueFacts
    <3>2. f + Len(left) = f BY <1>7
    <3> QED BY <3>1, <3>2
  <2>1. CASE i \in 1 .. f
    <3>1. LaneOf(buffer, write_position, free_write_space)'
             = LaneOf(buffer, write_position, free_write_space)
      BY DEF laneVars, LaneOf
    <3> QED BY <1>6, <1>7, <2>1, <3>1 DEF QueueFacts
  <2>2. CASE i \in f + 1 .. f + n
    <3>1. i - f \in 1 .. n /\ i - f \in 1 .. m /\ f + (i - f) = i
      <4> HIDE DEF f, m
      <4> QED BY <1>2, <1>7, <2>2
    <3>2. Queue'[i] = left'[i - f]
      <4>1. \A j \in 1 .. Len(left)' : Queue'[free_read_space' + j] = left'[j]
        BY <1>6 DEF QueueFacts
      <4>2. free_read_space' = f /\ Len(left)' = n BY <1>4, <1>7
      <4> HIDE DEF f, m
      <4> QED BY <3>1, <4>1, <4>2
    <3>3. Queue[i] = todo[i - f] BY <2>0, <3>1
    <3> QED BY <1>4, <3>1, <3>2, <3>3
  <2>3. CASE i \in f + n + 1 .. f + m
    <3>1. /\ i - f \in 1 .. m /\ f + (i - f) = i
          /\ i - (f + n) \in 1 .. m - n /\ f + n + (i - (f + n)) = i
          /\ n + (i - (f + n)) = i - f
      <4> HIDE DEF f, m
      <4> QED BY <1>2, <1>7, <2>3
    <3>2. \A j \in 1 .. m - n : Queue'[f + n + j] = todo'[j]
      <4>1. \A j \in 1 .. Len(todo)' : Queue'[free_read_space' + Len(left)' + j] = todo'[j]
        BY <1>6 DEF QueueFacts
      <4>2. free_read_space' = f /\ Len(left)' = n /\ Len(todo)' = m - n BY <1>4, <1>7
      <4> HIDE DEF f, m
      <4> QED BY <4>1, <4>2
    <3>3. Queue'[i] = todo'[i - (f + n)]
      <4> HIDE DEF f, m
      <4> QED BY <3>1, <3>2
    <3>4. Queue[i] = todo[i - f] BY <2>0, <3>1
    <3> QED BY <1>4, <3>1, <3>3, <3>4
  <2>4. i \in 1 .. f \/ i \in f + 1 .. f + n \/ i \in f + n + 1 .. f + m
    <3>1. i \in 1 .. f + m BY <1>7
    <3> HIDE DEF f, m
    <3> QED BY <1>2, <1>7, <3>1
  <2> QED BY <2>1, <2>2, <2>3, <2>4
<1>9. WindowInv' /\ BuffersInv' /\ SentIsWanted' BY <1>0, <1>1, StepVarsKeep
<1>10. PlaceInv' /\ CurrentInv' BY <1>0, <1>1, <1>7, <1>8, QueueKeeps
<1>11. ThreadInv' BY <1>0, <1>1, <1>7 DEF ThreadInv, Working, laneVars, samplerVars
<1> QED BY <1>5, <1>9, <1>10, <1>11 DEF IInv

LEMMA WriteEndKeeps ==
  ASSUME IInv, WriteEnd
  PROVE  IInv'
<1> USE DEF WriteEnd, LaneWriteEnd
<1>0. /\ TypeOK /\ WindowInv /\ ThreadInv /\ PlaceInv /\ BuffersInv /\ CurrentInv
      /\ SentIsWanted
  BY DEF IInv
<1>1. Working /\ Working' BY DEF Working
<1>2. TypeOK' BY <1>0 DEF TypeOK, stepVars, samplerVars
<1>3. Queue' = Queue
  BY DEF Queue, InLane, Readable, read_position, free_read_space
<1>4. WindowInv' /\ BuffersInv' /\ SentIsWanted' BY <1>0, <1>1, StepVarsKeep
<1>5. PlaceInv' /\ CurrentInv'
  <2>1. DOMAIN Queue' = DOMAIN Queue /\ \A i \in DOMAIN Queue : Queue'[i] = Queue[i] BY <1>3
  <2> QED BY <1>0, <1>1, <2>1, QueueKeeps
<1>6. ThreadInv'
  BY <1>0, <1>1 DEF ThreadInv, Working, samplerVars, free_read_space
<1> QED BY <1>2, <1>4, <1>5, <1>6 DEF IInv

LEMMA WriteToLaneKeeps ==
  ASSUME IInv, WriteToLane
  PROVE  IInv'
<1> USE DEF WriteToLane
<1>0. /\ TypeOK /\ WindowInv /\ ThreadInv /\ PlaceInv /\ BuffersInv /\ CurrentInv
      /\ SentIsWanted
  BY DEF IInv
<1>1. Working /\ Working' BY DEF Working
<1> DEFINE n == Smallest(free_write_space, Len(left))
           m == Len(left)
           w == write_position
           f == free_write_space
<1>2. /\ left \in Seq(Channels) /\ m \in Nat /\ f \in Nat /\ n \in 0 .. m /\ n <= f
      /\ f \in 0 .. Capacity /\ w \in Positions /\ Capacity \in Nat
  BY <1>0, CapacityType DEF TypeOK, Smallest
<1>3. PICK q \in Seq(Channels) : q = left BY <1>2
<1> HIDE DEF n, m
<1>4. m = Len(q) /\ n \in 0 .. Len(q) BY <1>2, <1>3 DEF m
<1>5. PICK e \in Seq(Channels) : e = SubSeq(q, 1, n) BY <1>4, Cut
<1>6. /\ Len(e) = n /\ \A i \in 1 .. n : e[i] = left[i]
      /\ left' \in Seq(Channels) /\ Len(left') = m - n
      /\ \A i \in 1 .. m - n : left'[i] = left[n + i]
  <2>1. /\ Len(SubSeq(q, 1, n)) = n
        /\ \A i \in 1 .. n : SubSeq(q, 1, n)[i] = q[i]
        /\ SubSeq(q, n + 1, Len(q)) \in Seq(Channels)
        /\ Len(SubSeq(q, n + 1, Len(q))) = Len(q) - n
        /\ \A i \in 1 .. Len(q) - n : SubSeq(q, n + 1, Len(q))[i] = q[n + i]
    BY <1>4, Cut
  <2>2. left' = SubSeq(q, n + 1, Len(q)) BY <1>3 DEF Rest, n
  <2> QED BY <1>3, <1>4, <1>5, <2>1, <2>2
<1>7. /\ buffer' = WrittenTo(buffer, w, e)
      /\ write_position' = (w + Len(e)) % Capacity
      /\ free_write_space' = f - Len(e)
      /\ ended' = ended /\ ~ended
      /\ UNCHANGED <<stepVars, pc, todo, samplerVars>>
  BY <1>3, <1>5 DEF LaneWrite, ImmediateWrite, WrittenTo, n
<1>8. /\ buffer' \in [Positions -> Element]
      /\ write_position' \in Positions /\ free_write_space' \in 0 .. Capacity
      /\ \A i \in 1 .. (Capacity - f) + n :
            LaneOf(buffer', write_position', free_write_space')[i]
                = IF i <= Capacity - f THEN LaneOf(buffer, w, f)[i] ELSE e[i - (Capacity - f)]
  <2>1. PICK b0 \in [Positions -> Element] : b0 = buffer BY <1>0 DEF TypeOK
  <2>2. PICK w0 \in Positions : w0 = w BY <1>2
  <2>3. PICK f0 \in 0 .. Capacity : f0 = f BY <1>2
  <2>4. PICK b1 : b1 = buffer' OBVIOUS
  <2>5. e \in Seq(Element) /\ Len(e) <= f0 BY <1>2, <1>6, <2>3 DEF Element
  <2>6. b1 = WrittenTo(b0, w0, e) BY <1>7, <2>1, <2>2, <2>4
  <2>7. /\ b1 \in [Positions -> Element]
        /\ (w0 + Len(e)) % Capacity \in Positions /\ f0 - Len(e) \in 0 .. Capacity
        /\ \A i \in 1 .. (Capacity - f0) + Len(e) :
              LaneOf(b1, (w0 + Len(e)) % Capacity, f0 - Len(e))[i]
                  = IF i <= Capacity - f0 THEN LaneOf(b0, w0, f0)[i]
                                          ELSE e[i - (Capacity - f0)]
    BY <2>5, <2>6, Written
  <2> QED BY <1>6, <1>7, <2>1, <2>2, <2>3, <2>4, <2>7
<1>9. TypeOK' BY <1>0, <1>6, <1>7, <1>8 DEF TypeOK, stepVars, samplerVars
<1>10. QueueFacts /\ QueueFacts'
  <2>1. (TypeOK => QueueFacts)' BY QueueIs, PTL
  <2> QED BY <1>0, <1>9, <2>1, QueueIs
<1> DEFINE c == free_read_space
           k == Len(todo)
<1>11. /\ c \in Nat /\ c = Capacity - f /\ free_read_space' = c + n /\ k \in Nat
       /\ DOMAIN Queue = 1 .. c + m + k /\ DOMAIN Queue' = 1 .. c + m + k
  <2>1. c = Capacity - f /\ free_read_space' = c + n
    BY <1>2, <1>6, <1>7 DEF free_read_space
  <2>2. c \in Nat /\ k \in Nat /\ DOMAIN Queue = 1 .. c + m + k
    BY <1>10 DEF QueueFacts, m
  <2>3. DOMAIN Queue' = 1 .. (c + n) + (m - n) + k
    BY <1>6, <1>7, <1>10, <2>1 DEF QueueFacts
  <2> HIDE DEF c, k
  <2>4. (c + n) + (m - n) + k = c + m + k BY <1>2, <2>2
  <2> QED BY <2>1, <2>2, <2>3, <2>4
<1>12. /\ \A i \in 1 .. c : Queue[i] = LaneOf(buffer, w, f)[i]
       /\ \A i \in 1 .. m : Queue[c + i] = left[i]
       /\ \A i \in 1 .. k : Queue[c + m + i] = todo[i]
  BY <1>10 DEF QueueFacts, m
<1>13. /\ \A i \in 1 .. c + n :
             Queue'[i] = LaneOf(buffer', write_position', free_write_space')[i]
       /\ \A i \in 1 .. m - n : Queue'[c + n + i] = left'[i]
       /\ \A i \in 1 .. k : Queue'[c + n + (m - n) + i] = todo[i]
  BY <1>6, <1>7, <1>10, <1>11 DEF QueueFacts
<1> HIDE DEF c, k, f, w
<1>14. ASSUME NEW i \in DOMAIN Queue PROVE Queue'[i] = Queue[i]
  <2>1. CASE i \in 1 .. c
    <3>1. i \in 1 .. c + n /\ i <= Capacity - f /\ i \in 1 .. (Capacity - f) + n
      BY <1>2, <1>11, <2>1
    <3> QED BY <1>8, <1>12, <1>13, <2>1, <3>1
  <2>2. CASE i \in c + 1 .. c + n
    <3>1. /\ i \in 1 .. c + n /\ ~(i <= Capacity - f) /\ i \in 1 .. (Capacity - f) + n
          /\ i - c \in 1 .. n /\ i - c \in 1 .. m /\ c + (i - c) = i
          /\ i - (Capacity - f) = i - c
      BY <1>2, <1>11, <2>2
    <3>2. Queue'[i] = e[i - c] BY <1>8, <1>13, <3>1
    <3>3. Queue[i] = left[i - c] BY <1>12, <3>1
    <3> QED BY <1>6, <3>1, <3>2, <3>3
  <2>3. CASE i \in c + n + 1 .. c + m
    <3>1. /\ i - (c + n) \in 1 .. m - n /\ c + n + (i - (c + n)) = i
          /\ i - c \in 1 .. m /\ c + (i - c) = i /\ n + (i - (c + n)) = i - c
      BY <1>2, <1>11, <2>3
    <3>2. Queue'[i] = left'[i - (c + n)] BY <1>13, <3>1
    <3>3. Queue[i] = left[i - c] BY <1>12, <3>1
    <3> QED BY <1>6, <3>1, <3>2, <3>3
  <2>4. CASE i \in c + m + 1 .. c + m + k
    <3>1. /\ i - (c + m) \in 1 .. k /\ c + n + (m - n) + (i - (c + m)) = i
          /\ c + m + (i - (c + m)) = i
      BY <1>2, <1>11, <2>4
    <3> QED BY <1>12, <1>13, <3>1
  <2>5. \/ i \in 1 .. c \/ i \in c + 1 .. c + n \/ i \in c + n + 1 .. c + m
        \/ i \in c + m + 1 .. c + m + k
    BY <1>2, <1>11
  <2> QED BY <2>1, <2>2, <2>3, <2>4, <2>5
<1>15. WindowInv' /\ BuffersInv' /\ SentIsWanted' BY <1>0, <1>1, <1>7, StepVarsKeep
<1>16. PlaceInv' /\ CurrentInv' BY <1>0, <1>1, <1>7, <1>11, <1>14, QueueKeeps
<1>17. ThreadInv' BY <1>0, <1>1, <1>7 DEF ThreadInv, Working, samplerVars
<1> QED BY <1>9, <1>15, <1>16, <1>17 DEF IInv

(* All flagged samples of the time are to be written, and the lane is empty.  *)
LEMMA StartTimestepKeeps ==
  ASSUME IInv, StartTimestep
  PROVE  IInv'
<1> USE DEF StartTimestep
<1>0. /\ TypeOK /\ WindowInv /\ ThreadInv /\ PlaceInv /\ BuffersInv /\ CurrentInv
      /\ SentIsWanted
  BY DEF IInv
<1>1. ~Working /\ Working' /\ pc = "window" /\ pc' = "write" BY DEF Working
<1>2. /\ left = <<>> /\ left' = <<>> /\ batch' = batch
      /\ \A t \in Interpolators : batch[t] = <<>>
  BY <1>0, <1>1 DEF ThreadInv
<1> DEFINE n == Len(sent)
           flags == buffers[Current].flags
<1>3. interpolated_pos < Len(buffers) /\ (~finishing => interpolated_pos <= Half)
  <2>1. CASE finishing BY <2>1 DEF InterpolateNext
  <2>2. CASE ~finishing
    <3>1. interpolated_pos <= Half BY <2>2 DEF InterpolateNext
    <3>2. Len(buffers) >= 2 * Half + 1 BY <1>0, <1>1, <2>2, HalfType DEF WindowInv
    <3>3. interpolated_pos \in Nat /\ Len(buffers) \in Nat /\ Half \in Nat
      BY <1>0, HalfType DEF TypeOK
    <3> QED BY <2>2, <3>1, <3>2, <3>3
  <2> QED BY <2>1, <2>2
<1>4. /\ interpolated_pos \in Nat /\ n \in Nat /\ DOMAIN buffers = 1 .. Len(buffers)
      /\ Current \in DOMAIN buffers /\ flags = flagged[n + Current] /\ flags \subseteq Channels
  BY <1>0, <1>3, AtWork
<1>5. Lists(todo', flags, NChan)
  <2>1. PICK fl : fl = flags OBVIOUS
  <2>2. todo' = InOrderOfChannel(fl) BY <2>1 DEF Current
  <2>3. Lists(InOrderOfChannel(fl), fl, NChan) BY InOrderLists
  <2> QED BY <2>1, <2>2, <2>3
<1>6. /\ buffer' \in [Positions -> Element] /\ write_position' \in Positions
      /\ free_write_space' \in 0 .. Capacity /\ free_write_space' = Capacity /\ ended' = FALSE
  <2>1. Capacity \in Nat \ {0} BY CapacityType
  <2> QED BY <2>1 DEF ResizeLane, Positions, Element
<1>7. TypeOK'
  <2>1. todo' \in Seq(Channels) BY <1>5 DEF Lists, Channels
  <2>2. left' \in Seq(Channels) BY <1>2
  <2>3. interpolator' \in [Interpolators -> {"none", "read", "replace", "store", "gone"}]
    OBVIOUS
  <2> QED BY <1>0, <1>1, <1>6, <2>1, <2>2, <2>3 DEF TypeOK, stepVars
<1>8. DOMAIN Queue' = DOMAIN todo' /\ \A i \in DOMAIN todo' : Queue'[i] = todo'[i]
  <2>1. (TypeOK => QueueFacts)' BY QueueIs, PTL
  <2>2. free_read_space' = 0 /\ Len(left') = 0
    BY <1>2, <1>6, CapacityType DEF free_read_space
  <2>3. todo' \in Seq(Channels) BY <1>7 DEF TypeOK
  <2>4. DOMAIN todo' = 1 .. Len(todo') /\ Len(todo') \in Nat BY <2>3
  <2>5. /\ DOMAIN Queue' = 1 .. 0 + 0 + Len(todo')
        /\ \A i \in 1 .. Len(todo') : Queue'[0 + 0 + i] = todo'[i]
    BY <1>7, <2>1, <2>2 DEF QueueFacts
  <2> QED BY <2>4, <2>5
<1>9. PICK q : q = Queue' OBVIOUS
<1>10. /\ \A i \in DOMAIN q : q[i] \in flags
       /\ \A ch \in Channels : ch \in flags => \E i \in DOMAIN q : q[i] = ch
       /\ Distinct(q)
  <2>1. PICK r : r = todo' OBVIOUS
  <2>2. Lists(r, flags, NChan) BY <1>5, <2>1
  <2>3. DOMAIN q = DOMAIN r /\ \A i \in DOMAIN r : q[i] = r[i] BY <1>8, <1>9, <2>1
  <2> QED BY <2>2, <2>3 DEF Lists, Distinct, Channels
<1>11. /\ buffers' = buffers /\ Current' = Current /\ flagged' = flagged /\ sent' = sent
       /\ interpolated_pos' = interpolated_pos
  BY DEF stepVars, Current
<1>12. PlaceInv'
  <2>1. \A t \in Interpolators : DOMAIN batch[t] = {} BY <1>2
  <2>2. Places(q, batch, flags) BY <1>10, <2>1 DEF Places
  <2> QED BY <1>2, <1>9, <1>11, <2>2 DEF PlaceInv
<1>13. CurrentInv'
  <2>1. ASSUME NEW ch \in Channels
        PROVE  \/ Pending(q, batch, ch)
               \/ buffers[Current].data[ch] = Wanted(flagged, n + Current, ch)
    <3>1. CASE ch \in flags BY <1>10, <3>1 DEF Pending
    <3>2. CASE ch \notin flags BY <1>0, <1>4, <3>2 DEF BuffersInv, Wanted
    <3> QED BY <3>1, <3>2
  <2>2. \A t \in Interpolators : interpolator'[t] # "store" OBVIOUS
  <2> QED BY <1>2, <1>9, <1>11, <2>1, <2>2 DEF CurrentInv
<1>14. WindowInv' BY <1>0, <1>1, <1>3, <1>11 DEF WindowInv, stepVars
<1>15. BuffersInv' BY <1>0, <1>11 DEF BuffersInv
<1>16. SentIsWanted' BY <1>0, <1>11 DEF SentIsWanted
<1>17. ThreadInv'
  <2>1. \A t \in Interpolators : Len(batch[t]) <= BufferSize BY <1>0 DEF ThreadInv
  <2> QED BY <1>1, <1>2, <1>6, <2>1 DEF ThreadInv
<1> QED BY <1>7, <1>12, <1>13, <1>14, <1>15, <1>16, <1>17 DEF IInv

(* When all threads are gone, nothing of the time is left to interpolate.     *)
LEMMA EndTimestepKeeps ==
  ASSUME IInv, EndTimestep
  PROVE  IInv'
<1> USE DEF EndTimestep
<1>0. /\ TypeOK /\ WindowInv /\ ThreadInv /\ PlaceInv /\ BuffersInv /\ CurrentInv
      /\ SentIsWanted
  BY DEF IInv
<1>1. Working /\ ~Working' /\ pc = "join" /\ pc' = "window" BY DEF Working
<1> DEFINE n == Len(sent)
           pos == interpolated_pos
<1>2. /\ todo = <<>> /\ left = <<>> /\ todo' = todo /\ left' = left
      /\ batch' = batch /\ interpolator' = interpolator
      /\ \A t \in Interpolators : batch[t] = <<>> /\ interpolator[t] = "gone"
      /\ free_read_space = 0
  <2>1. \A t \in Interpolators : batch[t] = <<>> /\ interpolator[t] = "gone"
    BY <1>0, <1>1 DEF ThreadInv
  <2>2. PICK t \in Interpolators : TRUE BY Constants
  <2>3. free_read_space = 0 BY <1>0, <1>1, <2>1, <2>2 DEF ThreadInv
  <2> QED BY <1>0, <1>1, <2>1, <2>3 DEF ThreadInv, samplerVars
<1>3. /\ pos < Len(buffers) /\ pos \in Nat /\ n \in Nat /\ Len(buffers) \in Nat
      /\ DOMAIN buffers = 1 .. Len(buffers) /\ Current = pos + 1
  <2>1. pos < Len(buffers) BY <1>0, <1>1 DEF WindowInv
  <2> QED BY <1>0, <2>1, AtWork
<1>4. ASSUME NEW ch \in Channels
      PROVE  buffers[Current].data[ch] = Wanted(flagged, n + Current, ch)
  <2>1. QueueFacts BY <1>0, QueueIs
  <2>2. Len(left) = 0 /\ Len(todo) = 0 BY <1>2
  <2>3. DOMAIN Queue = {} BY <1>2, <2>1, <2>2 DEF QueueFacts
  <2>4. ~Pending(Queue, batch, ch) BY <1>2, <2>3 DEF Pending
  <2> QED BY <1>0, <1>1, <2>4 DEF CurrentInv
<1>5. pos' = pos + 1 /\ pos' \in Nat /\ pos' <= Len(buffers) BY <1>3
<1>6. TypeOK' BY <1>0, <1>5 DEF TypeOK, samplerVars, laneVars
<1>7. WindowInv'
  <2>1. Half \in Nat BY HalfType
  <2>2. sent # <<>> => pos' >= Half
    <3>1. sent # <<>> => pos >= Half \/ pos = Len(buffers) BY <1>0 DEF WindowInv
    <3>2. pos # Len(buffers)
      <4>1. pos \in Nat /\ Len(buffers) \in Nat /\ pos < Len(buffers) BY <1>3
      <4> QED BY <4>1
    <3>3. sent # <<>> => pos >= Half BY <3>1, <3>2
    <3> QED BY <1>3, <1>5, <2>1, <3>3
  <2> QED BY <1>0, <1>1, <1>5, <2>2 DEF WindowInv
<1>8. BuffersInv'
  <2>1. SUFFICES ASSUME NEW i \in DOMAIN buffers, NEW ch \in Channels, i <= pos + 1
                 PROVE  buffers[i].data[ch] = Wanted(flagged, n + i, ch)
    BY <1>0 DEF BuffersInv
  <2>2. CASE i <= pos BY <1>0, <2>2 DEF BuffersInv
  <2>3. CASE i = pos + 1 BY <1>3, <1>4, <2>3
  <2>4. i \in Nat /\ pos \in Nat BY <1>3
  <2> QED BY <2>1, <2>2, <2>3, <2>4
<1>9. ThreadInv'
  <2>1. \A t \in Interpolators : Len(batch[t]) <= BufferSize BY <1>0 DEF ThreadInv
  <2> QED BY <1>1, <1>2, <2>1 DEF ThreadInv
<1>10. PlaceInv' BY <1>1 DEF PlaceInv
<1>11. CurrentInv' BY <1>1, <1>2 DEF CurrentInv
<1>12. SentIsWanted' BY <1>0 DEF SentIsWanted
<1> QED BY <1>6, <1>7, <1>8, <1>9, <1>10, <1>11, <1>12 DEF IInv

(* A thread takes the first samples of the queue, or goes when there are none *)
(* and none can come.                                                         *)
LEMMA ReadFromLaneKeeps ==
  ASSUME IInv, NEW t \in Interpolators, ReadFromLane(t)
  PROVE  IInv'
<1>0. /\ TypeOK /\ WindowInv /\ ThreadInv /\ PlaceInv /\ BuffersInv /\ CurrentInv
      /\ SentIsWanted
  BY DEF IInv
<1>1. /\ interpolator[t] = "read" /\ UNCHANGED <<stepVars, pc, todo, left, value>>
      /\ Working /\ Working'
  <2>1. interpolator[t] = "read" /\ UNCHANGED <<stepVars, pc, todo, left, value>>
    BY DEF ReadFromLane
  <2> QED BY <1>0, <2>1 DEF ThreadInv, Working
<1> DEFINE m == Len(batch[t])
           wanted == BufferSize - m
           c == free_read_space
           n == Smallest(c, wanted)
           len == c + Len(left) + Len(todo)
<1>2. /\ batch[t] \in Seq(Channels) /\ m \in Nat /\ m <= BufferSize /\ BufferSize \in Nat \ {0}
      /\ QueueFacts /\ c \in Nat /\ Len(left) \in Nat /\ Len(todo) \in Nat
      /\ DOMAIN Queue = 1 .. len
  BY <1>0, Constants, QueueIs DEF TypeOK, ThreadInv, QueueFacts
<1>3. wanted \in Nat /\ n \in 0 .. c /\ n <= wanted
  <2>1. m \in Nat /\ m <= BufferSize /\ BufferSize \in Nat /\ c \in Nat BY <1>2
  <2> HIDE DEF m, c
  <2>2. wanted \in Nat BY <2>1
  <2> HIDE DEF wanted
  <2> QED BY <2>1, <2>2 DEF Smallest
<1> HIDE DEF n, wanted
<1>4. PICK g : g = Got(wanted) OBVIOUS
<1>5. /\ g = Readable(n) /\ Len(g) = n /\ DOMAIN g = 1 .. n
      /\ \A i \in 1 .. n : g[i] = Queue[i] /\ g[i] \in Channels
  <2>1. g = Readable(n) BY <1>4 DEF Got, n
  <2>2. Len(g) = n /\ DOMAIN g = 1 .. n BY <1>3, <2>1 DEF Readable
  <2>3. ASSUME NEW i \in 1 .. n PROVE g[i] = Queue[i] /\ g[i] \in Channels
    <3>1. i \in 1 .. c /\ i \in DOMAIN Queue BY <1>2, <1>3
    <3>2. Queue[i] = LaneOf(buffer, write_position, free_write_space)[i]
      BY <1>2, <3>1 DEF QueueFacts
    <3>3. g[i] = buffer[(read_position + i - 1) % Capacity] BY <2>1 DEF Readable
    <3>4. LaneOf(buffer, write_position, free_write_space)[i]
             = buffer[(read_position + i - 1) % Capacity]
      BY <3>1 DEF LaneOf, read_position, free_read_space
    <3>5. Queue[i] \in buffers[Current].flags BY <1>0, <1>1, <3>1 DEF PlaceInv, Places
    <3>6. interpolated_pos < Len(buffers) BY <1>0, <1>1 DEF WindowInv
    <3>7. buffers[Current].flags \subseteq Channels BY <1>0, <3>6, AtWork
    <3> QED BY <3>2, <3>3, <3>4, <3>5, <3>7
  <2> QED BY <2>1, <2>2, <2>3
<1>6. g \in Seq(Channels)
  <2>1. g = [i \in 1 .. n |-> g[i]] BY <1>5 DEF Readable
  <2> QED BY <1>3, <1>5, <2>1
<1> DEFINE bt == batch[t] \o g
<1>7. /\ free_write_space' = free_write_space + n
      /\ UNCHANGED <<buffer, write_position, ended>>
      /\ batch' = [batch EXCEPT ![t] = bt]
      /\ interpolator' = [interpolator EXCEPT ![t] =
                             IF ~Done(wanted) THEN "read"
                             ELSE IF batch'[t] = <<>> THEN "gone" ELSE "replace"]
      /\ Done(wanted) <=> wanted - n = 0 \/ ended
  BY <1>4, <1>5 DEF ReadFromLane, LaneRead, Done, ReadEnds, wanted
<1>8. /\ bt \in Seq(Channels) /\ Len(bt) = m + n /\ DOMAIN bt = 1 .. m + n
      /\ \A i \in 1 .. m : bt[i] = batch[t][i]
      /\ \A i \in 1 .. n : bt[m + i] = g[i]
  <2>1. PICK a \in Seq(Channels) : a = batch[t] BY <1>2
  <2>2. /\ a \o g \in Seq(Channels) /\ Len(a \o g) = Len(a) + Len(g)
        /\ DOMAIN (a \o g) = 1 .. Len(a) + Len(g)
        /\ \A i \in 1 .. Len(a) : (a \o g)[i] = a[i]
        /\ \A i \in 1 .. Len(g) : (a \o g)[Len(a) + i] = g[i]
    BY <1>6
  <2> QED BY <1>5, <2>1, <2>2
<1> HIDE DEF bt
<1>9. /\ batch' \in [Interpolators -> Seq(Channels)] /\ batch'[t] = bt
      /\ \A u \in Interpolators : u # t => batch'[u] = batch[u]
  BY <1>0, <1>7, <1>8 DEF TypeOK
<1>10. /\ free_write_space' \in 0 .. Capacity /\ free_read_space' = c - n
       /\ \A i \in 1 .. c - n :
             LaneOf(buffer, write_position, free_write_space')[i]
                = LaneOf(buffer, write_position, free_write_space)[n + i]
  <2>1. /\ write_position \in Positions /\ free_write_space \in 0 .. Capacity
        /\ c = Capacity - free_write_space /\ Capacity \in Nat
    BY <1>0, CapacityType DEF TypeOK, free_read_space
  <2>2. PICK w \in Positions : w = write_position BY <2>1
  <2>3. PICK f \in 0 .. Capacity : f = free_write_space BY <2>1
  <2>4. PICK b : b = buffer OBVIOUS
  <2>5. n \in 0 .. Capacity - f BY <1>3, <2>1, <2>3
  <2>6. /\ f + n \in 0 .. Capacity
        /\ \A i \in 1 .. Capacity - (f + n) : LaneOf(b, w, f + n)[i] = LaneOf(b, w, f)[n + i]
    BY <2>5, LaneRest
  <2>7. free_read_space' = Capacity - (f + n) /\ Capacity - (f + n) = c - n
    BY <1>3, <1>7, <2>1, <2>3 DEF free_read_space
  <2> QED BY <1>7, <2>2, <2>3, <2>4, <2>6, <2>7
<1>11. TypeOK'
  <2>1. interpolator' \in [Interpolators -> {"none", "read", "replace", "store", "gone"}]
    BY <1>0, <1>7 DEF TypeOK
  <2> QED BY <1>0, <1>1, <1>7, <1>9, <1>10, <2>1 DEF TypeOK, stepVars
<1>12. QueueFacts'
  <2>1. (TypeOK => QueueFacts)' BY QueueIs, PTL
  <2> QED BY <1>11, <2>1
<1> DEFINE l == Len(left)
           k == Len(todo)
<1>13. /\ \A i \in 1 .. c : Queue[i] = LaneOf(buffer, write_position, free_write_space)[i]
       /\ \A i \in 1 .. l : Queue[c + i] = left[i]
       /\ \A i \in 1 .. k : Queue[c + l + i] = todo[i]
  BY <1>2 DEF QueueFacts
<1>14. /\ \A i \in 1 .. c - n :
             Queue'[i] = LaneOf(buffer, write_position, free_write_space')[i]
       /\ \A i \in 1 .. l : Queue'[c - n + i] = left[i]
       /\ \A i \in 1 .. k : Queue'[c - n + l + i] = todo[i]
       /\ DOMAIN Queue' = 1 .. c - n + l + k
  BY <1>1, <1>7, <1>10, <1>12 DEF QueueFacts
<1>15. l \in Nat /\ k \in Nat /\ len = c + l + k BY <1>2
<1> HIDE DEF l, k, c, len, m
<1>16. /\ DOMAIN Queue' = 1 .. len - n /\ len \in Nat /\ n \in 0 .. len
       /\ \A i \in 1 .. len - n : Queue'[i] = Queue[n + i]
  <2>1. c - n + l + k = len - n /\ len \in Nat /\ n \in 0 .. len /\ c \in Nat
    BY <1>2, <1>3, <1>15
  <2>2. ASSUME NEW i \in 1 .. len - n PROVE Queue'[i] = Queue[n + i]
    <3>1. CASE i \in 1 .. c - n
      <4>1. n + i \in 1 .. c BY <1>3, <2>1, <3>1
      <4> QED BY <1>10, <1>13, <1>14, <3>1, <4>1
    <3>2. CASE i \in c - n + 1 .. c - n + l
      <4>1. /\ i - (c - n) \in 1 .. l /\ c - n + (i - (c - n)) = i
            /\ c + (i - (c - n)) = n + i
        BY <1>3, <1>15, <2>1, <3>2
      <4>2. Queue'[i] = left[i - (c - n)] BY <1>14, <4>1
      <4>3. Queue[n + i] = left[i - (c - n)] BY <1>13, <4>1
      <4> QED BY <4>2, <4>3
    <3>3. CASE i \in c - n + l + 1 .. len - n
      <4>1. /\ i - (c - n + l) \in 1 .. k /\ c - n + l + (i - (c - n + l)) = i
            /\ c + l + (i - (c - n + l)) = n + i
        BY <1>3, <1>15, <2>1, <3>3
      <4>2. Queue'[i] = todo[i - (c - n + l)] BY <1>14, <4>1
      <4>3. Queue[n + i] = todo[i - (c - n + l)] BY <1>13, <4>1
      <4> QED BY <4>2, <4>3
    <3>4. \/ i \in 1 .. c - n \/ i \in c - n + 1 .. c - n + l
          \/ i \in c - n + l + 1 .. len - n
      BY <1>3, <1>15, <2>1
    <3> QED BY <3>1, <3>2, <3>3, <3>4
  <2> QED BY <1>14, <2>1, <2>2
<1>17. PICK q : q = Queue OBVIOUS
<1>18. PICK r : r = Queue' OBVIOUS
<1>19. PICK b : b = batch OBVIOUS
<1>20. PICK d : d = batch' OBVIOUS
<1>21. PICK flags : flags = buffers[Current].flags OBVIOUS
<1>22. /\ Places(r, d, flags)
       /\ \A ch : Pending(q, b, ch) => Pending(r, d, ch)
  <2>0. /\ DOMAIN q = 1 .. len /\ DOMAIN r = 1 .. len - n /\ len \in Nat /\ n \in 0 .. len
        /\ \A i \in 1 .. len - n : r[i] = q[n + i]
    BY <1>2, <1>16, <1>17, <1>18
  <2>8. PICK size \in Nat : size = len BY <2>0
  <2>9. PICK x \in 0 .. size : x = n BY <2>0, <2>8
  <2>10. PICK y \in Nat : y = m BY <1>2 DEF m
  <2>1. /\ DOMAIN q = 1 .. size /\ DOMAIN r = 1 .. size - x
        /\ \A i \in 1 .. size - x : r[i] = q[x + i]
    BY <2>0, <2>8, <2>9
  <2>2. \A u \in Interpolators : u # t => d[u] = b[u] BY <1>9, <1>19, <1>20
  <2>3. DOMAIN b[t] = 1 .. y BY <1>2, <1>19, <2>10 DEF m
  <2>4. DOMAIN d[t] = 1 .. y + x /\ \A i \in 1 .. y : d[t][i] = b[t][i]
    BY <1>8, <1>9, <1>19, <1>20, <2>9, <2>10
  <2>5. \A i \in 1 .. x : d[t][y + i] = q[i]
    BY <1>5, <1>8, <1>9, <1>17, <1>20, <2>9, <2>10
  <2>6. Places(q, b, flags) BY <1>0, <1>1, <1>17, <1>19, <1>21 DEF PlaceInv
  <2>7. AreMoved(q, r, b, d, t, size, y, x)
    BY <2>1, <2>2, <2>3, <2>4, <2>5 DEF AreMoved
  <2> QED BY <2>6, <2>7, Moved
<1>23. /\ buffers' = buffers /\ Current' = Current /\ flagged' = flagged /\ sent' = sent
       /\ value' = value
  BY <1>1 DEF stepVars, Current
<1>24. PlaceInv' BY <1>18, <1>20, <1>21, <1>22, <1>23 DEF PlaceInv
<1>25. CurrentInv'
  <2>1. \A u \in Interpolators :
           interpolator'[u] = "store" => interpolator[u] = "store" /\ batch'[u] = batch[u]
    BY <1>0, <1>7, <1>9 DEF TypeOK
  <2>2. \A u \in Interpolators :
           interpolator'[u] = "store" =>
              value'[u] = Wanted(flagged, Len(sent) + Current, Head(batch'[u]))
    BY <1>0, <1>23, <2>1 DEF CurrentInv
  <2>3. \A ch \in Channels : \/ Pending(r, d, ch)
                             \/ buffers[Current].data[ch] = Wanted(flagged, Len(sent) + Current, ch)
    BY <1>0, <1>1, <1>17, <1>19, <1>22 DEF CurrentInv
  <2> QED BY <1>18, <1>20, <1>23, <2>2, <2>3 DEF CurrentInv
<1>26. WindowInv' /\ BuffersInv' /\ SentIsWanted' BY <1>0, <1>1, StepVarsKeep
<1>27. ThreadInv'
  <2>1. \A u \in Interpolators : Len(batch'[u]) <= BufferSize
    <3>1. \A u \in Interpolators : u # t => Len(batch'[u]) <= BufferSize
      BY <1>0, <1>9 DEF ThreadInv
    <3>2. Len(batch'[t]) <= BufferSize
      <4>1. m + n <= BufferSize BY <1>2, <1>3 DEF wanted
      <4> QED BY <1>8, <1>9, <4>1
    <3> QED BY <3>1, <3>2
  <2>2. \A u \in Interpolators : interpolator'[u] = "store" => batch'[u] # <<>>
    BY <1>0, <1>7, <1>9 DEF ThreadInv, TypeOK
  <2>3. ASSUME NEW u \in Interpolators, interpolator'[u] = "gone"
        PROVE  batch'[u] = <<>> /\ ended' /\ free_read_space' = 0
    <3>1. CASE u = t
      <4>1. batch'[t] = <<>> /\ (wanted - n = 0 \/ ended)
        BY <1>0, <1>7, <2>3, <3>1 DEF TypeOK
      <4>2. m = 0 /\ n = 0
        <5>1. m + n = 0 BY <1>8, <1>9, <4>1
        <5> QED BY <1>2, <1>3, <5>1
      <4>3. wanted = BufferSize BY <1>2, <4>2 DEF wanted
      <4>4. ended BY <1>2, <4>1, <4>2, <4>3
      <4>5. c = 0 BY <1>2, <4>2, <4>3 DEF n, Smallest
      <4>6. c - n = 0 BY <4>2, <4>5
      <4>7. ended' BY <1>7, <4>4
      <4> QED BY <1>10, <3>1, <4>1, <4>6, <4>7
    <3>2. CASE u # t
      <4>1. interpolator[u] = "gone" BY <1>0, <1>7, <2>3, <3>2 DEF TypeOK
      <4>2. batch[u] = <<>> /\ ended /\ c = 0 BY <1>0, <1>1, <4>1 DEF ThreadInv, c
      <4>3. n = 0 /\ c - n = 0
        <5>1. n \in Nat /\ n <= c BY <1>3
        <5> HIDE DEF n, c
        <5> QED BY <4>2, <5>1
      <4>4. ended' /\ batch'[u] = <<>> BY <1>7, <1>9, <3>2, <4>2
      <4> QED BY <1>10, <4>3, <4>4
    <3> QED BY <3>1, <3>2
  <2>4. pc' = pc /\ ended' = ended /\ todo' = todo /\ left' = left BY <1>1, <1>7
  <2>5. (pc = "write" => ~ended) /\ (pc = "join" => ended /\ todo = <<>> /\ left = <<>>)
    BY <1>0 DEF ThreadInv
  <2> QED BY <1>1, <2>1, <2>2, <2>3, <2>4, <2>5 DEF ThreadInv
<1> QED BY <1>11, <1>24, <1>25, <1>26, <1>27 DEF IInv

LEMMA SumKeeps ==
  ASSUME IInv, NEW t \in Interpolators, Sum(t)
  PROVE  IInv'
<1>0. /\ TypeOK /\ WindowInv /\ ThreadInv /\ PlaceInv /\ BuffersInv /\ CurrentInv
      /\ SentIsWanted
  BY DEF IInv
<1> DEFINE h == Head(batch[t])
           want == Wanted(flagged, Len(sent) + Current, h)
<1>1. /\ interpolator[t] = "replace" /\ batch[t] # <<>>
      /\ interpolator' = [interpolator EXCEPT ![t] = "store"]
      /\ value' = [value EXCEPT ![t] =
             UNION {buffers[w[1]].data[w[2]] :
                       w \in {x \in Window(interpolated_pos, h) :
                                 x[2] \notin buffers[x[1]].flags}}]
      /\ UNCHANGED <<stepVars, pc, todo, left, batch, laneVars>>
  BY DEF Sum
<1>2. Working /\ Working' BY <1>0, <1>1 DEF ThreadInv, Working
<1>3. h \in buffers[Current].flags
  <2>1. batch[t] \in Seq(Channels) BY <1>0 DEF TypeOK
  <2>2. h = batch[t][1] /\ 1 \in DOMAIN batch[t] BY <1>1, <2>1
  <2> QED BY <1>0, <1>2, <2>2 DEF PlaceInv, Places
<1>4. UNION {buffers[w[1]].data[w[2]] :
                w \in {x \in Window(interpolated_pos, h) : x[2] \notin buffers[x[1]].flags}}
         = want
  <2> HIDE DEF h
  <2> QED BY <1>2, <1>3, SumIsWanted
<1> HIDE DEF want
<1>5. value' = [value EXCEPT ![t] = want] BY <1>1, <1>4
<1>6. TypeOK'
  <2>1. want \in Value
    <3>1. /\ flagged \in Seq(SUBSET Channels) /\ Len(sent) \in Nat /\ Current \in Nat
      BY <1>0, Constants DEF TypeOK, Current
    <3>2. h \in Channels
      <4>1. interpolated_pos < Len(buffers) BY <1>0, <1>2 DEF WindowInv
      <4>2. buffers[Current].flags \subseteq Channels BY <1>0, <4>1, AtWork
      <4> QED BY <1>3, <4>2
    <3>3. DOMAIN flagged \subseteq Nat BY <3>1
    <3>4. \A s \in want : s \in Nat \X Channels BY <3>1, <3>2, <3>3 DEF want, Wanted
    <3> QED BY <3>4 DEF Value
  <2>2. value' \in [Interpolators -> Value] BY <1>0, <1>5, <2>1 DEF TypeOK
  <2>3. interpolator' \in [Interpolators -> {"none", "read", "replace", "store", "gone"}]
    BY <1>0, <1>1 DEF TypeOK
  <2> QED BY <1>0, <1>1, <2>2, <2>3 DEF TypeOK, stepVars, laneVars
<1>7. /\ Queue' = Queue /\ batch' = batch /\ buffers' = buffers /\ Current' = Current
      /\ flagged' = flagged /\ sent' = sent
  BY <1>1 DEF Queue, InLane, Readable, read_position, free_read_space, laneVars, stepVars, Current
<1>8. PlaceInv' BY <1>0, <1>2, <1>7 DEF PlaceInv
<1>9. CurrentInv'
  <2>1. ASSUME NEW u \in Interpolators, interpolator'[u] = "store"
        PROVE  value'[u] = Wanted(flagged, Len(sent) + Current, Head(batch[u]))
    <3>1. CASE u = t BY <1>0, <1>5, <3>1 DEF want, TypeOK
    <3>2. CASE u # t
      <4>1. interpolator[u] = "store" /\ value'[u] = value[u]
        BY <1>0, <1>1, <1>5, <2>1, <3>2 DEF TypeOK
      <4> QED BY <1>0, <4>1 DEF CurrentInv
    <3> QED BY <3>1, <3>2
  <2> QED BY <1>0, <1>2, <1>7, <2>1 DEF CurrentInv
<1>10. WindowInv' /\ BuffersInv' /\ SentIsWanted' BY <1>0, <1>1, <1>2, StepVarsKeep
<1>11. ThreadInv'
  <2>1. \A u \in Interpolators :
           /\ interpolator'[u] = "store" => batch[u] # <<>>
           /\ interpolator'[u] = "gone" => interpolator[u] = "gone"
    BY <1>0, <1>1 DEF TypeOK, ThreadInv
  <2>2. /\ pc' = pc /\ ended' = ended /\ free_read_space' = free_read_space
        /\ todo' = todo /\ left' = left
    BY <1>1 DEF laneVars, free_read_space
  <2>3. /\ \A u \in Interpolators : Len(batch'[u]) <= BufferSize
        /\ \A u \in Interpolators : interpolator'[u] = "gone" =>
              batch'[u] = <<>> /\ ended /\ free_read_space = 0
    BY <1>0, <1>2, <1>7, <2>1 DEF ThreadInv
  <2>4. \A u \in Interpolators : interpolator'[u] = "store" => batch'[u] # <<>>
    <3>1. batch' = batch BY <1>7
    <3> QED BY <2>1, <3>1
  <2>5. (pc = "write" => ~ended) /\ (pc = "join" => ended /\ todo = <<>> /\ left = <<>>)
    BY <1>0 DEF ThreadInv
  <2> QED BY <1>2, <2>2, <2>3, <2>4, <2>5 DEF ThreadInv
<1> QED BY <1>6, <1>8, <1>9, <1>10, <1>11 DEF IInv

(* A sample gets its value, in its own place.                                 *)
LEMMA StoreKeeps ==
  ASSUME IInv, NEW t \in Interpolators, Store(t)
  PROVE  IInv'
<1>0. /\ TypeOK /\ WindowInv /\ ThreadInv /\ PlaceInv /\ BuffersInv /\ CurrentInv
      /\ SentIsWanted
  BY DEF IInv
<1> DEFINE n == Len(sent)
           pos == interpolated_pos
           h == Head(batch[t])
           rest == Tail(batch[t])
<1>1. /\ interpolator[t] = "store"
      /\ buffers' = [buffers EXCEPT ![pos + 1].data[h] = value[t]]
      /\ batch' = [batch EXCEPT ![t] = rest]
      /\ interpolator' = [interpolator EXCEPT ![t] = IF rest = <<>> THEN "read" ELSE "replace"]
      /\ value' = [value EXCEPT ![t] = {}]
      /\ UNCHANGED <<flagged, fed, interpolated_pos, finishing, sent, pc, todo, left, laneVars>>
  BY <1>0 DEF Store, TypeOK
<1>2. Working /\ Working' /\ batch[t] # <<>> BY <1>0, <1>1 DEF ThreadInv, Working
<1>3. /\ pos \in Nat /\ n \in Nat /\ Len(buffers) \in Nat /\ pos < Len(buffers)
      /\ DOMAIN buffers = 1 .. Len(buffers) /\ Current = pos + 1 /\ Current \in DOMAIN buffers
      /\ buffers[Current] \in Buf /\ buffers[Current].flags = flagged[n + Current]
      /\ buffers[Current].flags \subseteq Channels
  <2>1. pos < Len(buffers) BY <1>0, <1>2 DEF WindowInv
  <2> QED BY <1>0, <2>1, AtWork
<1> DEFINE m == Len(batch[t])
<1>4. /\ m \in Nat \ {0} /\ DOMAIN batch[t] = 1 .. m /\ h = batch[t][1]
      /\ rest \in Seq(Channels) /\ Len(rest) = m - 1 /\ DOMAIN rest = 1 .. m - 1
      /\ \A i \in 1 .. m - 1 : rest[i] = batch[t][i + 1]
  <2>1. batch[t] \in Seq(Channels) BY <1>0 DEF TypeOK
  <2>2. PICK b \in Seq(Channels) : b = batch[t] BY <2>1
  <2>3. b # <<>> BY <1>2, <2>2
  <2>4. /\ Len(b) \in Nat \ {0} /\ DOMAIN b = 1 .. Len(b) /\ Head(b) = b[1]
        /\ Tail(b) \in Seq(Channels) /\ Len(Tail(b)) = Len(b) - 1
        /\ DOMAIN Tail(b) = 1 .. Len(b) - 1
        /\ \A i \in 1 .. Len(b) - 1 : Tail(b)[i] = b[i + 1]
    BY <2>3
  <2> QED BY <2>2, <2>4
<1> HIDE DEF rest
<1>5. /\ batch' \in [Interpolators -> Seq(Channels)] /\ batch'[t] = rest
      /\ \A u \in Interpolators : u # t => batch'[u] = batch[u]
  BY <1>0, <1>1, <1>4 DEF TypeOK
<1>6. /\ Queue' = Queue /\ Current' = Current /\ flagged' = flagged /\ sent' = sent
      /\ interpolated_pos' = interpolated_pos
  BY <1>1 DEF Queue, InLane, Readable, read_position, free_read_space, laneVars, Current
<1>7. PICK q : q = Queue OBVIOUS
<1>8. PICK b : b = batch OBVIOUS
<1>9. PICK d : d = batch' OBVIOUS
<1>10. PICK flags : flags = buffers[Current].flags OBVIOUS
<1>11. /\ Places(q, d, flags) /\ h \in flags
       /\ \A ch : Pending(q, b, ch) /\ ch # h => Pending(q, d, ch)
  <2>1. PICK x \in Nat \ {0} : x = m BY <1>4
  <2>2. Places(q, b, flags) BY <1>0, <1>2, <1>7, <1>8, <1>10 DEF PlaceInv
  <2>3. AreDropped(b, d, t, x)
    BY <1>4, <1>5, <1>8, <1>9, <2>1 DEF AreDropped
  <2>4. /\ Places(q, d, flags) /\ b[t][1] \in flags
        /\ \A ch : Pending(q, b, ch) /\ ch # b[t][1] => Pending(q, d, ch)
    BY <2>2, <2>3, Dropped
  <2>5. h = b[t][1] BY <1>4, <1>8
  <2> HIDE DEF h
  <2> QED BY <2>4, <2>5
<1>12. h \in Channels BY <1>3, <1>10, <1>11
<1>13. value[t] = Wanted(flagged, n + Current, h) BY <1>0, <1>1 DEF CurrentInv
<1> HIDE DEF h
<1>14. /\ buffers' \in Seq(Buf) /\ DOMAIN buffers' = DOMAIN buffers /\ Len(buffers') = Len(buffers)
       /\ \A i \in DOMAIN buffers :
             /\ buffers'[i].time = buffers[i].time /\ buffers'[i].flags = buffers[i].flags
             /\ \A ch \in Channels :
                   buffers'[i].data[ch] = IF i = Current /\ ch = h THEN value[t]
                                          ELSE buffers[i].data[ch]
  <2>1. buffers \in Seq(Buf) /\ value[t] \in Value BY <1>0 DEF TypeOK
  <2>2. PICK o \in Buf : o = buffers[Current] BY <1>3
  <2>3. PICK v \in Value : v = value[t] BY <2>1
  <2>4. PICK x \in Buf : x = [o EXCEPT !.data[h] = v]
    <3>1. [o EXCEPT !.data[h] = v] \in Buf BY <1>12 DEF Buf
    <3> QED BY <3>1
  <2>5. /\ x.time = o.time /\ x.flags = o.flags
        /\ \A ch \in Channels : x.data[ch] = IF ch = h THEN v ELSE o.data[ch]
    BY <1>12, <2>4 DEF Buf
  <2>6. buffers' = [buffers EXCEPT ![Current] = x] BY <1>1, <1>3, <2>2, <2>3, <2>4
  <2>7. /\ buffers' \in Seq(Buf) /\ DOMAIN buffers' = DOMAIN buffers
        /\ Len(buffers') = Len(buffers)
        /\ buffers'[Current] = x
        /\ \A i \in DOMAIN buffers : i # Current => buffers'[i] = buffers[i]
    BY <1>3, <2>1, <2>6
  <2> QED BY <2>2, <2>3, <2>5, <2>7
<1>15. TypeOK'
  <2>1. value' \in [Interpolators -> Value] BY <1>0, <1>1 DEF TypeOK, Value
  <2>2. interpolator' \in [Interpolators -> {"none", "read", "replace", "store", "gone"}]
    BY <1>0, <1>1 DEF TypeOK
  <2> QED BY <1>0, <1>1, <1>5, <1>14, <2>1, <2>2 DEF TypeOK, laneVars
<1>16. PlaceInv'
  <2>1. buffers'[Current].flags = flags BY <1>3, <1>10, <1>14
  <2> QED BY <1>6, <1>7, <1>9, <1>11, <2>1 DEF PlaceInv
<1>17. CurrentInv'
  <2>1. ASSUME NEW ch \in Channels
        PROVE  \/ Pending(q, d, ch)
               \/ buffers'[Current].data[ch] = Wanted(flagged, n + Current, ch)
    <3>1. CASE ch = h BY <1>3, <1>13, <1>14, <3>1
    <3>2. CASE ch # h
      <4>1. buffers'[Current].data[ch] = buffers[Current].data[ch] BY <1>3, <1>14, <3>2
      <4>2. \/ Pending(q, b, ch)
            \/ buffers[Current].data[ch] = Wanted(flagged, n + Current, ch)
        BY <1>0, <1>2, <1>7, <1>8 DEF CurrentInv
      <4> QED BY <1>11, <3>2, <4>1, <4>2
    <3> QED BY <3>1, <3>2
  <2>2. ASSUME NEW u \in Interpolators, interpolator'[u] = "store"
        PROVE  value'[u] = Wanted(flagged, n + Current, Head(batch'[u]))
    <3>1. u # t BY <1>0, <1>1, <2>2 DEF TypeOK
    <3>2. interpolator[u] = "store" /\ value'[u] = value[u] /\ batch'[u] = batch[u]
      BY <1>0, <1>1, <1>5, <2>2, <3>1 DEF TypeOK
    <3> QED BY <1>0, <3>2 DEF CurrentInv
  <2> QED BY <1>6, <1>7, <1>9, <2>1, <2>2 DEF CurrentInv
<1>18. WindowInv'
  <2>1. fed' = fed /\ finishing' = finishing /\ pc' = pc BY <1>1
  <2> QED BY <1>0, <1>2, <1>6, <1>14, <2>1 DEF WindowInv
<1>19. BuffersInv'
  <2>1. SUFFICES ASSUME NEW i \in DOMAIN buffers, NEW ch \in Channels
                 PROVE  /\ ch \notin flagged[n + i] => buffers'[i].data[ch] = {<<n + i, ch>>}
                        /\ i <= pos => buffers'[i].data[ch] = Wanted(flagged, n + i, ch)
    BY <1>6, <1>14 DEF BuffersInv
  <2>2. CASE i = Current /\ ch = h
    <3>1. ch \in flagged[n + i] BY <1>3, <1>10, <1>11, <2>2
    <3>2. ~(i <= pos) BY <1>3, <2>2
    <3> QED BY <3>1, <3>2
  <2>3. CASE ~(i = Current /\ ch = h)
    <3>1. buffers'[i].data[ch] = buffers[i].data[ch] BY <1>14, <2>3
    <3> QED BY <1>0, <3>1 DEF BuffersInv
  <2> QED BY <2>2, <2>3
<1>20. SentIsWanted' BY <1>0, <1>6 DEF SentIsWanted
<1>21. ThreadInv'
  <2>1. \A u \in Interpolators : Len(batch'[u]) <= BufferSize
    <3>1. m <= BufferSize /\ BufferSize \in Nat BY <1>0, Constants DEF ThreadInv
    <3>2. Len(rest) <= BufferSize
      <4> HIDE DEF m
      <4> QED BY <1>4, <3>1
    <3> QED BY <1>0, <1>5, <3>2 DEF ThreadInv
  <2>2. \A u \in Interpolators : interpolator'[u] = "store" => batch'[u] # <<>>
    <3>1. ASSUME NEW u \in Interpolators, interpolator'[u] = "store" PROVE batch'[u] # <<>>
      <4>1. u # t BY <1>0, <1>1, <3>1 DEF TypeOK
      <4>2. interpolator[u] = "store" BY <1>0, <1>1, <3>1, <4>1 DEF TypeOK
      <4> QED BY <1>0, <1>5, <4>1, <4>2 DEF ThreadInv
    <3> QED BY <3>1
  <2>3. ASSUME NEW u \in Interpolators, interpolator'[u] = "gone"
        PROVE  batch'[u] = <<>> /\ ended /\ free_read_space = 0
    <3>1. u # t BY <1>0, <1>1, <2>3 DEF TypeOK
    <3>2. interpolator[u] = "gone" /\ batch'[u] = batch[u]
      BY <1>0, <1>1, <1>5, <2>3, <3>1 DEF TypeOK
    <3> QED BY <1>0, <1>2, <3>2 DEF ThreadInv
  <2>4. /\ pc' = pc /\ ended' = ended /\ free_read_space' = free_read_space
        /\ todo' = todo /\ left' = left
    BY <1>1 DEF laneVars, free_read_space
  <2>5. (pc = "write" => ~ended) /\ (pc = "join" => ended /\ todo = <<>> /\ left = <<>>)
    BY <1>0 DEF ThreadInv
  <2> QED BY <1>2, <2>1, <2>2, <2>3, <2>4, <2>5 DEF ThreadInv
<1> QED BY <1>15, <1>16, <1>17, <1>18, <1>19, <1>20, <1>21 DEF IInv

-----------------------------------------------------------------------------
LEMMA NextInterpolate == IInv /\ [InterpolateStep]_interpolateVars => IInv'
<1> SUFFICES ASSUME IInv, [InterpolateStep]_interpolateVars PROVE IInv' OBVIOUS
<1>1. CASE Process BY <1>1, ProcessKeeps
<1>2. CASE Finish BY <1>2, FinishKeeps
<1>3. CASE SendFrontBuffer BY <1>3, SendFrontBufferKeeps
<1>4. CASE FinishNextStep BY <1>4, FinishNextStepKeeps
<1>5. CASE StartTimestep BY <1>5, StartTimestepKeeps
<1>6. CASE Flush BY <1>6, FlushKeeps
<1>7. CASE WriteToLane BY <1>7, WriteToLaneKeeps
<1>8. CASE WriteEnd BY <1>8, WriteEndKeeps
<1>9. CASE EndTimestep BY <1>9, EndTimestepKeeps
<1>10. ASSUME NEW t \in Interpolators, ReadFromLane(t) PROVE IInv' BY <1>10, ReadFromLaneKeeps
<1>11. ASSUME NEW t \in Interpolators, Sum(t) PROVE IInv' BY <1>11, SumKeeps
<1>12. ASSUME NEW t \in Interpolators, Store(t) PROVE IInv' BY <1>12, StoreKeeps
<1>13. CASE UNCHANGED interpolateVars
  <2> USE <1>13 DEF interpolateVars, stepVars, samplerVars, laneVars
  <2>1. Queue' = Queue /\ Current' = Current /\ free_read_space' = free_read_space
    BY DEF Queue, InLane, Readable, read_position, free_read_space, Current
  <2>2. TypeOK' BY DEF IInv, TypeOK
  <2>3. WindowInv' BY DEF IInv, WindowInv, Working
  <2>4. ThreadInv' BY <2>1 DEF IInv, ThreadInv, Working
  <2>5. PlaceInv' BY <2>1 DEF IInv, PlaceInv, Working
  <2>6. BuffersInv' BY DEF IInv, BuffersInv
  <2>7. CurrentInv' BY <2>1 DEF IInv, CurrentInv, Working
  <2>8. SentIsWanted' BY DEF IInv, SentIsWanted
  <2> QED BY <2>2, <2>3, <2>4, <2>5, <2>6, <2>7, <2>8 DEF IInv
<1> QED BY <1>1, <1>2, <1>3, <1>4, <1>5, <1>6, <1>7, <1>8, <1>9, <1>10, <1>11, <1>12, <1>13
         DEF InterpolateStep

(* SamplesAreInterpolated of Interpolate: whatever the flags, the window, the *)
(* number of threads and the size of their batches, and in whatever order the *)
(* threads run, each buffer is sent in its turn with its unflagged samples    *)
(* untouched and each flagged one the mean of all unflagged samples within    *)
(* half a window; and a sample is never with two threads, nor lost between    *)
(* the caller, the cyclic lane and them (Interpolate.cc:62).                  *)
THEOREM EverySampleIsInterpolated == InterpolateSpec => []SamplesAreInterpolated
<1>1. IInv => SamplesAreInterpolated
  <2> SUFFICES ASSUME IInv PROVE EachSampleIsWithOne
    BY DEF IInv, SamplesAreInterpolated
  <2>0. TypeOK /\ WindowInv /\ PlaceInv /\ CurrentInv BY DEF IInv
  <2> SUFFICES ASSUME pc \in {"write", "join"}
               PROVE  /\ \A i, j \in DOMAIN Queue : Queue[i] = Queue[j] => i = j
                      /\ \A t, u \in Interpolators :
                            \A i \in DOMAIN batch[t], j \in DOMAIN batch[u] :
                               batch[t][i] = batch[u][j] => t = u /\ i = j
                      /\ \A t \in Interpolators : Elements(batch[t]) \cap Elements(Queue) = {}
                      /\ \A ch \in buffers[Current].flags :
                            (/\ ch \notin Elements(Queue)
                             /\ \A t \in Interpolators : ch \notin Elements(batch[t]))
                            => <<buffers[Current].time, ch>> \notin buffers[Current].data[ch]
    BY DEF EachSampleIsWithOne, Current
  <2>1. Working BY DEF Working
  <2>2. Places(Queue, batch, buffers[Current].flags) BY <2>0, <2>1 DEF PlaceInv
  <2>3. \A i, j \in DOMAIN Queue : Queue[i] = Queue[j] => i = j BY <2>2 DEF Places, Distinct
  <2>4. \A t, u \in Interpolators : \A i \in DOMAIN batch[t], j \in DOMAIN batch[u] :
           batch[t][i] = batch[u][j] => t = u /\ i = j
    BY <2>2 DEF Places
  <2>5. \A t \in Interpolators : Elements(batch[t]) \cap Elements(Queue) = {}
    BY <2>2 DEF Places, Elements
  <2>6. ASSUME NEW ch \in buffers[Current].flags,
               ch \notin Elements(Queue), \A t \in Interpolators : ch \notin Elements(batch[t])
        PROVE  <<buffers[Current].time, ch>> \notin buffers[Current].data[ch]
    <3> DEFINE T == Len(sent) + Current
    <3>1. interpolated_pos < Len(buffers) BY <2>0, <2>1 DEF WindowInv
    <3>2. /\ buffers[Current].time = T /\ buffers[Current].flags = flagged[T]
          /\ buffers[Current].flags \subseteq Channels
      BY <2>0, <3>1, AtWork
    <3>3. ~Pending(Queue, batch, ch) BY <2>6 DEF Pending, Elements
    <3>4. ch \in Channels BY <3>2
    <3>5. buffers[Current].data[ch] = Wanted(flagged, T, ch)
      BY <2>0, <2>1, <3>3, <3>4 DEF CurrentInv
    <3> HIDE DEF T
    <3>6. <<T, ch>> \notin Wanted(flagged, T, ch) BY <3>2 DEF Wanted
    <3> QED BY <3>2, <3>5, <3>6
  <2> QED BY <2>3, <2>4, <2>5, <2>6
<1> QED BY <1>1, InitInterpolate, NextInterpolate, PTL DEF InterpolateSpec

=============================================================================
