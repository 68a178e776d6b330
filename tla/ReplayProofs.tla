----------------------------- MODULE ReplayProofs -----------------------------
(***************************************************************************)
(* Proofs that a replay applies every patch once and restores the order of *)
(* those that are not too late (OrderRestored), and that it is never ahead *)
(* of its time and stands still in a pause (Paced), for every recording,   *)
(* every size of the window, every delay and however the keys are pressed. *)
(***************************************************************************)
EXTENDS Replay, TLAPS, FiniteSetTheorems, SequenceTheorems

(* The provers that try a step whose proof names none, in this order.      *)
USE SMTT(10), ZenonT(30), SMTT(60)

-----------------------------------------------------------------------------
(* Min and Max of two numbers.                                             *)
LEMMA MinOfTwo ==
  ASSUME NEW a \in Int, NEW b \in Int
  PROVE  Min({a, b}) = IF a <= b THEN a ELSE b
  BY DEF Min

LEMMA MaxOfTwo ==
  ASSUME NEW a \in Int, NEW b \in Int
  PROVE  Max({a, b}) = IF a >= b THEN a ELSE b
  BY DEF Max

-----------------------------------------------------------------------------
(* The speeds.                                                             *)

MaxSpeed == 10 * speedOffset

LEMMA SpeedNumbers ==
  /\ MaxSpeed \in Nat /\ MaxSpeed >= 10 /\ speedBase = 10
  /\ speedOffset \in Nat /\ speedOffset > 0 /\ MaxSpeed = 10 * speedOffset
  BY SMTT(30) DEF MaxSpeed, speedBase, speedOffset

LEMMA SpeedLimit ==
  MaxSpeed <= 1000000
  BY SMTT(30) DEF MaxSpeed, speedOffset

(* The powers of ten that occur.                                           *)
LEMMA Tens ==
  /\ 10^0 = 1 /\ 10^1 = 10 /\ 10^2 = 100 /\ 10^3 = 1000 /\ 10^4 = 10000
  /\ 10^5 = 100000 /\ 10^6 = 1000000 /\ 10^7 = 10000000
  /\ 10^8 = 100000000 /\ 10^9 = 1000000000
  BY SMTT(30)

LEMMA TensGrow ==
  ASSUME NEW k \in 0..8
  PROVE  10^k \in Nat /\ 10^k <= 10^(k + 1) /\ (k # 0 => 10^k >= 10)
<1>1. k \in {0, 1, 2, 3, 4, 5, 6, 7, 8}
  OBVIOUS
<1>2. CASE k = 0  BY <1>2, Tens, SMTT(30)
<1>3. CASE k = 1  BY <1>3, Tens, SMTT(30)
<1>4. CASE k = 2  BY <1>4, Tens, SMTT(30)
<1>5. CASE k = 3  BY <1>5, Tens, SMTT(30)
<1>6. CASE k = 4  BY <1>6, Tens, SMTT(30)
<1>7. CASE k = 5  BY <1>7, Tens, SMTT(30)
<1>8. CASE k = 6  BY <1>8, Tens, SMTT(30)
<1>9. CASE k = 7  BY <1>9, Tens, SMTT(30)
<1>10. CASE k = 8  BY <1>10, Tens, SMTT(30)
<1> QED BY <1>1, <1>2, <1>3, <1>4, <1>5, <1>6, <1>7, <1>8, <1>9, <1>10

(* A number has the digits digitCount counts.                              *)
LEMMA Digits ==
  ASSUME NEW n \in 1..MaxSpeed
  PROVE  digitCount(n) \in 1..9 /\ 10^(digitCount(n) - 1) <= n
<1>1. n \in Nat /\ n > 0 /\ n <= 1000000
  <2>1. MaxSpeed \in Nat /\ n \in Nat /\ n >= 1 /\ n <= MaxSpeed
    BY SpeedNumbers
  <2> QED BY <2>1, SpeedLimit, SMTT(30)
<1>2. \E k \in 1..9 : 10^(k - 1) <= n /\ n < 10^k
  <2>1. 10^(1 - 1) = 1 /\ 10^(2 - 1) = 10 /\ 10^(3 - 1) = 100 /\ 10^(4 - 1) = 1000
        /\ 10^(5 - 1) = 10000 /\ 10^(6 - 1) = 100000 /\ 10^(7 - 1) = 1000000
    BY Tens, SMTT(30)
  <2>2. CASE n < 10                        BY <1>1, <2>1, <2>2, Tens, SMTT(30)
  <2>3. CASE n >= 10 /\ n < 100            BY <1>1, <2>1, <2>3, Tens, SMTT(30)
  <2>4. CASE n >= 100 /\ n < 1000          BY <1>1, <2>1, <2>4, Tens, SMTT(30)
  <2>5. CASE n >= 1000 /\ n < 10000        BY <1>1, <2>1, <2>5, Tens, SMTT(30)
  <2>6. CASE n >= 10000 /\ n < 100000      BY <1>1, <2>1, <2>6, Tens, SMTT(30)
  <2>7. CASE n >= 100000 /\ n < 1000000    BY <1>1, <2>1, <2>7, Tens, SMTT(30)
  <2>8. CASE n >= 1000000                  BY <1>1, <2>1, <2>8, Tens, SMTT(30)
  <2> QED BY <1>1, <2>2, <2>3, <2>4, <2>5, <2>6, <2>7, <2>8, SMTT(30)
<1>3. digitCount(n) = CHOOSE k \in 1..9 : 10^(k - 1) <= n /\ n < 10^k
  <2>1. ~(n <= 0)
    BY <1>1, SMTT(30)
  <2> QED BY Zenon, <2>1 DEF digitCount
<1> QED BY Zenon, <1>2, <1>3

(* The step of a speed is at least 10, and not more than the speed.        *)
LEMMA Steps ==
  ASSUME NEW k \in 1..9
  PROVE  /\ Pow(k - 2) \in Nat /\ Pow(k - 2) >= 10
         /\ Pow(k - 2) = 10 \/ Pow(k - 2) <= 10^(k - 1)
<1>1. CASE k - 2 < 1
  BY <1>1 DEF Pow
<1>2. CASE k - 2 >= 1
  <2>1. k - 2 \in 0..8 /\ k - 2 # 0 /\ k - 1 = (k - 2) + 1 /\ k - 1 \in 0..8
    BY <1>2
  <2>2. /\ 10^(k - 2) \in Nat /\ 10^(k - 2) >= 10
        /\ 10^(k - 1) \in Nat /\ 10^(k - 2) <= 10^(k - 1)
    BY ZenonT(60), <2>1, TensGrow
  <2>3. Pow(k - 2) = IF 10^(k - 2) >= 10 THEN 10^(k - 2) ELSE 10
    BY <1>2, <2>2, MaxOfTwo DEF Pow
  <2> QED BY <2>2, <2>3
<1> QED BY <1>1, <1>2

(* SpeedUp and SpeedDown stay between 1 and the highest speed.             *)
LEMMA SpeedsBounded ==
  ASSUME NEW s \in 1..MaxSpeed, speed \in 1..MaxSpeed
  PROVE  SpeedUp(s) \/ SpeedDown(s) => speed' \in 1..MaxSpeed
<1>1. MaxSpeed \in Nat /\ MaxSpeed >= 10 /\ speedBase = 10 /\ MaxSpeed = 10 * speedOffset
  BY SpeedNumbers
<1>2. s \in Int /\ s >= 1 /\ s <= MaxSpeed
  BY <1>1
<1>3. CASE SpeedUp(s)
  <2>1. Up(s) \in Int /\ Up(s) >= 1
    <3>1. CASE s < speedBase
      BY <1>1, <3>1 DEF Up
    <3>2. CASE ~(s < speedBase)
      <4>1. Up(s) = s + Pow(digitCount(s) - 2)
        BY <3>2 DEF Up
      <4> QED BY <1>2, <4>1, Digits, Steps
    <3> QED BY <3>1, <3>2
  <2>2. speed' = IF Up(s) <= MaxSpeed THEN Up(s) ELSE speed
    BY <1>1, <1>3 DEF SpeedUp
  <2> QED BY <1>1, <1>2, <2>1, <2>2
<1>4. CASE SpeedDown(s)
  <2>1. CASE s <= speedBase
    BY <1>1, <1>2, <1>4, <2>1 DEF Down, SpeedDown
  <2>2. CASE ~(s <= speedBase)
    <3>1. Down(s) = s - Pow(digitCount(s - 1) - 2)
      BY <2>2 DEF Down
    <3>2. s - 1 \in 1..MaxSpeed /\ s - 1 >= 10
      BY <1>1, <1>2, <2>2
    <3>3. digitCount(s - 1) \in 1..9 /\ 10^(digitCount(s - 1) - 1) <= s - 1
      BY <3>2, Digits
    <3> DEFINE p == Pow(digitCount(s - 1) - 2)
    <3>4. p \in Nat /\ p >= 10 /\ (p = 10 \/ p <= 10^(digitCount(s - 1) - 1))
      BY Zenon, <3>3, Steps
    <3>5. digitCount(s - 1) - 1 \in 0..8
      BY <3>3
    <3>6. 10^(digitCount(s - 1) - 1) \in Int
      BY <3>5, TensGrow
    <3> HIDE DEF p
    <3>7. p <= s - 1
      BY <1>2, <3>2, <3>3, <3>4, <3>6
    <3>8. Down(s) = s - p
      BY <3>1 DEF p
    <3> QED BY <1>1, <1>2, <1>4, <3>4, <3>7, <3>8 DEF SpeedDown
  <2> QED BY <2>1, <2>2
<1> QED BY <1>3, <1>4

-----------------------------------------------------------------------------
(* The arithmetic of the time: o is the unit of speeds, f the highest      *)
(* speed, and w + a the time that has passed with the turns that rounding  *)
(* may have shortened.                                                     *)

LEMMA Division ==
  ASSUME NEW x \in Nat, NEW y \in Nat, y > 0
  PROVE  x \div y \in Nat /\ y * (x \div y) <= x /\ x < y * (x \div y) + y
  OBVIOUS

LEMMA DivisionGrows ==
  ASSUME NEW x \in Nat, NEW z \in Nat, x <= z
  PROVE  x \div Second <= z \div Second
  BY DEF Second

LEMMA Product ==
  ASSUME NEW x \in Nat, NEW y \in Nat, NEW z \in Nat, y <= z
  PROVE  x * y <= x * z /\ y * x <= z * x /\ x * y \in Nat
  OBVIOUS

(* A turn of the loop that waits for st adds st at the least, but for one  *)
(* unit that rounding takes.                                               *)
LEMMA TurnCounts ==
  ASSUME NEW w \in Nat, NEW a \in Nat, NEW b \in Nat, b >= a + 1, NEW f \in Nat,
         NEW sp \in Nat, sp > 0, sp <= f, NEW o \in Nat, NEW p \in Nat, NEW st \in Nat,
         (w + a) * f >= p * o
  PROVE  (w + (st * o) \div sp + b) * f >= (p + st) * o
<1> DEFINE q == (st * o) \div sp
<1>1. st * o \in Nat
  BY Product
<1>2. q \in Nat /\ st * o < sp * q + sp
  BY <1>1, Division
<1> HIDE DEF q
<1>3. sp * q + sp = sp * (q + 1) /\ q + 1 \in Nat
  BY <1>2
<1>4. sp * (q + 1) <= f * (q + 1)
  BY <1>3, Product
<1>5. st * o <= f * (q + 1)
  BY <1>1, <1>2, <1>3, <1>4
<1>6. (w + a) * f + (q + 1) * f = (w + a + q + 1) * f
  BY <1>2
<1>7. (w + a + q + 1) * f <= (w + q + b) * f
  BY <1>2, Product
<1>8. p * o + st * o = (p + st) * o
  OBVIOUS
<1>9. (p + st) * o <= (w + q + b) * f
  BY <1>1, <1>2, <1>5, <1>6, <1>7, <1>8
<1> QED BY <1>9 DEF q

(* A replay that is far behind goes back to the time of the patch.         *)
LEMMA GoBack ==
  ASSUME NEW a \in Nat, NEW p \in Nat, NEW r \in Nat, r < p - Second,
         NEW f \in Nat, NEW o \in Nat, f <= 10 * o,
         (a + p \div Second) * f >= p * o
  PROVE  (a + r \div Second) * f >= r * o
<1>1. Second = 1000
  BY DEF Second
<1> DEFINE x == p \div Second
           y == r \div Second
<1>2. x \in Nat /\ y \in Nat /\ 1000 * x <= p /\ r < 1000 * y + 1000 /\ y <= x
  BY <1>1
<1> HIDE DEF x, y
<1> DEFINE m == x - y
<1>3. m \in Nat /\ 10 * m <= p - r
  BY <1>1, <1>2
<1>4. (a + x) * f = (a + y) * f + m * f
  BY <1>2
<1>5. m * f <= m * (10 * o) /\ m * (10 * o) = (10 * m) * o
  BY <1>3
<1>6. (10 * m) * o <= (p - r) * o
  BY <1>3, <1>1
<1>7. (p - r) * o = p * o - r * o
  OBVIOUS
<1>8. (a + x) * f >= p * o
  BY DEF x
<1>9. (a + y) * f >= r * o
  BY <1>2, <1>3, <1>4, <1>5, <1>6, <1>7, <1>8
<1> QED BY <1>9 DEF y

(* A replay that is a little late has reached the time of the patch.       *)
LEMMA LittleLate ==
  ASSUME NEW a \in Nat, NEW p \in Nat, NEW r \in Nat, r <= p, p <= r + Second,
         NEW f \in Nat, NEW o \in Nat, (a + p \div Second) * f >= p * o
  PROVE  (a + 1 + r \div Second) * f >= r * o
<1> DEFINE x == a + p \div Second
           y == a + 1 + r \div Second
<1>1. x \in Nat /\ y \in Nat /\ x <= y
  BY DEF Second
<1>2. x * f >= p * o
  OBVIOUS
<1> HIDE DEF x, y
<1>3. x * f <= y * f /\ x * f \in Nat /\ y * f \in Nat
  BY <1>1, Product
<1>4. r * o <= p * o /\ r * o \in Nat /\ p * o \in Nat
  BY Product
<1>5. y * f >= r * o
  BY <1>2, <1>3, <1>4
<1> QED BY <1>5 DEF y

(* What applying took counts at a speed that is not above the highest.     *)
LEMMA TimeCounted ==
  ASSUME NEW w \in Nat, NEW n \in Nat, NEW p \in Nat, NEW x \in Nat, NEW f \in Nat,
         NEW sp \in Nat, sp <= f, NEW o \in Nat, o > 0,
         (w + n + p \div Second) * f >= p * o
  PROVE  (w + x + n + (p + (x * sp) \div o) \div Second) * f >= (p + (x * sp) \div o) * o
<1> DEFINE q == (x * sp) \div o
<1>1. x * sp \in Nat
  BY Product
<1>2. q \in Nat /\ o * q <= x * sp
  BY <1>1, Division
<1> HIDE DEF q
<1>3. x * sp <= x * f
  BY Product
<1>4. p \div Second \in Nat /\ (p + q) \div Second \in Nat
      /\ p \div Second <= (p + q) \div Second
  BY <1>2 DEF Second
<1>5. (w + n + p \div Second) * f + x * f = (w + x + n + p \div Second) * f
  BY <1>4
<1>6. (w + x + n + p \div Second) * f <= (w + x + n + (p + q) \div Second) * f
  BY <1>4, Product
<1>7. (p + q) * o = p * o + o * q
  BY <1>2
<1>8. (w + x + n + (p + q) \div Second) * f >= (p + q) * o
  BY <1>1, <1>2, <1>3, <1>4, <1>5, <1>6, <1>7
<1> QED BY <1>8 DEF q

-----------------------------------------------------------------------------
(* The inductive invariant.  The patches handled so far are known by their *)
(* place in the recording; InHand is the one that is handled.              *)

ReplayType ==
    /\ recording \in Seq(Nat) /\ next \in 1..(Len(recording) + 1)
    /\ heap \subseteq 1..(next - 1) /\ cur \in 0..(next - 1)
    /\ dur \in Nat /\ d \in Nat /\ wall \in Nat /\ idle \in Nat
    /\ pc \in {"read", "handle", "slow", "wait", "apply", "applied", "done", "failed"}
    /\ cancelled \in BOOLEAN /\ pause \in BOOLEAN
    /\ speed \in 1..MaxSpeed /\ fastest \in speed..MaxSpeed
    /\ by \in {"none", "U", "D"} /\ (by # "none" => loaded \in 1..MaxSpeed)
    /\ handle \in BOOLEAN /\ (pc = "slow" => old \in 1..MaxSpeed)
    /\ applied \in Seq(Nat)
    /\ pc \in {"handle", "slow", "wait", "apply"} => cur # 0

Applied(i) == \E j \in 1..Len(applied) : applied[j] = i
InHand == IF pc \in {"handle", "slow", "wait", "apply"} THEN {cur} ELSE {}

(* Every patch decoded is in the heap, in hand or applied, in one of them  *)
(* and once.                                                               *)
OnceInv ==
    /\ \A i, j \in 1..Len(applied) : applied[i] = applied[j] => i = j
    /\ \A i \in Nat : Applied(i) => i \in 1..(next - 1) /\ i \notin heap /\ i \notin InHand
    /\ \A i \in InHand : i \notin heap
    /\ \A i \in 1..(next - 1) : i \in heap \/ i \in InHand \/ Applied(i)
    /\ pc = "done" /\ ~cancelled => next > Len(recording) /\ heap = {}

(* A patch goes before one with an earlier time only if that one is late.  *)
Behind(j) == {k \in 1..(j - 1) : recording[k] > recording[j]}
Before(i, j) == recording[i] > recording[j] => Cardinality(Behind(j)) >= Window

OrderInv ==
    /\ \A j \in 1..Len(applied) : \A i \in 1..(j - 1) : Before(applied[i], applied[j])
    /\ \A i, j \in 1..Len(recording) :
         (Applied(i) \/ i \in InHand) /\ ~Applied(j) => Before(i, j)

(* At the speed f the time w is enough to reach p, when n turns of the     *)
(* loop that were shorter than a second were rounded.                      *)
Enough(w, n, p, f) == (w + n + p \div Second) * f >= p * speedOffset

PaceInv ==
    /\ pc \in {"read", "handle", "done"} => Enough(wall, Len(applied), dur, fastest)
    /\ pc = "wait" /\ d > 0 => /\ dur = recording[cur] /\ d <= dur
                               /\ Enough(wall, Len(applied), dur - d, fastest)
    /\ pc \in {"slow", "wait", "apply"} /\ d = 0 =>
         /\ Enough(wall, Len(applied) + 1, dur, fastest)
         /\ Enough(wall, Len(applied) + 1, recording[cur], fastest)
    /\ pc \in {"slow", "apply"} => d = 0
    /\ pc = "applied" => d <= wall /\ Enough(wall - d, Len(applied), dur, fastest)

PauseInv ==
    pause => IF cancelled
               THEN idle <= 2 /\ (InHand # {} => idle <= 1)
               ELSE idle <= 1 /\ (pc = "apply" => idle = 0)

-----------------------------------------------------------------------------
(* NoteSpeed keeps the highest speed.                                      *)
LEMMA Noted ==
  ASSUME ReplayType, NoteSpeed, speed' \in 1..MaxSpeed
  PROVE  fastest' \in speed'..MaxSpeed /\ fastest' >= fastest /\ fastest' \in Nat /\ fastest \in Nat
<1>1. MaxSpeed \in Nat /\ fastest \in Int /\ speed \in 1..MaxSpeed /\ fastest >= speed
      /\ fastest <= MaxSpeed /\ speed' \in Int
  BY SpeedNumbers DEF ReplayType
<1>2. fastest' = IF fastest >= speed' THEN fastest ELSE speed'
  BY <1>1, MaxOfTwo DEF NoteSpeed
<1> QED BY <1>1, <1>2

LEMMA InitType == Init => ReplayType
<1> SUFFICES ASSUME Init PROVE ReplayType
  OBVIOUS
<1>1. recording \in Seq(Nat) /\ Len(recording) \in Nat
  BY ReplayAssumption, LenProperties DEF Init
<1>2. speed \in 1..MaxSpeed /\ fastest \in speed..MaxSpeed
  BY SpeedNumbers DEF Init
<1>3. applied \in Seq(Nat)
  BY DEF Init
<1>4. next \in 1..(Len(recording) + 1) /\ heap \subseteq 1..(next - 1) /\ cur \in 0..(next - 1)
  BY <1>1 DEF Init
<1>5. /\ pc = "read" /\ by = "none" /\ cancelled = FALSE /\ pause = FALSE
      /\ dur = 0 /\ d = 0 /\ wall = 0 /\ idle = 0 /\ handle \in BOOLEAN
  BY DEF Init
<1> QED BY ZenonT(60), <1>1, <1>2, <1>3, <1>4, <1>5 DEF ReplayType

LEMMA TypeStep ==
  ASSUME ReplayType, [Next]_vars
  PROVE  ReplayType'
<1> USE DEF ReplayType
<1>0. /\ Len(recording) \in Nat /\ MaxSpeed \in Nat
      /\ \A i \in 1..Len(recording) : recording[i] \in Nat
  BY SpeedNumbers, LenProperties, ElementOfSeq
<1>1. CASE PressSpeed
  BY <1>1 DEF PressSpeed, replayer
<1>2. CASE StoreSpeed
  <2>1. loaded \in 1..MaxSpeed
    BY <1>2 DEF StoreSpeed
  <2>2. speed' \in 1..MaxSpeed
    BY <1>2, <2>1, SpeedsBounded DEF StoreSpeed
  <2>3. fastest' \in speed'..MaxSpeed
    BY <1>2, <2>2, Noted DEF StoreSpeed
  <2> QED BY <1>2, <2>2, <2>3 DEF StoreSpeed, replayer
<1>3. CASE Pause
  BY <1>3 DEF Pause, replayer
<1>4. CASE Continue
  BY Zenon, <1>4 DEF Continue, replayer, input
<1>5. CASE Cancel
  BY <1>5 DEF Cancel, replayer, input
<1>6. CASE Decode
  <2>1. next' = next + 1 /\ next + 1 \in 1..(Len(recording) + 1) /\ heap \cup {next} \subseteq 1..next
    BY <1>0, <1>6 DEF Decode
  <2>2. UNCHANGED <<recording, dur, d, wall, idle, cancelled, handle, pause, old, speed, fastest, by, loaded,
                  applied>>
    BY <1>6 DEF Decode, Others, input
  <2>3. \/ \E i \in Pop(heap \cup {next}) :
             heap' = (heap \cup {next}) \ {i} /\ cur' = i /\ pc' = "handle"
        \/ heap' = heap \cup {next} /\ UNCHANGED <<cur, pc>>
    BY Zenon, <1>6 DEF Decode
  <2>4. heap' \subseteq 1..next /\ cur' \in 0..next
        /\ pc' \in {"read", "handle", "slow", "wait", "apply", "applied", "done", "failed"}
        /\ (pc' \in {"handle", "slow", "wait", "apply"} => cur' # 0) /\ pc' # "slow"
    <3>1. CASE heap' = heap \cup {next} /\ UNCHANGED <<cur, pc>>
      BY <1>6, <2>1, <3>1 DEF Decode
    <3>2. ASSUME NEW i \in Pop(heap \cup {next}),
                 heap' = (heap \cup {next}) \ {i} /\ cur' = i /\ pc' = "handle"
          PROVE  /\ heap' \subseteq 1..next /\ cur' \in 0..next
                 /\ pc' \in {"read", "handle", "slow", "wait", "apply", "applied", "done", "failed"}
                 /\ (pc' \in {"handle", "slow", "wait", "apply"} => cur' # 0) /\ pc' # "slow"
      <4>1. i \in heap \cup {next}
        BY DEF Pop
      <4>2. i \in 1..next
        BY <2>1, <4>1
      <4> QED BY <2>1, <3>2, <4>2
    <3> QED BY Zenon, <2>3, <3>1, <3>2
  <2> QED BY <2>1, <2>2, <2>4
<1>7. CASE Flush
  <2>1. PICK i \in Pop(heap) : heap' = heap \ {i} /\ cur' = i /\ pc' = "handle"
    BY <1>7 DEF Flush
  <2>2. i \in heap
    BY DEF Pop
  <2> QED BY <1>7, <2>1, <2>2 DEF Flush, Others, input
<1>8. CASE Finish \/ DecodeFails
  BY <1>8 DEF Finish, DecodeFails, Others, input
<1>9. CASE Measure
  <2>1. recording[cur] \in Nat
    BY <1>0, <1>9 DEF Measure
  <2>2. /\ d' \in Nat /\ dur' \in Nat /\ pc' \in {"slow", "wait"}
        /\ (pc' = "slow" => old' \in 1..MaxSpeed)
    BY <1>9, <2>1 DEF Measure
  <2> QED BY <1>9, <2>2 DEF Measure, input
<1>15. CASE Slow
  <2>1. speed' \in 1..MaxSpeed
    BY <1>15, SpeedsBounded DEF Slow
  <2>2. fastest' \in speed'..MaxSpeed
    BY <1>15, <2>1, Noted DEF Slow
  <2> QED BY <1>15, <2>1, <2>2 DEF Slow, input
<1>10. CASE Sleep
  <2>1. Min({d, Second}) \in Nat /\ Min({d, Second}) <= d
    <3>1. Second \in Int /\ Second >= 0 /\ d \in Int /\ d >= 0
      BY DEF Second, ReplayType
    <3>2. Min({d, Second}) = IF d <= Second THEN d ELSE Second
      BY Zenon, <3>1, MinOfTwo
    <3> QED BY <3>1, <3>2
  <2> DEFINE st == Min({d, Second})
  <2>2. d' = d - st /\ wall' = wall + (st * speedOffset) \div speed
    BY <1>10 DEF Sleep
  <2> HIDE DEF st
  <2>3. st \in Nat /\ st <= d
    BY <2>1 DEF st
  <2>4. (st * speedOffset) \div speed \in Nat
    <3>1. st * speedOffset \in Nat
      BY <2>3, SpeedNumbers, Product
    <3>2. speed \in Nat /\ speed > 0
      BY <1>0
    <3> QED BY Zenon, <3>1, <3>2, Division
  <2> QED BY <1>10, <2>2, <2>3, <2>4 DEF Sleep, Others, input
<1>11. CASE Awake
  BY <1>11 DEF Awake, Others, input
<1>12. CASE Apply
  <2>1. PICK past \in Delays : wall' = wall + past /\ d' = past
    BY <1>12 DEF Apply
  <2>2. past \in Nat
    BY ReplayAssumption
  <2>3. applied' \in Seq(Nat)
    BY <1>12, AppendProperties DEF Apply
  <2> QED BY <1>12, <2>1, <2>2, <2>3 DEF Apply, input
<1>13. CASE Account
  <2>1. (d * speed) \div speedOffset \in Nat
    <3>1. speed \in Nat
      BY <1>0
    <3>2. d * speed \in Nat
      BY <3>1, Product
    <3> QED BY Zenon, <3>2, Division, SpeedNumbers
  <2>2. dur' \in Nat
    BY <1>13, <2>1 DEF Account
  <2> QED BY <1>13, <2>2 DEF Account, Others, input
<1>14. CASE UNCHANGED vars
  BY <1>14 DEF vars
<1> QED BY Zenon, <1>1, <1>2, <1>3, <1>4, <1>5, <1>6, <1>7, <1>8, <1>9, <1>10, <1>11, <1>12,
           <1>13, <1>14, <1>15 DEF Next

-----------------------------------------------------------------------------
(* The steps that neither take a patch nor put one down.                   *)
Quiet ==
    \/ PressSpeed \/ StoreSpeed \/ Pause \/ Continue \/ Cancel
    \/ DecodeFails \/ Measure \/ Slow \/ Sleep \/ Awake \/ Account \/ UNCHANGED vars

LEMMA QuietStep ==
  ASSUME ReplayType, Quiet
  PROVE  /\ UNCHANGED <<recording, next, heap, applied>> /\ InHand' = InHand
         /\ pc' = "done" /\ ~cancelled' => pc = "done" /\ ~cancelled
<1>1. CASE PressSpeed    BY <1>1 DEF PressSpeed, replayer, InHand
<1>2. CASE StoreSpeed    BY <1>2 DEF StoreSpeed, replayer, InHand
<1>3. CASE Pause         BY <1>3 DEF Pause, replayer, InHand
<1>4. CASE Continue      BY <1>4 DEF Continue, replayer, InHand
<1>5. CASE Cancel        BY <1>5 DEF Cancel, replayer, InHand
<1>6. CASE Measure       BY <1>6 DEF Measure, InHand
<1>7. CASE Sleep         BY <1>7 DEF Sleep, Others, InHand
<1>8. CASE Awake         BY <1>8 DEF Awake, Others, InHand
<1>9. CASE Account       BY <1>9 DEF Account, Others, InHand
<1>10. CASE DecodeFails  BY <1>10 DEF DecodeFails, Others, InHand
<1>11. CASE Slow         BY <1>11 DEF Slow, InHand
<1>12. CASE UNCHANGED vars  BY <1>12 DEF vars, InHand
<1> QED BY <1>1, <1>2, <1>3, <1>4, <1>5, <1>6, <1>7, <1>8, <1>9, <1>10, <1>11, <1>12 DEF Quiet

LEMMA NextCases ==
  ASSUME [Next]_vars
  PROVE  Quiet \/ Decode \/ Flush \/ Finish \/ Apply
  BY DEF Next, Quiet

(* A patch that is decoded and not applied is in the heap or in hand.      *)
LEMMA OnceStep ==
  ASSUME ReplayType, OnceInv, [Next]_vars
  PROVE  OnceInv'
<1>0. Len(recording) \in Nat /\ Len(applied) \in Nat /\ next \in Nat
  BY LenProperties DEF ReplayType
<1>1. CASE Quiet
  BY <1>1, QuietStep DEF OnceInv, Applied
<1>2. CASE Finish
  <2>1. UNCHANGED <<recording, next, heap, applied, cancelled>> /\ InHand = {} /\ InHand' = {}
    BY <1>2 DEF Finish, Others, InHand
  <2>2. ~cancelled => next > Len(recording) /\ heap = {}
    BY <1>2 DEF Finish
  <2> QED BY <2>1, <2>2 DEF OnceInv, Applied
<1>3. CASE Decode \/ Flush
  <2>1. UNCHANGED <<recording, applied>> /\ InHand = {} /\ \A i : Applied(i)' <=> Applied(i)
    BY <1>3 DEF Decode, Flush, Others, InHand, Applied
  <2>2. PICK h : /\ (next' = next /\ h = heap) \/ (next' = next + 1 /\ h = heap \cup {next})
                 /\ \/ heap' = h /\ InHand' = {}
                    \/ \E i \in h : heap' = h \ {i} /\ InHand' = {i}
    <3>1. CASE Flush
      <4>1. PICK i \in Pop(heap) : heap' = heap \ {i} /\ cur' = i /\ pc' = "handle"
        BY <3>1 DEF Flush
      <4>2. i \in heap /\ InHand' = {i} /\ next' = next
        BY <3>1, <4>1 DEF Pop, InHand, Flush
      <4> QED BY <4>1, <4>2
    <3>2. CASE Decode
      <4>1. next' = next + 1
        BY <3>2 DEF Decode
      <4>2. \/ heap' = heap \cup {next} /\ InHand' = {}
            \/ \E i \in heap \cup {next} : heap' = (heap \cup {next}) \ {i} /\ InHand' = {i}
        BY <3>2 DEF Decode, Pop, InHand
      <4> QED BY Zenon, <4>1, <4>2
    <3> QED BY <1>3, <3>1, <3>2
  <2>3. pc' # "done"
    BY <1>3 DEF Decode, Flush
  <2>4. \A i \in 1..(next' - 1) : i \in h \/ Applied(i)
    <3>1. \A i \in 1..(next - 1) : i \in heap \/ Applied(i)
      BY <2>1 DEF OnceInv
    <3> QED BY <1>0, <2>2, <3>1
  <2>5. \A i \in Nat : Applied(i) => i \in 1..(next' - 1) /\ i \notin h
    <3>1. \A i \in Nat : Applied(i) => i \in 1..(next - 1) /\ i \notin heap
      BY DEF OnceInv
    <3> QED BY <1>0, <2>2, <3>1
  <2>6. \A i \in Nat : Applied(i) => i \in 1..(next' - 1) /\ i \notin heap' /\ i \notin InHand'
    <3>1. heap' \subseteq h /\ InHand' \subseteq h
      BY <2>2
    <3> QED BY <2>5, <3>1
  <2>7. \A i \in InHand' : i \notin heap'
    BY <2>2
  <2>8. \A i \in 1..(next' - 1) : i \in heap' \/ i \in InHand' \/ Applied(i)
    BY <2>2, <2>4
  <2> QED BY <2>1, <2>3, <2>6, <2>7, <2>8 DEF OnceInv
<1>4. CASE Apply
  <2>1. /\ UNCHANGED <<recording, next, heap>> /\ InHand = {cur} /\ InHand' = {}
        /\ pc' # "done" /\ applied' = Append(applied, cur)
    BY <1>4 DEF Apply, InHand
  <2>2. /\ Len(applied') = Len(applied) + 1 /\ applied'[Len(applied) + 1] = cur
        /\ \A j \in 1..Len(applied) : applied'[j] = applied[j]
    BY <1>0, <2>1, AppendProperties DEF ReplayType
  <2>3. \A i : Applied(i)' <=> Applied(i) \/ i = cur
    BY <1>0, <2>2 DEF Applied
  <2>4. cur \in Nat /\ cur \in 1..(next - 1) /\ cur \notin heap /\ ~Applied(cur)
    BY <1>0, <1>4, <2>1 DEF OnceInv, ReplayType, Apply
  <2>5. \A j \in 1..Len(applied) : applied[j] # cur
    BY <2>4 DEF Applied
  <2>6. \A i, j \in 1..Len(applied') : applied'[i] = applied'[j] => i = j
    BY <1>0, <2>2, <2>5 DEF OnceInv
  <2>7. \A i \in Nat : Applied(i)' => i \in 1..(next' - 1) /\ i \notin heap' /\ i \notin InHand'
    BY <2>1, <2>3, <2>4 DEF OnceInv
  <2>8. \A i \in 1..(next' - 1) : i \in heap' \/ i \in InHand' \/ Applied(i)'
    BY <2>1, <2>3 DEF OnceInv
  <2> QED BY <2>1, <2>6, <2>7, <2>8 DEF OnceInv
<1> QED BY <1>1, <1>2, <1>3, <1>4, NextCases

-----------------------------------------------------------------------------
(* The patch that leaves the heap goes before no earlier one that is not   *)
(* late: what is still to decode is behind the whole heap.                 *)
LEMMA PopOrder ==
  ASSUME ReplayType, NEW h, NEW n \in Nat, h \subseteq 1..(n - 1), n - 1 <= Len(recording),
         NEW i \in Pop(h), n > Len(recording) \/ Cardinality(h) >= Window,
         NEW j \in 1..Len(recording), j \in h \/ j >= n
  PROVE  Before(i, j)
<1>0. Len(recording) \in Nat /\ \A k \in 1..Len(recording) : recording[k] \in Nat
  BY LenProperties, ElementOfSeq DEF ReplayType
<1>1. i \in h /\ \A k \in h : recording[i] <= recording[k]
  BY DEF Pop
<1>2. CASE j \in h
  <2>1. recording[i] <= recording[j] /\ recording[i] \in Nat /\ recording[j] \in Nat
    BY <1>0, <1>1, <1>2
  <2> QED BY <2>1 DEF Before
<1>3. CASE j \notin h /\ recording[i] > recording[j]
  <2>1. j >= n /\ Cardinality(h) >= Window
    BY <1>0, <1>3
  <2>2. h \subseteq Behind(j)
    <3> SUFFICES ASSUME NEW k \in h PROVE k \in 1..(j - 1) /\ recording[k] > recording[j]
      BY DEF Behind
    <3>1. k \in 1..Len(recording) /\ i \in 1..Len(recording) /\ k \in 1..(j - 1)
      BY <1>0, <1>1, <2>1
    <3> QED BY <1>0, <1>1, <1>3, <3>1
  <2>3. IsFiniteSet(Behind(j))
    <3>1. Behind(j) \subseteq 1..(j - 1)
      BY DEF Behind
    <3>2. 1 \in Int /\ j - 1 \in Int
      BY <1>0
    <3>3. IsFiniteSet(1..(j - 1))
      BY <3>2, FS_Interval
    <3> QED BY <3>1, <3>3, FS_Subset
  <2>4. /\ Cardinality(h) <= Cardinality(Behind(j)) /\ Cardinality(h) \in Nat
        /\ Cardinality(Behind(j)) \in Nat
    BY Zenon, <2>2, <2>3, FS_Subset, FS_CardinalityType
  <2>5. Window \in Nat
    BY ReplayAssumption
  <2> QED BY <2>1, <2>4, <2>5 DEF Before
<1> QED BY <1>2, <1>3 DEF Before

LEMMA OrderStep ==
  ASSUME ReplayType, OnceInv, OrderInv, [Next]_vars
  PROVE  OrderInv'
<1>0. /\ Len(recording) \in Nat /\ Len(applied) \in Nat /\ next \in Nat
      /\ next - 1 <= Len(recording) /\ \A k \in 1..Len(applied) : applied[k] \in Nat
  BY LenProperties, ElementOfSeq DEF ReplayType
<1>00. \A j \in 1..Len(applied) : Applied(applied[j]) /\ applied[j] \in 1..Len(recording)
  <2> SUFFICES ASSUME NEW j \in 1..Len(applied)
               PROVE  Applied(applied[j]) /\ applied[j] \in 1..Len(recording)
    OBVIOUS
  <2>1. applied[j] \in Nat /\ Applied(applied[j])
    BY <1>0 DEF Applied
  <2>2. applied[j] \in 1..(next - 1)
    BY <2>1 DEF OnceInv
  <2> QED BY <1>0, <2>1, <2>2
<1>1. CASE Quiet \/ Finish
  <2>1. UNCHANGED <<recording, applied>> /\ InHand' = InHand
    BY <1>1, QuietStep DEF Finish, Others, InHand
  <2> QED BY <2>1 DEF OrderInv, Applied, Before, Behind
<1>2. CASE Decode \/ Flush
  <2>1. UNCHANGED <<recording, applied>> /\ InHand = {} /\ \A i : Applied(i)' <=> Applied(i)
    BY <1>2 DEF Decode, Flush, Others, InHand, Applied
  <2>2. \A i, j : Before(i, j)' <=> Before(i, j)
    BY <2>1 DEF Before, Behind
  <2>3. ASSUME NEW i \in InHand', NEW j \in 1..Len(recording), ~Applied(j)
        PROVE  Before(i, j)
    <3>1. j < next => j \in heap
      BY <1>0, <2>1, <2>3 DEF OnceInv
    <3>2. CASE Flush
      <4>1. i \in Pop(heap) /\ next > Len(recording)
        BY <2>3, <3>2 DEF Flush, InHand
      <4>2. heap \subseteq 1..(next - 1) /\ (j \in heap \/ j >= next)
        BY <1>0, <3>1 DEF ReplayType
      <4> QED BY Zenon, <1>0, <4>1, <4>2, PopOrder
    <3>3. CASE Decode
      <4> DEFINE h == heap \cup {next}
      <4>1. i \in Pop(h) /\ Cardinality(h) >= Window /\ next <= Len(recording)
        <5>1. Cardinality(h) >= Window
          BY <2>1, <2>3, <3>3 DEF Decode, InHand
        <5>2. \E k \in Pop(h) : heap' = h \ {k} /\ cur' = k /\ pc' = "handle"
          BY Zenon, <3>3, <5>1 DEF Decode
        <5> QED BY <2>3, <3>3, <5>1, <5>2 DEF InHand, Decode
      <4>2. h \subseteq 1..((next + 1) - 1) /\ (j \in h \/ j >= next + 1)
        BY <1>0, <3>1 DEF ReplayType
      <4>3. next + 1 \in Nat /\ (next + 1) - 1 <= Len(recording)
        BY <1>0, <4>1
      <4> HIDE DEF h
      <4> QED BY ZenonT(60), <4>1, <4>2, <4>3, PopOrder
    <3> QED BY <1>2, <3>2, <3>3
  <2>4. (\A j \in 1..Len(applied) : \A i \in 1..(j - 1) : Before(applied[i], applied[j]))'
    BY <2>1, <2>2 DEF OrderInv
  <2>5. (\A i, j \in 1..Len(recording) :
           (Applied(i) \/ i \in InHand) /\ ~Applied(j) => Before(i, j))'
    BY <2>1, <2>2, <2>3 DEF OrderInv
  <2> QED BY <2>4, <2>5 DEF OrderInv
<1>3. CASE Apply
  <2>1. /\ UNCHANGED recording /\ InHand = {cur} /\ InHand' = {}
        /\ applied' = Append(applied, cur)
    BY <1>3 DEF Apply, InHand
  <2>2. /\ Len(applied') = Len(applied) + 1 /\ applied'[Len(applied) + 1] = cur
        /\ \A j \in 1..Len(applied) : applied'[j] = applied[j]
    BY <1>0, <1>3, <2>1, AppendProperties DEF ReplayType, Apply
  <2>3. \A i : Applied(i)' <=> Applied(i) \/ i = cur
    BY <1>0, <2>2 DEF Applied
  <2>4. cur \in 1..Len(recording) /\ ~Applied(cur)
    BY <1>0, <1>3, <2>1 DEF OnceInv, ReplayType, Apply
  <2>5. \A i, j : Before(i, j)' <=> Before(i, j)
    BY <2>1 DEF Before, Behind
  <2>6. ASSUME NEW j \in 1..Len(applied'), NEW i \in 1..(j - 1)
        PROVE  Before(applied'[i], applied'[j])
    <3>1. CASE j = Len(applied) + 1
      <4>1. i \in 1..Len(applied) /\ applied'[i] = applied[i] /\ applied'[j] = cur
        BY <1>0, <2>2, <3>1
      <4>2. Applied(applied[i]) /\ applied[i] \in 1..Len(recording)
        BY <1>00, <4>1
      <4> QED BY <2>4, <4>1, <4>2 DEF OrderInv
    <3>2. CASE j # Len(applied) + 1
      <4>1. /\ j \in 1..Len(applied) /\ i \in 1..Len(applied)
            /\ applied'[i] = applied[i] /\ applied'[j] = applied[j]
        BY <1>0, <2>2, <3>2
      <4> QED BY <4>1 DEF OrderInv
    <3> QED BY <3>1, <3>2
  <2>7. (\A j \in 1..Len(applied) : \A i \in 1..(j - 1) : Before(applied[i], applied[j]))'
    BY <2>5, <2>6
  <2>8. (\A i, j \in 1..Len(recording) :
           (Applied(i) \/ i \in InHand) /\ ~Applied(j) => Before(i, j))'
    BY <2>1, <2>3, <2>5 DEF OrderInv
  <2> QED BY <2>7, <2>8 DEF OrderInv
<1> QED BY <1>1, <1>2, <1>3, NextCases

-----------------------------------------------------------------------------
(* The arithmetic of the time, for Enough.                                 *)
LEMMA EnoughStays ==
  ASSUME NEW w \in Nat, NEW n \in Nat, NEW m \in Nat, n <= m, NEW p \in Nat,
         NEW f \in Nat, NEW g \in Nat, f <= g, Enough(w, n, p, f)
  PROVE  Enough(w, m, p, g)
<1> DEFINE x == w + n + p \div Second
           y == w + m + p \div Second
<1>1. x \in Nat /\ y \in Nat /\ x <= y
  BY DEF Second
<1>2. x * f >= p * speedOffset
  BY DEF Enough
<1> HIDE DEF x, y
<1>3. /\ x * f <= y * f /\ y * f <= y * g
      /\ x * f \in Nat /\ y * f \in Nat /\ y * g \in Nat
  BY <1>1, Product
<1>4. speedOffset \in Nat
  BY SpeedNumbers
<1>5. p * speedOffset \in Nat
  BY <1>4, Product
<1>6. y * g >= p * speedOffset
  BY <1>2, <1>3, <1>5
<1> QED BY <1>6 DEF Enough, y

LEMMA EnoughFaster ==
  ASSUME NEW f \in Nat, NEW g \in Nat, f <= g
  PROVE  \A w, n, p \in Nat : Enough(w, n, p, f) => Enough(w, n, p, g)
<1>1. \A n \in Nat : n <= n
  OBVIOUS
<1> QED BY Zenon, <1>1, EnoughStays

LEMMA EnoughRounded ==
  ASSUME NEW f \in Nat
  PROVE  \A w, n, p \in Nat : Enough(w, n, p, f) => Enough(w, n + 1, p, f)
<1>1. \A n \in Nat : n <= n + 1 /\ n + 1 \in Nat /\ f <= f
  OBVIOUS
<1> QED BY Zenon, <1>1, EnoughStays

LEMMA EnoughBack ==
  ASSUME NEW w \in Nat, NEW n \in Nat, NEW p \in Nat, NEW r \in Nat, r < p - Second,
         NEW f \in Nat, f <= MaxSpeed, Enough(w, n, p, f)
  PROVE  Enough(w, n, r, f)
<1>1. speedOffset \in Nat /\ f <= 10 * speedOffset /\ w + n \in Nat
  BY SpeedNumbers
<1>2. ((w + n) + p \div Second) * f >= p * speedOffset
  BY DEF Enough
<1>3. ((w + n) + r \div Second) * f >= r * speedOffset
  BY <1>1, <1>2, GoBack
<1> QED BY <1>3 DEF Enough

LEMMA EnoughLate ==
  ASSUME NEW w \in Nat, NEW n \in Nat, NEW p \in Nat, NEW r \in Nat, r <= p, p <= r + Second,
         NEW f \in Nat, Enough(w, n, p, f)
  PROVE  Enough(w, n + 1, r, f)
<1>1. speedOffset \in Nat /\ w + n \in Nat /\ (w + n) + 1 = w + (n + 1)
  BY SpeedNumbers
<1>2. ((w + n) + p \div Second) * f >= p * speedOffset
  BY DEF Enough
<1>3. ((w + n) + 1 + r \div Second) * f >= r * speedOffset
  BY <1>1, <1>2, LittleLate
<1> QED BY <1>1, <1>3 DEF Enough

(* Every turn is rounded once; a turn of a second pays for it itself.      *)
LEMMA EnoughTurn ==
  ASSUME NEW w \in Nat, NEW n \in Nat, NEW p \in Nat, NEW st \in Nat,
         NEW f \in Nat, NEW sp \in Nat, sp > 0, sp <= f, Enough(w, n, p, f)
  PROVE  /\ Enough(w + (st * speedOffset) \div sp, n + 1, p + st, f)
         /\ st = Second => Enough(w + (st * speedOffset) \div sp, n, p + st, f)
<1>1. speedOffset \in Nat
  BY SpeedNumbers
<1> DEFINE a == n + p \div Second
           b == n + 1 + (p + st) \div Second
           c == n + (p + st) \div Second
           t == (st * speedOffset) \div sp
<1>2. a \in Nat /\ b \in Nat /\ c \in Nat /\ b >= a + 1 /\ (st = Second => c >= a + 1)
  BY DEF Second
<1>3. w + n + p \div Second = w + a
  <2>1. p \div Second \in Nat
    BY DEF Second
  <2> QED BY <2>1
<1>4. (w + a) * f >= p * speedOffset
  BY <1>3 DEF Enough
<1>5. t \in Nat
  <2> DEFINE x == st * speedOffset
  <2>1. x \in Nat
    BY <1>1, Product
  <2> HIDE DEF x
  <2>2. x \div sp \in Nat
    BY <2>1, Division
  <2> QED BY <2>2 DEF x
<1>6. w + t + (n + 1) + (p + st) \div Second = w + t + b
  <2>1. (p + st) \div Second \in Nat
    BY DEF Second
  <2> HIDE DEF t
  <2> QED BY <1>5, <2>1 DEF b
<1>7. w + t + n + (p + st) \div Second = w + t + c
  <2>1. (p + st) \div Second \in Nat
    BY DEF Second
  <2> HIDE DEF t
  <2> QED BY <1>5, <2>1 DEF c
<1> HIDE DEF a, b, c
<1>8. (w + t + b) * f >= (p + st) * speedOffset
  BY <1>1, <1>2, <1>4, TurnCounts
<1>9. st = Second => (w + t + c) * f >= (p + st) * speedOffset
  BY <1>1, <1>2, <1>4, TurnCounts
<1> HIDE DEF t
<1>10. Enough(w + t, n + 1, p + st, f)
  BY <1>6, <1>8, Zenon DEF Enough
<1>11. st = Second => Enough(w + t, n, p + st, f)
  BY <1>7, <1>9, Zenon DEF Enough
<1> QED BY <1>10, <1>11 DEF t

LEMMA EnoughTime ==
  ASSUME NEW w \in Nat, NEW n \in Nat, NEW p \in Nat, NEW x \in Nat,
         NEW f \in Nat, NEW sp \in Nat, sp <= f, Enough(w, n, p, f)
  PROVE  Enough(w + x, n, p + (x * sp) \div speedOffset, f)
  BY ZenonT(60), SpeedNumbers, TimeCounted DEF Enough

-----------------------------------------------------------------------------
(* What the type says of the numbers.                                      *)
LEMMA Numbers ==
  ASSUME ReplayType
  PROVE  /\ fastest \in Nat /\ speed \in Nat /\ speed > 0 /\ speed <= fastest
         /\ fastest <= MaxSpeed
         /\ dur \in Nat /\ d \in Nat /\ wall \in Nat /\ Len(applied) \in Nat
         /\ InHand # {} => cur \in 1..Len(recording) /\ recording[cur] \in Nat
<1>1. speed \in Nat /\ speed > 0 /\ fastest \in Nat /\ speed <= fastest /\ fastest <= MaxSpeed
  BY SpeedNumbers DEF ReplayType
<1>2. Len(recording) \in Nat /\ Len(applied) \in Nat
  BY LenProperties DEF ReplayType
<1>3. InHand # {} => cur \in 1..Len(recording)
  BY <1>2 DEF ReplayType, InHand
<1>4. InHand # {} => recording[cur] \in Nat
  BY <1>3, ElementOfSeq DEF ReplayType
<1> QED BY <1>1, <1>2, <1>3, <1>4 DEF ReplayType

LEMMA PaceStep ==
  ASSUME ReplayType, PaceInv, [Next]_vars
  PROVE  PaceInv'
<1> USE Numbers
<1>1. CASE PressSpeed \/ StoreSpeed \/ Pause \/ Continue \/ Cancel \/ Slow \/ UNCHANGED vars
  <2>1. /\ UNCHANGED <<recording, cur, dur, d, applied, wall>>
        /\ (pc' = pc \/ (pc = "slow" /\ pc' = "wait"))
    BY <1>1 DEF PressSpeed, StoreSpeed, Pause, Continue, Cancel, Slow, replayer, vars
  <2>2. fastest' \in Nat /\ fastest' >= fastest
    <3>1. CASE StoreSpeed
      <4>1. NoteSpeed /\ speed' \in 1..MaxSpeed
        BY <3>1, SpeedsBounded DEF StoreSpeed, ReplayType
      <4> QED BY <4>1, Noted
    <3>2. CASE UNCHANGED fastest
      BY <3>2
    <3>3. CASE Slow
      <4>1. NoteSpeed /\ speed' \in 1..MaxSpeed
        BY <3>3, SpeedsBounded DEF Slow, ReplayType
      <4> QED BY <4>1, Noted
    <3> QED BY <1>1, <3>1, <3>2, <3>3 DEF PressSpeed, Pause, Continue, Cancel, vars
  <2>3. \A w, n, p \in Nat : Enough(w, n, p, fastest) => Enough(w, n, p, fastest')
    BY <2>2, EnoughFaster
  <2>4. pc = "wait" /\ d > 0 => dur - d \in Nat
    BY DEF PaceInv
  <2>5. Len(applied) + 1 \in Nat /\ (pc \in {"slow", "wait", "apply"} => recording[cur] \in Nat)
    BY DEF InHand
  <2>6. pc = "applied" => wall - d \in Nat
    BY DEF PaceInv
  <2> QED BY <2>1, <2>3, <2>4, <2>5, <2>6 DEF PaceInv
<1>2. CASE Decode \/ DecodeFails \/ Flush \/ Finish
  <2>1. /\ UNCHANGED <<dur, applied, wall, fastest>> /\ pc = "read"
        /\ pc' \in {"read", "handle", "done", "failed"}
    BY <1>2 DEF Decode, DecodeFails, Flush, Finish, Others
  <2> QED BY <2>1 DEF PaceInv
<1>3. CASE Measure
  <2> DEFINE n == Len(applied)
             r == recording[cur]
  <2>1. /\ pc = "handle" /\ pc' \in {"slow", "wait"}
        /\ UNCHANGED <<recording, cur, applied, wall, fastest>>
        /\ r \in Nat /\ n \in Nat /\ Enough(wall, n, dur, fastest)
    BY <1>3 DEF Measure, PaceInv, InHand
  <2>2. Second = 1000
    BY DEF Second
  <2>3. CASE r > dur
    <3>1. d' = r - dur /\ dur' = r /\ pc' = "wait"
      BY <1>3, <2>1, <2>2, <2>3 DEF Measure
    <3>2. d' > 0 /\ d' <= dur' /\ dur' - d' = dur
      BY <2>1, <2>3, <3>1
    <3> QED BY <2>1, <3>1, <3>2 DEF PaceInv
  <2>4. CASE ~(r > dur)
    <3>1. d' = 0 /\ (dur' = r \/ dur' = dur)
      BY <1>3, <2>1, <2>4 DEF Measure
    <3>2. Enough(wall, n + 1, dur, fastest)
      BY <2>1, EnoughRounded
    <3>3. Enough(wall, n + 1, r, fastest)
      <4>1. CASE r < dur - Second
        <5>1. Enough(wall, n, r, fastest)
          BY <2>1, <4>1, EnoughBack
        <5> QED BY <2>1, <5>1, EnoughRounded
      <4>2. CASE ~(r < dur - Second)
        <5>1. r <= dur /\ dur <= r + Second
          BY <2>1, <2>2, <2>4, <4>2
        <5> QED BY <2>1, <5>1, EnoughLate
      <4> QED BY <4>1, <4>2
    <3> QED BY <2>1, <3>1, <3>2, <3>3 DEF PaceInv
  <2> QED BY <2>3, <2>4
<1>4. CASE Sleep
  <2> DEFINE n == Len(applied)
             st == Min({d, Second})
  <2>1. /\ pc = "wait" /\ pc' = "wait" /\ d > 0
        /\ UNCHANGED <<recording, cur, dur, applied, fastest>>
        /\ d' = d - st /\ wall' = wall + (st * speedOffset) \div speed
    BY <1>4 DEF Sleep, Others
  <2>2. st = IF d <= Second THEN d ELSE Second
    <3>1. Second \in Int
      BY DEF Second
    <3> QED BY <3>1, MinOfTwo
  <2>3. Second = 1000
    BY DEF Second
  <2>4. /\ dur = recording[cur] /\ d <= dur /\ dur - d \in Nat
        /\ Enough(wall, n, dur - d, fastest)
    BY <2>1 DEF PaceInv
  <2> HIDE DEF st
  <2>5. st \in Nat /\ st <= d
    BY <2>2, <2>3
  <2>6. /\ Enough(wall', n + 1, (dur - d) + st, fastest)
        /\ st = Second => Enough(wall', n, (dur - d) + st, fastest)
    BY ZenonT(60), <2>1, <2>4, <2>5, EnoughTurn
  <2>7. (dur - d) + st = dur - d'
    BY <2>1, <2>5
  <2>8. CASE d' > 0
    <3>1. st = Second /\ d' <= dur
      BY <2>1, <2>2, <2>4, <2>5, <2>8
    <3> QED BY <2>1, <2>4, <2>6, <2>7, <2>8, <3>1 DEF PaceInv
  <2>9. CASE d' = 0
    <3>1. dur - d' = dur
      BY <2>9
    <3> QED BY <2>1, <2>4, <2>6, <2>7, <2>9, <3>1 DEF PaceInv
  <2> QED BY <2>1, <2>5, <2>8, <2>9
<1>5. CASE Awake
  BY <1>5 DEF Awake, Others, PaceInv
<1>6. CASE Apply
  <2>1. /\ pc = "apply" /\ pc' = "applied" /\ UNCHANGED <<dur, fastest>>
        /\ applied' = Append(applied, cur)
    BY <1>6 DEF Apply
  <2>2. PICK past \in Delays : wall' = wall + past /\ d' = past
    BY <1>6 DEF Apply
  <2>3. past \in Nat
    BY ReplayAssumption
  <2>4. Len(applied') = Len(applied) + 1
    BY <2>1, AppendProperties DEF ReplayType, InHand
  <2>5. wall' - d' = wall /\ d' <= wall'
    BY <2>2, <2>3
  <2> QED BY <2>1, <2>4, <2>5 DEF PaceInv
<1>7. CASE Account
  <2>1. /\ pc = "applied" /\ pc' = "read" /\ UNCHANGED <<applied, wall, fastest>>
        /\ dur' = dur + (d * speed) \div speedOffset
    BY <1>7 DEF Account, Others
  <2>2. wall - d \in Nat /\ (wall - d) + d = wall /\ Enough(wall - d, Len(applied), dur, fastest)
    BY <2>1 DEF PaceInv
  <2>3. Enough((wall - d) + d, Len(applied), dur', fastest)
    BY <2>1, <2>2, EnoughTime
  <2> QED BY <2>1, <2>2, <2>3 DEF PaceInv
<1> QED BY <1>1, <1>2, <1>3, <1>4, <1>5, <1>6, <1>7 DEF Next

LEMMA PauseStep ==
  ASSUME ReplayType, PauseInv, [Next]_vars
  PROVE  PauseInv'
<1>0. idle \in Nat /\ pause \in BOOLEAN /\ cancelled \in BOOLEAN
  BY DEF ReplayType
<1>1. CASE PressSpeed    BY <1>0, <1>1 DEF PressSpeed, replayer, PauseInv, InHand
<1>2. CASE StoreSpeed    BY <1>0, <1>2 DEF StoreSpeed, replayer, PauseInv, InHand
<1>3. CASE Pause         BY <1>0, <1>3 DEF Pause, PauseInv
<1>4. CASE Continue      BY <1>4 DEF Continue, PauseInv
<1>5. CASE Cancel        BY <1>0, <1>5 DEF Cancel, replayer, PauseInv, InHand
<1>6. CASE Decode        BY <1>0, <1>6 DEF Decode, Others, PauseInv, InHand
<1>7. CASE Flush         BY <1>0, <1>7 DEF Flush, Others, PauseInv, InHand
<1>8. CASE Finish        BY <1>0, <1>8 DEF Finish, Others, PauseInv, InHand
<1>9. CASE Measure       BY <1>0, <1>9 DEF Measure, PauseInv, InHand
<1>10. CASE Sleep        BY <1>0, <1>10 DEF Sleep, Others, PauseInv, InHand
<1>11. CASE Awake        BY <1>0, <1>11 DEF Awake, handlePause, Others, PauseInv, InHand
<1>12. CASE Apply        BY <1>0, <1>12 DEF Apply, PauseInv, InHand
<1>13. CASE Account      BY <1>0, <1>13 DEF Account, Others, PauseInv, InHand
<1>14. CASE UNCHANGED vars  BY <1>14 DEF vars, PauseInv, InHand
<1>15. CASE Slow         BY <1>0, <1>15 DEF Slow, PauseInv, InHand
<1>16. CASE DecodeFails  BY <1>0, <1>16 DEF DecodeFails, Others, PauseInv, InHand
<1> QED BY <1>1, <1>2, <1>3, <1>4, <1>5, <1>6, <1>7, <1>8, <1>9, <1>10, <1>11, <1>12,
           <1>13, <1>14, <1>15, <1>16 DEF Next

-----------------------------------------------------------------------------
(* A recording has a last time.                                            *)
Last(k, i) == i \in 1..k /\ \A j \in 1..k : recording[j] <= recording[i]

LEMMA LastTime ==
  ASSUME ReplayType, NEW c \in 1..Len(recording)
  PROVE  Max(Range(recording)) \in Nat /\ recording[c] <= Max(Range(recording))
<1> DEFINE N == Len(recording)
           S == {k \in 1..N : ~ \E i \in 1..k : Last(k, i)}
<1>1. N \in Nat /\ N >= 1 /\ DOMAIN recording = 1..N /\ \A k \in 1..N : recording[k] \in Nat
  BY LenProperties, ElementOfSeq DEF ReplayType
<1>2. S = {}
  <2> SUFFICES ASSUME S # {} PROVE FALSE
    OBVIOUS
  <2>1. S \in SUBSET Nat
    BY <1>1
  <2>2. PICK m \in S : \A k \in S : <<k, m>> \notin OpToRel(<, Nat)
    BY Zenon, <2>1, NatLessThanWellFounded, WFMin
  <2>3. \A k \in S : ~(k < m)
    <3> SUFFICES ASSUME NEW k \in S PROVE ~(k < m)
      OBVIOUS
    <3>1. ~(<<k, m>> \in Nat \X Nat /\ <<k, m>>[1] < <<k, m>>[2])
      BY <2>2 DEF OpToRel
    <3>2. k \in Nat /\ m \in Nat
      BY <2>1
    <3> QED BY <3>1, <3>2
  <2>4. m \in 1..N /\ ~ \E i \in 1..m : Last(m, i)
    OBVIOUS
  <2>5. CASE m = 1
    BY <1>1, <2>4, <2>5 DEF Last
  <2>6. CASE m > 1
    <3>1. m - 1 \in 1..N /\ m - 1 < m
      BY <1>1, <2>4, <2>6
    <3>2. PICK i \in 1..(m - 1) : Last(m - 1, i)
      BY <2>3, <3>1
    <3> HIDE DEF S
    <3>3. \A j \in 1..m : recording[j] \in Nat
      BY <1>1, <2>4
    <3>4. i \in 1..m /\ m \in 1..m /\ \A j \in 1..m : j = m \/ j \in 1..(m - 1)
      BY <2>4, <2>6
    <3>5. CASE recording[i] >= recording[m]
      BY Zenon, <2>4, <3>2, <3>3, <3>4, <3>5 DEF Last
    <3>6. CASE recording[i] < recording[m]
      <4>1. \A j \in 1..m : recording[j] <= recording[m]
        BY <3>2, <3>3, <3>4, <3>6 DEF Last
      <4> QED BY <2>4, <3>4, <4>1 DEF Last
    <3> QED BY <3>3, <3>4, <3>5, <3>6
  <2> QED BY <2>4, <2>5, <2>6
<1>3. PICK i \in 1..N : Last(N, i)
  <2>1. N \in 1..N /\ N \notin S
    BY <1>1, <1>2
  <2> QED BY <2>1
<1>4. recording[i] \in Range(recording) /\ \A y \in Range(recording) : recording[i] >= y
  BY <1>1, <1>3 DEF Range, Last
<1>5. /\ Max(Range(recording)) \in Range(recording)
      /\ \A y \in Range(recording) : Max(Range(recording)) >= y
  BY Zenon, <1>4 DEF Max
<1>6. recording[c] \in Range(recording) /\ \A y \in Range(recording) : y \in Nat
  BY <1>1 DEF Range
<1> QED BY <1>1, <1>5, <1>6

LEMMA UpTo ==
  ASSUME NEW n \in Nat
  PROVE  IsFiniteSet(1..n) /\ Cardinality(1..n) = n
<1>1. 1 \in Int /\ n \in Int
  OBVIOUS
<1>2. IsFiniteSet(1..n) /\ Cardinality(1..n) = IF 1 > n THEN 0 ELSE n - 1 + 1
  BY Zenon, <1>1, FS_Interval
<1>3. (IF 1 > n THEN 0 ELSE n - 1 + 1) = n
  OBVIOUS
<1> QED BY <1>2, <1>3

(* Not more patches are applied than there are; with one in hand, fewer.   *)
LEMMA AppliedCount ==
  ASSUME ReplayType, OnceInv
  PROVE  /\ InHand # {} => Len(applied) + 1 <= Len(recording)
         /\ next > Len(recording) /\ heap = {} /\ InHand = {} =>
              Len(applied) = Len(recording) /\ Range(applied) = DOMAIN recording
<1> DEFINE N == Len(recording)
           A == Len(applied)
           T == (1..N) \ InHand
<1>1. /\ N \in Nat /\ A \in Nat /\ next - 1 <= N /\ next \in Nat
      /\ DOMAIN recording = 1..N /\ DOMAIN applied = 1..A /\ applied \in [1..A -> Nat]
  BY LenProperties DEF ReplayType
<1>2. \A j \in 1..A : applied[j] \in T
  <2> SUFFICES ASSUME NEW j \in 1..A PROVE applied[j] \in T
    OBVIOUS
  <2>1. applied[j] \in Nat /\ Applied(applied[j])
    BY <1>1 DEF Applied
  <2>2. applied[j] \in 1..(next - 1) /\ applied[j] \notin InHand
    BY <2>1 DEF OnceInv
  <2> QED BY <1>1, <2>2
<1>3. applied \in Injection(1..A, T)
  BY <1>1, <1>2 DEF Injection, IsInjective, OnceInv
<1>4. /\ IsFiniteSet(1..N) /\ Cardinality(1..N) = N
      /\ IsFiniteSet(1..A) /\ Cardinality(1..A) = A
  BY <1>1, UpTo
<1>5. IsFiniteSet(T)
  <2>1. T \subseteq 1..N
    OBVIOUS
  <2> QED BY <1>4, <2>1, FS_Subset
<1>6. A <= Cardinality(T) /\ (A = Cardinality(T) <=> applied \in Surjection(1..A, T))
  BY <1>3, <1>4, <1>5, FS_Injection
<1>7. CASE InHand # {}
  <2>1. InHand = {cur} /\ cur \in 1..N
    BY <1>7, Numbers DEF InHand
  <2>2. Cardinality(T) = N - 1
    BY ZenonT(60), <1>4, <2>1, FS_RemoveElement
  <2> HIDE DEF N, A, T
  <2>3. A + 1 <= N
    BY <1>1, <1>6, <2>2
  <2> QED BY <1>7, <2>3 DEF N, A
<1>8. CASE next > N /\ heap = {} /\ InHand = {}
  <2>1. T = 1..N /\ next - 1 = N
    BY <1>1, <1>8
  <2>2. \A t \in T : \E j \in 1..A : applied[j] = t
    BY <1>8, <2>1 DEF OnceInv, Applied
  <2>3. applied \in Surjection(1..A, T)
    BY <1>3, <2>2 DEF Surjection, Injection
  <2>4. Range(applied) = 1..N
    BY Zenon, <1>1, <1>2, <2>1, <2>2 DEF Range
  <2> QED BY Zenon, <1>1, <1>4, <1>6, <1>8, <2>1, <2>3, <2>4
<1> QED BY <1>7, <1>8

-----------------------------------------------------------------------------
ReplayInv == ReplayType /\ OnceInv /\ OrderInv /\ PaceInv /\ PauseInv

LEMMA ReplayInvInit == Init => ReplayInv
<1> SUFFICES ASSUME Init PROVE ReplayInv
  OBVIOUS
<1>1. ReplayType
  BY InitType
<1>2. /\ applied = <<>> /\ InHand = {} /\ next = 1 /\ pc = "read" /\ wall = 0 /\ dur = 0
      /\ pause = FALSE
  BY DEF Init, InHand
<1>3. Len(applied) = 0 /\ \A i : ~Applied(i)
  BY <1>2 DEF Applied
<1>4. OnceInv
  BY <1>2, <1>3 DEF OnceInv
<1>5. OrderInv
  BY <1>2, <1>3 DEF OrderInv
<1>6. Enough(0, 0, 0, fastest)
  <2>1. fastest \in Nat /\ speedOffset \in Nat
    BY <1>1, Numbers, SpeedNumbers
  <2>2. 0 \div Second = 0
    BY DEF Second
  <2> QED BY <2>1, <2>2 DEF Enough
<1>7. PaceInv
  BY <1>2, <1>3, <1>6 DEF PaceInv
<1>8. PauseInv
  BY <1>2 DEF PauseInv
<1> QED BY <1>1, <1>4, <1>5, <1>7, <1>8 DEF ReplayInv

(* The inductive invariant holds: what is decoded is in the heap, in hand  *)
(* or applied, once; what is applied goes before no earlier patch that is  *)
(* not late; and the time that has passed is enough for what was waited.   *)
THEOREM ReplayKeepsItsPlaces == Spec => []ReplayInv
<1>1. ReplayInv /\ [Next]_vars => ReplayInv'
  BY TypeStep, OnceStep, OrderStep, PaceStep, PauseStep DEF ReplayInv
<1> QED BY <1>1, ReplayInvInit, PTL DEF Spec

(* Replay restores the order of every recording, and an uninterrupted one  *)
(* applies each patch once, whatever the size of its heap.                 *)
THEOREM OrderIsRestored == Spec => []OrderRestored
<1>1. ReplayInv => OrderRestored
  <2> SUFFICES ASSUME ReplayInv PROVE OrderRestored
    OBVIOUS
  <2>1. \A j \in 1..Len(applied) : \A i \in 1..(j - 1) :
          recording[applied[i]] > recording[applied[j]] =>
            Cardinality({k \in 1..(applied[j] - 1) :
                           recording[k] > recording[applied[j]]}) >= Window
    BY DEF ReplayInv, OrderInv, Before, Behind
  <2>2. pc = "done" /\ ~cancelled => next > Len(recording) /\ heap = {} /\ InHand = {}
    BY DEF ReplayInv, OnceInv, InHand
  <2> QED BY <2>1, <2>2, AppliedCount DEF ReplayInv, OrderRestored
<1> QED BY <1>1, ReplayKeepsItsPlaces, PTL

(* No patch is applied before its time, and a paused replay stands still,  *)
(* for every recording and however long the patches take.                  *)
THEOREM PaceIsKept == Spec => []Paced
<1>1. ReplayInv => Paced
  <2> SUFFICES ASSUME ReplayInv PROVE Paced
    OBVIOUS
  <2> DEFINE M == Max(Range(recording))
             r == recording[cur]
             x == wall + (Len(applied) + 1) + r \div Second
             y == wall + Len(recording) + M \div Second
  <2>0. Len(recording) \in Nat
    BY LenProperties DEF ReplayInv, ReplayType
  <2>1. ASSUME pc = "apply" PROVE y * fastest >= r * speedOffset
    <3>1. InHand # {} /\ Enough(wall, Len(applied) + 1, r, fastest)
      BY <2>1 DEF ReplayInv, PaceInv, InHand
    <3>2. /\ cur \in 1..Len(recording) /\ r \in Nat /\ fastest \in Nat /\ wall \in Nat
          /\ Len(applied) \in Nat
      BY <3>1, Numbers DEF ReplayInv
    <3>3. Len(applied) + 1 <= Len(recording)
      BY <3>1, AppliedCount DEF ReplayInv
    <3>4. M \in Nat /\ r <= M
      BY <3>2, LastTime DEF ReplayInv
    <3> HIDE DEF M
    <3>5. r \div Second \in Nat /\ M \div Second \in Nat /\ r \div Second <= M \div Second
      BY <3>2, <3>4, DivisionGrows DEF Second
    <3>6. x \in Nat /\ y \in Nat /\ x <= y
      BY <2>0, <3>2, <3>3, <3>5
    <3>7. x * fastest >= r * speedOffset
      BY <3>1 DEF Enough
    <3>8. speedOffset \in Nat
      BY SpeedNumbers
    <3> HIDE DEF x, y
    <3>9. x * fastest <= y * fastest /\ x * fastest \in Nat /\ y * fastest \in Nat
      BY <3>2, <3>6, Product
    <3>10. r * speedOffset \in Nat
      BY <3>2, <3>8, Product
    <3> HIDE DEF r
    <3> QED BY <3>7, <3>9, <3>10
  <2>2. pause => idle <= IF cancelled THEN 2 ELSE 1
    BY DEF ReplayInv, PauseInv
  <2> QED BY <2>1, <2>2 DEF Paced
<1> QED BY <1>1, ReplayKeepsItsPlaces, PTL
=============================================================================
