---------------------------- MODULE BackoffProofs ----------------------------
(***************************************************************************)
(* Machine-checked proofs about Backoff, for every configuration: that the *)
(* powers of the multiplier are what they should be, and that the delays   *)
(* are the ones of the attempts since the last Reset.  What SenderProofs   *)
(* needs to prove that delays are bounded and grow.                        *)
(***************************************************************************)
EXTENDS Backoff, WellFoundedInduction, SequenceTheorems, TLAPS

-----------------------------------------------------------------------------
(* Induction over the natural numbers: a set that has 0, and the successor *)
(* of each member, has them all.                                           *)
LEMMA SetInduction ==
  ASSUME NEW S, 0 \in S, \A n \in Nat : n \in S => n + 1 \in S
  PROVE  Nat \subseteq S
<1> SUFFICES ASSUME Nat \ S # {} PROVE FALSE
  OBVIOUS
<1> DEFINE T == Nat \ S
           R == {ss \in Nat \X Nat : ss[1] < ss[2]}
<1>1. IsWellFoundedOn(R, Nat)
  BY NatLessThanWellFounded DEF OpToRel
<1> HIDE DEF R
<1>5. PICK x \in T : \A y \in T : ~(<<y, x>> \in R)
  BY <1>1, WFMin, Zenon
<1>2. \A y \in T : ~(y < x)
  BY <1>5 DEF R
<1>3. x # 0 /\ x - 1 \in Nat /\ x - 1 < x
  OBVIOUS
<1>4. x - 1 \in S
  BY <1>2, <1>3
<1> QED
  BY <1>3, <1>4

-----------------------------------------------------------------------------
(* math.Pow.  There is a table of the powers up to any n, and two tables   *)
(* agree; so the recursive definition defines a function.                  *)
Table(g, n) ==
    /\ g \in [0 .. n -> Nat] /\ g[0] = 1
    /\ \A i \in 1 .. n : g[i] = Multiplier * g[i - 1]

LEMMA Tables == \A n \in Nat : \E g : Table(g, n)
<1> DEFINE S == {n \in Nat : \E g : Table(g, n)}
<1>1. 0 \in S
  <2> DEFINE g == [i \in 0 .. 0 |-> 1]
  <2>1. Table(g, 0)
    BY DEF Table
  <2> QED
    BY <2>1
<1>2. ASSUME NEW n \in Nat, n \in S PROVE n + 1 \in S
  <2>1. PICK g : Table(g, n)
    BY <1>2
  <2> DEFINE h == [i \in 0 .. n + 1 |-> IF i = n + 1 THEN Multiplier * g[n] ELSE g[i]]
  <2>2. /\ \A i \in 0 .. n : h[i] = g[i] /\ g[i] \in Nat
        /\ h[n + 1] = Multiplier * g[n] /\ Multiplier * g[n] \in Nat
    BY <2>1, DelayAssumption DEF Table
  <2>3. h \in [0 .. n + 1 -> Nat]
    <3>1. ASSUME NEW i \in 0 .. n + 1 PROVE h[i] \in Nat
      <4>1. i = n + 1 \/ i \in 0 .. n
        OBVIOUS
      <4> HIDE DEF h
      <4> QED
        BY <2>2, <4>1
    <3> QED
      BY <3>1
  <2>4. h[0] = 1
    BY <2>1, <2>2 DEF Table
  <2>5. ASSUME NEW i \in 1 .. n + 1 PROVE h[i] = Multiplier * h[i - 1]
    <3>1. CASE i = n + 1
      BY <2>2, <3>1
    <3>2. CASE i \in 1 .. n
      <4>1. h[i] = g[i] /\ h[i - 1] = g[i - 1]
        BY <2>2, <3>2
      <4> QED
        BY <2>1, <3>2, <4>1 DEF Table
    <3> QED
      BY <3>1, <3>2
  <2> HIDE DEF h
  <2>6. Table(h, n + 1)
    BY <2>3, <2>4, <2>5 DEF Table
  <2> QED
    BY <2>6
<1> HIDE DEF S
<1>3. Nat \subseteq S
  BY <1>1, <1>2, SetInduction
<1> QED
  BY <1>3 DEF S

LEMMA TablesAgree ==
  ASSUME NEW m \in Nat, NEW n \in Nat, NEW g, NEW h, Table(g, m), Table(h, n)
  PROVE  \A i \in Nat : i <= m /\ i <= n => g[i] = h[i]
<1> DEFINE S == {i \in Nat : i <= m /\ i <= n => g[i] = h[i]}
<1>1. 0 \in S
  BY DEF Table
<1>2. ASSUME NEW i \in Nat, i \in S PROVE i + 1 \in S
  <2> SUFFICES ASSUME i + 1 <= m, i + 1 <= n PROVE g[i + 1] = h[i + 1]
    OBVIOUS
  <2>1. g[i] = h[i]
    BY <1>2
  <2>2. g[i + 1] = Multiplier * g[(i + 1) - 1] /\ h[i + 1] = Multiplier * h[(i + 1) - 1]
    BY DEF Table
  <2> QED
    BY <2>1, <2>2
<1> HIDE DEF S
<1>3. Nat \subseteq S
  BY <1>1, <1>2, SetInduction
<1> QED
  BY <1>3 DEF S

LEMMA Powers ==
  /\ Power \in [Nat -> Nat] /\ Power[0] = 1
  /\ \A n \in Nat : Power[n + 1] = Multiplier * Power[n]
<1> DEFINE tab(n) == CHOOSE g : Table(g, n)
           p == [n \in Nat |-> tab(n)[n]]
<1>1. \A n \in Nat : Table(tab(n), n)
  BY Tables
<1> HIDE DEF tab
<1>2. p \in [Nat -> Nat]
  BY <1>1 DEF Table
<1>3. p[0] = 1
  BY <1>1 DEF Table
<1>4. ASSUME NEW n \in Nat, n # 0 PROVE p[n] = Multiplier * p[n - 1]
  <2>1. Table(tab(n), n) /\ Table(tab(n - 1), n - 1) /\ n - 1 \in Nat
    BY <1>1, <1>4
  <2>2. tab(n)[n] = Multiplier * tab(n)[n - 1]
    BY <1>4, <2>1 DEF Table
  <2>3. tab(n)[n - 1] = tab(n - 1)[n - 1]
    BY <1>4, <2>1, TablesAgree
  <2> QED
    BY <2>1, <2>2, <2>3
<1> HIDE DEF p
<1>5. p = [n \in Nat |-> IF n = 0 THEN 1 ELSE Multiplier * p[n - 1]]
  BY <1>2, <1>3, <1>4
<1>6. Power = [n \in Nat |-> IF n = 0 THEN 1 ELSE Multiplier * Power[n - 1]]
  BY <1>5 DEF Power
<1> DEFINE S == {n \in Nat : Power[n] \in Nat}
<1>7. 0 \in S /\ \A n \in Nat : n \in S => n + 1 \in S
  BY <1>6, DelayAssumption
<1> HIDE DEF S
<1>8. Nat \subseteq S
  BY <1>7, SetInduction
<1>9. Power \in [Nat -> Nat]
  BY <1>6, <1>8 DEF S
<1>10. \A n \in Nat : Power[n + 1] = Multiplier * Power[n]
  BY <1>6
<1> QED
  BY <1>6, <1>9, <1>10

-----------------------------------------------------------------------------
(* The delay of each attempt is the one computed from its number.          *)
BackoffInv ==
    /\ attempts \in Nat /\ delays \in Seq(Nat) /\ Len(delays) = attempts
    /\ \A i \in 1 .. attempts : delays[i] \in Jittered(BaseDelay(i - 1))

(* A jittered delay.                                                       *)
LEMMA BaseDelays ==
  ASSUME NEW n \in Nat
  PROVE  /\ Power[n] \in Nat \ {0}
         /\ InitialDelay * Power[n] \in Nat \ {0}
         /\ BaseDelay(n) \in Nat /\ BaseDelay(n) <= MaxDelay
         /\ InitialDelay * Power[n] <= MaxDelay => BaseDelay(n) = InitialDelay * Power[n]
<1> DEFINE S == {k \in Nat : Power[k] > 0}
<1>1. 0 \in S
  BY Powers
<1>2. ASSUME NEW k \in Nat, k \in S PROVE k + 1 \in S
  <2>1. Power[k] \in Nat /\ Power[k] > 0 /\ Power[k + 1] = Multiplier * Power[k]
    BY <1>2, Powers
  <2> QED
    BY <2>1, DelayAssumption
<1> HIDE DEF S
<1>3. Nat \subseteq S
  BY <1>1, <1>2, SetInduction
<1>4. Power[n] \in Nat \ {0}
  BY <1>3, Powers DEF S
<1>5. InitialDelay * Power[n] \in Nat \ {0}
  BY <1>4, DelayAssumption
<1> QED
  BY <1>4, <1>5, DelayAssumption DEF BaseDelay, Capped

LEMMA JitteredDelays ==
  ASSUME NEW d \in Nat, NEW e \in Jittered(d)
  PROVE  /\ e \in Nat
         /\ 100 * e <= d * (100 + BackoffJitter)
         /\ d * (100 - BackoffJitter) < 100 * e + 100
<1>1. PICK j \in {-BackoffJitter, 0, BackoffJitter} : e = (d * (100 + j)) \div 100
  BY DEF Jittered
<1>2. /\ BackoffJitter \in Nat /\ BackoffJitter <= 100
      /\ j \in Int /\ -BackoffJitter <= j /\ j <= BackoffJitter
  BY <1>1, BackoffAssumption
<1> DEFINE p == d * (100 + j)
<1>3. p \in Nat /\ d * (100 - BackoffJitter) <= p /\ p <= d * (100 + BackoffJitter)
  <2>1. \A k \in Nat : d * k \in Nat
    OBVIOUS
  <2>2. /\ 100 + j \in Nat /\ j + BackoffJitter \in Nat /\ BackoffJitter - j \in Nat
    BY <1>2
  <2>3. /\ d * (100 + j) \in Nat /\ d * (j + BackoffJitter) \in Nat
        /\ d * (BackoffJitter - j) \in Nat
    BY <2>1, <2>2
  <2>4. /\ d * (100 + j) = d * (100 - BackoffJitter) + d * (j + BackoffJitter)
        /\ d * (100 + BackoffJitter) = d * (100 + j) + d * (BackoffJitter - j)
        /\ d * (100 - BackoffJitter) \in Int /\ d * (100 + BackoffJitter) \in Int
    BY <1>2
  <2> QED
    BY <2>3, <2>4
<1>4. e = p \div 100
  BY <1>1
<1> HIDE DEF p
<1>5. e \in Nat /\ 100 * e <= p /\ p < 100 * e + 100
  BY <1>3, <1>4
<1>6. d * (100 - BackoffJitter) \in Int /\ d * (100 + BackoffJitter) \in Int
  BY <1>2
<1> QED
  BY <1>3, <1>5, <1>6

LEMMA NewBackoffInv ==
  ASSUME NewBackoff
  PROVE  BackoffInv
<1>1. <<>> \in Seq(Nat) /\ Len(<<>>) = 0
  BY EmptySeq
<1> QED
  BY <1>1 DEF NewBackoff, BackoffInv

LEMMA ResetInv ==
  ASSUME Reset
  PROVE  BackoffInv'
<1>1. <<>> \in Seq(Nat) /\ Len(<<>>) = 0
  BY EmptySeq
<1> QED
  BY <1>1 DEF Reset, BackoffInv

LEMMA NextDelayInv ==
  ASSUME BackoffInv, NextDelay
  PROVE  BackoffInv'
<1>1. CASE UNCHANGED backoff
  BY <1>1 DEF BackoffInv, backoff
<1>2. CASE \E d \in Jittered(BaseDelay(attempts)) : delays' = Append(delays, d) /\ attempts' = attempts + 1
  <2>1. PICK d \in Jittered(BaseDelay(attempts)) :
          delays' = Append(delays, d) /\ attempts' = attempts + 1
    BY <1>2
  <2>2. attempts \in Nat /\ delays \in Seq(Nat) /\ Len(delays) = attempts
    BY DEF BackoffInv
  <2>3. d \in Nat
    BY <2>2, BaseDelays, JitteredDelays
  <2>4. /\ delays' \in Seq(Nat) /\ Len(delays') = attempts + 1
        /\ \A i \in 1 .. attempts : delays'[i] = delays[i]
        /\ delays'[attempts + 1] = d
    BY <2>1, <2>2, <2>3, AppendProperties
  <2>5. ASSUME NEW i \in 1 .. attempts' PROVE delays'[i] \in Jittered(BaseDelay(i - 1))
    <3>1. CASE i = attempts + 1
      BY <2>2, <2>4, <3>1
    <3>2. CASE i \in 1 .. attempts
      BY <2>4, <3>2 DEF BackoffInv
    <3> QED
      BY <2>1, <2>2, <3>1, <3>2
  <2> QED
    BY <2>1, <2>2, <2>4, <2>5 DEF BackoffInv, Jittered, BaseDelay, Capped
<1> QED
  BY <1>1, <1>2 DEF NextDelay

(* The cap with jitter.                                                    *)
LEMMA BoundFollows == BackoffInv => DelayBounded
<1> SUFFICES ASSUME BackoffInv, NEW i \in DOMAIN delays
             PROVE  100 * delays[i] <= (100 + BackoffJitter) * MaxDelay
  BY DEF DelayBounded
<1>1. i \in 1 .. attempts /\ attempts \in Nat
  BY LenProperties DEF BackoffInv
<1>2. delays[i] \in Jittered(BaseDelay(i - 1)) /\ i - 1 \in Nat
  BY <1>1 DEF BackoffInv
<1> DEFINE d == BaseDelay(i - 1)
           k == 100 + BackoffJitter
<1>3. d \in Nat /\ d <= MaxDelay /\ k \in Nat /\ MaxDelay \in Nat
  BY <1>2, BaseDelays, BackoffAssumption, DelayAssumption
<1>4. delays[i] \in Nat /\ 100 * delays[i] <= d * k
  BY <1>2, <1>3, JitteredDelays
<1> HIDE DEF d, k
<1>5. d * k <= k * MaxDelay /\ d * k \in Nat /\ k * MaxDelay \in Nat
  <2>1. MaxDelay - d \in Nat /\ k * (MaxDelay - d) \in Nat /\ d * k \in Nat
    BY <1>3
  <2>2. k * MaxDelay = d * k + k * (MaxDelay - d)
    BY <1>3
  <2> QED
    BY <1>3, <2>1, <2>2
<1> QED
  BY <1>4, <1>5 DEF k

(* Growth needs a multiplier that outweighs the jitter: the smallest delay *)
(* that an attempt can have is by one unit more than the largest of the    *)
(* attempt before, as it is with the defaults, a factor of 2 and 20%.      *)
Outweighs == InitialDelay * (Multiplier * (100 - BackoffJitter) - (100 + BackoffJitter)) >= 100

(* Products.                                                               *)
LEMMA ProductGrows == \A x, y \in Nat \ {0} : y * x \in Nat \ {0} /\ x <= y * x
<1> SUFFICES ASSUME NEW x \in Nat \ {0}, NEW y \in Nat \ {0}
             PROVE  y * x \in Nat \ {0} /\ x <= y * x
  OBVIOUS
<1>1. (y - 1) * x \in Nat /\ y * x = (y - 1) * x + x
  OBVIOUS
<1> QED
  BY <1>1

LEMMA ProductMonotone == \A x, y \in Int, z \in Nat : x <= y => x * z <= y * z
<1> SUFFICES ASSUME NEW x \in Int, NEW y \in Int, NEW z \in Nat, x <= y
             PROVE  x * z <= y * z
  OBVIOUS
<1>1. y - x \in Nat
  OBVIOUS
<1>2. (y - x) * z \in Nat
  BY <1>1
<1>3. y * z = x * z + (y - x) * z /\ x * z \in Int /\ y * z \in Int
  OBVIOUS
<1> QED
  BY <1>2, <1>3

LEMMA ProductSplit ==
  \A b, m, j \in Int :
    /\ b * (m * (100 - j) - (100 + j)) = (m * b) * (100 - j) - b * (100 + j)
    /\ (m * b) * (100 - j) \in Int /\ b * (100 + j) \in Int
<1> SUFFICES ASSUME NEW b \in Int, NEW m \in Int, NEW j \in Int
             PROVE  /\ b * (m * (100 - j) - (100 + j)) = (m * b) * (100 - j) - b * (100 + j)
                    /\ (m * b) * (100 - j) \in Int /\ b * (100 + j) \in Int
  OBVIOUS
<1>1. /\ m * (100 - j) \in Int /\ 100 + j \in Int /\ 100 - j \in Int /\ m * b \in Int
  OBVIOUS
<1>2. b * (m * (100 - j) - (100 + j)) = b * (m * (100 - j)) - b * (100 + j)
  BY <1>1
<1>3. b * (m * (100 - j)) = (m * b) * (100 - j)
  OBVIOUS
<1> QED
  BY <1>1, <1>2, <1>3

LEMMA GrowthFollows ==
  ASSUME Outweighs
  PROVE  BackoffInv => DelaysGrow
<1> SUFFICES ASSUME BackoffInv, NEW i \in 2 .. Len(delays), InitialDelay * Power[i - 1] <= MaxDelay
             PROVE  delays[i - 1] < delays[i]
  BY DEF DelaysGrow
<1>1. /\ i \in Nat /\ i - 1 \in Nat /\ i - 2 \in Nat /\ i - 1 = (i - 2) + 1
      /\ i \in 1 .. attempts /\ i - 1 \in 1 .. attempts /\ (i - 1) - 1 = i - 2
  BY DEF BackoffInv
<1>2. /\ delays[i] \in Jittered(BaseDelay(i - 1))
      /\ delays[i - 1] \in Jittered(BaseDelay(i - 2))
  BY <1>1 DEF BackoffInv
<1> DEFINE b == InitialDelay * Power[i - 2]
           J == BackoffJitter
<1>3. /\ b \in Nat \ {0} /\ Power[i - 2] \in Nat \ {0}
      /\ InitialDelay * Power[i - 1] \in Nat /\ Power[i - 1] = Multiplier * Power[i - 2]
  BY <1>1, BaseDelays, Powers
<1>4. InitialDelay * Power[i - 1] = Multiplier * b
  BY <1>3, DelayAssumption
<1>5. InitialDelay \in Nat \ {0} /\ Multiplier \in Nat \ {0} /\ MaxDelay \in Nat
  BY DelayAssumption
<1>6. InitialDelay <= b
  BY <1>3, <1>5, ProductGrows
<1>7. /\ InitialDelay * Power[i - 1] <= MaxDelay => BaseDelay(i - 1) = Multiplier * b
      /\ b <= MaxDelay => BaseDelay(i - 2) = b
  BY <1>1, <1>4, BaseDelays
<1> HIDE DEF b, J
<1>8. b <= Multiplier * b /\ Multiplier * b \in Nat /\ b <= MaxDelay
  BY SMTT(30), <1>3, <1>4, <1>5, ProductGrows
<1>9. J \in Nat /\ J <= 100
  BY BackoffAssumption DEF J
<1>10. /\ delays[i] \in Nat /\ delays[i - 1] \in Nat
       /\ 100 * delays[i - 1] <= b * (100 + J)
       /\ (Multiplier * b) * (100 - J) < 100 * delays[i] + 100
  BY SMTT(30), <1>2, <1>3, <1>7, <1>8, JitteredDelays DEF J
<1> DEFINE q == Multiplier * (100 - J) - (100 + J)
<1>11. q \in Int /\ InitialDelay * q >= 100
  BY <1>5, <1>9 DEF Outweighs, J
<1>12. b * q = (Multiplier * b) * (100 - J) - b * (100 + J)
  BY <1>3, <1>5, <1>9, ProductSplit
<1> HIDE DEF q
<1>13. q \in Nat
  BY <1>5, <1>11
<1>14. InitialDelay * q <= b * q /\ InitialDelay * q \in Int /\ b * q \in Int
  BY <1>3, <1>5, <1>6, <1>13, ProductMonotone
<1>15. (Multiplier * b) * (100 - J) \in Int /\ b * (100 + J) \in Int
  BY <1>3, <1>5, <1>9, ProductSplit
<1> QED
  BY SMTT(30), <1>10, <1>11, <1>12, <1>14, <1>15

=============================================================================
