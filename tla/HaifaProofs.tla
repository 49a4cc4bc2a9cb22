--------------------------- MODULE HaifaProofs ------------------------------
(***************************************************************************)
(* The digest depends on the message and the salt alone.  HashInv says     *)
(* which bytes of the message have been compressed, and which wait in the  *)
(* buffer, at every point of an Update call; it is inductive for any sizes *)
(* of bytes, blocks and counters, any length of message and any split of   *)
(* it into calls.                                                          *)
(***************************************************************************)
EXTENDS Haifa, WellFoundedInduction, TLAPS

\* Products and their order.
LEMMA Products ==
    ASSUME NEW a \in Int, NEW b \in Int, NEW c \in Nat
    PROVE  /\ a * c \in Int /\ (a + b) * c = a * c + b * c
           /\ (a - b) * c = a * c - b * c
           /\ a <= b => a * c <= b * c
           /\ a < b => a * c + c <= b * c
  OBVIOUS

\* Quotient and remainder.
LEMMA Division ==
    ASSUME NEW n \in Nat, NEW d \in Nat \ {0}
    PROVE  /\ n \div d \in Nat /\ n % d \in Nat /\ n % d < d
           /\ n = d * (n \div d) + (n % d)
  OBVIOUS

\* They are the only such pair.
LEMMA DivisionIsUnique ==
    ASSUME NEW n \in Nat, NEW d \in Nat \ {0}, NEW q \in Int, NEW r \in Int,
           n = q * d + r, 0 <= r, r < d
    PROVE  n \div d = q /\ n % d = r
  OBVIOUS

\* Induction from the last index of a list to its first, on a set of indices.
LEMMA DownwardInduction ==
    ASSUME NEW N \in Nat, NEW S, N \in S,
           \A i \in 1 .. N - 1 : i + 1 \in S => i \in S
    PROVE  1 .. N \subseteq S
<1> DEFINE T == {k \in Nat : k < N /\ N - k \notin S}
           R == {ss \in Nat \X Nat : ss[1] < ss[2]}
<1>1. IsWellFoundedOn(R, Nat)
  BY NatLessThanWellFounded, Zenon DEF OpToRel
<1>2. SUFFICES ASSUME T # {} PROVE FALSE
  <2>1. ASSUME NEW i \in 1 .. N, i \notin S PROVE FALSE
    <3>1. N - i \in T
      BY <2>1
    <3> QED BY <1>2, <3>1
  <2> QED BY <2>1
<1>3. PICK k \in T : \A y \in T : ~(<<y, k>> \in R)
  <2>1. T \subseteq Nat
    OBVIOUS
  <2> HIDE DEF T, R
  <2> QED BY <1>1, <1>2, <2>1, WFMin
<1>4. k # 0
  BY <1>3
<1>5. k - 1 \notin T
  <2>1. k - 1 \in Nat /\ <<k - 1, k>> \in R
    BY <1>3, <1>4
  <2> QED BY <1>3, <2>1
<1>6. N - (k - 1) \in S
  BY <1>3, <1>4, <1>5
<1>7. N - k \in 1 .. N - 1 /\ (N - k) + 1 = N - (k - 1)
  BY <1>3, <1>4
<1>8. N - k \in S
  BY <1>6, <1>7
<1> QED BY <1>3, <1>8

\* The quotients from which the digits of a count are taken.
LEMMA QuotientsExist ==
    ASSUME NEW n \in Nat
    PROVE  \E f : f = [i \in 1 .. CounterSize |->
                         IF i = CounterSize THEN n ELSE f[i + 1] \div Base]
<1> DEFINE C == CounterSize
           P(m) == \E f : f = [i \in m .. C |-> IF i = C THEN n ELSE f[i + 1] \div Base]
           S == {m \in 1 .. C : P(m)}
<1>0. C \in Nat \ {0}
  BY HashAssumption
<1> HIDE DEF C
<1>1. C \in S
  <2> DEFINE f == [i \in C .. C |-> n]
  <2>1. f = [i \in C .. C |-> IF i = C THEN n ELSE f[i + 1] \div Base]
    BY <1>0
  <2>2. P(C)
    BY <2>1
  <2> QED BY <1>0, <2>2
<1>2. ASSUME NEW m \in 1 .. C - 1, m + 1 \in S PROVE m \in S
  <2>1. PICK f : f = [i \in m + 1 .. C |-> IF i = C THEN n ELSE f[i + 1] \div Base]
    BY <1>2
  <2> DEFINE g == [i \in m .. C |-> IF i = m THEN f[m + 1] \div Base ELSE f[i]]
  <2>2. ASSUME NEW i \in m .. C
        PROVE  g[i] = IF i = C THEN n ELSE g[i + 1] \div Base
    <3>1. CASE i = m
      BY <1>0, <3>1
    <3>2. CASE i # m
      <4>1. i \in m + 1 .. C /\ g[i] = f[i]
        BY <3>2
      <4>2. f[i] = IF i = C THEN n ELSE f[i + 1] \div Base
        BY <2>1, <4>1
      <4>3. i # C => g[i + 1] = f[i + 1]
        BY <1>0, <4>1
      <4> QED BY <4>1, <4>2, <4>3
    <3> QED BY <3>1, <3>2
  <2>3. g = [i \in m .. C |-> IF i = C THEN n ELSE g[i + 1] \div Base]
    BY <2>2
  <2>4. P(m)
    BY <2>3
  <2> QED BY <1>0, <2>4
<1>3. 1 .. C \subseteq S
  <2> HIDE DEF S
  <2> QED BY <1>0, <1>1, <1>2, DownwardInduction
<1>4. P(1)
  BY <1>0, <1>3
<1> QED BY <1>4 DEF C

\* The recursion of quotientsOf.
LEMMA QuotientsAre ==
    ASSUME NEW n \in Nat
    PROVE  /\ quotientsOf(n) = [i \in 1 .. CounterSize |->
                 IF i = CounterSize THEN n ELSE quotientsOf(n)[i + 1] \div Base]
           /\ \A i \in 1 .. CounterSize : quotientsOf(n)[i] \in Nat
<1> DEFINE q == quotientsOf(n)
<1>1. q = CHOOSE f : f = [i \in 1 .. CounterSize |->
                            IF i = CounterSize THEN n ELSE f[i + 1] \div Base]
  BY DEF quotientsOf
<1>2. q = [i \in 1 .. CounterSize |->
             IF i = CounterSize THEN n ELSE q[i + 1] \div Base]
  BY <1>1, QuotientsExist
<1> HIDE DEF q
<1> DEFINE S == {i \in 1 .. CounterSize : q[i] \in Nat}
<1>3. CounterSize \in S
  BY <1>2, HashAssumption
<1>4. ASSUME NEW i \in 1 .. CounterSize - 1, i + 1 \in S PROVE i \in S
  <2>1. q[i] = q[i + 1] \div Base
    BY <1>2, <1>4, HashAssumption
  <2>2. q[i + 1] \in Nat /\ Base \in Nat \ {0}
    BY <1>4, HashAssumption
  <2>3. q[i + 1] \div Base \in Nat
    BY <2>2, Division
  <2> QED BY <1>4, <2>1, <2>3, HashAssumption
<1>5. 1 .. CounterSize \subseteq S
  <2> HIDE DEF S
  <2> QED BY <1>3, <1>4, HashAssumption, DownwardInduction
<1> QED BY <1>2, <1>5 DEF q

\* The bits of a block fit in two digits, the higher of them with a carry.
LEMMA BlockDigits ==
    ASSUME NEW m \in Nat, m <= BlockBits
    PROVE  \A i \in 1 .. CounterSize - 1 : quotientsOf(m)[i] < Base - 1
<1> DEFINE C == CounterSize  b == Base  q == quotientsOf(m)
           S == {C} \cup {i \in 1 .. C - 1 : q[i] < b - 1}
<1>0. C \in Nat \ {0} /\ b \in Nat \ {0} /\ b >= 2 /\ m < b * (b - 1)
  BY HashAssumption DEF BlockBits
<1>1. /\ q = [i \in 1 .. C |-> IF i = C THEN m ELSE q[i + 1] \div b]
      /\ \A i \in 1 .. C : q[i] \in Nat
  BY QuotientsAre
<1> HIDE DEF C, b, q
<1>2. ASSUME NEW i \in 1 .. C - 1, i + 1 \in S PROVE i \in S
  <2>1. i \in 1 .. C /\ i # C /\ i + 1 \in 1 .. C
    BY <1>0
  <2>2. q[i] = q[i + 1] \div b /\ q[i + 1] \in Nat
    BY <1>1, <2>1
  <2>3. q[i + 1] < b * (b - 1)
    <3>1. CASE i + 1 = C
      BY <1>0, <1>1, <2>1, <3>1
    <3>2. CASE i + 1 # C
      <4>1. q[i + 1] < b - 1
        BY <1>2, <3>2
      <4>2. b - 1 <= b * (b - 1)
        BY <1>0
      <4>3. b * (b - 1) \in Int
        BY <1>0
      <4> QED BY <1>0, <2>2, <4>1, <4>2, <4>3
    <3> QED BY <3>1, <3>2
  <2>4. q[i + 1] \div b < b - 1
    <3> DEFINE k == q[i + 1] \div b  r == q[i + 1] % b
    <3>1. k \in Nat /\ r \in Nat /\ q[i + 1] = b * k + r
      BY <1>0, <2>2, Division
    <3> HIDE DEF k, r
    <3>2. b * k < b * (b - 1)
      BY <1>0, <2>2, <2>3, <3>1
    <3>3. ~ (k >= b - 1)
      BY <1>0, <3>1, <3>2
    <3>4. k < b - 1
      BY <1>0, <3>1, <3>3
    <3> QED BY <3>4 DEF k
  <2> QED BY <2>2, <2>4
<1>3. C \in S
  OBVIOUS
<1>4. 1 .. C \subseteq S
  <2> HIDE DEF S
  <2> QED BY <1>0, <1>2, <1>3, DownwardInduction
<1>5. ASSUME NEW i \in 1 .. C - 1 PROVE q[i] < b - 1
  BY <1>0, <1>4
<1> QED BY <1>5 DEF C, q, b

\* AddToCurrInBase256 adds: a carry never makes a digit that is still to be
\* added wrap, as that digit is one of the bits of at most a block.
LEMMA CounterAdds ==
    ASSUME NEW n \in Nat, NEW m \in Nat, m <= BlockBits
    PROVE  AddToCurrInBase256(digitsOf(n), m) = digitsOf(n + m)
<1> DEFINE C == CounterSize  b == Base
           p == quotientsOf(n)  q == quotientsOf(m)  r == quotientsOf(n + m)
           c(i) == r[i] - p[i] - q[i]
           w == [i \in 1 .. C |-> (p[i] % b) + (q[i] % b) + c(i)]
           Sums(f) == f = [i \in 1 .. C |->
                             (p[i] % b) + (((q[i] % b)
                                + (IF i < C /\ f[i + 1] > b - 1 THEN 1 ELSE 0)) % b)]
           temp == sumsOf(digitsOf(n), digitsOf(m))
<1>0. C \in Nat \ {0} /\ b \in Nat \ {0} /\ b >= 2
  BY HashAssumption
<1>1. /\ p = [i \in 1 .. C |-> IF i = C THEN n ELSE p[i + 1] \div b]
      /\ \A i \in 1 .. C : p[i] \in Nat
  BY QuotientsAre
<1>2. /\ q = [i \in 1 .. C |-> IF i = C THEN m ELSE q[i + 1] \div b]
      /\ \A i \in 1 .. C : q[i] \in Nat
  BY QuotientsAre
<1>3. /\ r = [i \in 1 .. C |-> IF i = C THEN n + m ELSE r[i + 1] \div b]
      /\ \A i \in 1 .. C : r[i] \in Nat
  <2>1. n + m \in Nat
    OBVIOUS
  <2> QED BY <2>1, QuotientsAre
<1>4. \A i \in 1 .. C - 1 : q[i] < b - 1
  BY BlockDigits
<1>5. temp = CHOOSE f : Sums(f)
  <2>1. \A i \in 1 .. C : digitsOf(n)[i] = p[i] % b /\ digitsOf(m)[i] = q[i] % b
    BY DEF digitsOf
  <2>2. ASSUME NEW f
        PROVE  [i \in 1 .. C |->
                  digitsOf(n)[i] + ((digitsOf(m)[i]
                     + (IF i < C /\ f[i + 1] > b - 1 THEN 1 ELSE 0)) % b)]
             = [i \in 1 .. C |->
                  (p[i] % b) + (((q[i] % b)
                     + (IF i < C /\ f[i + 1] > b - 1 THEN 1 ELSE 0)) % b)]
    <3> HIDE DEF p, q, b, C
    <3> QED BY <2>1
  <2>3. temp = CHOOSE f : f = [i \in 1 .. C |->
                  digitsOf(n)[i] + ((digitsOf(m)[i]
                     + (IF i < C /\ f[i + 1] > b - 1 THEN 1 ELSE 0)) % b)]
    BY DEF sumsOf
  <2> HIDE DEF temp, p, q, b, C
  <2> QED BY <2>2, <2>3
<1>6. digitsOf(n + m) = [i \in 1 .. C |-> r[i] % b]
  BY DEF digitsOf
<1>7. AddToCurrInBase256(digitsOf(n), m) = [i \in 1 .. C |-> temp[i] % b]
  BY DEF AddToCurrInBase256
<1> HIDE DEF C, b, p, q, r, temp
\* The digits carried.
<1> DEFINE S == {i \in 1 .. C : c(i) \in {0, 1} /\ (i = C => c(i) = 0)}
<1>8. C \in S
  BY <1>0, <1>1, <1>2, <1>3
<1>9. ASSUME NEW i \in 1 .. C, c(i) \in {0, 1}, i = C => c(i) = 0
      PROVE  /\ (q[i] % b) + c(i) < b
             /\ r[i] \div b = (p[i] \div b) + (q[i] \div b)
                               + (IF w[i] > b - 1 THEN 1 ELSE 0)
             /\ r[i] % b = w[i] % b
  <2>1. p[i] \in Nat /\ q[i] \in Nat /\ r[i] \in Nat
    BY <1>1, <1>2, <1>3
  <2>2. q[i] % b \in Nat /\ q[i] % b < b
    BY <1>0, <2>1, Division
  <2>3. (q[i] % b) + c(i) < b
    <3>1. CASE i = C
      BY <1>0, <1>9, <2>2, <3>1
    <3>2. CASE i # C
      <4>1. q[i] < b - 1
        BY <1>0, <1>4, <3>2
      <4>2. q[i] % b = q[i]
        BY <1>0, <2>1, <4>1
      <4>3. c(i) = 0 \/ c(i) = 1
        BY <1>9
      <4> HIDE DEF c
      <4> QED BY <1>0, <2>1, <4>1, <4>2, <4>3
    <3> QED BY <3>1, <3>2
  <2>4. r[i] = p[i] + q[i] + c(i)
    BY <2>1
  <2>5. w[i] = (p[i] % b) + (q[i] % b) + c(i)
    OBVIOUS
  <2> HIDE DEF c, w
  <2> DEFINE x == p[i]  y == q[i]  z == c(i)
             xq == x \div b  xr == x % b  yq == y \div b  yr == y % b
             sum == xr + yr + z
             k == IF sum > b - 1 THEN 1 ELSE 0
  <2>6. x \in Nat /\ y \in Nat /\ z \in {0, 1} /\ yr + z < b
    BY <1>9, <2>1, <2>3
  <2> HIDE DEF x, y, z
  <2>7. xq \in Nat /\ xr \in Nat /\ xr < b /\ x = b * xq + xr
    BY <1>0, <2>6, Division
  <2>8. yq \in Nat /\ yr \in Nat /\ yr < b /\ y = b * yq + yr
    BY <1>0, <2>6, Division
  <2> HIDE DEF xq, xr, yq, yr
  <2>9. sum \in Nat /\ 0 <= sum - k * b /\ sum - k * b < b /\ k \in {0, 1}
    BY <1>0, <2>6, <2>7, <2>8
  <2> HIDE DEF k
  <2>10. x + y + z = (xq + yq + k) * b + (sum - k * b)
    BY <1>0, <2>6, <2>7, <2>8, <2>9
  <2>11. (x + y + z) \div b = xq + yq + k /\ (x + y + z) % b = sum - k * b
    <3>1. x + y + z \in Nat /\ xq + yq + k \in Int /\ sum - k * b \in Int
      BY <1>0, <2>6, <2>7, <2>8, <2>9
    <3> HIDE DEF sum
    <3> QED BY <1>0, <2>9, <2>10, <3>1, DivisionIsUnique
  <2>12. sum % b = sum - k * b
    <3> DEFINE rest == sum - k * b
    <3>1. sum = k * b + rest /\ rest \in Int /\ k \in Int
      BY <1>0, <2>9
    <3>2. sum \in Nat /\ 0 <= rest /\ rest < b
      BY <2>9
    <3> HIDE DEF sum, rest
    <3>3. sum % b = rest
      BY <1>0, <3>1, <3>2, DivisionIsUnique
    <3> QED BY <3>3 DEF rest
  <2>13. w[i] = sum /\ r[i] = x + y + z
    BY <2>4, <2>5 DEF x, y, z, xr, yr
  <2>14. r[i] \div b = xq + yq + (IF w[i] > b - 1 THEN 1 ELSE 0)
    BY <2>11, <2>13 DEF k
  <2> QED BY <2>3, <2>11, <2>12, <2>13, <2>14 DEF x, y, xq, yq
<1>10. ASSUME NEW i \in 1 .. C - 1, i + 1 \in S
       PROVE  i \in S /\ c(i) = IF w[i + 1] > b - 1 THEN 1 ELSE 0
  <2>1. i \in 1 .. C /\ i # C /\ i + 1 \in 1 .. C
    BY <1>0
  <2>2. /\ r[i] = r[i + 1] \div b /\ p[i] = p[i + 1] \div b
        /\ q[i] = q[i + 1] \div b
    BY <1>1, <1>2, <1>3, <2>1
  <2>3. p[i] \in Nat /\ q[i] \in Nat /\ r[i] \in Nat
    BY <1>1, <1>2, <1>3, <2>1
  <2>4. c(i + 1) \in {0, 1} /\ (i + 1 = C => c(i + 1) = 0)
    BY <1>10
  <2>5. r[i + 1] \div b = (p[i + 1] \div b) + (q[i + 1] \div b)
                           + (IF w[i + 1] > b - 1 THEN 1 ELSE 0)
    <3> HIDE DEF c, w
    <3> QED BY <1>9, <2>1, <2>4
  <2> DEFINE k == IF w[i + 1] > b - 1 THEN 1 ELSE 0
  <2>6. k \in {0, 1}
    OBVIOUS
  <2>7. r[i] = p[i] + q[i] + k
    BY <2>2, <2>5
  <2> HIDE DEF k, w
  <2>8. c(i) = k
    BY <2>3, <2>6, <2>7
  <2>9. i \in S
    BY <2>1, <2>6, <2>8
  <2> QED BY <2>8, <2>9 DEF k
<1>11. 1 .. C \subseteq S
  <2> HIDE DEF S
  <2> QED BY <1>0, <1>8, <1>10, DownwardInduction
<1>12. \A i \in 1 .. C : (q[i] % b) + c(i) < b /\ r[i] % b = w[i] % b
  <2> HIDE DEF w
  <2> QED BY <1>9, <1>11
<1>13. ASSUME NEW i \in 1 .. C, NEW x, i < C => x = w[i + 1]
       PROVE  (p[i] % b) + (((q[i] % b)
                 + (IF i < C /\ x > b - 1 THEN 1 ELSE 0)) % b) = w[i]
  <2>1. c(i) = IF i < C /\ x > b - 1 THEN 1 ELSE 0
    <3>1. CASE i = C
      <4>1. c(i) = 0
        BY <1>11, <3>1
      <4> HIDE DEF c
      <4> QED BY <1>0, <3>1, <4>1
    <3>2. CASE i # C
      <4>1. i \in 1 .. C - 1 /\ i + 1 \in 1 .. C /\ i < C
        BY <1>0, <3>2
      <4> HIDE DEF c, w, S
      <4> QED BY <1>10, <1>11, <1>13, <4>1
    <3> QED BY <3>1, <3>2
  <2>2. (q[i] % b) + c(i) < b /\ q[i] % b \in Nat /\ c(i) \in {0, 1}
    <3>1. q[i] % b \in Nat
      BY <1>0, <1>2, Division
    <3>2. c(i) \in {0, 1}
      BY <1>11
    <3> HIDE DEF c
    <3> QED BY <1>12, <3>1, <3>2
  <2> HIDE DEF c
  <2>3. ((q[i] % b) + c(i)) % b = (q[i] % b) + c(i)
    <3> DEFINE y == (q[i] % b) + c(i)
    <3>1. y \in Nat /\ y < b
      BY <2>2
    <3> HIDE DEF y
    <3>2. y % b = y
      BY <1>0, <3>1
    <3> QED BY <3>2 DEF y
  <2>4. p[i] % b \in Nat
    BY <1>0, <1>1, Division
  <2> QED BY <2>1, <2>2, <2>3, <2>4
<1>14. Sums(w)
  <2> DEFINE v == [i \in 1 .. C |->
                     (p[i] % b) + (((q[i] % b)
                        + (IF i < C /\ w[i + 1] > b - 1 THEN 1 ELSE 0)) % b)]
  <2>1. \A i \in 1 .. C : v[i] = w[i]
    <3> HIDE DEF w
    <3> QED BY <1>13
  <2>2. w = [i \in 1 .. C |-> w[i]]
    OBVIOUS
  <2> HIDE DEF w
  <2> QED BY <2>1, <2>2
<1>15. Sums(temp)
  <2> HIDE DEF w, Sums
  <2> QED BY <1>5, <1>14
<1>16. \A i \in 1 .. C : temp[i] = w[i]
  <2> DEFINE E == {i \in 1 .. C : temp[i] = w[i]}
  <2>1. \A i \in 1 .. C :
           temp[i] = (p[i] % b) + (((q[i] % b)
                        + (IF i < C /\ temp[i + 1] > b - 1 THEN 1 ELSE 0)) % b)
    <3> HIDE DEF w
    <3> QED BY <1>15
  <2> HIDE DEF w, Sums
  <2>2. C \in E
    <3>1. C \in 1 .. C /\ ~(C < C)
      BY <1>0
    <3> QED BY <1>13, <2>1, <3>1
  <2>3. ASSUME NEW i \in 1 .. C - 1, i + 1 \in E PROVE i \in E
    <3>1. i \in 1 .. C
      BY <1>0
    <3> QED BY <1>13, <2>1, <2>3, <3>1
  <2>4. 1 .. C \subseteq E
    <3> HIDE DEF E
    <3> QED BY <1>0, <2>2, <2>3, DownwardInduction
  <2> QED BY <2>4
<1> HIDE DEF w, Sums, S, c
<1> QED BY <1>6, <1>7, <1>12, <1>16

\* The counter of a fresh state is the count zero.
LEMMA ZeroDigits == digitsOf(0) = NoCounter
<1> DEFINE C == CounterSize  b == Base  q == quotientsOf(0)
           S == {i \in 1 .. C : q[i] = 0}
<1>0. C \in Nat \ {0} /\ b \in Nat \ {0} /\ b >= 2
  BY HashAssumption
<1>1. q = [i \in 1 .. C |-> IF i = C THEN 0 ELSE q[i + 1] \div b]
  BY QuotientsAre
<1>2. digitsOf(0) = [i \in 1 .. C |-> q[i] % b]
  BY DEF digitsOf
<1>3. NoCounter = [i \in 1 .. C |-> 0]
  BY DEF NoCounter
<1> HIDE DEF C, b, q
<1>4. C \in S
  BY <1>0, <1>1
<1>5. 0 \div b = 0 /\ 0 % b = 0
  BY <1>0
<1>6. ASSUME NEW i \in 1 .. C - 1, i + 1 \in S PROVE i \in S
  <2>1. i \in 1 .. C /\ i # C
    BY <1>0
  <2> QED BY <1>1, <1>5, <1>6, <2>1
<1>7. 1 .. C \subseteq S
  <2> HIDE DEF S
  <2> QED BY <1>0, <1>4, <1>6, DownwardInduction
<1> QED BY <1>2, <1>3, <1>5, <1>7

-----------------------------------------------------------------------------
(* The inductive invariant.                                                *)

\* The first n blocks of a message, which hold nothing but the message.
FullBlocks(n, theSalt) ==
    [k \in 1 .. n |->
        [input |-> [i \in 0 .. InputBytes - 1 |-> messageByte((k - 1) * InputBytes + i)],
         bits |-> digitsOf((k - 1) * BlockBits), salt |-> theSalt, smooth |-> FALSE]]

\* A byte of the data that remains, of which the given number of bits is data.
RemainingByte(place, bits) ==
    IF bits >= ByteBits THEN messageByte(place) ELSE partialByte(place, bits)

\* Between two calls the remaining data is counted in bits.
IdleInv(n) ==
    /\ remainingSize \in Nat /\ remainingSize < BlockBits
    /\ accepted = n * BlockBits + remainingSize
    /\ \A i \in 0 .. InputBytes :
          i * ByteBits < remainingSize =>
              remaining[i] = RemainingByte(n * InputBytes + i, remainingSize - i * ByteBits)

\* In the loop it is counted in bytes, all of them whole, and the data pointer
\* is behind them.
LoopInv(n) ==
    /\ remainingSize \in Nat /\ remainingSize < InputBytes
    /\ databitlen \in Nat
    /\ data = n * InputBytes + remainingSize
    /\ accepted = data * ByteBits + databitlen
    /\ wasSingleBlockHandled => remainingSize = 0
    /\ \A i \in 0 .. remainingSize - 1 : remaining[i] = messageByte(n * InputBytes + i)

\* After n full blocks.
BlocksInv(n) ==
    /\ currOutputBlock = FullBlocks(n, salt)
    /\ numOfBits = digitsOf(n * BlockBits)
    /\ remaining = [i \in 0 .. InputBytes |-> remaining[i]]
    /\ caller = "none" => n = 0 /\ pc = "idle"
    /\ pc = "idle" => IdleInv(n)
    /\ pc = "update" => LoopInv(n)

HashInv ==
    /\ accepted \in Nat /\ hashLeft \in Int
    /\ pc \in {"idle", "update", "done"}
    /\ caller = "none" => pc = "idle"
    /\ pc # "done" => \E n \in Nat : BlocksInv(n)
    /\ pc = "done" => currOutputBlock = BlocksOf(accepted, salt)

\* The sizes of a block.
LEMMA Sizes ==
    /\ ByteBits \in Nat \ {0} /\ InputBytes \in Nat \ {0} /\ CounterSize \in Nat \ {0}
    /\ InputBytes >= CounterSize + 2
    /\ BlockBits = InputBytes * ByteBits /\ BlockBits \in Nat \ {0}
<1>1. ByteBits \in Nat \ {0} /\ InputBytes \in Nat \ {0}
  BY HashAssumption
<1>2. InputBytes * ByteBits \in Nat \ {0}
  BY <1>1
<1> QED BY <1>1, <1>2, HashAssumption DEF BlockBits

\* The bits and the bytes of n whole blocks.
LEMMA BlockPlaces ==
    ASSUME NEW n \in Nat
    PROVE  /\ n * BlockBits \in Nat /\ n * InputBytes \in Nat
           /\ n * BlockBits = (n * InputBytes) * ByteBits
           /\ (n + 1) * BlockBits = n * BlockBits + BlockBits
           /\ (n + 1) * InputBytes = n * InputBytes + InputBytes
<1> DEFINE W == InputBytes  B == ByteBits
<1>1. W \in Nat /\ B \in Nat /\ BlockBits = W * B
  BY Sizes
<1> HIDE DEF W, B
<1>2. /\ n * (W * B) \in Nat /\ n * W \in Nat /\ n * (W * B) = (n * W) * B
      /\ (n + 1) * (W * B) = n * (W * B) + W * B /\ (n + 1) * W = n * W + W
  BY <1>1
<1> QED BY <1>1, <1>2 DEF W, B

\* Compressing one more full block.
LEMMA OneMoreBlock ==
    ASSUME NEW n \in Nat, NEW theSalt
    PROVE  FullBlocks(n + 1, theSalt) =
             Append(FullBlocks(n, theSalt),
                    [input |-> [i \in 0 .. InputBytes - 1 |->
                                   messageByte(n * InputBytes + i)],
                     bits |-> digitsOf(n * BlockBits),
                     salt |-> theSalt, smooth |-> FALSE])
<1> DEFINE F(k) == [input |-> [i \in 0 .. InputBytes - 1 |->
                                 messageByte((k - 1) * InputBytes + i)],
                    bits |-> digitsOf((k - 1) * BlockBits),
                    salt |-> theSalt, smooth |-> FALSE]
<1>1. FullBlocks(n + 1, theSalt) = [k \in 1 .. n + 1 |-> F(k)]
  BY DEF FullBlocks
<1>2. FullBlocks(n, theSalt) = [k \in 1 .. n |-> F(k)]
  BY DEF FullBlocks
<1>3. F(n + 1) = [input |-> [i \in 0 .. InputBytes - 1 |->
                               messageByte(n * InputBytes + i)],
                  bits |-> digitsOf(n * BlockBits),
                  salt |-> theSalt, smooth |-> FALSE]
  <2>1. (n + 1) - 1 = n
    OBVIOUS
  <2> QED BY <2>1
<1> HIDE DEF F
<1>4. [k \in 1 .. n + 1 |-> F(k)] = Append([k \in 1 .. n |-> F(k)], F(n + 1))
  OBVIOUS
<1> QED BY <1>1, <1>2, <1>3, <1>4

\* No call has been made.
LEMMA HashInitInv == HashInit => HashInv
<1> SUFFICES ASSUME HashInit PROVE HashInv
  OBVIOUS
<1>1. BlocksInv(0)
  <2>1. currOutputBlock = FullBlocks(0, salt)
    BY DEF HashInit, FullBlocks
  <2>2. 0 * BlockBits = 0 /\ 0 * InputBytes = 0
    BY Sizes
  <2>3. numOfBits = digitsOf(0 * BlockBits)
    BY <2>2, ZeroDigits DEF HashInit
  <2>4. remaining = [i \in 0 .. InputBytes |-> remaining[i]]
    BY DEF HashInit
  <2>5. IdleInv(0)
    <3>1. \A i \in 0 .. InputBytes : ~(i * ByteBits < 0)
      BY Sizes
    <3> QED BY <2>2, <3>1, Sizes DEF HashInit, IdleInv
  <2> QED BY <2>1, <2>3, <2>4, <2>5 DEF BlocksInv, HashInit
<1> QED BY <1>1 DEF HashInit, HashInv

\* A caller starts a message, with the salt set last.
LEMMA InitStateInv ==
    ASSUME HashInv, NEW who \in {"stream", "hash"}, NEW length \in Nat,
           InitState(who, length)
    PROVE  HashInv'
<1>1. pc = "idle" /\ caller = "none"
  BY DEF InitState
<1>2. PICK n \in Nat : BlocksInv(n)
  BY <1>1 DEF HashInv
<1>3. n = 0
  BY <1>1, <1>2 DEF BlocksInv
<1>4. FullBlocks(0, salt') = FullBlocks(0, salt)
  BY DEF FullBlocks
<1>5. IdleInv(0)'
  <2>1. IdleInv(0)
    BY <1>1, <1>2, <1>3 DEF BlocksInv
  <2>2. UNCHANGED <<remainingSize, accepted, remaining>>
    BY DEF InitState
  <2> QED BY <2>1, <2>2 DEF IdleInv
<1>6. UNCHANGED <<currOutputBlock, numOfBits, remaining, pc, accepted>>
  BY DEF InitState
<1>7. caller' # "none"
  BY DEF InitState
<1>8. BlocksInv(0)'
  BY <1>1, <1>2, <1>3, <1>4, <1>5, <1>6, <1>7 DEF BlocksInv
<1>9. hashLeft' \in Int
  BY DEF InitState
<1> QED BY <1>1, <1>6, <1>7, <1>8, <1>9 DEF HashInv

\* The next salt is set.
LEMMA SetSaltInv ==
    ASSUME HashInv, SetSalt
    PROVE  HashInv'
<1>1. UNCHANGED <<salt, remaining, remainingSize, numOfBits, currOutputBlock,
                  caller, pc, data, databitlen, wasSingleBlockHandled, hashLeft,
                  accepted>> /\ pc = "idle"
  BY DEF SetSalt, hashState
<1>2. PICK n \in Nat : BlocksInv(n)
  BY <1>1 DEF HashInv
<1>3. BlocksInv(n)'
  BY <1>1, <1>2 DEF BlocksInv, IdleInv
<1> QED BY <1>1, <1>3 DEF HashInv

\* A call of Update begins.
LEMMA BeginUpdateInv ==
    ASSUME HashInv, NEW m \in Nat, pc = "idle", caller # "none", BeginUpdate(m),
           hashLeft' \in Int
    PROVE  HashInv'
<1>1. PICK n \in Nat : BlocksInv(n)
  BY DEF HashInv
<1>2. IdleInv(n)
  BY <1>1 DEF BlocksInv
<1>3. UNCHANGED <<caller, salt, remaining, numOfBits, currOutputBlock>>
  BY DEF BeginUpdate
<1>4. CASE m = 0 \/ remainingSize % ByteBits # 0
  <2>1. UNCHANGED <<pc, remainingSize, accepted>>
    BY <1>4 DEF BeginUpdate
  <2>2. IdleInv(n)'
    BY <1>2, <1>3, <2>1 DEF IdleInv
  <2>3. BlocksInv(n)'
    BY <1>1, <1>3, <2>1, <2>2 DEF BlocksInv
  <2> QED BY <1>3, <2>1, <2>3 DEF HashInv
<1>5. CASE m # 0 /\ remainingSize % ByteBits = 0
  <2>1. /\ pc' = "update" /\ remainingSize' = remainingSize \div ByteBits
        /\ databitlen' = m /\ accepted' = accepted + m
        /\ data' = accepted \div ByteBits /\ wasSingleBlockHandled' = FALSE
    BY <1>5 DEF BeginUpdate
  <2> DEFINE B == ByteBits  W == InputBytes  r == remainingSize  q == r \div B
             base == n * W
  <2>2. /\ r \in Nat /\ r < W * B /\ accepted = base * B + r
        /\ base \in Nat /\ B \in Nat \ {0} /\ W \in Nat /\ r % B = 0
    BY <1>2, <1>5, BlockPlaces, Sizes DEF IdleInv
  <2>3. \A i \in 0 .. W : i * B < r => remaining[i] = RemainingByte(base + i, r - i * B)
    BY <1>2 DEF IdleInv
  <2>4. q \in Nat /\ r = B * q
    <3> HIDE DEF B, r
    <3> QED BY <2>2, Division
  <2> HIDE DEF B, W, r, q, base
  <2>5. q < W
    <3>1. ~(q >= W)
      BY <2>2, <2>4
    <3> QED BY <2>2, <2>4, <3>1
  <2>6. accepted \div B = base + q /\ accepted \in Nat /\ accepted = (base + q) * B
    <3> DEFINE place == base + q
    <3>1. place \in Nat /\ accepted = place * B /\ accepted \in Nat
      BY <2>2, <2>4
    <3> HIDE DEF place
    <3>2. accepted \div B = place
      BY <2>2, <3>1
    <3> QED BY <3>1, <3>2 DEF place
  <2>7. ASSUME NEW i \in 0 .. q - 1
        PROVE  remaining[i] = messageByte(base + i)
    <3>1. i \in 0 .. W /\ i \in Nat /\ i + 1 <= q
      BY <2>2, <2>4, <2>5
    <3>2. i * B < r /\ r - i * B >= B
      BY <2>2, <2>4, <3>1
    <3>3. RemainingByte(base + i, r - i * B) = messageByte(base + i)
      BY <3>2 DEF RemainingByte, B
    <3> QED BY <2>3, <3>1, <3>2, <3>3
  <2>8. LoopInv(n)'
    <3>1. remainingSize' = q /\ data' = base + q /\ accepted' = data' * B + m
      BY <2>1, <2>6 DEF B, r, q
    <3> QED BY <1>3, <2>1, <2>4, <2>5, <2>7, <3>1 DEF LoopInv, B, W, base
  <2>9. BlocksInv(n)'
    BY <1>1, <1>3, <2>1, <2>8 DEF BlocksInv
  <2>10. accepted' \in Nat
    BY <2>1, <2>6
  <2> QED BY <1>3, <2>1, <2>9, <2>10 DEF HashInv
<1> QED BY <1>4, <1>5

\* Update is refused, or begins.
LEMMA UpdateInv ==
    ASSUME HashInv, NEW m \in Lengths, Update(m)
    PROVE  HashInv'
<1>1. m \in Nat
  BY HashAssumption
<1>2. BeginUpdate(m) /\ hashLeft' = hashLeft /\ pc = "idle" /\ caller # "none"
  BY DEF Update
<1>3. hashLeft' \in Int
  BY <1>2 DEF HashInv
<1> QED BY <1>1, <1>2, <1>3, BeginUpdateInv

\* Hash gives Update its next block, or the rest.
LEMMA HashUpdateInv ==
    ASSUME HashInv, HashUpdate
    PROVE  HashInv'
<1>1. hashLeft \in Nat
  BY DEF HashInv, HashUpdate
<1>2. HashChunk(hashLeft) \in Nat
  BY <1>1, Sizes DEF HashChunk
<1>3. hashLeft' \in Int
  BY <1>1, Sizes DEF HashUpdate
<1>4. BeginUpdate(HashChunk(hashLeft)) /\ pc = "idle" /\ caller # "none"
  BY DEF HashUpdate
<1> HIDE DEF HashChunk
<1> QED BY <1>2, <1>3, <1>4, BeginUpdateInv

\* One more block is compressed.
LEMMA UpdateBlockInv ==
    ASSUME HashInv, UpdateBlock
    PROVE  HashInv'
<1>1. pc = "update" /\ blockIsFull
  BY DEF UpdateBlock
<1>2. PICK n \in Nat : BlocksInv(n)
  BY <1>1 DEF HashInv
<1>3. LoopInv(n)
  BY <1>1, <1>2 DEF BlocksInv
<1> DEFINE B == ByteBits  W == InputBytes  r == remainingSize  d == databitlen
           q == d \div B  base == n * W
<1>4. /\ B \in Nat \ {0} /\ W \in Nat /\ r \in Nat /\ r < W /\ d \in Nat
      /\ base \in Nat /\ data = base + r /\ accepted = data * B + d
  BY <1>3, Sizes, BlockPlaces DEF LoopInv
<1>5. q \in Nat /\ B * q <= d /\ q + r >= W
  <2>1. q + r >= W
    BY <1>1 DEF blockIsFull
  <2> HIDE DEF B, d
  <2> QED BY <1>4, <2>1, Division
<1>6. \A i \in 0 .. r - 1 : remaining[i] = messageByte(base + i)
  BY <1>3 DEF LoopInv
<1>7. ASSUME NEW i \in 0 .. W - 1, ~(i < r)
      PROVE  dataByte(data + i - r) = messageByte(base + i)
  <2>1. (data + i - r) - data = i - r /\ data + i - r = base + i
    BY <1>4, <1>7
  <2>2. d - (i - r) * B >= B
    <3> DEFINE k == i - r
    <3>1. k \in Nat /\ k + 1 <= q
      BY <1>4, <1>5, <1>7
    <3> HIDE DEF k, q, B, d
    <3>2. (k + 1) * B <= q * B
      BY <1>4, <1>5, <3>1
    <3>3. (k + 1) * B = k * B + B /\ k * B \in Nat
      BY <1>4, <3>1
    <3>4. d - k * B >= B
      BY <1>4, <1>5, <3>1, <3>2, <3>3
    <3> QED BY <3>4 DEF k
  <2> QED BY <2>1, <2>2 DEF dataByte
<1>8. [i \in 0 .. W - 1 |-> IF i < r THEN remaining[i] ELSE dataByte(data + i - r)]
      = [i \in 0 .. W - 1 |-> messageByte(base + i)]
  <2>1. ASSUME NEW i \in 0 .. W - 1
        PROVE  (IF i < r THEN remaining[i] ELSE dataByte(data + i - r))
               = messageByte(base + i)
    <3>1. CASE i < r
      <4>1. i \in 0 .. r - 1
        BY <1>4, <3>1
      <4> QED BY <1>6, <3>1, <4>1
    <3>2. CASE ~(i < r)
      BY <1>7, <3>2
    <3> QED BY <3>1, <3>2
  <2> HIDE DEF W, r, base
  <2> QED BY <2>1
<1>9. currOutputBlock = FullBlocks(n, salt) /\ numOfBits = digitsOf(n * BlockBits)
  BY <1>2 DEF BlocksInv
<1>10. currOutputBlock' = FullBlocks(n + 1, salt)
  <2>1. currOutputBlock' =
          Append(currOutputBlock,
                 [input |-> [i \in 0 .. W - 1 |->
                               IF i < r THEN remaining[i] ELSE dataByte(data + i - r)],
                  bits |-> numOfBits, salt |-> salt, smooth |-> FALSE])
    BY DEF UpdateBlock, Compressed
  <2>2. currOutputBlock' =
          Append(FullBlocks(n, salt),
                 [input |-> [i \in 0 .. W - 1 |-> messageByte(base + i)],
                  bits |-> digitsOf(n * BlockBits), salt |-> salt, smooth |-> FALSE])
    BY <1>8, <1>9, <2>1
  <2> QED BY <2>2, OneMoreBlock
<1>11. numOfBits' = digitsOf((n + 1) * BlockBits)
  <2>1. numOfBits' = AddToCurrInBase256(numOfBits, BlockBits)
    BY DEF UpdateBlock
  <2>2. /\ n * BlockBits \in Nat /\ BlockBits \in Nat /\ BlockBits <= BlockBits
        /\ n * BlockBits + BlockBits = (n + 1) * BlockBits
    BY Sizes, BlockPlaces
  <2>3. AddToCurrInBase256(digitsOf(n * BlockBits), BlockBits)
        = digitsOf(n * BlockBits + BlockBits)
    BY <2>2, CounterAdds
  <2> QED BY <1>9, <2>1, <2>2, <2>3
<1>12. /\ remainingSize' = 0 /\ wasSingleBlockHandled' = TRUE
       /\ data' = data + (W - r) /\ databitlen' = d - (W - r) * B
       /\ UNCHANGED <<caller, pc, salt, remaining, hashLeft, accepted>>
  BY DEF UpdateBlock
<1>13. LoopInv(n + 1)'
  <2>1. (n + 1) * W = base + W
    BY BlockPlaces
  <2> HIDE DEF B, W, r, d, q, base
  <2>2. data' = base + W /\ data' \in Nat
    BY <1>4, <1>12
  <2>3. databitlen' \in Nat
    <3> DEFINE k == W - r
    <3>1. k \in Nat /\ k <= q
      BY <1>4, <1>5
    <3> HIDE DEF k
    <3>2. k * B <= q * B
      BY <1>4, <1>5, <3>1
    <3>3. d - k * B \in Nat
      BY <1>4, <1>5, <3>1, <3>2
    <3> QED BY <1>12, <3>3 DEF k
  <2>4. accepted' = data' * B + databitlen'
    <3>1. (base + W) * B = (base + r) * B + (W - r) * B
      BY <1>4
    <3>2. accepted = (base + r) * B + d
      BY <1>4
    <3> QED BY <1>4, <1>12, <2>2, <3>1, <3>2
  <2>5. data' = (n + 1) * W + 0
    BY <1>4, <2>1, <2>2
  <2>6. 0 .. 0 - 1 = {}
    OBVIOUS
  <2>7. 0 < W
    BY <1>4
  <2> QED BY <1>12, <2>3, <2>4, <2>5, <2>6, <2>7 DEF LoopInv, W, B
<1>14. caller' # "none" /\ pc' = "update"
  BY <1>1, <1>12 DEF HashInv
<1>15. BlocksInv(n + 1)'
  <2>1. remaining' = [i \in 0 .. InputBytes |-> remaining'[i]]
    BY <1>2, <1>12 DEF BlocksInv
  <2> QED BY <1>10, <1>11, <1>12, <1>13, <1>14, <2>1 DEF BlocksInv
<1> QED BY <1>12, <1>14, <1>15 DEF HashInv

\* What is left of the call stays in the buffer.
LEMMA EndUpdateInv ==
    ASSUME HashInv, EndUpdate
    PROVE  HashInv'
<1>1. pc = "update" /\ ~blockIsFull
  BY DEF EndUpdate
<1>2. PICK n \in Nat : BlocksInv(n)
  BY <1>1 DEF HashInv
<1>3. LoopInv(n)
  BY <1>1, <1>2 DEF BlocksInv
<1> DEFINE B == ByteBits  W == InputBytes  r == remainingSize  d == databitlen
           q == d \div B  base == n * W  left == r * B + d
<1>4. /\ B \in Nat \ {0} /\ W \in Nat /\ r \in Nat /\ r < W /\ d \in Nat
      /\ base \in Nat /\ data = base + r /\ accepted = data * B + d
  BY <1>3, Sizes, BlockPlaces DEF LoopInv
<1>5. q \in Nat /\ d < B * q + B /\ q + r < W
  <2>1. ~(q + r >= W)
    BY <1>1 DEF blockIsFull
  <2> HIDE DEF B, d
  <2> QED BY <1>4, <2>1, Division
<1>6. \A i \in 0 .. r - 1 : remaining[i] = messageByte(base + i)
  BY <1>3 DEF LoopInv
<1>7. /\ remaining' = [i \in 0 .. W |->
                         IF i >= r /\ (i - r) * B < d
                         THEN dataByte(data + i - r) ELSE remaining[i]]
      /\ remainingSize' = left
      /\ pc' = "idle"
      /\ UNCHANGED <<caller, salt, numOfBits, currOutputBlock, hashLeft, accepted>>
  <2>1. wasSingleBlockHandled => r = 0
    BY <1>3 DEF LoopInv
  <2>2. (IF wasSingleBlockHandled THEN 0 ELSE r) = r
    BY <2>1
  <2>3. remaining' = [i \in 0 .. W |->
                        IF i >= r /\ (i - r) * B < d
                        THEN dataByte(data + i - r) ELSE remaining[i]]
    BY <2>2 DEF EndUpdate, keptData
  <2>4. (IF wasSingleBlockHandled THEN 0 ELSE r * B) = r * B
    BY <1>4, <2>1
  <2>5. remainingSize' = left
    BY <2>4 DEF EndUpdate
  <2> QED BY <2>3, <2>5 DEF EndUpdate
<1>8. left \in Nat /\ left < W * B /\ accepted = base * B + left
  <2> HIDE DEF B, W, r, d, q, base
  <2>1. (q + r + 1) * B <= W * B
    BY <1>4, <1>5
  <2>2. (q + r + 1) * B = B * q + r * B + B /\ r * B \in Nat
    BY <1>4, <1>5
  <2>3. (base + r) * B = base * B + r * B
    BY <1>4
  <2> QED BY <1>4, <1>5, <2>1, <2>2, <2>3
<1>9. ASSUME NEW i \in 0 .. W, i * B < left
      PROVE  remaining'[i] = RemainingByte(base + i, left - i * B)
  <2>1. CASE i >= r
    <3>1. (i - r) * B < d /\ d - (i - r) * B = left - i * B
      <4> HIDE DEF B, W, r, d, q, base
      <4>1. (i - r) * B = i * B - r * B
        BY <1>4, <1>9, <2>1
      <4>2. i * B \in Nat /\ r * B \in Nat
        BY <1>4
      <4> QED BY <1>4, <1>9, <4>1, <4>2
    <3>2. remaining'[i] = dataByte(data + i - r)
      BY <1>7, <2>1, <3>1
    <3>3. (data + i - r) - data = i - r /\ data + i - r = base + i
      BY <1>4
    <3> QED BY <3>1, <3>2, <3>3 DEF dataByte, RemainingByte
  <2>2. CASE ~(i >= r)
    <3>1. i \in 0 .. r - 1 /\ i + 1 <= r
      BY <1>4, <2>2
    <3>2. remaining'[i] = messageByte(base + i)
      BY <1>6, <1>7, <2>2, <3>1
    <3>3. left - i * B >= B
      <4> HIDE DEF B, W, r, d, q, base
      <4>1. (i + 1) * B <= r * B
        BY <1>4, <3>1
      <4>2. (i + 1) * B = i * B + B /\ i * B \in Nat /\ r * B \in Nat
        BY <1>4
      <4> QED BY <1>4, <4>1, <4>2
    <3> QED BY <3>2, <3>3 DEF RemainingByte
  <2> QED BY <2>1, <2>2
<1>10. IdleInv(n)'
  <2>1. W * B = BlockBits /\ base * B = n * BlockBits
    BY Sizes, BlockPlaces
  <2> HIDE DEF left
  <2> QED BY <1>7, <1>8, <1>9, <2>1 DEF IdleInv
<1>11. caller' # "none"
  BY <1>1, <1>7 DEF HashInv
<1>12. BlocksInv(n)'
  <2>1. remaining' = [i \in 0 .. InputBytes |-> remaining'[i]]
    BY <1>7
  <2> QED BY <1>2, <1>7, <1>10, <1>11, <2>1 DEF BlocksInv
<1> QED BY <1>7, <1>11, <1>12 DEF HashInv

\* The parts of a length: the full blocks, the whole bytes behind them, the rest.
LEMMA LengthParts ==
    ASSUME NEW bits \in Nat
    PROVE  \E n \in Nat, w \in 0 .. InputBytes - 1, e \in 0 .. ByteBits - 1 :
              /\ bits \div ByteBits = n * InputBytes + w
              /\ (bits \div ByteBits) \div InputBytes = n
              /\ bits % ByteBits = e
<1> DEFINE B == ByteBits  W == InputBytes  whole == bits \div B  e == bits % B
           n == whole \div W  w == whole % W
<1>1. B \in Nat \ {0} /\ W \in Nat \ {0}
  BY Sizes
<1>2. whole \in Nat /\ e \in Nat /\ e < B
  <2> HIDE DEF B
  <2> QED BY <1>1, Division
<1>3. n \in Nat /\ w \in Nat /\ w < W /\ whole = W * n + w
  <2> HIDE DEF W, whole
  <2> QED BY <1>1, <1>2, Division
<1>4. e \in 0 .. B - 1 /\ w \in 0 .. W - 1 /\ whole = n * W + w
  <2> HIDE DEF B, W, whole, n, w, e
  <2> QED BY <1>1, <1>2, <1>3
<1>5. bits \div B = whole /\ whole \div W = n /\ bits % B = e
  OBVIOUS
<1> HIDE DEF whole, n, w, e
<1> QED BY <1>3, <1>4, <1>5

\* The bits received, as blocks, bytes and bits.
LEMMA PartsOfAccepted ==
    ASSUME NEW n \in Nat, IdleInv(n)
    PROVE  LET w == remainingSize \div ByteBits
               e == remainingSize % ByteBits
           IN /\ w \in 0 .. InputBytes - 1 /\ e \in 0 .. ByteBits - 1
              /\ remainingSize = w * ByteBits + e
              /\ accepted \div ByteBits = n * InputBytes + w
              /\ (accepted \div ByteBits) \div InputBytes = n
              /\ accepted % ByteBits = e
              /\ sizeOfLastInputBlock = w + 1
<1> DEFINE B == ByteBits  W == InputBytes  r == remainingSize
           w == r \div B  e == r % B  base == n * W
<1>1. /\ B \in Nat \ {0} /\ W \in Nat \ {0} /\ r \in Nat /\ r < W * B
      /\ base \in Nat /\ accepted = base * B + r
  BY Sizes, BlockPlaces DEF IdleInv
<1>2. w \in Nat /\ e \in Nat /\ e < B /\ r = B * w + e
  <2> HIDE DEF B, r
  <2> QED BY <1>1, Division
<1>3. sizeOfLastInputBlock = (r + 1 + B - 1) \div B
  BY DEF sizeOfLastInputBlock
<1>a. base = n * W
  OBVIOUS
<1> HIDE DEF B, W, r, w, e, base
<1>4. w < W
  <2>1. ~(w >= W)
    BY <1>1, <1>2
  <2> QED BY <1>1, <1>2, <2>1
<1>5. accepted \div B = base + w /\ accepted % B = e
  <2> DEFINE whole == base + w
  <2>1. whole \in Int /\ accepted = whole * B + e /\ accepted \in Nat
    BY <1>1, <1>2
  <2> HIDE DEF whole
  <2>2. accepted \div B = whole /\ accepted % B = e
    BY <1>1, <1>2, <2>1, DivisionIsUnique
  <2> QED BY <2>2 DEF whole
<1>6. (base + w) \div W = n
  <2> DEFINE whole == base + w
  <2>1. whole \in Nat /\ whole = n * W + w
    BY <1>1, <1>2, <1>a
  <2> HIDE DEF whole
  <2>2. whole \div W = n
    BY <1>1, <1>2, <1>4, <2>1, DivisionIsUnique
  <2> QED BY <2>2 DEF whole
<1>7. sizeOfLastInputBlock = w + 1
  <2> DEFINE x == r + 1 + B - 1  y == w + 1
  <2>1. x \in Nat /\ y \in Int /\ x = y * B + e
    BY <1>1, <1>2
  <2> HIDE DEF x, y
  <2>2. x \div B = y
    BY <1>1, <1>2, <2>1, DivisionIsUnique
  <2> QED BY <1>3, <2>2 DEF x, y
<1>8. /\ w \in 0 .. W - 1 /\ e \in 0 .. B - 1 /\ r = w * B + e
  BY <1>1, <1>2, <1>4
<1> QED BY <1>5, <1>6, <1>7, <1>8, <1>a DEF B, W, r, w, e

\* The last block and the added one, as Final fills them.
LEMMA FinalBytes ==
    ASSUME NEW n \in Nat, BlocksInv(n), IdleInv(n),
           NEW whole, whole = accepted \div ByteBits,
           NEW rest, rest = accepted % ByteBits
    PROVE  /\ whole \in Nat /\ n * InputBytes <= whole
           /\ whole < (n + 1) * InputBytes
           /\ toAddFinalBlock <=> ~closesThere(whole, n)
           /\ \A i \in 0 .. InputBytes - 1 :
                 lastInput[i] = paddedByte(whole, n, rest, n, i)
           /\ \A i \in 0 .. InputBytes - 1 :
                 addedInput[i] = paddedByte(whole, n, rest, n + 1, i)
<1> DEFINE B == ByteBits  W == InputBytes  r == remainingSize
           w == r \div B  base == n * W  C == CounterSize
<1>1. /\ w \in 0 .. W - 1 /\ rest \in 0 .. B - 1 /\ r = w * B + rest
      /\ whole = base + w /\ sizeOfLastInputBlock = w + 1 /\ r % B = rest
  BY PartsOfAccepted
<1>2. /\ B \in Nat \ {0} /\ W \in Nat \ {0} /\ C \in Nat \ {0} /\ base \in Nat
      /\ (n + 1) * W = base + W /\ closingPlace = W - C - 2
  BY Sizes, BlockPlaces DEF closingPlace
<1>3. whole \in Nat /\ base <= whole /\ whole < (n + 1) * W
  BY <1>1, <1>2
<1>4. toAddFinalBlock <=> ~closesThere(whole, n)
  <2>1. toAddFinalBlock <=> W - (w + 1) - C - 2 < 1
    BY <1>1 DEF toAddFinalBlock, numOfZeroBytesInPadding
  <2>2. closesThere(whole, n) <=> whole + 1 - base < W - C - 2
    BY <1>2 DEF closesThere
  <2> QED BY <1>1, <1>2, <2>1, <2>2
<1>5. ASSUME NEW i \in Int PROVE tail(i) = closingByte(whole, n, rest, i)
  <2>1. messageLength = lengthOf(whole, n, rest)
    <3>1. numOfBits = digitsOf(n * BlockBits)
      BY DEF BlocksInv
    <3>2. (whole - n * W) * B + rest = remainingSize
      <4>1. whole - n * W = w
        BY <1>1, <1>2
      <4> QED BY <1>1, <4>1
    <3>3. lengthOf(whole, n, rest)
            = messageLengthChar(digitsOf(n * BlockBits), (whole - n * W) * B + rest)
      BY DEF lengthOf
    <3> QED BY <3>1, <3>2, <3>3 DEF messageLength
  <2> QED BY <2>1 DEF tail, closingByte, closingPlace
<1>6. /\ \A i \in 0 .. w - 1 : withLastOne[i] = messageByte(base + i)
      /\ withLastOne[w] = lastByte(whole, rest)
  <2>1. remaining = [i \in 0 .. W |-> remaining[i]]
    BY DEF BlocksInv
  <2>2. withLastOne = [remaining EXCEPT ![w] = IF rest = 0 THEN OneByte
                                               ELSE withOne(remaining[w])]
    <3>1. sizeOfLastInputBlock - 1 = w
      BY <1>1
    <3> QED BY <1>1, <3>1 DEF withLastOne
  <2>3. \A i \in 0 .. W : i * B < r => remaining[i] = RemainingByte(base + i, r - i * B)
    BY DEF IdleInv
  <2>4. ASSUME NEW i \in 0 .. w - 1 PROVE withLastOne[i] = messageByte(base + i)
    <3>1. i \in 0 .. W /\ i # w /\ i + 1 <= w
      BY <1>1, <1>2
    <3>2. i * B < r /\ r - i * B >= B
      <4> HIDE DEF B, W, w, base, r
      <4>1. (i + 1) * B <= w * B
        BY <1>1, <1>2, <3>1
      <4>2. (i + 1) * B = i * B + B /\ i * B \in Nat /\ w * B \in Nat
        BY <1>1, <1>2
      <4> QED BY <1>1, <1>2, <4>1, <4>2
    <3>3. withLastOne[i] = remaining[i]
      BY <2>1, <2>2, <3>1
    <3> QED BY <2>3, <3>1, <3>2, <3>3 DEF RemainingByte
  <2>5. withLastOne[w] = lastByte(whole, rest)
    <3>1. w \in 0 .. W
      BY <1>1, <1>2
    <3>2. withLastOne[w] = IF rest = 0 THEN OneByte ELSE withOne(remaining[w])
      BY <2>1, <2>2, <3>1
    <3>3. CASE rest = 0
      BY <3>2, <3>3 DEF lastByte
    <3>4. CASE rest # 0
      <4>1. w * B < r /\ r - w * B = rest /\ ~(rest >= B)
        <5> HIDE DEF B, W, w, base, r
        <5> QED BY <1>1, <1>2, <3>4
      <4>2. remaining[w] = partialByte(whole, rest)
        BY <1>1, <2>3, <3>1, <4>1 DEF RemainingByte
      <4> QED BY <3>2, <3>4, <4>2 DEF lastByte
    <3> QED BY <3>3, <3>4
  <2> QED BY <2>4, <2>5
<1>7. ASSUME NEW i \in 0 .. W - 1 PROVE lastInput[i] = paddedByte(whole, n, rest, n, i)
  <2>1. lastInput[i] = CASE i < w + 1 -> withLastOne[i]
                         [] ~toAddFinalBlock /\ i >= W - C - 2 -> tail(i)
                         [] OTHER -> ZeroByte
    BY <1>1 DEF lastInput
  <2>2. paddedByte(whole, n, rest, n, i) =
           CASE base + i < whole -> messageByte(base + i)
             [] base + i = whole -> lastByte(whole, rest)
             [] /\ base + i > whole /\ i >= closingPlace
                /\ n > n \/ closesThere(whole, n) -> closingByte(whole, n, rest, i)
             [] OTHER -> ZeroByte
    BY DEF paddedByte
  <2>3. tail(i) = closingByte(whole, n, rest, i)
    BY <1>5
  <2>4. ~toAddFinalBlock => w + 1 < W - C - 2
    BY <1>1, <1>2, <1>4 DEF closesThere
  <2> HIDE DEF B, W, w, base, r, C
  <2>5. CASE i < w
    <3>1. lastInput[i] = withLastOne[i]
      BY <1>1, <1>2, <2>1, <2>4, <2>5
    <3>2. paddedByte(whole, n, rest, n, i) = messageByte(base + i)
      BY <1>1, <1>2, <2>2, <2>5
    <3>3. i \in 0 .. w - 1
      BY <1>1, <2>5
    <3> QED BY <1>6, <3>1, <3>2, <3>3
  <2>6. CASE i = w
    <3>1. lastInput[i] = withLastOne[w]
      BY <1>1, <1>2, <2>1, <2>4, <2>6
    <3>2. paddedByte(whole, n, rest, n, i) = lastByte(whole, rest)
      BY <1>1, <1>2, <2>2, <2>6
    <3> QED BY <1>6, <3>1, <3>2
  <2>7. CASE i > w
    <3>1. ~(i < w + 1) /\ base + i > whole
      BY <1>1, <1>2, <2>7
    <3>2. lastInput[i] = IF ~toAddFinalBlock /\ i >= W - C - 2 THEN tail(i) ELSE ZeroByte
      BY <2>1, <3>1
    <3>3. paddedByte(whole, n, rest, n, i) =
            IF i >= closingPlace /\ closesThere(whole, n)
            THEN closingByte(whole, n, rest, i) ELSE ZeroByte
      BY <1>1, <1>2, <2>2, <3>1
    <3> QED BY <1>2, <1>4, <2>3, <3>2, <3>3
  <2> QED BY <1>1, <2>5, <2>6, <2>7
<1>8. ASSUME NEW i \in 0 .. W - 1
      PROVE  addedInput[i] = paddedByte(whole, n, rest, n + 1, i)
  <2>1. addedInput[i] = IF i < W - C - 2 THEN ZeroByte ELSE tail(i)
    BY DEF addedInput
  <2>2. paddedByte(whole, n, rest, n + 1, i) =
           CASE (base + W) + i < whole -> messageByte((base + W) + i)
             [] (base + W) + i = whole -> lastByte(whole, rest)
             [] /\ (base + W) + i > whole /\ i >= closingPlace
                /\ n + 1 > n \/ closesThere(whole, n) -> closingByte(whole, n, rest, i)
             [] OTHER -> ZeroByte
    BY <1>2 DEF paddedByte
  <2>3. tail(i) = closingByte(whole, n, rest, i)
    BY <1>5
  <2> HIDE DEF B, W, w, base, r, C
  <2>4. (base + W) + i > whole /\ n + 1 > n
    BY <1>1, <1>2
  <2>5. paddedByte(whole, n, rest, n + 1, i) =
          IF i >= closingPlace THEN closingByte(whole, n, rest, i) ELSE ZeroByte
    BY <1>1, <1>2, <2>2, <2>4
  <2> QED BY <1>2, <2>1, <2>3, <2>5
<1> QED BY <1>3, <1>4, <1>7, <1>8

\* The full blocks begin the padded ones.
LEMMA FullBlocksArePadded ==
    ASSUME NEW n \in Nat, NEW whole \in Nat, n * InputBytes <= whole,
           NEW rest, NEW k \in 1 .. n, NEW i \in 0 .. InputBytes - 1
    PROVE  paddedByte(whole, n, rest, k - 1, i) = messageByte((k - 1) * InputBytes + i)
<1> DEFINE W == InputBytes  place == (k - 1) * W + i
<1>1. place < whole /\ place \in Nat
  <2>0. W \in Nat /\ n * W <= whole
    BY Sizes
  <2>1. i \in 0 .. W - 1
    OBVIOUS
  <2> HIDE DEF W
  <2>2. (k - 1) * W + W <= n * W /\ (k - 1) * W \in Nat /\ n * W \in Nat
    BY <2>0
  <2> QED BY <2>0, <2>1, <2>2
<1>2. paddedByte(whole, n, rest, k - 1, i) =
         CASE place < whole -> messageByte(place)
           [] place = whole -> lastByte(whole, rest)
           [] /\ place > whole /\ i >= closingPlace
              /\ k - 1 > n \/ closesThere(whole, n) -> closingByte(whole, n, rest, i)
           [] OTHER -> ZeroByte
  BY DEF paddedByte
<1> HIDE DEF place
<1>3. paddedByte(whole, n, rest, k - 1, i) = messageByte(place)
  BY <1>1, <1>2
<1> QED BY <1>3 DEF place

\* Final pads what is left and compresses it.
LEMMA FinalInv ==
    ASSUME HashInv, Final
    PROVE  HashInv'
<1>1. pc = "idle"
  BY DEF Final
<1>2. PICK n \in Nat : BlocksInv(n)
  BY <1>1 DEF HashInv
<1>3. IdleInv(n)
  BY <1>1, <1>2 DEF BlocksInv
<1> DEFINE whole == accepted \div ByteBits  rest == accepted % ByteBits  W == InputBytes
           closes == closesThere(whole, n)
           number == n + (IF closes THEN 1 ELSE 2)
           padded(k) == [input |-> [i \in 0 .. W - 1 |->
                                       paddedByte(whole, n, rest, k - 1, i)],
                         bits |-> IF k - 1 > n THEN NoCounter
                                  ELSE digitsOf((k - 1) * BlockBits),
                         salt |-> salt, smooth |-> k = number]
           last == [input |-> lastInput, bits |-> numOfBits, salt |-> salt,
                    smooth |-> ~toAddFinalBlock]
           added == [input |-> addedInput, bits |-> NoCounter, salt |-> salt,
                     smooth |-> TRUE]
<1>4. BlocksOf(accepted, salt) = [k \in 1 .. number |-> padded(k)]
  <2>1. whole \div W = n
    BY <1>3, PartsOfAccepted
  <2>2. BlocksOf(accepted, salt) = PaddedBlocks(whole, n, rest, salt)
    BY <2>1 DEF BlocksOf
  <2> QED BY <2>2 DEF PaddedBlocks
<1>5. /\ whole \in Nat /\ n * W <= whole
      /\ toAddFinalBlock <=> ~closes
      /\ \A i \in 0 .. W - 1 : lastInput[i] = paddedByte(whole, n, rest, n, i)
      /\ \A i \in 0 .. W - 1 : addedInput[i] = paddedByte(whole, n, rest, n + 1, i)
  BY <1>2, <1>3, FinalBytes
<1>6. currOutputBlock = FullBlocks(n, salt) /\ numOfBits = digitsOf(n * BlockBits)
  BY <1>2 DEF BlocksInv
<1>7. currOutputBlock = [k \in 1 .. n |-> padded(k)]
  <2>1. ASSUME NEW k \in 1 .. n
        PROVE  padded(k) = [input |-> [i \in 0 .. W - 1 |-> messageByte((k - 1) * W + i)],
                            bits |-> digitsOf((k - 1) * BlockBits),
                            salt |-> salt, smooth |-> FALSE]
    <3>1. \A i \in 0 .. W - 1 :
             paddedByte(whole, n, rest, k - 1, i) = messageByte((k - 1) * W + i)
      <4> HIDE DEF whole, rest
      <4> QED BY <1>5, FullBlocksArePadded
    <3>2. ~(k - 1 > n) /\ k # number
      OBVIOUS
    <3>3. [i \in 0 .. W - 1 |-> paddedByte(whole, n, rest, k - 1, i)]
          = [i \in 0 .. W - 1 |-> messageByte((k - 1) * W + i)]
      <4> HIDE DEF whole, rest, W
      <4> QED BY <3>1
    <3> HIDE DEF number, whole, rest
    <3> QED BY <3>2, <3>3
  <2>2. FullBlocks(n, salt) =
          [k \in 1 .. n |->
             [input |-> [i \in 0 .. W - 1 |-> messageByte((k - 1) * W + i)],
              bits |-> digitsOf((k - 1) * BlockBits), salt |-> salt, smooth |-> FALSE]]
    BY DEF FullBlocks
  <2> HIDE DEF padded
  <2> QED BY <1>6, <2>1, <2>2
<1>8. last = padded(n + 1)
  <2>1. (n + 1) - 1 = n /\ ~(n > n) /\ (n + 1 = number <=> closes)
    OBVIOUS
  <2>2. lastInput = [i \in 0 .. W - 1 |-> paddedByte(whole, n, rest, n, i)]
    <3>1. lastInput = [i \in 0 .. W - 1 |-> lastInput[i]]
      BY DEF lastInput
    <3> HIDE DEF W, whole, rest
    <3> QED BY <1>5, <3>1
  <2>3. (~toAddFinalBlock) = (n + 1 = number)
    BY <1>5, <2>1
  <2> HIDE DEF number, whole, rest, closes
  <2> QED BY <1>6, <2>1, <2>2, <2>3
<1>9. toAddFinalBlock => added = padded(n + 2)
  <2> HAVE toAddFinalBlock
  <2>1. (n + 2) - 1 = n + 1 /\ n + 1 > n /\ n + 2 = number
    BY <1>5
  <2>2. addedInput = [i \in 0 .. W - 1 |-> paddedByte(whole, n, rest, n + 1, i)]
    <3>1. addedInput = [i \in 0 .. W - 1 |-> addedInput[i]]
      BY DEF addedInput
    <3> HIDE DEF W, whole, rest
    <3> QED BY <1>5, <3>1
  <2> HIDE DEF number, whole, rest, closes
  <2> QED BY <2>1, <2>2
<1>10. currOutputBlock' = IF toAddFinalBlock
                          THEN Append(Append(currOutputBlock, last), added)
                          ELSE Append(currOutputBlock, last)
  BY DEF Final, Compressed
<1>11. currOutputBlock' = [k \in 1 .. number |-> padded(k)]
  <2>1. toAddFinalBlock <=> number = n + 2
    BY <1>5
  <2>2. ~toAddFinalBlock <=> number = n + 1
    BY <1>5
  <2> HIDE DEF padded, last, added, number
  <2>3. Append([k \in 1 .. n |-> padded(k)], padded(n + 1)) = [k \in 1 .. n + 1 |-> padded(k)]
    OBVIOUS
  <2>4. Append([k \in 1 .. n + 1 |-> padded(k)], padded(n + 2))
        = [k \in 1 .. n + 2 |-> padded(k)]
    OBVIOUS
  <2> QED BY <1>7, <1>8, <1>9, <1>10, <2>1, <2>2, <2>3, <2>4
<1>12. pc' = "done" /\ UNCHANGED <<caller, salt, hashLeft, accepted>>
       /\ caller # "none"
  BY DEF Final
<1>13. currOutputBlock' = BlocksOf(accepted', salt')
  <2> HIDE DEF padded, number
  <2> QED BY <1>4, <1>11, <1>12
<1> QED BY <1>12, <1>13 DEF HashInv

\* The invariant holds at all times.
LEMMA HashInvariance == HashInv /\ [HashNext]_hashVars => HashInv'
<1> SUFFICES ASSUME HashInv, [HashNext]_hashVars PROVE HashInv'
  OBVIOUS
<1>1. CASE InitState("stream", 0)
  BY <1>1, InitStateInv
<1>2. CASE \E n \in HashLengths : InitState("hash", n)
  BY <1>2, InitStateInv, HashAssumption
<1>3. CASE SetSalt
  BY <1>3, SetSaltInv
<1>4. CASE \E n \in Lengths : Update(n)
  BY <1>4, UpdateInv
<1>5. CASE HashUpdate
  BY <1>5, HashUpdateInv
<1>6. CASE UpdateBlock
  BY <1>6, UpdateBlockInv
<1>7. CASE EndUpdate
  BY <1>7, EndUpdateInv
<1>8. CASE Final
  BY <1>8, FinalInv
<1>9. CASE UNCHANGED hashVars
  <2>1. UNCHANGED <<salt, remaining, remainingSize, numOfBits, currOutputBlock,
                    caller, pc, data, databitlen, wasSingleBlockHandled, hashLeft,
                    accepted>>
    BY <1>9 DEF hashVars, hashState
  <2>2. ASSUME NEW n \in Nat, BlocksInv(n) PROVE BlocksInv(n)'
    BY <2>1, <2>2 DEF BlocksInv, IdleInv, LoopInv
  <2> QED BY <2>1, <2>2 DEF HashInv
<1> QED BY <1>1, <1>2, <1>3, <1>4, <1>5, <1>6, <1>7, <1>8, <1>9 DEF HashNext

-----------------------------------------------------------------------------
(* Messages of different lengths.                                          *)

\* The byte at the place where a message of these parts ends, or before it.
LEMMA ByteOfBlocks ==
    ASSUME NEW n \in Nat, NEW w \in 0 .. InputBytes - 1, NEW rest, NEW theSalt,
           NEW whole, whole = n * InputBytes + w,
           NEW b \in Nat, NEW i \in 0 .. InputBytes - 1, b * InputBytes + i <= whole
    PROVE  PaddedBlocks(whole, n, rest, theSalt)[b + 1].input[i] =
             IF b * InputBytes + i < whole THEN messageByte(b * InputBytes + i)
             ELSE lastByte(whole, rest)
<1> DEFINE W == InputBytes  place == b * W + i
           number == n + (IF closesThere(whole, n) THEN 1 ELSE 2)
<1>1. place \in Nat /\ whole \in Nat /\ b <= n
  <2>0. W \in Nat \ {0} /\ whole = n * W + w /\ w \in 0 .. W - 1 /\ i \in 0 .. W - 1
        /\ b * W + i <= whole
    BY Sizes
  <2> HIDE DEF W
  <2>1. b * W \in Nat /\ n * W \in Nat
    BY <2>0
  <2>2. ~(b >= n + 1)
    <3>1. SUFFICES ASSUME b >= n + 1 PROVE FALSE
      OBVIOUS
    <3>2. b * W >= (n + 1) * W /\ (n + 1) * W = n * W + W
      BY <2>0, <3>1
    <3> QED BY <2>0, <2>1, <3>2
  <2> QED BY <2>0, <2>1, <2>2
<1>2. b + 1 \in 1 .. number /\ (b + 1) - 1 = b
  BY <1>1
<1>3. PaddedBlocks(whole, n, rest, theSalt)[b + 1].input[i]
        = paddedByte(whole, n, rest, (b + 1) - 1, i)
  <2> DEFINE inputs(k) == [j \in 0 .. W - 1 |-> paddedByte(whole, n, rest, k - 1, j)]
             block(k) == [input |-> inputs(k),
                          bits |-> IF k - 1 > n THEN NoCounter
                                   ELSE digitsOf((k - 1) * BlockBits),
                          salt |-> theSalt, smooth |-> k = number]
  <2>1. PaddedBlocks(whole, n, rest, theSalt) = [k \in 1 .. number |-> block(k)]
    BY DEF PaddedBlocks
  <2>2. block(b + 1).input = inputs(b + 1)
    <3> HIDE DEF inputs, number
    <3> QED OBVIOUS
  <2>3. inputs(b + 1)[i] = paddedByte(whole, n, rest, (b + 1) - 1, i)
    OBVIOUS
  <2> HIDE DEF block, inputs, number
  <2> QED BY <1>2, <2>1, <2>2, <2>3
<1>4. paddedByte(whole, n, rest, b, i) =
         CASE place < whole -> messageByte(place)
           [] place = whole -> lastByte(whole, rest)
           [] /\ place > whole /\ i >= closingPlace
              /\ b > n \/ closesThere(whole, n) -> closingByte(whole, n, rest, i)
           [] OTHER -> ZeroByte
  BY DEF paddedByte
<1>5. place <= whole
  OBVIOUS
<1> HIDE DEF place
<1>6. paddedByte(whole, n, rest, b, i) =
        IF place < whole THEN messageByte(place) ELSE lastByte(whole, rest)
  BY <1>1, <1>4, <1>5
<1> QED BY <1>2, <1>3, <1>6 DEF place

\* A last byte is no byte of another message, and tells the rest.
LEMMA LastBytesDiffer ==
    ASSUME NEW whole, NEW e \in Nat, NEW d \in Nat
    PROVE  /\ lastByte(whole, e) # messageByte(whole)
           /\ e # d => lastByte(whole, e) # lastByte(whole, d)
  BY DEF lastByte, messageByte, OneByte, withOne, partialByte

\* Padded messages of different lengths differ.
LEMMA LongerDiffers ==
    ASSUME NEW n \in Nat, NEW w \in 0 .. InputBytes - 1, NEW e \in Nat,
           NEW m \in Nat, NEW v \in 0 .. InputBytes - 1, NEW d \in Nat,
           NEW theSalt, NEW whole, whole = n * InputBytes + w,
           NEW other, other = m * InputBytes + v,
           whole < other \/ (whole = other /\ e # d)
    PROVE  PaddedBlocks(whole, n, e, theSalt) # PaddedBlocks(other, m, d, theSalt)
<1>1. whole \in Nat /\ other \in Nat
  BY BlockPlaces, Sizes
<1>2. PaddedBlocks(whole, n, e, theSalt)[n + 1].input[w] = lastByte(whole, e)
  <2>1. n * InputBytes + w <= whole /\ ~(n * InputBytes + w < whole)
    BY <1>1
  <2> QED BY <2>1, ByteOfBlocks
<1>3. PaddedBlocks(other, m, d, theSalt)[n + 1].input[w]
        = IF whole < other THEN messageByte(whole) ELSE lastByte(other, d)
  <2>1. n * InputBytes + w <= other
    BY <1>1
  <2>2. PaddedBlocks(other, m, d, theSalt)[n + 1].input[w]
          = IF n * InputBytes + w < other THEN messageByte(n * InputBytes + w)
            ELSE lastByte(other, d)
    BY <2>1, ByteOfBlocks
  <2> QED BY <2>2
<1>4. lastByte(whole, e) # IF whole < other THEN messageByte(whole) ELSE lastByte(other, d)
  BY <1>1, LastBytesDiffer
<1> QED BY <1>2, <1>3, <1>4

\* The same, for lengths in bits.
LEMMA LengthsDiffer ==
    ASSUME NEW x \in Nat, NEW y \in Nat, x # y, NEW theSalt
    PROVE  BlocksOf(x, theSalt) # BlocksOf(y, theSalt)
<1> DEFINE W == InputBytes  B == ByteBits
<1>1. PICK n \in Nat, w \in 0 .. W - 1, e \in 0 .. B - 1 :
         x \div B = n * W + w /\ (x \div B) \div W = n /\ x % B = e
  BY LengthParts
<1>2. PICK m \in Nat, v \in 0 .. W - 1, d \in 0 .. B - 1 :
         y \div B = m * W + v /\ (y \div B) \div W = m /\ y % B = d
  BY LengthParts
<1> DEFINE whole == x \div B  other == y \div B
<1>3. /\ BlocksOf(x, theSalt) = PaddedBlocks(whole, n, e, theSalt)
      /\ BlocksOf(y, theSalt) = PaddedBlocks(other, m, d, theSalt)
  BY <1>1, <1>2 DEF BlocksOf
<1>4. B \in Nat \ {0} /\ e \in Nat /\ d \in Nat
  BY Sizes
<1>5. whole \in Nat /\ other \in Nat /\ x = B * whole + e /\ y = B * other + d
  <2> HIDE DEF B
  <2> QED BY <1>1, <1>2, <1>4, Division
<1>6. whole = n * W + w /\ other = m * W + v
  BY <1>1, <1>2
<1> HIDE DEF whole, other
<1>7. whole < other \/ other < whole \/ (whole = other /\ e # d)
  BY <1>5
<1>8. CASE whole < other \/ (whole = other /\ e # d)
  <2>1. PaddedBlocks(whole, n, e, theSalt) # PaddedBlocks(other, m, d, theSalt)
    BY <1>4, <1>6, <1>8, LongerDiffers
  <2> QED BY <1>3, <2>1 DEF whole, other
<1>9. CASE other < whole
  <2>1. PaddedBlocks(other, m, d, theSalt) # PaddedBlocks(whole, n, e, theSalt)
    BY <1>4, <1>6, <1>9, LongerDiffers
  <2> QED BY <1>3, <2>1 DEF whole, other
<1> QED BY <1>7, <1>8, <1>9

-----------------------------------------------------------------------------
\* However Update is called and whatever Hash is given, Final has compressed
\* the padded blocks of the bits that were taken, and messages of different
\* lengths never compress the same blocks (SHA3.c): for every size of byte,
\* block and counter for which the padding fits a block and the bits of a
\* block fit two digits of the counter.
THEOREM DigestsDependOnTheMessage == HashSpec => []HashRight
<1>1. HashInv => HashRight
  <2> SUFFICES ASSUME HashInv, pc = "done",
                      NEW other \in Lengths \cup HashLengths, other # accepted
               PROVE  /\ currOutputBlock = BlocksOf(accepted, salt)
                      /\ BlocksOf(other, salt) # currOutputBlock
    BY DEF HashRight, HashInv
  <2>1. currOutputBlock = BlocksOf(accepted, salt) /\ accepted \in Nat
    BY DEF HashInv
  <2>2. other \in Nat
    BY HashAssumption
  <2> QED BY <2>1, <2>2, LengthsDiffer
<1> QED BY <1>1, HashInitInv, HashInvariance, PTL DEF HashSpec
=============================================================================
