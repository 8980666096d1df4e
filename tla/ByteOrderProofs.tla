-------------------------- MODULE ByteOrderProofs --------------------------
(***************************************************************************)
(* A number that the prepender has written into a length field is the      *)
(* number that the decoder reads from it, in either byte order and for     *)
(* fields of every length.  The lemmas ahead of that result give induction *)
(* over numbers, and functions defined by recursion, a form that the       *)
(* provers can use: sets and functions in the place of operators.          *)
(***************************************************************************)
EXTENDS FrameDecoder, WellFoundedInduction, TLAPS

-----------------------------------------------------------------------------
(***************************************************************************)
(* Induction and recursion over the natural numbers                        *)
(***************************************************************************)

\* A non-empty set of numbers has a least element.
LEMMA Least ==
    ASSUME NEW T \in SUBSET Nat, T # {}
    PROVE  \E n \in T : \A m \in T : n <= m
<1>1. IsWellFoundedOn(OpToRel(<, Nat), Nat)
  BY NatLessThanWellFounded
<1>2. PICK x \in T : \A y \in T : ~ (<<y, x>> \in OpToRel(<, Nat))
  BY <1>1, WFMin
<1>3. \A y \in T : ~ (y < x)
  BY <1>2 DEF OpToRel
<1> QED
  BY <1>3

\* A set with 0, and with the successor of each of its numbers, has all numbers.
LEMMA Induction ==
    ASSUME NEW S, 0 \in S, \A n \in Nat : n \in S => n + 1 \in S
    PROVE  Nat \subseteq S
<1> SUFFICES ASSUME ~ (Nat \subseteq S) PROVE FALSE
  OBVIOUS
<1>1. PICK n \in Nat \ S : \A m \in Nat \ S : n <= m
  BY Least
<1>2. n # 0 /\ n - 1 \in Nat
  BY <1>1
<1>3. n - 1 \in S
  BY <1>1, <1>2
<1> QED
  BY <1>1, <1>2, <1>3

\* A function can be defined by recursion: c is its value at 0, and s computes
\* each value from the one before.
HasRecursion(T) ==
    \A c \in T : \A s \in [Nat -> [T -> T]] :
        \E f \in [Nat -> T] : f[0] = c /\ \A n \in Nat : f[n + 1] = s[n][f[n]]

LEMMA Recursion ==
    ASSUME NEW T
    PROVE  HasRecursion(T)
<1> SUFFICES ASSUME NEW c \in T, NEW s \in [Nat -> [T -> T]]
             PROVE  \E f \in [Nat -> T] :
                      f[0] = c /\ \A n \in Nat : f[n + 1] = s[n][f[n]]
  BY DEF HasRecursion
<1> DEFINE Run(n) == {g \in [0 .. n -> T] :
                        g[0] = c /\ \A m \in 0 .. n - 1 : g[m + 1] = s[m][g[m]]}
<1>1. \A n \in Nat : Run(n) # {}
  <2> DEFINE S == {n \in Nat : Run(n) # {}}
  <2>1. 0 \in S
    <3>1. [i \in 0 .. 0 |-> c] \in Run(0)
      OBVIOUS
    <3> QED
      BY <3>1
  <2>2. ASSUME NEW n \in Nat, n \in S
        PROVE  n + 1 \in S
    <3>1. PICK g \in [0 .. n -> T] :
            g[0] = c /\ \A m \in 0 .. n - 1 : g[m + 1] = s[m][g[m]]
      BY <2>2
    <3> DEFINE h == [i \in 0 .. n + 1 |-> IF i = n + 1 THEN s[n][g[n]] ELSE g[i]]
    <3>2. s[n][g[n]] \in T
      BY <3>1
    <3>3. h \in [0 .. n + 1 -> T]
      BY <3>1, <3>2
    <3>4. h[0] = c /\ \A m \in 0 .. (n + 1) - 1 : h[m + 1] = s[m][h[m]]
      BY <3>1
    <3>5. h \in Run(n + 1)
      BY <3>3, <3>4
    <3> HIDE DEF Run
    <3>6. n + 1 \in Nat
      OBVIOUS
    <3> QED
      BY <3>5, <3>6
  <2> HIDE DEF S
  <2>3. Nat \subseteq S
    BY <2>1, <2>2, Induction
  <2> QED
    BY <2>3 DEF S
<1>2. \A a, b, m \in Nat : m <= a /\ m <= b =>
        \A g \in Run(a), h \in Run(b) : g[m] = h[m]
  <2> DEFINE S == {m \in Nat : \A a, b \in Nat : m <= a /\ m <= b =>
                                 \A g \in Run(a), h \in Run(b) : g[m] = h[m]}
  <2>1. 0 \in S
    OBVIOUS
  <2>2. ASSUME NEW m \in Nat, m \in S
        PROVE  m + 1 \in S
    <3> SUFFICES ASSUME NEW a \in Nat, NEW b \in Nat, m + 1 <= a, m + 1 <= b,
                        NEW g \in Run(a), NEW h \in Run(b)
                 PROVE  g[m + 1] = h[m + 1]
      <4> HIDE DEF Run
      <4> QED
        OBVIOUS
    <3>1. g[m] = h[m]
      <4>1. m <= a /\ m <= b
        OBVIOUS
      <4> HIDE DEF Run
      <4> QED
        BY <2>2, <4>1
    <3>2. m \in 0 .. a - 1 /\ m \in 0 .. b - 1
      OBVIOUS
    <3>3. g[m + 1] = s[m][g[m]] /\ h[m + 1] = s[m][h[m]]
      BY <3>2
    <3> QED
      BY <3>1, <3>3
  <2> HIDE DEF S
  <2>3. Nat \subseteq S
    BY <2>1, <2>2, Induction
  <2> HIDE DEF Run
  <2> QED
    BY <2>3 DEF S
<1> DEFINE chosen(n) == CHOOSE g \in Run(n) : TRUE
           f == [n \in Nat |-> chosen(n)[n]]
<1>3. \A n \in Nat : chosen(n) \in Run(n)
  <2> HIDE DEF Run
  <2> QED
    BY <1>1
<1> HIDE DEF chosen
<1>4. f \in [Nat -> T]
  <2> SUFFICES ASSUME NEW n \in Nat
               PROVE  chosen(n)[n] \in T
    OBVIOUS
  <2>1. chosen(n) \in [0 .. n -> T]
    BY <1>3
  <2> QED
    BY <2>1
<1>5. f[0] = c
  BY <1>3
<1>6. ASSUME NEW n \in Nat
      PROVE  f[n + 1] = s[n][f[n]]
  <2>1. chosen(n + 1)[n] = chosen(n)[n]
    <3>1. n <= n + 1 /\ n <= n /\ n + 1 \in Nat
      OBVIOUS
    <3>2. chosen(n + 1) \in Run(n + 1) /\ chosen(n) \in Run(n)
      BY <1>3, <3>1
    <3> HIDE DEF Run
    <3> QED
      BY <1>2, <3>1, <3>2
  <2>2. n \in 0 .. (n + 1) - 1
    OBVIOUS
  <2>3. chosen(n + 1)[n + 1] = s[n][chosen(n + 1)[n]]
    BY <1>3, <2>2
  <2> QED
    BY <2>1, <2>3
<1> QED
  BY <1>4, <1>5, <1>6

LEMMA NatRecursion ==
    \A c \in Nat : \A s \in [Nat -> [Nat -> Nat]] :
        \E f \in [Nat -> Nat] : f[0] = c /\ \A n \in Nat : f[n + 1] = s[n][f[n]]
<1>1. HasRecursion(Nat)
  BY Recursion
<1> QED
  BY <1>1 DEF HasRecursion

-----------------------------------------------------------------------------
(***************************************************************************)
(* Power and Value                                                         *)
(***************************************************************************)

\* Power is what its definition says.
LEMMA PowerRecursion ==
    Power = [n \in Nat |-> IF n = 0 THEN 1 ELSE Radix * Power[n - 1]]
<1> DEFINE s == [n \in Nat |-> [v \in Nat |-> Radix * v]]
<1>1. s \in [Nat -> [Nat -> Nat]]
  BY BaseAssumption
<1>2. PICK f \in [Nat -> Nat] : f[0] = 1 /\ \A n \in Nat : f[n + 1] = s[n][f[n]]
  <2> HIDE DEF s
  <2>1. 1 \in Nat
    OBVIOUS
  <2> QED
    BY <1>1, <2>1, NatRecursion
<1>3. \A n \in Nat : f[n + 1] = Radix * f[n]
  BY <1>2
<1>4. f = [n \in Nat |-> IF n = 0 THEN 1 ELSE Radix * f[n - 1]]
  <2>1. \A n \in Nat : f[n] = IF n = 0 THEN 1 ELSE Radix * f[n - 1]
    <3> TAKE n \in Nat
    <3>1. CASE n = 0
      BY <3>1, <1>2
    <3>2. CASE n # 0
      <4>1. n - 1 \in Nat /\ (n - 1) + 1 = n
        BY <3>2
      <4> QED
        BY <4>1, <1>3, <3>2
    <3> QED
      BY <3>1, <3>2
  <2> QED
    BY <2>1
<1>5. Power = CHOOSE g : g = [n \in Nat |-> IF n = 0 THEN 1 ELSE Radix * g[n - 1]]
  BY DEF Power
<1> QED
  BY <1>4, <1>5, Zenon

LEMMA PowerZero == Power[0] = 1
  BY PowerRecursion

LEMMA PowerNext == \A n \in Nat : Power[n + 1] = Radix * Power[n]
<1> TAKE n \in Nat
<1>1. n + 1 \in Nat /\ n + 1 # 0 /\ (n + 1) - 1 = n
  OBVIOUS
<1>2. Power[n + 1] = Radix * Power[(n + 1) - 1]
  BY <1>1, PowerRecursion
<1> QED
  BY <1>1, <1>2

\* The number of values of an integer is positive.
LEMMA PowerType == \A n \in Nat : Power[n] \in Nat \ {0}
<1> DEFINE S == {n \in Nat : Power[n] \in Nat \ {0}}
<1>1. 0 \in S
  BY PowerZero
<1>2. ASSUME NEW n \in Nat, n \in S
      PROVE  n + 1 \in S
  <2>1. Power[n] \in Nat \ {0} /\ Power[n + 1] = Radix * Power[n]
    BY <1>2, PowerNext
  <2>2. \A p \in Nat \ {0} : Radix * p \in Nat \ {0}
    BY BaseAssumption
  <2> QED
    BY <2>1, <2>2
<1> HIDE DEF S
<1>3. Nat \subseteq S
  BY <1>1, <1>2, Induction
<1> QED
  BY <1>3 DEF S

\* Value is computed from left to right, as its definition says.
LEMMA ValueRecursion ==
    ASSUME NEW bytes \in Seq(Bytes), NEW order \in BOOLEAN
    PROVE  LET n == Len(bytes)
           IN  \E value \in [0 .. n -> Nat] :
                 /\ value[0] = 0
                 /\ \A i \in 1 .. n : value[i] =
                      Radix * value[i - 1] + bytes[IF order THEN i ELSE n + 1 - i]
                 /\ Value(bytes, order) = value[n]
<1> DEFINE n == Len(bytes)
           at(i) == bytes[IF order THEN i ELSE n + 1 - i]
           s == [i \in Nat |-> [v \in Nat |-> IF i < n THEN Radix * v + at(i + 1) ELSE v]]
<1>1. n \in Nat /\ \A i \in 1 .. n : at(i) \in Nat
  <2>1. \A i \in 1 .. n : bytes[i] \in Bytes
    OBVIOUS
  <2>2. \A i \in 1 .. n : n + 1 - i \in 1 .. n
    OBVIOUS
  <2> QED
    BY <2>1, <2>2, BaseAssumption DEF Bytes
<1> HIDE DEF n, at
<1>2. s \in [Nat -> [Nat -> Nat]]
  <2>1. ASSUME NEW i \in Nat, NEW v \in Nat
        PROVE  (IF i < n THEN Radix * v + at(i + 1) ELSE v) \in Nat
    <3>1. CASE i < n
      <4>1. at(i + 1) \in Nat /\ Radix * v \in Nat
        BY <1>1, <3>1, BaseAssumption
      <4> QED
        BY <3>1, <4>1
    <3> QED
      BY <3>1
  <2> QED
    BY <2>1
<1>3. PICK f \in [Nat -> Nat] : f[0] = 0 /\ \A i \in Nat : f[i + 1] = s[i][f[i]]
  <2> HIDE DEF s
  <2>1. 0 \in Nat
    OBVIOUS
  <2> QED
    BY <1>2, <2>1, NatRecursion
<1> DEFINE g == [i \in 0 .. n |-> f[i]]
<1>4. g \in [0 .. n -> Nat] /\ g[0] = 0
  BY <1>1, <1>3
<1>5. \A i \in 1 .. n : g[i] = Radix * g[i - 1] + at(i)
  <2> TAKE i \in 1 .. n
  <2>1. i - 1 \in Nat /\ i - 1 < n /\ (i - 1) + 1 = i /\ i - 1 \in 0 .. n /\ i \in 0 .. n
    BY <1>1
  <2>2. f[(i - 1) + 1] = Radix * f[i - 1] + at((i - 1) + 1)
    BY <1>3, <2>1
  <2> QED
    BY <2>1, <2>2
<1>6. g = [i \in 0 .. n |-> IF i = 0 THEN 0 ELSE Radix * g[i - 1] + at(i)]
  <2>1. \A i \in 0 .. n : g[i] = IF i = 0 THEN 0 ELSE Radix * g[i - 1] + at(i)
    <3> HIDE DEF g
    <3> QED
      BY <1>1, <1>4, <1>5
  <2> QED
    BY <2>1
<1> HIDE DEF g
<1> DEFINE w == CHOOSE w : w = [i \in 0 .. n |-> IF i = 0 THEN 0 ELSE Radix * w[i - 1] + at(i)]
<1>7. w = [i \in 0 .. n |-> IF i = 0 THEN 0 ELSE Radix * w[i - 1] + at(i)]
  BY <1>6, Zenon
<1>8. Value(bytes, order) = w[n]
  BY DEF Value, n, at
<1> HIDE DEF w
<1>9. w[0] = 0 /\ \A i \in 1 .. n : w[i] = Radix * w[i - 1] + at(i)
  <2>1. w[0] = 0
    BY <1>1, <1>7
  <2>2. ASSUME NEW i \in 1 .. n
        PROVE  w[i] = Radix * w[i - 1] + at(i)
    <3>1. i \in 0 .. n /\ i # 0
      BY <1>1
    <3> QED
      BY <1>7, <3>1
  <2> QED
    BY <2>1, <2>2
<1>10. w \in [0 .. n -> Nat]
  <2> DEFINE S == {i \in Nat : i <= n => w[i] \in Nat}
  <2>1. 0 \in S
    BY <1>9
  <2>2. ASSUME NEW i \in Nat, i \in S
        PROVE  i + 1 \in S
    <3> SUFFICES ASSUME i + 1 <= n
                 PROVE  w[i + 1] \in Nat
      OBVIOUS
    <3>1. i + 1 \in 1 .. n /\ (i + 1) - 1 = i /\ i <= n
      BY <1>1
    <3>2. w[i] \in Nat /\ at(i + 1) \in Nat
      BY <2>2, <3>1, <1>1
    <3>3. w[i + 1] = Radix * w[i] + at(i + 1)
      BY <1>9, <3>1
    <3>4. Radix * w[i] \in Nat
      <4>1. \A a \in Nat : Radix * a \in Nat
        BY BaseAssumption
      <4> QED
        BY <3>2, <4>1
    <3>5. \A a, b \in Nat : a + b \in Nat
      OBVIOUS
    <3> QED
      BY <3>2, <3>3, <3>4, <3>5, Zenon
  <2> HIDE DEF S
  <2>3. Nat \subseteq S
    BY <2>1, <2>2, Induction
  <2>4. \A i \in 0 .. n : w[i] \in Nat
    BY <1>1, <2>3 DEF S
  <2> QED
    BY <1>7, <2>4
<1> QED
  BY <1>8, <1>9, <1>10 DEF n, at

-----------------------------------------------------------------------------
(***************************************************************************)
(* What is written is what is read                                         *)
(***************************************************************************)

\* A quotient is the number that leaves a remainder smaller than the divisor.
LEMMA QuotientUnique ==
    ASSUME NEW v \in Nat, NEW d \in Nat \ {0}, NEW q \in Nat, NEW r \in 0 .. d - 1,
           v = d * q + r
    PROVE  v \div d = q
<1> DEFINE p == v \div d
           t == v % d
<1>1. p \in Nat /\ t \in 0 .. d - 1 /\ v = d * p + t
  OBVIOUS
<1> HIDE DEF p, t
<1>2. ASSUME p < q PROVE FALSE
  <2>1. p + 1 <= q
    BY <1>1, <1>2
  <2>2. d * (p + 1) <= d * q
    BY <1>1, <2>1
  <2>3. d * (p + 1) = d * p + d
    BY <1>1
  <2> QED
    BY <1>1, <2>2, <2>3
<1>3. ASSUME q < p PROVE FALSE
  <2>1. q + 1 <= p
    BY <1>1, <1>3
  <2>2. d * (q + 1) <= d * p
    BY <1>1, <2>1
  <2>3. d * (q + 1) = d * q + d
    BY <1>1
  <2> QED
    BY <1>1, <2>2, <2>3
<1>4. p = q
  BY <1>1, <1>2, <1>3
<1> QED
  BY <1>4 DEF p

LEMMA QuotientRemainder ==
    ASSUME NEW v \in Nat, NEW d \in Nat \ {0}
    PROVE  v \div d \in Nat /\ v % d \in 0 .. d - 1 /\ v = d * (v \div d) + (v % d)
  OBVIOUS

LEMMA QuotientType == \A v \in Nat, d \in Nat \ {0} : v \div d \in Nat
  OBVIOUS

\* Dividing by two numbers in turn is dividing by their product.
LEMMA QuotientTwice ==
    ASSUME NEW v \in Nat, NEW d \in Nat \ {0}, NEW e \in Nat \ {0}
    PROVE  v \div (e * d) = (v \div d) \div e
<1> DEFINE q == v \div d
           s == v % d
           a == q \div e
           r == q % e
<1>1. q \in Nat /\ s \in 0 .. d - 1 /\ v = d * q + s
  OBVIOUS
<1> HIDE DEF q, s
<1>2. a \in Nat /\ r \in 0 .. e - 1 /\ q = e * a + r
  BY <1>1
<1> HIDE DEF a, r
<1>3. e * d \in Nat \ {0}
  OBVIOUS
<1>4. d * q = (e * d) * a + d * r
  <2>1. d * q = d * (e * a + r)
    BY <1>2
  <2>2. d * (e * a + r) = d * (e * a) + d * r
    BY <1>2
  <2>3. d * (e * a) = (e * d) * a
    BY <1>2
  <2> QED
    BY <2>1, <2>2, <2>3
<1>5. d * r + s \in 0 .. (e * d) - 1
  <2>1. d * r <= d * (e - 1)
    BY <1>2
  <2>2. d * (e - 1) = e * d - d
    OBVIOUS
  <2>3. d * r \in Nat
    BY <1>2
  <2> QED
    BY <1>1, <1>3, <2>1, <2>2, <2>3
<1>6. v = (e * d) * a + (d * r + s)
  <2>1. d * q \in Int /\ (e * d) * a \in Int /\ d * r \in Int /\ s \in Int
    BY <1>1, <1>2
  <2> QED
    BY <1>1, <1>4, <2>1
<1>7. v \div (e * d) = a
  BY <1>2, <1>3, <1>5, <1>6, QuotientUnique
<1> QED
  BY <1>7 DEF a, q

\* The digits that Written produces are bytes.
LEMMA WrittenType ==
    ASSUME NEW v \in Nat, NEW n \in Nat, NEW order \in BOOLEAN
    PROVE  /\ Written(v, n, order) \in Seq(Bytes)
           /\ Len(Written(v, n, order)) = n
<1>1. ASSUME NEW i \in 1 .. n
      PROVE  (v \div Power[IF order THEN n - i ELSE i - 1]) % Radix \in Bytes
  <2> DEFINE p == Power[IF order THEN n - i ELSE i - 1]
  <2>1. p \in Nat \ {0}
    <3>1. (IF order THEN n - i ELSE i - 1) \in Nat
      OBVIOUS
    <3> QED
      BY <3>1, PowerType
  <2> HIDE DEF p
  <2>2. v \div p \in Nat
    BY <2>1, QuotientType
  <2>3. \A q \in Nat : q % Radix \in 0 .. Radix - 1
    BY BaseAssumption
  <2> QED
    BY <2>2, <2>3 DEF Bytes, p
<1>2. Written(v, n, order) \in [1 .. n -> Bytes]
  BY <1>1 DEF Written
<1>3. \A f : f \in [1 .. n -> Bytes] => f \in Seq(Bytes) /\ Len(f) = n
  OBVIOUS
<1> QED
  BY <1>2, <1>3

\* What writeBE and writeLE of the prepender put into a length field of n bytes,
\* readBE and readLE of the decoder read from it: any number that fits.
THEOREM ReadsWhatIsWritten ==
    ASSUME NEW n \in Nat, NEW v \in 0 .. Power[n] - 1, NEW order \in BOOLEAN
    PROVE  Value(Written(v, n, order), order) = v
<1> DEFINE w == Written(v, n, order)
<1>1. v \in Nat /\ w \in Seq(Bytes) /\ Len(w) = n
  <2>1. v \in Nat
    BY PowerType
  <2> QED
    BY <2>1, WrittenType
<1> HIDE DEF w
<1>2. PICK value \in [0 .. n -> Nat] :
        /\ value[0] = 0
        /\ \A i \in 1 .. n : value[i] =
             Radix * value[i - 1] + w[IF order THEN i ELSE n + 1 - i]
        /\ Value(w, order) = value[n]
  BY <1>1, ValueRecursion
<1>3. ASSUME NEW i \in 1 .. n
      PROVE  w[IF order THEN i ELSE n + 1 - i] = (v \div Power[n - i]) % Radix
  <2> DEFINE at == IF order THEN i ELSE n + 1 - i
  <2>1. at \in 1 .. n /\ (IF order THEN n - at ELSE at - 1) = n - i
    OBVIOUS
  <2> HIDE DEF at
  <2>2. w[at] = (v \div Power[IF order THEN n - at ELSE at - 1]) % Radix
    BY <2>1 DEF w, Written
  <2> QED
    BY <2>1, <2>2 DEF at
\* The first i digits amount to what is left of v without its last n - i digits.
<1> DEFINE S == {i \in Nat : i <= n => value[i] = v \div Power[n - i]}
<1>4. 0 \in S
  <2>1. Power[n] \in Nat \ {0}
    BY PowerType
  <2>2. n - 0 = n
    OBVIOUS
  <2>3. v \div Power[n] = 0
    BY <2>1, <1>1, QuotientUnique
  <2> QED
    BY <1>2, <2>2, <2>3
<1>5. ASSUME NEW i \in Nat, i \in S
      PROVE  i + 1 \in S
  <2> SUFFICES ASSUME i + 1 <= n
               PROVE  value[i + 1] = v \div Power[n - (i + 1)]
    OBVIOUS
  <2> DEFINE j == i + 1
             d == Power[n - j]
             q == v \div d
  <2>1. j \in 1 .. n /\ j - 1 = i /\ n - j \in Nat /\ n - i = (n - j) + 1 /\ i <= n
    OBVIOUS
  <2>2. d \in Nat \ {0} /\ Power[n - i] = Radix * d
    BY <2>1, PowerType, PowerNext
  <2> HIDE DEF d
  <2>3. value[i] = q \div Radix
    <3>1. value[i] = v \div (Radix * d)
      BY <1>5, <2>1, <2>2
    <3>2. Radix \in Nat \ {0}
      BY BaseAssumption
    <3>3. v \div (Radix * d) = (v \div d) \div Radix
      <4>1. v \in Nat /\ d \in Nat \ {0}
        BY <1>1, <2>2
      <4> QED
        BY <3>2, <4>1, QuotientTwice, Zenon
    <3> QED
      BY <3>1, <3>3, Zenon
  <2>4. value[j] = Radix * value[i] + (q % Radix)
    <3> HIDE DEF j
    <3>1. j - 1 = i
      BY <2>1
    <3>2. value[j] = Radix * value[j - 1] + w[IF order THEN j ELSE n + 1 - j]
      BY <1>2, <2>1
    <3>3. w[IF order THEN j ELSE n + 1 - j] = q % Radix
      BY <1>3, <2>1 DEF d
    <3> HIDE DEF q
    <3> QED
      BY <3>1, <3>2, <3>3, Zenon
  <2>5. q \in Nat
    BY <1>1, <2>2, QuotientType
  <2> HIDE DEF q
  <2>6. q = Radix * (q \div Radix) + (q % Radix)
    <3>1. Radix \in Nat \ {0}
      BY BaseAssumption
    <3> QED
      BY <2>5, <3>1, QuotientRemainder
  <2>7. value[j] = q
    BY <2>3, <2>4, <2>6
  <2> QED
    BY <2>7 DEF q, d
<1> HIDE DEF S
<1>6. Nat \subseteq S
  BY <1>4, <1>5, Induction
<1>7. value[n] = v \div Power[n - n]
  BY <1>6 DEF S
<1>8. n - n = 0 /\ v \div 1 = v
  BY <1>1
<1> QED
  BY <1>2, <1>7, <1>8, PowerZero DEF w

=============================================================================
