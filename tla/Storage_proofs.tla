---------------------------- MODULE Storage_proofs ----------------------------
(***************************************************************************)
(* TLAPS proofs about the persistent slots: what crumb_storage_parse_i32   *)
(* reads, for every 32-bit integer and every text; and the save and load   *)
(* protocol, for any number of processes, slots, files and faults.         *)
(***************************************************************************)
EXTENDS SlotText, TLAPS, SequenceTheorems, WellFoundedInduction

USE StorageConstants DEF StorageConstants

----------------------------------------------------------------------------
(* Induction over the natural numbers, by sets. *)

\* A set of numbers with 0 and with the successor of each of its members is all of Nat.
LEMMA Induction ==
    ASSUME NEW S, 0 \in S, \A n \in Nat : n \in S => n + 1 \in S
    PROVE  \A n \in Nat : n \in S
  <1> DEFINE Bad == {n \in Nat : n \notin S}
  <1> SUFFICES ASSUME Bad # {} PROVE FALSE
    OBVIOUS
  <1>1. PICK m \in Bad : \A y \in Bad : ~(<<y, m>> \in OpToRel(<, Nat))
    <2>1. PICK b : b \in Bad
      OBVIOUS
    <2>2. Bad \subseteq Nat
      OBVIOUS
    <2> QED
      BY <2>1, <2>2, NatLessThanWellFounded, WFMin
  <1>2. \A y \in Nat : y < m => y \in S
    BY <1>1 DEF OpToRel
  <1>3. m # 0 /\ m - 1 \in Nat /\ m - 1 < m /\ (m - 1) + 1 = m
    OBVIOUS
  <1> QED
    BY <1>2, <1>3

----------------------------------------------------------------------------
(* Decimal digits. *)

LEMMA TenTimes ==
    ASSUME NEW j \in 0..9
    PROVE  10^j \in Nat \ {0} /\ 10^(j + 1) = 10 * 10^j
  <1>1. /\ 10^0 = 1 /\ 10^1 = 10 /\ 10^2 = 100 /\ 10^3 = 1000 /\ 10^4 = 10000 /\ 10^5 = 100000
        /\ 10^6 = 1000000 /\ 10^7 = 10000000 /\ 10^8 = 100000000 /\ 10^9 = 1000000000
        /\ 10^10 = 10000000000
    BY SMT
  <1>2. CASE j = 0
    BY <1>1, <1>2, SMT
  <1>3. CASE j = 1
    BY <1>1, <1>3, SMT
  <1>4. CASE j = 2
    BY <1>1, <1>4, SMT
  <1>5. CASE j = 3
    BY <1>1, <1>5, SMT
  <1>6. CASE j = 4
    BY <1>1, <1>6, SMT
  <1>7. CASE j = 5
    BY <1>1, <1>7, SMT
  <1>8. CASE j = 6
    BY <1>1, <1>8, SMT
  <1>9. CASE j = 7
    BY <1>1, <1>9, SMT
  <1>10. CASE j = 8
    BY <1>1, <1>10, SMT
  <1>11. CASE j = 9
    BY <1>1, <1>11, SMT
  <1> QED
    BY <1>2, <1>3, <1>4, <1>5, <1>6, <1>7, <1>8, <1>9, <1>10, <1>11, SMT

\* The powers that a 32-bit integer has digits for.
LEMMA PowersType == \A j \in 0..10 : 10^j \in Nat \ {0}
  <1>1. 10^10 = 10000000000
    BY SMT
  <1> SUFFICES ASSUME NEW j \in 0..10 PROVE 10^j \in Nat \ {0}
    OBVIOUS
  <1>2. CASE j \in 0..9
    BY <1>2, TenTimes
  <1>3. CASE j = 10
    BY <1>1, <1>3, SMT
  <1> QED
    BY <1>2, <1>3

\* Quotient and remainder are determined.
LEMMA Quotient ==
    ASSUME NEW m \in Nat \ {0}, NEW a \in Nat, NEW r \in 0..m - 1
    PROVE  (a * m + r) \div m = a /\ (a * m + r) % m = r
  <1> DEFINE x == a * m + r
             q == x \div m
             s == x % m
  <1>0. x \in Nat
    OBVIOUS
  <1> HIDE DEF x
  <1>1. q \in Int /\ s \in 0..m - 1 /\ x = m * q + s
    BY <1>0
  <1> HIDE DEF q, s
  <1>x. x = a * m + r
    BY DEF x
  <1>2. ~(q > a)
    <2> SUFFICES ASSUME q >= a + 1 PROVE FALSE
      BY <1>1
    <2>1. m * q >= m * (a + 1)
      BY <1>1
    <2>2. m * (a + 1) = a * m + m
      OBVIOUS
    <2> QED
      BY <1>1, <1>x, <2>1, <2>2
  <1>3. ~(q < a)
    <2> SUFFICES ASSUME q + 1 <= a PROVE FALSE
      BY <1>1
    <2>1. m * (q + 1) <= m * a
      BY <1>1
    <2>2. m * (q + 1) = m * q + m /\ m * a = a * m
      BY <1>1
    <2> QED
      BY <1>1, <1>x, <2>1, <2>2
  <1>4. q = a
    BY <1>1, <1>2, <1>3
  <1>5. s = r
    <2>1. m * a = a * m /\ m * a \in Int
      OBVIOUS
    <2> QED
      BY <1>1, <1>4, <1>x, <2>1
  <1> QED
    BY <1>4, <1>5 DEF q, s, x

\* Dropping one more digit.
LEMMA DropDigit ==
    ASSUME NEW n \in Nat, NEW p \in Nat \ {0}
    PROVE  n \div (10 * p) = (n \div p) \div 10
  <1>q. PICK q \in Nat, r \in 0..p - 1 : n = q * p + r
    <2>1. n \div p \in Nat /\ n % p \in 0..p - 1 /\ n = (n \div p) * p + (n % p)
      OBVIOUS
    <2> QED
      BY <2>1
  <1>a. PICK a \in Nat, b \in 0..9 : q = 10 * a + b
    <2>1. q \div 10 \in Nat /\ q % 10 \in 0..9 /\ q = 10 * (q \div 10) + (q % 10)
      OBVIOUS
    <2> QED
      BY <2>1
  <1>1. n \div p = q
    BY <1>q, Quotient
  <1>2. q \div 10 = a
    <2>1. q = a * 10 + b
      BY <1>a
    <2> QED
      BY <2>1, Quotient
  <1>3. b * p + r \in 0..(10 * p) - 1
    <2>1. b * p <= 9 * p /\ b * p >= 0
      OBVIOUS
    <2> QED
      BY <2>1
  <1>4. n = a * (10 * p) + (b * p + r)
    <2>1. (10 * a + b) * p = a * (10 * p) + b * p
      OBVIOUS
    <2> QED
      BY <1>a, <1>q, <2>1
  <1>5. 10 * p \in Nat \ {0}
    OBVIOUS
  <1>6. n \div (10 * p) = a
    BY <1>3, <1>4, <1>5, Quotient
  <1> QED
    BY <1>1, <1>2, <1>6

\* The largest magnitude of a 32-bit integer, which has ten digits.
Largest == 2147483648
LEMMA CountDigits ==
    ASSUME NEW n \in Nat, n <= Largest
    PROVE  LET k == DigitCount(n) IN
           /\ k \in 1..10 /\ n < 10^k
           /\ k = 1 \/ 10^(k - 1) <= n
  <1>1. /\ 10^0 = 1 /\ 10^1 = 10 /\ 10^2 = 100 /\ 10^3 = 1000 /\ 10^4 = 10000 /\ 10^5 = 100000
        /\ 10^6 = 1000000 /\ 10^7 = 10000000 /\ 10^8 = 100000000 /\ 10^9 = 1000000000
        /\ 10^10 = 10000000000
    BY SMT
  <1>2. \E k \in 1..10 : n < 10^k /\ (k = 1 \/ 10^(k - 1) <= n)
    <2>1. ASSUME NEW k \in 2..10, n < 10^k, 10^(k - 1) <= n
          PROVE  \E j \in 1..10 : n < 10^j /\ (j = 1 \/ 10^(j - 1) <= n)
      <3>1. k \in 1..10
        OBVIOUS
      <3> QED
        BY <2>1, <3>1, Zenon
    <2>2. /\ 2 \in 2..10 /\ 3 \in 2..10 /\ 4 \in 2..10 /\ 5 \in 2..10 /\ 6 \in 2..10
          /\ 7 \in 2..10 /\ 8 \in 2..10 /\ 9 \in 2..10 /\ 10 \in 2..10
      OBVIOUS
    <2>3. /\ 10^(2 - 1) = 10 /\ 10^(3 - 1) = 100 /\ 10^(4 - 1) = 1000 /\ 10^(5 - 1) = 10000
          /\ 10^(6 - 1) = 100000 /\ 10^(7 - 1) = 1000000 /\ 10^(8 - 1) = 10000000
          /\ 10^(9 - 1) = 100000000 /\ 10^(10 - 1) = 1000000000
      BY SMT
    <2>4. CASE n < 10
      <3>1. 1 \in 1..10 /\ n < 10^1
        BY <1>1, <2>4, SMT
      <3> QED
        BY <3>1, SMT
    <2>5. CASE n >= 10 /\ n < 100
      BY <1>1, <2>1, <2>2, <2>3, <2>5, SMT
    <2>6. CASE n >= 100 /\ n < 1000
      BY <1>1, <2>1, <2>2, <2>3, <2>6, SMT
    <2>7. CASE n >= 1000 /\ n < 10000
      BY <1>1, <2>1, <2>2, <2>3, <2>7, SMT
    <2>8. CASE n >= 10000 /\ n < 100000
      BY <1>1, <2>1, <2>2, <2>3, <2>8, SMT
    <2>9. CASE n >= 100000 /\ n < 1000000
      BY <1>1, <2>1, <2>2, <2>3, <2>9, SMT
    <2>10. CASE n >= 1000000 /\ n < 10000000
      BY <1>1, <2>1, <2>2, <2>3, <2>10, SMT
    <2>11. CASE n >= 10000000 /\ n < 100000000
      BY <1>1, <2>1, <2>2, <2>3, <2>11, SMT
    <2>12. CASE n >= 100000000 /\ n < 1000000000
      BY <1>1, <2>1, <2>2, <2>3, <2>12, SMT
    <2>13. CASE n >= 1000000000
      BY <1>1, <2>1, <2>2, <2>3, <2>13, SMT DEF Largest
    <2> QED
      BY <2>4, <2>5, <2>6, <2>7, <2>8, <2>9, <2>10, <2>11, <2>12, <2>13, SMT
  <1> QED
    BY <1>2, Zenon DEF DigitCount

\* What a number up to the largest magnitude looks like: its leading digits, one by one.
Leading(n, i) == n \div 10^(DigitCount(n) - i)

LEMMA LeadingDigits ==
    ASSUME NEW n \in Nat, n <= Largest
    PROVE  LET k == DigitCount(n) IN
           /\ k \in 1..10 /\ Digits(n) \in Seq(0..9) /\ Len(Digits(n)) = k
           /\ \A i \in 0..k : Leading(n, i) \in 0..n
           /\ Leading(n, 0) = 0 /\ Leading(n, k) = n
           /\ \A i \in 1..k : /\ Digits(n)[i] \in 0..9
                              /\ Leading(n, i) = 10 * Leading(n, i - 1) + Digits(n)[i]
           /\ k > 1 => Digits(n)[1] # 0
  <1>k. PICK k \in 1..10 : k = DigitCount(n)
    BY CountDigits
  <1>1. n < 10^k /\ (k = 1 \/ 10^(k - 1) <= n)
    BY <1>k, CountDigits
  <1>p. \A j \in 0..10 : 10^j \in Nat \ {0}
    BY PowersType
  <1>2. Digits(n) = [i \in 1..k |-> Leading(n, i) % 10]
    BY <1>k DEF Digits, Leading
  <1>3. ASSUME NEW i \in 0..k PROVE Leading(n, i) \in 0..n
    <2>1. k - i \in 0..10 /\ Leading(n, i) = n \div 10^(k - i)
      BY <1>k DEF Leading
    <2>2. PICK p \in Nat \ {0} : p = 10^(k - i)
      BY <1>p, <2>1
    <2>3. n \div p \in 0..n
      <3>1. PICK q \in Int, r \in 0..p - 1 : n = p * q + r /\ q = n \div p
        OBVIOUS
      <3>2. q >= 0
        <4> SUFFICES ASSUME q <= -1 PROVE FALSE
          OBVIOUS
        <4>1. p * q <= -p
          OBVIOUS
        <4> QED
          BY <3>1, <4>1
      <3>3. p * q >= q
        BY <3>2
      <3> QED
        BY <3>1, <3>2, <3>3
    <2> QED
      BY <2>1, <2>2, <2>3
  <1>4. \A i \in 1..k : Leading(n, i) \in Nat /\ Leading(n, i) % 10 \in 0..9
    <2> SUFFICES ASSUME NEW i \in 1..k PROVE Leading(n, i) \in Nat /\ Leading(n, i) % 10 \in 0..9
      OBVIOUS
    <2>1. Leading(n, i) \in Nat
      BY <1>3
    <2> QED
      BY <2>1
  <1>5. Digits(n) \in Seq(0..9) /\ Len(Digits(n)) = k
    <2>1. Digits(n) \in [1..k -> 0..9]
      BY <1>2, <1>4
    <2> QED
      BY <2>1
  <1>6. Leading(n, 0) = 0
    <2>0. k \in 0..10
      OBVIOUS
    <2>1. PICK p \in Nat \ {0} : p = 10^k
      BY <1>p, <2>0
    <2>2. Leading(n, 0) = n \div p
      <3>1. k - 0 = k
        OBVIOUS
      <3> QED
        BY <1>k, <2>1, <3>1 DEF Leading
    <2>3. n = 0 * p + n /\ n \in 0..p - 1
      BY <1>1, <2>1
    <2>4. n \div p = 0
      BY <2>3, Quotient
    <2> QED
      BY <2>2, <2>4
  <1>7. Leading(n, k) = n
    <2>1. k - k = 0 /\ 10^0 = 1 /\ n \div 1 = n
      OBVIOUS
    <2> QED
      BY <1>k, <2>1 DEF Leading
  <1>8. ASSUME NEW i \in 1..k
        PROVE  /\ Digits(n)[i] \in 0..9
               /\ Leading(n, i) = 10 * Leading(n, i - 1) + Digits(n)[i]
    <2>1. Digits(n)[i] = Leading(n, i) % 10 /\ Leading(n, i) \in Nat
      BY <1>2, <1>4
    <2>2. Leading(n, i - 1) = Leading(n, i) \div 10
      <3>1. PICK j \in 0..9 : j = k - i
        OBVIOUS
      <3>2. k - (i - 1) = j + 1
        BY <3>1
      <3>3. PICK p \in Nat \ {0} : p = 10^j
        BY <3>1, TenTimes
      <3>4. 10^(j + 1) = 10 * p
        BY <3>3, TenTimes
      <3>5. Leading(n, i) = n \div p /\ Leading(n, i - 1) = n \div (10 * p)
        BY <1>k, <3>1, <3>2, <3>3, <3>4 DEF Leading
      <3> QED
        BY <3>5, DropDigit
    <2>3. \A x \in Nat : x % 10 \in 0..9 /\ x = 10 * (x \div 10) + (x % 10)
      OBVIOUS
    <2> QED
      BY <2>1, <2>2, <2>3
  <1>9. ASSUME k > 1 PROVE Digits(n)[1] # 0
    <2>1. 1 \in 1..k /\ 1 - 1 = 0
      OBVIOUS
    <2>2. Leading(n, 1) = 10 * 0 + Digits(n)[1] /\ Digits(n)[1] \in 0..9
      BY <1>6, <1>8, <2>1
    <2>3. k - 1 \in 0..10
      OBVIOUS
    <2>4. PICK p \in Nat \ {0} : p = 10^(k - 1)
      BY <1>p, <2>3
    <2>5. p <= n /\ Leading(n, 1) = n \div p
      BY <1>1, <1>9, <1>k, <2>4 DEF Leading
    <2>6. n \div p # 0
      <3> SUFFICES ASSUME n \div p = 0 PROVE FALSE
        OBVIOUS
      <3>1. n = p * (n \div p) + (n % p) /\ n % p < p /\ n % p \in Nat
        OBVIOUS
      <3> QED
        BY <2>5, <3>1
    <2> QED
      BY <2>2, <2>5, <2>6
  <1> QED
    BY <1>3, <1>5, <1>6, <1>7, <1>8, <1>9, <1>k

----------------------------------------------------------------------------
(* Parsing. *)

\* The magnitude of every prefix of a number is well defined, by recursion on its length.
LEMMA MagnitudesDefined ==
    ASSUME NEW number, Len(number) \in Nat, NEW limit
    PROVE  Magnitudes(number, limit) =
             [i \in 0..Len(number) |-> IF i = 0 THEN 0
                ELSE Accumulate(Magnitudes(number, limit)[i - 1], number[i], limit)]
  <1> DEFINE Solves(f, n) ==
               f = [i \in 0..n |-> IF i = 0 THEN 0 ELSE Accumulate(f[i - 1], number[i], limit)]
             Solved == {n \in Nat : \E f : Solves(f, n)}
  <1>1. 0 \in Solved
    <2>1. Solves([i \in 0..0 |-> 0], 0)
      OBVIOUS
    <2> QED
      BY <2>1
  <1>2. ASSUME NEW n \in Nat, n \in Solved PROVE n + 1 \in Solved
    <2>1. PICK f : Solves(f, n)
      BY <1>2
    <2> DEFINE g == [i \in 0..(n + 1) |->
                       IF i = n + 1 THEN Accumulate(f[n], number[n + 1], limit) ELSE f[i]]
    <2>2. ASSUME NEW i \in 0..(n + 1)
          PROVE  g[i] = IF i = 0 THEN 0 ELSE Accumulate(g[i - 1], number[i], limit)
      <3>1. CASE i = 0
        BY <2>1, <3>1
      <3>2. CASE i = n + 1
        <4>1. g[i] = Accumulate(f[n], number[n + 1], limit) /\ i - 1 = n /\ i # 0
          BY <3>2
        <4>2. g[n] = f[n]
          OBVIOUS
        <4> QED
          BY <3>2, <4>1, <4>2
      <3>3. CASE i \in 1..n
        <4>1. g[i] = f[i] /\ g[i - 1] = f[i - 1] /\ i \in 0..n /\ i # 0
          BY <3>3
        <4>2. f[i] = Accumulate(f[i - 1], number[i], limit)
          BY <2>1, <4>1
        <4> QED
          BY <4>1, <4>2
      <3> QED
        BY <3>1, <3>2, <3>3
    <2>3. g = [i \in 0..(n + 1) |-> g[i]]
      OBVIOUS
    <2> HIDE DEF g
    <2>4. Solves(g, n + 1)
      BY <2>2, <2>3
    <2> QED
      BY <2>4
  <1>3. Len(number) \in Solved
    <2> HIDE DEF Solved
    <2> QED
      BY <1>1, <1>2, Induction
  <1>4. \E f : Solves(f, Len(number))
    BY <1>3
  <1> QED
    BY <1>4 DEF Magnitudes

LEMMA MagnitudesStep ==
    ASSUME NEW number, Len(number) \in Nat, NEW limit
    PROVE  /\ Magnitudes(number, limit)[0] = 0
           /\ \A i \in 1..Len(number) : Magnitudes(number, limit)[i] =
                 Accumulate(Magnitudes(number, limit)[i - 1], number[i], limit)
  <1>1. PICK f : f = Magnitudes(number, limit)
    OBVIOUS
  <1>2. f = [i \in 0..Len(number) |-> IF i = 0 THEN 0 ELSE Accumulate(f[i - 1], number[i], limit)]
    BY <1>1, MagnitudesDefined
  <1>3. f[0] = 0
    BY <1>2
  <1>4. \A i \in 1..Len(number) : f[i] = Accumulate(f[i - 1], number[i], limit)
    BY <1>2
  <1> QED
    BY <1>1, <1>3, <1>4

\* Reading the digits of a number that fits gives the number back.
LEMMA MagnitudeOfDigits ==
    ASSUME NEW n \in Nat, n <= Largest, NEW limit \in Nat, n <= limit
    PROVE  Magnitudes(Digits(n), limit)[Len(Digits(n))] = n
  <1>k. PICK k \in 1..10 : k = DigitCount(n)
    BY CountDigits
  <1> DEFINE m == Magnitudes(Digits(n), limit)
             Right == {i \in Nat : i <= k => m[i] = Leading(n, i)}
  <1>1. /\ Len(Digits(n)) = k
        /\ \A i \in 0..k : Leading(n, i) \in 0..n
        /\ Leading(n, 0) = 0 /\ Leading(n, k) = n
        /\ \A i \in 1..k : /\ Digits(n)[i] \in 0..9
                           /\ Leading(n, i) = 10 * Leading(n, i - 1) + Digits(n)[i]
    BY <1>k, LeadingDigits
  <1>2. /\ m[0] = 0
        /\ \A i \in 1..k : m[i] = Accumulate(m[i - 1], Digits(n)[i], limit)
    <2>1. Len(Digits(n)) \in Nat
      BY <1>1
    <2>2. /\ m[0] = 0
          /\ \A i \in 1..Len(Digits(n)) : m[i] = Accumulate(m[i - 1], Digits(n)[i], limit)
      BY <2>1, MagnitudesStep
    <2> QED
      BY <1>1, <2>2
  <1> HIDE DEF m
  <1>3. 0 \in Right
    BY <1>1, <1>2
  <1>4. ASSUME NEW i \in Nat, i \in Right PROVE i + 1 \in Right
    <2> SUFFICES ASSUME i + 1 <= k PROVE m[i + 1] = Leading(n, i + 1)
      OBVIOUS
    <2>1. i + 1 \in 1..k /\ (i + 1) - 1 = i /\ i \in 0..k /\ i <= k
      OBVIOUS
    <2>2. PICK x \in 0..n : x = Leading(n, i)
      BY <1>1, <2>1
    <2>3. PICK d \in 0..9 : d = Digits(n)[i + 1]
      BY <1>1, <2>1
    <2>4. m[i] = x /\ Leading(n, i + 1) = 10 * x + d /\ Leading(n, i + 1) \in 0..n
      BY <1>1, <1>4, <2>1, <2>2, <2>3
    <2>5. m[i + 1] = Accumulate(x, d, limit)
      BY <1>2, <2>1, <2>3, <2>4
    <2>6. ~(x > (limit - d) \div 10)
      <3>1. 10 * x + d <= limit
        BY <2>4
      <3> QED
        BY <3>1
    <2>7. Accumulate(x, d, limit) = x * 10 + d
      BY <2>6 DEF Accumulate
    <2> QED
      BY <2>4, <2>5, <2>7
  <1>5. k \in Right
    <2> HIDE DEF Right
    <2> QED
      BY <1>3, <1>4, Induction
  <1>6. m[k] = n
    BY <1>1, <1>5
  <1> QED
    BY <1>1, <1>6 DEF m

\* The contents of a file as header, sign, digits and newline.
Sign(negative) == IF negative THEN <<Minus>> ELSE <<>>
Layout(negative, number) == <<Header>> \o Sign(negative) \o number \o <<Newline>>

LEMMA LayoutShape ==
    ASSUME NEW negative \in BOOLEAN, NEW number \in Seq(Nat), number # <<>>, number[1] # Minus
    PROVE  LET text == Layout(negative, number)
               first == IF negative THEN 3 ELSE 2 IN
           /\ text \in Seq(Nat) /\ Len(text) = Len(number) + first
           /\ text[1] = Header /\ text[Len(text)] = Newline
           /\ Negative(text) = negative
           /\ Number(text) = number
  <1> DEFINE text == Layout(negative, number)
             k == Len(number)
  <1>0. k \in Nat /\ k >= 1 /\ \A i \in 1..k : number[i] \in Nat
    OBVIOUS
  <1>h. Header = 10 /\ Minus = 11 /\ Newline = 12
    BY DEF Header, Minus, Newline
  <1>1. CASE negative = TRUE
    <2>1. text = <<Header, Minus>> \o number \o <<Newline>>
      <3>1. <<Header>> \o <<Minus>> = <<Header, Minus>>
        <4>1. /\ <<Header>> \in Seq(Nat) /\ <<Minus>> \in Seq(Nat) /\ <<Header, Minus>> \in Seq(Nat)
              /\ Len(<<Header>>) = 1 /\ Len(<<Minus>>) = 1 /\ Len(<<Header, Minus>>) = 2
          BY <1>h
        <4>2. /\ <<Header>> \o <<Minus>> \in Seq(Nat) /\ Len(<<Header>> \o <<Minus>>) = 2
              /\ (<<Header>> \o <<Minus>>)[1] = Header /\ (<<Header>> \o <<Minus>>)[2] = Minus
          BY <1>h, <4>1
        <4>3. \A i \in 1..2 : (<<Header>> \o <<Minus>>)[i] = <<Header, Minus>>[i]
          <5>1. \A i \in 1..2 : i = 1 \/ i = 2
            OBVIOUS
          <5> QED
            BY <4>2, <5>1
        <4> QED
          BY <4>1, <4>2, <4>3, SeqEqual
      <3> QED
        BY <1>1, <3>1 DEF Layout, Sign
    <2>2. /\ text \in Seq(Nat) /\ Len(text) = k + 3 /\ text[1] = Header /\ text[2] = Minus
          /\ text[k + 3] = Newline
          /\ \A i \in 1..k : text[i + 2] = number[i]
      <3> HIDE DEF text
      <3> QED
        BY <1>0, <1>h, <2>1
    <2> HIDE DEF text
    <2>3. Negative(text) = TRUE
      BY <1>0, <2>2 DEF Negative
    <2>4. Number(text) = SubSeq(text, 3, k + 2)
      <3>1. Len(text) - 1 = k + 2
        BY <1>0, <2>2
      <3> QED
        BY <2>3, <3>1 DEF Number
    <2>5. SubSeq(text, 3, k + 2) = number
      <3>1. \A i \in 3..(k + 2) : i \in 1..Len(text)
        BY <1>0, <2>2
      <3>t. \A i \in 3..(k + 2) : text[i] \in Nat
        BY <2>2, <3>1
      <3>2. /\ SubSeq(text, 3, k + 2) \in Seq(Nat)
            /\ Len(SubSeq(text, 3, k + 2)) = IF 3 <= k + 2 THEN (k + 2) - 3 + 1 ELSE 0
            /\ \A i \in 1..(k + 2) - 3 + 1 : SubSeq(text, 3, k + 2)[i] = text[3 + i - 1]
        BY <1>0, <3>t, SubSeqProperties
      <3>3. (k + 2) - 3 + 1 = k /\ 3 <= k + 2 /\ \A i \in 1..k : 3 + i - 1 = i + 2
        BY <1>0
      <3>4. Len(SubSeq(text, 3, k + 2)) = k /\ \A i \in 1..k : SubSeq(text, 3, k + 2)[i] = number[i]
        BY <2>2, <3>2, <3>3
      <3> QED
        BY <3>2, <3>4, SeqEqual
    <2> QED
      BY <1>1, <2>2, <2>3, <2>4, <2>5 DEF text
  <1>2. CASE negative = FALSE
    <2>1. text = <<Header>> \o number \o <<Newline>>
      <3>1. <<Header>> \o <<>> = <<Header>>
        OBVIOUS
      <3> QED
        BY <1>2, <3>1 DEF Layout, Sign
    <2>2. /\ text \in Seq(Nat) /\ Len(text) = k + 2 /\ text[1] = Header
          /\ text[k + 2] = Newline
          /\ \A i \in 1..k : text[i + 1] = number[i]
      <3> HIDE DEF text
      <3> QED
        BY <1>0, <1>h, <2>1
    <2> HIDE DEF text
    <2>3. Negative(text) = FALSE
      <3>1. text[2] = number[1]
        <4>1. 1 \in 1..k /\ 1 + 1 = 2
          BY <1>0
        <4> QED
          BY <2>2, <4>1
      <3> QED
        BY <3>1 DEF Negative
    <2>4. Number(text) = SubSeq(text, 2, k + 1)
      <3>1. Len(text) - 1 = k + 1
        BY <1>0, <2>2
      <3> QED
        BY <2>3, <3>1 DEF Number
    <2>5. SubSeq(text, 2, k + 1) = number
      <3>1. \A i \in 2..(k + 1) : i \in 1..Len(text)
        BY <1>0, <2>2
      <3>t. \A i \in 2..(k + 1) : text[i] \in Nat
        BY <2>2, <3>1
      <3>2. /\ SubSeq(text, 2, k + 1) \in Seq(Nat)
            /\ Len(SubSeq(text, 2, k + 1)) = IF 2 <= k + 1 THEN (k + 1) - 2 + 1 ELSE 0
            /\ \A i \in 1..(k + 1) - 2 + 1 : SubSeq(text, 2, k + 1)[i] = text[2 + i - 1]
        BY <1>0, <3>t, SubSeqProperties
      <3>3. (k + 1) - 2 + 1 = k /\ 2 <= k + 1 /\ \A i \in 1..k : 2 + i - 1 = i + 1
        BY <1>0
      <3>4. Len(SubSeq(text, 2, k + 1)) = k /\ \A i \in 1..k : SubSeq(text, 2, k + 1)[i] = number[i]
        BY <2>2, <3>2, <3>3
      <3> QED
        BY <3>2, <3>4, SeqEqual
    <2> QED
      BY <1>2, <2>2, <2>3, <2>4, <2>5 DEF text
  <1> QED
    BY <1>1, <1>2

\* The magnitude of an integer that fits.
LEMMA IntegerShape ==
    ASSUME NEW v \in Integer32
    PROVE  LET n == IF v < 0 THEN -v ELSE v IN
           /\ n \in Nat /\ n <= Largest /\ n <= MagnitudeLimit(v < 0)
           /\ MagnitudeLimit(v < 0) \in Nat
           /\ Contents(v) = Layout(v < 0, Digits(n))
  <1>1. v \in Int /\ -Magnitude <= v /\ v <= Magnitude - 1 /\ Magnitude \in Nat /\ Magnitude >= 1
    BY DEF Integer32
  <1>2. Magnitude <= Largest
    BY IntegersFit, SMT DEF Largest
  <1>l. Largest \in Nat
    BY SMT DEF Largest
  <1>3. CASE v < 0
    BY <1>1, <1>2, <1>3, <1>l DEF MagnitudeLimit, Contents, Layout, Sign
  <1>4. CASE ~(v < 0)
    BY <1>1, <1>2, <1>4, <1>l DEF MagnitudeLimit, Contents, Layout, Sign
  <1> QED
    BY <1>3, <1>4

(* crumb_storage_parse_i32 reads back what crumb_save_i32 formats, for every *)
(* 32-bit integer, the two extreme ones included.                            *)
THEOREM ReadsBack ==
    ASSUME NEW v \in Integer32
    PROVE  Contents(v) \in Seq(Nat) /\ Len(Contents(v)) >= 3 /\ Parse(Contents(v)) = v
  <1>b. PICK negative \in BOOLEAN : negative = (v < 0)
    <2>1. CASE v < 0
      BY <2>1, Zenon
    <2>2. CASE ~(v < 0)
      <3>1. (v < 0) = FALSE
        BY <2>2, SMT
      <3>2. FALSE \in BOOLEAN
        OBVIOUS
      <3> WITNESS FALSE \in BOOLEAN
      <3> QED
        BY <3>1, Zenon
    <2> QED
      BY <2>1, <2>2
  <1>n. PICK n : n = IF v < 0 THEN -v ELSE v
    OBVIOUS
  <1>1. /\ n \in Nat /\ n <= Largest /\ n <= MagnitudeLimit(negative)
        /\ MagnitudeLimit(negative) \in Nat
        /\ Contents(v) = Layout(negative, Digits(n))
    BY <1>b, <1>n, IntegerShape
  <1>d. PICK number : number = Digits(n)
    OBVIOUS
  <1>2. /\ number \in Seq(0..9) /\ Len(number) \in 1..10
        /\ \A i \in 1..Len(number) : number[i] \in 0..9
        /\ Len(number) > 1 => number[1] # 0
    BY <1>1, <1>d, LeadingDigits
  <1>3. /\ number \in Seq(Nat) /\ number # <<>> /\ number[1] # Minus
    <2>1. number \in Seq(Nat)
      BY <1>2
    <2>2. 1 \in 1..Len(number)
      BY <1>2
    <2>3. number[1] \in 0..9
      BY <1>2, <2>2
    <2>4. number # <<>>
      BY <1>2
    <2> QED
      BY <2>1, <2>3, <2>4 DEF Minus
  <1>4. /\ Contents(v) \in Seq(Nat)
        /\ Len(Contents(v)) = Len(number) + (IF negative THEN 3 ELSE 2)
        /\ Contents(v)[1] = Header /\ Contents(v)[Len(Contents(v))] = Newline
        /\ Negative(Contents(v)) = negative /\ Number(Contents(v)) = number
    BY <1>1, <1>3, <1>d, LayoutShape
  <1>5. Magnitudes(number, MagnitudeLimit(negative))[Len(number)] = n
    BY <1>1, <1>d, MagnitudeOfDigits
  <1>6. Len(Contents(v)) >= 3 /\ ~(Len(Contents(v)) <= 2)
    BY <1>2, <1>4
  <1>7. n # None /\ (negative => n # 0) /\ v = IF negative THEN -n ELSE n
    <2>1. v \in Int
      BY DEF Integer32
    <2> QED
      <3>1. CASE v < 0
        <4>1. negative = TRUE
          BY <1>b, <3>1, Zenon
        <4> QED
          BY <1>1, <1>n, <2>1, <3>1, <4>1
      <3>2. CASE ~(v < 0)
        <4>1. negative = FALSE
          BY <1>b, <3>2, Zenon
        <4> QED
          BY <1>1, <1>n, <2>1, <3>2, <4>1
      <3> QED
        BY <3>1, <3>2
  <1>8. Parse(Contents(v)) = v
    BY <1>2, <1>3, <1>4, <1>5, <1>6, <1>7 DEF Parse
  <1> QED
    BY <1>4, <1>6, <1>8

LEMMA PowersGrow ==
    ASSUME NEW a \in 0..10, NEW b \in 0..10, a <= b
    PROVE  10^a <= 10^b
  <1> DEFINE Above == {j \in Nat : a + j <= 10 => 10^a <= 10^(a + j)}
  <1>1. 0 \in Above
    <2>1. 10^a \in Nat
      BY PowersType
    <2>2. PICK p \in Nat : p = 10^a
      BY <2>1
    <2>3. a + 0 = a /\ p <= p
      OBVIOUS
    <2> QED
      BY <2>2, <2>3
  <1>2. ASSUME NEW j \in Nat, j \in Above PROVE j + 1 \in Above
    <2> SUFFICES ASSUME a + (j + 1) <= 10 PROVE 10^a <= 10^(a + (j + 1))
      OBVIOUS
    <2>1. PICK i \in 0..9 : i = a + j
      OBVIOUS
    <2>2. PICK p \in Nat \ {0} : p = 10^i
      BY TenTimes
    <2>3. 10^(i + 1) = 10 * p
      BY <2>2, TenTimes
    <2>4. PICK q \in Nat : q = 10^a
      BY PowersType
    <2>5. a + (j + 1) = i + 1 /\ a + j <= 10
      BY <2>1
    <2>6. q <= p
      BY <1>2, <2>1, <2>2, <2>4, <2>5
    <2>7. q <= 10 * p
      BY <2>6
    <2> QED
      BY <2>3, <2>4, <2>5, <2>7
  <1>3. b - a \in Above
    <2> HIDE DEF Above
    <2>1. b - a \in Nat
      OBVIOUS
    <2> QED
      BY <1>1, <1>2, <2>1, Induction
  <1>4. b - a \in Nat /\ a + (b - a) = b /\ b <= 10
    OBVIOUS
  <1> QED
    BY <1>3, <1>4

\* A digit count is determined by the number.
LEMMA CountUnique ==
    ASSUME NEW n \in Nat, n <= Largest, NEW j \in 1..10, n < 10^j, j = 1 \/ 10^(j - 1) <= n
    PROVE  j = DigitCount(n)
  <1>1. PICK k \in 1..10 : k = DigitCount(n) /\ n < 10^k /\ (k = 1 \/ 10^(k - 1) <= n)
    BY CountDigits
  <1>2. \A i \in 0..10 : 10^i \in Nat
    BY PowersType
  <1>3. ASSUME NEW a \in 1..10, NEW b \in 1..10, a < b, n < 10^a, 10^(b - 1) <= n PROVE FALSE
    <2>1. a \in 0..10 /\ b - 1 \in 0..10 /\ a <= b - 1
      BY <1>3
    <2>2. 10^a <= 10^(b - 1)
      BY <2>1, PowersGrow
    <2>3. 10^a \in Nat /\ 10^(b - 1) \in Nat
      BY <1>2, <2>1
    <2> QED
      BY <1>3, <2>2, <2>3
  <1>4. ~(j < k)
    <2> SUFFICES ASSUME j < k PROVE FALSE
      OBVIOUS
    <2>1. k # 1
      OBVIOUS
    <2>2. 10^(k - 1) <= n
      BY <1>1, <2>1
    <2> QED
      BY <1>3, <2>2
  <1>5. ~(k < j)
    <2> SUFFICES ASSUME k < j PROVE FALSE
      OBVIOUS
    <2>1. j # 1
      OBVIOUS
    <2>2. 10^(j - 1) <= n /\ n < 10^k
      BY <1>1, <2>1
    <2> QED
      BY <1>3, <2>2
  <1>6. j = k
    BY <1>4, <1>5
  <1> QED
    BY <1>1, <1>6

\* A number that is read is a chain of digits, none of which overflows.
LEMMA ReadChain ==
    ASSUME NEW number \in Seq(Nat), NEW limit \in Nat,
           Magnitudes(number, limit)[Len(number)] # None
    PROVE  LET m == Magnitudes(number, limit) IN
           /\ m[0] = 0
           /\ \A i \in 0..Len(number) : m[i] \in 0..limit
           /\ \A i \in 1..Len(number) : number[i] \in 0..9 /\ m[i] = 10 * m[i - 1] + number[i]
  <1> DEFINE m == Magnitudes(number, limit)
             k == Len(number)
             Chain(i) == /\ m[i] \in 0..limit
                         /\ \A j \in 1..i : /\ m[j - 1] \in 0..limit /\ m[j] \in 0..limit
                                            /\ number[j] \in 0..9 /\ m[j] = 10 * m[j - 1] + number[j]
             Good == {i \in Nat : i <= k => m[i] = None \/ Chain(i)}
  <1>0. k \in Nat
    OBVIOUS
  <1>1. /\ m[0] = 0
        /\ \A i \in 1..k : m[i] = Accumulate(m[i - 1], number[i], limit)
    BY <1>0, MagnitudesStep
  <1> HIDE DEF m, k
  <1>2. 0 \in Good
    BY <1>1
  <1>3. ASSUME NEW i \in Nat, i \in Good PROVE i + 1 \in Good
    <2> SUFFICES ASSUME i + 1 <= k, m[i + 1] # None PROVE Chain(i + 1)
      OBVIOUS
    <2>1. i + 1 \in 1..k /\ (i + 1) - 1 = i /\ i <= k
      BY <1>0
    <2>2. m[i + 1] = Accumulate(m[i], number[i + 1], limit)
      BY <1>1, <2>1
    <2>3. m[i] # None /\ number[i + 1] \in 0..9
      BY <2>2 DEF Accumulate
    <2>4. Chain(i)
      BY <1>3, <2>1, <2>3
    <2>5. PICK x \in 0..limit : x = m[i]
      BY <2>4
    <2>6. PICK d \in 0..9 : d = number[i + 1]
      BY <2>3
    <2>7. ~(x > (limit - d) \div 10) /\ m[i + 1] = x * 10 + d
      BY <2>2, <2>3, <2>5, <2>6 DEF Accumulate
    <2>8. m[i + 1] \in 0..limit /\ m[i + 1] = 10 * m[i] + number[i + 1]
      <3>1. 10 * ((limit - d) \div 10) <= limit - d
        OBVIOUS
      <3>2. x * 10 + d <= limit
        BY <2>7, <3>1
      <3>3. x * 10 + d \in 0..limit /\ x * 10 + d = 10 * x + d
        BY <3>2
      <3> QED
        BY <2>5, <2>6, <2>7, <3>3
    <2>9. ASSUME NEW j \in 1..(i + 1)
          PROVE  /\ m[j - 1] \in 0..limit /\ m[j] \in 0..limit
                 /\ number[j] \in 0..9 /\ m[j] = 10 * m[j - 1] + number[j]
      <3>1. CASE j \in 1..i
        BY <2>4, <3>1
      <3>2. CASE j = i + 1
        BY <2>1, <2>3, <2>4, <2>8, <3>2
      <3> QED
        BY <3>1, <3>2
    <2> QED
      BY <2>8, <2>9
  <1>4. k \in Good
    <2> HIDE DEF Good
    <2> QED
      BY <1>0, <1>2, <1>3, Induction
  <1>5. Chain(k)
    <2>1. m[k] # None
      BY DEF m, k
    <2> QED
      BY <1>0, <1>4, <2>1
  <1>6. \A i \in 0..k : m[i] \in 0..limit
    <2>1. \A i \in 0..k : i = k \/ i + 1 \in 1..k
      BY <1>0
    <2>2. \A i \in 0..k : (i + 1) - 1 = i
      OBVIOUS
    <2> QED
      BY <1>5, <2>1, <2>2
  <1> QED
    BY <1>1, <1>5, <1>6 DEF m, k

\* The digits that were read are those of the magnitude: no other text stands for it.
LEMMA ReadDigits ==
    ASSUME NEW number \in Seq(Nat), number # <<>>, Len(number) > 1 => number[1] # 0,
           NEW limit \in Nat, limit <= Largest,
           NEW n, n = Magnitudes(number, limit)[Len(number)], n # None
    PROVE  n \in 0..limit /\ number = Digits(n)
  <1> DEFINE m == Magnitudes(number, limit)
             k == Len(number)
  <1>0. k \in Nat /\ k >= 1 /\ Largest \in Nat
    <2>1. k \in Nat /\ k >= 1
      OBVIOUS
    <2>2. Largest \in Nat
      BY SMT DEF Largest
    <2> QED
      BY <2>1, <2>2
  <1>1. /\ m[0] = 0 /\ m[k] = n
        /\ \A i \in 0..k : m[i] \in 0..limit
        /\ \A i \in 1..k : number[i] \in 0..9 /\ m[i] = 10 * m[i - 1] + number[i]
    BY ReadChain
  <1> HIDE DEF m
  <1>2. n \in 0..limit
    <2>1. k \in 0..k
      BY <1>0
    <2> QED
      BY <1>1, <2>1
  <1>3. ASSUME NEW i \in 1..k PROVE /\ m[i - 1] \in Nat /\ m[i] \in Nat /\ number[i] \in 0..9
                                    /\ m[i] = 10 * m[i - 1] + number[i]
    <2>1. i \in 0..k /\ i - 1 \in 0..k
      BY <1>0
    <2> QED
      BY <1>1, <2>1
  <1>s. k > 1 => number[1] # 0
    OBVIOUS
  <1> HIDE DEF k
  <1>4. ASSUME k > 1, NEW i \in 1..k, i <= 11 PROVE m[i] >= 10^(i - 1)
    <2> DEFINE Big == {j \in Nat : j + 1 <= k /\ j <= 10 => m[j + 1] >= 10^j}
    <2>1. 0 \in Big
      <3>1. m[1] = 10 * 0 + number[1] /\ number[1] \in 0..9
        <4>1. 1 \in 1..k /\ 1 - 1 = 0
          BY <1>0
        <4> QED
          BY <1>1, <1>3, <4>1
      <3>2. m[1] >= 1
        BY <1>4, <1>s, <3>1
      <3>3. 10^0 = 1 /\ 0 + 1 = 1
        OBVIOUS
      <3> QED
        BY <3>2, <3>3
    <2>2. ASSUME NEW j \in Nat, j \in Big PROVE j + 1 \in Big
      <3> SUFFICES ASSUME (j + 1) + 1 <= k, j + 1 <= 10 PROVE m[(j + 1) + 1] >= 10^(j + 1)
        OBVIOUS
      <3>1. (j + 1) + 1 \in 1..k /\ ((j + 1) + 1) - 1 = j + 1 /\ j \in 0..9 /\ j + 1 <= k /\ j <= 10
        BY <1>0
      <3>2. PICK p \in Nat \ {0} : p = 10^j
        BY <3>1, TenTimes
      <3>3. 10^(j + 1) = 10 * p
        BY <3>1, <3>2, TenTimes
      <3>4. m[j + 1] >= p
        BY <2>2, <3>1, <3>2
      <3>5. PICK x \in Nat, d \in 0..9 : x = m[j + 1] /\ m[(j + 1) + 1] = 10 * x + d
        BY <1>3, <3>1
      <3>x. x >= p
        BY <3>4, <3>5
      <3>6. 10 * x + d >= 10 * p
        BY <3>x
      <3> QED
        BY <3>3, <3>5, <3>6
    <2>3. i - 1 \in Big
      <3> HIDE DEF Big
      <3>1. i - 1 \in Nat
        OBVIOUS
      <3> QED
        BY <2>1, <2>2, <3>1, Induction
    <2>4. (i - 1) + 1 = i /\ i <= k /\ i - 1 <= 10
      BY <1>0, <1>4
    <2> QED
      BY <2>3, <2>4
  <1>5. k \in 1..10
    <2> SUFFICES ASSUME k >= 11 PROVE FALSE
      BY <1>0
    <2>1. 11 \in 1..k /\ k > 1 /\ 11 - 1 = 10 /\ 11 \in 0..k
      BY <1>0
    <2>2. m[11] >= 10^10
      <3>1. 11 <= 11
        OBVIOUS
      <3>2. m[11] >= 10^(11 - 1)
        BY <1>4, <2>1, <3>1
      <3> QED
        BY <2>1, <3>2
    <2>3. m[11] \in Nat /\ m[11] <= Largest
      <3>1. m[11] \in 0..limit
        BY <1>1, <2>1
      <3> QED
        BY <1>0, <3>1
    <2>4. ~(\E x \in Nat : x >= 10^10 /\ x <= Largest)
      BY SMT DEF Largest
    <2> QED
      BY <2>2, <2>3, <2>4
  <1>6. n < 10^k
    <2> DEFINE Small == {j \in Nat : j <= k => m[j] < 10^j}
    <2>1. 0 \in Small
      <3>1. 10^0 = 1
        OBVIOUS
      <3> QED
        BY <1>1, <3>1
    <2>2. ASSUME NEW j \in Nat, j \in Small PROVE j + 1 \in Small
      <3> SUFFICES ASSUME j + 1 <= k PROVE m[j + 1] < 10^(j + 1)
        OBVIOUS
      <3>1. j + 1 \in 1..k /\ (j + 1) - 1 = j /\ j \in 0..9 /\ j <= k
        BY <1>5
      <3>2. PICK p \in Nat \ {0} : p = 10^j
        BY <3>1, TenTimes
      <3>3. 10^(j + 1) = 10 * p
        BY <3>1, <3>2, TenTimes
      <3>4. m[j] < p
        BY <2>2, <3>1, <3>2
      <3>5. PICK x \in Nat, d \in 0..9 : x = m[j] /\ m[j + 1] = 10 * x + d
        BY <1>3, <3>1
      <3>x. x < p
        BY <3>4, <3>5
      <3>6. 10 * x + d < 10 * p
        BY <3>x
      <3> QED
        BY <3>3, <3>5, <3>6
    <2>3. k \in Small
      <3> HIDE DEF Small
      <3> QED
        BY <1>0, <2>1, <2>2, Induction
    <2> QED
      BY <1>0, <1>1, <2>3
  <1>7. n \in Nat /\ n <= Largest
    BY <1>0, <1>2
  <1>8. k = DigitCount(n)
    <2>1. k = 1 \/ 10^(k - 1) <= n
      <3> SUFFICES ASSUME k # 1 PROVE 10^(k - 1) <= n
        OBVIOUS
      <3>1. k > 1 /\ k \in 1..k /\ k <= 11 /\ k - 1 \in 0..10
        BY <1>5
      <3>2. m[k] >= 10^(k - 1)
        BY <1>4, <3>1
      <3>3. 10^(k - 1) \in Nat
        BY <3>1, PowersType
      <3>4. PICK p \in Nat : p = 10^(k - 1)
        BY <3>3
      <3>5. n >= p
        BY <1>1, <3>2, <3>4
      <3>6. p <= n
        BY <1>7, <3>5
      <3> QED
        BY <3>4, <3>6
    <2> QED
      BY <1>5, <1>6, <1>7, <2>1, CountUnique
  <1>9. \A i \in 0..k : m[i] = Leading(n, i)
    <2> DEFINE Same == {j \in Nat : j <= k => m[k - j] = n \div 10^j}
    <2>1. 0 \in Same
      <3>1. 10^0 = 1 /\ n \div 1 = n /\ k - 0 = k
        BY <1>0, <1>7
      <3> QED
        BY <1>1, <3>1
    <2>2. ASSUME NEW j \in Nat, j \in Same PROVE j + 1 \in Same
      <3> SUFFICES ASSUME j + 1 <= k PROVE m[k - (j + 1)] = n \div 10^(j + 1)
        OBVIOUS
      <3>1. k - j \in 1..k /\ (k - j) - 1 = k - (j + 1) /\ j \in 0..9 /\ j <= k
        BY <1>5
      <3>2. PICK p \in Nat \ {0} : p = 10^j
        BY <3>1, TenTimes
      <3>3. 10^(j + 1) = 10 * p
        BY <3>1, <3>2, TenTimes
      <3>4. PICK x \in Nat, d \in 0..9 : x = m[k - (j + 1)] /\ d = number[k - j] /\ m[k - j] = 10 * x + d
        BY <1>3, <3>1
      <3>5. n \div p = 10 * x + d
        BY <2>2, <3>1, <3>2, <3>4
      <3>6. n \div (10 * p) = (10 * x + d) \div 10
        <4>1. n \div (10 * p) = (n \div p) \div 10
          BY <1>7, DropDigit
        <4> QED
          BY <3>5, <4>1
      <3>7. (10 * x + d) \div 10 = x
        OBVIOUS
      <3> QED
        BY <3>3, <3>4, <3>6, <3>7
    <2>3. ASSUME NEW i \in 0..k PROVE m[i] = Leading(n, i)
      <3>1. k - i \in Nat /\ k - i <= k /\ k - (k - i) = i
        BY <1>0
      <3>2. k - i \in Same
        <4> HIDE DEF Same
        <4> QED
          BY <2>1, <2>2, <3>1, Induction
      <3> QED
        BY <1>8, <3>1, <3>2 DEF Leading
    <2> QED
      BY <2>3
  <1>10. /\ Len(Digits(n)) = k /\ Digits(n) \in Seq(0..9)
         /\ \A i \in 1..k : /\ Digits(n)[i] \in 0..9
                            /\ Leading(n, i) = 10 * Leading(n, i - 1) + Digits(n)[i]
    BY <1>7, <1>8, LeadingDigits
  <1>11. ASSUME NEW i \in 1..k PROVE number[i] = Digits(n)[i]
    <2>1. i \in 0..k /\ i - 1 \in 0..k
      BY <1>0
    <2>2. PICK x \in Nat, d \in 0..9 : x = m[i - 1] /\ d = number[i] /\ m[i] = 10 * x + d
      BY <1>3
    <2>3. m[i] = Leading(n, i) /\ m[i - 1] = Leading(n, i - 1)
      BY <1>9, <2>1
    <2>4. PICK e \in 0..9 : e = Digits(n)[i] /\ 10 * x + d = 10 * x + e
      BY <1>10, <2>2, <2>3
    <2>5. \A y \in Nat : \A a, b \in 0..9 : 10 * y + a = 10 * y + b => a = b
      OBVIOUS
    <2>6. d = e
      BY <2>4, <2>5
    <2> QED
      BY <2>2, <2>4, <2>6
  <1>12. number = Digits(n)
    <2>1. Digits(n) \in Seq(Nat) /\ Len(number) = k
      BY <1>10 DEF k
    <2> QED
      BY <1>10, <1>11, <2>1, SeqEqual
  <1> QED
    BY <1>2, <1>12

(* crumb_storage_parse_i32 accepts no text but the one crumb_save_i32 writes *)
(* for the integer it returns: no leading zero, no "-0", no other character, *)
(* no number that does not fit, no missing newline, however long the text.   *)
THEOREM ParseAcceptsNothingElse ==
    ASSUME NEW text \in Seq(Nat), Parse(text) # None
    PROVE  Parse(text) \in Integer32 /\ text = Contents(Parse(text))
  <1> DEFINE number == Number(text)
             limit == MagnitudeLimit(Negative(text))
             n == Magnitudes(number, limit)[Len(number)]
             l == Len(text)
  <1>1. /\ ~(l <= 2) /\ text[1] = Header /\ text[l] = Newline
        /\ number # <<>> /\ ~(Len(number) > 1 /\ number[1] = 0)
        /\ n # None /\ ~(Negative(text) /\ n = 0)
        /\ Parse(text) = IF Negative(text) THEN -n ELSE n
    BY Zenon DEF Parse
  <1>2. l \in Nat /\ l >= 3 /\ \A i \in 1..l : text[i] \in Nat
    <2>1. l \in Nat
      OBVIOUS
    <2> QED
      BY <1>1, <2>1
  <1>3. limit \in Nat /\ limit <= Largest /\ limit = IF Negative(text) THEN Magnitude ELSE Magnitude - 1
    <2>1. Magnitude <= Largest /\ Largest \in Nat
      BY IntegersFit, SMT DEF Largest
    <2>2. limit = IF Negative(text) THEN Magnitude ELSE Magnitude - 1
      BY DEF MagnitudeLimit
    <2> QED
      BY <2>1, <2>2
  <1>l. Largest \in Nat
    BY SMT DEF Largest
  <1>h. Header = 10 /\ Minus = 11 /\ Newline = 12
    BY DEF Header, Minus, Newline
  <1>f. PICK f \in {2, 3} : f = IF Negative(text) THEN 3 ELSE 2
    OBVIOUS
  <1>4. number = SubSeq(text, f, l - 1)
    BY <1>f DEF Number
  <1>5. \A i \in f..(l - 1) : text[i] \in Nat
    BY <1>2
  <1>6. /\ number \in Seq(Nat) /\ Len(number) = IF f <= l - 1 THEN (l - 1) - f + 1 ELSE 0
        /\ \A i \in 1..(l - 1) - f + 1 : number[i] = text[f + i - 1]
    BY <1>2, <1>4, <1>5, SubSeqProperties
  <1> HIDE DEF number, limit, n, l
  <1>7. /\ Len(number) = l - f /\ Len(number) >= 1
        /\ \A i \in 1..l - f : number[i] = text[f + i - 1]
    <2>1. Len(number) # 0
      BY <1>1, <1>6
    <2>2. f <= l - 1 /\ (l - 1) - f + 1 = l - f
      BY <1>2, <1>6, <2>1
    <2> QED
      BY <1>2, <1>6, <2>2
  <1>8. n \in 0..limit /\ number = Digits(n)
    <2>1. n = Magnitudes(number, limit)[Len(number)]
      BY DEF n
    <2> QED
      BY <1>1, <1>3, <1>6, <2>1, ReadDigits
  <1>9. CASE Negative(text)
    <2>1. /\ f = 3 /\ limit = Magnitude /\ Parse(text) = -n /\ n # 0 /\ text[2] = Minus
      BY <1>1, <1>3, <1>9, <1>f DEF Negative
    <2>2. Parse(text) \in Integer32 /\ Parse(text) < 0 /\ -Parse(text) = n
      BY <1>3, <1>8, <2>1 DEF Integer32
    <2>3. Contents(Parse(text)) = Layout(TRUE, number)
      BY <1>8, <2>2 DEF Contents, Layout, Sign
    <2>d. n \in Nat /\ n <= Largest
      BY <1>3, <1>8, <1>l
    <2>4. number[1] # Minus
      <3>1. 1 \in 1..Len(number)
        BY <1>6, <1>7
      <3>2. number[1] \in 0..9
        BY <1>8, <2>d, <3>1, LeadingDigits
      <3> QED
        BY <1>h, <3>2
    <2>5. PICK other : other = Layout(TRUE, number)
      OBVIOUS
    <2>6. /\ other \in Seq(Nat) /\ Len(other) = l /\ other[1] = Header /\ other[l] = Newline
          /\ Negative(other) = TRUE /\ Number(other) = number
      <3>1. /\ other \in Seq(Nat) /\ Len(other) = Len(number) + 3 /\ other[1] = Header
            /\ other[Len(other)] = Newline /\ Negative(other) = TRUE /\ Number(other) = number
        BY <1>1, <1>6, <2>4, <2>5, LayoutShape
      <3>2. Len(number) + 3 = l
        BY <1>2, <1>7, <2>1
      <3> QED
        BY <3>1, <3>2
    <2>7. other[2] = Minus
      BY <2>6 DEF Negative
    <2>8. \A i \in 1..l - 3 : number[i] = other[3 + i - 1]
      <3>1. number = SubSeq(other, 3, l - 1) /\ \A i \in 3..(l - 1) : other[i] \in Nat
        BY <1>2, <2>6 DEF Number
      <3>2. \A i \in 1..(l - 1) - 3 + 1 : number[i] = other[3 + i - 1]
        BY <1>2, <3>1, SubSeqProperties
      <3>3. (l - 1) - 3 + 1 = l - 3
        BY <1>2
      <3> QED
        BY <3>2, <3>3
    <2>9. ASSUME NEW i \in 1..l PROVE text[i] = other[i]
      <3>1. CASE i = 1
        BY <1>1, <2>6, <3>1
      <3>2. CASE i = 2
        BY <2>1, <2>7, <3>2
      <3>3. CASE i = l
        BY <1>1, <2>6, <3>3
      <3>4. CASE i \in 3..l - 1
        <4>1. i - 2 \in 1..l - 3 /\ 3 + (i - 2) - 1 = i
          BY <1>2, <3>4
        <4> QED
          BY <1>7, <2>1, <2>8, <4>1
      <3> QED
        BY <1>2, <3>1, <3>2, <3>3, <3>4
    <2>10. text = other
      <3>1. Len(text) = l
        BY DEF l
      <3> QED
        BY <2>6, <2>9, <3>1, SeqEqual
    <2> QED
      BY <2>2, <2>3, <2>5, <2>10
  <1>10. CASE ~Negative(text)
    <2>1. /\ f = 2 /\ limit = Magnitude - 1 /\ Parse(text) = n
      BY <1>1, <1>3, <1>10, <1>f
    <2>2. Parse(text) \in Integer32 /\ ~(Parse(text) < 0)
      BY <1>3, <1>8, <2>1 DEF Integer32
    <2>3. Contents(Parse(text)) = Layout(FALSE, number)
      BY <1>8, <2>1, <2>2 DEF Contents, Layout, Sign
    <2>d. n \in Nat /\ n <= Largest
      BY <1>3, <1>8, <1>l
    <2>4. number[1] # Minus
      <3>1. 1 \in 1..Len(number)
        BY <1>6, <1>7
      <3>2. number[1] \in 0..9
        BY <1>8, <2>d, <3>1, LeadingDigits
      <3> QED
        BY <1>h, <3>2
    <2>5. PICK other : other = Layout(FALSE, number)
      OBVIOUS
    <2>6. /\ other \in Seq(Nat) /\ Len(other) = l /\ other[1] = Header /\ other[l] = Newline
          /\ Negative(other) = FALSE /\ Number(other) = number
      <3>1. /\ other \in Seq(Nat) /\ Len(other) = Len(number) + 2 /\ other[1] = Header
            /\ other[Len(other)] = Newline /\ Negative(other) = FALSE /\ Number(other) = number
        BY <1>1, <1>6, <2>4, <2>5, LayoutShape
      <3>2. Len(number) + 2 = l
        BY <1>2, <1>7, <2>1
      <3> QED
        BY <3>1, <3>2
    <2>8. \A i \in 1..l - 2 : number[i] = other[2 + i - 1]
      <3>1. number = SubSeq(other, 2, l - 1) /\ \A i \in 2..(l - 1) : other[i] \in Nat
        BY <1>2, <2>6 DEF Number
      <3>2. \A i \in 1..(l - 1) - 2 + 1 : number[i] = other[2 + i - 1]
        BY <1>2, <3>1, SubSeqProperties
      <3>3. (l - 1) - 2 + 1 = l - 2
        BY <1>2
      <3> QED
        BY <3>2, <3>3
    <2>9. ASSUME NEW i \in 1..l PROVE text[i] = other[i]
      <3>1. CASE i = 1
        BY <1>1, <2>6, <3>1
      <3>3. CASE i = l
        BY <1>1, <2>6, <3>3
      <3>4. CASE i \in 2..l - 1
        <4>1. i - 1 \in 1..l - 2 /\ 2 + (i - 1) - 1 = i
          BY <1>2, <3>4
        <4> QED
          BY <1>7, <2>1, <2>8, <4>1
      <3> QED
        BY <1>2, <3>1, <3>3, <3>4
    <2>10. text = other
      <3>1. Len(text) = l
        BY DEF l
      <3> QED
        BY <2>6, <2>9, <3>1, SeqEqual
    <2> QED
      BY <2>2, <2>3, <2>5, <2>10
  <1> QED
    BY <1>9, <1>10

\* crumb_storage_parse_i32 is strict: it reads back every 32-bit integer crumb_save_i32
\* formats and takes no other text, of any length, for an integer.
THEOREM ParsesStrictly == TextSpec => []ParseIsStrict
  <1>1. TextInit => ParseIsStrict
    <2>1. CASE TextSaved
      <3>1. Parse(slotText) = saved /\ saved \in Integer32 /\ slotText = Contents(saved)
        BY <2>1, ReadsBack DEF TextSaved
      <3> QED
        BY <3>1 DEF ParseIsStrict
    <2>2. CASE TextForeign
      <3>1. slotText \in Seq(Nat) /\ saved = None
        BY <2>2, TextsAssumption DEF TextForeign
      <3> QED
        BY <3>1, ParseAcceptsNothingElse DEF ParseIsStrict
    <2> QED
      BY <2>1, <2>2 DEF TextInit
  <1>2. ParseIsStrict /\ [FALSE]_textVars => ParseIsStrict'
    BY DEF ParseIsStrict, textVars
  <1> QED
    BY <1>1, <1>2, PTL DEF TextSpec

----------------------------------------------------------------------------
(* Names, files and the states of a call. *)

\* What is saved is read back, so a file stands for one value.
LEMMA SavedValues ==
    /\ \A v \in Values : /\ Contents(v) \in Seq(Nat) /\ Len(Contents(v)) >= 3
                         /\ Parse(Contents(v)) = v
    /\ \A v, w \in Values : Contents(v) = Contents(w) => v = w
  <1>1. Values \subseteq Integer32
    BY DEF Integer32
  <1>2. \A v \in Values : /\ Contents(v) \in Seq(Nat) /\ Len(Contents(v)) >= 3
                          /\ Parse(Contents(v)) = v
    BY <1>1, ReadsBack
  <1>3. \A v, w \in Values : Contents(v) = Contents(w) => v = w
    <2> SUFFICES ASSUME NEW v \in Values, NEW w \in Values, Contents(v) = Contents(w)
                 PROVE  v = w
      OBVIOUS
    <2>1. Parse(Contents(v)) = v /\ Parse(Contents(w)) = w
      BY <1>2
    <2> QED
      BY <2>1
  <1> QED
    BY <1>2, <1>3

LEMMA NameFacts ==
    /\ \A s \in Slots : SlotName(s) \in Names /\ SlotName(s) \notin TemporaryNames
    /\ \A s, t \in Slots : SlotName(s) = SlotName(t) => s = t
    /\ TemporaryNames \subseteq Names
  <1>1. ASSUME NEW s \in Slots, SlotName(s) \in TemporaryNames PROVE FALSE
    <2>1. PICK a \in Slots, b \in Pids, i \in 0..MaxAttempts - 1 : <<s>> = <<a, b, i>>
      BY <1>1 DEF SlotName, TemporaryNames
    <2>2. Len(<<s>>) = 1 /\ Len(<<a, b, i>>) = 3
      OBVIOUS
    <2> QED
      BY <2>1, <2>2
  <1>2. \A s \in Slots : SlotName(s) \in Names
    BY DEF Names, SlotNames
  <1>3. \A s, t \in Slots : SlotName(s) = SlotName(t) => s = t
    BY DEF SlotName
  <1> QED
    BY <1>1, <1>2, <1>3 DEF Names

LEMMA TemporaryNameType ==
    ASSUME StorageInv, NEW p \in Procs, proc[p].pc \in Saving
    PROVE  TemporaryName(p) \in TemporaryNames /\ TemporaryName(p) \in Names
  <1>1. proc[p] \in CallStates /\ CallShaped(proc[p])
    BY DEF StorageInv, StorageTypeOK
  <1>2. proc[p].slot \in Slots
    BY <1>1 DEF CallShaped
  <1>3. proc[p].attempt \in 0..MaxAttempts - 1
    BY <1>1 DEF CallStates
  <1>4. Pid[p] \in Pids
    BY DEF Pids
  <1>5. TemporaryName(p) \in TemporaryNames
    BY <1>2, <1>3, <1>4 DEF TemporaryName, TemporaryNames
  <1> QED
    BY <1>5, NameFacts

LEMMA HoldingIsSaving == Holding \subseteq Saving
  BY DEF Holding, Saving

\* One process steps: the others stay as they are.
LEMMA OneSteps ==
    ASSUME StorageInv, NEW p \in Procs, NEW c \in CallStates, proc' = [proc EXCEPT ![p] = c]
    PROVE  /\ proc' \in [Procs -> CallStates] /\ proc'[p] = c
           /\ \A q \in Procs \ {p} : proc'[q] = proc[q] /\ TemporaryName(q)' = TemporaryName(q)
           /\ TemporaryName(p)' = <<c.slot, Pid[p], c.attempt>>
  <1>1. proc \in [Procs -> CallStates]
    BY DEF StorageInv, StorageTypeOK
  <1>2. /\ proc' \in [Procs -> CallStates] /\ proc'[p] = c
        /\ \A q \in Procs \ {p} : proc'[q] = proc[q]
    BY <1>1
  <1> QED
    BY <1>2 DEF TemporaryName

\* A process that answers.
LEMMA IdleState ==
    ASSUME StorageInv, NEW p \in Procs, NEW answer \in Answers \cup {"open", "look"},
           NEW v \in Values \cup {None, Fallback}
    PROVE  /\ Idle(p, answer, v) \in CallStates
           /\ Idle(p, answer, v).pc = answer /\ Idle(p, answer, v).value = v
           /\ Idle(p, answer, v).slot = None /\ Idle(p, answer, v).file = None
           /\ Idle(p, answer, v).at = 0 /\ Idle(p, answer, v).attempt = 0
  <1>1. proc[p] \in CallStates
    BY DEF StorageInv, StorageTypeOK
  <1>2. proc[p].root \in BOOLEAN
    BY <1>1 DEF CallStates
  <1>3. Idle(p, answer, v) \in [pc : {answer}, slot : {None}, value : {v}, attempt : {0},
                                file : {None}, at : {0}, root : {proc[p].root}]
    BY DEF Idle, Off
  <1>4. 0 \in 0..MaxAttempts - 1
    BY StorageConstants
  <1> QED
    BY <1>2, <1>3, <1>4 DEF CallStates, Saving

LEMMA OffState ==
    Off \in CallStates /\ CallShaped(Off) /\ Off.pc = "off" /\ Off.file = None
  <1>1. 0 \in 0..MaxAttempts - 1
    OBVIOUS
  <1>2. Off \in CallStates /\ Off.pc = "off" /\ Off.file = None
    BY <1>1 DEF Off, CallStates
  <1> QED
    BY <1>2 DEF CallShaped, Saving, Holding

----------------------------------------------------------------------------
(* The steps of the protocol keep the invariant. *)

\* The parts of the invariant about one process.
LEMMA CallFacts ==
    ASSUME StorageInv, NEW p \in Procs
    PROVE  /\ proc[p] \in CallStates /\ CallShaped(proc[p]) /\ CallContents(p) /\ OwnsFile(p)
           /\ proc[p].pc \in Holding =>
                /\ proc[p].file \in Files /\ proc[p].file # None
                /\ TemporaryName(p) \in Names /\ TemporaryName(p) \in TemporaryNames
                /\ dir[TemporaryName(p)] = proc[p].file
                /\ \A n \in Names \ {TemporaryName(p)} : proc[p].file \notin crashDir[n]
                /\ \A q \in Procs \ {p} : proc[q].file # proc[p].file
  <1>1. proc[p] \in CallStates /\ CallShaped(proc[p]) /\ CallContents(p) /\ OwnsFile(p)
    BY DEF StorageInv, StorageTypeOK
  <1>2. ASSUME proc[p].pc \in Holding
        PROVE  /\ proc[p].file \in Files /\ proc[p].file # None
               /\ TemporaryName(p) \in Names /\ TemporaryName(p) \in TemporaryNames
    <2>1. proc[p].file \in Files
      BY <1>1, <1>2 DEF CallShaped
    <2>2. TemporaryName(p) \in Names /\ TemporaryName(p) \in TemporaryNames
      BY <1>2, HoldingIsSaving, TemporaryNameType
    <2> QED
      BY <2>1, <2>2
  <1> QED
    BY <1>1, <1>2 DEF OwnsFile

\* A step after which a process holds no temporary file: its calls begin, fail, answer or
\* crash, and its temporary file, if it had one, is unlinked or remembered as litter.
LEMMA Leaves ==
    ASSUME StorageInv, NEW p \in Procs, NEW c \in CallStates, proc' = [proc EXCEPT ![p] = c],
           c.pc \notin Holding, CallShaped(c), CallContents(p)',
           \A q \in Procs \ {p} : proc[q].pc \in Holding => c.file # proc[q].file,
           file' = file, folder' \in {"absent", "fresh", "kept"},
           dir' \in [Names -> Files \cup {None}],
           crashDir' \in [Names -> SUBSET (Files \cup {None})],
           \A n \in Names : dir'[n] \in crashDir'[n] /\ crashDir'[n] \subseteq crashDir[n] \cup {None},
           \A n \in Names : dir'[n] = dir[n]
                            \/ (dir'[n] = None /\ proc[p].pc \in Holding /\ n = TemporaryName(p)),
           litter \subseteq litter', litter' \subseteq TemporaryNames,
           proc[p].pc \in Holding => TemporaryName(p) \in litter' \/ dir'[TemporaryName(p)] = None
    PROVE  StorageInv'
  <1>1. /\ proc' \in [Procs -> CallStates] /\ proc'[p] = c
        /\ \A q \in Procs \ {p} : proc'[q] = proc[q] /\ TemporaryName(q)' = TemporaryName(q)
    BY OneSteps
  <1>2. StorageTypeOK'
    BY <1>1 DEF StorageInv, StorageTypeOK
  <1>3. ASSUME NEW q \in Procs PROVE CallShaped(proc[q])' /\ CallContents(q)' /\ OwnsFile(q)'
    <2>1. CASE q = p
      BY <1>1, <2>1 DEF OwnsFile, CallShaped
    <2>2. CASE q # p
      <3>1. q \in Procs \ {p} /\ proc'[q] = proc[q] /\ TemporaryName(q)' = TemporaryName(q)
        BY <1>1, <2>2
      <3>2. CallShaped(proc[q])'
        <4>1. CallShaped(proc[q])
          BY CallFacts
        <4> QED
          BY <3>1, <4>1 DEF CallShaped
      <3>3. CallContents(q)'
        <4>1. CallContents(q)
          BY CallFacts
        <4> QED
          BY <3>1, <4>1 DEF CallContents, Holds, Saved
      <3>4. OwnsFile(q)'
        <4> SUFFICES ASSUME proc[q].pc \in Holding
                     PROVE  /\ dir'[TemporaryName(q)] = proc[q].file
                            /\ \A n \in Names \ {TemporaryName(q)} : proc[q].file \notin crashDir'[n]
                            /\ \A r \in Procs \ {q} : proc'[r].file # proc[q].file
          BY <3>1 DEF OwnsFile
        <4>1. /\ proc[q].file \in Files /\ proc[q].file # None
              /\ TemporaryName(q) \in Names /\ dir[TemporaryName(q)] = proc[q].file
              /\ \A n \in Names \ {TemporaryName(q)} : proc[q].file \notin crashDir[n]
              /\ \A r \in Procs \ {q} : proc[r].file # proc[q].file
          BY CallFacts
        <4>2. dir'[TemporaryName(q)] = dir[TemporaryName(q)]
          <5>1. proc[p].pc \in Holding => TemporaryName(q) # TemporaryName(p)
            BY <2>2, <4>1, CallFacts
          <5> QED
            BY <4>1, <5>1
        <4>3. \A r \in Procs \ {q} : proc'[r].file # proc[q].file
          BY <1>1, <3>1, <4>1
        <4> QED
          BY <4>1, <4>2, <4>3
      <3> QED
        BY <3>2, <3>3, <3>4
    <2> QED
      BY <2>1, <2>2
  <1>4. SlotsHoldValues'
    <2>1. \A f : Saved(f)' <=> Saved(f)
      BY DEF Saved, Holds
    <2> QED
      BY <2>1, NameFacts DEF StorageInv, SlotsHoldValues
  <1>5. TemporariesKnown'
    <2> SUFFICES ASSUME NEW n \in TemporaryNames, dir'[n] # None
                 PROVE  n \in litter' \/ \E q \in Procs : proc'[q].pc \in Holding /\ TemporaryName(q)' = n
      BY DEF TemporariesKnown
    <2>1. n \in Names /\ dir[n] # None
      BY NameFacts
    <2>2. n \in litter \/ \E q \in Procs : proc[q].pc \in Holding /\ TemporaryName(q) = n
      BY <2>1 DEF StorageInv, TemporariesKnown
    <2>3. CASE n \in litter
      BY <2>3
    <2>4. ASSUME NEW q \in Procs, proc[q].pc \in Holding, TemporaryName(q) = n
          PROVE  n \in litter' \/ \E r \in Procs : proc'[r].pc \in Holding /\ TemporaryName(r)' = n
      <3>1. CASE q = p
        BY <2>4, <3>1
      <3>2. CASE q # p
        BY <1>1, <2>4, <3>2
      <3> QED
        BY <3>1, <3>2
    <2> QED
      BY <2>2, <2>3, <2>4
  <1> QED
    BY <1>2, <1>3, <1>4, <1>5 DEF StorageInv

\* A step that changes at most the file a process holds, and no name.
LEMMA FileStep ==
    ASSUME StorageInv, NEW p \in Procs, NEW c \in CallStates, proc' = [proc EXCEPT ![p] = c],
           proc[p].pc \in Holding, c.pc \in Holding, c.file = proc[p].file,
           c.slot = proc[p].slot, c.attempt = proc[p].attempt, c.value = proc[p].value,
           CallContents(p)', UNCHANGED <<dir, crashDir, folder, litter>>,
           file' \in [Files -> [text : Seq(Nat), synced : Nat]],
           \A f \in Files : f # proc[p].file => file'[f] = file[f]
    PROVE  StorageInv'
  <1>1. /\ proc' \in [Procs -> CallStates] /\ proc'[p] = c
        /\ \A q \in Procs \ {p} : proc'[q] = proc[q] /\ TemporaryName(q)' = TemporaryName(q)
        /\ TemporaryName(p)' = <<c.slot, Pid[p], c.attempt>>
    BY OneSteps
  <1>2. TemporaryName(p)' = TemporaryName(p)
    BY <1>1 DEF TemporaryName
  <1>3. StorageTypeOK'
    BY <1>1 DEF StorageInv, StorageTypeOK
  <1>4. \A q \in Procs : /\ proc'[q].file = proc[q].file /\ TemporaryName(q)' = TemporaryName(q)
                         /\ proc'[q].pc \in Holding <=> proc[q].pc \in Holding
    BY <1>1, <1>2
  <1>5. \A q \in Procs : OwnsFile(q)'
    BY <1>4 DEF StorageInv, OwnsFile
  <1>6. ASSUME NEW q \in Procs PROVE CallShaped(proc[q])'
    <2>1. CASE q = p
      <3>1. CallShaped(proc[p])
        BY CallFacts
      <3> QED
        BY <1>1, <2>1, <3>1 DEF CallShaped, Holding, Saving
    <2>2. CASE q # p
      <3>1. CallShaped(proc[q])
        BY CallFacts
      <3> QED
        BY <1>1, <2>2, <3>1 DEF CallShaped
    <2> QED
      BY <2>1, <2>2
  <1>7. \A f \in Files : f # proc[p].file => (Saved(f)' <=> Saved(f))
    BY DEF Saved, Holds
  <1>8. ASSUME NEW q \in Procs PROVE CallContents(q)'
    <2>1. CASE q # p
      <3>0. proc[q].file # proc[p].file
        BY <2>1, CallFacts
      <3>1. CallContents(q) /\ proc'[q] = proc[q] /\ CallShaped(proc[q])
        BY <1>1, <2>1, CallFacts
      <3>2. proc[q].pc \in {"write", "rename", "read"} => proc[q].file \in Files
        BY <3>1 DEF CallShaped, Holding
      <3>3. proc[q].pc \in {"write", "rename", "read"} => file'[proc[q].file] = file[proc[q].file]
        BY <3>0, <3>2
      <3> QED
        BY <3>1, <3>3 DEF CallContents, Holds, Saved
    <2> QED
      BY <2>1
  <1>9. SlotsHoldValues'
    <2> SUFFICES ASSUME NEW s \in Slots, NEW f \in crashDir[SlotName(s)], f # None
                 PROVE  Saved(f)'
      BY DEF SlotsHoldValues
    <2>1. SlotName(s) \in Names /\ SlotName(s) # TemporaryName(p)
      BY NameFacts, CallFacts
    <2>2. f # proc[p].file
      BY <2>1, CallFacts
    <2>3. f \in Files
      BY <2>1 DEF StorageInv, StorageTypeOK
    <2>4. Saved(f)
      BY DEF StorageInv, SlotsHoldValues
    <2> QED
      BY <1>7, <2>2, <2>3, <2>4
  <1>10. TemporariesKnown'
    <2> SUFFICES ASSUME NEW n \in TemporaryNames, dir[n] # None
                 PROVE  n \in litter \/ \E q \in Procs : proc'[q].pc \in Holding /\ TemporaryName(q)' = n
      BY DEF TemporariesKnown
    <2>1. n \in litter \/ \E q \in Procs : proc[q].pc \in Holding /\ TemporaryName(q) = n
      BY DEF StorageInv, TemporariesKnown
    <2> QED
      BY <1>4, <2>1
  <1> QED
    BY <1>3, <1>5, <1>6, <1>8, <1>9, <1>10 DEF StorageInv

\* A step of a process that holds no temporary file before or after it.
LEMMA Quiet ==
    ASSUME StorageInv, NEW p \in Procs, NEW c \in CallStates, proc' = [proc EXCEPT ![p] = c],
           proc[p].pc \notin Holding, c.pc \notin Holding, CallShaped(c), CallContents(p)',
           \A q \in Procs \ {p} : proc[q].pc \in Holding => c.file # proc[q].file,
           folder' \in {"absent", "fresh", "kept"}, UNCHANGED <<dir, crashDir, file, litter>>
    PROVE  StorageInv'
  <1>1. /\ dir \in [Names -> Files \cup {None}] /\ litter \subseteq TemporaryNames
        /\ crashDir \in [Names -> SUBSET (Files \cup {None})]
        /\ \A n \in Names : dir[n] \in crashDir[n]
    BY DEF StorageInv, StorageTypeOK
  <1> QED
    BY <1>1, Leaves

\* A process that answers has nothing open.
LEMMA AnswerState ==
    ASSUME StorageInv, NEW p \in Procs, NEW answer \in Answers, NEW v \in Values \cup {None, Fallback},
           Answer(p, answer, v)
    PROVE  /\ Idle(p, answer, v) \in CallStates /\ Idle(p, answer, v).pc \notin Holding
           /\ CallShaped(Idle(p, answer, v)) /\ Idle(p, answer, v).file = None
           /\ proc' = [proc EXCEPT ![p] = Idle(p, answer, v)] /\ CallContents(p)'
           /\ \A q \in Procs \ {p} : proc[q].pc \in Holding => Idle(p, answer, v).file # proc[q].file
  <1>1. Idle(p, answer, v) \in CallStates /\ Idle(p, answer, v).pc = answer /\ Idle(p, answer, v).file = None
    BY IdleState
  <1>2. answer \notin Saving \cup Holding \cup {"off", "look", "read"}
    BY DEF Answers, Saving, Holding
  <1>3. answer # "write" /\ answer # "rename" /\ answer # "read"
    BY DEF Answers
  <1>4. answer \notin Holding \cup {"dirsync", "read"}
    BY DEF Answers, Holding
  <1>5. CallShaped(Idle(p, answer, v))
    <2>1. PICK c : c = Idle(p, answer, v)
      OBVIOUS
    <2>2. c.pc \notin Saving /\ c.pc \notin {"look", "read"} /\ c.pc \notin {"open", "create"}
      BY <1>1, <1>2, <2>1 DEF Saving
    <2>3. c.pc \notin Holding \cup {"dirsync", "read"} /\ c.file = None /\ c.pc # "off"
      BY <1>1, <1>2, <1>4, <2>1
    <2>4. CallShaped(c)
      BY <2>2, <2>3 DEF CallShaped
    <2> QED
      BY <2>1, <2>4
  <1>6. proc' = [proc EXCEPT ![p] = Idle(p, answer, v)]
    BY DEF Answer
  <1>7. proc'[p].pc = answer
    BY <1>1, <1>6, OneSteps
  <1>8. CallContents(p)'
    BY <1>3, <1>7 DEF CallContents
  <1>9. \A q \in Procs : proc[q].pc \in Holding => proc[q].file # None
    BY CallFacts
  <1> QED
    BY <1>1, <1>2, <1>5, <1>6, <1>8, <1>9

LEMMA AnswerQuiet ==
    ASSUME StorageInv, NEW p \in Procs, NEW answer \in Answers, NEW v \in Values \cup {None, Fallback},
           Answer(p, answer, v), proc[p].pc \notin Holding,
           folder' \in {"absent", "fresh", "kept"}, UNCHANGED <<dir, crashDir, file, litter>>
    PROVE  StorageInv'
  BY AnswerState, Quiet

\* A process that moves on in its call keeps everything but its place.
LEMMA GoesState ==
    ASSUME StorageInv, NEW p \in Procs, NEW pc \in Saving, Goes(p, pc)
    PROVE  \E c \in CallStates :
             /\ proc' = [proc EXCEPT ![p] = c] /\ c.pc = pc /\ c.slot = proc[p].slot
             /\ c.value = proc[p].value /\ c.attempt = proc[p].attempt
             /\ c.file = proc[p].file /\ c.at = proc[p].at
  <1>1. proc[p] \in CallStates
    BY CallFacts
  <1>2. [proc[p] EXCEPT !.pc = pc] \in CallStates
    BY <1>1 DEF CallStates
  <1>3. PICK c : c = [proc[p] EXCEPT !.pc = pc]
    OBVIOUS
  <1>4. c \in CallStates /\ proc' = [proc EXCEPT ![p] = c]
    BY <1>2, <1>3 DEF Goes
  <1>5. /\ c.pc = pc /\ c.slot = proc[p].slot
        /\ c.value = proc[p].value /\ c.attempt = proc[p].attempt
        /\ c.file = proc[p].file /\ c.at = proc[p].at
    BY <1>1, <1>3 DEF CallStates
  <1> QED
    BY <1>4, <1>5

LEMMA StartKeeps ==
    ASSUME StorageInv, NEW p \in Procs, StorageStart(p) PROVE StorageInv'
  <1>1. PICK root \in BOOLEAN : proc' = [proc EXCEPT ![p] = [Off EXCEPT !.pc = "ready", !.root = root]]
    BY DEF StorageStart
  <1>2. PICK c : c = [Off EXCEPT !.pc = "ready", !.root = root]
    OBVIOUS
  <1>3. c \in [pc : {"ready"}, slot : {None}, value : {None}, attempt : {0}, file : {None},
               at : {0}, root : {root}]
    BY <1>2 DEF Off
  <1>4. 0 \in 0..MaxAttempts - 1
    OBVIOUS
  <1>5. c \in CallStates /\ c.pc = "ready" /\ c.file = None
    BY <1>3, <1>4 DEF CallStates, Answers
  <1>6. CallShaped(c)
    BY <1>5 DEF CallShaped, Saving, Holding
  <1>7. proc' = [proc EXCEPT ![p] = c]
    BY <1>1, <1>2
  <1>8. CallContents(p)'
    BY <1>5, <1>7, OneSteps DEF CallContents
  <1>9. proc[p].pc \notin Holding /\ c.pc \notin Holding /\ UNCHANGED <<dir, crashDir, file, litter, folder>>
    BY <1>5 DEF StorageStart, Holding, files
  <1>10. folder' \in {"absent", "fresh", "kept"}
    BY <1>9 DEF StorageInv, StorageTypeOK
  <1>11. \A q \in Procs \ {p} : proc[q].pc \in Holding => c.file # proc[q].file
    BY <1>5, CallFacts
  <1> QED
    BY <1>5, <1>6, <1>7, <1>8, <1>9, <1>10, <1>11, Quiet

\* A call that begins.
LEMMA BeginState ==
    ASSUME StorageInv, NEW p \in Procs, NEW pc \in {"open", "look"}, NEW s \in Slots,
           NEW v \in Values \cup {None}, pc = "open" => v \in Values,
           proc' = [proc EXCEPT ![p] = [Idle(p, pc, v) EXCEPT !.slot = s]],
           proc[p].pc \notin Holding, UNCHANGED <<dir, crashDir, file, litter, folder>>
    PROVE  StorageInv'
  <1>1. /\ Idle(p, pc, v) \in CallStates /\ Idle(p, pc, v).pc = pc /\ Idle(p, pc, v).value = v
        /\ Idle(p, pc, v).file = None /\ Idle(p, pc, v).at = 0 /\ Idle(p, pc, v).attempt = 0
    BY IdleState
  <1>2. PICK c : c = [Idle(p, pc, v) EXCEPT !.slot = s]
    OBVIOUS
  <1>3. /\ c \in CallStates /\ c.pc = pc /\ c.slot = s /\ c.value = v /\ c.file = None /\ c.at = 0
    <2>1. PICK i \in CallStates : i = Idle(p, pc, v)
      BY <1>1
    <2>2. c = [i EXCEPT !.slot = s]
      BY <1>2, <2>1
    <2>3. i.pc = pc /\ i.value = v /\ i.file = None /\ i.at = 0
      BY <1>1, <2>1
    <2> QED
      BY <2>2, <2>3 DEF CallStates
  <1>4. proc' = [proc EXCEPT ![p] = c]
    BY <1>2
  <1>5. CallShaped(c) /\ c.pc \notin Holding
    BY <1>3 DEF CallShaped, Saving, Holding
  <1>6. CallContents(p)'
    BY <1>3, <1>4, OneSteps DEF CallContents
  <1>7. folder' \in {"absent", "fresh", "kept"}
    BY DEF StorageInv, StorageTypeOK
  <1>8. \A q \in Procs \ {p} : proc[q].pc \in Holding => c.file # proc[q].file
    BY <1>3, CallFacts
  <1> QED
    BY <1>3, <1>4, <1>5, <1>6, <1>7, <1>8, Quiet

LEMMA CallsKeep ==
    ASSUME StorageInv, NEW p \in Procs, CallSave(p) \/ CallLoad(p) PROVE StorageInv'
  <1>1. /\ proc[p].pc \in Answers /\ UNCHANGED <<dir, crashDir, file, litter, folder>>
    BY DEF CallSave, CallLoad, files
  <1>2. proc[p].pc \notin Holding
    BY <1>1 DEF Answers, Holding
  <1>3. folder' \in {"absent", "fresh", "kept"}
    BY <1>1 DEF StorageInv, StorageTypeOK
  <1>4. "failed" \in Answers /\ "loaded" \in Answers
    BY DEF Answers
  <1>5. CASE CallSave(p)
    <2>1. PICK s \in Slots \cup BadSlots, v \in Values :
            IF s \notin Slots \/ ~proc[p].root
            THEN Answer(p, "failed", None)
            ELSE proc' = [proc EXCEPT ![p] = [Idle(p, "open", v) EXCEPT !.slot = s]]
      BY <1>5 DEF CallSave
    <2>2. CASE Answer(p, "failed", None)
      BY <1>1, <1>2, <1>3, <1>4, <2>2, AnswerQuiet
    <2>3. CASE s \in Slots /\ proc' = [proc EXCEPT ![p] = [Idle(p, "open", v) EXCEPT !.slot = s]]
      BY <1>1, <1>2, <2>3, BeginState
    <2> QED
      BY <2>1, <2>2, <2>3
  <1>6. CASE CallLoad(p)
    <2>1. PICK s \in Slots \cup BadSlots :
            IF s \notin Slots \/ ~proc[p].root
            THEN Answer(p, "loaded", Fallback)
            ELSE proc' = [proc EXCEPT ![p] = [Idle(p, "look", None) EXCEPT !.slot = s]]
      BY <1>6 DEF CallLoad
    <2>2. CASE Answer(p, "loaded", Fallback)
      BY <1>1, <1>2, <1>3, <1>4, <2>2, AnswerQuiet
    <2>3. CASE s \in Slots /\ proc' = [proc EXCEPT ![p] = [Idle(p, "look", None) EXCEPT !.slot = s]]
      BY <1>1, <1>2, <2>3, BeginState
    <2> QED
      BY <2>1, <2>2, <2>3
  <1> QED
    BY <1>5, <1>6

LEMMA OpenDirectoryKeeps ==
    ASSUME StorageInv, NEW p \in Procs, OpenDirectory(p) PROVE StorageInv'
  <1>1. /\ proc[p].pc = "open" /\ UNCHANGED <<dir, crashDir, file, litter>>
    BY DEF OpenDirectory
  <1>2. folder' \in {"absent", "fresh", "kept"}
    BY DEF StorageInv, StorageTypeOK, OpenDirectory
  <1>3. proc[p].pc \notin Holding /\ proc[p].pc \in Saving
    BY <1>1 DEF Holding, Saving
  <1>4. CASE Answer(p, "failed", None)
    <2>1. "failed" \in Answers
      BY DEF Answers
    <2> QED
      BY <1>1, <1>2, <1>3, <1>4, <2>1, AnswerQuiet
  <1>5. CASE Goes(p, "create")
    <2>1. "create" \in Saving
      BY DEF Saving
    <2>2. PICK c \in CallStates :
             /\ proc' = [proc EXCEPT ![p] = c] /\ c.pc = "create" /\ c.slot = proc[p].slot
             /\ c.value = proc[p].value /\ c.attempt = proc[p].attempt
             /\ c.file = proc[p].file /\ c.at = proc[p].at
      BY <1>5, <2>1, GoesState
    <2>3. CallShaped(proc[p])
      BY CallFacts
    <2>4. proc[p].slot \in Slots /\ proc[p].value \in Values /\ proc[p].file = None /\ proc[p].at = 0
      BY <1>1, <2>3 DEF CallShaped, Saving, Holding
    <2>5. CallShaped(c) /\ c.pc \notin Holding
      BY <2>2, <2>4 DEF CallShaped, Saving, Holding
    <2>6. CallContents(p)'
      BY <2>2, OneSteps DEF CallContents
    <2>7. \A q \in Procs \ {p} : proc[q].pc \in Holding => c.file # proc[q].file
      BY <2>2, <2>4, CallFacts
    <2> QED
      BY <1>1, <1>2, <1>3, <2>2, <2>5, <2>6, <2>7, Quiet
  <1> QED
    BY <1>4, <1>5 DEF OpenDirectory

LEMMA CreateKeeps ==
    ASSUME StorageInv, NEW p \in Procs, CreateTemporary(p) PROVE StorageInv'
  <1>1. proc[p].pc = "create" /\ UNCHANGED folder
    BY DEF CreateTemporary
  <1>2. folder' \in {"absent", "fresh", "kept"}
    BY <1>1 DEF StorageInv, StorageTypeOK
  <1>3. proc[p].pc \notin Holding /\ proc[p].pc \in Saving
    BY <1>1 DEF Holding, Saving
  <1>4. proc[p] \in CallStates /\ CallShaped(proc[p])
    BY CallFacts
  <1>5. /\ proc[p].slot \in Slots /\ proc[p].value \in Values /\ proc[p].file = None
        /\ proc[p].at = 0 /\ proc[p].attempt \in 0..MaxAttempts - 1
    BY <1>1, <1>4 DEF CallShaped, Saving, Holding, CallStates
  <1>6. TemporaryName(p) \in TemporaryNames /\ TemporaryName(p) \in Names
    BY <1>3, TemporaryNameType
  <1>7. CASE Answer(p, "failed", None) /\ UNCHANGED <<dir, crashDir, file, litter>>
    <2>1. "failed" \in Answers
      BY DEF Answers
    <2> QED
      BY <1>2, <1>3, <1>7, <2>1, AnswerQuiet
  <1>8. CASE /\ proc[p].attempt + 1 < MaxAttempts
             /\ proc' = [proc EXCEPT ![p].attempt = @ + 1]
             /\ UNCHANGED <<dir, crashDir, file, litter>>
    <2>1. PICK c : c = [proc[p] EXCEPT !.attempt = @ + 1]
      OBVIOUS
    <2>2. proc[p].attempt + 1 \in 0..MaxAttempts - 1
      BY <1>5, <1>8
    <2>3. c \in CallStates /\ c.pc = "create" /\ c.slot = proc[p].slot /\ c.value = proc[p].value
          /\ c.file = None /\ c.at = 0
      BY <1>1, <1>4, <1>5, <2>1, <2>2 DEF CallStates
    <2>4. proc' = [proc EXCEPT ![p] = c]
      BY <1>8, <2>1
    <2>5. CallShaped(c) /\ c.pc \notin Holding
      BY <1>5, <2>3 DEF CallShaped, Saving, Holding
    <2>6. CallContents(p)'
      BY <2>3, <2>4, OneSteps DEF CallContents
    <2>7. \A q \in Procs \ {p} : proc[q].pc \in Holding => c.file # proc[q].file
      BY <2>3, CallFacts
    <2> QED
      BY <1>2, <1>3, <1>8, <2>3, <2>4, <2>5, <2>6, <2>7, Quiet
  <1>9. CASE /\ dir[TemporaryName(p)] = None /\ FreeFiles # {}
             /\ dir' = [dir EXCEPT ![TemporaryName(p)] = FreshFile]
             /\ crashDir' = [crashDir EXCEPT ![TemporaryName(p)] = @ \cup {FreshFile}]
             /\ file' = [file EXCEPT ![FreshFile] = NewFile]
             /\ proc' = [proc EXCEPT ![p].pc = "write", ![p].file = FreshFile]
             /\ litter' = litter \ {TemporaryName(p)}
    <2>1. FreshFile \in FreeFiles
      BY <1>9 DEF FreshFile
    <2>2. PICK f \in Files : f = FreshFile /\ ~InUse(f)
      BY <2>1 DEF FreeFiles
    <2>3. PICK n \in TemporaryNames : n = TemporaryName(p)
      BY <1>6
    <2>4. /\ f # None /\ \A m \in Names : dir[m] # f /\ f \notin crashDir[m]
          /\ \A q \in Procs : proc[q].file # f
      BY <2>2 DEF InUse
    <2>5. /\ dir \in [Names -> Files \cup {None}] /\ crashDir \in [Names -> SUBSET (Files \cup {None})]
          /\ file \in [Files -> [text : Seq(Nat), synced : Nat]] /\ litter \subseteq TemporaryNames
          /\ \A m \in Names : dir[m] \in crashDir[m]
      BY DEF StorageInv, StorageTypeOK
    <2>6. n \in Names
      BY NameFacts
    <2>7. /\ dir' = [dir EXCEPT ![n] = f] /\ crashDir' = [crashDir EXCEPT ![n] = @ \cup {f}]
          /\ file' = [file EXCEPT ![f] = NewFile] /\ litter' = litter \ {n}
      BY <1>9, <2>2, <2>3
    <2>8. PICK c : c = [proc[p] EXCEPT !.pc = "write", !.file = f]
      OBVIOUS
    <2>9. /\ c \in CallStates /\ c.pc = "write" /\ c.slot = proc[p].slot /\ c.value = proc[p].value
          /\ c.file = f /\ c.at = 0 /\ c.attempt = proc[p].attempt
      BY <1>4, <1>5, <2>8 DEF CallStates, Saving
    <2>10. proc' = [proc EXCEPT ![p] = c]
      BY <1>9, <2>2, <2>8
    <2>11. /\ proc' \in [Procs -> CallStates] /\ proc'[p] = c
           /\ \A q \in Procs \ {p} : proc'[q] = proc[q] /\ TemporaryName(q)' = TemporaryName(q)
           /\ TemporaryName(p)' = n
      <3>1. /\ proc' \in [Procs -> CallStates] /\ proc'[p] = c
            /\ \A q \in Procs \ {p} : proc'[q] = proc[q] /\ TemporaryName(q)' = TemporaryName(q)
            /\ TemporaryName(p)' = <<c.slot, Pid[p], c.attempt>>
        BY <2>9, <2>10, OneSteps
      <3>2. <<c.slot, Pid[p], c.attempt>> = n
        BY <2>3, <2>9 DEF TemporaryName
      <3> QED
        BY <3>1, <3>2
    <2>12. /\ dir' \in [Names -> Files \cup {None}] /\ crashDir' \in [Names -> SUBSET (Files \cup {None})]
           /\ \A m \in Names : dir'[m] = IF m = n THEN f ELSE dir[m]
           /\ \A m \in Names : crashDir'[m] = IF m = n THEN crashDir[n] \cup {f} ELSE crashDir[m]
      BY <2>5, <2>6, <2>7
    <2>13. /\ file' \in [Files -> [text : Seq(Nat), synced : Nat]] /\ file'[f].text = <<>>
           /\ \A g \in Files : g # f => file'[g] = file[g]
      <3>1. NewFile \in [text : Seq(Nat), synced : Nat] /\ NewFile.text = <<>>
        BY DEF NewFile
      <3> QED
        BY <2>5, <2>7, <3>1
    <2>14. StorageTypeOK'
      BY <1>2, <2>5, <2>7, <2>11, <2>12, <2>13 DEF StorageTypeOK
    <2>15. \A g \in Files : g # f => (Saved(g)' <=> Saved(g)) 
      BY <2>13 DEF Saved, Holds
    <2>16. ASSUME NEW q \in Procs PROVE CallShaped(proc[q])' /\ CallContents(q)' /\ OwnsFile(q)'
      <3>1. CASE q = p
        <4>1. CallShaped(c)
          BY <1>5, <2>9 DEF CallShaped, Saving, Holding
        <4>2. CallShaped(proc[q])'
          BY <2>11, <3>1, <4>1 DEF CallShaped
        <4>3. SubSeq(Contents(proc[p].value), 1, 0) = <<>> /\ 0 <= Len(Contents(proc[p].value))
          BY <1>5, SavedValues, SubSeqProperties
        <4>4. CallContents(q)'
          BY <2>9, <2>11, <2>13, <3>1, <4>3 DEF CallContents
        <4>5. OwnsFile(q)'
          <5>1. \A r \in Procs \ {p} : proc'[r].file # f
            BY <2>4, <2>11
          <5>2. dir'[n] = f /\ \A m \in Names \ {n} : f \notin crashDir'[m]
            BY <2>4, <2>6, <2>12
          <5> QED
            BY <2>9, <2>11, <3>1, <5>1, <5>2 DEF OwnsFile
        <4> QED
          BY <4>2, <4>4, <4>5
      <3>2. CASE q # p
        <4>1. q \in Procs \ {p} /\ proc'[q] = proc[q] /\ TemporaryName(q)' = TemporaryName(q)
          BY <2>11, <3>2
        <4>2. CallShaped(proc[q]) /\ CallContents(q) /\ OwnsFile(q)
          BY CallFacts
        <4>3. CallShaped(proc[q])'
          BY <4>1, <4>2 DEF CallShaped
        <4>4. proc[q].pc \in {"write", "rename", "read"} => proc[q].file \in Files
          BY <4>2 DEF CallShaped, Holding
        <4>5. proc[q].pc \in {"write", "rename", "read"} => file'[proc[q].file] = file[proc[q].file]
          BY <2>4, <2>13, <4>4
        <4>6. CallContents(q)'
          BY <4>1, <4>2, <4>5 DEF CallContents, Holds, Saved
        <4>7. OwnsFile(q)'
          <5> SUFFICES ASSUME proc[q].pc \in Holding
                       PROVE  /\ dir'[TemporaryName(q)] = proc[q].file
                              /\ \A m \in Names \ {TemporaryName(q)} : proc[q].file \notin crashDir'[m]
                              /\ \A r \in Procs \ {q} : proc'[r].file # proc[q].file
            BY <4>1 DEF OwnsFile
          <5>1. /\ proc[q].file \in Files /\ proc[q].file # None
                /\ TemporaryName(q) \in Names /\ dir[TemporaryName(q)] = proc[q].file
                /\ \A m \in Names \ {TemporaryName(q)} : proc[q].file \notin crashDir[m]
                /\ \A r \in Procs \ {q} : proc[r].file # proc[q].file
            BY CallFacts
          <5>2. TemporaryName(q) # n
            BY <1>9, <2>3, <5>1
          <5>3. proc[q].file # f
            BY <2>4
          <5>4. \A r \in Procs \ {q} : proc'[r].file # proc[q].file
            BY <2>9, <2>11, <5>1, <5>3
          <5> QED
            BY <2>12, <5>1, <5>2, <5>3, <5>4
        <4> QED
          BY <4>3, <4>6, <4>7
      <3> QED
        BY <3>1, <3>2
    <2>17. \A m \in Names : dir'[m] \in crashDir'[m]
      BY <2>5, <2>12
    <2>18. SlotsHoldValues'
      <3> SUFFICES ASSUME NEW s \in Slots, NEW g \in crashDir'[SlotName(s)], g # None
                   PROVE  Saved(g)'
        BY DEF SlotsHoldValues
      <3>1. SlotName(s) \in Names /\ SlotName(s) # n
        BY NameFacts
      <3>2. g \in crashDir[SlotName(s)] /\ g \in Files /\ g # f
        BY <2>4, <2>5, <2>12, <3>1
      <3>3. Saved(g)
        BY <3>2 DEF StorageInv, SlotsHoldValues
      <3> QED
        BY <2>15, <3>2, <3>3
    <2>19. TemporariesKnown'
      <3> SUFFICES ASSUME NEW m \in TemporaryNames, dir'[m] # None
                   PROVE  m \in litter' \/ \E q \in Procs : proc'[q].pc \in Holding /\ TemporaryName(q)' = m
        BY DEF TemporariesKnown
      <3>1. CASE m = n
        BY <2>9, <2>11, <3>1 DEF Holding
      <3>2. CASE m # n
        <4>1. m \in Names /\ dir[m] # None
          BY <2>12, <3>2, NameFacts
        <4>2. m \in litter \/ \E q \in Procs : proc[q].pc \in Holding /\ TemporaryName(q) = m
          BY <4>1 DEF StorageInv, TemporariesKnown
        <4>3. ASSUME NEW q \in Procs, proc[q].pc \in Holding, TemporaryName(q) = m
              PROVE  proc'[q].pc \in Holding /\ TemporaryName(q)' = m
          BY <1>3, <2>11, <4>3
        <4> QED
          BY <2>7, <3>2, <4>2, <4>3
      <3> QED
        BY <3>1, <3>2
    <2> QED
      BY <2>14, <2>16, <2>17, <2>18, <2>19 DEF StorageInv
  <1> QED
    BY <1>7, <1>8, <1>9 DEF CreateTemporary

LEMMA WriteKeeps ==
    ASSUME StorageInv, NEW p \in Procs, WriteTemporary(p) PROVE StorageInv'
  <1>1. /\ proc[p].pc = "write" /\ proc[p].at < Len(Contents(proc[p].value))
        /\ UNCHANGED <<dir, crashDir, folder, litter>>
    BY DEF WriteTemporary
  <1>2. proc[p].pc \in Holding /\ proc[p].pc \in Saving
    BY <1>1 DEF Holding, Saving
  <1>3. proc[p] \in CallStates /\ CallShaped(proc[p]) /\ CallContents(p) /\ proc[p].file \in Files
    BY <1>2, CallFacts
  <1>4. /\ proc[p].value \in Values /\ proc[p].at \in Nat
        /\ file[proc[p].file].text = SubSeq(Contents(proc[p].value), 1, proc[p].at)
        /\ file \in [Files -> [text : Seq(Nat), synced : Nat]]
    BY <1>1, <1>2, <1>3 DEF CallShaped, CallContents, CallStates, StorageInv, StorageTypeOK
  <1>5. CASE Goes(p, "unlink") /\ UNCHANGED file
    <2>1. "unlink" \in Saving /\ "unlink" \in Holding
      BY DEF Saving, Holding
    <2>2. PICK c \in CallStates :
             /\ proc' = [proc EXCEPT ![p] = c] /\ c.pc = "unlink" /\ c.slot = proc[p].slot
             /\ c.value = proc[p].value /\ c.attempt = proc[p].attempt
             /\ c.file = proc[p].file /\ c.at = proc[p].at
      BY <1>5, <2>1, GoesState
    <2>3. CallContents(p)'
      BY <2>2, OneSteps DEF CallContents
    <2> QED
      BY <1>1, <1>2, <1>4, <1>5, <2>1, <2>2, <2>3, FileStep
  <1>6. ASSUME NEW upTo \in proc[p].at + 1 .. Len(Contents(proc[p].value)),
               file' = [file EXCEPT ![proc[p].file].text =
                          @ \o SubSeq(Contents(proc[p].value), proc[p].at + 1, upTo)],
               proc' = [proc EXCEPT ![p].at = upTo]
        PROVE  StorageInv'
    <2>1. PICK t \in Seq(Nat) : t = Contents(proc[p].value)
      BY <1>4, SavedValues
    <2>2. PICK a \in Nat : a = proc[p].at
      BY <1>4
    <2>3. PICK f \in Files : f = proc[p].file
      BY <1>3
    <2>4. upTo \in Nat /\ a < upTo /\ upTo <= Len(t) /\ Len(t) \in Nat
      BY <1>6, <2>1, <2>2
    <2>5. /\ SubSeq(t, 1, a) \in Seq(Nat) /\ SubSeq(t, a + 1, upTo) \in Seq(Nat)
          /\ SubSeq(t, 1, a) \o SubSeq(t, a + 1, upTo) = SubSeq(t, 1, upTo)
          /\ SubSeq(t, 1, upTo) \in Seq(Nat)
      <3>1. \A i \in 1..Len(t) : t[i] \in Nat
        OBVIOUS
      <3>2. /\ SubSeq(t, 1, a) \in Seq(Nat) /\ Len(SubSeq(t, 1, a)) = a
            /\ \A i \in 1..a : SubSeq(t, 1, a)[i] = t[i]
        <4>1. \A i \in 1..a : t[i] \in Nat
          BY <2>4, <3>1
        <4> QED
          BY <2>4, <4>1, SubSeqProperties
      <3>3. /\ SubSeq(t, a + 1, upTo) \in Seq(Nat) /\ Len(SubSeq(t, a + 1, upTo)) = upTo - a
            /\ \A i \in 1..upTo - a : SubSeq(t, a + 1, upTo)[i] = t[a + i]
        <4>1. \A i \in a + 1..upTo : t[i] \in Nat
          BY <2>4, <3>1
        <4> QED
          BY <2>4, <4>1, SubSeqProperties
      <3>4. /\ SubSeq(t, 1, upTo) \in Seq(Nat) /\ Len(SubSeq(t, 1, upTo)) = upTo
            /\ \A i \in 1..upTo : SubSeq(t, 1, upTo)[i] = t[i]
        <4>1. \A i \in 1..upTo : t[i] \in Nat
          BY <2>4, <3>1
        <4> QED
          BY <2>4, <4>1, SubSeqProperties
      <3>5. PICK x \in Seq(Nat), y \in Seq(Nat) : x = SubSeq(t, 1, a) /\ y = SubSeq(t, a + 1, upTo)
        BY <3>2, <3>3
      <3>6. /\ x \o y \in Seq(Nat) /\ Len(x \o y) = upTo
            /\ \A i \in 1..upTo : (x \o y)[i] = IF i <= a THEN x[i] ELSE y[i - a]
        <4>1. Len(x) = a /\ Len(y) = upTo - a /\ a + (upTo - a) = upTo
          BY <2>4, <3>2, <3>3, <3>5
        <4>2. /\ x \o y \in Seq(Nat) /\ Len(x \o y) = Len(x) + Len(y)
              /\ \A i \in 1..Len(x) + Len(y) :
                    (x \o y)[i] = IF i <= Len(x) THEN x[i] ELSE y[i - Len(x)]
          BY ConcatProperties
        <4> QED
          BY <4>1, <4>2
      <3>7. \A i \in 1..upTo : (x \o y)[i] = t[i]
        <4> SUFFICES ASSUME NEW i \in 1..upTo PROVE (x \o y)[i] = t[i]
          OBVIOUS
        <4>1. CASE i <= a
          BY <3>2, <3>5, <3>6, <4>1
        <4>2. CASE i > a
          <5>1. i - a \in 1..upTo - a /\ a + (i - a) = i
            BY <2>4, <4>2
          <5> QED
            BY <3>3, <3>5, <3>6, <4>2, <5>1
        <4>3. i \in Int /\ a \in Int
          BY <2>4
        <4>4. i <= a \/ i > a
          BY <4>3
        <4> QED
          BY <4>1, <4>2, <4>4
      <3>8. x \o y = SubSeq(t, 1, upTo)
        BY <3>4, <3>6, <3>7, SeqEqual
      <3> QED
        BY <3>2, <3>3, <3>4, <3>5, <3>8
    <2>6. PICK c : c = [proc[p] EXCEPT !.at = upTo]
      OBVIOUS
    <2>7. /\ c \in CallStates /\ c.pc = proc[p].pc /\ c.slot = proc[p].slot /\ c.value = proc[p].value
          /\ c.file = proc[p].file /\ c.attempt = proc[p].attempt /\ c.at = upTo
      BY <1>3, <2>4, <2>6 DEF CallStates
    <2>8. proc' = [proc EXCEPT ![p] = c]
      BY <1>6, <2>6
    <2>9. file' = [file EXCEPT ![f].text = SubSeq(t, 1, upTo)]
      <3>1. file[f].text \o SubSeq(t, a + 1, upTo) = SubSeq(t, 1, upTo)
        BY <1>4, <2>1, <2>2, <2>3, <2>5
      <3>2. file' = [file EXCEPT ![f].text = @ \o SubSeq(t, a + 1, upTo)]
        BY <1>6, <2>1, <2>2, <2>3
      <3> QED
        BY <1>4, <3>1, <3>2
    <2>10. /\ file' \in [Files -> [text : Seq(Nat), synced : Nat]] /\ file'[f].text = SubSeq(t, 1, upTo)
           /\ \A g \in Files : g # f => file'[g] = file[g]
      BY <1>4, <2>5, <2>9
    <2>11. CallContents(p)'
      <3>1. proc'[p] = c
        BY <2>7, <2>8, OneSteps
      <3> QED
        BY <1>1, <2>1, <2>3, <2>4, <2>7, <2>10, <3>1 DEF CallContents
    <2> QED
      BY <1>1, <1>2, <2>3, <2>7, <2>8, <2>10, <2>11, FileStep
  <1> QED
    BY <1>5, <1>6 DEF WriteTemporary

\* A temporary file that could not be completed is about to be unlinked.
LEMMA UnlinkNext ==
    ASSUME StorageInv, NEW p \in Procs, proc[p].pc \in Holding, Goes(p, "unlink"),
           UNCHANGED <<dir, crashDir, folder, litter>>,
           file' \in [Files -> [text : Seq(Nat), synced : Nat]],
           \A f \in Files : f # proc[p].file => file'[f] = file[f]
    PROVE  StorageInv'
  <1>1. "unlink" \in Saving /\ "unlink" \in Holding
    BY DEF Saving, Holding
  <1>2. PICK c \in CallStates :
             /\ proc' = [proc EXCEPT ![p] = c] /\ c.pc = "unlink" /\ c.slot = proc[p].slot
             /\ c.value = proc[p].value /\ c.attempt = proc[p].attempt
             /\ c.file = proc[p].file /\ c.at = proc[p].at
    BY <1>1, GoesState
  <1>3. CallContents(p)'
    BY <1>2, OneSteps DEF CallContents
  <1> QED
    BY <1>1, <1>2, <1>3, FileStep

LEMMA SyncKeeps ==
    ASSUME StorageInv, NEW p \in Procs, SyncTemporary(p) PROVE StorageInv'
  <1>1. /\ proc[p].pc = "write" /\ proc[p].at = Len(Contents(proc[p].value))
        /\ UNCHANGED <<dir, crashDir, folder, litter>>
    BY DEF SyncTemporary
  <1>2. proc[p].pc \in Holding /\ proc[p].pc \in Saving
    BY <1>1 DEF Holding, Saving
  <1>3. proc[p] \in CallStates /\ CallShaped(proc[p]) /\ CallContents(p) /\ proc[p].file \in Files
    BY <1>2, CallFacts
  <1>4. /\ proc[p].value \in Values /\ proc[p].at \in Nat
        /\ file[proc[p].file].text = SubSeq(Contents(proc[p].value), 1, proc[p].at)
        /\ file \in [Files -> [text : Seq(Nat), synced : Nat]]
    BY <1>1, <1>2, <1>3 DEF CallShaped, CallContents, CallStates, StorageInv, StorageTypeOK
  <1>5. CASE Goes(p, "unlink") /\ UNCHANGED file
    BY <1>1, <1>2, <1>4, <1>5, UnlinkNext
  <1>6. CASE file' = [file EXCEPT ![proc[p].file].synced = Len(file[proc[p].file].text)]
    <2>1. PICK t \in Seq(Nat) : t = Contents(proc[p].value)
      BY <1>4, SavedValues
    <2>2. PICK f \in Files : f = proc[p].file
      BY <1>3
    <2>3. file[f].text = t
      <3>1. SubSeq(t, 1, Len(t)) = t
        <4>1. \A i \in 1..Len(t) : t[i] \in Nat
          OBVIOUS
        <4>2. Len(t) \in Nat
          OBVIOUS
        <4>3. /\ SubSeq(t, 1, Len(t)) \in Seq(Nat) /\ Len(SubSeq(t, 1, Len(t))) = Len(t)
              /\ \A i \in 1..Len(t) : SubSeq(t, 1, Len(t))[i] = t[i]
          <5>1. PICK l \in Nat : l = Len(t)
            BY <4>2
          <5>2. /\ SubSeq(t, 1, l) \in Seq(Nat) /\ Len(SubSeq(t, 1, l)) = l
                /\ \A i \in 1..l : SubSeq(t, 1, l)[i] = t[i]
            BY <4>1, <5>1, SubSeqProperties
          <5> QED
            BY <5>1, <5>2
        <4> QED
          BY <4>3, SeqEqual
      <3> QED
        BY <1>1, <1>4, <2>1, <2>2, <3>1
    <2>4. file' = [file EXCEPT ![f].synced = Len(t)] /\ Len(t) \in Nat
      BY <1>6, <2>2, <2>3
    <2>5. /\ file' \in [Files -> [text : Seq(Nat), synced : Nat]]
          /\ file'[f].text = t /\ file'[f].synced = Len(t)
          /\ \A g \in Files : g # f => file'[g] = file[g]
      BY <1>4, <2>3, <2>4
    <2>6. CASE Goes(p, "unlink")
      BY <1>1, <1>2, <2>2, <2>5, <2>6, UnlinkNext
    <2>7. CASE Goes(p, "rename")
      <3>1. "rename" \in Saving /\ "rename" \in Holding
        BY DEF Saving, Holding
      <3>2. PICK c \in CallStates :
               /\ proc' = [proc EXCEPT ![p] = c] /\ c.pc = "rename" /\ c.slot = proc[p].slot
               /\ c.value = proc[p].value /\ c.attempt = proc[p].attempt
               /\ c.file = proc[p].file /\ c.at = proc[p].at
        BY <2>7, <3>1, GoesState
      <3>3. CallContents(p)'
        <4>1. proc'[p] = c
          BY <3>2, OneSteps
        <4>2. Holds(f, c.value)'
          BY <2>1, <2>5, <3>2 DEF Holds
        <4> QED
          BY <2>1, <2>2, <2>5, <3>2, <4>1 DEF CallContents, Holds
      <3> QED
        BY <1>1, <1>2, <2>2, <2>5, <3>1, <3>2, <3>3, FileStep
    <2> QED
      BY <1>5, <1>6, <2>6, <2>7 DEF SyncTemporary
  <1> QED
    BY <1>5, <1>6 DEF SyncTemporary

LEMMA RenameKeeps ==
    ASSUME StorageInv, NEW p \in Procs, RenameTemporary(p) PROVE StorageInv'
  <1>1. proc[p].pc = "rename" /\ UNCHANGED <<file, folder, litter>>
    BY DEF RenameTemporary
  <1>2. proc[p].pc \in Holding /\ proc[p].pc \in Saving
    BY <1>1 DEF Holding, Saving
  <1>3. proc[p] \in CallStates /\ CallShaped(proc[p]) /\ CallContents(p) /\ proc[p].file \in Files
    BY <1>2, CallFacts
  <1>4. /\ proc[p].value \in Values /\ proc[p].slot \in Slots
        /\ Holds(proc[p].file, proc[p].value)
        /\ file \in [Files -> [text : Seq(Nat), synced : Nat]]
        /\ dir \in [Names -> Files \cup {None}] /\ crashDir \in [Names -> SUBSET (Files \cup {None})]
        /\ \A m \in Names : dir[m] \in crashDir[m]
    BY <1>1, <1>2, <1>3 DEF CallShaped, CallContents, StorageInv, StorageTypeOK
  <1>5. CASE Goes(p, "unlink") /\ UNCHANGED <<dir, crashDir>>
    BY <1>1, <1>2, <1>4, <1>5, UnlinkNext
  <1>6. CASE LET n == TemporaryName(p)
                 target == SlotName(proc[p].slot)
             IN  /\ dir[n] # None
                 /\ dir' = [dir EXCEPT ![target] = dir[n], ![n] = None]
                 /\ crashDir' = [crashDir EXCEPT ![target] = @ \cup {dir[n]}, ![n] = @ \cup {None}]
                 /\ Goes(p, "dirsync")
    <2>1. PICK f \in Files : f = proc[p].file /\ f # None
      BY <1>3
    <2>2. PICK n \in TemporaryNames : n = TemporaryName(p) /\ n \in Names /\ dir[n] = f
      BY <1>2, <2>1, CallFacts
    <2>3. PICK t \in Names : t = SlotName(proc[p].slot) /\ t # n
      BY <1>4, NameFacts
    <2>4. /\ \A m \in Names \ {n} : f \notin crashDir[m]
          /\ \A q \in Procs \ {p} : proc[q].file # f
      BY <1>2, <2>1, <2>2, CallFacts
    <2>5. /\ dir' = [dir EXCEPT ![t] = f, ![n] = None]
          /\ crashDir' = [crashDir EXCEPT ![t] = @ \cup {f}, ![n] = @ \cup {None}]
      BY <1>6, <2>2, <2>3
    <2>6. /\ dir' \in [Names -> Files \cup {None}] /\ crashDir' \in [Names -> SUBSET (Files \cup {None})]
          /\ dir'[t] = f /\ dir'[n] = None
          /\ \A m \in Names \ {t, n} : dir'[m] = dir[m] /\ crashDir'[m] = crashDir[m]
          /\ crashDir'[t] = crashDir[t] \cup {f} /\ crashDir'[n] = crashDir[n] \cup {None}
      <3>1. PICK a \in SUBSET (Files \cup {None}) : a = crashDir[t] \cup {f}
        BY <1>4, <2>3
      <3>2. PICK b \in SUBSET (Files \cup {None}) : b = crashDir[n] \cup {None}
        BY <1>4, <2>2
      <3>3. crashDir' = [crashDir EXCEPT ![t] = a, ![n] = b]
        BY <1>4, <2>2, <2>3, <2>5, <3>1, <3>2
      <3>4. /\ dir' \in [Names -> Files \cup {None}]
            /\ dir'[t] = f /\ dir'[n] = None /\ \A m \in Names \ {t, n} : dir'[m] = dir[m]
        BY <1>4, <2>2, <2>3, <2>5
      <3>5. /\ crashDir' \in [Names -> SUBSET (Files \cup {None})]
            /\ crashDir'[t] = a /\ crashDir'[n] = b
            /\ \A m \in Names \ {t, n} : crashDir'[m] = crashDir[m]
        BY <1>4, <2>2, <2>3, <3>3
      <3> QED
        BY <3>1, <3>2, <3>4, <3>5
    <2>7. PICK c \in CallStates :
             /\ proc' = [proc EXCEPT ![p] = c] /\ c.pc = "dirsync" /\ c.slot = proc[p].slot
             /\ c.value = proc[p].value /\ c.attempt = proc[p].attempt
             /\ c.file = proc[p].file /\ c.at = proc[p].at
      <3>1. "dirsync" \in Saving
        BY DEF Saving
      <3> QED
        BY <1>6, <3>1, GoesState
    <2>8. /\ proc' \in [Procs -> CallStates] /\ proc'[p] = c
          /\ \A q \in Procs \ {p} : proc'[q] = proc[q] /\ TemporaryName(q)' = TemporaryName(q)
      BY <2>7, OneSteps
    <2>9. StorageTypeOK'
      BY <1>1, <2>6, <2>8 DEF StorageInv, StorageTypeOK
    <2>10. \A g : Saved(g)' <=> Saved(g)
      BY <1>1 DEF Saved, Holds
    <2>11. ASSUME NEW q \in Procs PROVE CallShaped(proc[q])' /\ CallContents(q)' /\ OwnsFile(q)'
      <3>1. CASE q = p
        <4>1. CallShaped(c)
          BY <1>3, <1>4, <2>7 DEF CallShaped, Saving, Holding
        <4>2. c.pc \notin Holding /\ c.pc \notin {"write", "rename", "read"}
          BY <2>7 DEF Holding
        <4> QED
          BY <2>8, <3>1, <4>1, <4>2 DEF CallShaped, CallContents, OwnsFile
      <3>2. CASE q # p
        <4>1. q \in Procs \ {p} /\ proc'[q] = proc[q] /\ TemporaryName(q)' = TemporaryName(q)
          BY <2>8, <3>2
        <4>2. CallShaped(proc[q]) /\ CallContents(q) /\ OwnsFile(q)
          BY CallFacts
        <4>3. CallShaped(proc[q])' /\ CallContents(q)'
          BY <1>1, <4>1, <4>2 DEF CallShaped, CallContents, Holds, Saved
        <4>4. OwnsFile(q)'
          <5> SUFFICES ASSUME proc[q].pc \in Holding
                       PROVE  /\ dir'[TemporaryName(q)] = proc[q].file
                              /\ \A m \in Names \ {TemporaryName(q)} : proc[q].file \notin crashDir'[m]
                              /\ \A r \in Procs \ {q} : proc'[r].file # proc[q].file
            BY <4>1 DEF OwnsFile
          <5>1. /\ proc[q].file \in Files /\ proc[q].file # None
                /\ TemporaryName(q) \in Names /\ TemporaryName(q) \in TemporaryNames
                /\ dir[TemporaryName(q)] = proc[q].file
                /\ \A m \in Names \ {TemporaryName(q)} : proc[q].file \notin crashDir[m]
                /\ \A r \in Procs \ {q} : proc[r].file # proc[q].file
            BY CallFacts
          <5>2. proc[q].file # f
            BY <2>4, <3>2
          <5>3. TemporaryName(q) # n /\ TemporaryName(q) # t
            BY <1>4, <2>2, <2>3, <5>1, <5>2, NameFacts
          <5>4. \A r \in Procs \ {q} : proc'[r].file # proc[q].file
            BY <2>1, <2>7, <2>8, <5>1, <5>2
          <5> QED
            BY <2>6, <5>1, <5>2, <5>3, <5>4
        <4> QED
          BY <4>3, <4>4
      <3> QED
        BY <3>1, <3>2
    <2>12. \A m \in Names : dir'[m] \in crashDir'[m]
      BY <1>4, <2>6
    <2>13. SlotsHoldValues'
      <3> SUFFICES ASSUME NEW s \in Slots, NEW g \in crashDir'[SlotName(s)], g # None
                   PROVE  Saved(g)
        BY <2>10 DEF SlotsHoldValues
      <3>1. SlotName(s) \in Names /\ SlotName(s) # n
        BY NameFacts
      <3>2. g \in crashDir[SlotName(s)] \/ g = f
        BY <2>6, <3>1
      <3>3. Saved(f)
        BY <1>4, <2>1 DEF Saved
      <3>4. g \in crashDir[SlotName(s)] => Saved(g)
        BY DEF StorageInv, SlotsHoldValues
      <3> QED
        BY <3>2, <3>3, <3>4
    <2>14. TemporariesKnown'
      <3> SUFFICES ASSUME NEW m \in TemporaryNames, dir'[m] # None
                   PROVE  m \in litter' \/ \E q \in Procs : proc'[q].pc \in Holding /\ TemporaryName(q)' = m
        BY DEF TemporariesKnown
      <3>1. m \in Names /\ m # n /\ m # t
        BY <1>4, <2>3, <2>6, NameFacts
      <3>2. dir[m] # None
        BY <2>6, <3>1
      <3>3. m \in litter \/ \E q \in Procs : proc[q].pc \in Holding /\ TemporaryName(q) = m
        BY <3>2 DEF StorageInv, TemporariesKnown
      <3>4. ASSUME NEW q \in Procs, proc[q].pc \in Holding, TemporaryName(q) = m
            PROVE  proc'[q].pc \in Holding /\ TemporaryName(q)' = m
        BY <2>2, <2>8, <3>1, <3>4
      <3> QED
        BY <1>1, <3>3, <3>4
    <2> QED
      BY <2>9, <2>11, <2>12, <2>13, <2>14 DEF StorageInv
  <1> QED
    BY <1>5, <1>6 DEF RenameTemporary

LEMMA SyncDirectoryKeeps ==
    ASSUME StorageInv, NEW p \in Procs, SyncDirectory(p) PROVE StorageInv'
  <1>1. /\ proc[p].pc = "dirsync" /\ UNCHANGED <<dir, file, folder, litter>>
        /\ Answer(p, "saved", None)
    BY DEF SyncDirectory
  <1>2. proc[p].pc \notin Holding /\ "saved" \in Answers
    BY <1>1 DEF Holding, Answers
  <1>3. /\ dir \in [Names -> Files \cup {None}] /\ litter \subseteq TemporaryNames
        /\ crashDir \in [Names -> SUBSET (Files \cup {None})]
        /\ folder \in {"absent", "fresh", "kept"}
        /\ \A n \in Names : dir[n] \in crashDir[n]
    BY DEF StorageInv, StorageTypeOK
  <1>4. /\ crashDir' \in [Names -> SUBSET (Files \cup {None})]
        /\ \A n \in Names : dir'[n] \in crashDir'[n] /\ crashDir'[n] \subseteq crashDir[n] \cup {None}
    <2>1. CASE crashDir' = crashDir
      BY <1>1, <1>3, <2>1
    <2>2. CASE crashDir' = [n \in Names |-> {dir[n]}]
      BY <1>1, <1>3, <2>2
    <2> QED
      BY <2>1, <2>2 DEF SyncDirectory
  <1>5. PICK c \in CallStates :
           /\ proc' = [proc EXCEPT ![p] = c] /\ c.pc \notin Holding /\ CallShaped(c) /\ c.file = None
           /\ CallContents(p)' /\ \A q \in Procs \ {p} : proc[q].pc \in Holding => c.file # proc[q].file
    BY <1>1, <1>2, AnswerState
  <1> QED
    BY <1>1, <1>2, <1>3, <1>4, <1>5, Leaves

LEMMA UnlinkKeeps ==
    ASSUME StorageInv, NEW p \in Procs, UnlinkTemporary(p) PROVE StorageInv'
  <1>1. proc[p].pc = "unlink" /\ UNCHANGED <<file, folder>> /\ Answer(p, "failed", None)
    BY DEF UnlinkTemporary
  <1>2. proc[p].pc \in Holding /\ "failed" \in Answers
    BY <1>1 DEF Holding, Answers
  <1>3. /\ dir \in [Names -> Files \cup {None}] /\ litter \subseteq TemporaryNames
        /\ crashDir \in [Names -> SUBSET (Files \cup {None})]
        /\ folder \in {"absent", "fresh", "kept"}
        /\ \A n \in Names : dir[n] \in crashDir[n]
    BY DEF StorageInv, StorageTypeOK
  <1>4. PICK c \in CallStates :
           /\ proc' = [proc EXCEPT ![p] = c] /\ c.pc \notin Holding /\ CallShaped(c) /\ c.file = None
           /\ CallContents(p)' /\ \A q \in Procs \ {p} : proc[q].pc \in Holding => c.file # proc[q].file
    BY <1>1, <1>2, AnswerState
  <1>5. PICK n \in TemporaryNames : n = TemporaryName(p) /\ n \in Names
    BY <1>2, CallFacts
  <1>6. CASE /\ dir' = [dir EXCEPT ![n] = None]
             /\ crashDir' = [crashDir EXCEPT ![n] = @ \cup {None}]
             /\ UNCHANGED litter
    <2>1. /\ dir' \in [Names -> Files \cup {None}] /\ dir'[n] = None
          /\ \A m \in Names \ {n} : dir'[m] = dir[m]
      BY <1>3, <1>5, <1>6
    <2>2. PICK b \in SUBSET (Files \cup {None}) : b = crashDir[n] \cup {None}
      BY <1>3, <1>5
    <2>3. crashDir' = [crashDir EXCEPT ![n] = b]
      BY <1>3, <1>5, <1>6, <2>2
    <2>4. /\ crashDir' \in [Names -> SUBSET (Files \cup {None})] /\ crashDir'[n] = b
          /\ \A m \in Names \ {n} : crashDir'[m] = crashDir[m]
      BY <1>3, <1>5, <2>3
    <2>5. \A m \in Names : dir'[m] \in crashDir'[m] /\ crashDir'[m] \subseteq crashDir[m] \cup {None}
      BY <1>3, <2>1, <2>2, <2>4
    <2> QED
      BY <1>1, <1>2, <1>3, <1>4, <1>5, <1>6, <2>1, <2>4, <2>5, Leaves
  <1>7. CASE litter' = litter \cup {n} /\ UNCHANGED <<dir, crashDir>>
    BY <1>1, <1>2, <1>3, <1>4, <1>5, <1>7, Leaves
  <1> QED
    BY <1>5, <1>6, <1>7 DEF UnlinkTemporary

LEMMA LooksKeep ==
    ASSUME StorageInv, NEW p \in Procs, OpenSlot(p) \/ ReadSlot(p) PROVE StorageInv'
  <1>1. /\ proc[p].pc \in {"look", "read"} /\ UNCHANGED <<dir, crashDir, file, folder, litter>>
    BY DEF OpenSlot, ReadSlot, files
  <1>2. proc[p].pc \notin Holding /\ "loaded" \in Answers
    BY <1>1 DEF Holding, Answers
  <1>3. folder' \in {"absent", "fresh", "kept"}
    BY <1>1 DEF StorageInv, StorageTypeOK
  <1>4. proc[p] \in CallStates /\ CallShaped(proc[p]) /\ CallContents(p) /\ proc[p].slot \in Slots
    BY <1>1, CallFacts DEF CallShaped
  <1>5. CASE Answer(p, "loaded", Fallback)
    BY <1>1, <1>2, <1>3, <1>5, AnswerQuiet
  <1>6. CASE /\ proc[p].pc = "read" /\ Answer(p, "loaded", Parse(file[proc[p].file].text))
    <2>1. PICK v \in Values : Holds(proc[p].file, v)
      BY <1>4, <1>6 DEF CallContents, Saved
    <2>2. Parse(file[proc[p].file].text) = v
      BY <2>1, SavedValues DEF Holds
    <2> QED
      BY <1>1, <1>2, <1>3, <1>6, <2>2, AnswerQuiet
  <1>7. CASE /\ proc[p].pc = "look" /\ dir[SlotName(proc[p].slot)] # None
             /\ proc' = [proc EXCEPT ![p].pc = "read", ![p].file = dir[SlotName(proc[p].slot)]]
    <2>1. SlotName(proc[p].slot) \in Names /\ SlotName(proc[p].slot) \notin TemporaryNames
      BY <1>4, NameFacts
    <2>2. PICK f \in Files : f = dir[SlotName(proc[p].slot)] /\ f \in crashDir[SlotName(proc[p].slot)]
      BY <1>7, <2>1 DEF StorageInv, StorageTypeOK
    <2>3. Saved(f)
      BY <1>4, <2>2 DEF StorageInv, SlotsHoldValues
    <2>4. PICK c : c = [proc[p] EXCEPT !.pc = "read", !.file = f]
      OBVIOUS
    <2>5. c \in CallStates /\ c.pc = "read" /\ c.file = f /\ c.slot = proc[p].slot
      BY <1>4, <2>4 DEF CallStates
    <2>6. proc' = [proc EXCEPT ![p] = c]
      BY <1>7, <2>2, <2>4
    <2>7. CallShaped(c) /\ c.pc \notin Holding
      BY <1>4, <2>5 DEF CallShaped, Saving, Holding
    <2>8. CallContents(p)'
      <3>1. proc'[p] = c
        BY <2>5, <2>6, OneSteps
      <3>2. Saved(f)'
        BY <1>1, <2>3 DEF Saved, Holds
      <3> QED
        BY <2>5, <3>1, <3>2 DEF CallContents, Saved, Holds
    <2>9. \A q \in Procs \ {p} : proc[q].pc \in Holding => c.file # proc[q].file
      <3> SUFFICES ASSUME NEW q \in Procs, proc[q].pc \in Holding PROVE f # proc[q].file
        BY <2>5
      <3>1. TemporaryName(q) \in TemporaryNames /\ \A n \in Names \ {TemporaryName(q)} : proc[q].file \notin crashDir[n]
        BY CallFacts
      <3> QED
        BY <2>1, <2>2, <3>1
    <2> QED
      BY <1>1, <1>2, <1>3, <2>5, <2>6, <2>7, <2>8, <2>9, Quiet
  <1> QED
    BY <1>5, <1>6, <1>7 DEF OpenSlot, ReadSlot

LEMMA CrashKeeps ==
    ASSUME StorageInv, NEW p \in Procs, StorageCrash(p) PROVE StorageInv'
  <1>1. /\ proc' = [proc EXCEPT ![p] = Off] /\ UNCHANGED <<dir, crashDir, file, folder>>
        /\ litter' = litter \cup (IF proc[p].pc \in Holding THEN {TemporaryName(p)} ELSE {})
    BY DEF StorageCrash
  <1>2. /\ dir \in [Names -> Files \cup {None}] /\ litter \subseteq TemporaryNames
        /\ crashDir \in [Names -> SUBSET (Files \cup {None})]
        /\ folder \in {"absent", "fresh", "kept"}
        /\ \A n \in Names : dir[n] \in crashDir[n]
    BY DEF StorageInv, StorageTypeOK
  <1>3. Off \in CallStates /\ CallShaped(Off) /\ Off.pc = "off" /\ Off.file = None /\ "off" \notin Holding
    BY OffState DEF Holding
  <1>4. CallContents(p)'
    BY <1>1, <1>3, OneSteps DEF CallContents
  <1>5. litter \subseteq litter' /\ litter' \subseteq TemporaryNames
        /\ (proc[p].pc \in Holding => TemporaryName(p) \in litter')
    BY <1>1, <1>2, CallFacts
  <1>6. \A q \in Procs \ {p} : proc[q].pc \in Holding => Off.file # proc[q].file
    BY <1>3, CallFacts
  <1> QED
    BY <1>1, <1>2, <1>3, <1>4, <1>5, <1>6, Leaves

\* The entries and the contents a power loss leaves.
LEMMA LeftFacts ==
    ASSUME StorageInv
    PROVE  /\ \A e \in EntriesLeft : e \in [Names -> Files \cup {None}] /\ \A n \in Names : e[n] \in crashDir[n]
           /\ \A named : \A k \in ContentsLeft(named) :
                /\ k \in [Files -> [text : Seq(Nat), synced : Nat]]
                /\ \A f \in Files : f \in named /\ file[f].synced = Len(file[f].text) => k[f] = file[f]
  <1>1. /\ dir \in [Names -> Files \cup {None}] /\ crashDir \in [Names -> SUBSET (Files \cup {None})]
        /\ \A n \in Names : dir[n] \in crashDir[n]
        /\ file \in [Files -> [text : Seq(Nat), synced : Nat]]
    BY DEF StorageInv, StorageTypeOK
  <1>2. ASSUME NEW e \in EntriesLeft
        PROVE  e \in [Names -> Files \cup {None}] /\ \A n \in Names : e[n] \in crashDir[n]
    <2>1. PICK entry : /\ e = [n \in Names |-> IF n \in Unsettled THEN entry[n] ELSE dir[n]]
                       /\ \A n \in Unsettled : entry[n] \in crashDir[n]
      BY <1>2 DEF EntriesLeft
    <2> QED
      BY <1>1, <2>1
  <1>3. ASSUME NEW named, NEW k \in ContentsLeft(named)
        PROVE  /\ k \in [Files -> [text : Seq(Nat), synced : Nat]]
               /\ \A f \in Files : f \in named /\ file[f].synced = Len(file[f].text) => k[f] = file[f]
    <2>1. PICK kept : /\ k = [f \in Files |-> IF f \notin named THEN NewFile
                                              ELSE IF f \in Unsynced THEN Cut(f, kept[f]) ELSE file[f]]
                      /\ \A f \in Unsynced \cap named : kept[f] \in file[f].synced .. Len(file[f].text)
      BY <1>3 DEF ContentsLeft
    <2>2. NewFile \in [text : Seq(Nat), synced : Nat]
      BY DEF NewFile
    <2>3. ASSUME NEW f \in Files, f \in Unsynced, f \in named
          PROVE  Cut(f, kept[f]) \in [text : Seq(Nat), synced : Nat]
      <3>1. PICK a \in Nat : a = kept[f] /\ a <= Len(file[f].text)
        <4>1. file[f].synced \in Nat /\ Len(file[f].text) \in Nat
          BY <1>1
        <4>2. kept[f] \in file[f].synced .. Len(file[f].text)
          BY <2>1, <2>3
        <4> QED
          BY <4>1, <4>2
      <3>2. PICK t \in Seq(Nat) : t = file[f].text
        BY <1>1
      <3>3. \A i \in 1..a : t[i] \in Nat
        BY <3>1, <3>2
      <3>4. SubSeq(t, 1, a) \in Seq(Nat)
        BY <3>3, SubSeqProperties
      <3> QED
        BY <3>1, <3>2, <3>4 DEF Cut
    <2>4. k \in [Files -> [text : Seq(Nat), synced : Nat]]
      BY <1>1, <2>1, <2>2, <2>3
    <2>5. \A f \in Files : file[f].synced = Len(file[f].text) => f \notin Unsynced
      BY DEF Unsynced
    <2> QED
      BY <2>1, <2>4, <2>5
  <1> QED
    BY <1>2, <1>3

LEMMA PowerLossKeeps ==
    ASSUME StorageInv, PowerLoss PROVE StorageInv'
  <1>1. /\ dir \in [Names -> Files \cup {None}] /\ crashDir \in [Names -> SUBSET (Files \cup {None})]
        /\ file \in [Files -> [text : Seq(Nat), synced : Nat]] /\ folder \in {"absent", "fresh", "kept"}
    BY DEF StorageInv, StorageTypeOK
  <1>2. /\ dir' \in [Names -> Files \cup {None}]
        /\ \A n \in Names : dir'[n] = None \/ dir'[n] \in crashDir[n]
    <2>1. dir' = [n \in Names |-> None] \/ dir' \in EntriesLeft
      BY DEF PowerLoss
    <2> QED
      BY <2>1, LeftFacts
  <1>3. /\ crashDir' = [n \in Names |-> {dir'[n]}] /\ proc' = [p \in Procs |-> Off]
        /\ litter' = {n \in TemporaryNames : dir'[n] # None}
        /\ file' \in ContentsLeft(Range(dir'))
        /\ folder' \in {"absent", "fresh", "kept"}
    BY <1>1 DEF PowerLoss
  <1>4. crashDir' \in [Names -> SUBSET (Files \cup {None})]
    BY <1>2, <1>3
  <1>5. /\ file' \in [Files -> [text : Seq(Nat), synced : Nat]]
        /\ \A f \in Files : f \in Range(dir') /\ file[f].synced = Len(file[f].text) => file'[f] = file[f]
    BY <1>3, LeftFacts
  <1>6. Off \in CallStates /\ CallShaped(Off) /\ Off.pc = "off"
    BY OffState
  <1>7. StorageTypeOK'
    BY <1>2, <1>3, <1>4, <1>5, <1>6 DEF StorageTypeOK
  <1>8. ASSUME NEW p \in Procs PROVE CallShaped(proc[p])' /\ CallContents(p)' /\ OwnsFile(p)'
    <2>1. proc'[p] = Off
      BY <1>3
    <2>2. CallShaped(proc[p])'
      BY <1>6, <2>1 DEF CallShaped, Off
    <2> QED
      BY <1>6, <2>1, <2>2 DEF CallContents, OwnsFile, Holding
  <1>9. \A n \in Names : dir'[n] \in crashDir'[n]
    BY <1>3
  <1>10. SlotsHoldValues'
    <2> SUFFICES ASSUME NEW s \in Slots, NEW f \in crashDir'[SlotName(s)], f # None
                 PROVE  Saved(f)'
      BY DEF SlotsHoldValues
    <2>1. SlotName(s) \in Names
      BY NameFacts
    <2>2. f = dir'[SlotName(s)] /\ f \in Files /\ f \in crashDir[SlotName(s)]
      BY <1>2, <1>3, <2>1
    <2>3. Saved(f)
      BY <2>2 DEF StorageInv, SlotsHoldValues
    <2>4. f \in Range(dir')
      BY <1>2, <2>1, <2>2 DEF Range
    <2>5. file'[f] = file[f]
      BY <1>5, <2>2, <2>3, <2>4 DEF Saved, Holds
    <2> QED
      BY <2>3, <2>5 DEF Saved, Holds
  <1>11. TemporariesKnown'
    BY <1>3 DEF TemporariesKnown
  <1> QED
    BY <1>7, <1>8, <1>9, <1>10, <1>11 DEF StorageInv

LEMMA StorageInitInv == ASSUME StorageInit PROVE StorageInv
  <1>1. /\ proc = [p \in Procs |-> Off] /\ crashDir = [n \in Names |-> {dir[n]}] /\ litter = {}
    BY DEF StorageInit
  <1>2. NewFile \in [text : Seq(Nat), synced : Nat]
    BY DEF NewFile
  <1>3. Off \in CallStates /\ CallShaped(Off) /\ Off.pc = "off"
    BY OffState
  <1>4. /\ dir \in [Names -> Files \cup {None}] /\ file \in [Files -> [text : Seq(Nat), synced : Nat]]
        /\ folder \in {"absent", "fresh", "kept"}
        /\ \A n \in Names : dir[n] # None => n \in SlotNames /\ Saved(dir[n])
    <2>1. CASE /\ folder = "absent" /\ dir = [n \in Names |-> None] /\ file = [f \in Files |-> NewFile]
      BY <1>2, <2>1
    <2>2. ASSUME NEW s \in Slots, NEW v \in Values, folder = "kept",
                 dir = [[n \in Names |-> None] EXCEPT ![SlotName(s)] = CHOOSE g \in Files : TRUE],
                 file = [[g \in Files |-> NewFile] EXCEPT
                           ![CHOOSE g \in Files : TRUE] = [text |-> Contents(v), synced |-> Len(Contents(v))]]
          PROVE  /\ dir \in [Names -> Files \cup {None}] /\ file \in [Files -> [text : Seq(Nat), synced : Nat]]
                 /\ folder \in {"absent", "fresh", "kept"}
                 /\ \A n \in Names : dir[n] # None => n \in SlotNames /\ Saved(dir[n])
      <3>1. PICK f \in Files : f = CHOOSE g \in Files : TRUE
        OBVIOUS
      <3>2. PICK t \in Seq(Nat) : t = Contents(v) /\ Len(t) \in Nat
        BY SavedValues
      <3>3. SlotName(s) \in Names /\ SlotName(s) \in SlotNames
        BY NameFacts DEF SlotNames
      <3>4. /\ dir \in [Names -> Files \cup {None}] /\ dir[SlotName(s)] = f
            /\ \A n \in Names : n # SlotName(s) => dir[n] = None
        BY <2>2, <3>1, <3>3
      <3>5. PICK d : d = [text |-> t, synced |-> Len(t)]
        OBVIOUS
      <3>6. d \in [text : Seq(Nat), synced : Nat] /\ d.text = t /\ d.synced = Len(t)
        BY <3>2, <3>5
      <3>7. file \in [Files -> [text : Seq(Nat), synced : Nat]] /\ file[f] = d
        <4>1. file = [[g \in Files |-> NewFile] EXCEPT ![f] = d]
          BY <2>2, <3>1, <3>2, <3>5
        <4> QED
          BY <1>2, <3>6, <4>1
      <3>8. Saved(f)
        BY <3>2, <3>6, <3>7 DEF Saved, Holds
      <3> QED
        BY <2>2, <3>3, <3>4, <3>7, <3>8
    <2> QED
      BY <2>1, <2>2 DEF StorageInit
  <1>5. crashDir \in [Names -> SUBSET (Files \cup {None})] /\ \A n \in Names : dir[n] \in crashDir[n]
    BY <1>1, <1>4
  <1>6. StorageTypeOK
    BY <1>1, <1>3, <1>4, <1>5 DEF StorageTypeOK
  <1>7. ASSUME NEW p \in Procs PROVE CallShaped(proc[p]) /\ CallContents(p) /\ OwnsFile(p)
    BY <1>1, <1>3 DEF CallContents, OwnsFile, Holding
  <1>8. SlotsHoldValues
    BY <1>1, <1>4, NameFacts DEF SlotsHoldValues
  <1>9. TemporariesKnown
    <2>1. \A n \in SlotNames : n \notin TemporaryNames
      BY NameFacts DEF SlotNames
    <2> QED
      BY <1>4, <2>1, NameFacts DEF TemporariesKnown
  <1> QED
    BY <1>5, <1>6, <1>7, <1>8, <1>9 DEF StorageInv

LEMMA StorageNextInv == ASSUME StorageInv, [StorageNext]_storageVars PROVE StorageInv'
  <1>1. CASE PowerLoss
    BY <1>1, PowerLossKeeps
  <1>2. ASSUME NEW p \in Procs, StorageStep(p) PROVE StorageInv'
    BY <1>2, StartKeeps, CallsKeep, OpenDirectoryKeeps, CreateKeeps, WriteKeeps, SyncKeeps, RenameKeeps,
       SyncDirectoryKeeps, UnlinkKeeps, LooksKeep, CrashKeeps DEF StorageStep
  <1>3. CASE UNCHANGED storageVars
    BY <1>3 DEF storageVars, StorageInv, StorageTypeOK, CallContents, OwnsFile, SlotsHoldValues, TemporariesKnown,
                CallShaped, Saved, Holds, TemporaryName
  <1> QED
    BY <1>1, <1>2, <1>3 DEF StorageNext

\* The inductive invariant of the save and load protocol: every call knows what it has
\* written and owns the file it writes, and whatever a slot may name holds a saved value.
THEOREM StorageSafety == StorageSpec => []StorageInv
  <1>1. StorageInit => StorageInv
    BY StorageInitInv
  <1>2. StorageInv /\ [StorageNext]_storageVars => StorageInv'
    BY StorageNextInv
  <1> QED
    BY <1>1, <1>2, PTL DEF StorageSpec

\* No slot is ever torn, whatever number of processes of crumb_save_i32 interleave and
\* wherever they crash or the machine stops: what a slot names, now or after a power loss,
\* is a complete saved value already on disk.
THEOREM NeverTorn == StorageSpec => []SlotsNeverTorn
  <1>1. StorageInv => SlotsNeverTorn
    <2> SUFFICES ASSUME StorageInv, NEW s \in Slots, NEW f \in crashDir[SlotName(s)] \cup {dir[SlotName(s)]},
                        f # None
                 PROVE  Whole(f)
      BY DEF SlotsNeverTorn
    <2>1. SlotName(s) \in Names
      BY NameFacts
    <2>2. f \in crashDir[SlotName(s)]
      BY <2>1 DEF StorageInv
    <2>3. PICK v \in Values : Holds(f, v)
      BY <2>2 DEF StorageInv, SlotsHoldValues, Saved
    <2> QED
      BY <2>3, SavedValues DEF Holds, Whole
  <1> QED
    BY <1>1, StorageSafety, PTL

\* The O_EXCL temporary file of a save stays its own until it renames or unlinks it, also
\* between processes with equal pids, and no error path forgets a temporary file.
THEOREM TemporariesAccounted == StorageSpec => []TemporariesAccountedFor
  <1>1. StorageInv => TemporariesAccountedFor
    <2> SUFFICES ASSUME StorageInv PROVE TemporariesAccountedFor
      OBVIOUS
    <2>1. ASSUME NEW p \in Procs, proc[p].pc \in Holding
          PROVE  /\ dir[TemporaryName(p)] = proc[p].file
                 /\ \A n \in Names \ {TemporaryName(p)} : dir[n] # proc[p].file
                 /\ \A q \in Procs \ {p} : proc[q].file # proc[p].file
      <3>1. \A n \in Names : dir[n] \in crashDir[n]
        BY DEF StorageInv
      <3> QED
        BY <2>1, <3>1, CallFacts
    <2>2. TemporariesKnown
      BY DEF StorageInv
    <2> QED
      BY <2>1, <2>2 DEF TemporariesAccountedFor, TemporariesKnown
  <1> QED
    BY <1>1, StorageSafety, PTL

----------------------------------------------------------------------------
(* Refinement of the atomic slots. *)

LEMMA ValueFacts ==
    /\ ValueOf(None) = None
    /\ \A f, v : f # None /\ v \in Values /\ Holds(f, v) => ValueOf(f) = v
  <1>1. ValueOf(None) = None
    BY DEF ValueOf
  <1>2. ASSUME NEW f, NEW v \in Values, f # None, Holds(f, v) PROVE ValueOf(f) = v
    <2>1. \A w \in Values : SavedText[w] = Contents(w)
      BY DEF SavedText
    <2>2. SavedText[v] = file[f].text
      BY <1>2, <2>1 DEF Holds
    <2>3. \A w \in Values : SavedText[w] = file[f].text => w = v
      BY <2>1, <2>2, SavedValues
    <2>4. (CHOOSE w \in Values : SavedText[w] = file[f].text) = v
      BY <2>2, <2>3
    <2> QED
      BY <1>2, <2>2, <2>4 DEF ValueOf, TextValue
  <1> QED
    BY <1>1, <1>2

LEMMA SameValue ==
    ASSUME NEW f, f = None \/ file'[f] = file[f]
    PROVE  ValueOf(f)' = ValueOf(f)
  BY DEF ValueOf

\* What a slot may name stands for a value.
LEMMA SlotFileFacts ==
    ASSUME StorageInv, NEW s \in Slots
    PROVE  /\ SlotName(s) \in Names /\ dir[SlotName(s)] \in crashDir[SlotName(s)]
           /\ \A f \in crashDir[SlotName(s)] :
                f # None => f \in Files /\ ValueOf(f) \in Values /\ file[f].synced = Len(file[f].text)
  <1>1. SlotName(s) \in Names
    BY NameFacts
  <1>2. dir[SlotName(s)] \in crashDir[SlotName(s)]
    BY <1>1 DEF StorageInv
  <1>3. ASSUME NEW f \in crashDir[SlotName(s)], f # None
        PROVE  f \in Files /\ ValueOf(f) \in Values /\ file[f].synced = Len(file[f].text)
    <2>1. PICK v \in Values : Holds(f, v)
      BY <1>3 DEF StorageInv, SlotsHoldValues, Saved
    <2>2. f \in Files
      BY <1>1, <1>3 DEF StorageInv, StorageTypeOK
    <2>3. ValueOf(f) = v
      BY <1>3, <2>1, ValueFacts
    <2> QED
      BY <2>1, <2>2, <2>3 DEF Holds
  <1> QED
    BY <1>1, <1>2, <1>3

\* A step that leaves what the slots may name alone leaves their values alone.
LEMMA SlotsSame ==
    ASSUME StorageInv,
           \A s \in Slots : /\ dir'[SlotName(s)] = dir[SlotName(s)]
                            /\ crashDir'[SlotName(s)] = crashDir[SlotName(s)]
                            /\ \A f \in crashDir[SlotName(s)] : f = None \/ file'[f] = file[f],
           folder' = "kept" <=> folder = "kept"
    PROVE  SlotValues' = SlotValues /\ DurableValues' = DurableValues
  <1>1. ASSUME NEW s \in Slots
        PROVE  /\ ValueOf(dir[SlotName(s)])' = ValueOf(dir[SlotName(s)])
               /\ {ValueOf(f) : f \in crashDir[SlotName(s)]}' = {ValueOf(f) : f \in crashDir[SlotName(s)]}
    <2>1. \A f \in crashDir[SlotName(s)] : ValueOf(f)' = ValueOf(f)
      BY SameValue
    <2>2. dir[SlotName(s)] \in crashDir[SlotName(s)]
      BY SlotFileFacts
    <2>3. PICK d : d = dir[SlotName(s)] /\ d = dir'[SlotName(s)] /\ d \in crashDir[SlotName(s)]
      BY <2>2
    <2>4. ValueOf(d)' = ValueOf(d)
      BY <2>1, <2>3
    <2>5. ValueOf(dir[SlotName(s)])' = ValueOf(dir[SlotName(s)])
      BY <2>3, <2>4 DEF ValueOf
    <2>6. {ValueOf(f) : f \in crashDir[SlotName(s)]}' = {ValueOf(f) : f \in crashDir[SlotName(s)]}
      BY <2>1
    <2> QED
      BY <2>5, <2>6
  <1>2. (IF folder = "kept" THEN {} ELSE {None})' = (IF folder = "kept" THEN {} ELSE {None})
    OBVIOUS
  <1>3. SlotValues' = SlotValues
    BY <1>1 DEF SlotValues
  <1>4. DurableValues' = DurableValues
    BY <1>1, <1>2 DEF DurableValues
  <1> QED
    BY <1>3, <1>4

LEMMA OpFacts ==
    /\ OpOf("off") = "none" /\ OpOf("ready") = "none"
    /\ \A pc \in {"open", "create", "write", "rename", "unlink"} : OpOf(pc) = "save"
    /\ OpOf("dirsync") = "replaced" /\ OpOf("look") = "load" /\ OpOf("read") = "looked"
    /\ \A pc \in {"saved", "failed", "loaded"} : OpOf(pc) = pc
    /\ \A pc \in Answers : OpOf(pc) \in {"none", "saved", "failed", "loaded"}
  BY DEF OpOf, Answers

\* One process steps: the calls of the others stay as they are.
LEMMA OneCallSteps ==
    ASSUME StorageInv, NEW p \in Procs, NEW c \in CallStates, proc' = [proc EXCEPT ![p] = c],
           \A q \in Procs \ {p} : proc[q].pc = "read" => file'[proc[q].file] = file[proc[q].file]
    PROVE  SlotCalls' = [SlotCalls EXCEPT ![p] =
                           [op |-> OpOf(c.pc), slot |-> c.slot,
                            value |-> IF c.pc = "read" THEN ValueOf(c.file)' ELSE c.value]]
  <1>1. proc'[p] = c /\ \A q \in Procs \ {p} : proc'[q] = proc[q]
    BY OneSteps
  <1>2. ASSUME NEW q \in Procs \ {p} PROVE CallOf(q)' = CallOf(q)
    <2>1. proc'[q] = proc[q]
      BY <1>1
    <2>2. CASE proc[q].pc # "read"
      BY <2>1, <2>2 DEF CallOf
    <2>3. CASE proc[q].pc = "read"
      <3>1. PICK f : f = proc[q].file /\ f = proc'[q].file
        BY <2>1
      <3>2. ValueOf(f)' = ValueOf(f)
        BY <2>3, <3>1, SameValue
      <3>3. ValueOf(proc[q].file)' = ValueOf(proc[q].file)
        BY <3>1, <3>2 DEF ValueOf
      <3> QED
        BY <2>1, <3>3 DEF CallOf
    <2> QED
      BY <2>2, <2>3
  <1>3. CallOf(p)' = [op |-> OpOf(c.pc), slot |-> c.slot,
                      value |-> IF c.pc = "read" THEN ValueOf(c.file)' ELSE c.value]
    <2>1. ValueOf(proc[p].file)' = ValueOf(c.file)'
      BY <1>1 DEF ValueOf
    <2> QED
      BY <1>1, <2>1 DEF CallOf, OpOf
  <1>4. PICK d : d = CallOf(p)'
    OBVIOUS
  <1>5. SlotCalls' = [SlotCalls EXCEPT ![p] = d]
    BY <1>2, <1>4 DEF SlotCalls
  <1> QED
    BY <1>3, <1>4, <1>5

LEMMA CallOfFacts ==
    ASSUME NEW p \in Procs
    PROVE  /\ SlotCalls[p] = CallOf(p) /\ SlotCalls[p].op = OpOf(proc[p].pc)
           /\ SlotCalls[p].slot = proc[p].slot
           /\ proc[p].pc # "read" => SlotCalls[p].value = proc[p].value
           /\ proc[p].pc = "read" => SlotCalls[p].value = ValueOf(proc[p].file)
  BY DEF SlotCalls, CallOf

\* No step of a process changes a file that a slot may name or that another process reads.
LEMMA Untouched ==
    ASSUME StorageInv, NEW p \in Procs, StorageStep(p)
    PROVE  /\ \A s \in Slots : \A f \in crashDir[SlotName(s)] : f = None \/ file'[f] = file[f]
           /\ \A q \in Procs \ {p} : proc[q].pc = "read" => file'[proc[q].file] = file[proc[q].file]
  <1>1. CASE UNCHANGED file
    BY <1>1
  <1>2. \A q \in Procs : proc[q].pc = "read" => proc[q].file \in Files
    <2>1. \A q \in Procs : CallShaped(proc[q])
      BY CallFacts
    <2> QED
      BY <2>1 DEF CallShaped, Holding
  <1>3. file \in [Files -> [text : Seq(Nat), synced : Nat]]
    BY DEF StorageInv, StorageTypeOK
  <1>4. ASSUME NEW g \in Files, \A h \in Files : h # g => file'[h] = file[h],
               \A s \in Slots : g \notin crashDir[SlotName(s)],
               \A q \in Procs \ {p} : proc[q].file # g
        PROVE  /\ \A s \in Slots : \A f \in crashDir[SlotName(s)] : f = None \/ file'[f] = file[f]
               /\ \A q \in Procs \ {p} : proc[q].pc = "read" => file'[proc[q].file] = file[proc[q].file]
    BY <1>2, <1>4, SlotFileFacts
  <1>5. CASE CreateTemporary(p) /\ file' # file
    <2>1. FreeFiles # {} /\ file' = [file EXCEPT ![FreshFile] = NewFile]
      BY <1>5 DEF CreateTemporary
    <2>2. PICK g \in Files : g = FreshFile /\ ~InUse(g)
      BY <2>1 DEF FreshFile, FreeFiles
    <2>3. \A h \in Files : h # g => file'[h] = file[h]
      BY <1>3, <2>1, <2>2
    <2>4. \A s \in Slots : g \notin crashDir[SlotName(s)]
      BY <2>2, NameFacts DEF InUse
    <2>5. \A q \in Procs \ {p} : proc[q].file # g
      BY <2>2 DEF InUse
    <2> QED
      BY <1>4, <2>3, <2>4, <2>5
  <1>6. CASE (WriteTemporary(p) \/ SyncTemporary(p)) /\ file' # file
    <2>1. proc[p].pc \in Holding
      BY <1>6 DEF WriteTemporary, SyncTemporary, Holding
    <2>2. PICK g \in Files : g = proc[p].file
      BY <2>1, CallFacts
    <2>3. \A h \in Files : h # g => file'[h] = file[h]
      <3>1. CASE WriteTemporary(p)
        <4>1. PICK t : file' = [file EXCEPT ![g].text = t]
          BY <1>6, <2>2, <3>1 DEF WriteTemporary
        <4> QED
          BY <1>3, <4>1
      <3>2. CASE SyncTemporary(p)
        <4>1. PICK t : file' = [file EXCEPT ![g].synced = t]
          BY <1>6, <2>2, <3>2 DEF SyncTemporary
        <4> QED
          BY <1>3, <4>1
      <3> QED
        BY <1>6, <3>1, <3>2
    <2>4. \A s \in Slots : g \notin crashDir[SlotName(s)]
      BY <2>1, <2>2, NameFacts, CallFacts
    <2>5. \A q \in Procs \ {p} : proc[q].file # g
      BY <2>1, <2>2, CallFacts
    <2> QED
      BY <1>4, <2>3, <2>4, <2>5
  <1>7. file' # file => CreateTemporary(p) \/ WriteTemporary(p) \/ SyncTemporary(p)
    BY DEF StorageStep, StorageStart, CallSave, OpenDirectory, RenameTemporary, SyncDirectory, UnlinkTemporary,
           CallLoad, OpenSlot, ReadSlot, StorageCrash, files
  <1> QED
    BY <1>1, <1>5, <1>6, <1>7

\* What an answering process has done, seen from the slots.
LEMMA AnswerCall ==
    ASSUME StorageInv, NEW p \in Procs, StorageStep(p), NEW answer \in {"saved", "failed", "loaded"},
           NEW v \in Values \cup {None, Fallback}, Answer(p, answer, v)
    PROVE  SlotCalls' = [SlotCalls EXCEPT ![p] = Atomic!CallBegun(answer, None, v)]
  <1>1. answer \in Answers
    BY DEF Answers
  <1>2. /\ Idle(p, answer, v) \in CallStates /\ Idle(p, answer, v).pc = answer
        /\ Idle(p, answer, v).value = v /\ Idle(p, answer, v).slot = None
    BY <1>1, IdleState
  <1>3. proc' = [proc EXCEPT ![p] = Idle(p, answer, v)]
    BY DEF Answer
  <1>4. PICK c \in CallStates : c = Idle(p, answer, v)
    BY <1>2
  <1>5. SlotCalls' = [SlotCalls EXCEPT ![p] =
                        [op |-> OpOf(c.pc), slot |-> c.slot,
                         value |-> IF c.pc = "read" THEN ValueOf(c.file)' ELSE c.value]]
    BY <1>3, <1>4, Untouched, OneCallSteps
  <1>6. c.pc = answer /\ c.pc # "read" /\ c.value = v /\ c.slot = None /\ OpOf(c.pc) = answer
    BY <1>2, <1>4, OpFacts
  <1> QED
    BY <1>5, <1>6 DEF Atomic!CallBegun

\* A process that moves on without a step of the atomic slots.
LEMMA CallKept ==
    ASSUME StorageInv, NEW p \in Procs, StorageStep(p), NEW c \in CallStates, proc' = [proc EXCEPT ![p] = c],
           OpOf(c.pc) = OpOf(proc[p].pc), c.slot = proc[p].slot, c.value = proc[p].value,
           c.pc # "read", proc[p].pc # "read"
    PROVE  SlotCalls' = SlotCalls
  <1>1. SlotCalls' = [SlotCalls EXCEPT ![p] =
                        [op |-> OpOf(c.pc), slot |-> c.slot,
                         value |-> IF c.pc = "read" THEN ValueOf(c.file)' ELSE c.value]]
    BY Untouched, OneCallSteps
  <1>2. CallOf(p) = [op |-> OpOf(c.pc), slot |-> c.slot, value |-> c.value]
    BY DEF CallOf
  <1>3. SlotCalls = [q \in Procs |-> CallOf(q)]
    BY DEF SlotCalls
  <1> QED
    BY <1>1, <1>2, <1>3

\* The slots keep their values in every step but a rename and a synced directory.
LEMMA SlotsKept ==
    ASSUME StorageInv, NEW p \in Procs, StorageStep(p), ~RenameTemporary(p), ~SyncDirectory(p)
    PROVE  SlotValues' = SlotValues /\ DurableValues' = DurableValues
  <1>1. ASSUME NEW s \in Slots
        PROVE  dir'[SlotName(s)] = dir[SlotName(s)] /\ crashDir'[SlotName(s)] = crashDir[SlotName(s)]
    <2>1. CASE UNCHANGED <<dir, crashDir>>
      BY <2>1
    <2>2. CASE CreateTemporary(p) \/ UnlinkTemporary(p)
      <3>1. proc[p].pc \in Saving
        BY <2>2 DEF CreateTemporary, UnlinkTemporary, Saving
      <3>2. PICK n \in TemporaryNames : n = TemporaryName(p) /\ n \in Names
        BY <3>1, TemporaryNameType
      <3>3. SlotName(s) \in Names /\ SlotName(s) # n
        BY NameFacts
      <3>4. /\ dir \in [Names -> Files \cup {None}] /\ crashDir \in [Names -> SUBSET (Files \cup {None})]
        BY DEF StorageInv, StorageTypeOK
      <3>5. UNCHANGED <<dir, crashDir>>
            \/ \E d, e : dir' = [dir EXCEPT ![n] = d] /\ crashDir' = [crashDir EXCEPT ![n] = e]
        <4>1. CASE CreateTemporary(p)
          BY <3>2, <4>1 DEF CreateTemporary
        <4>2. CASE UnlinkTemporary(p)
          BY <3>2, <4>2 DEF UnlinkTemporary
        <4> QED
          BY <2>2, <4>1, <4>2
      <3> QED
        BY <3>3, <3>4, <3>5
    <2>3. UNCHANGED <<dir, crashDir>> \/ CreateTemporary(p) \/ UnlinkTemporary(p)
      BY DEF StorageStep, StorageStart, CallSave, OpenDirectory, WriteTemporary, SyncTemporary,
             CallLoad, OpenSlot, ReadSlot, StorageCrash, files
    <2> QED
      BY <2>1, <2>2, <2>3
  <1>2. folder' = "kept" <=> folder = "kept"
    BY DEF StorageStep, StorageStart, CallSave, OpenDirectory, CreateTemporary, WriteTemporary, SyncTemporary,
           UnlinkTemporary, CallLoad, OpenSlot, ReadSlot, StorageCrash, files
  <1> QED
    BY <1>1, <1>2, Untouched, SlotsSame

LEMMA ValueDurable ==
    ASSUME StorageInv, NEW s \in Slots PROVE SlotValues[s] \in DurableValues[s]
  BY SlotFileFacts DEF SlotValues, DurableValues

\* A process that returns to its game.
LEMMA Returns ==
    ASSUME StorageInv, NEW p \in Procs, StorageStep(p), ~RenameTemporary(p), ~SyncDirectory(p),
           \/ /\ OpOf(proc[p].pc) = "save" /\ Answer(p, "failed", None)
           \/ /\ OpOf(proc[p].pc) \in {"load", "looked"} /\ Answer(p, "loaded", Fallback)
    PROVE  Atomic!Return(p)
  <1>1. SlotValues' = SlotValues /\ DurableValues' = DurableValues
    BY SlotsKept
  <1>2. SlotCalls[p].op = OpOf(proc[p].pc)
    BY CallOfFacts
  <1>3. \A s \in Slots : SlotValues[s] \in DurableValues[s]
    BY ValueDurable
  <1>4. CASE OpOf(proc[p].pc) = "save" /\ Answer(p, "failed", None)
    <2>1. SlotCalls' = [SlotCalls EXCEPT ![p] = Atomic!CallBegun("failed", None, None)]
      BY <1>4, AnswerCall
    <2> QED
      BY <1>1, <1>2, <1>3, <1>4, <2>1 DEF Atomic!Return
  <1>5. CASE OpOf(proc[p].pc) \in {"load", "looked"} /\ Answer(p, "loaded", Fallback)
    <2>1. SlotCalls' = [SlotCalls EXCEPT ![p] = Atomic!CallBegun("loaded", None, Fallback)]
      BY <1>5, AnswerCall
    <2> QED
      BY <1>1, <1>2, <1>3, <1>5, <2>1 DEF Atomic!Return
  <1> QED
    BY <1>4, <1>5

\* Steps of a save before its rename: nothing happens to the slots, or the save fails.
LEMMA SaveSteps ==
    ASSUME StorageInv, NEW p \in Procs, StorageStep(p),
           \/ StorageStart(p) \/ OpenDirectory(p) \/ CreateTemporary(p) \/ WriteTemporary(p)
           \/ SyncTemporary(p) \/ UnlinkTemporary(p)
    PROVE  Atomic!Return(p) \/ UNCHANGED Atomic!slotVars
  <1>1. ~RenameTemporary(p) /\ ~SyncDirectory(p)
    BY DEF StorageStart, OpenDirectory, CreateTemporary, WriteTemporary, SyncTemporary, UnlinkTemporary,
           RenameTemporary, SyncDirectory
  <1>2. SlotValues' = SlotValues /\ DurableValues' = DurableValues
    BY <1>1, SlotsKept
  <1>3. proc[p] \in CallStates /\ CallShaped(proc[p])
    BY CallFacts
  <1>4. SlotCalls' = SlotCalls => UNCHANGED Atomic!slotVars
    BY <1>2 DEF Atomic!slotVars
  <1>5. CASE StorageStart(p)
    <2>1. PICK root \in BOOLEAN : proc' = [proc EXCEPT ![p] = [Off EXCEPT !.pc = "ready", !.root = root]]
      BY <1>5 DEF StorageStart
    <2>2. PICK c : c = [Off EXCEPT !.pc = "ready", !.root = root]
      OBVIOUS
    <2>3. c \in [pc : {"ready"}, slot : {None}, value : {None}, attempt : {0}, file : {None},
                 at : {0}, root : {root}]
      BY <2>2 DEF Off
    <2>4. 0 \in 0..MaxAttempts - 1
      OBVIOUS
    <2>5. c \in CallStates /\ c.pc = "ready" /\ c.slot = None /\ c.value = None
      BY <2>3, <2>4 DEF CallStates, Answers
    <2>6. proc[p].pc = "off" /\ proc[p].slot = None /\ proc[p].value = None
      <3>1. proc[p].pc = "off"
        BY <1>5 DEF StorageStart
      <3>2. proc[p] = Off
        BY <1>3, <3>1 DEF CallShaped
      <3>3. Off.slot = None /\ Off.value = None
        BY DEF Off
      <3> QED
        BY <3>1, <3>2, <3>3
    <2>7. SlotCalls' = SlotCalls
      BY <2>1, <2>2, <2>5, <2>6, CallKept, OpFacts
    <2> QED
      BY <1>4, <2>7
  <1>6. ASSUME proc[p].pc \in {"open", "create", "write", "rename", "unlink"},
               NEW pc \in {"create", "write", "rename", "unlink"}, Goes(p, pc)
        PROVE  UNCHANGED Atomic!slotVars
    <2>1. pc \in Saving
      BY DEF Saving
    <2>2. PICK c \in CallStates :
             /\ proc' = [proc EXCEPT ![p] = c] /\ c.pc = pc /\ c.slot = proc[p].slot
             /\ c.value = proc[p].value
      BY <1>6, <2>1, GoesState
    <2>3. SlotCalls' = SlotCalls
      BY <1>6, <2>2, CallKept, OpFacts
    <2> QED
      BY <1>4, <2>3
  <1>7. ASSUME proc[p].pc \in {"open", "create", "write", "rename", "unlink"}, Answer(p, "failed", None)
        PROVE  Atomic!Return(p)
    BY <1>1, <1>7, Returns, OpFacts
  <1>8. CASE OpenDirectory(p) \/ UnlinkTemporary(p) \/ SyncTemporary(p)
    BY <1>6, <1>7, <1>8 DEF OpenDirectory, UnlinkTemporary, SyncTemporary
  <1>9. CASE CreateTemporary(p)
    <2>1. proc[p].pc = "create"
      BY <1>9 DEF CreateTemporary
    <2>2. CASE Answer(p, "failed", None)
      BY <1>7, <2>1, <2>2
    <2>3. CASE /\ proc[p].attempt + 1 < MaxAttempts
               /\ proc' = [proc EXCEPT ![p].attempt = @ + 1]
      <3>1. PICK c : c = [proc[p] EXCEPT !.attempt = @ + 1]
        OBVIOUS
      <3>2. proc[p].attempt + 1 \in 0..MaxAttempts - 1
        BY <1>3, <2>3 DEF CallStates
      <3>3. c \in CallStates /\ c.pc = "create" /\ c.slot = proc[p].slot /\ c.value = proc[p].value
        BY <1>3, <2>1, <3>1, <3>2 DEF CallStates
      <3>4. SlotCalls' = SlotCalls
        BY <2>1, <2>3, <3>1, <3>3, CallKept
      <3> QED
        BY <1>4, <3>4
    <2>4. CASE FreeFiles # {} /\ proc' = [proc EXCEPT ![p].pc = "write", ![p].file = FreshFile]
      <3>1. FreshFile \in Files
        BY <2>4 DEF FreshFile, FreeFiles
      <3>2. PICK c : c = [proc[p] EXCEPT !.pc = "write", !.file = FreshFile]
        OBVIOUS
      <3>3. c \in CallStates /\ c.pc = "write" /\ c.slot = proc[p].slot /\ c.value = proc[p].value
        BY <1>3, <3>1, <3>2 DEF CallStates, Saving
      <3>4. SlotCalls' = SlotCalls
        BY <2>1, <2>4, <3>2, <3>3, CallKept, OpFacts
      <3> QED
        BY <1>4, <3>4
    <2> QED
      BY <1>9, <2>2, <2>3, <2>4 DEF CreateTemporary
  <1>10. CASE WriteTemporary(p)
    <2>1. proc[p].pc = "write"
      BY <1>10 DEF WriteTemporary
    <2>2. CASE Goes(p, "unlink")
      BY <1>6, <2>1, <2>2
    <2>3. ASSUME NEW upTo \in proc[p].at + 1 .. Len(Contents(proc[p].value)), proc' = [proc EXCEPT ![p].at = upTo]
          PROVE  UNCHANGED Atomic!slotVars
      <3>1. PICK c : c = [proc[p] EXCEPT !.at = upTo]
        OBVIOUS
      <3>2. upTo \in Nat
        BY <1>3 DEF CallStates
      <3>3. c \in CallStates /\ c.pc = "write" /\ c.slot = proc[p].slot /\ c.value = proc[p].value
        BY <1>3, <2>1, <3>1, <3>2 DEF CallStates
      <3>4. SlotCalls' = SlotCalls
        BY <2>1, <2>3, <3>1, <3>3, CallKept
      <3> QED
        BY <1>4, <3>4
    <2> QED
      BY <1>10, <2>2, <2>3 DEF WriteTemporary
  <1> QED
    BY <1>5, <1>8, <1>9, <1>10

LEMMA BeginCall ==
    ASSUME StorageInv, NEW p \in Procs, StorageStep(p), NEW pc \in {"open", "look"}, NEW s \in Slots,
           NEW v \in Values \cup {None},
           proc' = [proc EXCEPT ![p] = [Idle(p, pc, v) EXCEPT !.slot = s]]
    PROVE  SlotCalls' = [SlotCalls EXCEPT ![p] = Atomic!CallBegun(OpOf(pc), s, v)]
  <1>1. Idle(p, pc, v) \in CallStates /\ Idle(p, pc, v).pc = pc /\ Idle(p, pc, v).value = v
    BY IdleState
  <1>2. PICK c : c = [Idle(p, pc, v) EXCEPT !.slot = s]
    OBVIOUS
  <1>3. c \in CallStates /\ c.pc = pc /\ c.slot = s /\ c.value = v
    <2>1. PICK i \in CallStates : i = Idle(p, pc, v)
      BY <1>1
    <2>2. c = [i EXCEPT !.slot = s] /\ i.pc = pc /\ i.value = v
      BY <1>1, <1>2, <2>1
    <2> QED
      BY <2>2 DEF CallStates
  <1>4. SlotCalls' = [SlotCalls EXCEPT ![p] =
                        [op |-> OpOf(c.pc), slot |-> c.slot,
                         value |-> IF c.pc = "read" THEN ValueOf(c.file)' ELSE c.value]]
    BY <1>2, <1>3, Untouched, OneCallSteps
  <1> QED
    BY <1>3, <1>4 DEF Atomic!CallBegun

LEMMA CallsEnter ==
    ASSUME StorageInv, NEW p \in Procs, StorageStep(p), CallSave(p) \/ CallLoad(p)
    PROVE  Atomic!Enter(p)
  <1>1. proc[p].pc \in Answers
    BY DEF CallSave, CallLoad
  <1>2. ~RenameTemporary(p) /\ ~SyncDirectory(p)
    BY <1>1 DEF Answers, RenameTemporary, SyncDirectory
  <1>3. SlotValues' = SlotValues /\ DurableValues' = DurableValues
    BY <1>2, SlotsKept
  <1>4. SlotCalls[p].op \in {"none", "saved", "failed", "loaded"}
    BY <1>1, CallOfFacts, OpFacts
  <1>5. CASE CallSave(p)
    <2>1. PICK s \in Slots \cup BadSlots, v \in Values :
            IF s \notin Slots \/ ~proc[p].root
            THEN Answer(p, "failed", None)
            ELSE proc' = [proc EXCEPT ![p] = [Idle(p, "open", v) EXCEPT !.slot = s]]
      BY <1>5 DEF CallSave
    <2>2. CASE Answer(p, "failed", None)
      <3>1. SlotCalls' = [SlotCalls EXCEPT ![p] = Atomic!CallBegun("failed", None, None)]
        BY <2>2, AnswerCall
      <3> QED
        BY <1>3, <1>4, <3>1 DEF Atomic!Enter
    <2>3. CASE s \in Slots /\ proc' = [proc EXCEPT ![p] = [Idle(p, "open", v) EXCEPT !.slot = s]]
      <3>1. SlotCalls' = [SlotCalls EXCEPT ![p] = Atomic!CallBegun("save", s, v)]
        <4>1. SlotCalls' = [SlotCalls EXCEPT ![p] = Atomic!CallBegun(OpOf("open"), s, v)]
          BY <2>3, BeginCall
        <4>2. OpOf("open") = "save"
          BY OpFacts
        <4> QED
          BY <4>1, <4>2
      <3> QED
        BY <1>3, <1>4, <2>3, <3>1 DEF Atomic!Enter
    <2> QED
      BY <2>1, <2>2, <2>3
  <1>6. CASE CallLoad(p)
    <2>1. PICK s \in Slots \cup BadSlots :
            IF s \notin Slots \/ ~proc[p].root
            THEN Answer(p, "loaded", Fallback)
            ELSE proc' = [proc EXCEPT ![p] = [Idle(p, "look", None) EXCEPT !.slot = s]]
      BY <1>6 DEF CallLoad
    <2>2. CASE Answer(p, "loaded", Fallback)
      <3>1. SlotCalls' = [SlotCalls EXCEPT ![p] = Atomic!CallBegun("loaded", None, Fallback)]
        BY <2>2, AnswerCall
      <3> QED
        BY <1>3, <1>4, <3>1 DEF Atomic!Enter
    <2>3. CASE s \in Slots /\ proc' = [proc EXCEPT ![p] = [Idle(p, "look", None) EXCEPT !.slot = s]]
      <3>1. SlotCalls' = [SlotCalls EXCEPT ![p] = Atomic!CallBegun("load", s, None)]
        <4>1. SlotCalls' = [SlotCalls EXCEPT ![p] = Atomic!CallBegun(OpOf("look"), s, None)]
          BY <2>3, BeginCall
        <4>2. OpOf("look") = "load"
          BY OpFacts
        <4> QED
          BY <4>1, <4>2
      <3> QED
        BY <1>3, <1>4, <2>3, <3>1 DEF Atomic!Enter
    <2> QED
      BY <2>1, <2>2, <2>3
  <1> QED
    BY <1>5, <1>6

LEMMA CallRecord ==
    ASSUME NEW o, NEW s, NEW v, NEW z \in [op : {o}, slot : {s}, value : {v}]
    PROVE  z = [op |-> o, slot |-> s, value |-> v]
  OBVIOUS

LEMMA RenameReplaces ==
    ASSUME StorageInv, NEW p \in Procs, StorageStep(p), RenameTemporary(p)
    PROVE  Atomic!Replace(p) \/ UNCHANGED Atomic!slotVars
  <1>1. proc[p].pc = "rename" /\ UNCHANGED <<file, folder>>
    BY DEF RenameTemporary
  <1>2. proc[p].pc \in Holding /\ proc[p].pc \in Saving
    BY <1>1 DEF Holding, Saving
  <1>3. proc[p] \in CallStates /\ CallShaped(proc[p]) /\ CallContents(p) /\ proc[p].file \in Files
    BY <1>2, CallFacts
  <1>4. /\ proc[p].value \in Values /\ proc[p].slot \in Slots
        /\ Holds(proc[p].file, proc[p].value)
        /\ dir \in [Names -> Files \cup {None}] /\ crashDir \in [Names -> SUBSET (Files \cup {None})]
    BY <1>1, <1>2, <1>3 DEF CallShaped, CallContents, StorageInv, StorageTypeOK
  <1>5. CASE Goes(p, "unlink") /\ UNCHANGED <<dir, crashDir>>
    <2>1. SlotValues' = SlotValues /\ DurableValues' = DurableValues
      BY <1>1, <1>5, SlotsSame
    <2>2. "unlink" \in Saving
      BY DEF Saving
    <2>3. PICK c \in CallStates :
             /\ proc' = [proc EXCEPT ![p] = c] /\ c.pc = "unlink" /\ c.slot = proc[p].slot
             /\ c.value = proc[p].value
      BY <1>5, <2>2, GoesState
    <2>4. SlotCalls' = SlotCalls
      BY <1>1, <2>3, CallKept, OpFacts
    <2> QED
      BY <2>1, <2>4 DEF Atomic!slotVars
  <1>6. CASE LET n == TemporaryName(p)
                 target == SlotName(proc[p].slot)
             IN  /\ dir[n] # None
                 /\ dir' = [dir EXCEPT ![target] = dir[n], ![n] = None]
                 /\ crashDir' = [crashDir EXCEPT ![target] = @ \cup {dir[n]}, ![n] = @ \cup {None}]
                 /\ Goes(p, "dirsync")
    <2>1. PICK f \in Files : f = proc[p].file /\ f # None
      BY <1>3
    <2>2. PICK n \in TemporaryNames : n = TemporaryName(p) /\ n \in Names /\ dir[n] = f
      BY <1>2, <2>1, CallFacts
    <2>3. PICK s \in Slots : s = proc[p].slot
      BY <1>4
    <2>4. PICK v \in Values : v = proc[p].value
      BY <1>4
    <2>5. \A u \in Slots : SlotName(u) \in Names /\ SlotName(u) # n
      BY NameFacts
    <2>6. /\ dir' = [dir EXCEPT ![SlotName(s)] = f, ![n] = None]
          /\ crashDir' = [crashDir EXCEPT ![SlotName(s)] = @ \cup {f}, ![n] = @ \cup {None}]
      BY <1>6, <2>2, <2>3
    <2>7. /\ dir'[SlotName(s)] = f /\ crashDir'[SlotName(s)] = crashDir[SlotName(s)] \cup {f}
      <3>1. dir'[SlotName(s)] = f
        BY <1>4, <2>5, <2>6
      <3>2. PICK a, b : a = crashDir[SlotName(s)] \cup {f} /\ b = crashDir[n] \cup {None}
        OBVIOUS
      <3>3. crashDir' = [crashDir EXCEPT ![SlotName(s)] = a, ![n] = b]
        BY <1>4, <2>2, <2>5, <2>6, <3>2
      <3> QED
        BY <1>4, <2>5, <3>1, <3>2, <3>3
    <2>8. \A u \in Slots \ {s} : /\ dir'[SlotName(u)] = dir[SlotName(u)]
                                 /\ crashDir'[SlotName(u)] = crashDir[SlotName(u)]
      <3> SUFFICES ASSUME NEW u \in Slots \ {s}
                   PROVE  /\ dir'[SlotName(u)] = dir[SlotName(u)]
                          /\ crashDir'[SlotName(u)] = crashDir[SlotName(u)]
        OBVIOUS
      <3>1. PICK m \in Names : m = SlotName(u) /\ m # n /\ m # SlotName(s)
        BY <2>5, NameFacts
      <3>2. dir'[m] = dir[m]
        BY <1>4, <2>5, <2>6, <3>1
      <3>3. crashDir'[m] = crashDir[m]
        BY <1>4, <2>5, <2>6, <3>1
      <3> QED
        BY <3>1, <3>2, <3>3
    <2>9. ValueOf(f) = v
      BY <1>4, <2>1, <2>4, ValueFacts
    <2>10. \A g : ValueOf(g)' = ValueOf(g)
      BY <1>1 DEF ValueOf
    <2>11. SlotValues' = [SlotValues EXCEPT ![s] = v]
      <3>1. \A u \in Slots : ValueOf(dir[SlotName(u)])' = IF u = s THEN v ELSE ValueOf(dir[SlotName(u)])
        <4> SUFFICES ASSUME NEW u \in Slots
                     PROVE  ValueOf(dir[SlotName(u)])' = IF u = s THEN v ELSE ValueOf(dir[SlotName(u)])
          OBVIOUS
        <4>1. PICK d : d = dir'[SlotName(u)]
          OBVIOUS
        <4>2. ValueOf(dir[SlotName(u)])' = ValueOf(d)
          BY <1>1, <4>1 DEF ValueOf
        <4>3. CASE u = s
          BY <2>7, <2>9, <4>1, <4>2, <4>3
        <4>4. CASE u # s
          <5>1. d = dir[SlotName(u)]
            BY <2>8, <4>1, <4>4
          <5> QED
            BY <4>2, <4>4, <5>1
        <4> QED
          BY <4>3, <4>4
      <3> QED
        BY <3>1 DEF SlotValues
    <2>12. DurableValues' = [DurableValues EXCEPT ![s] = @ \cup {v}]
      <3>1. PICK k : k = (IF folder = "kept" THEN {} ELSE {None}) /\ k = (IF folder' = "kept" THEN {} ELSE {None})
        BY <1>1
      <3>2. DurableValues = [u \in Slots |-> {ValueOf(g) : g \in crashDir[SlotName(u)]} \cup k]
        BY <3>1 DEF DurableValues
      <3>3. DurableValues' = [u \in Slots |-> {ValueOf(g) : g \in crashDir'[SlotName(u)]} \cup k]
        BY <2>10, <3>1 DEF DurableValues
      <3>4. {ValueOf(g) : g \in crashDir'[SlotName(s)]} \cup k
              = ({ValueOf(g) : g \in crashDir[SlotName(s)]} \cup k) \cup {v}
        BY <2>7, <2>9
      <3>5. \A u \in Slots \ {s} : {ValueOf(g) : g \in crashDir'[SlotName(u)]} \cup k
                                     = {ValueOf(g) : g \in crashDir[SlotName(u)]} \cup k
        BY <2>8
      <3> QED
        BY <3>2, <3>3, <3>4, <3>5
    <2>13. SlotCalls' = [SlotCalls EXCEPT ![p].op = "replaced"]
      <3>1. "dirsync" \in Saving
        BY DEF Saving
      <3>2. PICK c \in CallStates :
               /\ proc' = [proc EXCEPT ![p] = c] /\ c.pc = "dirsync" /\ c.slot = s /\ c.value = v
        BY <1>6, <2>3, <2>4, <3>1, GoesState
      <3>3. SlotCalls' = [SlotCalls EXCEPT ![p] =
                            [op |-> OpOf(c.pc), slot |-> c.slot,
                             value |-> IF c.pc = "read" THEN ValueOf(c.file)' ELSE c.value]]
        BY <3>2, Untouched, OneCallSteps
      <3>4. SlotCalls' = [SlotCalls EXCEPT ![p] = [op |-> "replaced", slot |-> s, value |-> v]]
        BY <3>2, <3>3, OpFacts
      <3>5. SlotCalls[p] = [op |-> "save", slot |-> s, value |-> v]
        BY <1>1, <2>3, <2>4, CallOfFacts, OpFacts DEF CallOf
      <3>6. [SlotCalls[p] EXCEPT !.op = "replaced"] = [op |-> "replaced", slot |-> s, value |-> v]
        <4>1. [SlotCalls[p] EXCEPT !.op = "replaced"] \in [op : {"replaced"}, slot : {s}, value : {v}]
          BY <3>5
        <4> QED
          BY <4>1, CallRecord
      <3> QED
        BY <3>4, <3>6
    <2>14. SlotCalls[p].op = "save" /\ SlotCalls[p].slot = s /\ SlotCalls[p].value = v
      BY <1>1, <2>3, <2>4, CallOfFacts, OpFacts
    <2> QED
      BY <2>11, <2>12, <2>13, <2>14 DEF Atomic!Replace
  <1> QED
    BY <1>5, <1>6 DEF RenameTemporary

LEMMA SyncDirectoryReturns ==
    ASSUME StorageInv, NEW p \in Procs, StorageStep(p), SyncDirectory(p)
    PROVE  Atomic!Return(p)
  <1>1. proc[p].pc = "dirsync" /\ UNCHANGED <<dir, file, folder>> /\ Answer(p, "saved", None)
    BY DEF SyncDirectory
  <1>2. SlotCalls[p].op = "replaced"
    BY <1>1, CallOfFacts, OpFacts
  <1>3. SlotCalls' = [SlotCalls EXCEPT ![p] = Atomic!CallBegun("saved", None, None)]
    BY <1>1, AnswerCall
  <1>4. \A g : ValueOf(g)' = ValueOf(g)
    BY <1>1 DEF ValueOf
  <1>5. SlotValues' = SlotValues
    BY <1>1 DEF SlotValues, ValueOf
  <1>6. ASSUME NEW s \in Slots PROVE DurableValues'[s] \subseteq DurableValues[s] /\ SlotValues[s] \in DurableValues'[s]
    <2>1. PICK k : k = (IF folder = "kept" THEN {} ELSE {None}) /\ k = (IF folder' = "kept" THEN {} ELSE {None})
      BY <1>1
    <2>2. DurableValues[s] = {ValueOf(g) : g \in crashDir[SlotName(s)]} \cup k
      BY <2>1 DEF DurableValues
    <2>3. DurableValues'[s] = {ValueOf(g) : g \in crashDir'[SlotName(s)]} \cup k
      BY <1>4, <2>1 DEF DurableValues
    <2>4. dir[SlotName(s)] \in crashDir'[SlotName(s)] /\ crashDir'[SlotName(s)] \subseteq crashDir[SlotName(s)]
      <3>1. SlotName(s) \in Names /\ dir[SlotName(s)] \in crashDir[SlotName(s)]
        BY SlotFileFacts
      <3>2. CASE crashDir' = crashDir
        BY <3>1, <3>2
      <3>3. CASE crashDir' = [n \in Names |-> {dir[n]}]
        BY <3>1, <3>3
      <3> QED
        BY <3>2, <3>3 DEF SyncDirectory
    <2>5. SlotValues[s] = ValueOf(dir[SlotName(s)])
      BY DEF SlotValues
    <2> QED
      BY <2>2, <2>3, <2>4, <2>5
  <1> QED
    BY <1>2, <1>3, <1>5, <1>6 DEF Atomic!Return

LEMMA SlotLoads ==
    ASSUME StorageInv, NEW p \in Procs, StorageStep(p), OpenSlot(p) \/ ReadSlot(p)
    PROVE  Atomic!Look(p) \/ Atomic!Return(p)
  <1>1. proc[p].pc \in {"look", "read"} /\ UNCHANGED file
    BY DEF OpenSlot, ReadSlot, files
  <1>2. ~RenameTemporary(p) /\ ~SyncDirectory(p)
    BY <1>1 DEF RenameTemporary, SyncDirectory
  <1>3. SlotValues' = SlotValues /\ DurableValues' = DurableValues
    BY <1>2, SlotsKept
  <1>4. proc[p] \in CallStates /\ CallShaped(proc[p]) /\ CallContents(p) /\ proc[p].slot \in Slots
    BY <1>1, CallFacts DEF CallShaped
  <1>5. \A s \in Slots : SlotValues[s] \in DurableValues[s]
    BY ValueDurable
  <1>6. CASE Answer(p, "loaded", Fallback)
    BY <1>1, <1>2, <1>6, Returns, OpFacts
  <1>7. CASE proc[p].pc = "read" /\ Answer(p, "loaded", Parse(file[proc[p].file].text))
    <2>1. PICK v \in Values : Holds(proc[p].file, v)
      BY <1>4, <1>7 DEF CallContents, Saved
    <2>2. proc[p].file # None
      BY <1>4, <1>7 DEF CallShaped
    <2>3. Parse(file[proc[p].file].text) = v
      BY <2>1, SavedValues DEF Holds
    <2>4. SlotCalls[p].value = v /\ SlotCalls[p].op = "looked"
      BY <1>7, <2>1, <2>2, ValueFacts, CallOfFacts, OpFacts
    <2>5. SlotCalls' = [SlotCalls EXCEPT ![p] = Atomic!CallBegun("loaded", None, v)]
      BY <1>7, <2>3, AnswerCall
    <2>6. SlotCalls' = [SlotCalls EXCEPT ![p] = Atomic!CallBegun("loaded", None, SlotCalls[p].value)]
      BY <2>4, <2>5
    <2> QED
      BY <1>3, <1>5, <2>4, <2>6 DEF Atomic!Return
  <1>8. CASE /\ proc[p].pc = "look" /\ dir[SlotName(proc[p].slot)] # None
             /\ proc' = [proc EXCEPT ![p].pc = "read", ![p].file = dir[SlotName(proc[p].slot)]]
    <2>1. PICK s \in Slots : s = proc[p].slot
      BY <1>4
    <2>2. PICK f \in Files : f = dir[SlotName(s)] /\ f # None /\ ValueOf(f) \in Values
      BY <1>8, <2>1, SlotFileFacts
    <2>3. PICK c : c = [proc[p] EXCEPT !.pc = "read", !.file = f]
      OBVIOUS
    <2>4. c \in CallStates /\ c.pc = "read" /\ c.file = f /\ c.slot = s
      BY <1>4, <2>1, <2>3 DEF CallStates
    <2>5. proc' = [proc EXCEPT ![p] = c]
      BY <1>8, <2>1, <2>2, <2>3
    <2>6. SlotCalls' = [SlotCalls EXCEPT ![p] =
                          [op |-> OpOf(c.pc), slot |-> c.slot,
                           value |-> IF c.pc = "read" THEN ValueOf(c.file)' ELSE c.value]]
      BY <2>4, <2>5, Untouched, OneCallSteps
    <2>7. ValueOf(c.file)' = ValueOf(f)
      BY <1>1, <2>4 DEF ValueOf
    <2>8. PICK v \in Values : v = ValueOf(f)
      BY <2>2
    <2>9. SlotCalls' = [SlotCalls EXCEPT ![p] = [op |-> "looked", slot |-> s, value |-> v]]
      BY <2>4, <2>6, <2>7, <2>8, OpFacts
    <2>10. PICK w : SlotCalls[p] = [op |-> "load", slot |-> s, value |-> w]
      BY <1>8, <2>1, CallOfFacts, OpFacts DEF CallOf
    <2>11. [SlotCalls[p] EXCEPT !.op = "looked", !.value = v] = [op |-> "looked", slot |-> s, value |-> v]
      <3>1. [SlotCalls[p] EXCEPT !.op = "looked", !.value = v] \in [op : {"looked"}, slot : {s}, value : {v}]
        <4>1. [[op |-> "load", slot |-> s, value |-> w] EXCEPT !.op = "looked", !.value = v]
                \in [op : {"looked"}, slot : {s}, value : {v}]
          OBVIOUS
        <4> QED
          BY <2>10, <4>1
      <3> QED
        BY <3>1, CallRecord
    <2>12. SlotCalls' = [SlotCalls EXCEPT ![p].op = "looked", ![p].value = v]
      BY <2>9, <2>11 DEF SlotCalls
    <2>13. SlotCalls[p].op = "load" /\ SlotCalls[p].slot = s
      BY <2>10
    <2>14. SlotValues[SlotCalls[p].slot] = v /\ v # None
      BY <2>2, <2>8, <2>13 DEF SlotValues
    <2> QED
      BY <1>3, <2>12, <2>13, <2>14 DEF Atomic!Look
  <1> QED
    BY <1>6, <1>7, <1>8 DEF OpenSlot, ReadSlot

LEMMA OffCall ==
    [op |-> OpOf(Off.pc), slot |-> Off.slot, value |-> IF Off.pc = "read" THEN None ELSE Off.value] = Atomic!NoCall
  <1>1. Off.pc = "off" /\ Off.slot = None /\ Off.value = None
    BY DEF Off
  <1> QED
    BY <1>1, OpFacts DEF Atomic!NoCall

LEMMA CrashAbandons ==
    ASSUME StorageInv, NEW p \in Procs, StorageStep(p), StorageCrash(p)
    PROVE  Atomic!Abandon(p)
  <1>1. proc' = [proc EXCEPT ![p] = Off] /\ proc[p].pc \notin Answers \cup {"off"}
        /\ UNCHANGED <<dir, crashDir, file, folder>>
    BY DEF StorageCrash
  <1>2. SlotValues' = SlotValues /\ DurableValues' = DurableValues
    BY <1>1, SlotsSame
  <1>3. Off \in CallStates /\ Off.pc = "off"
    BY OffState
  <1>4. SlotCalls' = [SlotCalls EXCEPT ![p] =
                        [op |-> OpOf(Off.pc), slot |-> Off.slot,
                         value |-> IF Off.pc = "read" THEN ValueOf(Off.file)' ELSE Off.value]]
    BY <1>1, <1>3, Untouched, OneCallSteps
  <1>5. SlotCalls' = [SlotCalls EXCEPT ![p] = Atomic!NoCall]
    BY <1>3, <1>4, OffCall
  <1> QED
    BY <1>2, <1>5 DEF Atomic!Abandon

LEMMA OffCalls ==
    proc = [p \in Procs |-> Off] => SlotCalls = [p \in Procs |-> Atomic!NoCall]
  <1> SUFFICES ASSUME proc = [p \in Procs |-> Off] PROVE SlotCalls = [p \in Procs |-> Atomic!NoCall]
    OBVIOUS
  <1>1. Off.pc = "off" /\ Off.slot = None /\ Off.value = None
    BY DEF Off
  <1>2. \A p \in Procs : CallOf(p) = Atomic!NoCall
    BY <1>1, OpFacts DEF CallOf, Atomic!NoCall
  <1> QED
    BY <1>2 DEF SlotCalls

LEMMA OffCallsNext ==
    proc' = [p \in Procs |-> Off] => SlotCalls' = [p \in Procs |-> Atomic!NoCall]
  <1> SUFFICES ASSUME proc' = [p \in Procs |-> Off] PROVE SlotCalls' = [p \in Procs |-> Atomic!NoCall]
    OBVIOUS
  <1>1. Off.pc = "off" /\ Off.slot = None /\ Off.value = None
    BY DEF Off
  <1>2. \A p \in Procs : CallOf(p)' = Atomic!NoCall
    BY <1>1, OpFacts DEF CallOf, Atomic!NoCall
  <1> QED
    BY <1>2 DEF SlotCalls

LEMMA PowerLossLoses ==
    ASSUME StorageInv, PowerLoss PROVE Atomic!LosePower
  <1>1. /\ crashDir' = [n \in Names |-> {dir'[n]}] /\ proc' = [p \in Procs |-> Off]
        /\ file' \in ContentsLeft(Range(dir'))
        /\ folder' = "absent" \/ (folder' = "kept" /\ folder \in {"fresh", "kept"})
        /\ folder' = "absent" => dir' = [n \in Names |-> None] /\ folder # "kept"
        /\ folder' # "absent" => dir' \in EntriesLeft
    BY DEF PowerLoss, StorageInv, StorageTypeOK
  <1>2. SlotCalls' = [p \in Procs |-> Atomic!NoCall]
    BY <1>1, OffCallsNext
  <1>3. ASSUME NEW s \in Slots
        PROVE  SlotValues'[s] \in DurableValues[s] /\ DurableValues'[s] = {SlotValues'[s]}
    <2>1. SlotName(s) \in Names
      BY NameFacts
    <2>2. PICK f : f = dir'[SlotName(s)]
      OBVIOUS
    <2>3. SlotValues'[s] = ValueOf(f)'
      BY <2>2 DEF SlotValues, ValueOf
    <2>4. crashDir'[SlotName(s)] = {f}
      BY <1>1, <2>1, <2>2
    <2>5. DurableValues'[s] = {ValueOf(f)'} \cup (IF folder' = "kept" THEN {} ELSE {None})
      <3>1. DurableValues'[s] = {ValueOf(g)' : g \in crashDir'[SlotName(s)]}
                                  \cup (IF folder' = "kept" THEN {} ELSE {None})
        BY DEF DurableValues
      <3> QED
        BY <2>4, <3>1
    <2>6. DurableValues[s] = {ValueOf(g) : g \in crashDir[SlotName(s)]}
                                \cup (IF folder = "kept" THEN {} ELSE {None})
      BY DEF DurableValues
    <2>7. CASE folder' = "absent"
      <3>1. f = None /\ folder # "kept"
        BY <1>1, <2>1, <2>2, <2>7
      <3>2. ValueOf(f)' = None
        BY <3>1 DEF ValueOf
      <3> QED
        BY <2>3, <2>5, <2>6, <2>7, <3>1, <3>2
    <2>8. CASE folder' = "kept"
      <3>1. dir' \in [Names -> Files \cup {None}] /\ f \in crashDir[SlotName(s)]
        BY <1>1, <2>1, <2>2, <2>8, LeftFacts
      <3>2. f = None \/ file'[f] = file[f]
        <4> SUFFICES ASSUME f # None PROVE file'[f] = file[f]
          OBVIOUS
        <4>1. f \in Files /\ file[f].synced = Len(file[f].text)
          BY <3>1, SlotFileFacts
        <4>2. f \in Range(dir')
          BY <2>1, <2>2, <3>1 DEF Range
        <4> QED
          BY <1>1, <4>1, <4>2, LeftFacts
      <3>3. ValueOf(f)' = ValueOf(f)
        BY <3>2, SameValue
      <3> QED
        BY <2>3, <2>5, <2>6, <2>8, <3>1, <3>3
    <2> QED
      BY <1>1, <2>7, <2>8
  <1> QED
    BY <1>2, <1>3 DEF Atomic!LosePower

LEMMA InitSlots == ASSUME StorageInit PROVE Atomic!SlotsInit
  <1>1. StorageInv
    BY StorageInitInv
  <1>2. /\ proc = [p \in Procs |-> Off] /\ crashDir = [n \in Names |-> {dir[n]}]
        /\ folder = "kept" \/ dir = [n \in Names |-> None]
    BY DEF StorageInit
  <1>3. SlotCalls = [p \in Procs |-> Atomic!NoCall]
    BY <1>2, OffCalls
  <1>4. SlotValues \in [Slots -> Values \cup {None}]
    <2>1. \A s \in Slots : ValueOf(dir[SlotName(s)]) \in Values \cup {None}
      <3> SUFFICES ASSUME NEW s \in Slots PROVE ValueOf(dir[SlotName(s)]) \in Values \cup {None}
        OBVIOUS
      <3>1. CASE dir[SlotName(s)] = None
        BY <3>1, ValueFacts
      <3>2. CASE dir[SlotName(s)] # None
        BY <1>1, <3>2, SlotFileFacts
      <3> QED
        BY <3>1, <3>2
    <2> QED
      BY <2>1 DEF SlotValues
  <1>5. DurableValues = [s \in Slots |-> {SlotValues[s]}]
    <2>1. ASSUME NEW s \in Slots
          PROVE  {ValueOf(f) : f \in crashDir[SlotName(s)]} \cup (IF folder = "kept" THEN {} ELSE {None})
                   = {SlotValues[s]}
      <3>1. SlotName(s) \in Names
        BY NameFacts
      <3>2. PICK f : f = dir[SlotName(s)]
        OBVIOUS
      <3>3. crashDir[SlotName(s)] = {f} /\ SlotValues[s] = ValueOf(f)
        BY <1>2, <3>1, <3>2 DEF SlotValues
      <3>4. {ValueOf(g) : g \in crashDir[SlotName(s)]} = {ValueOf(f)}
        BY <3>3
      <3>5. folder # "kept" => ValueOf(f) = None
        BY <1>2, <3>1, <3>2, ValueFacts
      <3> QED
        BY <3>3, <3>4, <3>5
    <2> QED
      BY <2>1 DEF DurableValues
  <1> QED
    BY <1>3, <1>4, <1>5 DEF Atomic!SlotsInit

LEMMA StepsRefine ==
    ASSUME StorageInv, [StorageNext]_storageVars
    PROVE  [Atomic!SlotsNext]_Atomic!slotVars
  <1>1. CASE PowerLoss
    BY <1>1, PowerLossLoses DEF Atomic!SlotsNext
  <1>2. ASSUME NEW p \in Procs, StorageStep(p)
        PROVE  \/ Atomic!Enter(p) \/ Atomic!Replace(p) \/ Atomic!Look(p) \/ Atomic!Return(p)
               \/ Atomic!Abandon(p) \/ UNCHANGED Atomic!slotVars
    <2>1. CASE StorageStart(p) \/ OpenDirectory(p) \/ CreateTemporary(p) \/ WriteTemporary(p)
               \/ SyncTemporary(p) \/ UnlinkTemporary(p)
      BY <1>2, <2>1, SaveSteps
    <2>2. CASE CallSave(p) \/ CallLoad(p)
      BY <1>2, <2>2, CallsEnter
    <2>3. CASE RenameTemporary(p)
      BY <1>2, <2>3, RenameReplaces
    <2>4. CASE SyncDirectory(p)
      BY <1>2, <2>4, SyncDirectoryReturns
    <2>5. CASE OpenSlot(p) \/ ReadSlot(p)
      BY <1>2, <2>5, SlotLoads
    <2>6. CASE StorageCrash(p)
      BY <1>2, <2>6, CrashAbandons
    <2> QED
      BY <1>2, <2>1, <2>2, <2>3, <2>4, <2>5, <2>6 DEF StorageStep
  <1>3. CASE UNCHANGED storageVars
    <2>1. SlotCalls' = SlotCalls
      BY <1>3 DEF storageVars, SlotCalls, CallOf, ValueOf
    <2>2. SlotValues' = SlotValues /\ DurableValues' = DurableValues
      BY <1>3 DEF storageVars, SlotValues, DurableValues, ValueOf
    <2> QED
      BY <2>1, <2>2 DEF Atomic!slotVars
  <1> QED
    BY <1>1, <1>2, <1>3 DEF StorageNext, Atomic!SlotsNext

\* The save and load protocol implements the atomic slots storage.h promises: a save takes
\* effect in the one step of its rename, a failed save changes nothing, a load returns its
\* fallback or a value the slot held while it ran, and a power loss leaves a value the slot
\* held since it was last durable.
THEOREM SlotsAreAtomic == StorageSpec => ImplementsSaveSlots
  <1>1. StorageInit => Atomic!SlotsInit
    BY InitSlots
  <1>2. StorageInv /\ [StorageNext]_storageVars => [Atomic!SlotsNext]_Atomic!slotVars
    BY StepsRefine
  <1> QED
    BY <1>1, <1>2, StorageSafety, PTL DEF StorageSpec, ImplementsSaveSlots, Atomic!SlotsSpec

=============================================================================
