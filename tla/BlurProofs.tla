------------------------------ MODULE BlurProofs ------------------------------
(***************************************************************************)
(* The stack and the sums of stackblur, for lines of any length and every  *)
(* radius: first the arithmetic of the tables and of sums, then the stack, *)
(* then what the sums hold.                                                *)
(***************************************************************************)
EXTENDS Blur, TLAPS, SequenceTheorems, WellFoundedInduction

-----------------------------------------------------------------------------
(* Remainders *)

LEMMA RemainderRange ==
    ASSUME NEW a \in Nat, NEW d \in Nat \ {0}
    PROVE  a % d \in 0..(d - 1)
OBVIOUS

\* The remainder is the only one of its range.
LEMMA RemainderIs ==
    ASSUME NEW d \in Nat \ {0}, NEW q \in Nat, NEW r \in 0..(d - 1)
    PROVE  (d * q + r) % d = r
OBVIOUS

LEMMA Divided ==
    ASSUME NEW a \in Nat, NEW d \in Nat \ {0}
    PROVE  a \div d \in Nat /\ a = d * (a \div d) + (a % d)
OBVIOUS

LEMMA SameSlot ==
    ASSUME NEW a \in Nat, NEW d \in Nat \ {0}
    PROVE  (a + d) % d = a % d
<1> DEFINE q == a \div d
           r == a % d
<1>1. q \in Nat /\ r \in 0..(d - 1) /\ a = d * q + r
  BY Divided, RemainderRange
<1> HIDE DEF q, r
<1>2. a + d = d * (q + 1) + r
  BY <1>1
<1>3. (d * (q + 1) + r) % d = r
  BY <1>1, RemainderIs
<1> QED
  BY <1>2, <1>3 DEF r

\* Less than d apart, two numbers have different remainders.
LEMMA OtherSlot ==
    ASSUME NEW a \in Nat, NEW d \in Nat \ {0}, NEW m \in 1..(d - 1)
    PROVE  (a + m) % d # a % d
<1> DEFINE q == a \div d
           r == a % d
<1>1. q \in Nat /\ r \in 0..(d - 1) /\ a = d * q + r
  BY Divided, RemainderRange
<1> HIDE DEF q, r
<1>2. CASE r + m < d
  <2>1. a + m = d * q + (r + m) /\ r + m \in 0..(d - 1)
    BY <1>1, <1>2
  <2>2. (d * q + (r + m)) % d = r + m
    BY <1>1, <2>1, RemainderIs
  <2>3. r + m # r
    BY <1>1
  <2> QED
    BY <2>1, <2>2, <2>3 DEF r
<1>3. CASE ~(r + m < d)
  <2> DEFINE p == q + 1
             s == r + m - d
  <2>1. a + m = d * p + s /\ s \in 0..(d - 1) /\ p \in Nat /\ s # r
    BY <1>1, <1>3
  <2> HIDE DEF p, s
  <2>2. (d * p + s) % d = s
    BY <2>1, RemainderIs
  <2> QED
    BY <2>1, <2>2 DEF r
<1> QED
  BY <1>2, <1>3

-----------------------------------------------------------------------------
(* Division *)

LEMMA Products == ASSUME NEW a \in Nat, NEW b \in Nat PROVE a * b \in Nat
OBVIOUS

\* The quotient is the only one that leaves a remainder of its range.
LEMMA QuotientIs ==
    ASSUME NEW d \in Nat \ {0}, NEW q \in Nat, NEW r \in 0..(d - 1)
    PROVE  (d * q + r) \div d = q
OBVIOUS

\* Dividing by a product is dividing twice.
LEMMA DividedTwice ==
    ASSUME NEW a \in Nat, NEW c \in Nat \ {0}, NEW d \in Nat \ {0}
    PROVE  (a \div c) \div d = a \div (c * d)
<1> DEFINE q == a \div c
           r == a % c
           u == q \div d
           v == q % d
<1>1. q \in Nat /\ r \in 0..(c - 1) /\ a = c * q + r
  BY Divided, RemainderRange
<1> HIDE DEF q, r
<1>2. u \in Nat /\ v \in 0..(d - 1) /\ q = d * u + v
  BY <1>1, Divided, RemainderRange
<1> HIDE DEF u, v
<1>3. c * d \in Nat \ {0}
  OBVIOUS
<1>4. c * v + r \in 0..(c * d - 1)
  <2>1. c * v <= c * (d - 1)
    BY <1>2
  <2>2. c * (d - 1) = c * d - c /\ c * v \in Nat /\ c * d \in Nat
    BY <1>2
  <2> QED
    BY <1>1, <2>1, <2>2
<1>5. a = (c * d) * u + (c * v + r)
  <2>1. c * q = c * (d * u) + c * v
    BY <1>2
  <2>2. c * (d * u) = (c * d) * u
    BY <1>2
  <2> QED
    BY <1>1, <1>2, <2>1, <2>2
<1> PICK e \in Nat \ {0} : e = c * d
  BY <1>3
<1> PICK z \in 0..(e - 1) : z = c * v + r
  BY <1>4
<1>6. (e * u + z) \div e = u
  BY <1>2, QuotientIs
<1> QED
  BY <1>5, <1>6 DEF q, u

\* A number in two halves, the upper weighing h * p, is divided by p.
LEMMA HalvesDivided ==
    ASSUME NEW a \in Nat, NEW b \in Nat, NEW h \in Nat, NEW p \in Nat \ {0}
    PROVE  (h * p * a + b) \div p = h * a + b \div p
<1> DEFINE q == b \div p
           r == b % p
<1>1. q \in Nat /\ r \in 0..(p - 1) /\ b = p * q + r
  BY Divided, RemainderRange
<1> HIDE DEF q, r
<1>2. h * p * a + b = p * (h * a + q) + r
  <2>1. h * p * a = p * (h * a)
    OBVIOUS
  <2> PICK n \in Nat : n = h * a
    OBVIOUS
  <2>2. p * (n + q) = p * n + p * q
    BY <1>1
  <2> QED
    BY <1>1, <2>1, <2>2
<1> PICK n \in Nat : n = h * a + q
  BY <1>1
<1>3. (p * n + r) \div p = n
  BY <1>1, QuotientIs
<1> QED
  BY <1>2, <1>3 DEF q

\* A product by halves below u, as long as it fits into two of them, and then divided
InHalves(u, sum, m, low, high) ==
    /\ low = (sum % u) * m
    /\ high = (((sum \div u) % u) * m + (low \div u)) % u
    /\ \A p \in Nat \ {0}, q \in Nat \ {0} :
         /\ u * q = p => high \div q = (sum * m) \div p
         /\ q * p = u => high * q + ((low % u) \div p) = (sum * m) \div p

LEMMA Halves ==
    ASSUME NEW u \in Nat \ {0}, NEW sum \in Nat, NEW m \in Nat \ {0}, sum * m < u * u
    PROVE  \E low \in Nat, high \in Nat : InHalves(u, sum, m, low, high)
<1> PICK k : k = sum \div u
  OBVIOUS
<1> PICK l : l = sum % u
  OBVIOUS
<1>1. k \in Nat /\ l \in 0..(u - 1) /\ sum = u * k + l
  BY Divided, RemainderRange
<1>2. PICK t \in Nat : t = sum * m
  OBVIOUS
<1>3. PICK low \in Nat : low = l * m
  BY <1>1
<1> PICK c : c = low \div u
  OBVIOUS
<1> PICK d : d = low % u
  OBVIOUS
<1>4. c \in Nat /\ d \in 0..(u - 1) /\ low = u * c + d
  BY Divided, RemainderRange
<1>5. PICK n \in Nat : n = k * m + c
  BY <1>1, <1>4
<1>6. t = u * n + d
  <2>1. sum * m = (u * k) * m + l * m
    BY <1>1
  <2>2. (u * k) * m = u * (k * m)
    BY <1>1
  <2> PICK y \in Nat : y = k * m
    BY <1>1
  <2>3. u * (y + c) = u * y + u * c
    BY <1>4
  <2> QED
    BY <1>2, <1>3, <1>4, <1>5, <2>1, <2>2, <2>3
<1>7. n < u
  <2>1. u * n < u * u
    BY <1>2, <1>4, <1>6
  <2> QED
    BY <2>1
<1>8. k < u
  <2>1. sum <= sum * m
    OBVIOUS
  <2>2. u * k < u * u
    BY <1>1, <2>1
  <2> QED
    BY <1>1, <2>2
<1>9. k % u = k /\ n % u = n
  <2>1. (u * 0 + k) % u = k /\ (u * 0 + n) % u = n
    <3>1. 0 \in Nat /\ k \in 0..(u - 1) /\ n \in 0..(u - 1)
      BY <1>1, <1>5, <1>7, <1>8
    <3> QED
      BY <3>1, RemainderIs
  <2>2. u * 0 + k = k /\ u * 0 + n = n
    BY <1>1
  <2> QED
    BY <2>1, <2>2
<1>10. (u * n + d) \div u = n
  BY <1>4, QuotientIs
<1>11. ASSUME NEW p \in Nat \ {0}, NEW q \in Nat \ {0}, u * q = p
       PROVE  n \div q = t \div p
  <2>1. (t \div u) \div q = t \div (u * q)
    BY DividedTwice
  <2> QED
    BY <1>6, <1>10, <1>11, <2>1
<1>12. ASSUME NEW p \in Nat \ {0}, NEW q \in Nat \ {0}, q * p = u
       PROVE  n * q + (d \div p) = t \div p
  <2> PICK b \in Nat : b = d
    BY <1>4
  <2>1. (q * p * n + b) \div p = q * n + b \div p
    BY HalvesDivided
  <2>2. q * n = n * q
    OBVIOUS
  <2> QED
    BY <1>6, <1>12, <2>1, <2>2
<1>13. n = (((sum \div u) % u) * m + (low \div u)) % u
  BY <1>5, <1>9
<1>14. InHalves(u, sum, m, low, n)
  <2>1. low = (sum % u) * m
    BY <1>3
  <2>2. ASSUME NEW p \in Nat \ {0}, NEW q \in Nat \ {0}
        PROVE  /\ u * q = p => n \div q = (sum * m) \div p
               /\ q * p = u => n * q + ((low % u) \div p) = (sum * m) \div p
    BY <1>2, <1>11, <1>12
  <2> QED
    BY <1>13, <2>1, <2>2 DEF InHalves
<1> QED
  BY <1>14

-----------------------------------------------------------------------------
(* The tables *)

\* The run an index is in is the first whose end it does not exceed.
LEMMA RunOf ==
    ASSUME NEW runs, DOMAIN runs = 1..15, \A k \in 1..15 : runs[k][1] \in Int,
           NEW n \in 1..15, NEW i \in Int, i <= runs[n][1], \A j \in 1..(n - 1) : i > runs[j][1]
    PROVE  (CHOOSE k \in DOMAIN runs : i <= runs[k][1] /\ \A j \in 1..(k - 1) : i > runs[j][1]) = n
<1> SUFFICES ASSUME NEW k \in 1..15, i <= runs[k][1], \A j \in 1..(k - 1) : i > runs[j][1]
             PROVE  k = n
  OBVIOUS
<1>1. CASE k < n
  BY <1>1
<1>2. CASE n < k
  BY <1>2
<1> QED
  BY <1>1, <1>2

\* How far each run of equal shifts reaches
Ends == <<1, 2, 3, 5, 7, 11, 15, 22, 31, 45, 63, 90, 127, 181, 255>>
InRun(n, i) == Ends[n - 1] < i /\ i <= Ends[n]

\* From the second run on, the shifts count up.
LEMMA Shift ==
    ASSUME NEW n \in 2..15, NEW e \in 1..255, InRun(n, e)
    PROVE  stackblur_shr[e] = n + 9
<1> DEFINE runs == << <<1, 9>>, <<2, 11>>, <<3, 12>>, <<5, 13>>, <<7, 14>>, <<11, 15>>, <<15, 16>>,
                     <<22, 17>>, <<31, 18>>, <<45, 19>>, <<63, 20>>, <<90, 21>>, <<127, 22>>,
                     <<181, 23>>, <<255, 24>> >>
           run(i) == CHOOSE k \in DOMAIN runs : i <= runs[k][1] /\ \A j \in 1..(k - 1) : i > runs[j][1]
<1>1. stackblur_shr[e] = runs[run(e)][2]
  BY DEF stackblur_shr
<1>2. DOMAIN runs = 1..15
  OBVIOUS
<1>3. /\ runs[1] = <<1, 9>> /\ runs[2] = <<2, 11>> /\ runs[3] = <<3, 12>> /\ runs[4] = <<5, 13>>
      /\ runs[5] = <<7, 14>> /\ runs[6] = <<11, 15>> /\ runs[7] = <<15, 16>> /\ runs[8] = <<22, 17>>
      /\ runs[9] = <<31, 18>> /\ runs[10] = <<45, 19>> /\ runs[11] = <<63, 20>>
      /\ runs[12] = <<90, 21>> /\ runs[13] = <<127, 22>> /\ runs[14] = <<181, 23>>
      /\ runs[15] = <<255, 24>>
  OBVIOUS
<1> HIDE DEF runs
<1>4. /\ Ends[1] = 1 /\ Ends[2] = 2 /\ Ends[3] = 3 /\ Ends[4] = 5 /\ Ends[5] = 7
      /\ Ends[6] = 11 /\ Ends[7] = 15 /\ Ends[8] = 22 /\ Ends[9] = 31 /\ Ends[10] = 45
      /\ Ends[11] = 63 /\ Ends[12] = 90 /\ Ends[13] = 127 /\ Ends[14] = 181 /\ Ends[15] = 255
  BY DEF Ends
<1>5. \A k \in 1..15 : runs[k][1] = Ends[k] /\ (k >= 2 => runs[k][2] = k + 9)
  BY <1>3, <1>4
<1> HIDE DEF run
<1>6. \A k \in 1..15 : runs[k][1] \in Int
  <2>1. \A k \in 1..15 : Ends[k] \in Int
    BY <1>4
  <2> QED
    BY <1>5, <2>1
<1>7. e <= runs[n][1]
  BY <1>5 DEF InRun
<1>8. \A j \in 1..(n - 1) : e > runs[j][1]
  <2> TAKE j \in 1..(n - 1)
  <2>1. \A k \in 1..15, m \in 1..15 : m <= k => Ends[m] <= Ends[k]
    BY <1>4
  <2>2. \A k \in 1..15 : Ends[k] \in Int
    BY <1>4
  <2>3. j \in 1..15 /\ n - 1 \in 1..15 /\ j <= n - 1
    OBVIOUS
  <2>4. PICK a \in Int, b \in Int : a = Ends[j] /\ b = Ends[n - 1]
    BY <2>2, <2>3
  <2>5. a <= b
    BY <2>1, <2>3, <2>4
  <2>6. b < e
    BY <2>4 DEF InRun
  <2>7. a < e
    BY <2>5, <2>6
  <2> QED
    BY <1>5, <2>3, <2>4, <2>7
<1>9. run(e) = n
  <2>1. n \in 1..15 /\ e \in Int
    OBVIOUS
  <2> QED
    BY <1>2, <1>6, <1>7, <1>8, <2>1, RunOf DEF run
<1> QED
  BY <1>1, <1>5, <1>9

\* A power of two, and what Scaled shifts by instead of it
PowerOf(s, p) ==
    /\ p \in Nat \ {0} /\ p = 2^s /\ p <= 16777216
    /\ s >= 16 => \E q \in Nat \ {0} : q = 2^(s - 16) /\ 65536 * q = p
    /\ s < 16  => \E q \in Nat \ {0} : q = 2^(16 - s) /\ q * p = 65536

LEMMA Powers == ASSUME NEW s \in 11..24 PROVE \E p : PowerOf(s, p)
<1>11. CASE s = 11
  <2>1. 2^11 = 2048 /\ 2^5 = 32 /\ 16 - s = 5
    BY <1>11
  <2> QED
    BY <1>11, <2>1 DEF PowerOf
<1>12. CASE s = 12
  <2>1. 2^12 = 4096 /\ 2^4 = 16 /\ 16 - s = 4
    BY <1>12
  <2> QED
    BY <1>12, <2>1 DEF PowerOf
<1>13. CASE s = 13
  <2>1. 2^13 = 8192 /\ 2^3 = 8 /\ 16 - s = 3
    BY <1>13
  <2> QED
    BY <1>13, <2>1 DEF PowerOf
<1>14. CASE s = 14
  <2>1. 2^14 = 16384 /\ 2^2 = 4 /\ 16 - s = 2
    BY <1>14
  <2> QED
    BY <1>14, <2>1 DEF PowerOf
<1>15. CASE s = 15
  <2>1. 2^15 = 32768 /\ 2^1 = 2 /\ 16 - s = 1
    BY <1>15
  <2> QED
    BY <1>15, <2>1 DEF PowerOf
<1>16. CASE s = 16
  <2>1. 2^16 = 65536 /\ 2^0 = 1 /\ s - 16 = 0
    BY <1>16
  <2> QED
    BY <1>16, <2>1 DEF PowerOf
<1>17. CASE s = 17
  <2>1. 2^17 = 131072 /\ 2^1 = 2 /\ s - 16 = 1
    BY <1>17
  <2> QED
    BY <1>17, <2>1 DEF PowerOf
<1>18. CASE s = 18
  <2>1. 2^18 = 262144 /\ 2^2 = 4 /\ s - 16 = 2
    BY <1>18
  <2> QED
    BY <1>18, <2>1 DEF PowerOf
<1>19. CASE s = 19
  <2>1. 2^19 = 524288 /\ 2^3 = 8 /\ s - 16 = 3
    BY <1>19
  <2> QED
    BY <1>19, <2>1 DEF PowerOf
<1>20. CASE s = 20
  <2>1. 2^20 = 1048576 /\ 2^4 = 16 /\ s - 16 = 4
    BY <1>20
  <2> QED
    BY <1>20, <2>1 DEF PowerOf
<1>21. CASE s = 21
  <2>1. 2^21 = 2097152 /\ 2^5 = 32 /\ s - 16 = 5
    BY <1>21
  <2> QED
    BY <1>21, <2>1 DEF PowerOf
<1>22. CASE s = 22
  <2>1. 2^22 = 4194304 /\ 2^6 = 64 /\ s - 16 = 6
    BY <1>22
  <2> QED
    BY <1>22, <2>1 DEF PowerOf
<1>23. CASE s = 23
  <2>1. 2^23 = 8388608 /\ 2^7 = 128 /\ s - 16 = 7
    BY <1>23
  <2> QED
    BY <1>23, <2>1 DEF PowerOf
<1>24. CASE s = 24
  <2>1. 2^24 = 16777216 /\ 2^8 = 256 /\ s - 16 = 8
    BY <1>24
  <2> QED
    BY <1>24, <2>1 DEF PowerOf
<1> QED
  BY <1>11, <1>12, <1>13, <1>14, <1>15, <1>16, <1>17, <1>18, <1>19, <1>20, <1>21, <1>22, <1>23, <1>24

\* The tables divide by the weights' sum, to within one 255th.
Divides(r) ==
    \E m \in 1..512, s \in 11..24 :
        /\ stackblur_mul[r + 1] = m /\ stackblur_shr[r + 1] = s
        /\ 2^s <= (r + 1) * (r + 1) * m /\ 255 * ((r + 1) * (r + 1) * m - 2^s) < 2^s

LEMMA TablesDivide == ASSUME NEW r \in 1..254 PROVE Divides(r)
<1>1. CASE r \in 1..1
  <2>1. stackblur_shr[r + 1] = 11
    <3>1. InRun(2, r + 1)
      BY <1>1 DEF InRun, Ends
    <3>2. 2 \in 2..15 /\ r + 1 \in 1..255 /\ 2 + 9 = 11
      OBVIOUS
    <3> QED
      BY <3>1, <3>2, Shift
  <2>2. \E m \in 1..512 : /\ stackblur_mul[r + 1] = m
                          /\ 2^11 <= (r + 1) * (r + 1) * m
                          /\ 255 * ((r + 1) * (r + 1) * m - 2^11) < 2^11
    BY <1>1, SMTT(60) DEF stackblur_mul
  <2> QED
    BY <2>1, <2>2 DEF Divides
<1>2. CASE r \in 2..2
  <2>1. stackblur_shr[r + 1] = 12
    <3>1. InRun(3, r + 1)
      BY <1>2 DEF InRun, Ends
    <3>2. 3 \in 2..15 /\ r + 1 \in 1..255 /\ 3 + 9 = 12
      OBVIOUS
    <3> QED
      BY <3>1, <3>2, Shift
  <2>2. \E m \in 1..512 : /\ stackblur_mul[r + 1] = m
                          /\ 2^12 <= (r + 1) * (r + 1) * m
                          /\ 255 * ((r + 1) * (r + 1) * m - 2^12) < 2^12
    BY <1>2, SMTT(60) DEF stackblur_mul
  <2> QED
    BY <2>1, <2>2 DEF Divides
<1>3. CASE r \in 3..4
  <2>1. stackblur_shr[r + 1] = 13
    <3>1. InRun(4, r + 1)
      BY <1>3 DEF InRun, Ends
    <3>2. 4 \in 2..15 /\ r + 1 \in 1..255 /\ 4 + 9 = 13
      OBVIOUS
    <3> QED
      BY <3>1, <3>2, Shift
  <2>2. \E m \in 1..512 : /\ stackblur_mul[r + 1] = m
                          /\ 2^13 <= (r + 1) * (r + 1) * m
                          /\ 255 * ((r + 1) * (r + 1) * m - 2^13) < 2^13
    BY <1>3, SMTT(60) DEF stackblur_mul
  <2> QED
    BY <2>1, <2>2 DEF Divides
<1>4. CASE r \in 5..6
  <2>1. stackblur_shr[r + 1] = 14
    <3>1. InRun(5, r + 1)
      BY <1>4 DEF InRun, Ends
    <3>2. 5 \in 2..15 /\ r + 1 \in 1..255 /\ 5 + 9 = 14
      OBVIOUS
    <3> QED
      BY <3>1, <3>2, Shift
  <2>2. \E m \in 1..512 : /\ stackblur_mul[r + 1] = m
                          /\ 2^14 <= (r + 1) * (r + 1) * m
                          /\ 255 * ((r + 1) * (r + 1) * m - 2^14) < 2^14
    BY <1>4, SMTT(60) DEF stackblur_mul
  <2> QED
    BY <2>1, <2>2 DEF Divides
<1>5. CASE r \in 7..10
  <2>1. stackblur_shr[r + 1] = 15
    <3>1. InRun(6, r + 1)
      BY <1>5 DEF InRun, Ends
    <3>2. 6 \in 2..15 /\ r + 1 \in 1..255 /\ 6 + 9 = 15
      OBVIOUS
    <3> QED
      BY <3>1, <3>2, Shift
  <2>2. \E m \in 1..512 : /\ stackblur_mul[r + 1] = m
                          /\ 2^15 <= (r + 1) * (r + 1) * m
                          /\ 255 * ((r + 1) * (r + 1) * m - 2^15) < 2^15
    BY <1>5, SMTT(60) DEF stackblur_mul
  <2> QED
    BY <2>1, <2>2 DEF Divides
<1>6. CASE r \in 11..14
  <2>1. stackblur_shr[r + 1] = 16
    <3>1. InRun(7, r + 1)
      BY <1>6 DEF InRun, Ends
    <3>2. 7 \in 2..15 /\ r + 1 \in 1..255 /\ 7 + 9 = 16
      OBVIOUS
    <3> QED
      BY <3>1, <3>2, Shift
  <2>2. \E m \in 1..512 : /\ stackblur_mul[r + 1] = m
                          /\ 2^16 <= (r + 1) * (r + 1) * m
                          /\ 255 * ((r + 1) * (r + 1) * m - 2^16) < 2^16
    BY <1>6, SMTT(60) DEF stackblur_mul
  <2> QED
    BY <2>1, <2>2 DEF Divides
<1>7. CASE r \in 15..21
  <2>1. stackblur_shr[r + 1] = 17
    <3>1. InRun(8, r + 1)
      BY <1>7 DEF InRun, Ends
    <3>2. 8 \in 2..15 /\ r + 1 \in 1..255 /\ 8 + 9 = 17
      OBVIOUS
    <3> QED
      BY <3>1, <3>2, Shift
  <2>2. \E m \in 1..512 : /\ stackblur_mul[r + 1] = m
                          /\ 2^17 <= (r + 1) * (r + 1) * m
                          /\ 255 * ((r + 1) * (r + 1) * m - 2^17) < 2^17
    BY <1>7, SMTT(60) DEF stackblur_mul
  <2> QED
    BY <2>1, <2>2 DEF Divides
<1>8. CASE r \in 22..30
  <2>1. stackblur_shr[r + 1] = 18
    <3>1. InRun(9, r + 1)
      BY <1>8 DEF InRun, Ends
    <3>2. 9 \in 2..15 /\ r + 1 \in 1..255 /\ 9 + 9 = 18
      OBVIOUS
    <3> QED
      BY <3>1, <3>2, Shift
  <2>2. \E m \in 1..512 : /\ stackblur_mul[r + 1] = m
                          /\ 2^18 <= (r + 1) * (r + 1) * m
                          /\ 255 * ((r + 1) * (r + 1) * m - 2^18) < 2^18
    BY <1>8, SMTT(60) DEF stackblur_mul
  <2> QED
    BY <2>1, <2>2 DEF Divides
<1>9. CASE r \in 31..44
  <2>1. stackblur_shr[r + 1] = 19
    <3>1. InRun(10, r + 1)
      BY <1>9 DEF InRun, Ends
    <3>2. 10 \in 2..15 /\ r + 1 \in 1..255 /\ 10 + 9 = 19
      OBVIOUS
    <3> QED
      BY <3>1, <3>2, Shift
  <2>2. \E m \in 1..512 : /\ stackblur_mul[r + 1] = m
                          /\ 2^19 <= (r + 1) * (r + 1) * m
                          /\ 255 * ((r + 1) * (r + 1) * m - 2^19) < 2^19
    BY <1>9, SMTT(60) DEF stackblur_mul
  <2> QED
    BY <2>1, <2>2 DEF Divides
<1>10. CASE r \in 45..62
  <2>1. stackblur_shr[r + 1] = 20
    <3>1. InRun(11, r + 1)
      BY <1>10 DEF InRun, Ends
    <3>2. 11 \in 2..15 /\ r + 1 \in 1..255 /\ 11 + 9 = 20
      OBVIOUS
    <3> QED
      BY <3>1, <3>2, Shift
  <2>2. \E m \in 1..512 : /\ stackblur_mul[r + 1] = m
                          /\ 2^20 <= (r + 1) * (r + 1) * m
                          /\ 255 * ((r + 1) * (r + 1) * m - 2^20) < 2^20
    BY <1>10, SMTT(60) DEF stackblur_mul
  <2> QED
    BY <2>1, <2>2 DEF Divides
<1>11. CASE r \in 63..89
  <2>1. stackblur_shr[r + 1] = 21
    <3>1. InRun(12, r + 1)
      BY <1>11 DEF InRun, Ends
    <3>2. 12 \in 2..15 /\ r + 1 \in 1..255 /\ 12 + 9 = 21
      OBVIOUS
    <3> QED
      BY <3>1, <3>2, Shift
  <2>2. \E m \in 1..512 : /\ stackblur_mul[r + 1] = m
                          /\ 2^21 <= (r + 1) * (r + 1) * m
                          /\ 255 * ((r + 1) * (r + 1) * m - 2^21) < 2^21
    BY <1>11, SMTT(60) DEF stackblur_mul
  <2> QED
    BY <2>1, <2>2 DEF Divides
<1>12. CASE r \in 90..126
  <2>1. stackblur_shr[r + 1] = 22
    <3>1. InRun(13, r + 1)
      BY <1>12 DEF InRun, Ends
    <3>2. 13 \in 2..15 /\ r + 1 \in 1..255 /\ 13 + 9 = 22
      OBVIOUS
    <3> QED
      BY <3>1, <3>2, Shift
  <2>2. \E m \in 1..512 : /\ stackblur_mul[r + 1] = m
                          /\ 2^22 <= (r + 1) * (r + 1) * m
                          /\ 255 * ((r + 1) * (r + 1) * m - 2^22) < 2^22
    BY <1>12, SMTT(60) DEF stackblur_mul
  <2> QED
    BY <2>1, <2>2 DEF Divides
<1>13. CASE r \in 127..180
  <2>1. stackblur_shr[r + 1] = 23
    <3>1. InRun(14, r + 1)
      BY <1>13 DEF InRun, Ends
    <3>2. 14 \in 2..15 /\ r + 1 \in 1..255 /\ 14 + 9 = 23
      OBVIOUS
    <3> QED
      BY <3>1, <3>2, Shift
  <2>2. \E m \in 1..512 : /\ stackblur_mul[r + 1] = m
                          /\ 2^23 <= (r + 1) * (r + 1) * m
                          /\ 255 * ((r + 1) * (r + 1) * m - 2^23) < 2^23
    BY <1>13, SMTT(60) DEF stackblur_mul
  <2> QED
    BY <2>1, <2>2 DEF Divides
<1>14. CASE r \in 181..254
  <2>1. stackblur_shr[r + 1] = 24
    <3>1. InRun(15, r + 1)
      BY <1>14 DEF InRun, Ends
    <3>2. 15 \in 2..15 /\ r + 1 \in 1..255 /\ 15 + 9 = 24
      OBVIOUS
    <3> QED
      BY <3>1, <3>2, Shift
  <2>2. \E m \in 1..512 : /\ stackblur_mul[r + 1] = m
                          /\ 2^24 <= (r + 1) * (r + 1) * m
                          /\ 255 * ((r + 1) * (r + 1) * m - 2^24) < 2^24
    BY <1>14, SMTT(60) DEF stackblur_mul
  <2> QED
    BY <2>1, <2>2 DEF Divides
<1> QED
  BY <1>1, <1>2, <1>3, <1>4, <1>5, <1>6, <1>7, <1>8, <1>9, <1>10, <1>11, <1>12, <1>13, <1>14

\* What is written is the sum, scaled as the tables say.
LEMMA ScaledIs ==
    ASSUME radius \in 1..254, NEW sum \in Nat, sum <= 255 * ((radius + 1) * (radius + 1)),
           NEW m, m = stackblur_mul[radius + 1], NEW s, s = stackblur_shr[radius + 1]
    PROVE  Scaled(sum) = (sum * m) \div 2^s
<1>1. PICK r \in 1..254 : r = radius
  OBVIOUS
<1>2. /\ m \in 1..512 /\ s \in 11..24
      /\ 2^s <= (r + 1) * (r + 1) * m /\ 255 * ((r + 1) * (r + 1) * m - 2^s) < 2^s
  <2>1. Divides(r)
    BY TablesDivide
  <2>2. m = stackblur_mul[r + 1] /\ s = stackblur_shr[r + 1]
    BY <1>1
  <2>3. PICK a \in 1..512, b \in 11..24 :
          /\ stackblur_mul[r + 1] = a /\ stackblur_shr[r + 1] = b
          /\ 2^b <= (r + 1) * (r + 1) * a /\ 255 * ((r + 1) * (r + 1) * a - 2^b) < 2^b
    BY <2>1, Zenon DEF Divides
  <2>4. a = m /\ b = s
    BY <2>2, <2>3, Zenon
  <2> QED
    BY <2>3, <2>4
<1>a. PICK p : PowerOf(s, p)
  BY <1>2, Powers
<1>3. /\ p \in Nat \ {0} /\ p = 2^s /\ p <= 16777216
      /\ s >= 16 => \E q \in Nat \ {0} : q = 2^(s - 16) /\ 65536 * q = p
      /\ s < 16  => \E q \in Nat \ {0} : q = 2^(16 - s) /\ q * p = 65536
  BY <1>a, SMT DEF PowerOf
<1>c. p \in Nat \ {0}
  BY <1>3, SMT
<1>4. PICK n \in Nat : n = (r + 1) * (r + 1) * m
  <2>1. m \in Nat /\ (r + 1) * (r + 1) \in Nat
    BY <1>2
  <2> QED
    BY <2>1, Products, Zenon
<1>5. p <= n /\ 255 * (n - p) < p
  BY <1>2, <1>3, <1>4
<1>6. PICK t \in Nat : t = sum * m
  BY <1>2
<1>7. t <= 255 * n
  <2> PICK w \in Nat : w = (r + 1) * (r + 1)
    OBVIOUS
  <2>1. sum * m <= (255 * w) * m
    BY <1>1, <1>2
  <2>2. (255 * w) * m = 255 * (w * m)
    BY <1>2
  <2> QED
    BY <1>4, <1>6, <2>1, <2>2
<1>8. t < 4294967296
  BY <1>3, <1>5, <1>7, SMT
<1>9. PICK u \in Nat \ {0} : u = 65536
  BY SMT
<1>10. sum * m < u * u /\ m \in Nat \ {0}
  BY <1>2, <1>6, <1>8, <1>9, SMT
<1>b. PICK low \in Nat, high \in Nat : InHalves(u, sum, m, low, high)
  BY <1>10, Halves
<1>11. /\ low = (sum % u) * m
       /\ high = (((sum \div u) % u) * m + (low \div u)) % u
       /\ \A a \in Nat \ {0}, b \in Nat \ {0} :
            /\ u * b = a => high \div b = (sum * m) \div a
            /\ b * a = u => high * b + ((low % u) \div a) = (sum * m) \div a
  BY <1>b, Zenon DEF InHalves
<1>12. Scaled(sum) = IF s >= 16 THEN high \div 2^(s - 16)
                                ELSE high * 2^(16 - s) + ((low % u) \div 2^s)
  BY <1>9, <1>11, SMT DEF Scaled
<1>13. CASE s >= 16
  <2>1. PICK q \in Nat \ {0} : q = 2^(s - 16) /\ u * q = p
    BY <1>3, <1>9, <1>13, SMT
  <2>2. high \div q = (sum * m) \div p
    BY <1>c, <1>11, <2>1, Zenon
  <2> QED
    BY <1>3, <1>12, <1>13, <2>1, <2>2
<1>14. CASE s < 16
  <2>1. PICK q \in Nat \ {0} : q = 2^(16 - s) /\ q * p = u
    BY <1>3, <1>9, <1>14, SMT
  <2>2. high * q + ((low % u) \div p) = (sum * m) \div p
    BY <1>c, <1>11, <2>1, Zenon
  <2>3. ~(s >= 16)
    BY <1>2, <1>14
  <2> QED
    BY <1>3, <1>12, <2>1, <2>2, <2>3
<1> QED
  BY <1>2, <1>13, <1>14

\* The multiplier and the divisor of the radius: their quotient is that of weight, almost.
Divisor(m, p, e) ==
    /\ m \in Nat /\ p \in Nat \ {0} /\ e \in Nat
    /\ weight * m = p + e /\ 255 * e < p
    /\ \A sum \in Nat : sum <= 255 * weight => Scaled(sum) = (sum * m) \div p

LEMMA Divisors == ASSUME radius \in 1..254 PROVE \E m, p, e : Divisor(m, p, e)
<1>1. PICK r \in 1..254 : r = radius
  OBVIOUS
<1>2. PICK m \in 1..512, s \in 11..24 :
        /\ stackblur_mul[r + 1] = m /\ stackblur_shr[r + 1] = s
        /\ 2^s <= (r + 1) * (r + 1) * m /\ 255 * ((r + 1) * (r + 1) * m - 2^s) < 2^s
  <2>1. Divides(r)
    BY TablesDivide
  <2> QED
    BY <2>1, Zenon DEF Divides
<1>3. PICK p \in Nat \ {0} : p = 2^s
  <2>1. PICK p : PowerOf(s, p)
    BY Powers
  <2> QED
    BY <2>1, SMT DEF PowerOf
<1>4. PICK n \in Nat : n = (r + 1) * (r + 1) * m
  OBVIOUS
<1>5. PICK e \in Nat : e = n - p
  BY <1>2, <1>3, <1>4
<1>6. weight * m = p + e /\ 255 * e < p
  BY <1>1, <1>2, <1>3, <1>4, <1>5 DEF weight
<1>7. ASSUME NEW sum \in Nat, sum <= 255 * weight
      PROVE  Scaled(sum) = (sum * m) \div p
  <2>1. sum <= 255 * ((radius + 1) * (radius + 1))
    BY <1>7 DEF weight
  <2>2. m = stackblur_mul[radius + 1] /\ s = stackblur_shr[radius + 1]
    BY <1>1, <1>2
  <2>3. Scaled(sum) = (sum * m) \div 2^s
    BY <2>1, <2>2, ScaledIs, Zenon
  <2> QED
    BY <1>3, <2>3
<1>8. m \in Nat
  OBVIOUS
<1>9. Divisor(m, p, e)
  BY <1>6, <1>7, <1>8 DEF Divisor
<1> QED
  BY <1>9

\* A sum that is so many weights is divided without a rest.
LEMMA MultiplesDivide ==
    ASSUME radius \in 1..254, NEW v \in 0..255
    PROVE  Scaled(v * weight) = v
<1>a. PICK m, p, e : Divisor(m, p, e)
  BY Divisors
<1> SUFFICES ASSUME m \in Nat, p \in Nat \ {0}, e \in Nat,
                    weight * m = p + e, 255 * e < p,
                    \A sum \in Nat : sum <= 255 * weight => Scaled(sum) = (sum * m) \div p
             PROVE  Scaled(v * weight) = v
  BY <1>a DEF Divisor
<1> PICK w \in Nat : w = weight
  BY DEF weight
<1>1. v * w \in Nat /\ v * w <= 255 * w
  OBVIOUS
<1>2. Scaled(v * w) = (v * w * m) \div p
  BY <1>1
<1>3. v * w * m = p * v + v * e
  <2>1. v * w * m = v * (w * m)
    OBVIOUS
  <2>2. v * (p + e) = p * v + v * e
    OBVIOUS
  <2> QED
    BY <2>1, <2>2
<1>4. v * e \in 0..(p - 1)
  <2>1. v * e <= 255 * e /\ v * e \in Nat
    OBVIOUS
  <2> QED
    BY <2>1
<1> PICK z \in 0..(p - 1) : z = v * e
  BY <1>4
<1>5. (p * v + z) \div p = v
  BY QuotientIs
<1> QED
  BY <1>2, <1>3, <1>5

\* Any other sum is divided to within 1.
LEMMA SumsDivide ==
    ASSUME radius \in 1..254, NEW sum \in Nat, sum <= 255 * weight
    PROVE  Scaled(sum) * weight \in (sum - weight)..(sum + weight)
<1>a. PICK m, p, e : Divisor(m, p, e)
  BY Divisors
<1> SUFFICES ASSUME m \in Nat, p \in Nat \ {0}, e \in Nat,
                    weight * m = p + e, 255 * e < p,
                    \A a \in Nat : a <= 255 * weight => Scaled(a) = (a * m) \div p
             PROVE  Scaled(sum) * weight \in (sum - weight)..(sum + weight)
  BY <1>a DEF Divisor
<1> PICK w \in Nat : w = weight /\ w >= 1
  BY DEF weight
<1> PICK b \in Nat : b = sum * m
  OBVIOUS
<1> PICK q : q = b \div p
  OBVIOUS
<1> PICK t : t = b % p
  OBVIOUS
<1>1. q \in Nat /\ t \in 0..(p - 1) /\ b = p * q + t
  BY Divided, RemainderRange
<1>2. Scaled(sum) = q
  OBVIOUS
<1>3. p * (q * w) + t * w = p * sum + sum * e
  <2>1. b * w = (p * q) * w + t * w
    <3> PICK y \in Nat : y = p * q
      BY <1>1
    <3>1. b = y + t
      BY <1>1
    <3>2. (y + t) * w = y * w + t * w
      BY <1>1
    <3> QED
      BY <3>1, <3>2
  <2>2. (p * q) * w = p * (q * w)
    BY <1>1
  <2>3. b * w = sum * (w * m)
    OBVIOUS
  <2>4. sum * (p + e) = p * sum + sum * e
    OBVIOUS
  <2> QED
    BY <2>1, <2>2, <2>3, <2>4
<1> PICK u \in Nat : u = q * w
  BY <1>1, Products, Zenon
<1>4. u < sum + w
  <2>1. sum * e <= (255 * w) * e /\ (255 * w) * e = w * (255 * e)
    OBVIOUS
  <2>2. w * (255 * e) < w * p
    OBVIOUS
  <2>3. t * w \in Nat
    BY <1>1
  <2>4. p * u < p * sum + w * p
    BY <1>3, <2>1, <2>2, <2>3
  <2>5. p * u < p * (sum + w)
    BY <2>4
  <2> QED
    BY <2>5
<1>5. sum < u + w
  <2>1. t * w < p * w
    BY <1>1
  <2>2. sum * e \in Nat
    OBVIOUS
  <2>3. p * sum < p * u + p * w
    BY <1>3, <2>1, <2>2
  <2>4. p * sum < p * (u + w)
    BY <2>3
  <2> QED
    BY <2>4
<1> QED
  BY <1>2, <1>4, <1>5

-----------------------------------------------------------------------------
(* Sums of lists *)

\* Induction on the natural numbers, for a set: from the least one it lacks.
LEMMA AllNumbers ==
    ASSUME NEW T \in SUBSET Nat, 0 \in T, \A n \in T : n + 1 \in T
    PROVE  T = Nat
<1> DEFINE Left == Nat \ T
<1> SUFFICES ASSUME Left # {} PROVE FALSE
  OBVIOUS
<1>1. PICK d \in Left : \A e \in Left : ~(<<e, d>> \in OpToRel(<, Nat))
  BY WFMin, NatLessThanWellFounded, Zenon
<1>2. d \in Nat /\ d \notin T /\ d # 0
  OBVIOUS
<1>3. d - 1 \in Nat /\ d - 1 < d /\ (d - 1) + 1 = d
  BY <1>2
<1>4. d - 1 \in T
  BY <1>1, <1>2, <1>3 DEF OpToRel
<1> QED
  BY <1>2, <1>3, <1>4

\* A list of n numbers, and the sums of its first ones
Numbered(line, n) == Len(line) = n /\ \A i \in 1..n : line[i] \in Int

AddsUp(f, line, n) ==
    /\ f[0] = 0 /\ \A i \in 1..n : f[i] = f[i - 1] + line[i]
    /\ \A i \in 0..n : f[i] \in Int

\* The recursive function of Sum has a value at each place.
LEMMA PartialSums ==
    ASSUME NEW n \in Nat, NEW line, Numbered(line, n)
    PROVE  \E f : AddsUp(f, line, n) /\ Sum(line) = f[n]
<1>0. Len(line) = n /\ \A i \in 1..n : line[i] \in Int
  BY DEF Numbered
<1> DEFINE Is(f, k) == f = [i \in 0..k |-> IF i = 0 THEN 0 ELSE f[i - 1] + line[i]]
           T == {k \in Nat : \E f : Is(f, k)}
<1>1. 0 \in T
  <2> DEFINE f == [i \in 0..0 |-> 0]
  <2>1. Is(f, 0)
    OBVIOUS
  <2> QED
    BY <2>1
<1>2. ASSUME NEW k \in T PROVE k + 1 \in T
  <2>1. k \in Nat /\ \E f : Is(f, k)
    OBVIOUS
  <2>2. PICK f : Is(f, k)
    BY <2>1
  <2> DEFINE g == [i \in 0..(k + 1) |-> IF i = k + 1 THEN f[k] + line[k + 1] ELSE f[i]]
  <2>3. \A i \in 0..k : g[i] = f[i]
    BY <2>1
  <2>4. ASSUME NEW i \in 0..(k + 1)
        PROVE  g[i] = IF i = 0 THEN 0 ELSE g[i - 1] + line[i]
    <3>1. CASE i = k + 1
      <4>1. i # 0 /\ i - 1 = k /\ k \in 0..k
        BY <2>1, <3>1
      <4>2. g[i] = f[k] + line[i]
        BY <3>1
      <4> QED
        BY <2>3, <4>1, <4>2
    <3>2. CASE i # k + 1
      <4>1. i \in 0..k /\ (i # 0 => i - 1 \in 0..k)
        BY <2>1, <3>2
      <4>2. f[i] = IF i = 0 THEN 0 ELSE f[i - 1] + line[i]
        BY <2>2, <4>1
      <4> HIDE DEF g
      <4> QED
        BY <2>3, <4>1, <4>2
    <3> QED
      BY <3>1, <3>2
  <2>5. Is(g, k + 1)
    <3>1. g = [i \in 0..(k + 1) |-> g[i]]
      OBVIOUS
    <3> HIDE DEF g
    <3> QED
      BY <2>4, <3>1
  <2> HIDE DEF g, Is
  <2> QED
    BY <2>1, <2>5
<1>3. T = Nat
  <2>1. T \in SUBSET Nat
    OBVIOUS
  <2> HIDE DEF T
  <2> QED
    BY <1>1, <1>2, <2>1, AllNumbers
<1>4. \E f : Is(f, n)
  BY <1>3
<1>5. Sum(line) = (CHOOSE f : Is(f, n))[n]
  BY <1>0 DEF Sum
<1> HIDE DEF Is
<1> PICK f : Is(f, n) /\ Sum(line) = f[n]
  BY <1>4, <1>5
<1>6. f[0] = 0 /\ \A i \in 1..n : f[i] = f[i - 1] + line[i]
  <2>1. f = [i \in 0..n |-> IF i = 0 THEN 0 ELSE f[i - 1] + line[i]]
    BY DEF Is
  <2>2. \A i \in 0..n : f[i] = IF i = 0 THEN 0 ELSE f[i - 1] + line[i]
    BY <2>1
  <2> QED
    BY <2>2
<1>7. \A i \in 0..n : f[i] \in Int
  <2> DEFINE U == {k \in Nat : k <= n => f[k] \in Int}
  <2>1. 0 \in U
    BY <1>6
  <2>2. ASSUME NEW k \in U PROVE k + 1 \in U
    <3>1. CASE k + 1 <= n
      <4>1. f[k] \in Int /\ k + 1 \in 1..n /\ (k + 1) - 1 = k
        BY <3>1
      <4>2. f[k + 1] = f[k] + line[k + 1] /\ line[k + 1] \in Int
        BY <1>0, <1>6, <4>1
      <4> QED
        BY <4>1, <4>2
    <3> QED
      BY <3>1
  <2>3. U \in SUBSET Nat
    OBVIOUS
  <2>4. U = Nat
    <3> HIDE DEF U
    <3> QED
      BY <2>1, <2>2, <2>3, AllNumbers
  <2> QED
    BY <2>4
<1> QED
  BY <1>6, <1>7 DEF AddsUp

\* Bounds of each place add up to bounds of the sum.
Bounds(a, b, line, n) ==
    /\ \A i \in 0..n : a[i] \in Int /\ b[i] \in Int
    /\ a[0] <= 0 /\ b[0] >= 0
    /\ \A i \in 1..n : a[i] <= a[i - 1] + 2 * line[i] /\ b[i] >= b[i - 1] + 2 * line[i]

LEMMA SumBetween ==
    ASSUME NEW n \in Nat, NEW line, Numbered(line, n), NEW a, NEW b, Bounds(a, b, line, n)
    PROVE  Sum(line) \in Int /\ a[n] <= 2 * Sum(line) /\ 2 * Sum(line) <= b[n]
<1> PICK f : AddsUp(f, line, n) /\ Sum(line) = f[n]
  BY PartialSums, Zenon
<1>a. \A i \in 1..n : line[i] \in Int
  BY DEF Numbered
<1>b. f[0] = 0 /\ \A i \in 1..n : f[i] = f[i - 1] + line[i]
  BY DEF AddsUp
<1>c. \A i \in 0..n : f[i] \in Int
  BY DEF AddsUp
<1>d. /\ \A i \in 0..n : a[i] \in Int /\ b[i] \in Int
      /\ a[0] <= 0 /\ b[0] >= 0
      /\ \A i \in 1..n : a[i] <= a[i - 1] + 2 * line[i] /\ b[i] >= b[i - 1] + 2 * line[i]
  BY DEF Bounds
<1> DEFINE T == {k \in Nat : k <= n => a[k] <= 2 * f[k] /\ 2 * f[k] <= b[k]}
<1>1. 0 \in T
  BY <1>b, <1>d
<1>2. ASSUME NEW k \in T PROVE k + 1 \in T
  <2>1. CASE k + 1 <= n
    <3>1. k \in 0..n /\ k + 1 \in 0..n /\ k + 1 \in 1..n /\ (k + 1) - 1 = k
      BY <2>1
    <3>2. a[k] <= 2 * f[k] /\ 2 * f[k] <= b[k]
      BY <3>1
    <3>3. f[k + 1] = f[k] + line[k + 1] /\ line[k + 1] \in Int
      BY <1>a, <1>b, <3>1
    <3>4. a[k + 1] <= a[k] + 2 * line[k + 1] /\ b[k + 1] >= b[k] + 2 * line[k + 1]
      BY <1>d, <3>1
    <3>5. /\ a[k] \in Int /\ b[k] \in Int /\ a[k + 1] \in Int /\ b[k + 1] \in Int
          /\ f[k] \in Int /\ f[k + 1] \in Int
      BY <1>c, <1>d, <3>1
    <3>6. a[k + 1] <= 2 * f[k + 1] /\ 2 * f[k + 1] <= b[k + 1]
      <4> PICK l \in Int : l = line[k + 1]
        BY <3>3
      <4> PICK c \in Int : c = f[k]
        BY <3>5
      <4> PICK c1 \in Int : c1 = f[k + 1]
        BY <3>5
      <4> PICK a0 \in Int, a1 \in Int : a0 = a[k] /\ a1 = a[k + 1]
        BY <3>5
      <4> PICK b0 \in Int, b1 \in Int : b0 = b[k] /\ b1 = b[k + 1]
        BY <3>5
      <4>1. c1 = c + l /\ a0 <= 2 * c /\ 2 * c <= b0 /\ a1 <= a0 + 2 * l /\ b1 >= b0 + 2 * l
        BY <3>2, <3>3, <3>4
      <4>2. a1 <= 2 * c1 /\ 2 * c1 <= b1
        BY <4>1
      <4> QED
        BY <4>2
    <3> QED
      BY <3>6
  <2> QED
    BY <2>1
<1>3. T = Nat
  <2>1. T \in SUBSET Nat
    OBVIOUS
  <2> HIDE DEF T
  <2> QED
    BY <1>1, <1>2, <2>1, AllNumbers
<1>4. n \in T
  BY <1>3
<1>5. a[n] <= 2 * f[n] /\ 2 * f[n] <= b[n] /\ f[n] \in Int
  BY <1>4, <1>c
<1> QED
  BY <1>5

\* n equal numbers come to n times the number.
LEMMA SumOfSame ==
    ASSUME NEW n \in Nat, NEW line, Len(line) = n, NEW v \in Int, \A i \in 1..n : line[i] = v
    PROVE  Sum(line) = v * n
<1> DEFINE a == [i \in 0..n |-> 2 * (v * i)]
<1>1. \A i \in 0..n : a[i] = 2 * (v * i) /\ a[i] \in Int
  OBVIOUS
<1>2. a[0] = 0 /\ a[n] = 2 * (v * n)
  BY <1>1
<1>3. \A i \in 1..n : a[i] = a[i - 1] + 2 * line[i]
  <2> TAKE i \in 1..n
  <2>1. a[i] = 2 * (v * i) /\ a[i - 1] = 2 * (v * (i - 1))
    OBVIOUS
  <2>2. v * (i - 1) = v * i - v /\ v * i \in Int
    OBVIOUS
  <2> HIDE DEF a
  <2> QED
    BY <2>1, <2>2
<1> HIDE DEF a
<1>4. \A i \in 1..n : line[i] \in Int
  OBVIOUS
<1>5. \A i \in 1..n : a[i] <= a[i - 1] + 2 * line[i] /\ a[i] >= a[i - 1] + 2 * line[i]
  <2> TAKE i \in 1..n
  <2>1. a[i] \in Int
    BY <1>1
  <2> QED
    BY <1>3, <2>1
<1>6. Numbered(line, n) /\ Bounds(a, a, line, n)
  BY <1>1, <1>2, <1>4, <1>5 DEF Numbered, Bounds
<1>7. Sum(line) \in Int /\ a[n] <= 2 * Sum(line) /\ 2 * Sum(line) <= a[n]
  BY <1>6, SumBetween, Zenon
<1>8. v * n \in Int
  OBVIOUS
<1> QED
  BY <1>2, <1>7, <1>8

\* How often pixel k of a window counts, and twice how often the first k of them do
Near(k, r) == IF k <= r THEN k ELSE 2 * r + 2 - k
Twice(k, r) == IF k <= r THEN k * (k + 1)
               ELSE 2 * ((r + 1) * (r + 1)) - (2 * r + 1 - k) * (2 * r + 2 - k)

\* The closed form grows by twice the next weight: it is quadratic on either half.
LEMMA TwiceNext ==
    ASSUME NEW r \in Nat, NEW k \in 1..(2 * r + 1)
    PROVE  /\ Near(k, r) \in Nat
           /\ Twice(k, r) \in Int /\ Twice(k - 1, r) \in Int
           /\ Twice(k, r) = Twice(k - 1, r) + 2 * Near(k, r)
<1>1. CASE k <= r
  <2>1. k * (k + 1) = (k - 1) * k + 2 * k
    OBVIOUS
  <2> QED
    BY <1>1, <2>1 DEF Near, Twice
<1>2. CASE k = r + 1
  <2>1. /\ Near(k, r) = r + 1 /\ Twice(k - 1, r) = r * (r + 1)
        /\ Twice(k, r) = 2 * ((r + 1) * (r + 1)) - r * (r + 1)
    <3>1. ~(k <= r) /\ k - 1 = r /\ 2 * r + 2 - k = r + 1 /\ 2 * r + 1 - k = r
      BY <1>2
    <3> QED
      BY <1>2, <3>1 DEF Near, Twice
  <2>2. 2 * ((r + 1) * (r + 1)) - r * (r + 1) = r * (r + 1) + 2 * (r + 1)
    OBVIOUS
  <2> QED
    BY <2>1, <2>2
<1>3. CASE k > r + 1
  <2> PICK m \in Nat : m = 2 * r + 1 - k
    OBVIOUS
  <2>1. /\ ~(k <= r) /\ ~(k - 1 <= r) /\ 2 * r + 2 - k = m + 1
        /\ 2 * r + 1 - (k - 1) = m + 1 /\ 2 * r + 2 - (k - 1) = m + 2
    BY <1>3
  <2>2. /\ Near(k, r) = m + 1
        /\ Twice(k - 1, r) = 2 * ((r + 1) * (r + 1)) - (m + 1) * (m + 2)
        /\ Twice(k, r) = 2 * ((r + 1) * (r + 1)) - m * (m + 1)
    BY <2>1 DEF Near, Twice
  <2>3. (m + 1) * (m + 2) = m * (m + 1) + 2 * (m + 1)
    OBVIOUS
  <2> QED
    BY <2>2, <2>3
<1> QED
  BY <1>1, <1>2, <1>3

LEMMA TwiceEnds ==
    ASSUME NEW r \in Nat
    PROVE  Twice(0, r) = 0 /\ Twice(2 * r + 1, r) = 2 * ((r + 1) * (r + 1))
<1>1. ~(2 * r + 1 <= r) /\ 2 * r + 1 - (2 * r + 1) = 0 /\ 2 * r + 2 - (2 * r + 1) = 1
  OBVIOUS
<1> QED
  BY <1>1 DEF Twice

\* The weights of a window come to (r + 1) * (r + 1).
LEMMA SumOfWeights ==
    ASSUME NEW r \in Nat, NEW line, Len(line) = 2 * r + 1, NEW lo \in Nat, NEW hi \in Nat,
           \A k \in 1..(2 * r + 1) :
             line[k] \in Int /\ lo * Near(k, r) <= line[k] /\ line[k] <= hi * Near(k, r)
    PROVE  /\ Sum(line) \in Int
           /\ lo * ((r + 1) * (r + 1)) <= Sum(line) /\ Sum(line) <= hi * ((r + 1) * (r + 1))
<1> DEFINE n == 2 * r + 1
           a == [i \in 0..n |-> lo * Twice(i, r)]
           b == [i \in 0..n |-> hi * Twice(i, r)]
           w == (r + 1) * (r + 1)
<1>1. n \in Nat /\ w \in Nat
  OBVIOUS
<1>2. \A i \in 0..n : Twice(i, r) \in Int
  <2> TAKE i \in 0..n
  <2>1. CASE i = 0
    BY <2>1, TwiceEnds
  <2>2. CASE i # 0
    BY <2>2, TwiceNext
  <2> QED
    BY <2>1, <2>2
<1>3. \A i \in 0..n : a[i] = lo * Twice(i, r) /\ b[i] = hi * Twice(i, r)
  OBVIOUS
<1> HIDE DEF a, b
<1>4. \A i \in 0..n : a[i] \in Int /\ b[i] \in Int
  <2> TAKE i \in 0..n
  <2> PICK t \in Int : t = Twice(i, r)
    BY <1>2
  <2> QED
    BY <1>3
<1>5. a[0] = 0 /\ b[0] = 0 /\ a[n] = 2 * (lo * w) /\ b[n] = 2 * (hi * w)
  <2>1. Twice(0, r) = 0 /\ Twice(n, r) = 2 * w
    BY TwiceEnds
  <2> HIDE DEF n, w
  <2>2. 0 \in 0..n /\ n \in 0..n
    BY <1>1
  <2>3. a[0] = lo * 0 /\ b[0] = hi * 0 /\ a[n] = lo * (2 * w) /\ b[n] = hi * (2 * w)
    BY <1>3, <2>1, <2>2
  <2>4. lo * 0 = 0 /\ hi * 0 = 0 /\ lo * (2 * w) = 2 * (lo * w) /\ hi * (2 * w) = 2 * (hi * w)
    BY <1>1
  <2> QED
    BY <2>3, <2>4
<1>6. \A i \in 1..n : a[i] <= a[i - 1] + 2 * line[i] /\ b[i] >= b[i - 1] + 2 * line[i]
  <2> TAKE i \in 1..n
  <2> PICK s \in Int, t \in Int, m \in Nat : s = Twice(i - 1, r) /\ t = Twice(i, r) /\ m = Near(i, r)
    BY TwiceNext
  <2>1. t = s + 2 * m
    BY TwiceNext
  <2>2. i - 1 \in 0..n /\ i \in 0..n
    OBVIOUS
  <2>3. a[i] = lo * t /\ a[i - 1] = lo * s /\ b[i] = hi * t /\ b[i - 1] = hi * s
    BY <1>3, <2>2
  <2>4. \A c \in Nat : c * (s + 2 * m) = c * s + 2 * (c * m)
    OBVIOUS
  <2>5. line[i] \in Int /\ lo * m <= line[i] /\ line[i] <= hi * m
    OBVIOUS
  <2>6. lo * s \in Int /\ lo * m \in Int /\ hi * s \in Int /\ hi * m \in Int
    OBVIOUS
  <2>7. lo * t = lo * s + 2 * (lo * m) /\ hi * t = hi * s + 2 * (hi * m)
    BY <2>1, <2>4
  <2>8. PICK l \in Int : l = line[i]
    BY <2>5
  <2>9. PICK c \in Int, d \in Int, e \in Int, f \in Int :
          c = lo * s /\ d = lo * m /\ e = hi * s /\ f = hi * m
    BY <2>6
  <2>10. d <= l /\ l <= f
    BY <2>5, <2>8, <2>9
  <2>11. c + 2 * d <= c + 2 * l /\ e + 2 * f >= e + 2 * l
    BY <2>10
  <2> QED
    BY <2>3, <2>7, <2>8, <2>9, <2>11
<1>7. Len(line) = n /\ \A i \in 1..n : line[i] \in Int
  OBVIOUS
<1> HIDE DEF n, w
<1>a. Numbered(line, n) /\ Bounds(a, b, line, n)
  BY <1>1, <1>4, <1>5, <1>6, <1>7 DEF Numbered, Bounds
<1>8. Sum(line) \in Int /\ a[n] <= 2 * Sum(line) /\ 2 * Sum(line) <= b[n]
  BY <1>1, <1>a, SumBetween, Zenon
<1>9. lo * w \in Int /\ hi * w \in Int
  BY <1>1
<1>10. lo * w <= Sum(line) /\ Sum(line) <= hi * w
  BY <1>5, <1>8, <1>9
<1> QED
  BY <1>8, <1>10 DEF w

-----------------------------------------------------------------------------
(* The line *)

LEMMA LenOfList ==
    ASSUME NEW n \in Nat, NEW f, f = [i \in 1..n |-> f[i]]
    PROVE  Len(f) = n
<1> DEFINE S == {f[i] : i \in 1..n}
<1>1. f \in [1..n -> S]
  <2>1. \A i \in 1..n : f[i] \in S
    OBVIOUS
  <2> HIDE DEF S
  <2> QED
    BY <2>1
<1> HIDE DEF S
<1>2. f \in Seq(S) /\ DOMAIN f = 1..n
  BY <1>1, SeqDef
<1>3. Len(f) \in Nat /\ DOMAIN f = 1..Len(f)
  BY <1>2, LenProperties
<1> QED
  BY <1>2, <1>3

\* A line of the picture has pixels, and what stands in its place as many.
LEMMA LineShape ==
    ASSUME NEW line \in Rows, NEW f, f = [j \in DOMAIN line |-> f[j]]
    PROVE  /\ Len(line) \in Nat /\ Len(line) >= 1 /\ DOMAIN line = 1..Len(line)
           /\ Len(f) = Len(line) /\ DOMAIN f = 1..Len(line)
<1>1. line \in Seq(0..255) /\ line # <<>>
  BY BlurAssumption
<1>2. Len(line) \in Nat /\ DOMAIN line = 1..Len(line) /\ Len(line) # 0
  BY <1>1, LenProperties, EmptySeq
<1>3. Len(f) = Len(line)
  BY <1>2, LenOfList
<1> QED
  BY <1>2, <1>3

LEMMA OddDiv ==
    ASSUME NEW n \in Nat, n >= 1
    PROVE  n * 2 + 1 = 2 * n + 1 /\ n * 2 + 1 \in Nat \ {0}
OBVIOUS

LEMMA FromOne ==
    ASSUME NEW d \in Nat \ {0}, NEW n \in 0..(d - 1)
    PROVE  n + 1 \in 1..d
OBVIOUS

\* clamp gives an index of the line, and moves no index past x back to it.
LEMMA ClampedIndex ==
    ASSUME Width \in Nat, Width >= 1, NEW i \in Int
    PROVE  /\ Clamp(i) \in 0..(Width - 1)
           /\ \A y \in Nat : y < i /\ y < Width - 1 => Clamp(i) > y
BY DEF Clamp

-----------------------------------------------------------------------------
(* The stack *)

LEMMA InitEstablishes == Init => IInv
<1> SUFFICES ASSUME Init PROVE IInv
  OBVIOUS
<1>1. pc = "called" /\ x = 0 /\ row = source /\ source \in Rows /\ radius \in Int
  BY BlurAssumption DEF Init
<1>2. source = [j \in DOMAIN source |-> source[j]]
  <2>1. source \in Seq(0..255)
    BY <1>1, BlurAssumption
  <2>2. source \in [1..Len(source) -> 0..255]
    BY <2>1, LenProperties
  <2> QED
    BY <2>2
<1> QED
  BY <1>1, <1>2 DEF IInv

LEMMA FillPreserves == ASSUME IInv, Fill PROVE IInv'
<1>1. /\ pc = "called" /\ radius >= 1 /\ radius \in Int /\ radius' = Capped(radius) /\ pc' = "sliding"
      /\ UNCHANGED <<source, row, x>> /\ x = 0 /\ row = source /\ source \in Rows
      /\ row = [j \in DOMAIN source |-> row[j]]
      /\ stack' = [k \in 1..(2 * radius' + 1) |-> At(row, k - 1 - radius')]
  BY DEF Fill, IInv
<1>2. radius' \in Nat /\ radius' >= 1
  BY <1>1 DEF Capped
<1>3. Len(source) \in Nat /\ Len(source) >= 1 /\ Width = Len(source) /\ Width' = Width
  BY <1>1, LineShape DEF Width
<1>4. div' = 2 * radius' + 1 /\ div' \in Nat \ {0}
  <2> PICK r \in Nat : r = radius'
    BY <1>2
  <2>1. r * 2 + 1 = 2 * r + 1 /\ r * 2 + 1 \in Nat \ {0}
    BY <1>2, OddDiv
  <2>2. div' = radius' * 2 + 1
    BY DEF div
  <2> QED
    BY <2>1, <2>2
<1>5. stack' = [k \in 1..div' |-> stack'[k]]
  BY <1>1, <1>4
<1>6. ASSUME NEW k \in 0..(div' - 1)
      PROVE  stack'[((x' + k) % div') + 1] = At(source, x - radius' + k)
  <2> PICK d \in Nat \ {0} : d = div'
    BY <1>4
  <2>1. (d * 0 + k) % d = k
    BY RemainderIs
  <2>2. (x' + k) % d = k
    BY <1>1, <2>1
  <2>3. k + 1 \in 1..d /\ (k + 1) - 1 - radius' = x - radius' + k
    <3>1. k \in 0..(d - 1) /\ k \in Int /\ x = 0
      BY <1>1
    <3> PICK r \in Nat : r = radius'
      BY <1>2
    <3> PICK n \in 0..(d - 1) : n = k
      BY <3>1
    <3>2. n + 1 - 1 - r = 0 - r + n
      OBVIOUS
    <3>3. n + 1 \in 1..d
      BY Zenon, FromOne
    <3> QED
      BY <3>1, <3>2, <3>3
  <2> QED
    BY <1>1, <1>4, <2>2, <2>3
<1>7. \A i : At(source, i)' = At(source, i)
  BY <1>1, <1>3 DEF At, Clamp
<1>8. StackIsWindow'
  BY <1>1, <1>6, <1>7 DEF StackIsWindow
<1>9. \A j \in (x' + 1)..Width' : row'[j] = source'[j]
  BY <1>1
<1>10. x' \in 0..Width'
  BY <1>1, <1>3
<1> QED
  BY <1>1, <1>2, <1>5, <1>8, <1>9, <1>10 DEF IInv

\* The slot written last is the window's far end one place on, and what comes into
\* it has not been written.
LEMMA SlidePreserves == ASSUME IInv, Slide PROVE IInv'
<1> DEFINE blurred == [row EXCEPT ![x + 1] = Scaled(bs) % 256]
           in == At(blurred, x + radius + 1)
           slot == (x % div) + 1
<1>1. /\ pc = "sliding" /\ x < Width /\ pc' = "sliding" /\ row' = blurred /\ x' = x + 1
      /\ stack' = [stack EXCEPT ![slot] = in]
      /\ UNCHANGED <<radius, source>>
  BY DEF Slide, Incoming
<1>2. /\ radius \in Int /\ radius >= 1 /\ source \in Rows /\ x \in 0..Width
      /\ row = [j \in DOMAIN source |-> row[j]]
      /\ stack = [k \in 1..div |-> stack[k]]
      /\ \A j \in (x + 1)..Width : row[j] = source[j]
      /\ \A k \in 0..(div - 1) : stack[((x + k) % div) + 1] = At(source, x - radius + k)
  BY <1>1 DEF IInv, StackIsWindow
<1>3. /\ Len(source) \in Nat /\ Len(source) >= 1 /\ DOMAIN source = 1..Len(source)
      /\ Width = Len(source)
  BY <1>2, LineShape DEF Width
<1>4. row' = [j \in DOMAIN source |-> row'[j]] /\ \A j \in 1..Width : j # x + 1 => row'[j] = row[j]
  BY <1>1, <1>2, <1>3
<1>5. Width' = Width
  BY <1>2, <1>3, <1>4, LineShape DEF Width
<1>6. div' = div /\ div \in Nat \ {0} /\ div = 2 * radius + 1
  BY <1>1, <1>2 DEF div
<1>7. slot \in 1..div /\ x % div \in Int
  <2>1. x \in Nat
    BY <1>2, <1>3
  <2> PICK d \in Nat \ {0} : d = div
    BY <1>6
  <2>2. x % d \in 0..(d - 1)
    BY <2>1, RemainderRange
  <2> QED
    BY <2>2
<1>8. stack' = [k \in 1..div' |-> stack'[k]] /\ \A k \in 1..div : k # slot => stack'[k] = stack[k]
  BY <1>1, <1>2, <1>6, <1>7
<1>9. stack'[slot] = in
  BY <1>1, <1>2, <1>7
<1>10. \A i : At(source, i)' = At(source, i)
  BY <1>1, <1>5 DEF At, Clamp
<1>11. StackIsWindow'
  <2> SUFFICES ASSUME x' < Width', NEW k \in 0..(div' - 1)
               PROVE  stack'[((x' + k) % div') + 1] = At(source, x' - radius' + k)
    BY <1>10 DEF StackIsWindow
  <2>1. x + 1 < Width /\ x \in Nat /\ k \in 0..(div - 1)
    BY <1>1, <1>2, <1>3, <1>5, <1>6
  <2>2. CASE k = div - 1
    <3>1. x' + k = x + div
      BY <1>1, <1>6, <2>1, <2>2
    <3>2. ((x' + k) % div') + 1 = slot
      BY <1>6, <2>1, <3>1, SameSlot
    <3>3. x' - radius' + k = x + radius + 1
      BY <1>1, <1>2, <1>6, <2>1, <2>2
    <3>4. Width \in Nat /\ Width >= 1 /\ x + radius + 1 \in Int /\ x < x + radius + 1 /\ x < Width - 1
      BY <1>2, <1>3, <2>1
    <3>5. Clamp(x + radius + 1) \in 0..(Width - 1) /\ Clamp(x + radius + 1) > x
      BY <2>1, <3>4, ClampedIndex
    <3> DEFINE j == Clamp(x + radius + 1) + 1
    <3>6. j \in 1..Width /\ j # x + 1 /\ j \in (x + 1)..Width
      BY <1>3, <2>1, <3>5
    <3>7. in = blurred[j] /\ At(source, x + radius + 1) = source[j]
      BY DEF At
    <3>8. blurred[j] = source[j]
      <4>1. row' = blurred
        BY <1>1
      <4> HIDE DEF j, blurred
      <4>2. row'[j] = row[j]
        BY <1>4, <3>6
      <4>3. row[j] = source[j]
        BY <1>2, <3>6
      <4> QED
        BY <4>1, <4>2, <4>3
    <3> QED
      BY <1>9, <3>2, <3>3, <3>7, <3>8
  <2>3. CASE k # div - 1
    <3>1. k + 1 \in 1..(div - 1) /\ k + 1 \in 0..(div - 1) /\ x' + k = x + (k + 1)
      BY <1>1, <1>6, <2>1, <2>3
    <3> DEFINE there == ((x + (k + 1)) % div) + 1
    <3>2. (x + (k + 1)) % div # x % div /\ (x + (k + 1)) % div \in 0..(div - 1)
      <4> PICK d \in Nat \ {0} : d = div
        BY <1>6
      <4> PICK m \in 1..(d - 1) : m = k + 1
        BY <3>1
      <4>1. (x + m) % d # x % d
        BY <2>1, OtherSlot
      <4>2. x + m \in Nat
        BY <2>1
      <4>3. (x + m) % d \in 0..(d - 1)
        BY <4>2, RemainderRange
      <4> QED
        BY <4>1, <4>3
    <3>3. there \in 1..div /\ there # slot
      <4>1. x % div \in Int /\ div \in Nat
        BY <1>6, <1>7
      <4> PICK a : a = (x + (k + 1)) % div
        OBVIOUS
      <4> PICK b : b = x % div
        OBVIOUS
      <4>2. a \in 0..(div - 1) /\ b \in Int /\ a # b
        BY <3>2, <4>1
      <4>3. a + 1 \in 1..div /\ a + 1 # b + 1
        BY <4>1, <4>2
      <4> QED
        BY <4>3
    <3>4. stack[there] = At(source, x - radius + (k + 1))
      BY <1>2, <3>1
    <3>5. x - radius + (k + 1) = x' - radius' + k
      BY <1>1, <1>2, <2>1, <3>1
    <3> QED
      BY <1>6, <1>8, <3>1, <3>3, <3>4, <3>5
  <2> QED
    BY <2>2, <2>3
<1>12. \A j \in (x' + 1)..Width' : row'[j] = source'[j]
  <2> TAKE j \in (x' + 1)..Width'
  <2>1. x' = x + 1 /\ source' = source
    BY <1>1
  <2>2. j \in (x + 1)..Width /\ j \in 1..Width /\ j # x + 1
    BY <1>2, <1>3, <1>5, <2>1
  <2>3. row'[j] = row[j]
    BY <1>4, <2>2
  <2>4. row[j] = source[j]
    BY <1>2, <2>2
  <2> QED
    BY <2>1, <2>3, <2>4
<1>13. x' \in 0..Width'
  BY <1>1, <1>2, <1>3, <1>5
<1> QED
  BY <1>1, <1>2, <1>4, <1>8, <1>11, <1>12, <1>13 DEF IInv

LEMMA NextPreserves == IInv /\ [Next]_vars => IInv'
<1> SUFFICES ASSUME IInv, [Next]_vars PROVE IInv'
  OBVIOUS
<1>1. CASE Fill
  BY <1>1, FillPreserves
<1>2. CASE Slide
  BY <1>2, SlidePreserves
<1>3. CASE Return \/ Finish
  <2>1. pc' = "done" /\ UNCHANGED <<radius, source, row>>
    BY <1>3 DEF Return, Finish
  <2> QED
    BY <2>1 DEF IInv
<1>4. CASE UNCHANGED vars
  <2>1. UNCHANGED <<pc, radius, source, row, stack, x, Width, div>>
    BY <1>4 DEF vars, Width, div
  <2>2. \A i : At(source, i)' = At(source, i)
    BY <2>1 DEF At, Clamp
  <2>3. StackIsWindow => StackIsWindow'
    BY <2>1, <2>2 DEF StackIsWindow
  <2> QED
    BY <2>1, <2>3 DEF IInv
<1> QED
  BY <1>1, <1>2, <1>3, <1>4 DEF Next, Done

\* What has yet to be blurred is as it was, and the stack the window over it.
THEOREM Invariance == Spec => []IInv
<1>1. Init => IInv
  BY InitEstablishes
<1>2. IInv /\ [Next]_vars => IInv'
  BY NextPreserves
<1> QED
  BY <1>1, <1>2, PTL DEF Spec

\* The line is overwritten while it is read, and a radius may exceed it; still the
\* stack holds the pixels around x as they were (blur.cpp:98-125).
THEOREM WindowOfTheOriginal == Spec => []StackIsWindow
<1>1. IInv => StackIsWindow
  BY DEF IInv, StackIsWindow
<1> QED
  BY <1>1, Invariance, PTL

-----------------------------------------------------------------------------
(* The first window of the line *)

\* The weighted sum of a window
Weighted(list, r) == Sum([k \in 1..(2 * r + 1) |-> list[k] * Near(k, r)])

Between(list, n, lo, hi) == \A k \in 1..n : list[k] \in lo..hi

\* A window of pixels between lo and hi has a weighted sum between as many weights.
LEMMA WindowSum ==
    ASSUME NEW r \in Nat, NEW list, NEW lo \in Nat, NEW hi \in Nat,
           Between(list, 2 * r + 1, lo, hi)
    PROVE  /\ Weighted(list, r) \in Int
           /\ lo * ((r + 1) * (r + 1)) <= Weighted(list, r)
           /\ Weighted(list, r) <= hi * ((r + 1) * (r + 1))
<1> DEFINE line == [k \in 1..(2 * r + 1) |-> list[k] * Near(k, r)]
<1>1. Len(line) = 2 * r + 1
  <2>1. 2 * r + 1 \in Nat /\ line = [k \in 1..(2 * r + 1) |-> line[k]]
    OBVIOUS
  <2> HIDE DEF line
  <2> QED
    BY <2>1, LenOfList
<1>2. ASSUME NEW k \in 1..(2 * r + 1)
      PROVE  line[k] \in Int /\ lo * Near(k, r) <= line[k] /\ line[k] <= hi * Near(k, r)
  <2>1. PICK n \in Nat : n = Near(k, r)
    BY TwiceNext, Zenon
  <2>2. PICK s \in Int : s = list[k] /\ lo <= s /\ s <= hi
    BY DEF Between
  <2>3. lo * n <= s * n /\ s * n <= hi * n /\ s * n \in Int
    BY <2>2
  <2>4. line[k] = s * n
    BY <2>1, <2>2
  <2> QED
    BY <2>1, <2>3, <2>4
<1>3. Weighted(list, r) = Sum(line)
  BY DEF Weighted
<1> HIDE DEF line
<1> QED
  BY <1>1, <1>2, <1>3, SumOfWeights

\* The code weighs by the distance from the middle, exact by the place in the window.
LEMMA WeightIsNear ==
    ASSUME NEW r \in Nat, NEW k \in 1..(2 * r + 1)
    PROVE  Weight(k - 1 - r, r) = Near(k, r)
BY DEF Weight, Near

\* Whatever the index, at it is a pixel of the line.
LEMMA PixelAt ==
    ASSUME Width \in Nat, Width >= 1, NEW i \in Int, NEW line, NEW S,
           \A j \in 1..Width : line[j] \in S
    PROVE  At(line, i) \in S
<1>1. PICK c : c = Clamp(i)
  OBVIOUS
<1>2. c \in 0..(Width - 1)
  BY <1>1, ClampedIndex
<1>3. c + 1 \in 1..Width
  BY <1>2
<1> QED
  BY <1>1, <1>3 DEF At

\* The first window of the line, and what exact makes of it
window == [k \in 1..div |-> At(source, k - 1 - radius)]

LEMMA ExactIsWeighted ==
    ASSUME radius \in Nat
    PROVE  exact = Weighted(window, radius)
<1>1. div = 2 * radius + 1
  BY DEF div
<1>2. [k \in 1..div |-> At(source, k - 1 - radius) * (IF k <= radius THEN k ELSE 2 * radius + 2 - k)]
        = [k \in 1..div |-> window[k] * Near(k, radius)]
  BY DEF window, Near
<1> QED
  BY <1>1, <1>2 DEF exact, Weighted

\* The first sum is of pixels, so the tables divide it.
LEMMA ExactRange ==
    ASSUME IInv, pc = "sliding", radius \in 1..254
    PROVE  exact \in Nat /\ exact <= 255 * weight
<1>1. source \in Rows /\ row = [j \in DOMAIN source |-> row[j]] /\ source \in Seq(0..255)
  BY BlurAssumption DEF IInv
<1>2. Width = Len(source) /\ Width \in Nat /\ Width >= 1
  BY <1>1, LineShape DEF Width
<1>3. \A j \in 1..Width : source[j] \in 0..255
  <2>1. source \in [1..Len(source) -> 0..255]
    BY <1>1, LenProperties
  <2> QED
    BY <1>2, <2>1
<1>4. Between(window, 2 * radius + 1, 0, 255)
  <2> SUFFICES ASSUME NEW k \in 1..(2 * radius + 1) PROVE window[k] \in 0..255
    BY DEF Between
  <2>1. k \in 1..div /\ k - 1 - radius \in Int
    BY DEF div
  <2>2. At(source, k - 1 - radius) \in 0..255
    BY <1>2, <1>3, <2>1, PixelAt, Zenon
  <2> QED
    BY <2>1, <2>2 DEF window
<1>5. PICK r \in Nat : r = radius
  OBVIOUS
<1>6. /\ Weighted(window, r) \in Int
      /\ 0 * ((r + 1) * (r + 1)) <= Weighted(window, r)
      /\ Weighted(window, r) <= 255 * ((r + 1) * (r + 1))
  <2>1. 0 \in Nat /\ 255 \in Nat /\ Between(window, 2 * r + 1, 0, 255)
    BY <1>4, <1>5
  <2> QED
    BY <2>1, WindowSum, Zenon
<1>7. PICK w \in Nat : w = (r + 1) * (r + 1)
  OBVIOUS
<1>8. exact = Weighted(window, r) /\ weight = w
  BY <1>5, <1>7, ExactIsWeighted DEF weight
<1>9. 0 * w = 0
  OBVIOUS
<1> QED
  BY <1>6, <1>7, <1>8, <1>9

-----------------------------------------------------------------------------
(* The sums *)

\* What is known of the sums besides IInv
Sums == FlatSums /\ FirstSum

LEMMA InitSums == Init => Sums
<1> SUFFICES ASSUME Init PROVE Sums
  OBVIOUS
<1>1. pc = "called" /\ row = source /\ x = 0 /\ written = <<>>
  BY DEF Init
<1>2. <<>> = [k \in 1..0 |-> written[k]]
  OBVIOUS
<1> QED
  BY <1>1, <1>2 DEF Sums, FlatSums, FirstSum

\* A part of a list that is n equal numbers comes to n times the number.
LEMMA SumOfPart ==
    ASSUME NEW n \in Nat, NEW list, NEW m \in Int, NEW v \in Int,
           \A i \in m..(m + n - 1) : list[i] = v
    PROVE  Sum(SubSeq(list, m, m + n - 1)) = v * n
<1> DEFINE part == SubSeq(list, m, m + n - 1)
<1>1. \A i \in m..(m + n - 1) : list[i] \in {v}
  OBVIOUS
<1>2. /\ Len(part) = IF m <= m + n - 1 THEN m + n - 1 - m + 1 ELSE 0
      /\ \A i \in 1..(m + n - 1 - m + 1) : part[i] = list[m + i - 1]
  BY <1>1, SubSeqProperties
<1> HIDE DEF part
<1>3. Len(part) = n
  BY <1>2
<1>4. \A i \in 1..n : part[i] = v
  <2> TAKE i \in 1..n
  <2>1. i \in 1..(m + n - 1 - m + 1) /\ m + i - 1 \in m..(m + n - 1)
    OBVIOUS
  <2> QED
    BY <1>2, <2>1
<1> QED
  BY <1>3, <1>4, SumOfSame DEF part

\* The stack is filled with the first window, so the sums are those of that window.
LEMMA FillSums == ASSUME IInv, Sums, Fill PROVE Sums'
<1>1. PICK r : r = radius'
  OBVIOUS
<1>2. PICK p : p = [k \in 1..(2 * r + 1) |-> At(row, k - 1 - r)]
  OBVIOUS
<1>3. /\ pc' = "sliding" /\ UNCHANGED <<source, row, x, written>> /\ r = Capped(radius) /\ radius >= 1
      /\ bs' = Sum([k \in 1..(2 * r + 1) |-> p[k] * Weight(k - 1 - r, r)])
      /\ bi' = Sum(SubSeq(p, r + 2, 2 * r + 1)) /\ bo' = Sum(SubSeq(p, 1, r + 1))
      /\ pc = "called"
  BY <1>1, <1>2 DEF Fill
<1>4. /\ radius \in Int /\ x = 0 /\ row = source /\ source \in Rows
      /\ row = [j \in DOMAIN source |-> row[j]]
  BY <1>3 DEF IInv
<1>5. r \in 1..254 /\ r \in Nat
  <2>1. r = Capped(radius) /\ radius >= 1 /\ radius \in Int
    BY <1>3, <1>4
  <2>2. ASSUME NEW q \in Int, q >= 1 PROVE Capped(q) \in 1..254
    BY <2>2 DEF Capped
  <2>3. PICK q \in Int : q = radius /\ q >= 1
    BY <2>1
  <2>4. Capped(q) \in 1..254
    BY <2>2, <2>3
  <2>5. r \in 1..254
    BY <2>1, <2>3, <2>4
  <2> QED
    BY <2>5
<1>6. Width \in Nat /\ Width >= 1 /\ DOMAIN source = 1..Width
  BY <1>4, LineShape DEF Width
<1>7. \A i : At(source, i)' = At(row, i)
  BY <1>3, <1>4 DEF At, Clamp, Width
<1>8. bs' = Weighted(p, r)
  <2>1. [k \in 1..(2 * r + 1) |-> p[k] * Weight(k - 1 - r, r)]
          = [k \in 1..(2 * r + 1) |-> p[k] * Near(k, r)]
    BY <1>5, WeightIsNear
  <2> QED
    BY <1>3, <2>1 DEF Weighted
<1>9. exact' = Weighted(p, r)
  <2>1. div' = 2 * r + 1
    BY <1>1, <1>5 DEF div
  <2>2. ASSUME NEW k \in 1..(2 * r + 1)
        PROVE  At(source, k - 1 - radius)' * (IF k <= radius' THEN k ELSE 2 * radius' + 2 - k)
                 = p[k] * Near(k, r)
    <3>1. At(source, k - 1 - radius)' = At(row, k - 1 - r)
      BY <1>1, <1>3, <1>4 DEF At, Clamp, Width
    <3>2. p[k] = At(row, k - 1 - r)
      BY <1>2
    <3> QED
      BY <1>1, <3>1, <3>2 DEF Near
  <2>3. exact' = Sum([k \in 1..(2 * r + 1) |-> p[k] * Near(k, r)])
    BY <2>1, <2>2 DEF exact
  <2> QED
    BY <2>3 DEF Weighted
<1>10. FirstSum'
  <2>1. x' = 0 /\ radius' \in 1..254 /\ bs' = exact'
    BY <1>1, <1>3, <1>4, <1>5, <1>8, <1>9
  <2>2. written' = [k \in 1..x' |-> written'[k]]
    BY <1>3, <1>4 DEF Sums, FirstSum
  <2>3. FirstPixelIsMean'
    BY <2>1 DEF FirstPixelIsMean
  <2> QED
    BY <2>1, <2>2, <2>3 DEF FirstSum
<1>11. FlatSums'
  <2> SUFFICES ASSUME \A i \in DOMAIN source : source[i] = source[1]
               PROVE  /\ bs' = source[1] * weight'
                      /\ bi' = source[1] * r /\ bo' = source[1] * (r + 1)
    BY <1>1, <1>3, <1>4 DEF FlatSums
  <2>1. PICK v : v = source[1]
    OBVIOUS
  <2>2. v \in 0..255
    <3>1. source \in Seq(0..255) /\ source # <<>>
      BY <1>4, BlurAssumption
    <3>2. source \in [1..Len(source) -> 0..255]
      BY <3>1, LenProperties
    <3>3. 1 \in DOMAIN source
      BY <1>6
    <3>4. source[1] \in 0..255
      BY <3>2, <3>3, Zenon
    <3> QED
      BY <2>1, <3>4
  <2>3. \A j \in 1..Width : row[j] \in {v}
    BY <1>4, <1>6, <2>1
  <2>4. \A k \in 1..(2 * r + 1) : p[k] = v
    <3> TAKE k \in 1..(2 * r + 1)
    <3>1. k - 1 - r \in Int
      BY <1>5
    <3>2. At(row, k - 1 - r) \in {v}
      BY <1>6, <2>3, <3>1, PixelAt, Zenon
    <3> QED
      BY <1>2, <3>2
  <2>5. weight' = (r + 1) * (r + 1)
    BY <1>1 DEF weight
  <2>6. bs' = v * ((r + 1) * (r + 1))
    <3>1. Between(p, 2 * r + 1, v, v) /\ v \in Nat
      BY <2>2, <2>4 DEF Between
    <3>2. /\ Weighted(p, r) \in Int
          /\ v * ((r + 1) * (r + 1)) <= Weighted(p, r)
          /\ Weighted(p, r) <= v * ((r + 1) * (r + 1))
      BY <1>5, <3>1, WindowSum, Zenon
    <3>3. PICK a \in Int : a = v * ((r + 1) * (r + 1))
      BY <1>5, <2>2
    <3> QED
      BY <1>8, <3>2, <3>3
  <2>7. bi' = v * r
    <3>1. \A i \in (r + 2)..(r + 2 + r - 1) : p[i] = v
      BY <1>5, <2>4
    <3>2. r + 2 + r - 1 = 2 * r + 1 /\ r + 2 \in Int /\ v \in Int
      BY <1>5, <2>2
    <3>3. Sum(SubSeq(p, r + 2, r + 2 + r - 1)) = v * r
      BY <1>5, <3>1, <3>2, SumOfPart, Zenon
    <3> QED
      BY <1>3, <3>2, <3>3
  <2>8. bo' = v * (r + 1)
    <3>1. \A i \in 1..(1 + (r + 1) - 1) : p[i] = v
      BY <1>5, <2>4
    <3>2. 1 + (r + 1) - 1 = r + 1 /\ r + 1 \in Nat /\ v \in Int /\ 1 \in Int
      BY <1>5, <2>2
    <3>3. Sum(SubSeq(p, 1, 1 + (r + 1) - 1)) = v * (r + 1)
      BY <3>1, <3>2, SumOfPart, Zenon
    <3> QED
      BY <1>3, <3>2, <3>3
  <2> QED
    BY <2>1, <2>5, <2>6, <2>7, <2>8
<1> QED
  BY <1>10, <1>11 DEF Sums

\* A list that is appended to
LEMMA Appended ==
    ASSUME NEW n \in Nat, NEW f, f = [k \in 1..n |-> f[k]], NEW e, NEW g, g = Append(f, e)
    PROVE  /\ g = [k \in 1..(n + 1) |-> g[k]]
           /\ g[n + 1] = e
           /\ \A k \in 1..n : g[k] = f[k]
<1> DEFINE S == {f[k] : k \in 1..n} \cup {e}
<1>1. f \in [1..n -> S]
  <2>1. \A k \in 1..n : f[k] \in S
    OBVIOUS
  <2> HIDE DEF S
  <2> QED
    BY <2>1
<1>2. e \in S
  OBVIOUS
<1> HIDE DEF S
<1>3. f \in Seq(S) /\ Len(f) = n
  <2>1. Len(f) = n
    BY LenOfList
  <2> QED
    BY <1>1, <2>1, SeqDef
<1>4. /\ g \in Seq(S) /\ Len(g) = n + 1 /\ g[n + 1] = e
      /\ \A k \in 1..n : g[k] = f[k]
  BY <1>2, <1>3, AppendProperties
<1>5. g \in [1..(n + 1) -> S]
  BY <1>4, LenProperties
<1>6. g = [k \in 1..(n + 1) |-> g[k]]
  BY <1>5
<1> QED
  BY <1>4, <1>6

\* Once the value is one of the source's, the line of one shade stays what it is.
LEMMA SlideFlat ==
    ASSUME IInv, Sums, Slide, radius \in 1..254, x \in Nat, source' = source, radius' = radius
    PROVE  FlatSums'
<1> SUFFICES ASSUME \A i \in DOMAIN source : source[i] = source[1]
             PROVE  /\ row' = source
                    /\ bs' = source[1] * weight'
                    /\ bi' = source[1] * radius /\ bo' = source[1] * (radius + 1)
  BY DEF FlatSums
<1>1. PICK v : v = source[1]
  OBVIOUS
<1>2. PICK blurred : blurred = [row EXCEPT ![x + 1] = Scaled(bs) % 256]
  OBVIOUS
<1>3. PICK out : out = stack[(x % div) + 1]
  OBVIOUS
<1>4. PICK r \in 1..254 : r = radius
  OBVIOUS
<1>5. /\ pc = "sliding" /\ x < Width /\ row' = blurred
      /\ bs' = bs - bo + (bi + At(blurred, x + radius + 1))
      /\ bi' = bi /\ bo' = bo - out + At(blurred, x + 1 - radius)
  BY <1>2, <1>3 DEF Slide, Incoming
<1>6. /\ source \in Rows /\ row = [j \in DOMAIN source |-> row[j]]
      /\ StackIsWindow
  BY <1>5 DEF IInv
<1>7. Width \in Nat /\ Width >= 1 /\ DOMAIN source = 1..Width
  BY <1>6, LineShape DEF Width
<1>8. v \in 0..255
  <2>1. source \in Seq(0..255) /\ source # <<>>
    BY <1>6, BlurAssumption
  <2>2. source \in [1..Len(source) -> 0..255]
    BY <2>1, LenProperties
  <2>3. 1 \in DOMAIN source
    BY <1>7
  <2>4. source[1] \in 0..255
    BY <2>2, <2>3, Zenon
  <2> QED
    BY <1>1, <2>4
<1>9. row = source /\ bs = v * weight /\ bi = v * radius /\ bo = v * (radius + 1)
  BY <1>1, <1>5 DEF Sums, FlatSums
<1>10. \A j \in 1..Width : source[j] \in {v}
  BY <1>1, <1>7
<1>11. blurred = source
  <2>1. Scaled(bs) = v
    BY <1>8, <1>9, MultiplesDivide
  <2>2. v % 256 = v
    BY <1>8
  <2>3. blurred = [source EXCEPT ![x + 1] = v]
    BY <1>2, <1>9, <2>1, <2>2
  <2>4. x + 1 \in 1..Width
    BY <1>5, <1>7
  <2>5. source[x + 1] = v
    BY <1>10, <2>4
  <2> QED
    BY <1>6, <1>9, <2>3, <2>5
<1>12. out = v
  <2>1. \A k \in 0..(div - 1) : stack[((x + k) % div) + 1] = At(source, x - radius + k)
    BY <1>5, <1>6 DEF StackIsWindow
  <2>2. 0 \in 0..(div - 1) /\ x + 0 = x /\ x - radius + 0 \in Int
    BY <1>4 DEF div
  <2>3. stack[((x + 0) % div) + 1] = At(source, x - radius + 0)
    BY <2>1, <2>2
  <2>4. At(source, x - radius + 0) \in {v}
    BY <1>7, <1>10, <2>2, PixelAt, Zenon
  <2> QED
    BY <1>3, <2>2, <2>3, <2>4
<1>13. At(blurred, x + radius + 1) = v
  <2>1. x + radius + 1 \in Int
    BY <1>4
  <2>2. At(source, x + radius + 1) \in {v}
    BY <1>7, <1>10, <2>1, PixelAt, Zenon
  <2> QED
    BY <1>11, <2>2
<1>14. At(blurred, x + 1 - radius) = v
  <2>1. x + 1 - radius \in Int
    BY <1>4
  <2>2. At(source, x + 1 - radius) \in {v}
    BY <1>7, <1>10, <2>1, PixelAt, Zenon
  <2> QED
    BY <1>11, <2>2
<1>15. PICK w \in Nat : w = weight
  BY <1>4 DEF weight
<1>16. PICK b \in Int : b = v * w
  BY <1>8
<1>17. weight' = w
  BY <1>15 DEF weight
<1>18. bs' = b - v * (r + 1) + (v * r + v) /\ bo' = v * (r + 1) - v + v /\ bi' = v * r
  BY <1>4, <1>5, <1>9, <1>12, <1>13, <1>14, <1>15, <1>16
<1>19. v * (r + 1) = v * r + v /\ v * r \in Int
  BY <1>8
<1>20. PICK c \in Int : c = v * r
  BY <1>19
<1>21. b - (c + v) + (c + v) = b /\ (c + v) - v + v = c + v
  BY <1>8
<1>22. bs' = b /\ bo' = c + v
  BY <1>18, <1>19, <1>20, <1>21
<1> QED
  BY <1>1, <1>4, <1>5, <1>11, <1>16, <1>17, <1>18, <1>19, <1>20, <1>22

\* The first pixel is written from the sum of its window, and never again.
LEMMA SlideSums == ASSUME IInv, Sums, Slide PROVE Sums'
<1>1. /\ pc = "sliding" /\ x < Width /\ pc' = "sliding" /\ x' = x + 1
      /\ written' = Append(written, Scaled(bs))
      /\ UNCHANGED <<radius, source>>
  BY DEF Slide
<1>2. /\ source \in Rows /\ row = [j \in DOMAIN source |-> row[j]] /\ x \in 0..Width
  BY <1>1 DEF IInv
<1>3. Width \in Nat /\ Width = Len(source)
  BY <1>2, LineShape DEF Width
<1>4. x \in Nat
  BY <1>2, <1>3
<1>5. Width' = Width
  <2>1. IInv'
    BY SlidePreserves
  <2>2. source' \in Rows /\ row' = [j \in DOMAIN source' |-> row'[j]]
    BY <2>1 DEF IInv
  <2>3. Len(row') = Len(source')
    BY <2>2, LineShape
  <2> QED
    BY <1>1, <1>3, <2>3 DEF Width
<1>6. /\ written = [k \in 1..x |-> written[k]] /\ radius \in 1..254
      /\ x = 0 => bs = exact
      /\ FirstPixelIsMean
  BY <1>1 DEF Sums, FirstSum
<1>7. /\ written' = [k \in 1..x' |-> written'[k]]
      /\ written'[x + 1] = Scaled(bs)
      /\ \A k \in 1..x : written'[k] = written[k]
  <2> PICK g : g = written'
    OBVIOUS
  <2> PICK e : e = Scaled(bs)
    OBVIOUS
  <2>1. g = Append(written, e)
    BY <1>1
  <2>2. g = [k \in 1..(x + 1) |-> g[k]] /\ g[x + 1] = e /\ \A k \in 1..x : g[k] = written[k]
    BY <1>4, <1>6, <2>1, Appended
  <2> QED
    BY <1>1, <2>2
<1>8. exact' = exact /\ weight' = weight
  <2>1. \A i : At(source, i)' = At(source, i)
    BY <1>1, <1>5 DEF At, Clamp
  <2>2. div' = div
    BY <1>1 DEF div
  <2>3. radius' = radius
    BY <1>1
  <2> QED
    BY <2>1, <2>2, <2>3 DEF exact, weight
<1>9. FirstPixelIsMean'
  <2>1. CASE x = 0
    <3>1. exact \in Nat /\ exact <= 255 * weight
      BY <1>1, <1>6, ExactRange
    <3>2. PICK e \in Nat : e = exact
      BY <3>1
    <3>3. Scaled(e) * weight \in (e - weight)..(e + weight)
      BY <1>6, <3>1, <3>2, SumsDivide
    <3>4. written'[1] = Scaled(e)
      BY <1>6, <1>7, <2>1, <3>2
    <3> QED
      BY <1>8, <3>2, <3>3, <3>4 DEF FirstPixelIsMean
  <2>2. CASE x # 0
    <3>1. x > 0 /\ 1 \in 1..x
      BY <1>4, <2>2
    <3>2. written[1] * weight \in (exact - weight)..(exact + weight)
      BY <1>1, <1>6, <3>1 DEF FirstPixelIsMean
    <3>3. written'[1] = written[1]
      BY <1>7, <3>1
    <3> QED
      BY <1>8, <3>2, <3>3 DEF FirstPixelIsMean
  <2> QED
    BY <2>1, <2>2
<1>10. FirstSum'
  <2>1. x' # 0 /\ radius' \in 1..254
    BY <1>1, <1>4, <1>6
  <2> QED
    BY <1>7, <1>9, <2>1 DEF FirstSum
<1>11. FlatSums'
  BY <1>1, <1>4, <1>6, SlideFlat
<1> QED
  BY <1>10, <1>11 DEF Sums

\* Every other step leaves the sums alone.
LEMMA NextSums == IInv /\ Sums /\ [Next]_vars => Sums'
<1> SUFFICES ASSUME IInv, Sums, [Next]_vars PROVE Sums'
  OBVIOUS
<1>1. CASE Fill
  BY <1>1, FillSums
<1>2. CASE Slide
  BY <1>2, SlideSums
<1>3. CASE Return \/ Finish
  <2>1. pc' = "done" /\ UNCHANGED <<source, row, x, written>>
    BY <1>3 DEF Return, Finish
  <2>2. FlatSums'
    BY <2>1 DEF Sums, FlatSums
  <2>3. FirstSum'
    BY <2>1 DEF Sums, FirstSum
  <2> QED
    BY <2>2, <2>3 DEF Sums
<1>4. CASE UNCHANGED vars
  <2>1. /\ UNCHANGED <<pc, radius, source, row, bs, bi, bo, x, written>>
        /\ UNCHANGED <<Width, div, weight>>
    BY <1>4 DEF vars, Width, div, weight
  <2>2. \A i : At(source, i)' = At(source, i)
    BY <2>1 DEF At, Clamp
  <2>3. exact' = exact
    BY <2>1, <2>2 DEF exact
  <2>4. FirstPixelIsMean => FirstPixelIsMean'
    BY <2>1, <2>3 DEF FirstPixelIsMean
  <2>5. FirstSum'
    BY <2>1, <2>3, <2>4 DEF Sums, FirstSum
  <2>6. FlatSums'
    BY <2>1 DEF Sums, FlatSums
  <2> QED
    BY <2>5, <2>6 DEF Sums
<1> QED
  BY <1>1, <1>2, <1>3, <1>4 DEF Next, Done

\* What the three sums of a line of one shade are, and the first sum of any line.
THEOREM SumsInvariance == Spec => []Sums
<1>1. Init => Sums
  BY InitSums
<1>2. IInv /\ Sums /\ [Next]_vars => Sums'
  BY NextSums
<1> QED
  BY <1>1, <1>2, Invariance, PTL DEF Spec

\* A line of one shade comes out as it went in, whatever the radius and the shade:
\* both tables divide, and what leaves a sum came into it (blur.cpp:9-46, 48-62).
THEOREM FlatStays == Spec => []FlatStaysFlat
<1>1. IInv /\ Sums => FlatStaysFlat
  <2> SUFFICES ASSUME IInv, Sums, \A i \in DOMAIN row : source[i] = source[1]
               PROVE  row = source
    BY DEF FlatStaysFlat
  <2>1. DOMAIN row = DOMAIN source
    BY DEF IInv
  <2> QED
    BY <2>1 DEF Sums, FlatSums
<1> QED
  BY <1>1, Invariance, SumsInvariance, PTL

\* The first pixel is within 1 of the mean of its window, each pixel weighted by
\* how near it is: the tables stand for a division by (radius + 1) squared.
THEOREM FirstIsMean == Spec => []FirstPixelIsMean
<1>1. Sums => FirstPixelIsMean
  BY DEF Sums, FirstSum, FirstPixelIsMean
<1> QED
  BY <1>1, SumsInvariance, PTL
=============================================================================
