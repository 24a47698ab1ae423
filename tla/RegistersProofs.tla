--------------------------- MODULE RegistersProofs ---------------------------
(***************************************************************************)
(* The function handlers on the register map, for every width of a byte,   *)
(* every number of registers and coils, and every set of requests: what    *)
(* writes change, what reads answer, and that coils are packed and         *)
(* unpacked bit by bit as Modbus has it.                                   *)
(***************************************************************************)
EXTENDS ModbusRegisters, TLAPS, WellFoundedInduction, NaturalsInduction

(* Every set of naturals that is not empty has a least element. *)
LEMMA LeastNat ==
  ASSUME NEW S \in SUBSET Nat, S # {}
  PROVE  \E x \in S : \A y \in S : x <= y
<1> DEFINE Less == {ss \in Nat \X Nat : ss[1] < ss[2]}
<1>1. IsWellFoundedOn(Less, Nat)
  BY NatLessThanWellFounded DEF OpToRel
<1>2. \E x \in S : \A y \in S : ~(<<y, x>> \in Less)
  <2> HIDE DEF Less
  <2> QED
    BY <1>1, WFMin, Zenon
<1>3. PICK x \in S : \A y \in S : ~(<<y, x>> \in Less)
  BY <1>2
<1>4. ASSUME NEW y \in S PROVE x <= y
  <2>1. ~(<<y, x>> \in Less)
    BY <1>3
  <2>2. <<y, x>>[1] = y /\ <<y, x>>[2] = x /\ <<y, x>> \in Nat \X Nat
    OBVIOUS
  <2> QED
    BY <2>1, <2>2
<1> QED
  BY <1>4

-----------------------------------------------------------------------------
(* Recursive functions over 0..N exist: a step from each value to the next *)
(* is enough, and the smallest N without one would be one step away.       *)

Iterates(f, first, step, N) ==
  /\ f[0] = first
  /\ \A i \in 1..N : f[i] = step[i][f[i - 1]]

LEMMA IterationExists ==
  ASSUME NEW S, NEW first \in S, NEW N \in Nat, NEW step \in [1..N -> [S -> S]]
  PROVE  \E f \in [0..N -> S] : Iterates(f, first, step, N)
<1> DEFINE Bad == {k \in Nat : k <= N /\ ~ \E f \in [0..k -> S] : Iterates(f, first, step, k)}
<1>1. SUFFICES ASSUME Bad # {} PROVE FALSE
  OBVIOUS
<1>2. PICK k \in Bad : \A y \in Bad : k <= y
  BY <1>1, LeastNat
<1>3. k # 0
  <2> DEFINE f == [i \in 0..0 |-> first]
  <2>1. f \in [0..0 -> S] /\ f[0] = first /\ 1..0 = {}
    OBVIOUS
  <2>2. Iterates(f, first, step, 0)
    BY <2>1 DEF Iterates
  <2> QED
    BY <2>1, <2>2
<1>4. k - 1 \in Nat /\ k \in 1..N /\ k - 1 \notin Bad
  BY <1>2, <1>3
<1>5. PICK f \in [0..(k - 1) -> S] : Iterates(f, first, step, k - 1)
  BY <1>4
<1> DEFINE g == [i \in 0..k |-> IF i = k THEN step[k][f[k - 1]] ELSE f[i]]
<1>6. step[k][f[k - 1]] \in S
  BY <1>4
<1>7. g \in [0..k -> S]
  BY <1>4, <1>6
<1>8. \A i \in 0..(k - 1) : g[i] = f[i]
  BY <1>4
<1>9. g[k] = step[k][f[k - 1]]
  BY <1>4
<1>10. Iterates(g, first, step, k)
  <2> HIDE DEF g
  <2>1. g[0] = first
    BY <1>4, <1>5, <1>8 DEF Iterates
  <2>2. ASSUME NEW i \in 1..k PROVE g[i] = step[i][g[i - 1]]
    <3>1. i - 1 \in 0..(k - 1) /\ g[i - 1] = f[i - 1]
      BY <1>4, <1>8
    <3>2. CASE i = k
      BY <1>9, <3>1, <3>2
    <3>3. CASE i # k
      BY <1>4, <1>5, <1>8, <3>1, <3>3 DEF Iterates
    <3> QED
      BY <3>2, <3>3
  <2> QED
    BY <2>1, <2>2 DEF Iterates
<1> QED
  <2> HIDE DEF g
  <2> QED
    BY <1>2, <1>7, <1>10

-----------------------------------------------------------------------------
(* Powers of two *)

LEMMA Pow2Steps ==
  /\ Pow2[0] = 1
  /\ \A n \in 1..(2 * BITS_UCHAR) : Pow2[n] = 2 * Pow2[n - 1]
<1> DEFINE N    == 2 * BITS_UCHAR
           step == [i \in 1..N |-> [v \in Nat |-> 2 * v]]
<1>1. N \in Nat
  BY WidthAssumption
<1>2. step \in [1..N -> [Nat -> Nat]]
  OBVIOUS
<1>3. PICK f \in [0..N -> Nat] : Iterates(f, 1, step, N)
  <2> HIDE DEF step, N
  <2> QED
    BY <1>1, <1>2, IterationExists
<1>4. ASSUME NEW i \in 0..N PROVE f[i] = IF i = 0 THEN 1 ELSE 2 * f[i - 1]
  <2>1. CASE i = 0
    BY <1>3, <2>1 DEF Iterates
  <2>2. CASE i # 0
    <3>1. i \in 1..N /\ f[i - 1] \in Nat
      BY <1>1, <2>2
    <3>2. step[i][f[i - 1]] = 2 * f[i - 1]
      BY <3>1
    <3> QED
      BY <1>3, <2>2, <3>1, <3>2 DEF Iterates
  <2> QED
    BY <2>1, <2>2
<1>5. f = [i \in 0..N |-> IF i = 0 THEN 1 ELSE 2 * f[i - 1]]
  BY <1>4
<1>6. Pow2 = [n \in 0..N |-> IF n = 0 THEN 1 ELSE 2 * Pow2[n - 1]]
  BY <1>5, Zenon DEF Pow2
<1>7. \A n \in 0..N : Pow2[n] = IF n = 0 THEN 1 ELSE 2 * Pow2[n - 1]
  BY <1>6
<1> QED
  BY <1>1, <1>7

LEMMA Pow2Positive ==
  \A n \in 0..(2 * BITS_UCHAR) : Pow2[n] \in Nat \ {0}
<1> DEFINE Bad == {k \in Nat : k <= 2 * BITS_UCHAR /\ Pow2[k] \notin Nat \ {0}}
<1>1. SUFFICES ASSUME Bad # {} PROVE FALSE
  BY WidthAssumption
<1>2. PICK k \in Bad : \A y \in Bad : k <= y
  BY <1>1, LeastNat
<1>3. k # 0
  BY <1>2, Pow2Steps
<1>4. k - 1 \in Nat /\ k \in 1..(2 * BITS_UCHAR) /\ k - 1 \notin Bad
  BY <1>2, <1>3, WidthAssumption
<1>5. Pow2[k - 1] \in Nat \ {0}
  BY <1>2, <1>4, WidthAssumption
<1> QED
  BY <1>2, <1>4, <1>5, Pow2Steps

(* The powers of two from any one on are multiples of it. *)
Multiple(p, q) == \E m \in Nat \ {0} : p = m * q
LEMMA Pow2Multiples ==
  ASSUME NEW j \in 0..(2 * BITS_UCHAR), NEW n \in 0..(2 * BITS_UCHAR), j <= n
  PROVE  Multiple(Pow2[n], Pow2[j])
<1> DEFINE Bad == {k \in Nat : j <= k /\ k <= 2 * BITS_UCHAR /\ ~Multiple(Pow2[k], Pow2[j])}
<1>1. SUFFICES ASSUME Bad # {} PROVE FALSE
  BY WidthAssumption
<1>2. PICK k \in Bad : \A y \in Bad : k <= y
  BY <1>1, LeastNat
<1>3. Pow2[j] \in Nat \ {0} /\ BITS_UCHAR \in Nat
  BY Pow2Positive, WidthAssumption
<1>4. CASE k = j
  <2>1. Pow2[k] = 1 * Pow2[j]
    BY <1>3, <1>4
  <2> QED
    BY <1>2, <2>1 DEF Multiple
<1>5. CASE k # j
  <2>1. k - 1 \in Nat /\ j <= k - 1 /\ k \in 1..(2 * BITS_UCHAR) /\ k - 1 \notin Bad
    BY <1>2, <1>3, <1>5
  <2>2. Multiple(Pow2[k - 1], Pow2[j])
    BY <2>1, <1>3
  <2>3. PICK m \in Nat \ {0} : Pow2[k - 1] = m * Pow2[j]
    BY <2>2 DEF Multiple
  <2>4. Pow2[k] = 2 * (m * Pow2[j])
    BY <2>1, <2>3, Pow2Steps
  <2>5. \A p \in Nat : 2 * (m * p) = (2 * m) * p
    OBVIOUS
  <2>6. Pow2[k] = (2 * m) * Pow2[j] /\ 2 * m \in Nat \ {0}
    BY <1>3, <2>4, <2>5
  <2> QED
    BY <1>2, <2>6 DEF Multiple
<1> QED
  BY <1>4, <1>5

LEMMA Widths ==
  /\ UCHAR_MOD \in Nat /\ UCHAR_MOD > 1
  /\ USHORT_MOD \in Nat /\ USHORT_MOD > UCHAR_MOD
<1>1. BITS_UCHAR \in 1..(2 * BITS_UCHAR) /\ BITS_UCHAR - 1 \in 0..(2 * BITS_UCHAR)
  BY WidthAssumption
<1>2. UCHAR_MOD = 2 * Pow2[BITS_UCHAR - 1]
  BY <1>1, Pow2Steps DEF UCHAR_MOD
<1>3. UCHAR_MOD \in Nat /\ UCHAR_MOD > 1
  BY <1>1, <1>2, Pow2Positive
<1> QED
  BY <1>3 DEF USHORT_MOD

-----------------------------------------------------------------------------
(* Division by a power of two *)

LEMMA DivOfMultiple ==
  ASSUME NEW x \in Nat, NEW p \in Nat \ {0}, NEW m \in Nat
  PROVE  (x + m * p) \div p = (x \div p) + m
<1> DEFINE d == x \div p
           r == x % p
<1>1. d \in Nat /\ r \in 0..(p - 1) /\ x = (p * d) + r
  OBVIOUS
<1>2. x + m * p = ((d + m) * p) + r
  <2> HIDE DEF d, r
  <2> QED
    BY <1>1
<1>3. \A q \in Nat : ((q * p) + r) \div p = q
  <2> HIDE DEF d, r
  <2> QED
    BY <1>1
<1>4. d + m \in Nat
  BY <1>1
<1> QED
  <2> HIDE DEF d, r
  <2>1. (x + m * p) \div p = d + m
    BY <1>2, <1>3, <1>4
  <2> QED
    BY <2>1 DEF d

LEMMA DivOfLess ==
  ASSUME NEW p \in Nat \ {0}, NEW x \in 0..(p - 1)
  PROVE  x \div p = 0
OBVIOUS

(* A value below 2^n has no bit set from n on. *)
LEMMA NoHighBits ==
  ASSUME NEW n \in 0..(2 * BITS_UCHAR), NEW v \in 0..(Pow2[n] - 1),
         NEW j \in 0..(2 * BITS_UCHAR), n <= j
  PROVE  ~Set(v, j)
<1>1. PICK m \in Nat \ {0} : Pow2[j] = m * Pow2[n]
  BY Pow2Multiples DEF Multiple
<1>2. Pow2[n] \in Nat \ {0} /\ Pow2[j] \in Nat \ {0}
  BY Pow2Positive
<1>3. \A q \in Nat \ {0} : q <= m * q
  OBVIOUS
<1>4. Pow2[n] <= Pow2[j]
  BY <1>1, <1>2, <1>3
<1>5. v \div Pow2[j] = 0
  BY <1>2, <1>4, DivOfLess
<1> QED
  BY <1>5 DEF Set

(* Adding 2^n to a value sets bit n and leaves the bits below it. *)
LEMMA LowBitsKept ==
  ASSUME NEW n \in 0..(2 * BITS_UCHAR), NEW v \in Nat, NEW j \in 0..(n - 1)
  PROVE  Set(v + Pow2[n], j) <=> Set(v, j)
<1>1. /\ BITS_UCHAR \in Nat /\ n \in 1..(2 * BITS_UCHAR) /\ n - 1 \in 0..(2 * BITS_UCHAR)
      /\ j \in 0..(2 * BITS_UCHAR) /\ j <= n - 1
  BY WidthAssumption
<1>2. PICK m \in Nat \ {0} : Pow2[n - 1] = m * Pow2[j]
  BY <1>1, Pow2Multiples DEF Multiple
<1> DEFINE p == Pow2[j]
<1>3. p \in Nat \ {0}
  BY <1>1, Pow2Positive
<1>4. Pow2[n] = 2 * (m * p)
  BY <1>1, <1>2, Pow2Steps
<1> HIDE DEF p
<1>5. \A q \in Nat : 2 * (m * q) = (2 * m) * q
  OBVIOUS
<1>6. Pow2[n] = (2 * m) * p
  BY <1>3, <1>4, <1>5
<1>7. (v + Pow2[n]) \div p = (v \div p) + 2 * m
  <2> DEFINE k == 2 * m
  <2>1. k \in Nat
    OBVIOUS
  <2> HIDE DEF k
  <2>2. (v + k * p) \div p = (v \div p) + k
    BY <1>3, <2>1, DivOfMultiple
  <2>3. Pow2[n] = k * p
    BY <1>6 DEF k
  <2> QED
    BY <2>2, <2>3 DEF k
<1>8. v \div p \in Nat
  BY <1>3
<1>9. \A d \in Nat : (d + 2 * m) % 2 = d % 2
  OBVIOUS
<1>10. ((v + Pow2[n]) \div p) % 2 = (v \div p) % 2
  BY <1>7, <1>8, <1>9
<1> QED
  BY <1>10 DEF Set, p

LEMMA TopBitSet ==
  ASSUME NEW n \in 0..(2 * BITS_UCHAR), NEW v \in 0..(Pow2[n] - 1)
  PROVE  Set(v + Pow2[n], n)
<1> DEFINE p == Pow2[n]
<1>1. p \in Nat \ {0}
  BY Pow2Positive
<1>2. v \in 0..(p - 1)
  OBVIOUS
<1> HIDE DEF p
<1>3. (v + 1 * p) \div p = 0 + 1
  <2>1. v \div p = 0
    BY <1>1, <1>2, DivOfLess
  <2>2. v \in Nat /\ 1 \in Nat
    BY <1>1, <1>2
  <2>3. \A m \in Nat : (v + m * p) \div p = (v \div p) + m
    BY <1>1, <2>2, DivOfMultiple
  <2> QED
    BY <2>1, <2>2, <2>3
<1>4. (v + p) \div p = 1
  BY <1>1, <1>2, <1>3
<1> QED
  BY <1>4 DEF Set, p

-----------------------------------------------------------------------------
(* xMBUtilGetBits: the number it returns has exactly the bits of the field *)

Adds(low, on, n) ==
  /\ low[0] = 0
  /\ \A i \in 1..n : low[i] = low[i - 1] + (IF i - 1 \in on THEN Pow2[i - 1] ELSE 0)

(* v is the number whose bits are those in on. *)
Encodes(v, on, n) ==
  /\ v \in 0..(Pow2[n] - 1)
  /\ \A j \in 0..(n - 1) : Set(v, j) <=> j \in on

LEMMA AddingEncodes ==
  ASSUME NEW on, NEW n \in 0..(2 * BITS_UCHAR - 1), NEW v, Encodes(v, on, n)
  PROVE  Encodes(v + (IF n \in on THEN Pow2[n] ELSE 0), on, n + 1)
<1>1. /\ BITS_UCHAR \in Nat /\ n \in 0..(2 * BITS_UCHAR) /\ n + 1 \in 1..(2 * BITS_UCHAR)
      /\ Pow2[n + 1] = 2 * Pow2[n] /\ Pow2[n] \in Nat \ {0} /\ v \in 0..(Pow2[n] - 1)
  <2>1. BITS_UCHAR \in Nat /\ n \in 0..(2 * BITS_UCHAR) /\ n + 1 \in 1..(2 * BITS_UCHAR)
    BY WidthAssumption
  <2>2. Pow2[n + 1] = 2 * Pow2[(n + 1) - 1] /\ (n + 1) - 1 = n
    BY <2>1, Pow2Steps
  <2> QED
    BY <2>1, <2>2, Pow2Positive DEF Encodes
<1>2. CASE n \in on
  <2>1. v + Pow2[n] \in 0..(Pow2[n + 1] - 1)
    BY <1>1
  <2>2. ASSUME NEW j \in 0..n PROVE Set(v + Pow2[n], j) <=> j \in on
    <3>1. CASE j = n
      BY <1>1, <1>2, <3>1, TopBitSet
    <3>2. CASE j # n
      <4>1. j \in 0..(n - 1) /\ v \in Nat
        BY <1>1, <3>2
      <4>2. Set(v + Pow2[n], j) <=> Set(v, j)
        BY <1>1, <4>1, LowBitsKept
      <4>3. Set(v, j) <=> j \in on
        BY <4>1 DEF Encodes
      <4> QED
        BY <4>2, <4>3
    <3> QED
      BY <3>1, <3>2
  <2>3. (n + 1) - 1 = n
    BY <1>1
  <2> QED
    BY <1>2, <2>1, <2>2, <2>3 DEF Encodes
<1>3. CASE n \notin on
  <2>1. v + 0 = v /\ v \in 0..(Pow2[n + 1] - 1)
    BY <1>1
  <2>2. ~Set(v, n)
    BY <1>1, NoHighBits
  <2>3. ASSUME NEW j \in 0..((n + 1) - 1) PROVE Set(v, j) <=> j \in on
    <3>1. CASE j = n
      BY <1>3, <2>2, <3>1
    <3>2. CASE j # n
      <4>1. j \in 0..(n - 1)
        BY <1>1, <3>2
      <4> QED
        BY <4>1 DEF Encodes
    <3> QED
      BY <3>1, <3>2
  <2> QED
    BY <1>3, <2>1, <2>3 DEF Encodes
<1> QED
  BY <1>2, <1>3

LEMMA SumEncodes ==
  ASSUME NEW on, NEW n \in 0..(2 * BITS_UCHAR), NEW low, Adds(low, on, n)
  PROVE  Encodes(low[n], on, n)
<1> DEFINE Bad == {k \in Nat : k <= n /\ ~Encodes(low[k], on, k)}
<1>1. SUFFICES ASSUME Bad # {} PROVE FALSE
  OBVIOUS
<1>2. PICK k \in Bad : \A y \in Bad : k <= y
  BY <1>1, LeastNat
<1>3. k # 0
  <2>1. low[0] = 0 /\ Pow2[0] = 1 /\ 0..(0 - 1) = {} /\ 0 \in 0..(1 - 1)
    BY Pow2Steps DEF Adds
  <2>2. Encodes(low[0], on, 0)
    BY <2>1 DEF Encodes
  <2> QED
    BY <1>2, <2>2
<1>4. k \in 1..n /\ k - 1 \in 0..(2 * BITS_UCHAR - 1) /\ k - 1 \notin Bad /\ k - 1 \in Nat
  BY <1>2, <1>3, WidthAssumption
<1>5. Encodes(low[k - 1], on, k - 1)
  BY <1>4
<1>6. low[k] = low[k - 1] + (IF k - 1 \in on THEN Pow2[k - 1] ELSE 0)
  BY <1>4 DEF Adds
<1>7. Encodes(low[k], on, (k - 1) + 1)
  BY <1>4, <1>5, <1>6, AddingEncodes
<1> QED
  BY <1>2, <1>7

LEMMA NumberAdds ==
  ASSUME NEW buf, NEW off \in Nat, NEW n \in 0..(2 * BITS_UCHAR)
  PROVE  \E low : Number(buf, off, n) = low[n] /\ Adds(low, {i \in 0..(n - 1) : buf[off + i]}, n)
<1> DEFINE add(i) == IF buf[off + i - 1] THEN Pow2[i - 1] ELSE 0
           step   == [i \in 1..n |-> [v \in Nat |-> v + add(i)]]
           low    == CHOOSE low : low = [i \in 0..n |-> IF i = 0 THEN 0 ELSE low[i - 1] + add(i)]
<1>1. n \in Nat /\ n <= 2 * BITS_UCHAR /\ BITS_UCHAR \in Nat
  BY WidthAssumption
<1>2. \A i \in 1..n : add(i) \in Nat
  <2>1. \A i \in 1..n : i - 1 \in 0..(2 * BITS_UCHAR)
    BY <1>1
  <2> QED
    BY <2>1, Pow2Positive
<1>3. step \in [1..n -> [Nat -> Nat]]
  <2> HIDE DEF add
  <2> QED
    BY <1>2
<1>4. PICK f \in [0..n -> Nat] : Iterates(f, 0, step, n)
  <2> HIDE DEF step
  <2> QED
    BY <1>1, <1>3, IterationExists
<1>5. ASSUME NEW i \in 0..n PROVE f[i] = IF i = 0 THEN 0 ELSE f[i - 1] + add(i)
  <2> HIDE DEF add
  <2>1. CASE i = 0
    BY <1>4, <2>1 DEF Iterates
  <2>2. CASE i # 0
    <3>1. i \in 1..n /\ f[i - 1] \in Nat
      BY <1>1, <2>2
    <3>2. step[i][f[i - 1]] = f[i - 1] + add(i)
      BY <3>1
    <3> QED
      BY <1>4, <2>2, <3>1, <3>2 DEF Iterates
  <2> QED
    BY <2>1, <2>2
<1>6. f = [i \in 0..n |-> IF i = 0 THEN 0 ELSE f[i - 1] + add(i)]
  <2> HIDE DEF add
  <2> QED
    BY <1>5
<1>7. low = [i \in 0..n |-> IF i = 0 THEN 0 ELSE low[i - 1] + add(i)]
  <2> HIDE DEF add
  <2> QED
    BY <1>6, Zenon
<1>8. \A i \in 0..n : low[i] = IF i = 0 THEN 0 ELSE low[i - 1] + add(i)
  <2> HIDE DEF low, add
  <2> QED
    BY <1>7
<1>9. Number(buf, off, n) = low[n]
  BY DEF Number
<1>10. Adds(low, {i \in 0..(n - 1) : buf[off + i]}, n)
  <2> DEFINE on == {i \in 0..(n - 1) : buf[off + i]}
  <2>1. ASSUME NEW i \in 1..n PROVE add(i) = IF i - 1 \in on THEN Pow2[i - 1] ELSE 0
    <3>1. i - 1 \in 0..(n - 1) /\ off + (i - 1) = off + i - 1
      BY <1>1
    <3>2. i - 1 \in on <=> buf[off + i - 1]
      BY <3>1
    <3> QED
      BY <3>2
  <2> HIDE DEF low, add, on
  <2>2. low[0] = 0
    BY <1>1, <1>8
  <2>3. \A i \in 1..n : low[i] = low[i - 1] + add(i)
    BY <1>1, <1>8
  <2>4. Adds(low, on, n)
    BY <2>1, <2>2, <2>3 DEF Adds
  <2> QED
    BY <2>4 DEF on
<1> QED
  <2> HIDE DEF low
  <2> QED
    BY <1>9, <1>10

(* What xMBUtilGetBits returns: the field, with nothing above it. *)
LEMMA FieldRead ==
  ASSUME NEW buf, NEW off \in Nat, NEW n \in 0..BITS_UCHAR
  PROVE  /\ xMBUtilGetBits(buf, off, n) \in UCHAR
         /\ \A j \in 0..(BITS_UCHAR - 1) :
              Set(xMBUtilGetBits(buf, off, n), j) <=> j < n /\ buf[off + j]
<1> DEFINE on == {i \in 0..(n - 1) : buf[off + i]}
           v  == xMBUtilGetBits(buf, off, n)
<1>1. /\ BITS_UCHAR \in Nat /\ n \in 0..(2 * BITS_UCHAR) /\ n <= BITS_UCHAR
      /\ BITS_UCHAR \in 0..(2 * BITS_UCHAR)
  BY WidthAssumption
<1>2. Encodes(v, on, n)
  <2>1. PICK low : Number(buf, off, n) = low[n] /\ Adds(low, {i \in 0..(n - 1) : buf[off + i]}, n)
    BY <1>1, NumberAdds
  <2> HIDE DEF on
  <2>2. Encodes(low[n], on, n)
    BY <1>1, <2>1, SumEncodes DEF on
  <2> QED
    BY <2>1, <2>2 DEF xMBUtilGetBits
<1>3. v \in 0..(Pow2[n] - 1)
  <2> HIDE DEF on, v
  <2> QED
    BY <1>2 DEF Encodes
<1>4. v \in UCHAR
  <2>1. PICK m \in Nat \ {0} : Pow2[BITS_UCHAR] = m * Pow2[n]
    BY <1>1, Pow2Multiples DEF Multiple
  <2>2. Pow2[n] \in Nat \ {0} /\ Pow2[BITS_UCHAR] \in Nat
    BY <1>1, Pow2Positive
  <2>3. \A q \in Nat \ {0} : q <= m * q
    OBVIOUS
  <2>4. Pow2[n] <= Pow2[BITS_UCHAR]
    BY <2>1, <2>2, <2>3
  <2> HIDE DEF v
  <2> QED
    BY <1>3, <2>2, <2>4 DEF UCHAR, UCHAR_MOD
<1>5. ASSUME NEW j \in 0..(BITS_UCHAR - 1) PROVE Set(v, j) <=> j < n /\ buf[off + j]
  <2>1. CASE j < n
    <3>1. j \in 0..(n - 1)
      BY <1>1, <2>1
    <3>2. Set(v, j) <=> j \in on
      <4> HIDE DEF v, on
      <4> QED
        BY <1>2, <3>1 DEF Encodes
    <3>3. j \in on <=> buf[off + j]
      BY <3>1
    <3> HIDE DEF v, on
    <3> QED
      BY <2>1, <3>2, <3>3
  <2>2. CASE ~(j < n)
    <3>1. j \in 0..(2 * BITS_UCHAR) /\ n <= j
      BY <1>1, <2>2
    <3>2. ~Set(v, j)
      <4> HIDE DEF v
      <4> QED
        BY <1>1, <1>3, <3>1, NoHighBits
    <3> HIDE DEF v
    <3> QED
      BY <2>2, <3>2
  <2> QED
    BY <2>1, <2>2
<1> QED
  BY <1>4, <1>5

LEMMA BytesNeeded ==
  ASSUME NEW n \in Nat
  PROVE  /\ NBytes(n) \in Nat
         /\ \A k \in 1..NBytes(n) : (k - 1) * BITS_UCHAR \in Nat /\ (k - 1) * BITS_UCHAR < n
         /\ n <= BITS_UCHAR /\ n > 0 => NBytes(n) = 1
<1> DEFINE d == n \div BITS_UCHAR
           r == n % BITS_UCHAR
<1>1. BITS_UCHAR \in Nat \ {0}
  BY WidthAssumption
<1>2. d \in Nat /\ r \in 0..(BITS_UCHAR - 1) /\ n = (d * BITS_UCHAR) + r
  BY <1>1
<1>3. NBytes(n) = d + (IF r # 0 THEN 1 ELSE 0)
  BY DEF NBytes
<1>4. NBytes(n) \in Nat
  <2> HIDE DEF d, r
  <2> QED
    BY <1>2, <1>3
<1>5. ASSUME NEW k \in 1..NBytes(n)
      PROVE  (k - 1) * BITS_UCHAR \in Nat /\ (k - 1) * BITS_UCHAR < n
  <2> HIDE DEF d, r
  <2>1. k - 1 \in Nat /\ k - 1 <= d
    BY <1>2, <1>3
  <2>2. CASE k - 1 = d
    <3>1. r # 0
      BY <1>2, <1>3, <2>2
    <3> QED
      BY <1>1, <1>2, <2>2, <3>1
  <2>3. CASE k - 1 < d
    <3>1. PICK h \in Nat : d = (k - 1) + 1 + h
      <4>1. d - (k - 1) - 1 \in Nat
        BY <1>2, <2>1, <2>3
      <4> QED
        BY <1>2, <2>1, <4>1
    <3>2. d * BITS_UCHAR = ((k - 1) * BITS_UCHAR) + BITS_UCHAR + (h * BITS_UCHAR)
      BY <1>1, <2>1, <3>1
    <3> QED
      BY <1>1, <1>2, <2>1, <3>2
  <2> QED
    BY <1>2, <2>1, <2>2, <2>3
<1>6. n <= BITS_UCHAR /\ n > 0 => NBytes(n) = 1
  <2>1. n = BITS_UCHAR => d = 1 /\ r = 0
    BY <1>1
  <2>2. n < BITS_UCHAR => d = 0 /\ r = n
    BY <1>1
  <2> HIDE DEF d, r
  <2> QED
    BY <1>1, <1>3, <2>1, <2>2
<1> QED
  BY <1>4, <1>5, <1>6

(* The bytes a read of coils answers with: bit i of them is coil i of the  *)
(* request, and the padding is zero.                                       *)
LEMMA CoilsPacked ==
  ASSUME NEW buf, NEW off \in Nat, NEW n \in Nat \ {0}
  PROVE  /\ PackedBits(buf, off, n) \in Seq(UCHAR)
         /\ Len(PackedBits(buf, off, n)) = NBytes(n)
         /\ \A i \in 0..(NBytes(n) * BITS_UCHAR - 1) :
              Set(PackedBits(buf, off, n)[i \div BITS_UCHAR + 1], i % BITS_UCHAR) <=>
                i < n /\ buf[off + i]
<1> DEFINE done(k)  == (k - 1) * BITS_UCHAR
           width(k) == IF n - done(k) > BITS_UCHAR THEN BITS_UCHAR ELSE n - done(k)
           P        == PackedBits(buf, off, n)
<1>1. BITS_UCHAR \in Nat \ {0} /\ NBytes(n) \in Nat
  BY WidthAssumption, BytesNeeded
<1>2. \A k \in 1..NBytes(n) : done(k) \in Nat /\ done(k) < n
  BY BytesNeeded
<1>3. P = [k \in 1..NBytes(n) |-> xMBUtilGetBits(buf, off + done(k), width(k))]
  BY DEF PackedBits
<1> HIDE DEF P, done
<1>4. ASSUME NEW k \in 1..NBytes(n)
      PROVE  /\ P[k] \in UCHAR
             /\ \A j \in 0..(BITS_UCHAR - 1) :
                  Set(P[k], j) <=> j < width(k) /\ buf[off + done(k) + j]
  <2>1. done(k) \in Nat /\ done(k) < n
    BY <1>2
  <2>2. off + done(k) \in Nat /\ width(k) \in 0..BITS_UCHAR
    BY <1>1, <2>1
  <2>3. P[k] = xMBUtilGetBits(buf, off + done(k), width(k))
    BY <1>3
  <2> HIDE DEF width
  <2> QED
    BY <2>2, <2>3, FieldRead
<1>5. P \in Seq(UCHAR) /\ Len(P) = NBytes(n)
  <2>1. P \in [1..NBytes(n) -> UCHAR]
    <3>1. DOMAIN P = 1..NBytes(n) /\ P = [k \in 1..NBytes(n) |-> P[k]]
      <4> HIDE DEF width
      <4> QED
        BY <1>3
    <3> QED
      BY <1>4, <3>1
  <2> QED
    BY <1>1, <2>1
<1>6. ASSUME NEW i \in 0..(NBytes(n) * BITS_UCHAR - 1)
      PROVE  Set(P[i \div BITS_UCHAR + 1], i % BITS_UCHAR) <=> i < n /\ buf[off + i]
  <2> DEFINE k == i \div BITS_UCHAR + 1
             j == i % BITS_UCHAR
  <2>1. /\ k \in Nat /\ k - 1 \in Nat /\ j \in 0..(BITS_UCHAR - 1)
        /\ i = done(k) + j /\ done(k) \in Nat
    <3>1. i = (BITS_UCHAR * (i \div BITS_UCHAR)) + (i % BITS_UCHAR) /\ i \in Nat
      BY <1>1
    <3>2. i \div BITS_UCHAR \in Nat /\ j \in 0..(BITS_UCHAR - 1)
      BY <1>1, <3>1
    <3> DEFINE d == i \div BITS_UCHAR
    <3>3. k \in Nat /\ k - 1 = d /\ d \in Nat
      BY <3>2
    <3>4. i = (BITS_UCHAR * d) + j
      BY <3>1
    <3> HIDE DEF d, k, j
    <3> QED
      BY <1>1, <3>2, <3>3, <3>4 DEF done
  <2> HIDE DEF k, j
  <2>2. k \in 1..NBytes(n)
    <3>1. \A x, y \in Nat : x >= y => x * BITS_UCHAR >= y * BITS_UCHAR
      BY <1>1
    <3>2. done(k) <= i /\ i < NBytes(n) * BITS_UCHAR
      BY <1>1, <2>1
    <3>3. k - 1 >= NBytes(n) => done(k) >= NBytes(n) * BITS_UCHAR
      BY <1>1, <2>1, <3>1 DEF done
    <3>4. NBytes(n) * BITS_UCHAR \in Int
      BY <1>1
    <3> QED
      BY <1>1, <2>1, <3>2, <3>3, <3>4
  <2>3. Set(P[k], j) <=> j < width(k) /\ buf[off + done(k) + j]
    BY <1>4, <2>1, <2>2
  <2>4. off + done(k) + j = off + i
    BY <2>1
  <2>5. j < width(k) <=> i < n
    BY <1>1, <2>1
  <2>6. Set(P[k], j) <=> i < n /\ buf[off + i]
    <3> HIDE DEF width
    <3> QED
      BY <2>3, <2>4, <2>5
  <2> QED
    BY <2>6 DEF k, j
<1> QED
  BY <1>5, <1>6 DEF P

-----------------------------------------------------------------------------
(* Registers: addresses and bytes *)

(* The handler adds one to the address in 16 bits and the callback takes   *)
(* it off again: no address is lost, 0xFFFF included.                      *)
LEMMA AddressKept ==
  ASSUME NEW a \in USHORT
  PROVE  Incr(a) \in USHORT /\ Incr(a) \in Nat /\ Decr(Incr(a)) = a /\ a \in Nat
<1>1. USHORT_MOD \in Nat /\ USHORT_MOD > 1 /\ a \in 0..(USHORT_MOD - 1)
  BY Widths DEF USHORT
<1>2. CASE a = USHORT_MOD - 1
  <2>1. (a + 1) % USHORT_MOD = 0 /\ (0 - 1) % USHORT_MOD = USHORT_MOD - 1
    BY <1>1, <1>2
  <2> QED
    BY <1>1, <1>2, <2>1 DEF Incr, Decr, USHORT
<1>3. CASE a # USHORT_MOD - 1
  <2>1. (a + 1) % USHORT_MOD = a + 1 /\ ((a + 1) - 1) % USHORT_MOD = a
    BY <1>1, <1>3
  <2> QED
    BY <1>1, <1>3, <2>1 DEF Incr, Decr, USHORT
<1> QED
  BY <1>2, <1>3

LEMMA WordTyped ==
  ASSUME NEW hi \in UCHAR, NEW lo \in UCHAR
  PROVE  hi * UCHAR_MOD + lo \in USHORT
<1>1. UCHAR_MOD \in Nat /\ hi \in Nat /\ lo \in Nat /\ hi <= UCHAR_MOD - 1 /\ lo <= UCHAR_MOD - 1
  BY Widths DEF UCHAR
<1>2. hi * UCHAR_MOD <= (UCHAR_MOD - 1) * UCHAR_MOD
  BY <1>1
<1>3. (UCHAR_MOD - 1) * UCHAR_MOD = USHORT_MOD - UCHAR_MOD
  BY <1>1 DEF USHORT_MOD
<1> QED
  BY <1>1, <1>2, <1>3, Widths DEF USHORT

LEMMA WordSplit ==
  ASSUME NEW w \in USHORT
  PROVE  /\ w \div UCHAR_MOD \in UCHAR /\ w % UCHAR_MOD \in UCHAR
         /\ (w \div UCHAR_MOD) * UCHAR_MOD + (w % UCHAR_MOD) = w
<1>1. UCHAR_MOD \in Nat \ {0} /\ w \in 0..(UCHAR_MOD * UCHAR_MOD - 1)
  BY Widths DEF USHORT, USHORT_MOD
<1>2. \A m \in Nat \ {0} : \A x \in 0..(m * m - 1) :
        x \div m \in 0..(m - 1) /\ x % m \in 0..(m - 1) /\ ((x \div m) * m) + (x % m) = x
  OBVIOUS
<1> QED
  BY <1>1, <1>2 DEF UCHAR

(* Registers on the wire, read back from the wire. *)
LEMMA WordsReadBack ==
  ASSUME NEW n \in Nat, NEW words \in [1..n -> USHORT]
  PROVE  /\ BytesOf(words, n) \in Seq(UCHAR)
         /\ Len(BytesOf(words, n)) = 2 * n
         /\ \A i \in 1..n : WordAt(BytesOf(words, n), i) = words[i]
<1> DEFINE B == BytesOf(words, n)
<1>1. B = [i \in 1..(2 * n) |-> IF i % 2 = 1 THEN words[(i + 1) \div 2] \div UCHAR_MOD
                                             ELSE words[i \div 2] % UCHAR_MOD]
  BY DEF BytesOf
<1> HIDE DEF B
<1>2. ASSUME NEW i \in 1..(2 * n) PROVE B[i] \in UCHAR
  <2>1. CASE i % 2 = 1
    <3>1. (i + 1) \div 2 \in 1..n
      BY <2>1
    <3> QED
      BY <1>1, <2>1, <3>1, WordSplit
  <2>2. CASE i % 2 # 1
    <3>1. i \div 2 \in 1..n
      BY <2>2
    <3> QED
      BY <1>1, <2>2, <3>1, WordSplit
  <2> QED
    BY <2>1, <2>2
<1>3. B \in [1..(2 * n) -> UCHAR]
  <2>1. B = [i \in 1..(2 * n) |-> B[i]]
    BY <1>1
  <2> QED
    BY <1>2, <2>1
<1>4. ASSUME NEW i \in 1..n PROVE WordAt(B, i) = words[i]
  <2>1. /\ 2 * i - 1 \in 1..(2 * n) /\ (2 * i - 1) % 2 = 1 /\ ((2 * i - 1) + 1) \div 2 = i
        /\ 2 * i \in 1..(2 * n) /\ (2 * i) % 2 = 0 /\ (2 * i) \div 2 = i
    OBVIOUS
  <2>2. B[2 * i - 1] = words[i] \div UCHAR_MOD
    BY <1>1, <2>1
  <2>3. B[2 * i] = words[i] % UCHAR_MOD
    BY <1>1, <2>1
  <2> QED
    BY <2>2, <2>3, WordSplit DEF WordAt
<1> QED
  BY <1>3, <1>4 DEF B

LEMMA WordsOfBytes ==
  ASSUME NEW data \in Seq(UCHAR), NEW i \in Nat \ {0}, 2 * i <= Len(data)
  PROVE  WordAt(data, i) \in USHORT
<1>1. 2 * i - 1 \in 1..Len(data) /\ 2 * i \in 1..Len(data)
  OBVIOUS
<1>2. data[2 * i - 1] \in UCHAR /\ data[2 * i] \in UCHAR
  BY <1>1
<1> QED
  BY <1>2, WordTyped DEF WordAt

-----------------------------------------------------------------------------
(* Coil writes *)

Coils == [Bit -> BOOLEAN]

LEMMA SetBitsTyped ==
  ASSUME NEW buf \in Coils, NEW off, NEW n, NEW value
  PROVE  xMBUtilSetBits(buf, off, n, value) \in Coils
<1> DEFINE word  == (off \div BITS_UCHAR) * BITS_UCHAR..
                      (off \div BITS_UCHAR) * BITS_UCHAR + 2 * BITS_UCHAR - 1
           bit(b) == IF b \in word
                     THEN \/ buf[b] /\ b \notin off..(off + n - 1)
                          \/ b >= off /\ Set(value, b - off)
                     ELSE buf[b]
<1>1. xMBUtilSetBits(buf, off, n, value) = [b \in Bit |-> bit(b)]
  BY DEF xMBUtilSetBits
<1>2. ASSUME NEW b \in Bit PROVE bit(b) \in BOOLEAN
  <2> HIDE DEF word
  <2>1. buf[b] \in BOOLEAN
    BY DEF Coils
  <2> QED
    BY <2>1, Zenon
<1> HIDE DEF bit
<1> QED
  BY <1>1, <1>2 DEF Coils

(* The loop of eMBRegCoilsCB, one byte at a time. *)
WriteStep(buf, a, n, data, k) ==
  LET left == n - (k - 1) * BITS_UCHAR
  IN  xMBUtilSetBits(buf, a, IF left > BITS_UCHAR THEN BITS_UCHAR ELSE left, data[k])

LEMMA WriteLoop ==
  ASSUME NEW n \in Nat, NEW a, NEW data, ucRegCoilsBuf \in Coils
  PROVE  \E after : /\ CoilsWrite(a, n, data) = after[NBytes(n)]
                    /\ after[0] = ucRegCoilsBuf
                    /\ \A k \in 1..NBytes(n) : after[k] = WriteStep(after[k - 1], a, n, data, k)
<1> DEFINE N     == NBytes(n)
           step  == [k \in 1..N |-> [buf \in Coils |-> WriteStep(buf, a, n, data, k)]]
           after == CHOOSE after : after = [k \in 0..N |->
                      IF k = 0 THEN ucRegCoilsBuf ELSE WriteStep(after[k - 1], a, n, data, k)]
<1>1. N \in Nat
  BY BytesNeeded
<1>2. CoilsWrite(a, n, data) = after[N]
  BY DEF CoilsWrite, WriteStep
<1> HIDE DEF N
<1>3. step \in [1..N -> [Coils -> Coils]]
  <2>1. \A k \in 1..N, buf \in Coils : WriteStep(buf, a, n, data, k) \in Coils
    BY SetBitsTyped DEF WriteStep
  <2> QED
    BY <2>1
<1>4. PICK f \in [0..N -> Coils] : Iterates(f, ucRegCoilsBuf, step, N)
  <2> HIDE DEF step
  <2> QED
    BY <1>1, <1>3, IterationExists
<1>5. ASSUME NEW k \in 0..N
      PROVE  f[k] = IF k = 0 THEN ucRegCoilsBuf ELSE WriteStep(f[k - 1], a, n, data, k)
  <2>1. CASE k = 0
    BY <1>4, <2>1 DEF Iterates
  <2>2. CASE k # 0
    <3>1. k \in 1..N /\ f[k - 1] \in Coils
      BY <1>1, <2>2
    <3>2. step[k][f[k - 1]] = WriteStep(f[k - 1], a, n, data, k)
      BY <3>1
    <3>3. f[k] = step[k][f[k - 1]]
      <4> HIDE DEF step
      <4> QED
        BY <1>4, <3>1 DEF Iterates
    <3> QED
      BY <2>2, <3>2, <3>3
  <2> QED
    BY <2>1, <2>2
<1>6. f = [k \in 0..N |-> IF k = 0 THEN ucRegCoilsBuf ELSE WriteStep(f[k - 1], a, n, data, k)]
  BY <1>5
<1>7. after = [k \in 0..N |->
                 IF k = 0 THEN ucRegCoilsBuf ELSE WriteStep(after[k - 1], a, n, data, k)]
  BY <1>6, Zenon
<1> HIDE DEF after
<1>8. \A k \in 0..N : after[k] = IF k = 0 THEN ucRegCoilsBuf
                                          ELSE WriteStep(after[k - 1], a, n, data, k)
  BY <1>7
<1>9. after[0] = ucRegCoilsBuf /\ \A k \in 1..N : after[k] = WriteStep(after[k - 1], a, n, data, k)
  BY <1>1, <1>8
<1> QED
  BY <1>2, <1>9 DEF N

LEMMA WriteTyped ==
  ASSUME NEW n \in Nat, NEW a, NEW data, ucRegCoilsBuf \in Coils
  PROVE  CoilsWrite(a, n, data) \in Coils
<1>1. PICK after : /\ CoilsWrite(a, n, data) = after[NBytes(n)]
                   /\ after[0] = ucRegCoilsBuf
                   /\ \A k \in 1..NBytes(n) : after[k] = WriteStep(after[k - 1], a, n, data, k)
  BY WriteLoop
<1> DEFINE Bad == {k \in Nat : k <= NBytes(n) /\ after[k] \notin Coils}
<1>2. SUFFICES ASSUME Bad # {} PROVE FALSE
  BY <1>1, BytesNeeded
<1>3. PICK k \in Bad : \A y \in Bad : k <= y
  BY <1>2, LeastNat
<1>4. k # 0
  BY <1>1, <1>3
<1>5. k \in 1..NBytes(n) /\ k - 1 \in Nat /\ k - 1 \notin Bad
  BY <1>3, <1>4, BytesNeeded
<1>6. after[k - 1] \in Coils
  BY <1>3, <1>5, BytesNeeded
<1>7. after[k] \in Coils
  BY <1>1, <1>5, <1>6, SetBitsTyped DEF WriteStep
<1> QED
  BY <1>3, <1>7

(* A write of at most one byte, its padding zero, gives the coils of the   *)
(* field their values and leaves all others, although xMBUtilSetBits ors   *)
(* the value over the rest of the word.                                    *)
LEMMA FieldWritten ==
  ASSUME ucRegCoilsBuf \in Coils, NEW a \in Nat, NEW n \in 1..BITS_UCHAR, NEW data,
         data[1] \in UCHAR, \A j \in n..(BITS_UCHAR - 1) : ~Set(data[1], j)
  PROVE  \A b \in Bit : CoilsWrite(a, n, data)[b] = IF b \in a..(a + n - 1) THEN Set(data[1], b - a)
                                                                          ELSE ucRegCoilsBuf[b]
<1>1. BITS_UCHAR \in Nat \ {0} /\ n \in Nat /\ 1 <= n /\ n <= BITS_UCHAR /\ COILS_SIZE = 2 * BITS_UCHAR
  BY WidthAssumption
<1>2. CoilsWrite(a, n, data) = xMBUtilSetBits(ucRegCoilsBuf, a, n, data[1])
  <2>1. PICK after : /\ CoilsWrite(a, n, data) = after[NBytes(n)]
                     /\ after[0] = ucRegCoilsBuf
                     /\ \A k \in 1..NBytes(n) : after[k] = WriteStep(after[k - 1], a, n, data, k)
    BY <1>1, WriteLoop
  <2>2. NBytes(n) = 1
    BY <1>1, BytesNeeded
  <2>3. CoilsWrite(a, n, data) = WriteStep(ucRegCoilsBuf, a, n, data, 1)
    BY <2>1, <2>2
  <2>4. n - (1 - 1) * BITS_UCHAR = n /\ ~(n > BITS_UCHAR)
    BY <1>1
  <2> QED
    BY <2>3, <2>4 DEF WriteStep
<1> DEFINE first == (a \div BITS_UCHAR) * BITS_UCHAR
           v     == data[1]
<1>3. first \in Nat /\ first <= a /\ a < first + BITS_UCHAR
  <2>1. a = (BITS_UCHAR * (a \div BITS_UCHAR)) + (a % BITS_UCHAR)
        /\ a % BITS_UCHAR \in 0..(BITS_UCHAR - 1) /\ a \div BITS_UCHAR \in Nat
    BY <1>1
  <2>2. \A d \in Nat : d * BITS_UCHAR = BITS_UCHAR * d /\ BITS_UCHAR * d \in Nat
    BY <1>1
  <2>3. first = BITS_UCHAR * (a \div BITS_UCHAR) /\ first \in Nat
    BY <2>1, <2>2
  <2> HIDE DEF first
  <2> QED
    BY <1>1, <2>1, <2>3
<1> HIDE DEF first, v
<1>4. ASSUME NEW b \in Bit, b >= a + n, b <= first + 2 * BITS_UCHAR - 1 PROVE ~Set(v, b - a)
  <2>1. b - a \in Nat /\ n <= b - a /\ b - a <= 2 * BITS_UCHAR
    BY <1>1, <1>3, <1>4 DEF Bit
  <2>2. CASE b - a < BITS_UCHAR
    <3>1. b - a \in n..(BITS_UCHAR - 1)
      BY <1>1, <2>1, <2>2
    <3> QED
      BY <3>1 DEF v
  <2>3. CASE ~(b - a < BITS_UCHAR)
    <3>1. /\ BITS_UCHAR \in 0..(2 * BITS_UCHAR) /\ b - a \in 0..(2 * BITS_UCHAR)
          /\ BITS_UCHAR <= b - a /\ v \in 0..(Pow2[BITS_UCHAR] - 1)
      BY <1>1, <2>1, <2>3 DEF UCHAR, UCHAR_MOD, v
    <3> QED
      BY <3>1, NoHighBits
  <2> QED
    BY <2>2, <2>3
<1>5. ASSUME NEW b \in Bit
      PROVE  CoilsWrite(a, n, data)[b] = IF b \in a..(a + n - 1) THEN Set(v, b - a)
                                                                ELSE ucRegCoilsBuf[b]
  <2> DEFINE word == first..(first + 2 * BITS_UCHAR - 1)
  <2>1. CoilsWrite(a, n, data)[b] = IF b \in word
                                    THEN \/ ucRegCoilsBuf[b] /\ b \notin a..(a + n - 1)
                                         \/ b >= a /\ Set(v, b - a)
                                    ELSE ucRegCoilsBuf[b]
    BY <1>2 DEF xMBUtilSetBits, first, v
  <2>2. b \in Int
    BY <1>1 DEF Bit
  <2>3. ucRegCoilsBuf[b] \in BOOLEAN /\ Set(v, b - a) \in BOOLEAN
    BY DEF Coils, Set
  <2>4. CASE b \in a..(a + n - 1)
    <3>1. b \in word /\ b >= a
      BY <1>1, <1>3, <2>2, <2>4
    <3> HIDE DEF word
    <3> QED
      BY <2>1, <2>3, <2>4, <3>1, Zenon
  <2>5. CASE b \notin a..(a + n - 1) /\ b \in word
    <3>1. ~(b >= a /\ Set(v, b - a))
      BY <1>1, <1>4, <2>2, <2>5
    <3> HIDE DEF word
    <3> QED
      BY <2>1, <2>3, <2>5, <3>1, Zenon
  <2>6. CASE b \notin a..(a + n - 1) /\ b \notin word
    <3> HIDE DEF word
    <3> QED
      BY <2>1, <2>6, Zenon
  <2> QED
    BY <2>4, <2>5, <2>6
<1> QED
  BY <1>5 DEF v

-----------------------------------------------------------------------------
(* Reads and writes of holding registers, at any address *)

LEMMA RegistersRead ==
  ASSUME NEW regs \in [Reg -> USHORT], NEW addr \in USHORT, NEW n \in Nat,
         HoldingMapped(Incr(addr), n)
  PROVE  /\ addr + n <= NREGS
         /\ HoldingRead(regs, Incr(addr), n) \in Seq(UCHAR)
         /\ Len(HoldingRead(regs, Incr(addr), n)) = 2 * n
         /\ \A i \in 1..n : WordAt(HoldingRead(regs, Incr(addr), n), i) = regs[addr + i - 1]
<1> DEFINE words == [i \in 1..n |-> regs[Decr(Incr(addr)) + i - 1]]
<1>1. addr \in Nat /\ Decr(Incr(addr)) = addr /\ addr + n <= NREGS /\ NREGS \in Nat
  BY AddressKept, SizeAssumption DEF HoldingMapped
<1>2. \A i \in 1..n : words[i] = regs[addr + i - 1] /\ addr + i - 1 \in Reg
  BY <1>1 DEF Reg
<1>3. words \in [1..n -> USHORT]
  <2>1. words = [i \in 1..n |-> words[i]]
    OBVIOUS
  <2> HIDE DEF words
  <2> QED
    BY <1>2, <2>1
<1>4. HoldingRead(regs, Incr(addr), n) = BytesOf(words, n)
  BY DEF HoldingRead
<1> HIDE DEF words
<1> QED
  BY <1>1, <1>2, <1>3, <1>4, WordsReadBack

LEMMA InputsRead ==
  ASSUME NEW addr \in USHORT, NEW n \in Nat, InputMapped(Incr(addr), n)
  PROVE  eMBRegInputCB(Incr(addr), n) \in Seq(UCHAR)
<1> DEFINE words == [i \in 1..n |-> usRegInputBuf[Incr(addr) + i - 1]]
<1>1. Incr(addr) \in Nat /\ Incr(addr) + n <= NREGS /\ NREGS \in Nat
  BY AddressKept, SizeAssumption DEF InputMapped
<1>2. \A i \in 1..n : Incr(addr) + i - 1 \in Reg
  BY <1>1 DEF Reg
<1>3. words \in [1..n -> USHORT]
  BY <1>2, ContentsAssumption
<1>4. eMBRegInputCB(Incr(addr), n) = BytesOf(words, n)
  BY DEF eMBRegInputCB
<1> HIDE DEF words
<1> QED
  BY <1>3, <1>4, WordsReadBack

LEMMA RegistersWritten ==
  ASSUME usRegHoldingBuf \in [Reg -> USHORT], NEW addr \in USHORT, NEW n \in Nat,
         NEW data \in Seq(UCHAR), 2 * n <= Len(data)
  PROVE  /\ HoldingWrite(Incr(addr), n, data) \in [Reg -> USHORT]
         /\ \A r \in Reg : HoldingWrite(Incr(addr), n, data)[r] =
              IF r - addr \in 0..(n - 1) THEN WordAt(data, r - addr + 1) ELSE usRegHoldingBuf[r]
<1> DEFINE after == HoldingWrite(Incr(addr), n, data)
<1>1. addr \in Nat /\ Decr(Incr(addr)) = addr
  BY AddressKept
<1>2. after = [r \in Reg |-> IF r - addr \in 0..(n - 1) THEN WordAt(data, r - addr + 1)
                                                        ELSE usRegHoldingBuf[r]]
  BY <1>1 DEF HoldingWrite
<1> HIDE DEF after
<1>3. ASSUME NEW r \in Reg PROVE after[r] \in USHORT
  <2>1. CASE r - addr \in 0..(n - 1)
    <3> DEFINE i == r - addr + 1
    <3>1. i \in Nat \ {0} /\ 2 * i <= Len(data)
      BY <1>1, <2>1
    <3>2. WordAt(data, i) \in USHORT
      <4> HIDE DEF i
      <4> QED
        BY <3>1, WordsOfBytes
    <3> QED
      BY <1>2, <2>1, <3>2
  <2>2. CASE r - addr \notin 0..(n - 1)
    BY <1>2, <2>2
  <2> QED
    BY <2>1, <2>2
<1>4. after = [r \in Reg |-> after[r]]
  BY <1>2
<1>5. after \in [Reg -> USHORT]
  BY <1>3, <1>4
<1> QED
  BY <1>2, <1>5 DEF after

-----------------------------------------------------------------------------
(* Replies *)

Exceptions == {"NONE", "ILLEGAL_DATA_VALUE", "ILLEGAL_DATA_ADDRESS"}
ReplyTyped(answer) ==
  answer.ex \in Exceptions /\ answer.len \in Nat /\ answer.values \in Seq(UCHAR)

LEMMA ReplyFields ==
  ASSUME NEW q, NEW ex \in Exceptions, NEW len \in Nat, NEW values,
         ex = "NONE" => values \in Seq(UCHAR)
  PROVE  LET answer == ReplyOf(q, ex, len, values)
         IN  /\ answer.q = q /\ answer.ex = ex /\ ReplyTyped(answer)
             /\ ex = "NONE" => answer.len = len /\ answer.values = values
<1>1. <<>> \in Seq(UCHAR)
  OBVIOUS
<1> QED
  BY <1>1 DEF ReplyOf, ReplyTyped

LEMMA ExceptionCases ==
  ASSUME NEW valid, NEW mapped
  PROVE  /\ Exception(valid, mapped) \in Exceptions
         /\ Exception(valid, mapped) = "NONE" <=> valid /\ mapped
         /\ Exception(valid, mapped) = "ILLEGAL_DATA_ADDRESS" <=> valid /\ ~mapped
BY DEF Exception, prveMBError2Exception, Exceptions

LEMMA ReadReplyFields ==
  ASSUME NEW q, NEW valid, NEW mapped, NEW values,
         valid /\ mapped => values \in Seq(UCHAR)
  PROVE  LET answer == ReadReply(q, valid, mapped, values)
         IN  /\ answer.q = q /\ answer.ex = Exception(valid, mapped) /\ ReplyTyped(answer)
             /\ answer.ex = "NONE" =>
                  valid /\ mapped /\ answer.len = 2 + Len(values) /\ answer.values = values
<1> DEFINE ex == Exception(valid, mapped)
<1>1. ex \in Exceptions /\ (ex = "NONE" <=> valid /\ mapped)
  BY ExceptionCases
<1>2. CASE ex = "NONE"
  <2>1. values \in Seq(UCHAR) /\ 2 + Len(values) \in Nat
    BY <1>1, <1>2
  <2>2. ReadReply(q, valid, mapped, values) = ReplyOf(q, ex, 2 + Len(values), values)
    BY <1>2 DEF ReadReply
  <2> HIDE DEF ex
  <2>3. LET answer == ReplyOf(q, ex, 2 + Len(values), values)
        IN  /\ answer.q = q /\ answer.ex = ex /\ ReplyTyped(answer)
            /\ answer.len = 2 + Len(values) /\ answer.values = values
    BY <1>1, <1>2, <2>1, ReplyFields
  <2> QED
    BY <1>1, <1>2, <2>2, <2>3 DEF ex
<1>3. CASE ex # "NONE"
  <2>1. ReadReply(q, valid, mapped, values) = ReplyOf(q, ex, 2, <<>>)
    BY <1>3 DEF ReadReply
  <2> HIDE DEF ex
  <2>2. LET answer == ReplyOf(q, ex, 2, <<>>)
        IN  answer.q = q /\ answer.ex = ex /\ ReplyTyped(answer)
    <3>1. <<>> \in Seq(UCHAR)
      OBVIOUS
    <3> QED
      BY <1>1, <3>1 DEF ReplyOf, ReplyTyped
  <2> QED
    BY <1>3, <2>1, <2>2 DEF ex
<1> QED
  BY <1>2, <1>3

-----------------------------------------------------------------------------
(* One request: what each handler does.  A request whose values lie in the *)
(* buffer, and that goes to this handler.                                  *)

Good(q) == q \in Request /\ InBuffer(q)
RegsTyped == usRegHoldingBuf \in [Reg -> USHORT]
StateTyped == RegsTyped /\ ucRegCoilsBuf \in Coils /\ usMBSlaveIDLen \in 0..(SLAVEID_BUF - 1)

(* A step that answers q, leaving the variables typed. *)
Answers(q) ==
  /\ reply'.q = q /\ ReplyTyped(reply')
  /\ usRegHoldingBuf' \in [Reg -> USHORT] /\ ucRegCoilsBuf' \in Coils
  /\ UNCHANGED usMBSlaveIDLen

(* What WritesExactly says of such a step. *)
Exact(q) ==
  /\ \A r \in Reg : usRegHoldingBuf'[r] # usRegHoldingBuf[r] => Writes(q, r, usRegHoldingBuf'[r])
  /\ Done(reply') => \A r \in Reg : WritesRegister(q, r) => Writes(q, r, usRegHoldingBuf'[r])
  /\ reply'.ex # "NONE" /\ usRegHoldingBuf' # usRegHoldingBuf =>
       q.fn = 23 /\ reply'.ex = "ILLEGAL_DATA_ADDRESS" /\ q.addr + q.cnt > NREGS

LEMMA FieldsTyped ==
  ASSUME NEW q, Good(q)
  PROVE  /\ q.len \in Nat /\ q.addr \in USHORT /\ q.cnt \in USHORT /\ q.waddr \in USHORT
         /\ q.wcnt \in USHORT /\ q.bytes \in UCHAR /\ q.data \in Seq(UCHAR) /\ q.fn \in Function
         /\ q.cnt \in Nat /\ q.wcnt \in Nat
<1>1. USHORT \subseteq Nat
  BY Widths DEF USHORT
<1> QED
  BY <1>1 DEF Good, Request

LEMMA ReadOnly ==
  ASSUME NEW q, q.fn \notin {6, 16, 23}, UNCHANGED usRegHoldingBuf
  PROVE  Exact(q)
BY DEF Exact, Writes, WritesRegister

LEMMA InputRegisters ==
  ASSUME StateTyped, NEW q, Good(q), eMBFuncReadInputRegister(q)
  PROVE  Answers(q) /\ Exact(q)
<1> DEFINE valid  == q.len = 5 /\ q.cnt >= 1 /\ q.cnt < READ_REGCNT_MAX
           mapped == InputMapped(Incr(q.addr), q.cnt)
           values == eMBRegInputCB(Incr(q.addr), q.cnt)
<1>1. q.addr \in USHORT /\ q.cnt \in Nat
  BY FieldsTyped
<1>2. mapped => values \in Seq(UCHAR)
  BY <1>1, InputsRead
<1>3. reply' = ReadReply(q, valid, mapped, values)
  BY DEF eMBFuncReadInputRegister
<1> HIDE DEF valid, mapped, values
<1>4. reply'.q = q /\ ReplyTyped(reply')
  BY <1>2, <1>3, ReadReplyFields
<1> QED
  BY <1>4, ReadOnly DEF eMBFuncReadInputRegister, Answers, StateTyped, RegsTyped

LEMMA HoldingReads ==
  ASSUME StateTyped, NEW q, Good(q), eMBFuncReadHoldingRegister(q)
  PROVE  /\ Answers(q) /\ Exact(q)
         /\ reply'.ex = "NONE" =>
              LET n == q.cnt % UCHAR_MOD
              IN  /\ Len(reply'.values) = 2 * n /\ reply'.len = 2 + 2 * n
                  /\ \A i \in 1..n : WordAt(reply'.values, i) = usRegHoldingBuf'[q.addr + i - 1]
<1> DEFINE n      == q.cnt % UCHAR_MOD
           valid  == q.len = 5 /\ n >= 1 /\ n <= READ_REGCNT_MAX
           mapped == HoldingMapped(Incr(q.addr), n)
           values == HoldingRead(usRegHoldingBuf, Incr(q.addr), n)
<1>1. q.addr \in USHORT /\ n \in Nat
  BY FieldsTyped, Widths
<1>2. reply' = ReadReply(q, valid, mapped, values)
  BY DEF eMBFuncReadHoldingRegister
<1>3. UNCHANGED <<usRegHoldingBuf, ucRegCoilsBuf, usMBSlaveIDLen>> /\ q.fn = 3
  BY DEF eMBFuncReadHoldingRegister
<1>4. mapped => /\ values \in Seq(UCHAR) /\ Len(values) = 2 * n
                /\ \A i \in 1..n : WordAt(values, i) = usRegHoldingBuf[q.addr + i - 1]
  <2> HIDE DEF n
  <2> QED
    BY <1>1, RegistersRead DEF StateTyped, RegsTyped
<1> HIDE DEF n, valid, mapped, values
<1>5. /\ reply'.q = q /\ ReplyTyped(reply')
      /\ reply'.ex = "NONE" => mapped /\ reply'.len = 2 + Len(values) /\ reply'.values = values
  BY <1>2, <1>4, ReadReplyFields
<1>6. Answers(q) /\ Exact(q)
  BY <1>3, <1>5, ReadOnly DEF Answers, StateTyped, RegsTyped
<1>7. reply'.ex = "NONE" =>
        /\ Len(reply'.values) = 2 * n /\ reply'.len = 2 + 2 * n
        /\ \A i \in 1..n : WordAt(reply'.values, i) = usRegHoldingBuf'[q.addr + i - 1]
  BY <1>3, <1>4, <1>5
<1> QED
  BY <1>6, <1>7 DEF n

LEMMA SlaveIDReported ==
  ASSUME StateTyped, NEW q, eMBFuncReportSlaveID(q)
  PROVE  Answers(q) /\ Exact(q)
<1>1. <<>> \in Seq(UCHAR) /\ "NONE" \in Exceptions /\ 1 + usMBSlaveIDLen \in Nat
  BY DEF StateTyped, Exceptions
<1>2. reply' = ReplyOf(q, "NONE", 1 + usMBSlaveIDLen, <<>>)
  BY DEF eMBFuncReportSlaveID
<1>3. reply'.q = q /\ ReplyTyped(reply')
  BY <1>1, <1>2 DEF ReplyOf, ReplyTyped
<1> QED
  BY <1>3, ReadOnly DEF eMBFuncReportSlaveID, Answers, StateTyped, RegsTyped

LEMMA BitsRead ==
  ASSUME StateTyped, NEW q, Good(q), NEW buf, ReadBits(q, buf), q.fn \in {1, 2}
  PROVE  /\ Answers(q) /\ Exact(q) /\ UNCHANGED ucRegCoilsBuf
         /\ reply'.ex = "NONE" =>
              /\ q.cnt >= 1 /\ Incr(q.addr) + q.cnt <= COILS_SIZE
              /\ reply'.len = 2 + Len(reply'.values)
              /\ reply'.values = PackedBits(buf, Incr(q.addr), q.cnt)
<1> DEFINE valid  == q.len = 5 /\ q.cnt >= 1 /\ q.cnt < READ_COILCNT_MAX
           mapped == CoilsMapped(Incr(q.addr), q.cnt)
           values == PackedBits(buf, Incr(q.addr), q.cnt)
<1>1. q.addr \in USHORT /\ q.cnt \in Nat /\ Incr(q.addr) \in Nat
  BY FieldsTyped, AddressKept
<1>2. ASSUME valid PROVE values \in Seq(UCHAR)
  <2>1. q.cnt \in Nat \ {0}
    BY <1>1, <1>2
  <2> DEFINE a == Incr(q.addr)
             n == q.cnt
  <2>2. a \in Nat /\ n \in Nat \ {0}
    BY <1>1, <2>1
  <2> HIDE DEF a, n
  <2>3. PackedBits(buf, a, n) \in Seq(UCHAR)
    BY <2>2, CoilsPacked
  <2> QED
    BY <2>3 DEF a, n
<1>3. valid /\ mapped => q.cnt >= 1 /\ Incr(q.addr) + q.cnt <= COILS_SIZE
  BY DEF CoilsMapped
<1>4. reply' = ReadReply(q, valid, mapped, values)
  BY DEF ReadBits
<1> HIDE DEF valid, mapped, values
<1>5. /\ reply'.q = q /\ ReplyTyped(reply')
      /\ reply'.ex = "NONE" =>
           valid /\ mapped /\ reply'.len = 2 + Len(values) /\ reply'.values = values
  BY <1>2, <1>4, ReadReplyFields
<1>6. Answers(q) /\ Exact(q) /\ UNCHANGED ucRegCoilsBuf
  BY <1>5, ReadOnly DEF ReadBits, Answers, StateTyped, RegsTyped
<1> QED
  BY <1>3, <1>5, <1>6 DEF values

(* The handlers that write registers. *)

LEMMA SingleWritten ==
  ASSUME StateTyped, NEW q, Good(q), eMBFuncWriteHoldingRegister(q)
  PROVE  Answers(q) /\ Exact(q)
<1> DEFINE ex   == Exception(q.len = 5, HoldingMapped(Incr(q.addr), 1))
           data == <<q.cnt \div UCHAR_MOD, q.cnt % UCHAR_MOD>>
<1>1. q.addr \in USHORT /\ q.cnt \in USHORT /\ q.len \in Nat /\ USHORT \subseteq Nat
  BY FieldsTyped, Widths DEF USHORT
<1>2. /\ q.fn = 6 /\ reply' = ReplyOf(q, ex, q.len, <<>>)
      /\ UNCHANGED <<ucRegCoilsBuf, usMBSlaveIDLen>>
      /\ usRegHoldingBuf' = IF ex = "NONE" THEN HoldingWrite(Incr(q.addr), 1, data)
                                           ELSE usRegHoldingBuf
  BY DEF eMBFuncWriteHoldingRegister
<1>3. data \in Seq(UCHAR) /\ Len(data) = 2 /\ WordAt(data, 1) = q.cnt
  <2>1. /\ q.cnt \div UCHAR_MOD \in UCHAR /\ q.cnt % UCHAR_MOD \in UCHAR
        /\ (q.cnt \div UCHAR_MOD) * UCHAR_MOD + (q.cnt % UCHAR_MOD) = q.cnt
    BY <1>1, WordSplit
  <2>2. data[2 * 1 - 1] = q.cnt \div UCHAR_MOD /\ data[2 * 1] = q.cnt % UCHAR_MOD
    OBVIOUS
  <2> QED
    BY <2>1, <2>2 DEF WordAt
<1>4. ex \in Exceptions
  BY ExceptionCases
<1> HIDE DEF ex, data
<1>5. reply'.q = q /\ reply'.ex = ex /\ ReplyTyped(reply')
  <2>1. <<>> \in Seq(UCHAR)
    OBVIOUS
  <2> QED
    BY <1>1, <1>2, <1>4, <2>1 DEF ReplyOf, ReplyTyped
<1> DEFINE after == HoldingWrite(Incr(q.addr), 1, data)
<1>6. /\ after \in [Reg -> USHORT]
      /\ \A r \in Reg : after[r] = IF r = q.addr THEN q.cnt ELSE usRegHoldingBuf[r]
  <2> DEFINE n    == 1
             addr == q.addr
  <2>1. n \in Nat /\ 2 * n <= Len(data) /\ addr \in USHORT /\ addr \in Nat /\ data \in Seq(UCHAR)
    <3>1. addr \in USHORT /\ addr \in Nat
      BY <1>1, AddressKept
    <3>2. 2 * n = 2 /\ n \in Nat
      OBVIOUS
    <3>3. Len(data) = 2 /\ data \in Seq(UCHAR)
      BY <1>3
    <3> HIDE DEF n, addr
    <3> QED
      BY <3>1, <3>2, <3>3
  <2>2. /\ after \in [Reg -> USHORT]
        /\ \A r \in Reg : after[r] = IF r - addr \in 0..(n - 1) THEN WordAt(data, r - addr + 1)
                                                              ELSE usRegHoldingBuf[r]
    <3>1. after = HoldingWrite(Incr(addr), n, data)
      OBVIOUS
    <3>2. usRegHoldingBuf \in [Reg -> USHORT]
      BY DEF StateTyped, RegsTyped
    <3> HIDE DEF n, addr, after
    <3>3. /\ HoldingWrite(Incr(addr), n, data) \in [Reg -> USHORT]
          /\ \A r \in Reg : HoldingWrite(Incr(addr), n, data)[r] =
               IF r - addr \in 0..(n - 1) THEN WordAt(data, r - addr + 1) ELSE usRegHoldingBuf[r]
      BY <2>1, <3>2, RegistersWritten
    <3> QED
      BY <3>1, <3>3
  <2>3. \A r \in Reg : r \in Int
    BY SizeAssumption DEF Reg
  <2>4. ASSUME NEW r \in Reg PROVE /\ r - addr \in 0..(n - 1) <=> r = q.addr
                                   /\ r = q.addr => r - addr + 1 = 1
    <3>1. r \in Int /\ addr \in Int /\ addr = q.addr /\ n = 1
      BY <2>1, <2>3
    <3> HIDE DEF n, addr
    <3> QED
      BY <3>1
  <2> HIDE DEF after, n, addr
  <2> QED
    BY <1>3, <2>2, <2>4
<1> HIDE DEF after
<1>7. Answers(q)
  BY <1>2, <1>5, <1>6 DEF Answers, StateTyped, RegsTyped, after
<1>8. CASE ex = "NONE"
  <2>1. usRegHoldingBuf' = after
    BY <1>2, <1>8 DEF after
  <2>2. \A r \in Reg : usRegHoldingBuf'[r] # usRegHoldingBuf[r] => Writes(q, r, usRegHoldingBuf'[r])
    BY <1>2, <1>6, <2>1 DEF Writes
  <2>3. \A r \in Reg : WritesRegister(q, r) => Writes(q, r, usRegHoldingBuf'[r])
    BY <1>2, <1>6, <2>1 DEF Writes, WritesRegister
  <2> QED
    BY <1>5, <1>7, <1>8, <2>2, <2>3 DEF Exact
<1>9. CASE ex # "NONE"
  BY <1>2, <1>5, <1>7, <1>9 DEF Exact, Done
<1> QED
  BY <1>8, <1>9

LEMMA MultipleWritten ==
  ASSUME StateTyped, NEW q, Good(q), eMBFuncWriteMultipleHoldingRegister(q)
  PROVE  Answers(q) /\ Exact(q)
<1> DEFINE valid == /\ q.len >= 6 /\ q.cnt >= 1 /\ q.cnt <= WRITE_REGCNT_MAX
                    /\ q.bytes = (2 * q.cnt) % UCHAR_MOD
           ex    == Exception(valid, HoldingMapped(Incr(q.addr), q.cnt))
           after == HoldingWrite(Incr(q.addr), q.cnt, q.data)
<1>1. /\ q.addr \in USHORT /\ q.cnt \in Nat /\ q.data \in Seq(UCHAR) /\ Len(q.data) \in Nat
      /\ USHORT \subseteq Nat
  BY FieldsTyped, Widths DEF USHORT
<1>2. /\ q.fn = 16 /\ reply' = ReplyOf(q, ex, 5, <<>>)
      /\ UNCHANGED <<ucRegCoilsBuf, usMBSlaveIDLen>>
      /\ usRegHoldingBuf' = IF ex = "NONE" THEN after ELSE usRegHoldingBuf
  BY DEF eMBFuncWriteMultipleHoldingRegister
<1>3. ex \in Exceptions /\ (ex = "NONE" => valid)
  BY ExceptionCases
<1>4. valid => 2 * q.cnt <= Len(q.data)
  BY <1>1, <1>2, SizeAssumption DEF Good, InBuffer
<1>5. valid => /\ after \in [Reg -> USHORT]
               /\ \A r \in Reg : after[r] = IF r - q.addr \in 0..(q.cnt - 1)
                                            THEN WordAt(q.data, r - q.addr + 1)
                                            ELSE usRegHoldingBuf[r]
  <2> HIDE DEF valid
  <2> QED
    BY <1>1, <1>4, RegistersWritten DEF StateTyped, RegsTyped
<1> HIDE DEF ex, after, valid
<1>6. reply'.q = q /\ reply'.ex = ex /\ ReplyTyped(reply')
  <2>1. <<>> \in Seq(UCHAR)
    OBVIOUS
  <2> QED
    BY <1>2, <1>3, <2>1 DEF ReplyOf, ReplyTyped
<1>7. Answers(q)
  BY <1>2, <1>3, <1>5, <1>6 DEF Answers, StateTyped, RegsTyped
<1>8. CASE ex = "NONE"
  <2>1. usRegHoldingBuf' = after
    BY <1>2, <1>8
  <2>2. \A r \in Reg : usRegHoldingBuf'[r] # usRegHoldingBuf[r] => Writes(q, r, usRegHoldingBuf'[r])
    BY <1>2, <1>3, <1>5, <1>8, <2>1 DEF Writes
  <2>3. \A r \in Reg : WritesRegister(q, r) => Writes(q, r, usRegHoldingBuf'[r])
    BY <1>2, <1>3, <1>5, <1>8, <2>1 DEF Writes, WritesRegister
  <2> QED
    BY <1>6, <1>7, <1>8, <2>2, <2>3 DEF Exact
<1>9. CASE ex # "NONE"
  BY <1>2, <1>6, <1>7, <1>9 DEF Exact, Done
<1> QED
  BY <1>8, <1>9

LEMMA ReadWriteDone ==
  ASSUME StateTyped, NEW q, Good(q), eMBFuncReadWriteMultipleHoldingRegister(q)
  PROVE  /\ Answers(q) /\ Exact(q)
         /\ Done(reply') =>
              /\ Len(reply'.values) = 2 * q.cnt /\ reply'.len = 2 + 2 * q.cnt
              /\ \A i \in 1..q.cnt : WordAt(reply'.values, i) = usRegHoldingBuf'[q.addr + i - 1]
<1> DEFINE valid   == /\ q.cnt >= 1 /\ q.cnt <= READ_REGCNT_MAX
                      /\ q.wcnt >= 1 /\ q.wcnt <= WRITE_REGCNT_MAX + 1 /\ 2 * q.wcnt = q.bytes
           written == q.len >= 10 /\ valid /\ HoldingMapped(Incr(q.waddr), q.wcnt)
           mapped  == HoldingMapped(Incr(q.addr), q.cnt)
           after   == HoldingWrite(Incr(q.waddr), q.wcnt, q.data)
           regs    == IF written THEN after ELSE usRegHoldingBuf
           values  == HoldingRead(regs, Incr(q.addr), q.cnt)
<1>1. /\ q.addr \in USHORT /\ q.cnt \in Nat /\ q.waddr \in USHORT /\ q.wcnt \in Nat
      /\ q.data \in Seq(UCHAR) /\ Len(q.data) \in Nat /\ q.len \in Nat /\ USHORT \subseteq Nat
  BY FieldsTyped, Widths DEF USHORT
<1>2. /\ q.fn = 23 /\ usRegHoldingBuf' = regs /\ UNCHANGED <<ucRegCoilsBuf, usMBSlaveIDLen>>
      /\ reply' = IF q.len < 10 THEN ReplyOf(q, "NONE", q.len, <<>>)
                                ELSE ReadReply(q, valid, written /\ mapped, values)
  BY DEF eMBFuncReadWriteMultipleHoldingRegister
<1>3. written => 2 * q.wcnt <= Len(q.data)
  BY <1>1, <1>2, SizeAssumption DEF Good, InBuffer
<1>4. written => q.len >= 10 /\ valid
  OBVIOUS
<1>5. ~mapped => q.addr + q.cnt > NREGS
  <2>1. Decr(Incr(q.addr)) = q.addr /\ q.addr \in Nat
    BY <1>1, AddressKept
  <2>2. NREGS \in Nat
    BY SizeAssumption
  <2> QED
    BY <1>1, <2>1, <2>2 DEF HoldingMapped
<1> HIDE DEF valid, written
<1>6. written => /\ after \in [Reg -> USHORT]
                 /\ \A r \in Reg : after[r] = IF r - q.waddr \in 0..(q.wcnt - 1)
                                              THEN WordAt(q.data, r - q.waddr + 1)
                                              ELSE usRegHoldingBuf[r]
  <2> DEFINE n    == q.wcnt
             addr == q.waddr
             data == q.data
  <2>1. /\ n \in Nat /\ addr \in USHORT /\ data \in Seq(UCHAR)
        /\ written => 2 * n <= Len(data)
    BY <1>1, <1>3
  <2>2. after = HoldingWrite(Incr(addr), n, data)
    OBVIOUS
  <2> HIDE DEF n, addr, data, after
  <2>3. written => /\ after \in [Reg -> USHORT]
                   /\ \A r \in Reg : after[r] = IF r - addr \in 0..(n - 1)
                                                THEN WordAt(data, r - addr + 1)
                                                ELSE usRegHoldingBuf[r]
    BY <2>1, <2>2, RegistersWritten DEF StateTyped, RegsTyped
  <2> QED
    BY <2>3 DEF n, addr, data
<1> HIDE DEF after
<1>7. regs \in [Reg -> USHORT]
  BY <1>6 DEF StateTyped, RegsTyped
<1> HIDE DEF regs
<1>8. mapped => /\ values \in Seq(UCHAR) /\ Len(values) = 2 * q.cnt
                /\ \A i \in 1..q.cnt : WordAt(values, i) = regs[q.addr + i - 1]
  BY <1>1, <1>7, RegistersRead
<1> HIDE DEF mapped, values
<1>9. CASE q.len < 10
  <2>1. <<>> \in Seq(UCHAR) /\ "NONE" \in Exceptions
    BY DEF Exceptions
  <2>2. reply'.q = q /\ reply'.ex = "NONE" /\ ReplyTyped(reply')
    BY <1>1, <1>2, <1>9, <2>1 DEF ReplyOf, ReplyTyped
  <2>3. ~written /\ ~(q.len >= 10)
    BY <1>1, <1>4, <1>9
  <2>4. usRegHoldingBuf' = usRegHoldingBuf
    BY <1>2, <2>3 DEF regs
  <2>5. ~Done(reply')
    BY <1>2, <2>2, <2>3 DEF Done
  <2> QED
    BY <1>2, <2>2, <2>4, <2>5 DEF Answers, Exact, StateTyped, RegsTyped
<1>10. CASE ~(q.len < 10)
  <2>1. reply' = ReadReply(q, valid, written /\ mapped, values)
    BY <1>2, <1>10
  <2>2. /\ reply'.q = q /\ ReplyTyped(reply') /\ reply'.ex = Exception(valid, written /\ mapped)
        /\ reply'.ex = "NONE" =>
             written /\ mapped /\ reply'.len = 2 + Len(values) /\ reply'.values = values
    <3> DEFINE both == written /\ mapped
    <3>1. valid /\ both => values \in Seq(UCHAR)
      BY <1>8
    <3>2. reply' = ReadReply(q, valid, both, values)
      BY <2>1
    <3> HIDE DEF both
    <3>3. /\ reply'.q = q /\ ReplyTyped(reply') /\ reply'.ex = Exception(valid, both)
          /\ reply'.ex = "NONE" =>
               valid /\ both /\ reply'.len = 2 + Len(values) /\ reply'.values = values
      BY <3>1, <3>2, ReadReplyFields
    <3> QED
      BY <3>3 DEF both
  <2>3. Answers(q)
    BY <1>2, <1>7, <2>2 DEF Answers, StateTyped, RegsTyped
  <2>4. Done(reply') => written /\ mapped /\ reply'.len = 2 + Len(values) /\ reply'.values = values
    BY <2>2 DEF Done
  <2>5. ASSUME NEW r \in Reg, usRegHoldingBuf'[r] # usRegHoldingBuf[r]
        PROVE  Writes(q, r, usRegHoldingBuf'[r])
    <3>1. written
      BY <1>2, <2>5 DEF regs
    <3>2. usRegHoldingBuf'[r] = after[r]
      BY <1>2, <3>1 DEF regs
    <3> QED
      BY <1>2, <1>6, <2>5, <3>1, <3>2 DEF Writes
  <2>6. ASSUME Done(reply'), NEW r \in Reg, WritesRegister(q, r)
        PROVE  Writes(q, r, usRegHoldingBuf'[r])
    <3>1. written /\ usRegHoldingBuf'[r] = after[r]
      BY <1>2, <2>4, <2>6 DEF regs
    <3> QED
      BY <1>2, <1>6, <2>6, <3>1 DEF Writes, WritesRegister
  <2>7. ASSUME reply'.ex # "NONE", usRegHoldingBuf' # usRegHoldingBuf
        PROVE  reply'.ex = "ILLEGAL_DATA_ADDRESS" /\ q.addr + q.cnt > NREGS
    <3>1. written
      BY <1>2, <2>7 DEF regs
    <3>2. ~mapped /\ reply'.ex = "ILLEGAL_DATA_ADDRESS"
      BY <1>4, <2>2, <2>7, <3>1, ExceptionCases
    <3> QED
      BY <1>5, <3>2
  <2>8. Exact(q)
    BY <1>2, <2>5, <2>6, <2>7 DEF Exact
  <2>9. Done(reply') =>
          /\ Len(reply'.values) = 2 * q.cnt /\ reply'.len = 2 + 2 * q.cnt
          /\ \A i \in 1..q.cnt : WordAt(reply'.values, i) = usRegHoldingBuf'[q.addr + i - 1]
    BY <1>2, <1>8, <2>4
  <2> QED
    BY <2>3, <2>8, <2>9
<1> QED
  BY <1>9, <1>10

-----------------------------------------------------------------------------
(* The handlers that write coils. *)

(* Coil writes of at most one byte, their padding zero: longer ones are    *)
(* written wrong (modbus.c:161), and padding goes into the coils behind    *)
(* (mbutils.c:77).                                                         *)
OneByte(q) ==
  q.fn = 15 /\ q.len > 5 /\ q.cnt \in 1..WRITE_COILCNT_MAX =>
    q.cnt <= BITS_UCHAR /\ \A j \in q.cnt..(BITS_UCHAR - 1) : ~Set(q.data[1], j)
OneByteWrites == \A m \in Masters : \A q \in Requests[m] : OneByte(q)

(* What CoilsWrittenExactly says of a step that answers q. *)
CoilExact(q) ==
  LET first == CoilBit(q.addr)
      named == IF reply'.ex = "NONE" THEN first..(first + CoilCount(q) - 1) ELSE {}
  IN  \A b \in Bit : ucRegCoilsBuf'[b] = IF b \in named THEN CoilValue(q, b - first)
                                                        ELSE ucRegCoilsBuf[b]

LEMMA CoilSet ==
  ASSUME StateTyped, NEW q, Good(q), eMBFuncWriteCoil(q)
  PROVE  Answers(q) /\ Exact(q) /\ CoilExact(q)
<1> DEFINE ex    == Exception(q.len = 5 /\ q.cnt \in {0, CoilOn}, CoilsMapped(Incr(q.addr), 1))
           data  == <<IF q.cnt = CoilOn THEN 1 ELSE 0>>
           first == Incr(q.addr)
           after == CoilsWrite(first, 1, data)
<1>1. q.addr \in USHORT /\ first \in Nat /\ q.len \in Nat /\ ucRegCoilsBuf \in Coils
  BY FieldsTyped, AddressKept DEF StateTyped
<1>2. /\ q.fn = 5 /\ reply' = ReplyOf(q, ex, q.len, <<>>)
      /\ UNCHANGED <<usRegHoldingBuf, usMBSlaveIDLen>>
      /\ ucRegCoilsBuf' = IF ex = "NONE" THEN after ELSE ucRegCoilsBuf
  BY DEF eMBFuncWriteCoil
<1>3. ex \in Exceptions /\ (ex = "NONE" => q.cnt \in {0, CoilOn})
  BY ExceptionCases
<1>4. data[1] \in 0..1 /\ (data[1] = 1 <=> q.cnt = CoilOn)
  OBVIOUS
<1>5. CoilOn # 0
  <2>1. UCHAR_MOD \in Nat /\ UCHAR_MOD > 1
    BY Widths
  <2>2. \A m \in Nat : m > 1 => (m - 1) * m # 0
    OBVIOUS
  <2> QED
    BY <2>1, <2>2 DEF CoilOn
<1> HIDE DEF ex, data, first
<1>6. reply'.q = q /\ reply'.ex = ex /\ ReplyTyped(reply')
  <2>1. <<>> \in Seq(UCHAR)
    OBVIOUS
  <2> QED
    BY <1>1, <1>2, <1>3, <2>1 DEF ReplyOf, ReplyTyped
<1>7. after \in Coils
  <2> DEFINE n == 1
  <2>1. n \in Nat /\ after = CoilsWrite(first, n, data)
    OBVIOUS
  <2> HIDE DEF n, after
  <2> QED
    BY <1>1, <2>1, WriteTyped
<1>8. Answers(q) /\ Exact(q)
  <2> HIDE DEF after
  <2> QED
    BY <1>2, <1>6, <1>7, ReadOnly DEF Answers, StateTyped, RegsTyped
<1>9. \A b \in Bit : after[b] = IF b \in first..(first + 1 - 1) THEN Set(data[1], b - first)
                                                               ELSE ucRegCoilsBuf[b]
  <2> DEFINE n == 1
  <2>1. BITS_UCHAR \in Nat \ {0} /\ n \in 1..BITS_UCHAR
    BY WidthAssumption
  <2>2. 1 \in 0..(2 * BITS_UCHAR) /\ Pow2[1] = 2
    <3>1. 1 \in 1..(2 * BITS_UCHAR) /\ 1 - 1 = 0
      BY <2>1
    <3>2. Pow2[1] = 2 * Pow2[1 - 1]
      BY <3>1, Pow2Steps
    <3> QED
      BY <3>1, <3>2, Pow2Steps
  <2>3. data[1] \in UCHAR
    BY <1>4, Widths DEF UCHAR
  <2>4. ASSUME NEW j \in n..(BITS_UCHAR - 1) PROVE ~Set(data[1], j)
    <3>1. j \in 0..(2 * BITS_UCHAR) /\ 1 <= j /\ data[1] \in 0..(Pow2[1] - 1)
      BY <1>4, <2>1, <2>2
    <3> QED
      BY <2>2, <3>1, NoHighBits
  <2>5. after = CoilsWrite(first, n, data)
    OBVIOUS
  <2> HIDE DEF n, after
  <2>6. \A b \in Bit : after[b] = IF b \in first..(first + n - 1) THEN Set(data[1], b - first)
                                                               ELSE ucRegCoilsBuf[b]
    BY <1>1, <2>1, <2>3, <2>4, <2>5, FieldWritten
  <2> QED
    BY <2>6 DEF n
<1> HIDE DEF after
<1>10. CASE ex = "NONE"
  <2>1. ucRegCoilsBuf' = after /\ q.cnt \in {0, CoilOn}
    BY <1>2, <1>3, <1>10
  <2>2. Set(data[1], 0) <=> q.cnt # 0
    <3>1. Pow2[0] = 1
      BY Pow2Steps
    <3>2. (0 \div 1) % 2 = 0 /\ (1 \div 1) % 2 = 1
      OBVIOUS
    <3>3. data[1] = 0 \/ data[1] = 1
      BY <1>4
    <3> QED
      BY <1>4, <1>5, <2>1, <3>1, <3>2, <3>3 DEF Set
  <2>3. ASSUME NEW b \in Bit, b \in first..(first + 1 - 1)
        PROVE  ucRegCoilsBuf'[b] = CoilValue(q, b - first)
    <3>1. b - first = 0
      BY <1>1, <2>3
    <3>2. ucRegCoilsBuf'[b] = Set(data[1], 0)
      BY <1>9, <2>1, <2>3, <3>1
    <3>3. CoilValue(q, b - first) = (q.cnt # 0)
      BY <1>2 DEF CoilValue
    <3> QED
      BY <2>2, <3>2, <3>3 DEF Set
  <2>4. CoilBit(q.addr) = first /\ CoilCount(q) = 1
    BY <1>2 DEF CoilBit, CoilCount, first
  <2>5. \A b \in Bit : b \notin first..(first + 1 - 1) => ucRegCoilsBuf'[b] = ucRegCoilsBuf[b]
    BY <1>9, <2>1
  <2>6. CoilExact(q)
    BY <1>6, <1>10, <2>3, <2>4, <2>5 DEF CoilExact
  <2> QED
    BY <1>8, <2>6
<1>11. CASE ex # "NONE"
  BY <1>2, <1>6, <1>8, <1>11 DEF CoilExact
<1> QED
  BY <1>10, <1>11

LEMMA CoilsWritten ==
  ASSUME StateTyped, NEW q, Good(q), eMBFuncWriteMultipleCoils(q)
  PROVE  Answers(q) /\ Exact(q) /\ (OneByte(q) => CoilExact(q))
<1> DEFINE valid == /\ q.len > 5 /\ q.cnt >= 1 /\ q.cnt <= WRITE_COILCNT_MAX
                    /\ q.bytes = NBytes(q.cnt) % UCHAR_MOD
           ex    == Exception(valid, CoilsMapped(Incr(q.addr), q.cnt))
           first == Incr(q.addr)
           after == CoilsWrite(first, q.cnt, q.data)
<1>1. /\ q.addr \in USHORT /\ first \in Nat /\ q.cnt \in Nat /\ ucRegCoilsBuf \in Coils
      /\ q.data \in Seq(UCHAR) /\ Len(q.data) \in Nat
  BY FieldsTyped, AddressKept DEF StateTyped
<1>2. /\ q.fn = 15 /\ reply' = ReplyOf(q, ex, 5, <<>>)
      /\ UNCHANGED <<usRegHoldingBuf, usMBSlaveIDLen>>
      /\ ucRegCoilsBuf' = IF ex = "NONE" THEN after ELSE ucRegCoilsBuf
  BY DEF eMBFuncWriteMultipleCoils
<1>3. ex \in Exceptions /\ (ex = "NONE" => valid)
  BY ExceptionCases
<1>4. valid => q.cnt \in 1..WRITE_COILCNT_MAX /\ q.len > 5
  BY <1>1, SizeAssumption
<1> HIDE DEF ex, valid, first
<1>5. reply'.q = q /\ reply'.ex = ex /\ ReplyTyped(reply')
  <2>1. <<>> \in Seq(UCHAR)
    OBVIOUS
  <2> QED
    BY <1>2, <1>3, <2>1 DEF ReplyOf, ReplyTyped
<1>6. after \in Coils
  BY <1>1, WriteTyped
<1>7. Answers(q) /\ Exact(q)
  <2> HIDE DEF after
  <2> QED
    BY <1>2, <1>5, <1>6, ReadOnly DEF Answers, StateTyped, RegsTyped
<1>8. CASE ex = "NONE" /\ OneByte(q)
  <2> DEFINE n    == q.cnt
             data == q.data
  <2>1. /\ n \in 1..BITS_UCHAR /\ n \in 1..WRITE_COILCNT_MAX
        /\ \A j \in n..(BITS_UCHAR - 1) : ~Set(data[1], j)
    BY <1>1, <1>2, <1>3, <1>4, <1>8 DEF OneByte
  <2>2. data[1] \in UCHAR
    <3>1. WRITE_COILCNT_MAX <= BITS_UCHAR * Len(data) /\ WRITE_COILCNT_MAX >= 1
      BY <1>2, <2>1, SizeAssumption DEF Good, InBuffer
    <3>2. BITS_UCHAR \in Nat /\ BITS_UCHAR * 0 = 0
      BY WidthAssumption
    <3>3. Len(data) # 0
      BY <3>1, <3>2, SizeAssumption
    <3>4. 1 \in 1..Len(data)
      BY <1>1, <3>3
    <3> QED
      BY <1>1, <3>4
  <2>3. \A b \in Bit : after[b] = IF b \in first..(first + n - 1) THEN Set(data[1], b - first)
                                                               ELSE ucRegCoilsBuf[b]
    <3>1. after = CoilsWrite(first, n, data)
      OBVIOUS
    <3> HIDE DEF n, data, after
    <3> QED
      BY <1>1, <2>1, <2>2, <3>1, FieldWritten
  <2> HIDE DEF after
  <2>4. ucRegCoilsBuf' = after /\ reply'.ex = "NONE"
    BY <1>2, <1>5, <1>8
  <2>5. CoilBit(q.addr) = first /\ CoilCount(q) = n
    BY <1>2 DEF CoilBit, CoilCount, first
  <2>6. ASSUME NEW b \in Bit, b \in first..(first + n - 1)
        PROVE  CoilValue(q, b - first) = Set(data[1], b - first)
    <3> DEFINE i == b - first
    <3>1. BITS_UCHAR \in Nat \ {0} /\ i \in 0..(BITS_UCHAR - 1)
      BY <1>1, <2>1, <2>6, WidthAssumption
    <3> HIDE DEF i
    <3>2. i \div BITS_UCHAR = 0 /\ i % BITS_UCHAR = i
      BY <3>1
    <3>3. i \div BITS_UCHAR + 1 = 1
      BY <3>2
    <3>4. CoilValue(q, i) = Set(data[i \div BITS_UCHAR + 1], i % BITS_UCHAR)
      BY <1>2 DEF CoilValue
    <3>5. CoilValue(q, i) = Set(data[1], i)
      BY <3>2, <3>3, <3>4
    <3> QED
      BY <3>5 DEF i
  <2> HIDE DEF n, data
  <2>7. CoilExact(q)
    BY <2>3, <2>4, <2>5, <2>6 DEF CoilExact
  <2> QED
    BY <1>7, <2>7
<1>9. CASE ex # "NONE"
  BY <1>2, <1>5, <1>7, <1>9 DEF CoilExact
<1> QED
  BY <1>7, <1>8, <1>9

-----------------------------------------------------------------------------
(* The inductive invariant: the types, and that the registers and coils    *)
(* still hold what the last request wrote, for eMBSetSlaveID may come      *)
(* between two requests.                                                   *)

Held == Done(reply) => \A r \in Reg : WritesRegister(reply.q, r) =>
                                        Writes(reply.q, r, usRegHoldingBuf[r])

RegInv ==
  /\ master \in Masters /\ StateTyped
  /\ Good(reply.q) /\ ReplyTyped(reply)
  /\ Held

Handles(q) ==
  \/ eMBFuncReadCoils(q) \/ eMBFuncReadDiscreteInputs(q)
  \/ eMBFuncReadHoldingRegister(q) \/ eMBFuncReadInputRegister(q)
  \/ eMBFuncWriteCoil(q) \/ eMBFuncWriteHoldingRegister(q)
  \/ eMBFuncWriteMultipleCoils(q) \/ eMBFuncWriteMultipleHoldingRegister(q)
  \/ eMBFuncReportSlaveID(q) \/ eMBFuncReadWriteMultipleHoldingRegister(q)

LEMMA Handled ==
  ASSUME StateTyped, NEW q, Good(q), Handles(q)
  PROVE  Answers(q) /\ Exact(q)
<1>1. CASE eMBFuncReadCoils(q)
  BY <1>1, BitsRead DEF eMBFuncReadCoils
<1>2. CASE eMBFuncReadDiscreteInputs(q)
  BY <1>2, BitsRead DEF eMBFuncReadDiscreteInputs
<1>3. CASE eMBFuncReadHoldingRegister(q)
  BY <1>3, HoldingReads
<1>4. CASE eMBFuncReadInputRegister(q)
  BY <1>4, InputRegisters
<1>5. CASE eMBFuncWriteCoil(q)
  BY <1>5, CoilSet
<1>6. CASE eMBFuncWriteHoldingRegister(q)
  BY <1>6, SingleWritten
<1>7. CASE eMBFuncWriteMultipleCoils(q)
  BY <1>7, CoilsWritten
<1>8. CASE eMBFuncWriteMultipleHoldingRegister(q)
  BY <1>8, MultipleWritten
<1>9. CASE eMBFuncReportSlaveID(q)
  BY <1>9, SlaveIDReported
<1>10. CASE eMBFuncReadWriteMultipleHoldingRegister(q)
  BY <1>10, ReadWriteDone
<1> QED
  BY <1>1, <1>2, <1>3, <1>4, <1>5, <1>6, <1>7, <1>8, <1>9, <1>10 DEF Handles

(* The handler table: each function code has one handler. *)
LEMMA HandlerOf ==
  ASSUME NEW q, Handles(q)
  PROVE  /\ q.fn = 1 => eMBFuncReadCoils(q)
         /\ q.fn \in {3, 23} =>
              eMBFuncReadHoldingRegister(q) \/ eMBFuncReadWriteMultipleHoldingRegister(q)
         /\ q.fn \in {5, 15} => eMBFuncWriteCoil(q) \/ eMBFuncWriteMultipleCoils(q)
<1>1. eMBFuncReadCoils(q) => q.fn = 1
  BY DEF eMBFuncReadCoils
<1>2. eMBFuncReadDiscreteInputs(q) => q.fn = 2
  BY DEF eMBFuncReadDiscreteInputs
<1>3. eMBFuncReadHoldingRegister(q) => q.fn = 3
  BY DEF eMBFuncReadHoldingRegister
<1>4. eMBFuncReadInputRegister(q) => q.fn = 4
  BY DEF eMBFuncReadInputRegister
<1>5. eMBFuncWriteCoil(q) => q.fn = 5
  BY DEF eMBFuncWriteCoil
<1>6. eMBFuncWriteHoldingRegister(q) => q.fn = 6
  BY DEF eMBFuncWriteHoldingRegister
<1>7. eMBFuncWriteMultipleCoils(q) => q.fn = 15
  BY DEF eMBFuncWriteMultipleCoils
<1>8. eMBFuncWriteMultipleHoldingRegister(q) => q.fn = 16
  BY DEF eMBFuncWriteMultipleHoldingRegister
<1>9. eMBFuncReportSlaveID(q) => q.fn = 17
  BY DEF eMBFuncReportSlaveID
<1>10. eMBFuncReadWriteMultipleHoldingRegister(q) => q.fn = 23
  BY DEF eMBFuncReadWriteMultipleHoldingRegister
<1> QED
  BY <1>1, <1>2, <1>3, <1>4, <1>5, <1>6, <1>7, <1>8, <1>9, <1>10 DEF Handles

(* A step answers a request of the master, or sets the slave id, or does   *)
(* nothing.                                                                *)
Quiet == UNCHANGED <<master, usRegHoldingBuf, ucRegCoilsBuf, reply>>
LEMMA Steps ==
  ASSUME RegInv, [Next]_vars
  PROVE  \/ master' = master /\ \E q \in Requests[master] : Good(q) /\ Handles(q)
         \/ Quiet /\ usMBSlaveIDLen' \in 0..(SLAVEID_BUF - 1)
<1>1. master \in Masters /\ usMBSlaveIDLen \in 0..(SLAVEID_BUF - 1)
  BY DEF RegInv, StateTyped
<1>2. CASE UNCHANGED vars
  BY <1>1, <1>2 DEF vars, Quiet
<1>3. CASE /\ master' = master
           /\ \E q \in Requests[master] : Handles(q)
  <2>1. \A q \in Requests[master] : Good(q)
    BY <1>1, RequestAssumption DEF Good
  <2> QED
    BY <1>3, <2>1
<1>4. ASSUME master' = master, NEW n \in AdditionalLens[master], eMBSetSlaveID(n)
      PROVE  Quiet /\ usMBSlaveIDLen' \in 0..(SLAVEID_BUF - 1)
  <2>1. n \in Nat
    BY <1>1, RequestAssumption
  <2> QED
    BY <1>4, <2>1, SizeAssumption DEF eMBSetSlaveID, Quiet
<1> QED
  BY <1>2, <1>3, <1>4 DEF Next, Handles

LEMMA RegInitSafe == Init => RegInv
<1> SUFFICES ASSUME Init PROVE RegInv
  OBVIOUS
<1>1. master \in Masters /\ StateTyped
  BY ContentsAssumption, SizeAssumption DEF Init, StateTyped, RegsTyped, Coils
<1>2. 0 \in USHORT /\ 0 \in UCHAR /\ <<>> \in Seq(UCHAR) /\ 1 \in Nat /\ 0 \in Nat
  BY Widths DEF USHORT, UCHAR
<1>3. Good(reply.q) /\ ReplyTyped(reply) /\ reply.q.fn = 17
  BY <1>2 DEF Init, NoReply, Good, Request, Function, InBuffer, ReplyTyped, Exceptions
<1>4. Held
  BY <1>3 DEF Held, Writes, WritesRegister
<1> QED
  BY <1>1, <1>3, <1>4 DEF RegInv

LEMMA RegStepSafe == RegInv /\ [Next]_vars => RegInv'
<1> SUFFICES ASSUME RegInv, [Next]_vars PROVE RegInv'
  OBVIOUS
<1>1. StateTyped
  BY DEF RegInv
<1>2. ASSUME master' = master, NEW q \in Requests[master], Good(q), Handles(q) PROVE RegInv'
  <2>1. Answers(q) /\ Exact(q)
    BY <1>1, <1>2, Handled
  <2>2. master' \in Masters /\ StateTyped' /\ Good(reply.q)' /\ ReplyTyped(reply)'
    BY <1>2, <2>1 DEF RegInv, StateTyped, RegsTyped, Answers, Good, ReplyTyped, InBuffer
  <2>3. Held'
    <3>1. reply'.q = q
      BY <2>1 DEF Answers
    <3>2. Done(reply') => \A r \in Reg : WritesRegister(q, r) => Writes(q, r, usRegHoldingBuf'[r])
      BY <2>1 DEF Exact
    <3> QED
      BY <3>1, <3>2 DEF Held, Done
  <2> QED
    BY <2>2, <2>3 DEF RegInv
<1>3. ASSUME Quiet, usMBSlaveIDLen' \in 0..(SLAVEID_BUF - 1) PROVE RegInv'
  BY <1>3 DEF Quiet, RegInv, StateTyped, RegsTyped, Good, InBuffer, ReplyTyped, Held, Done
<1> QED
  BY <1>2, <1>3, Steps

LEMMA RegInvariance == Spec => []RegInv
<1> QED
  BY RegInitSafe, RegStepSafe, PTL DEF Spec

(* Every variable of the register map keeps its type, the answers are      *)
(* bytes, and the slave id stays inside its buffer.                        *)
THEOREM RegistersTypeCorrect == Spec => []TypeOK
<1>1. RegInv => TypeOK
  BY DEF RegInv, StateTyped, RegsTyped, Coils, ReplyTyped, Exceptions, TypeOK
<1> QED
  BY <1>1, RegInvariance, PTL

(* The handlers of mbfuncholding.c with eMBRegHoldingCB change exactly the *)
(* registers a request names, to what it says, at every address and count; *)
(* a refused request changes nothing, but for the write half of function   *)
(* 23.                                                                     *)
THEOREM WritesAreExact == Spec => WritesExactly
<1> DEFINE A == LET q == reply'.q
                IN  /\ \A r \in Reg : usRegHoldingBuf'[r] # usRegHoldingBuf[r] =>
                                        Writes(q, r, usRegHoldingBuf'[r])
                    /\ Done(reply') => \A r \in Reg : WritesRegister(q, r) =>
                                                        Writes(q, r, usRegHoldingBuf'[r])
                    /\ reply'.ex # "NONE" /\ usRegHoldingBuf' # usRegHoldingBuf =>
                         q.fn = 23 /\ reply'.ex = "ILLEGAL_DATA_ADDRESS" /\ q.addr + q.cnt > NREGS
<1>1. ASSUME RegInv, [Next]_vars PROVE A
  <2>1. ASSUME NEW q \in Requests[master], Good(q), Handles(q) PROVE A
    <3>1. Answers(q) /\ Exact(q)
      BY <1>1, <2>1, Handled DEF RegInv
    <3>2. reply'.q = q
      BY <3>1 DEF Answers
    <3> QED
      BY <3>1, <3>2 DEF Exact
  <2>2. ASSUME Quiet PROVE A
    <3>1. Held /\ usRegHoldingBuf' = usRegHoldingBuf /\ reply' = reply
      BY <1>1, <2>2 DEF Quiet, RegInv
    <3> QED
      BY <3>1 DEF Held
  <2> QED
    BY <1>1, <2>1, <2>2, Steps
<1>2. RegInv /\ [Next]_vars => [A]_vars
  BY <1>1
<1> QED
  BY <1>2, RegInvariance, PTL DEF Spec, WritesExactly

(* Function 3 takes a count of 256 or more for a small one                 *)
(* (mbfuncholding.c:185).                                                  *)
ShortCounts == \A m \in Masters : \A q \in Requests[m] : q.fn = 3 => q.cnt < UCHAR_MOD

(* Reads of holding registers, alone or after the write half of function   *)
(* 23, answer with the registers asked for, as many as asked for, as they  *)
(* are, when no count for function 3 needs more than a byte.               *)
THEOREM ReadsAreCurrent == ShortCounts => (Spec => []ReadsCurrent)
<1> SUFFICES ASSUME ShortCounts PROVE Spec => []ReadsCurrent
  OBVIOUS
<1>1. Init => ReadsCurrent
  BY DEF Init, NoReply, ReadsCurrent
<1>2. ASSUME RegInv, ReadsCurrent, [Next]_vars PROVE ReadsCurrent'
  <2>1. ASSUME master' = master, NEW q \in Requests[master], Good(q), Handles(q)
        PROVE  ReadsCurrent'
    <3>1. StateTyped /\ q.cnt \in Nat /\ Answers(q)
      BY <1>2, <2>1, Handled, FieldsTyped DEF RegInv
    <3>2. reply'.q = q
      BY <3>1 DEF Answers
    <3>3. CASE eMBFuncReadHoldingRegister(q)
      <4>1. q.cnt < UCHAR_MOD
        BY <1>2, <2>1, <3>3 DEF ShortCounts, RegInv, eMBFuncReadHoldingRegister
      <4>2. q.cnt % UCHAR_MOD = q.cnt
        BY <3>1, <4>1, Widths
      <4>3. reply'.ex = "NONE" =>
              /\ Len(reply'.values) = 2 * q.cnt /\ reply'.len = 2 + 2 * q.cnt
              /\ \A i \in 1..q.cnt : WordAt(reply'.values, i) = usRegHoldingBuf'[q.addr + i - 1]
        BY <2>1, <3>1, <3>3, <4>2, HoldingReads
      <4> QED
        BY <3>2, <4>3 DEF ReadsCurrent, Done, WordAt
    <3>4. CASE eMBFuncReadWriteMultipleHoldingRegister(q)
      <4>1. Done(reply') =>
              /\ Len(reply'.values) = 2 * q.cnt /\ reply'.len = 2 + 2 * q.cnt
              /\ \A i \in 1..q.cnt : WordAt(reply'.values, i) = usRegHoldingBuf'[q.addr + i - 1]
        BY <2>1, <3>1, <3>4, ReadWriteDone
      <4> QED
        BY <3>2, <4>1 DEF ReadsCurrent, Done, WordAt
    <3>5. CASE q.fn \notin {3, 23}
      BY <3>2, <3>5 DEF ReadsCurrent
    <3>6. q.fn \in {3, 23} =>
            eMBFuncReadHoldingRegister(q) \/ eMBFuncReadWriteMultipleHoldingRegister(q)
      BY <2>1, HandlerOf
    <3> QED
      BY <3>3, <3>4, <3>5, <3>6
  <2>2. ASSUME Quiet PROVE ReadsCurrent'
    BY <1>2, <2>2 DEF Quiet, ReadsCurrent, Done, WordAt
  <2> QED
    BY <1>2, <2>1, <2>2, Steps
<1> QED
  BY <1>1, <1>2, RegInvariance, PTL DEF Spec

(* Reads of coils answer with exactly the coils asked for, as they are,    *)
(* the padding zero, whatever byte the first one lies in: eMBRegCoilsCB    *)
(* with xMBUtilGetBits at every offset and count.                          *)
THEOREM CoilReadsAreCurrent == Spec => []CoilsReadCurrent
<1>1. Init => CoilsReadCurrent
  BY DEF Init, NoReply, CoilsReadCurrent
<1>2. ASSUME RegInv, CoilsReadCurrent, [Next]_vars PROVE CoilsReadCurrent'
  <2>1. ASSUME master' = master, NEW q \in Requests[master], Good(q), Handles(q)
        PROVE  CoilsReadCurrent'
    <3>1. StateTyped /\ q.cnt \in Nat /\ q.addr \in USHORT /\ Answers(q)
      BY <1>2, <2>1, Handled, FieldsTyped DEF RegInv
    <3>2. reply'.q = q
      BY <3>1 DEF Answers
    <3>3. CASE eMBFuncReadCoils(q)
      <4> DEFINE off    == Incr(q.addr)
                 n      == q.cnt
                 values == reply'.values
      <4>1. q.fn = 1 /\ ReadBits(q, ucRegCoilsBuf)
        BY <3>3 DEF eMBFuncReadCoils
      <4>2. /\ ucRegCoilsBuf' = ucRegCoilsBuf
            /\ reply'.ex = "NONE" =>
                 /\ n >= 1 /\ off + n <= COILS_SIZE
                 /\ reply'.len = 2 + Len(values) /\ values = PackedBits(ucRegCoilsBuf, off, n)
        BY <2>1, <3>1, <4>1, BitsRead
      <4>3. off \in Nat /\ n \in Nat
        BY <3>1, AddressKept
      <4> HIDE DEF off, n, values
      <4>4. reply'.ex = "NONE" =>
              /\ Len(values) = NBytes(n)
              /\ \A i \in 0..(NBytes(n) * BITS_UCHAR - 1) :
                   Set(values[i \div BITS_UCHAR + 1], i % BITS_UCHAR) <=>
                     i < n /\ ucRegCoilsBuf[off + i]
        <5>1. n >= 1 => n \in Nat \ {0}
          BY <4>3
        <5> QED
          BY <4>2, <4>3, <5>1, CoilsPacked
      <4>5. reply'.ex = "NONE" =>
              /\ reply'.len = 2 + Len(values) /\ off + n <= COILS_SIZE
              /\ \A i \in 0..(Len(values) * BITS_UCHAR - 1) :
                   Set(values[i \div BITS_UCHAR + 1], i % BITS_UCHAR) <=>
                     i < n /\ ucRegCoilsBuf'[off + i]
        BY <4>2, <4>4
      <4> QED
        BY <3>2, <4>5 DEF CoilsReadCurrent, CoilBit, Set, Incr, off, n, values
    <3>4. CASE q.fn # 1
      BY <3>2, <3>4 DEF CoilsReadCurrent
    <3>5. q.fn = 1 => eMBFuncReadCoils(q)
      BY <2>1, HandlerOf
    <3> QED
      BY <3>3, <3>4, <3>5
  <2>2. ASSUME Quiet PROVE CoilsReadCurrent'
    BY <1>2, <2>2 DEF Quiet, CoilsReadCurrent, CoilBit, Set, Incr
  <2> QED
    BY <1>2, <2>1, <2>2, Steps
<1> QED
  BY <1>1, <1>2, RegInvariance, PTL DEF Spec

(* Named coils keep what the last request gave them. *)
CoilsHeld ==
  reply.q.fn \in {5, 15} /\ reply.ex = "NONE" =>
    \A b \in CoilBit(reply.q.addr)..(CoilBit(reply.q.addr) + CoilCount(reply.q) - 1) :
      b \in Bit => ucRegCoilsBuf[b] = CoilValue(reply.q, b - CoilBit(reply.q.addr))

(* An acknowledged write of coils, of at most one byte with zero padding,  *)
(* gives the coils it names their values and leaves every other one as it  *)
(* was, although xMBUtilSetBits works on words of two bytes.               *)
THEOREM CoilWritesAreExact == OneByteWrites => (Spec => CoilsWrittenExactly)
<1> SUFFICES ASSUME OneByteWrites PROVE Spec => CoilsWrittenExactly
  OBVIOUS
<1> DEFINE A == reply'.q.fn \in {5, 15} =>
                  LET q     == reply'.q
                      first == CoilBit(q.addr)
                      named == IF reply'.ex = "NONE" THEN first..(first + CoilCount(q) - 1) ELSE {}
                  IN  \A b \in Bit : ucRegCoilsBuf'[b] = IF b \in named THEN CoilValue(q, b - first)
                                                                        ELSE ucRegCoilsBuf[b]
<1>1. ASSUME RegInv, NEW q \in Requests[master], Good(q), Handles(q)
      PROVE  reply'.q = q /\ (q.fn \in {5, 15} => CoilExact(q))
  <2>1. StateTyped /\ Answers(q) /\ OneByte(q)
    BY <1>1, Handled DEF RegInv, OneByteWrites
  <2>2. q.fn \in {5, 15} => eMBFuncWriteCoil(q) \/ eMBFuncWriteMultipleCoils(q)
    BY <1>1, HandlerOf
  <2>3. eMBFuncWriteCoil(q) => CoilExact(q)
    BY <1>1, <2>1, CoilSet
  <2>4. eMBFuncWriteMultipleCoils(q) => CoilExact(q)
    BY <1>1, <2>1, CoilsWritten
  <2> QED
    BY <2>1, <2>2, <2>3, <2>4 DEF Answers
<1>2. Init => CoilsHeld
  BY DEF Init, NoReply, CoilsHeld
<1>3. ASSUME RegInv, CoilsHeld, [Next]_vars PROVE CoilsHeld'
  <2>1. ASSUME NEW q \in Requests[master], Good(q), Handles(q) PROVE CoilsHeld'
    <3>1. reply'.q = q /\ (q.fn \in {5, 15} => CoilExact(q))
      BY <1>1, <1>3, <2>1
    <3> QED
      BY <3>1 DEF CoilExact, CoilsHeld, CoilBit, CoilCount, CoilValue, Incr, Set
  <2>2. ASSUME Quiet PROVE CoilsHeld'
    BY <1>3, <2>2 DEF Quiet, CoilsHeld, CoilBit, CoilCount, CoilValue, Incr, Set
  <2> QED
    BY <1>3, <2>1, <2>2, Steps
<1>4. ASSUME RegInv, CoilsHeld, [Next]_vars PROVE A
  <2>1. ASSUME NEW q \in Requests[master], Good(q), Handles(q) PROVE A
    <3>1. reply'.q = q /\ (q.fn \in {5, 15} => CoilExact(q))
      BY <1>1, <1>4, <2>1
    <3> QED
      BY <3>1 DEF CoilExact
  <2>2. ASSUME Quiet PROVE A
    BY <1>4, <2>2 DEF Quiet, CoilsHeld
  <2> QED
    BY <1>4, <2>1, <2>2, Steps
<1>5. RegInv /\ CoilsHeld /\ [Next]_vars => [A]_vars
  BY <1>4
<1> HIDE DEF A
<1>6. Spec => [][A]_vars
  BY <1>2, <1>3, <1>5, RegInvariance, PTL DEF Spec
<1> QED
  BY <1>6 DEF A, CoilsWrittenExactly

=============================================================================
