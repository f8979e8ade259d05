----------------------------- MODULE RulesProofs -----------------------------
(***************************************************************************)
(* Proofs about the rules of a block, for any widths, constants, times and *)
(* blocks: the difficulty rule and its compact encoding, the subsidy       *)
(* schedule, the Merkle commitments of a header, the nonce search, and the *)
(* binary encoding.                                                        *)
(***************************************************************************)
EXTENDS Difficulty, Emission, Merkle, MinerLoop, Wire, SumProofs, SequenceTheorems

-----------------------------------------------------------------------------
(***************************************************************************)
(* Powers and quotients of naturals.                                       *)
(***************************************************************************)
LEMMA TimesNat == ASSUME NEW x \in Nat, NEW y \in Nat PROVE x * y \in Nat
OBVIOUS

LEMMA TimesMonotone ==
  ASSUME NEW x \in Nat, NEW y \in Nat, NEW z \in Nat, x <= y
  PROVE  x * z <= y * z
OBVIOUS

LEMMA TimesCancels ==
  ASSUME NEW x \in Nat, NEW y \in Nat, NEW z \in Nat \ {0}, z * x <= z * y
  PROVE  x <= y
OBVIOUS

LEMMA TimesPositive ==
  ASSUME NEW x \in Nat \ {0}, NEW y \in Nat \ {0}
  PROVE  x * y \in Nat \ {0}
OBVIOUS

\* The table of powers up to the n-th.
Table(g, b, n) == g = [i \in 0..n |-> IF i = 0 THEN 1 ELSE b * g[i - 1]]

LEMMA TableSteps ==
  ASSUME NEW b, NEW n \in Nat, NEW g, Table(g, b, n)
  PROVE  g[0] = 1 /\ \A i \in 0..(n - 1) : g[i + 1] = b * g[i]
<1>1. 0 \in 0..n
  OBVIOUS
<1>2. ASSUME NEW i \in 0..(n - 1)
      PROVE  i + 1 \in 0..n /\ i + 1 # 0 /\ (i + 1) - 1 = i
  BY <1>2
<1>3. g = [i \in 0..n |-> IF i = 0 THEN 1 ELSE b * g[i - 1]]
  BY DEF Table
<1> QED BY <1>1, <1>2, <1>3

LEMMA TableExists ==
  ASSUME NEW b
  PROVE  \A n \in Nat : \E g : Table(g, b, n)
<1> DEFINE S == {n \in Nat : \E g : Table(g, b, n)}
<1>1. 0 \in S
  <2>1. Table([i \in 0..0 |-> 1], b, 0)
    BY DEF Table
  <2> QED BY <2>1
<1>2. ASSUME NEW m \in Nat, m \in S PROVE m + 1 \in S
  <2>1. PICK g : Table(g, b, m)
    BY <1>2
  <2>2. PICK h : h = [n \in 0..(m + 1) |-> IF n = m + 1 THEN b * g[m] ELSE g[n]]
    OBVIOUS
  <2>3. ASSUME NEW n \in 0..(m + 1)
        PROVE  h[n] = IF n = 0 THEN 1 ELSE b * h[n - 1]
    <3>1. CASE n = m + 1
      <4>1. n # 0 /\ n - 1 = m /\ m \in 0..(m + 1) /\ m # m + 1
        BY <1>2, <3>1
      <4> QED BY <2>2, <3>1, <4>1
    <3>2. CASE n # m + 1
      <4>1. n \in 0..m
        BY <1>2, <3>2
      <4>2. h[n] = g[n] /\ g[n] = IF n = 0 THEN 1 ELSE b * g[n - 1]
        BY <2>1, <2>2, <3>2, <4>1 DEF Table
      <4>3. n # 0 => n - 1 \in 0..(m + 1) /\ n - 1 # m + 1
        BY <1>2, <3>2, <4>1
      <4> QED BY <2>2, <4>2, <4>3
    <3> QED BY <3>1, <3>2
  <2>4. Table(h, b, m + 1)
    BY <2>2, <2>3, Zenon DEF Table
  <2> QED BY <2>4
<1> HIDE DEF S
<1>3. \A m \in Nat : m \in S
  BY <1>1, <1>2, NatSetInduction
<1> QED BY <1>3 DEF S

LEMMA TablesAgree ==
  ASSUME NEW b, NEW n \in Nat, NEW g, Table(g, b, n), NEW h, Table(h, b, n + 1)
  PROVE  \A i \in 0..n : g[i] = h[i]
<1>1. g[0] = 1 /\ \A i \in 0..(n - 1) : g[i + 1] = b * g[i]
  BY TableSteps
<1>2. h[0] = 1 /\ \A i \in 0..((n + 1) - 1) : h[i + 1] = b * h[i]
  BY TableSteps
<1> DEFINE S == {i \in Nat : i <= n => g[i] = h[i]}
<1>3. 0 \in S
  BY <1>1, <1>2
<1>4. ASSUME NEW i \in Nat, i \in S PROVE i + 1 \in S
  <2> SUFFICES ASSUME i + 1 <= n PROVE g[i + 1] = h[i + 1]
    OBVIOUS
  <2>1. i \in 0..(n - 1) /\ i \in 0..((n + 1) - 1) /\ i <= n
    OBVIOUS
  <2>2. g[i] = h[i]
    BY <1>4, <2>1
  <2> QED BY <1>1, <1>2, <2>1, <2>2
<1> HIDE DEF S
<1>5. \A i \in Nat : i \in S
  BY <1>3, <1>4, NatSetInduction
<1> QED BY <1>5 DEF S

LEMMA ExpDef ==
  ASSUME NEW b
  PROVE  Exp(b, 0) = 1 /\ \A n \in Nat : Exp(b, n + 1) = b * Exp(b, n)
<1>1. ASSUME NEW n \in Nat PROVE \E g : Table(g, b, n) /\ Exp(b, n) = g[n]
  <2>1. \E g : g = [i \in 0..n |-> IF i = 0 THEN 1 ELSE b * g[i - 1]]
    BY TableExists DEF Table
  <2> DEFINE p == CHOOSE g : g = [i \in 0..n |-> IF i = 0 THEN 1 ELSE b * g[i - 1]]
  <2>2. p = [i \in 0..n |-> IF i = 0 THEN 1 ELSE b * p[i - 1]]
    BY <2>1, Zenon
  <2>3. Exp(b, n) = p[n]
    BY DEF Exp
  <2> HIDE DEF p
  <2> QED BY <2>2, <2>3 DEF Table
<1>2. Exp(b, 0) = 1
  BY <1>1, TableSteps
<1>3. ASSUME NEW n \in Nat PROVE Exp(b, n + 1) = b * Exp(b, n)
  <2>1. PICK g : Table(g, b, n) /\ Exp(b, n) = g[n]
    BY <1>1
  <2>2. PICK h : Table(h, b, n + 1) /\ Exp(b, n + 1) = h[n + 1]
    BY <1>1
  <2>3. n \in 0..n /\ n \in 0..((n + 1) - 1)
    OBVIOUS
  <2>4. g[n] = h[n]
    BY <2>1, <2>2, <2>3, TablesAgree
  <2>5. h[n + 1] = b * h[n]
    BY <2>2, <2>3, TableSteps
  <2> QED BY <2>1, <2>2, <2>4, <2>5
<1> QED BY <1>2, <1>3

LEMMA ExpType ==
  ASSUME NEW b \in Nat
  PROVE  \A n \in Nat : Exp(b, n) \in Nat /\ (b # 0 => Exp(b, n) # 0)
<1>1. PICK p : p = [n \in Nat |-> Exp(b, n)]
  OBVIOUS
<1>2. p[0] = 1 /\ \A n \in Nat : p[n + 1] = b * p[n]
  BY <1>1, ExpDef
<1> DEFINE S == {n \in Nat : p[n] \in Nat /\ (b # 0 => p[n] # 0)}
<1>3. 0 \in S
  BY <1>2
<1>4. ASSUME NEW n \in Nat, n \in S PROVE n + 1 \in S
  <2>1. PICK x \in Nat : x = p[n] /\ (b # 0 => x # 0)
    BY <1>4
  <2>2. b * x \in Nat
    BY TimesNat
  <2>3. b # 0 => b * x # 0
    BY <2>1, TimesPositive
  <2> QED BY <1>2, <2>1, <2>2, <2>3
<1> HIDE DEF S
<1>5. \A n \in Nat : n \in S
  BY <1>3, <1>4, NatSetInduction
<1> QED BY <1>1, <1>5 DEF S

LEMMA ExpAdd ==
  ASSUME NEW b \in Nat, NEW m \in Nat
  PROVE  \A n \in Nat : Exp(b, m + n) = Exp(b, m) * Exp(b, n)
<1>1. PICK p : p = [n \in Nat |-> Exp(b, n)]
  OBVIOUS
<1>2. p[0] = 1 /\ \A n \in Nat : p[n + 1] = b * p[n]
  BY <1>1, ExpDef
<1>3. \A n \in Nat : p[n] \in Nat
  BY <1>1, ExpType
<1> DEFINE S == {k \in Nat : p[m + k] = p[m] * p[k]}
<1>4. 0 \in S
  <2>1. p[m] \in Nat /\ m + 0 = m
    BY <1>3
  <2> QED BY <1>2, <2>1
<1>5. ASSUME NEW k \in Nat, k \in S PROVE k + 1 \in S
  <2>1. m + (k + 1) = (m + k) + 1 /\ m + k \in Nat
    OBVIOUS
  <2>2. p[m + (k + 1)] = b * p[m + k] /\ p[k + 1] = b * p[k]
    BY <1>2, <2>1
  <2>3. p[m + k] = p[m] * p[k]
    BY <1>5
  <2>4. PICK x \in Nat, y \in Nat : x = p[m] /\ y = p[k]
    BY <1>3
  <2>5. b * (x * y) = x * (b * y)
    OBVIOUS
  <2> QED BY <2>2, <2>3, <2>4, <2>5
<1> HIDE DEF S
<1>6. \A k \in Nat : k \in S
  BY <1>4, <1>5, NatSetInduction
<1>7. \A k \in Nat : m + k \in Nat
  OBVIOUS
<1> QED BY <1>1, <1>6, <1>7 DEF S

\* A power of a power.
LEMMA ExpExp ==
  ASSUME NEW b \in Nat, NEW m \in Nat
  PROVE  \A n \in Nat : Exp(Exp(b, m), n) = Exp(b, m * n)
<1>1. PICK c \in Nat : c = Exp(b, m)
  BY ExpType
<1> DEFINE S == {n \in Nat : Exp(c, n) = Exp(b, m * n)}
<1>2. 0 \in S
  <2>1. m * 0 = 0
    OBVIOUS
  <2> QED BY <2>1, ExpDef
<1>3. ASSUME NEW n \in Nat, n \in S PROVE n + 1 \in S
  <2>1. PICK k \in Nat : k = m * n /\ m * (n + 1) = m + k
    BY TimesNat
  <2>2. Exp(b, m + k) = c * Exp(b, k)
    BY <1>1, ExpAdd
  <2>3. Exp(c, n + 1) = c * Exp(c, n)
    BY ExpDef
  <2> QED BY <1>3, <2>1, <2>2, <2>3
<1> HIDE DEF S
<1>4. \A n \in Nat : n \in S
  BY <1>2, <1>3, NatSetInduction
<1> QED BY <1>1, <1>4 DEF S

LEMMA ExpMonotone ==
  ASSUME NEW b \in Nat \ {0}, NEW m \in Nat, NEW n \in Nat, m <= n
  PROVE  Exp(b, m) <= Exp(b, n)
<1>1. PICK d \in Nat : n = m + d
  <2>1. n - m \in Nat /\ n = m + (n - m)
    OBVIOUS
  <2> QED BY <2>1
<1>2. PICK x \in Nat, y \in Nat \ {0} : x = Exp(b, m) /\ y = Exp(b, d)
  BY ExpType
<1>3. Exp(b, n) = x * y
  BY <1>1, <1>2, ExpAdd
<1>4. 1 * x <= y * x
  BY <1>2, TimesMonotone
<1>5. 1 * x = x /\ y * x = x * y
  OBVIOUS
<1> QED BY <1>2, <1>3, <1>4, <1>5

\* Quotients.
LEMMA Floor ==
  ASSUME NEW x \in Nat, NEW d \in Nat \ {0}
  PROVE  x \div d \in Nat /\ d * (x \div d) <= x /\ x < d * (x \div d) + d
OBVIOUS

LEMMA QuotientIs ==
  ASSUME NEW x \in Nat, NEW d \in Nat \ {0}, NEW q \in Nat, d * q <= x, x < d * q + d
  PROVE  x \div d = q
OBVIOUS

LEMMA QuotientOfProduct ==
  ASSUME NEW x \in Nat, NEW d \in Nat \ {0}
  PROVE  (x * d) \div d = x
<1>1. PICK y \in Nat : y = x * d
  BY TimesNat
<1>2. d * x <= y /\ y < d * x + d
  BY <1>1
<1> QED BY <1>1, <1>2, QuotientIs

LEMMA QuotientOfQuotient ==
  ASSUME NEW x \in Nat, NEW c \in Nat \ {0}, NEW d \in Nat \ {0}
  PROVE  (x \div c) \div d = x \div (c * d)
<1>1. PICK y \in Nat : y = x \div c /\ c * y <= x /\ x < c * y + c
  BY Floor
<1>2. PICK q \in Nat : q = y \div d /\ d * q <= y /\ y < d * q + d
  BY Floor
<1>3. PICK e \in Nat \ {0} : e = c * d
  BY TimesPositive
<1>4. e * q <= x
  <2>1. (d * q) * c <= y * c
    BY <1>2, TimesNat, TimesMonotone
  <2>2. (d * q) * c = (c * d) * q /\ y * c = c * y
    OBVIOUS
  <2>3. e * q \in Nat /\ c * y \in Nat
    BY TimesNat
  <2> QED BY <1>1, <1>3, <2>1, <2>2, <2>3
<1>5. x < e * q + e
  <2>1. PICK z \in Nat : z = d * q /\ y + 1 <= z + d
    BY <1>2, TimesNat
  <2>2. (y + 1) * c <= (z + d) * c
    BY <2>1, TimesMonotone
  <2>3. (y + 1) * c = c * y + c /\ (z + d) * c = z * c + c * d
    OBVIOUS
  <2>4. z * c = (c * d) * q
    BY <2>1
  <2>5. c * y \in Nat /\ e * q \in Nat
    BY TimesNat
  <2> QED BY <1>1, <1>3, <2>2, <2>3, <2>4, <2>5
<1> QED BY <1>1, <1>2, <1>3, <1>4, <1>5, QuotientIs

LEMMA QuotientMonotone ==
  ASSUME NEW x \in Nat, NEW y \in Nat, NEW d \in Nat \ {0}, x <= y
  PROVE  x \div d <= y \div d
<1>1. PICK p \in Nat : p = x \div d /\ d * p <= x /\ x < d * p + d
  BY Floor
<1>2. PICK q \in Nat : q = y \div d /\ d * q <= y /\ y < d * q + d
  BY Floor
<1>3. ASSUME q + 1 <= p PROVE FALSE
  <2>1. (q + 1) * d <= p * d
    BY <1>3, TimesMonotone
  <2>2. (q + 1) * d = d * q + d /\ p * d = d * p
    OBVIOUS
  <2>3. d * p \in Nat /\ d * q \in Nat
    BY TimesNat
  <2> QED BY <1>1, <1>2, <2>1, <2>2, <2>3
<1> QED BY <1>1, <1>2, <1>3

-----------------------------------------------------------------------------
(***************************************************************************)
(* Difficulty: the compact encoding.                                       *)
(***************************************************************************)
LEMMA Widths ==
    /\ BYTE_BITS \in Nat \ {0} /\ WORD \in Nat /\ WORD >= 3
    /\ FRAC \in Nat \ {0} /\ POLY_ONE \in Nat \ {0}
    /\ BLOCK_INTERVAL \in Nat \ {0} /\ ASERT_TAU \in Nat \ {0} /\ MTP_WINDOW \in Nat \ {0}
    /\ POLY[1] \in Nat /\ POLY[2] \in Nat /\ POLY[3] \in Nat
    /\ Times \subseteq Nat
<1>1. POLY[1] \in Nat /\ POLY[2] \in Nat /\ POLY[3] \in Nat
  <2>1. \A i \in 1..3 : POLY[i] \in Nat
    BY DifficultyAssumption
  <2> QED BY ONLY <2>1
<1>2. /\ BYTE_BITS \in Nat \ {0} /\ FRAC \in Nat \ {0} /\ POLY_ONE \in Nat \ {0}
      /\ BLOCK_INTERVAL \in Nat \ {0} /\ ASERT_TAU \in Nat \ {0} /\ MTP_WINDOW \in Nat \ {0}
  <2>1. {BYTE_BITS, FRAC, POLY_ONE, BLOCK_INTERVAL, ASERT_TAU, MTP_WINDOW} \subseteq Nat \ {0}
    BY DifficultyAssumption
  <2> QED BY ONLY <2>1
<1>3. WORD \in Nat /\ WORD >= 3 /\ Times \subseteq Nat
  BY DifficultyAssumption
<1> QED BY <1>1, <1>2, <1>3

\* Half a byte: a byte is a power of two.
HalfByte == BYTE \div 2

LEMMA ByteFacts ==
    /\ HalfByte \in Nat \ {0} /\ BYTE \in Nat \ {0} /\ BYTE = 2 * HalfByte /\ BYTE >= 2
    /\ SIGN = HalfByte * (BYTE * BYTE) /\ Exp(BYTE, 1) = BYTE /\ Exp(BYTE, 2) = BYTE * BYTE
    /\ Exp(BYTE, 3) = BYTE * (BYTE * BYTE)
<1>1. PICK m \in Nat : BYTE_BITS = m + 1
  <2>1. BYTE_BITS - 1 \in Nat /\ BYTE_BITS = (BYTE_BITS - 1) + 1
    BY Widths
  <2> QED BY <2>1
<1>2. PICK h \in Nat \ {0} : h = Exp(2, m)
  BY ExpType
<1>3. PICK b \in Nat : b = BYTE /\ b = 2 * h
  <2>1. Exp(2, m + 1) = 2 * Exp(2, m)
    BY ExpDef
  <2>2. 2 * h \in Nat /\ BYTE = 2 * h
    BY <1>1, <1>2, <2>1 DEF BYTE
  <2> QED BY <2>2
<1>4. HalfByte = h
  BY <1>3 DEF HalfByte
<1>5. Exp(b, 1) = b /\ Exp(b, 2) = b * b /\ Exp(b, 3) = b * (b * b)
  <2>1. 0 + 1 = 1 /\ 1 + 1 = 2 /\ 2 + 1 = 3 /\ b * 1 = b
    OBVIOUS
  <2>2. Exp(b, 0) = 1 /\ Exp(b, 0 + 1) = b * Exp(b, 0) /\ Exp(b, 1 + 1) = b * Exp(b, 1)
        /\ Exp(b, 2 + 1) = b * Exp(b, 2)
    BY ExpDef
  <2> QED BY <2>1, <2>2
<1>6. SIGN = h * (b * b)
  <2>1. PICK c \in Nat : c = b * b
    BY TimesNat
  <2>2. PICK x \in Nat : x = h * c
    BY TimesNat
  <2>3. b * c = x * 2
    BY <1>3, <2>2
  <2>4. (x * 2) \div 2 = x
    BY QuotientOfProduct
  <2> QED BY <1>3, <1>5, <2>1, <2>2, <2>3, <2>4 DEF SIGN
<1> QED BY <1>2, <1>3, <1>4, <1>5, <1>6

\* Powers of a byte.
LEMMA BytePowers ==
    /\ \A k \in Nat : Exp(BYTE, k) \in Nat \ {0} /\ Exp(BYTE, k + 1) = BYTE * Exp(BYTE, k)
    /\ \A j, k \in Nat : /\ Exp(BYTE, j + k) = Exp(BYTE, j) * Exp(BYTE, k)
                         /\ j <= k => Exp(BYTE, j) <= Exp(BYTE, k)
    /\ Exp(BYTE, 0) = 1
<1>1. PICK b \in Nat \ {0} : b = BYTE
  BY ByteFacts
<1>2. ASSUME NEW k \in Nat PROVE Exp(b, k) \in Nat \ {0} /\ Exp(b, k + 1) = b * Exp(b, k)
  BY ExpDef, ExpType
<1>3. ASSUME NEW j \in Nat, NEW k \in Nat
      PROVE  /\ Exp(b, j + k) = Exp(b, j) * Exp(b, k)
             /\ j <= k => Exp(b, j) <= Exp(b, k)
  BY ExpAdd, ExpMonotone
<1>4. Exp(b, 0) = 1
  BY ExpDef
<1> QED BY <1>1, <1>2, <1>3, <1>4

\* n has k digits to the base b.
LEMMA DigitsAre ==
  ASSUME NEW n \in Nat, NEW k \in Nat \ {0}, k <= WORD,
         Exp(BYTE, k - 1) <= n, n < Exp(BYTE, k)
  PROVE  Digits(n, BYTE) = k
<1> DEFINE Fits(j) == n < Exp(BYTE, j) /\ (j > 0 => n >= Exp(BYTE, j - 1))
           D == 0..(2 * WORD * BYTE_BITS)
<1>1. k \in D /\ Fits(k)
  <2>1. PICK w \in Nat, c \in Nat \ {0} : w = WORD /\ c = BYTE_BITS
    BY Widths
  <2>2. 1 * w <= c * w
    BY <2>1, TimesMonotone
  <2>3. 2 * w * c = 2 * (c * w) /\ c * w \in Nat /\ 1 * w = w
    BY TimesNat
  <2>4. k <= 2 * w * c /\ 2 * w * c \in Nat
    BY <2>1, <2>2, <2>3
  <2>5. Exp(BYTE, k - 1) \in Nat
    BY BytePowers
  <2> QED BY <2>1, <2>4, <2>5
<1>2. ASSUME NEW j \in D, Fits(j) PROVE j = k
  <2>1. j \in Nat
    BY <1>2
  <2>2. /\ Exp(BYTE, j) \in Nat /\ Exp(BYTE, k) \in Nat
        /\ k - 1 \in Nat /\ Exp(BYTE, k - 1) \in Nat
    BY <2>1, BytePowers
  <2>3. ASSUME j < k PROVE FALSE
    <3>1. Exp(BYTE, j) <= Exp(BYTE, k - 1)
      BY <2>1, <2>2, <2>3, BytePowers
    <3> QED BY <1>2, <2>2, <3>1
  <2>4. ASSUME k < j PROVE FALSE
    <3>1. j - 1 \in Nat /\ k <= j - 1
      BY <2>1, <2>4
    <3>2. Exp(BYTE, k) <= Exp(BYTE, j - 1) /\ Exp(BYTE, j - 1) \in Nat
      BY <3>1, BytePowers
    <3> QED BY <1>2, <2>1, <2>2, <2>4, <3>2
  <2> QED BY <2>1, <2>3, <2>4
<1>3. Digits(n, BYTE) = CHOOSE j \in D : Fits(j)
  BY DEF Digits
<1> HIDE DEF Fits, D
<1> QED BY <1>1, <1>2, <1>3

LEMMA TwiceFits ==
  ASSUME NEW n \in Nat, n <= POW_LIMIT
  PROVE  n + n < Exp(BYTE, WORD) /\ n + n + 2 <= Exp(BYTE, WORD)
<1>1. PICK m \in Nat \ {0} : m = Exp(BYTE, WORD)
  BY Widths, BytePowers
<1>2. POW_LIMIT \in 1..(((m - 1) - 1) \div 2)
  BY <1>1, DifficultyAssumption DEF MAX_TARGET
<1>3. PICK l \in Nat : l = POW_LIMIT /\ l \in 1..((m - 2) \div 2)
  BY <1>2
<1>4. m >= 2
  BY <1>3
<1>5. l + l <= m - 2
  BY <1>3, <1>4
<1> QED BY <1>1, <1>3, <1>5

LEMMA DigitsFacts ==
  ASSUME NEW n \in Nat \ {0}, n <= POW_LIMIT
  PROVE  \E k \in 1..WORD : /\ Digits(n, BYTE) = k
                            /\ Exp(BYTE, k - 1) <= n /\ n < Exp(BYTE, k)
<1>1. n < Exp(BYTE, WORD)
  BY TwiceFits, Widths, BytePowers
<1> DEFINE S == {k \in Nat : n < Exp(BYTE, k)}
<1>2. WORD \in S
  BY <1>1, Widths
<1>3. PICK k \in S : \A j \in S : k <= j
  <2> HIDE DEF S
  <2>1. S \subseteq Nat /\ S # {}
    BY <1>2 DEF S
  <2> QED BY <2>1, LeastNat
<1>4. k \in Nat /\ n < Exp(BYTE, k) /\ k <= WORD
  BY <1>2, <1>3
<1>5. k # 0
  BY <1>4, BytePowers
<1>6. k - 1 \in Nat /\ Exp(BYTE, k - 1) \in Nat /\ k - 1 \notin S
  <2>1. PICK j \in Nat : k = j + 1 /\ j = k - 1
    BY <1>4, <1>5
  <2>2. ~(k <= j)
    BY <2>1
  <2>3. j \notin S
    BY <1>3, <2>2
  <2> QED BY <2>1, <2>3, BytePowers
<1>7. Exp(BYTE, k - 1) <= n
  BY <1>6
<1>8. Digits(n, BYTE) = k
  BY <1>4, <1>5, <1>7, DigitsAre
<1> QED BY <1>4, <1>5, <1>7, <1>8, Widths

\* Half of the j-th power of a byte, times a byte: 2 * HalfPower(j) = Exp(BYTE, j + 1).
HalfPower(j) == HalfByte * Exp(BYTE, j)

LEMMA HalfPowerFacts ==
  ASSUME NEW j \in Nat
  PROVE  /\ HalfPower(j) \in Nat \ {0} /\ HalfPower(j) + HalfPower(j) = Exp(BYTE, j + 1)
         /\ Exp(BYTE, j) <= HalfPower(j) /\ HalfPower(j) = HalfByte * Exp(BYTE, j)
         /\ HalfPower(j + 2) = SIGN * Exp(BYTE, j) /\ HalfPower(j + 1) = BYTE * HalfPower(j)
         /\ \A k \in Nat : j <= k => HalfPower(j) <= HalfPower(k)
<1>1. PICK h \in Nat \ {0}, b \in Nat \ {0}, x \in Nat \ {0} :
         h = HalfByte /\ b = BYTE /\ b = 2 * h /\ x = Exp(BYTE, j)
  BY ByteFacts, BytePowers
<1>2. HalfPower(j) = h * x /\ h * x \in Nat \ {0}
  BY <1>1, TimesPositive DEF HalfPower
<1>3. h * x + h * x = b * x /\ Exp(BYTE, j + 1) = b * x
  <2>1. Exp(BYTE, j + 1) = b * x
    BY <1>1, BytePowers
  <2>2. (2 * h) * x = h * x + h * x
    OBVIOUS
  <2> QED BY <1>1, <2>1, <2>2
<1>4. x <= h * x
  <2>1. 1 * x <= h * x
    BY TimesMonotone
  <2> QED BY <2>1
<1>5. HalfPower(j + 2) = SIGN * x
  <2>1. j + 2 = 2 + j /\ Exp(BYTE, 2 + j) = Exp(BYTE, 2) * Exp(BYTE, j)
    BY BytePowers
  <2>2. h * ((b * b) * x) = (h * (b * b)) * x
    <3>1. PICK c \in Nat : c = b * b
      BY TimesNat
    <3>2. h * (c * x) = (h * c) * x
      OBVIOUS
    <3> QED BY <3>1, <3>2
  <2> QED BY <1>1, <2>1, <2>2, ByteFacts DEF HalfPower
<1>6. HalfPower(j + 1) = b * (h * x)
  <2>1. h * (b * x) = b * (h * x)
    OBVIOUS
  <2> QED BY <1>1, <1>3, <2>1 DEF HalfPower
<1>7. ASSUME NEW k \in Nat, j <= k PROVE HalfPower(j) <= HalfPower(k)
  <2>1. PICK y \in Nat : y = Exp(BYTE, k) /\ x <= y
    BY <1>1, <1>7, BytePowers
  <2>2. x * h <= y * h
    BY <2>1, TimesMonotone
  <2>3. x * h = h * x /\ y * h = h * y
    OBVIOUS
  <2> QED BY <1>1, <1>2, <2>1, <2>2, <2>3 DEF HalfPower
<1> QED BY <1>1, <1>2, <1>3, <1>4, <1>5, <1>6, <1>7

\* The compact form of n has e bytes: its mantissa stays below the sign bit
\* with e and would reach it with one byte less.
HasSize(n, e) == n < HalfPower(e - 1) /\ (e > 1 => HalfPower(e - 2) <= n)

LEMMA SizeUnique ==
  ASSUME NEW n \in Nat, NEW m \in Nat, NEW e \in Nat \ {0}, NEW f \in Nat \ {0},
         HasSize(n, e), HasSize(m, f), n <= m
  PROVE  e <= f
<1> SUFFICES ASSUME f < e PROVE FALSE
  OBVIOUS
<1>1. f - 1 \in Nat /\ e - 2 \in Nat /\ f - 1 <= e - 2 /\ e > 1
  OBVIOUS
<1>2. HalfPower(f - 1) <= HalfPower(e - 2) /\ HalfPower(f - 1) \in Nat /\ HalfPower(e - 2) \in Nat
  BY <1>1, HalfPowerFacts
<1> QED BY <1>1, <1>2 DEF HasSize

\* The mantissa reaches the sign bit exactly from HalfPower(k - 1) on.
LEMMA MantissaFacts ==
  ASSUME NEW n \in Nat, NEW k \in Nat \ {0}
  PROVE  /\ Mantissa(n, k) \in Nat
         /\ Mantissa(n, k) >= SIGN <=> n >= HalfPower(k - 1)
         /\ n < Exp(BYTE, k) => Mantissa(n, k) \div BYTE = Mantissa(n, k + 1)
<1>1. PICK b \in Nat \ {0} : b = BYTE
  BY ByteFacts
<1>2. PICK s \in Nat \ {0} : s = SIGN /\ s = HalfPower(2)
  <2>1. PICK h \in Nat \ {0}, x \in Nat \ {0} : h = HalfByte /\ x = Exp(BYTE, 2)
    BY ByteFacts, BytePowers
  <2>2. HalfPower(2) = h * x /\ SIGN = h * x /\ h * x \in Nat \ {0}
    BY <2>1, ByteFacts, TimesPositive DEF HalfPower
  <2> QED BY <2>2
<1>3. CASE k <= 3
  <2>1. PICK j \in Nat : j = 3 - k
    BY <1>3
  <2>2. PICK d \in Nat \ {0}, x \in Nat \ {0} : d = Exp(BYTE, j) /\ x = HalfPower(k - 1)
    <3>1. PICK i \in Nat : i = k - 1
      OBVIOUS
    <3>2. HalfPower(i) \in Nat \ {0} /\ Exp(BYTE, j) \in Nat \ {0}
      BY BytePowers, HalfPowerFacts
    <3> QED BY <3>1, <3>2
  <2>3. Mantissa(n, k) = n * d /\ n * d \in Nat
    BY <1>3, <2>1, <2>2, TimesNat DEF Mantissa
  <2>4. s = d * x
    <3>1. (k - 1) + j = 2 /\ k - 1 \in Nat
      BY <1>3, <2>1
    <3>2. Exp(BYTE, (k - 1) + j) = Exp(BYTE, k - 1) * Exp(BYTE, j)
      BY <3>1, BytePowers
    <3>3. PICK h \in Nat, y \in Nat : h = HalfByte /\ y = Exp(BYTE, k - 1)
      BY <3>1, ByteFacts, BytePowers
    <3>4. h * (y * d) = d * (h * y)
      OBVIOUS
    <3> QED BY <1>2, <2>2, <3>1, <3>2, <3>3, <3>4 DEF HalfPower
  <2>5. n * d >= s <=> n >= x
    <3>1. ASSUME n >= x PROVE n * d >= s
      <4>1. x * d <= n * d
        BY <3>1, TimesMonotone
      <4> QED BY <2>4, <4>1
    <3>2. ASSUME n * d >= s PROVE n >= x
      <4>1. d * x <= d * n
        BY <2>4, <3>2
      <4> QED BY <4>1, TimesCancels
    <3> QED BY <3>1, <3>2
  <2>6. (n * d) \div BYTE = Mantissa(n, k + 1)
    <3>1. CASE k = 3
      <4>1. d = 1 /\ n * 1 = n /\ (k + 1) - 3 = 1 /\ ~(k + 1 <= 3)
        BY <2>1, <2>2, <3>1, BytePowers
      <4> QED BY <4>1, ByteFacts DEF Mantissa
    <3>2. CASE k < 3
      <4>1. PICK i \in Nat : j = i + 1 /\ i = 3 - (k + 1) /\ k + 1 <= 3
        <5>1. 3 - (k + 1) \in Nat /\ j = (3 - (k + 1)) + 1 /\ k + 1 <= 3
          BY <2>1, <3>2
        <5> QED BY <5>1
      <4>2. PICK y \in Nat : y = Exp(BYTE, i) /\ d = b * y
        BY <1>1, <2>2, <4>1, BytePowers
      <4>3. PICK z \in Nat : z = n * y /\ n * d = z * b
        <5>1. n * (b * y) = (n * y) * b
          OBVIOUS
        <5> QED BY <4>2, <5>1, TimesNat
      <4>4. (z * b) \div b = z
        BY QuotientOfProduct
      <4> QED BY <1>1, <4>1, <4>2, <4>3, <4>4 DEF Mantissa
    <3> QED BY <1>3, <3>1, <3>2
  <2> QED BY <1>2, <2>2, <2>3, <2>5, <2>6
<1>4. CASE ~(k <= 3)
  <2>1. PICK j \in Nat : j = k - 3
    BY <1>4
  <2>2. PICK d \in Nat \ {0}, x \in Nat \ {0} : d = Exp(BYTE, j) /\ x = HalfPower(k - 1)
    <3>1. PICK i \in Nat : i = k - 1
      OBVIOUS
    <3>2. HalfPower(i) \in Nat \ {0} /\ Exp(BYTE, j) \in Nat \ {0}
      BY BytePowers, HalfPowerFacts
    <3> QED BY <3>1, <3>2
  <2>3. PICK q \in Nat : q = n \div d /\ d * q <= n /\ n < d * q + d
    BY Floor
  <2>4. Mantissa(n, k) = q
    BY <1>4, <2>1, <2>2, <2>3 DEF Mantissa
  <2>5. x = d * s
    <3>1. k - 1 = j + 2
      BY <1>4, <2>1
    <3>2. x = s * d
      BY <1>2, <2>2, <3>1, HalfPowerFacts
    <3> QED BY <3>2
  <2>6. q >= s <=> n >= x
    <3>1. ASSUME q >= s PROVE n >= x
      <4>1. s * d <= q * d
        BY <3>1, TimesMonotone
      <4>2. s * d = d * s /\ q * d = d * q /\ d * q \in Nat
        BY TimesNat
      <4> QED BY <2>3, <2>5, <4>1, <4>2
    <3>2. ASSUME q + 1 <= s PROVE n < x
      <4>1. (q + 1) * d <= s * d
        BY <3>2, TimesMonotone
      <4>2. s * d = d * s /\ (q + 1) * d = d * q + d /\ d * q \in Nat
        BY TimesNat
      <4> QED BY <2>3, <2>5, <4>1, <4>2
    <3> QED BY <2>2, <3>1, <3>2
  <2>7. q \div BYTE = Mantissa(n, k + 1)
    <3>1. Exp(BYTE, j + 1) = d * b
      BY <1>1, <2>2, BytePowers
    <3>2. ~(k + 1 <= 3) /\ (k + 1) - 3 = j + 1
      BY <1>4, <2>1
    <3>3. (n \div d) \div b = n \div (d * b)
      BY QuotientOfQuotient
    <3> QED BY <1>1, <2>3, <3>1, <3>2, <3>3 DEF Mantissa
  <2> QED BY <1>2, <2>2, <2>4, <2>6, <2>7
<1> QED BY <1>3, <1>4

LEMMA Encoding ==
  ASSUME NEW n \in Nat \ {0}, n <= POW_LIMIT
  PROVE  \E e \in 1..WORD : /\ HasSize(n, e)
                            /\ TargetToBits(n) = [exp |-> e, mant |-> Mantissa(n, e)]
<1>1. PICK k \in 1..WORD : /\ Digits(n, BYTE) = k
                           /\ Exp(BYTE, k - 1) <= n /\ n < Exp(BYTE, k)
  BY DigitsFacts
<1>2. k \in Nat \ {0} /\ k - 1 \in Nat /\ (k - 1) + 1 = k
  BY Widths
<1>3. PICK x \in Nat \ {0}, y \in Nat \ {0}, z \in Nat \ {0} :
         /\ x = Exp(BYTE, k - 1) /\ y = Exp(BYTE, k) /\ z = HalfPower(k - 1)
         /\ z + z = y /\ x <= z
  <2>1. PICK i \in Nat : i = k - 1 /\ k = i + 1
    BY <1>2
  <2>2. /\ HalfPower(i) \in Nat \ {0} /\ Exp(BYTE, i) \in Nat \ {0}
        /\ Exp(BYTE, k) \in Nat \ {0}
        /\ HalfPower(i) + HalfPower(i) = Exp(BYTE, i + 1) /\ Exp(BYTE, i) <= HalfPower(i)
    BY <1>2, BytePowers, HalfPowerFacts
  <2> QED BY <2>1, <2>2
<1>4. /\ Mantissa(n, k) \in Nat
      /\ Mantissa(n, k) >= SIGN <=> n >= z
      /\ Mantissa(n, k) \div BYTE = Mantissa(n, k + 1)
  BY <1>1, <1>2, <1>3, MantissaFacts
<1>5. CASE n < z
  <2>1. ~(Mantissa(n, k) >= SIGN)
    BY <1>3, <1>4, <1>5
  <2>2. TargetToBits(n) = [exp |-> k, mant |-> Mantissa(n, k)]
    BY <1>1, <2>1 DEF TargetToBits
  <2>3. k > 1 => HalfPower(k - 2) <= n
    <3> SUFFICES ASSUME k > 1 PROVE HalfPower(k - 2) <= n
      OBVIOUS
    <3>1. k - 2 \in Nat /\ (k - 2) + 1 = k - 1
      BY <1>2
    <3>2. HalfPower(k - 2) \in Nat /\ HalfPower(k - 2) + HalfPower(k - 2) = x
      BY <1>3, <3>1, HalfPowerFacts
    <3> QED BY <1>1, <1>3, <3>2
  <2> QED BY <1>3, <1>5, <2>2, <2>3 DEF HasSize
<1>6. CASE ~(n < z)
  <2>1. Mantissa(n, k) >= SIGN
    BY <1>3, <1>4, <1>6
  <2>2. TargetToBits(n) = [exp |-> k + 1, mant |-> Mantissa(n, k + 1)]
    BY <1>1, <1>4, <2>1 DEF TargetToBits
  <2>3. k + 1 \in 1..WORD
    <3>1. n + n < Exp(BYTE, WORD)
      BY TwiceFits
    <3>2. k # WORD
      BY <1>1, <1>3, <1>6, <3>1
    <3> QED BY <1>2, <3>2, Widths
  <2>4. n < HalfPower((k + 1) - 1) /\ HalfPower((k + 1) - 2) <= n
    <3>1. (k + 1) - 1 = k /\ (k + 1) - 2 = k - 1
      BY <1>2
    <3>2. HalfPower(k) \in Nat /\ y <= HalfPower(k)
      BY <1>2, <1>3, HalfPowerFacts
    <3> QED BY <1>1, <1>3, <1>6, <3>1, <3>2
  <2> QED BY <2>2, <2>3, <2>4 DEF HasSize
<1> QED BY <1>5, <1>6

LEMMA SizeIs ==
  ASSUME NEW n \in Nat \ {0}, n <= POW_LIMIT, NEW e \in Nat \ {0}, HasSize(n, e)
  PROVE  e <= WORD /\ TargetToBits(n) = [exp |-> e, mant |-> Mantissa(n, e)]
<1>1. PICK f \in 1..WORD : /\ HasSize(n, f)
                           /\ TargetToBits(n) = [exp |-> f, mant |-> Mantissa(n, f)]
  BY Encoding
<1>2. f \in Nat \ {0} /\ f <= WORD /\ WORD \in Nat
  BY Widths
<1>3. e <= f /\ f <= e
  BY <1>1, <1>2, SizeUnique
<1>4. e = f
  BY <1>2, <1>3
<1> QED BY <1>1, <1>2, <1>4

\* The mantissa keeps all of a small target and the leading bytes of a large one.
LEMMA Decoding ==
  ASSUME NEW n \in Nat, NEW e \in 1..WORD, HasSize(n, e)
  PROVE  /\ e <= 3 => BitsToTarget([exp |-> e, mant |-> Mantissa(n, e)]) = n
         /\ e > 3 => BitsToTarget([exp |-> e, mant |-> Mantissa(n, e)])
                          = (n \div Exp(BYTE, e - 3)) * Exp(BYTE, e - 3)
<1>1. e \in Nat \ {0} /\ e <= WORD /\ WORD \in Nat
  BY Widths
<1>2. PICK i \in Nat : i = e - 1
  BY <1>1
<1>3. PICK x \in Nat : x = HalfPower(i) /\ n < x
  BY <1>2, HalfPowerFacts DEF HasSize
<1>4. PICK m \in Nat : m = Mantissa(n, e) /\ ~(m >= SIGN)
  <2>1. /\ Mantissa(n, e) \in Nat
        /\ Mantissa(n, e) >= SIGN <=> n >= HalfPower(e - 1)
    BY <1>1, MantissaFacts
  <2> QED BY <1>2, <1>3, <2>1
<1>5. BitsToTarget([exp |-> e, mant |-> m])
         = IF e <= 3 THEN m \div Exp(BYTE, 3 - e) ELSE m * Exp(BYTE, e - 3)
  BY <1>1, <1>4 DEF BitsToTarget
<1>6. ASSUME e <= 3 PROVE m \div Exp(BYTE, 3 - e) = n
  <2>1. 3 - e \in Nat
    BY <1>1, <1>6
  <2>2. PICK d \in Nat \ {0} : d = Exp(BYTE, 3 - e)
    BY <2>1, BytePowers
  <2>3. m = n * d
    BY <1>4, <1>6, <2>2 DEF Mantissa
  <2>4. (n * d) \div d = n
    BY QuotientOfProduct
  <2> QED BY <2>2, <2>3, <2>4
<1>7. ASSUME e > 3 PROVE m = n \div Exp(BYTE, e - 3)
  BY <1>1, <1>4, <1>7 DEF Mantissa
<1> QED BY <1>1, <1>4, <1>5, <1>6, <1>7

\* What the compact form of n stands for.
Back(n) == BitsToTarget(TargetToBits(n))

LEMMA BackFacts ==
  ASSUME NEW n \in Nat \ {0}, n <= POW_LIMIT, NEW e \in Nat \ {0}, HasSize(n, e)
  PROVE  /\ Back(n) \in Nat \ {0} /\ Back(n) <= n /\ HasSize(Back(n), e)
         /\ (n - Back(n)) * BYTE < n
         /\ Mantissa(Back(n), e) = Mantissa(n, e)
         /\ \A m \in Nat \ {0} : m <= n /\ HasSize(m, e) => Back(m) <= Back(n)
<1>1. e \in 1..WORD /\ Back(n) = BitsToTarget([exp |-> e, mant |-> Mantissa(n, e)])
  BY SizeIs, Widths DEF Back
<1>2. ASSUME NEW m \in Nat \ {0}, m <= n, HasSize(m, e)
      PROVE  Back(m) = BitsToTarget([exp |-> e, mant |-> Mantissa(m, e)])
  <2>1. m <= POW_LIMIT
    BY <1>2, DifficultyAssumption
  <2> QED BY <1>2, <2>1, SizeIs DEF Back
<1>3. CASE e <= 3
  <2>1. Back(n) = n
    BY <1>1, <1>3, Decoding
  <2>2. ASSUME NEW m \in Nat \ {0}, m <= n, HasSize(m, e) PROVE Back(m) = m
    BY <1>1, <1>2, <1>3, <2>2, Decoding
  <2>3. (n - n) * BYTE < n
    BY ByteFacts
  <2> QED BY <2>1, <2>2, <2>3
<1>4. CASE e > 3
  <2>1. PICK j \in Nat : e = j + 3 /\ j = e - 3 /\ e - 2 = j + 1 /\ e - 1 = j + 2
    BY <1>4
  <2>2. PICK u \in Nat \ {0}, b \in Nat \ {0}, x \in Nat \ {0} :
           u = Exp(BYTE, j) /\ b = BYTE /\ x = HalfPower(j)
    BY BytePowers, ByteFacts, HalfPowerFacts
  <2>3. b * x <= n /\ b * x \in Nat /\ b * x = HalfPower(e - 2)
    <3>1. HalfPower(j + 1) = b * x
      BY <2>2, HalfPowerFacts
    <3> QED BY <1>4, <2>1, <3>1, TimesNat DEF HasSize
  <2>4. u <= x
    BY <2>2, HalfPowerFacts
  <2>5. PICK q \in Nat : q = n \div u /\ u * q <= n /\ n < u * q + u
    BY Floor
  <2>6. PICK k \in Nat : k = q * u /\ k <= n /\ n < k + u
    <3>1. q * u = u * q /\ q * u \in Nat
      BY TimesNat
    <3> QED BY <2>5, <3>1
  <2>7. Back(n) = k
    BY <1>1, <1>4, <2>1, <2>2, <2>5, <2>6, Decoding
  <2>8. b * x <= k
    <3>1. PICK h \in Nat \ {0} : h = HalfByte /\ x = h * u
      BY <2>2, ByteFacts, HalfPowerFacts
    <3>2. PICK c \in Nat : c = b * h /\ b * x = u * c
      <4>1. b * (h * u) = u * (b * h)
        OBVIOUS
      <4> QED BY <3>1, <4>1, TimesNat
    <3>3. ASSUME q + 1 <= c PROVE FALSE
      <4>1. (q + 1) * u <= c * u
        BY <3>3, TimesMonotone
      <4>2. (q + 1) * u = q * u + u /\ c * u = u * c
        OBVIOUS
      <4> QED BY <2>3, <2>6, <3>2, <4>1, <4>2
    <3>4. c <= q
      BY <3>3
    <3>5. c * u <= q * u
      BY <3>4, TimesMonotone
    <3>6. c * u = u * c
      OBVIOUS
    <3> QED BY <2>6, <3>2, <3>5, <3>6
  <2>9. k # 0
    BY <2>2, <2>3, <2>8, TimesPositive
  <2>10. HasSize(k, e)
    <3>1. PICK i \in Nat : i = e - 1
      BY <2>1
    <3>2. HalfPower(i) \in Nat
      BY HalfPowerFacts
    <3> QED BY <2>3, <2>6, <2>8, <3>1, <3>2 DEF HasSize
  <2>11. (n - k) * b < n
    <3>1. PICK r \in Nat : r = n - k /\ r + 1 <= u
      BY <2>6
    <3>2. (r + 1) * b <= x * b
      <4>1. r + 1 <= x
        BY <2>4, <3>1
      <4> QED BY <4>1, TimesMonotone
    <3>3. (r + 1) * b = r * b + b /\ x * b = b * x /\ r * b \in Nat
      BY TimesNat
    <3> QED BY <2>3, <3>1, <3>2, <3>3
  <2>12. Mantissa(k, e) = Mantissa(n, e)
    <3>1. k \div u = q
      BY <2>6, QuotientOfProduct
    <3>2. ~(e <= 3)
      BY <1>4
    <3> QED BY <2>1, <2>2, <2>5, <3>1, <3>2 DEF Mantissa
  <2>13. ASSUME NEW m \in Nat \ {0}, m <= n, HasSize(m, e) PROVE Back(m) <= k
    <3>1. PICK p \in Nat : p = m \div u
      BY Floor
    <3>2. Back(m) = p * u
      <4>1. BitsToTarget([exp |-> e, mant |-> Mantissa(m, e)])
               = (m \div Exp(BYTE, e - 3)) * Exp(BYTE, e - 3)
        BY <1>1, <1>4, <2>13, Decoding
      <4> QED BY <1>2, <2>1, <2>2, <2>13, <3>1, <4>1
    <3>3. p <= q
      BY <2>5, <2>13, <3>1, QuotientMonotone
    <3> QED BY <2>6, <3>2, <3>3, TimesMonotone
  <2> QED BY <2>2, <2>6, <2>7, <2>9, <2>10, <2>11, <2>12, <2>13
<1> QED BY <1>3, <1>4

LEMMA Rounding ==
  ASSUME NEW n \in Nat \ {0}, n <= POW_LIMIT
  PROVE  /\ Back(n) \in Nat \ {0} /\ Back(n) <= n
         /\ (n - Back(n)) * BYTE < n
         /\ TargetToBits(Back(n)) = TargetToBits(n)
         /\ WorkFromTarget(Back(n)) >= 1
<1>1. PICK e \in 1..WORD : /\ HasSize(n, e)
                           /\ TargetToBits(n) = [exp |-> e, mant |-> Mantissa(n, e)]
  BY Encoding
<1>2. e \in Nat \ {0}
  BY Widths
<1>3. PICK k \in Nat \ {0} : /\ k = Back(n) /\ k <= n /\ HasSize(k, e)
                             /\ (n - k) * BYTE < n
                             /\ Mantissa(k, e) = Mantissa(n, e)
  BY <1>1, <1>2, BackFacts
<1>4. k <= POW_LIMIT
  BY <1>3, DifficultyAssumption
<1>5. TargetToBits(k) = TargetToBits(n)
  BY <1>1, <1>2, <1>3, <1>4, SizeIs
<1>6. WorkFromTarget(k) >= 1
  <2>1. PICK m \in Nat : m = Exp(BYTE, WORD) /\ k + k + 2 <= m
    BY <1>4, Widths, BytePowers, TwiceFits
  <2>2. PICK t \in Nat : t = m - 1 /\ k + 1 <= t
    BY <2>1
  <2>3. PICK d \in Nat \ {0} : d = k + 1
    OBVIOUS
  <2>4. PICK q \in Nat : q = t \div d /\ t < d * q + d
    BY Floor
  <2>5. ASSUME q = 0 PROVE FALSE
    BY <2>2, <2>3, <2>4, <2>5
  <2> QED BY <2>1, <2>2, <2>3, <2>4, <2>5 DEF WorkFromTarget, MAX_TARGET
<1> QED BY <1>3, <1>5, <1>6

LEMMA BackMonotone ==
  ASSUME NEW m \in Nat \ {0}, NEW n \in Nat \ {0}, m <= n, n <= POW_LIMIT
  PROVE  Back(m) <= Back(n)
<1>1. m <= POW_LIMIT
  BY DifficultyAssumption
<1>2. PICK d \in 1..WORD : HasSize(m, d)
  BY <1>1, Encoding
<1>3. PICK e \in 1..WORD : HasSize(n, e)
  BY Encoding
<1>4. d \in Nat \ {0} /\ e \in Nat \ {0}
  BY Widths
<1>5. d <= e
  BY <1>2, <1>3, <1>4, SizeUnique
<1>6. /\ Back(m) \in Nat /\ Back(n) \in Nat /\ Back(m) <= m
      /\ HasSize(Back(m), d) /\ HasSize(Back(n), e)
  BY <1>1, <1>2, <1>3, <1>4, BackFacts
<1>7. CASE d = e
  BY <1>2, <1>3, <1>4, <1>7, BackFacts
<1>8. CASE d < e
  <2> SUFFICES ASSUME Back(n) <= Back(m) PROVE FALSE
    BY <1>6
  <2>1. e <= d
    BY <1>4, <1>6, SizeUnique
  <2> QED BY <1>4, <1>8, <2>1
<1> QED BY <1>4, <1>5, <1>7, <1>8

-----------------------------------------------------------------------------
(***************************************************************************)
(* Difficulty: the target.                                                 *)
(***************************************************************************)
LEMMA FloorOfInt ==
  ASSUME NEW x \in Int, NEW d \in Nat \ {0}
  PROVE  /\ x \div d \in Int /\ d * (x \div d) <= x /\ x < d * (x \div d) + d
         /\ x % d = x - d * (x \div d)
OBVIOUS

LEMMA QuotientAntitone ==
  ASSUME NEW x \in Nat, NEW c \in Nat \ {0}, NEW d \in Nat \ {0}, c <= d
  PROVE  x \div d <= x \div c
<1>1. PICK p \in Nat : p = x \div d /\ d * p <= x
  BY Floor
<1>2. PICK q \in Nat : q = x \div c /\ x < c * q + c
  BY Floor
<1>3. ASSUME q + 1 <= p PROVE FALSE
  <2>1. (q + 1) * c <= p * c
    BY <1>3, TimesMonotone
  <2>2. c * p <= d * p
    BY TimesMonotone
  <2>3. (q + 1) * c = c * q + c /\ p * c = c * p
    OBVIOUS
  <2>4. c * p \in Nat /\ c * q \in Nat /\ d * p \in Nat
    BY TimesNat
  <2> QED BY <1>1, <1>2, <2>1, <2>2, <2>3, <2>4
<1> QED BY <1>1, <1>2, <1>3

LEMMA SignedQuotient ==
  ASSUME NEW d \in Nat \ {0}, NEW x \in Int, NEW y \in Int, x <= y
  PROVE  Quotient(x, d) \in Int /\ Quotient(x, d) <= Quotient(y, d)
<1>1. \A z \in Nat : z \div d \in Nat
  BY Floor
<1>2. CASE x >= 0
  <2>1. x \in Nat /\ y \in Nat
    BY <1>2
  <2>2. x \div d <= y \div d
    BY <2>1, QuotientMonotone
  <2> QED BY <1>1, <1>2, <2>1, <2>2 DEF Quotient
<1>3. CASE ~(x >= 0) /\ y >= 0
  <2>1. -x \in Nat /\ y \in Nat
    BY <1>3
  <2>2. PICK p \in Nat, q \in Nat : p = (-x) \div d /\ q = y \div d
    BY <1>1, <2>1
  <2>3. Quotient(x, d) = -p /\ Quotient(y, d) = q
    BY <1>3, <2>2 DEF Quotient
  <2> QED BY <2>3
<1>4. CASE ~(x >= 0) /\ ~(y >= 0)
  <2>1. PICK a \in Nat, b \in Nat : a = -x /\ b = -y /\ b <= a
    <3>1. -x \in Nat /\ -y \in Nat /\ -y <= -x
      BY <1>4
    <3> QED BY <3>1
  <2>2. PICK p \in Nat, q \in Nat : p = a \div d /\ q = b \div d /\ q <= p
    BY <1>1, <2>1, QuotientMonotone
  <2>3. Quotient(x, d) = -p /\ Quotient(y, d) = -q
    BY <1>4, <2>1, <2>2 DEF Quotient
  <2> QED BY <2>2, <2>3
<1> QED BY <1>2, <1>3, <1>4

\* A later time or a lower height raises the exponent.
LEMMA ExponentSteers ==
  ASSUME NEW t \in Int, NEW u \in Int, NEW g \in Nat, NEW h \in Nat, t <= u, g <= h
  PROVE  Exponent(t, h) \in Int /\ Exponent(t, h) <= Exponent(u, g)
<1>1. PICK f \in Nat \ {0}, tau \in Nat \ {0}, i \in Nat \ {0} :
         f = FRAC /\ tau = ASERT_TAU /\ i = BLOCK_INTERVAL
  BY Widths
<1>2. PICK x \in Nat, y \in Nat : x = i * (g + 1) /\ y = i * (h + 1) /\ x <= y
  <2>1. (g + 1) * i <= (h + 1) * i
    BY TimesMonotone
  <2>2. (g + 1) * i = i * (g + 1) /\ (h + 1) * i = i * (h + 1)
    OBVIOUS
  <2>3. i * (g + 1) \in Nat /\ i * (h + 1) \in Nat
    BY TimesNat
  <2> QED BY <2>1, <2>2, <2>3
<1>3. PICK v \in Int, w \in Int : v = t - y /\ w = u - x /\ v <= w
  BY <1>2
<1>4. PICK a \in Int, b \in Int : a = v * f /\ b = w * f /\ a <= b
  <2>1. v * f \in Int /\ w * f \in Int /\ v * f <= w * f
    BY <1>3
  <2> QED BY <2>1
<1>5. Quotient(a, tau) \in Int /\ Quotient(a, tau) <= Quotient(b, tau)
  BY <1>4, SignedQuotient
<1>6. Exponent(t, h) = Quotient(a, tau) /\ Exponent(u, g) = Quotient(b, tau)
  BY <1>1, <1>2, <1>3, <1>4 DEF Exponent
<1> QED BY <1>5, <1>6

\* Splitting keeps the order.
LEMMA SplitFacts ==
  ASSUME NEW x \in Int
  PROVE  /\ Split(x).shifts \in Int /\ Split(x).frac \in 0..(FRAC - 1)
         /\ x = FRAC * Split(x).shifts + Split(x).frac
<1>1. PICK f \in Nat \ {0} : f = FRAC
  BY Widths
<1>2. PICK q \in Int : q = x \div f /\ f * q <= x /\ x < f * q + f /\ x % f = x - f * q
  BY FloorOfInt
<1>3. PICK p \in Int : p = f * q
  OBVIOUS
<1>4. x % f \in 0..(f - 1) /\ x = p + (x % f)
  BY <1>2, <1>3
<1> QED BY <1>1, <1>2, <1>3, <1>4 DEF Split

LEMMA SplitOrdered ==
  ASSUME NEW x \in Int, NEW y \in Int, x <= y
  PROVE  /\ Split(x).shifts <= Split(y).shifts
         /\ Split(x).shifts = Split(y).shifts => Split(x).frac <= Split(y).frac
<1>1. PICK f \in Nat \ {0} : f = FRAC
  BY Widths
<1>2. PICK p \in Int, q \in Int, r \in Nat, s \in Nat :
         /\ p = Split(x).shifts /\ q = Split(y).shifts
         /\ r = Split(x).frac /\ s = Split(y).frac
         /\ x = f * p + r /\ y = f * q + s /\ r < f /\ s < f
  <2>1. /\ Split(x).shifts \in Int /\ Split(x).frac \in 0..(f - 1)
        /\ x = f * Split(x).shifts + Split(x).frac
    BY <1>1, SplitFacts
  <2>2. /\ Split(y).shifts \in Int /\ Split(y).frac \in 0..(f - 1)
        /\ y = f * Split(y).shifts + Split(y).frac
    BY <1>1, SplitFacts
  <2>3. PICK p \in Int, r \in 0..(f - 1) : p = Split(x).shifts /\ r = Split(x).frac
    BY <2>1
  <2>4. PICK q \in Int, s \in 0..(f - 1) : q = Split(y).shifts /\ s = Split(y).frac
    BY <2>2
  <2>5. x = f * p + r /\ y = f * q + s
    BY <2>1, <2>2, <2>3, <2>4
  <2>6. r \in Nat /\ s \in Nat /\ r < f /\ s < f
    OBVIOUS
  <2> QED BY <2>3, <2>4, <2>5, <2>6
<1>3. ASSUME q + 1 <= p PROVE FALSE
  <2>1. f * (q + 1) <= f * p
    BY <1>3
  <2>2. f * (q + 1) = f * q + f
    OBVIOUS
  <2>3. PICK a \in Int, b \in Int : a = f * p /\ b = f * q
    OBVIOUS
  <2> QED BY <1>2, <2>1, <2>2, <2>3
<1>4. ASSUME p = q PROVE r <= s
  <2>1. PICK a \in Int : a = f * p
    OBVIOUS
  <2> QED BY <1>2, <1>4, <2>1
<1> QED BY <1>2, <1>3, <1>4

LEMMA FactorFacts ==
  ASSUME NEW x \in 0..(FRAC - 1), NEW y \in 0..(FRAC - 1), x <= y
  PROVE  Factor(x) \in Nat /\ FRAC <= Factor(x) /\ Factor(x) <= Factor(y)
<1>1. PICK f \in Nat \ {0}, d \in Nat \ {0}, a \in Nat, b \in Nat, c \in Nat :
         f = FRAC /\ d = POLY_ONE /\ a = POLY[1] /\ b = POLY[2] /\ c = POLY[3]
  BY Widths
<1>2. x \in Nat /\ y \in Nat
  BY Widths
<1>3. PICK i \in Nat, j \in Nat : i = x * x /\ j = y * y /\ i <= j
  <2>1. x * x <= y * x /\ x * y <= y * y
    BY <1>2, TimesMonotone
  <2>2. y * x = x * y /\ x * x \in Nat /\ x * y \in Nat /\ y * y \in Nat
    BY <1>2, TimesNat
  <2> QED BY <2>1, <2>2
<1>4. PICK k \in Nat, l \in Nat : k = x * x * x /\ l = y * y * y /\ k <= l
  <2>1. i * x <= j * x /\ x * j <= y * j
    BY <1>2, <1>3, TimesMonotone
  <2>2. j * x = x * j /\ y * j = j * y /\ i * x \in Nat /\ j * x \in Nat /\ j * y \in Nat
    BY <1>2, TimesNat
  <2>3. x * x * x = i * x /\ y * y * y = j * y
    BY <1>3
  <2> QED BY <2>1, <2>2, <2>3
<1>5. PICK m \in Nat, n \in Nat, o \in Nat, p \in Nat, q \in Nat, r \in Nat :
         /\ m = a * x /\ n = a * y /\ m <= n
         /\ o = b * i /\ p = b * j /\ o <= p
         /\ q = c * k /\ r = c * l /\ q <= r
  <2>1. x * a <= y * a /\ i * b <= j * b /\ k * c <= l * c
    BY <1>2, <1>3, <1>4, TimesMonotone
  <2>2. /\ x * a = a * x /\ y * a = a * y /\ i * b = b * i /\ j * b = b * j
        /\ k * c = c * k /\ l * c = c * l
    BY <1>2
  <2>3. /\ a * x \in Nat /\ a * y \in Nat /\ b * i \in Nat /\ b * j \in Nat
        /\ c * k \in Nat /\ c * l \in Nat
    BY <1>2, TimesNat
  <2> QED BY <2>1, <2>2, <2>3
<1>6. PICK h \in Nat : h = d \div 2
  OBVIOUS
<1>7. PICK u \in Nat, v \in Nat : /\ u = m + o + q + h /\ v = n + p + r + h /\ u <= v
  BY <1>5
<1>8. u \div d \in Nat /\ u \div d <= v \div d /\ v \div d \in Nat
  BY <1>7, Floor, QuotientMonotone
<1>9. Factor(x) = f + u \div d /\ Factor(y) = f + v \div d
  BY <1>1, <1>3, <1>4, <1>5, <1>6, <1>7 DEF Factor
<1> QED BY <1>1, <1>8, <1>9

\* The limit times 2^(frac/FRAC), before it is shifted, and the bits of a word.
Raised(frac) == (POW_LIMIT * Factor(frac)) \div FRAC
WordBits   == BYTE_BITS * WORD

LEMMA WordFacts ==
    /\ WordBits \in Nat /\ Exp(2, WordBits) = Exp(BYTE, WORD)
    /\ POW_LIMIT \in Nat \ {0} /\ POW_LIMIT + POW_LIMIT < Exp(2, WordBits)
<1>1. PICK c \in Nat, w \in Nat : c = BYTE_BITS /\ w = WORD
  BY Widths
<1>2. Exp(Exp(2, c), w) = Exp(2, c * w) /\ c * w \in Nat
  BY ExpExp, TimesNat
<1>3. WordBits \in Nat /\ Exp(2, WordBits) = Exp(BYTE, WORD)
  BY <1>1, <1>2 DEF WordBits, BYTE
<1>4. POW_LIMIT \in Nat \ {0}
  BY DifficultyAssumption
<1>5. POW_LIMIT + POW_LIMIT < Exp(BYTE, WORD)
  BY <1>4, TwiceFits
<1> QED BY <1>3, <1>4, <1>5

LEMMA RaisedFacts ==
  ASSUME NEW x \in 0..(FRAC - 1), NEW y \in 0..(FRAC - 1), x <= y
  PROVE  /\ Raised(x) \in Nat /\ Raised(x) <= Raised(y)
         /\ POW_LIMIT <= Raised(x) /\ Raised(x) <= POW_LIMIT + POW_LIMIT
<1>1. PICK f \in Nat \ {0}, l \in Nat \ {0} : f = FRAC /\ l = POW_LIMIT
  BY Widths, WordFacts
<1>2. PICK u \in Nat, v \in Nat : /\ u = Factor(x) /\ v = Factor(y)
                                  /\ f <= u /\ u <= v
  BY <1>1, FactorFacts
<1>3. u <= f + f
  <2>1. PICK z \in 0..(f - 1) : z = f - 1 /\ x <= z
    BY <1>1
  <2>2. Factor(x) <= Factor(z) /\ Factor(z) \in Nat
    BY <1>1, <2>1, FactorFacts
  <2>3. Factor(z) <= 2 * f
    BY <1>1, <2>1, FactorAssumption
  <2> QED BY <1>2, <2>2, <2>3
<1>4. PICK m \in Nat, n \in Nat : m = l * u /\ n = l * v /\ m <= n
  <2>1. u * l <= v * l /\ u * l = l * u /\ v * l = l * v
    BY <1>2, TimesMonotone
  <2> QED BY <2>1, TimesNat
<1>5. m \div f \in Nat /\ m \div f <= n \div f
  BY <1>4, Floor, QuotientMonotone
<1>6. l <= m \div f
  <2>1. f * l <= u * l
    BY <1>2, TimesMonotone
  <2>2. PICK k \in Nat : k = l * f /\ k <= m
    <3>1. f * l = l * f /\ u * l = l * u
      OBVIOUS
    <3> QED BY <1>4, <2>1, <3>1, TimesNat
  <2>3. k \div f = l
    BY <2>2, QuotientOfProduct
  <2> QED BY <2>2, <2>3, QuotientMonotone
<1>7. m \div f <= l + l
  <2>1. u * l <= (f + f) * l
    BY <1>2, <1>3, TimesMonotone
  <2>2. PICK k \in Nat : k = (l + l) * f /\ m <= k
    <3>1. (f + f) * l = (l + l) * f /\ u * l = l * u
      OBVIOUS
    <3> QED BY <1>4, <2>1, <3>1, TimesNat
  <2>3. k \div f = l + l
    BY <2>2, QuotientOfProduct
  <2> QED BY <2>2, <2>3, QuotientMonotone
<1>8. Raised(x) = m \div f /\ Raised(y) = n \div f
  BY <1>1, <1>2, <1>4 DEF Raised
<1> QED BY <1>1, <1>5, <1>6, <1>7, <1>8

\* The target after shifting left by s bits, that is right by -s when s < 0.
Shifted(s, frac) ==
    LET down == Raised(frac) \div Exp(2, Capped(-s, WordBits))
    IN  IF s >= 0 THEN POW_LIMIT ELSE IF down = 0 THEN 1 ELSE Capped(down, POW_LIMIT)

LEMMA PowersOfTwo == \A n \in Nat : Exp(2, n) \in Nat \ {0}
<1>1. \A n \in Nat : Exp(2, n) \in Nat /\ (2 # 0 => Exp(2, n) # 0)
  BY ExpType
<1> QED BY <1>1

LEMMA CappedFacts ==
  ASSUME NEW x \in Nat, NEW y \in Nat, x <= y, NEW limit \in Nat
  PROVE  /\ Capped(x, limit) \in Nat /\ Capped(x, limit) <= limit
         /\ Capped(x, limit) <= Capped(y, limit)
         /\ x <= limit => Capped(x, limit) = x
BY DEF Capped

LEMMA NextTargetIs ==
  ASSUME NEW t \in Int, NEW h \in Nat
  PROVE  NextTarget(t, h) = Shifted(Split(Exponent(t, h)).shifts, Split(Exponent(t, h)).frac)
<1>1. Exponent(t, h) \in Int
  BY ExponentSteers
<1>2. PICK x : x = Split(Exponent(t, h)) /\ x.shifts \in Int /\ x.frac \in 0..(FRAC - 1)
  BY <1>1, SplitFacts
<1>3. PICK base \in Nat, s \in Int : /\ base = Raised(x.frac) /\ s = x.shifts
                                     /\ POW_LIMIT <= base
  BY <1>2, RaisedFacts
<1>4. CASE s >= 0
  <2>1. s \in Nat /\ Capped(s, WordBits) \in Nat
    <3>1. s \in Nat /\ WordBits \in Nat
      BY <1>4, WordFacts
    <3> QED BY <3>1 DEF Capped
  <2>2. PICK e \in Nat \ {0} : e = Exp(2, Capped(s, WordBits))
    BY <2>1, PowersOfTwo
  <2>3. PICK m \in Nat : m = base * e /\ base <= m
    <3>1. 1 * base <= e * base
      BY TimesMonotone
    <3>2. 1 * base = base /\ e * base = base * e
      OBVIOUS
    <3> QED BY <3>1, <3>2, TimesNat
  <2>4. Capped(m, POW_LIMIT) = POW_LIMIT
    BY <1>3, <2>3, WordFacts DEF Capped
  <2>5. NextTarget(t, h)
           = IF Digits(base, 2) + Capped(s, WordBits) >= 2 * WordBits
             THEN POW_LIMIT ELSE Capped(base * Exp(2, Capped(s, WordBits)), POW_LIMIT)
    BY <1>2, <1>3, <1>4 DEF NextTarget, Raised, WordBits
  <2>6. NextTarget(t, h) = POW_LIMIT
    BY <2>2, <2>3, <2>4, <2>5
  <2> QED BY <1>2, <1>3, <1>4, <2>6 DEF Shifted
<1>5. CASE s < 0
  BY <1>2, <1>3, <1>5 DEF NextTarget, Raised, WordBits, Shifted
<1> QED BY <1>4, <1>5

LEMMA ShiftedType ==
  ASSUME NEW s \in Int, NEW f \in 0..(FRAC - 1)
  PROVE  Shifted(s, f) \in Nat \ {0} /\ Shifted(s, f) <= POW_LIMIT
<1>1. POW_LIMIT \in Nat \ {0}
  BY WordFacts
<1>2. CASE s >= 0
  BY <1>1, <1>2 DEF Shifted
<1>3. CASE s < 0
  <2>1. -s \in Nat
    BY <1>3
  <2>2. PICK e \in Nat \ {0}, b \in Nat : /\ e = Exp(2, Capped(-s, WordBits))
                                          /\ b = Raised(f)
    <3>1. PICK c \in Nat : c = -s
      BY <2>1
    <3>2. PICK i \in Nat : i = Capped(c, WordBits)
      BY WordFacts, CappedFacts
    <3>3. Exp(2, i) \in Nat \ {0} /\ Raised(f) \in Nat
      BY PowersOfTwo, RaisedFacts
    <3> QED BY <3>1, <3>2, <3>3
  <2>3. PICK down \in Nat : down = b \div e
    BY Floor
  <2>4. Shifted(s, f) = IF down = 0 THEN 1 ELSE Capped(down, POW_LIMIT)
    BY <1>3, <2>2, <2>3 DEF Shifted
  <2> QED BY <1>1, <2>3, <2>4 DEF Capped
<1> QED BY <1>2, <1>3

\* One shift more undoes a factor of two, and WordBits of them leave nothing.
LEMMA HalvedMore ==
  ASSUME NEW x \in Nat, NEW y \in Nat, NEW l \in Nat, x <= l + l, l <= y,
         NEW j \in Nat, NEW k \in Nat, j <= k
  PROVE  x \div Exp(2, k + 1) <= y \div Exp(2, j)
<1>1. PICK q \in Nat \ {0}, z \in Nat \ {0} : q = Exp(2, j) /\ z = Exp(2, k)
  BY PowersOfTwo
<1>2. Exp(2, k + 1) = 2 * z
  <2>1. \A n \in Nat : Exp(2, n + 1) = 2 * Exp(2, n)
    BY ExpDef
  <2> QED BY <1>1, <2>1
<1>3. q <= z
  <2>1. Exp(2, j) <= Exp(2, k)
    BY ExpMonotone
  <2> QED BY <1>1, <2>1
<1>4. PICK u \in Nat : u = x \div 2 /\ u <= y
  <2>1. x \div 2 \in Nat /\ x \div 2 <= l
    OBVIOUS
  <2> QED BY <2>1
<1>5. x \div (2 * z) = u \div z
  <2>1. PICK t : t = 2
    OBVIOUS
  <2>2. x \div (t * z) = (x \div t) \div z
    <3>1. t \in Nat \ {0}
      BY <2>1
    <3> QED BY ONLY <3>1, x \in Nat, z \in Nat \ {0}, QuotientOfQuotient
  <2> QED BY <1>4, <2>1, <2>2
<1>6. u \div z <= y \div z /\ y \div z <= y \div q
  BY <1>3, <1>4, QuotientMonotone, QuotientAntitone
<1>7. u \div z \in Nat /\ y \div z \in Nat /\ y \div q \in Nat
  BY Floor
<1> QED BY <1>1, <1>2, <1>5, <1>6, <1>7

LEMMA HalvedOften ==
  ASSUME NEW x \in Nat, NEW y \in Nat, x <= POW_LIMIT + POW_LIMIT, POW_LIMIT <= y,
         NEW c \in Nat, NEW d \in Nat, d <= c, x <= y \/ d < c
  PROVE  LET m == x \div Exp(2, Capped(c, WordBits))
             n == y \div Exp(2, Capped(d, WordBits))
         IN  m \in Nat /\ n \in Nat /\ (m <= n \/ m = 0)
<1>1. PICK w \in Nat, l \in Nat : w = WordBits /\ l = POW_LIMIT
  BY WordFacts
<1>2. PICK i \in Nat, j \in Nat : i = Capped(c, w) /\ j = Capped(d, w) /\ j <= i
  <2>1. Capped(c, w) \in Nat /\ Capped(d, w) \in Nat /\ Capped(d, w) <= Capped(c, w)
    BY DEF Capped
  <2> QED BY <2>1
<1>3. PICK p \in Nat \ {0}, q \in Nat \ {0} : p = Exp(2, i) /\ q = Exp(2, j)
  BY PowersOfTwo
<1>4. PICK m \in Nat, n \in Nat : m = x \div p /\ n = y \div q
  BY Floor
<1>5. CASE i = w
  <2>1. x < p
    BY <1>1, <1>3, <1>5, WordFacts
  <2>2. p * 0 <= x /\ x < p * 0 + p
    BY <2>1
  <2>3. x \div p = 0
    BY <2>2, QuotientIs
  <2> QED BY <1>1, <1>2, <1>3, <1>4, <2>3
<1>6. CASE i # w
  <2>1. i = c /\ j = d
    BY <1>2, <1>6 DEF Capped
  <2>2. CASE x <= y
    <3>1. x \div p <= y \div p /\ y \div p <= y \div q /\ y \div p \in Nat
      <4>1. q <= p
        BY <1>2, <1>3, ExpMonotone
      <4> QED BY <2>2, <4>1, Floor, QuotientMonotone, QuotientAntitone
    <3>2. m <= n
      BY <1>4, <3>1
    <3> QED BY <1>1, <1>2, <1>3, <1>4, <3>2
  <2>3. CASE d < c
    <3>1. PICK k \in Nat : i = k + 1 /\ j <= k
      <4>1. c - 1 \in Nat /\ c = (c - 1) + 1 /\ d <= c - 1
        BY <2>3
      <4> QED BY <2>1, <4>1
    <3>2. x \div Exp(2, k + 1) <= y \div Exp(2, j)
      BY <1>1, <3>1, HalvedMore
    <3>3. m <= n
      BY <1>3, <1>4, <3>1, <3>2
    <3> QED BY <1>1, <1>2, <1>3, <1>4, <3>3
  <2> QED BY <2>2, <2>3
<1> QED BY <1>5, <1>6

LEMMA ShiftedMonotone ==
  ASSUME NEW s \in Int, NEW r \in Int, NEW f \in 0..(FRAC - 1), NEW g \in 0..(FRAC - 1),
         s <= r, s = r => f <= g
  PROVE  Shifted(s, f) <= Shifted(r, g)
<1>1. PICK a \in Nat \ {0}, b \in Nat \ {0}, l \in Nat \ {0} :
         /\ a = Shifted(s, f) /\ b = Shifted(r, g) /\ l = POW_LIMIT /\ a <= l
  BY ShiftedType, WordFacts
<1>2. CASE r >= 0
  BY <1>1, <1>2 DEF Shifted
<1>3. CASE r < 0
  <2>1. PICK c \in Nat, d \in Nat : c = -s /\ d = -r /\ d <= c
    <3>1. -s \in Nat /\ -r \in Nat /\ -r <= -s
      BY <1>3
    <3> QED BY <3>1
  <2>2. PICK x \in Nat, y \in Nat : /\ x = Raised(f) /\ y = Raised(g)
                                    /\ l <= y /\ x <= l + l
                                    /\ f <= g => x <= y
    BY <1>1, RaisedFacts
  <2>3. ~(r >= 0) /\ ~(s >= 0) /\ -s = c /\ -r = d
    BY <1>3, <2>1
  <2>4. PICK m, n \in Nat : /\ m = x \div Exp(2, Capped(c, WordBits))
                            /\ n = y \div Exp(2, Capped(d, WordBits))
                            /\ (m <= n \/ m = 0)
    <3>1. f <= g \/ d < c
      <4>1. s # r => d < c
        BY <2>3
      <4> QED BY <4>1
    <3>2. x <= y \/ d < c
      BY <2>2, <3>1
    <3>3. x <= POW_LIMIT + POW_LIMIT /\ POW_LIMIT <= y /\ d <= c
      BY <1>1, <2>1, <2>2
    <3>4. x \in Nat /\ y \in Nat /\ c \in Nat /\ d \in Nat
      OBVIOUS
    <3>5. LET i == x \div Exp(2, Capped(c, WordBits))
              j == y \div Exp(2, Capped(d, WordBits))
          IN  i \in Nat /\ j \in Nat /\ (i <= j \/ i = 0)
      BY ONLY <3>2, <3>3, <3>4, HalvedOften
    <3> QED BY <3>5
  <2>5. Shifted(s, f) = IF m = 0 THEN 1 ELSE Capped(m, l)
    BY <1>1, <2>1, <2>2, <2>3, <2>4 DEF Shifted
  <2>6. Shifted(r, g) = IF n = 0 THEN 1 ELSE Capped(n, l)
    BY <1>1, <2>1, <2>2, <2>3, <2>4 DEF Shifted
  <2>7. CASE m = 0
    BY <1>1, <2>5, <2>7
  <2>8. CASE m # 0
    <3>1. m <= n /\ n # 0
      BY <2>4, <2>8
    <3>2. Capped(m, l) <= Capped(n, l)
      BY <3>1, CappedFacts
    <3> QED BY <2>5, <2>6, <2>8, <3>1, <3>2
  <2> QED BY <2>7, <2>8
<1> QED BY <1>2, <1>3

LEMMA TargetSteers ==
  ASSUME NEW t \in Int, NEW u \in Int, NEW g \in Nat, NEW h \in Nat, t <= u, g <= h
  PROVE  /\ NextTarget(t, h) \in Nat \ {0} /\ NextTarget(t, h) <= POW_LIMIT
         /\ NextTarget(t, h) <= NextTarget(u, g)
<1>1. PICK x \in Int, y \in Int : x = Exponent(t, h) /\ y = Exponent(u, g) /\ x <= y
  BY ExponentSteers
<1>2. PICK s \in Int, f \in 0..(FRAC - 1) : s = Split(x).shifts /\ f = Split(x).frac
  BY SplitFacts
<1>3. PICK r \in Int, k \in 0..(FRAC - 1) : r = Split(y).shifts /\ k = Split(y).frac
  BY SplitFacts
<1>4. s <= r /\ (s = r => f <= k)
  BY <1>1, <1>2, <1>3, SplitOrdered
<1>5. NextTarget(t, h) = Shifted(s, f) /\ NextTarget(u, g) = Shifted(r, k)
  BY <1>1, <1>2, <1>3, NextTargetIs
<1> QED BY <1>4, <1>5, ShiftedType, ShiftedMonotone

\* Whatever the times.
LEMMA EveryTargetIsExact ==
  ASSUME times \in Seq(Int) \ {<<>>}
  PROVE  BitsAreExact /\ Steers
<1>1. PICK h \in Nat : h = Height
  <2>1. Len(times) \in Nat \ {0}
    OBVIOUS
  <2> QED BY <2>1 DEF Height
<1>2. PICK t \in Int : t = Tip - times[1]
  <2>1. Len(times) \in 1..Len(times) /\ 1 \in 1..Len(times)
    OBVIOUS
  <2> QED BY <2>1 DEF Tip
<1>3. PICK n \in Nat \ {0} : n = NextTarget(t, h) /\ n <= POW_LIMIT
  BY TargetSteers
<1>4. PICK k \in Nat \ {0} : /\ k = Back(n) /\ k <= n
                             /\ (n - k) * BYTE < n
                             /\ TargetToBits(k) = TargetToBits(n)
                             /\ WorkFromTarget(k) >= 1
  BY <1>3, Rounding
<1>5. BitsAreExact
  <2>1. ExpectedBits = TargetToBits(n)
    BY <1>1, <1>2, <1>3 DEF ExpectedBits
  <2>2. k \in 1..POW_LIMIT
    BY <1>3, <1>4, WordFacts
  <2> QED BY <1>1, <1>2, <1>3, <1>4, <2>1, <2>2 DEF BitsAreExact, Back
<1>6. Steers
  <2>1. PICK m \in Nat \ {0} : m = NextTarget(t + 1, h) /\ m <= POW_LIMIT /\ n <= m
    BY <1>3, TargetSteers
  <2>2. PICK o \in Nat \ {0} : o = NextTarget(t, h + 1) /\ o <= POW_LIMIT /\ o <= n
    BY <1>3, TargetSteers
  <2>3. Back(n) <= Back(m) /\ Back(o) <= Back(n)
    BY <1>3, <2>1, <2>2, BackMonotone
  <2> QED BY <1>1, <1>2, <1>3, <2>1, <2>2, <2>3 DEF Steers, Back
<1> QED BY <1>5, <1>6

\* A chain has its genesis, and its blocks have times.
TimesType == times \in Seq(Int) \ {<<>>}

LEMMA TimesStay == DifficultySpec => []TimesType
<1>1. DifficultyInit => TimesType
  <2>1. <<0>> \in Seq(Int) \ {<<>>}
    OBVIOUS
  <2> QED BY <2>1 DEF DifficultyInit, TimesType
<1>2. TimesType /\ [DifficultyNext]_times => TimesType'
  <2> SUFFICES ASSUME TimesType, [DifficultyNext]_times PROVE TimesType'
    OBVIOUS
  <2>1. ASSUME NEW t \in Times, AddHeader(t) PROVE TimesType'
    <3>1. t \in Int
      BY Widths
    <3>2. Append(times, t) \in Seq(Int) \ {<<>>}
      BY <3>1 DEF TimesType
    <3> QED BY <2>1, <3>2 DEF AddHeader, TimesType
  <2>2. CASE UNCHANGED times
    BY <2>2 DEF TimesType
  <2> QED BY <2>1, <2>2 DEF DifficultyNext
<1> QED BY <1>1, <1>2, PTL DEF DifficultySpec

\* The bits expected_bits demands of the next block can be mined, decode to a
\* target at most as easy as the one ASERT computed and within the precision
\* of the mantissa of it, and are the only bits of that target.
THEOREM BitsHold == DifficultySpec => []BitsAreExact
<1>1. TimesType => BitsAreExact
  BY EveryTargetIsExact DEF TimesType
<1> QED BY <1>1, TimesStay, PTL

\* A later parent never makes the next block harder, and one more block at
\* the same time never makes it easier.
THEOREM TimesSteer == DifficultySpec => []Steers
<1>1. TimesType => Steers
  BY EveryTargetIsExact DEF TimesType
<1> QED BY <1>1, TimesStay, PTL

-----------------------------------------------------------------------------
(***************************************************************************)
(* Emission.  The decay (M-1)/M is a quotient of powers: Weight is M^h,    *)
(* Decayed is (M-1)^h.                                                     *)
(***************************************************************************)
Weight(n)  == Exp(DECAY_M, n)
Decayed(n) == Exp(DECAY_M - 1, n)

LEMMA TimesBoth ==
  ASSUME NEW x \in Nat, NEW y \in Nat, NEW v \in Nat, NEW w \in Nat, x <= v, y <= w
  PROVE  x * y <= v * w
<1>1. x * y <= v * y
  BY TimesMonotone
<1>2. y * v <= w * v
  BY TimesMonotone
<1>3. y * v = v * y /\ w * v = v * w
  OBVIOUS
<1>4. x * y \in Nat /\ v * y \in Nat /\ v * w \in Nat
  BY TimesNat
<1> QED BY <1>1, <1>2, <1>3, <1>4

LEMMA TimesSwaps ==
  ASSUME NEW x \in Nat, NEW y \in Nat, NEW v \in Nat, NEW w \in Nat
  PROVE  (x * y) * (v * w) = (x * v) * (y * w) /\ x * (y * v) = (x * y) * v
OBVIOUS

LEMMA EmissionConstants ==
    /\ ONE \in Nat \ {0} /\ DECAY_M \in Nat \ {0} /\ SUPPLY_CAP \in Nat \ {0}
    /\ ONE \in Nat /\ DECAY_M \in Nat /\ DECAY_M - 1 \in Nat /\ SUPPLY_CAP \in Nat
    /\ MAX_HEIGHT \in Nat
BY EmissionAssumption

\* A fraction x / ONE is at most (r / w).
AtMost(x, r, w) == x * w <= ONE * r

\* Products in fixed point stay below the product of the bounds.
LEMMA MulBelow ==
  ASSUME NEW x \in Nat, NEW y \in Nat, NEW r \in Nat, NEW s \in Nat, NEW v \in Nat, NEW w \in Nat,
         AtMost(x, r, v), AtMost(y, s, w)
  PROVE  Mul(x, y) \in Nat /\ AtMost(Mul(x, y), r * s, v * w)
<1>0. ONE \in Nat \ {0} /\ ONE \in Nat
  BY EmissionConstants
<1>1. PICK z : z = Mul(x, y)
  OBVIOUS
<1>2. z \in Nat /\ ONE * z <= x * y
  BY <1>0, <1>1, Floor, TimesNat DEF Mul
<1>3. /\ x * y \in Nat /\ v * w \in Nat /\ r * s \in Nat /\ x * v \in Nat /\ y * w \in Nat
      /\ ONE * r \in Nat /\ ONE * s \in Nat /\ ONE * z \in Nat
  BY <1>0, <1>2, TimesNat
<1>4. (ONE * z) * (v * w) <= (x * y) * (v * w)
  BY <1>2, <1>3, TimesMonotone
<1>5. (x * y) * (v * w) = (x * v) * (y * w)
  BY TimesSwaps
<1>6. (x * v) * (y * w) <= (ONE * r) * (ONE * s)
  BY <1>3, TimesBoth DEF AtMost
<1>7. (ONE * r) * (ONE * s) = ONE * (ONE * (r * s)) /\ (ONE * z) * (v * w) = ONE * (z * (v * w))
  BY ONLY r \in Nat, s \in Nat, v \in Nat, w \in Nat, <1>0, <1>2
<1>8. /\ z * (v * w) \in Nat /\ ONE * (r * s) \in Nat
      /\ ONE * (z * (v * w)) \in Nat /\ ONE * (ONE * (r * s)) \in Nat
  BY <1>0, <1>2, <1>3, TimesNat
<1>9. ONE * (z * (v * w)) <= ONE * (ONE * (r * s))
  BY <1>4, <1>5, <1>6, <1>7, <1>8, <1>3, TimesNat
<1>10. z * (v * w) <= ONE * (r * s)
  BY <1>0, <1>8, <1>9, TimesCancels
<1> QED BY <1>1, <1>2, <1>10 DEF AtMost

\* What pow_q96 keeps after some rounds on the exponent h: acc is below the
\* power a, base below the power q, and h = a + q * e.
Loops(s, h, bound) ==
    /\ s.acc \in Nat /\ s.base \in Nat /\ s.e \in Nat /\ s.e <= bound
    /\ \E a \in Nat, q \in Nat :
          /\ a + q * s.e = h
          /\ AtMost(s.acc, Decayed(a), Weight(a))
          /\ s.e # 0 => q <= h /\ AtMost(s.base, Decayed(q), Weight(q))

LEMMA WeightFacts ==
    /\ Weight(0) = 1 /\ Decayed(0) = 1
    /\ \A n \in Nat : /\ Weight(n) \in Nat \ {0} /\ Decayed(n) \in Nat
                     /\ Weight(n + 1) = DECAY_M * Weight(n)
                     /\ Decayed(n + 1) = (DECAY_M - 1) * Decayed(n)
<1>1. PICK m \in Nat, k \in Nat : m = DECAY_M /\ k = DECAY_M - 1 /\ m # 0
  BY EmissionConstants
<1>2. /\ Exp(m, 0) = 1 /\ \A n \in Nat : Exp(m, n + 1) = m * Exp(m, n)
      /\ Exp(k, 0) = 1 /\ \A n \in Nat : Exp(k, n + 1) = k * Exp(k, n)
  BY ExpDef
<1>3. \A n \in Nat : Exp(m, n) \in Nat \ {0} /\ Exp(k, n) \in Nat
  BY <1>1, ExpType
<1> QED BY <1>1, <1>2, <1>3 DEF Weight, Decayed

LEMMA WeightsAdd ==
  ASSUME NEW a \in Nat, NEW q \in Nat
  PROVE  Weight(a + q) = Weight(a) * Weight(q) /\ Decayed(a + q) = Decayed(a) * Decayed(q)
<1>1. PICK m \in Nat, k \in Nat : m = DECAY_M /\ k = DECAY_M - 1
  BY EmissionConstants
<1>2. Exp(m, a + q) = Exp(m, a) * Exp(m, q) /\ Exp(k, a + q) = Exp(k, a) * Exp(k, q)
  BY ExpAdd
<1> QED BY <1>1, <1>2 DEF Weight, Decayed

LEMMA BoundsAdd ==
  ASSUME NEW x \in Nat, NEW y \in Nat, NEW a \in Nat, NEW q \in Nat,
         AtMost(x, Decayed(a), Weight(a)), AtMost(y, Decayed(q), Weight(q))
  PROVE  Mul(x, y) \in Nat /\ AtMost(Mul(x, y), Decayed(a + q), Weight(a + q))
<1>1. PICK r \in Nat, s \in Nat, v \in Nat, w \in Nat :
         r = Decayed(a) /\ s = Decayed(q) /\ v = Weight(a) /\ w = Weight(q)
  BY WeightFacts
<1>2. Mul(x, y) \in Nat /\ AtMost(Mul(x, y), r * s, v * w)
  BY <1>1, MulBelow
<1>3. Decayed(a + q) = r * s /\ Weight(a + q) = v * w
  BY <1>1, WeightsAdd
<1> QED BY <1>2, <1>3

LEMMA RoundKeeps ==
  ASSUME NEW h \in 0..MAX_HEIGHT, NEW s, NEW k \in Nat, Loops(s, h, k + 1)
  PROVE  Loops(Round(s), h, k)
<1>0. MAX_HEIGHT \in Nat /\ h \in Nat /\ h <= MAX_HEIGHT
  BY EmissionAssumption
<1>1. PICK acc \in Nat, base \in Nat, e \in Nat :
         acc = s.acc /\ base = s.base /\ e = s.e /\ e <= k + 1
  BY DEF Loops
<1>2. PICK a \in Nat, q \in Nat :
         /\ a + q * e = h
         /\ AtMost(acc, Decayed(a), Weight(a))
         /\ e # 0 => q <= h /\ AtMost(base, Decayed(q), Weight(q))
  BY <1>1 DEF Loops
<1>3. CASE e = 0
  <2>1. Round(s) = s /\ s.e <= k
    BY <1>1, <1>3 DEF Round
  <2> QED BY <1>1, <1>2, <1>3, <2>1 DEF Loops
<1>4. CASE e # 0
  <2>1. PICK d, b : d = e \div 2 /\ b = e % 2
    OBVIOUS
  <2>2. d \in Nat /\ b \in {0, 1} /\ e = 2 * d + b /\ d <= k
    BY <1>1, <1>4, <2>1
  <2>3. PICK acc2, base2 : acc2 = (IF b = 1 THEN Mul(acc, base) ELSE acc)
                           /\ base2 = Mul(base, base)
    OBVIOUS
  <2>4. Round(s) = [acc |-> acc2, base |-> base2, e |-> d]
    BY <1>1, <1>4, <2>1, <2>3 DEF Round
  <2>5. a + q * e = a + q * b + (q + q) * d /\ q * b \in Nat /\ (q + q) * d \in Nat
    <3>1. q * (2 * d + b) = q * b + (q + q) * d
      BY ONLY <2>2, q \in Nat
    <3>2. q * b \in Nat /\ (q + q) * d \in Nat
      BY <2>2, TimesNat
    <3> QED BY <2>2, <3>1, <3>2
  <2>6. q <= h /\ AtMost(base, Decayed(q), Weight(q))
    BY <1>2, <1>4
  <2>7. PICK a2 \in Nat, q2 \in Nat : a2 = a + q * b /\ q2 = q + q
    BY <2>5
  <2>8. a2 + q2 * d = h
    BY <1>2, <2>5, <2>7
  <2>9. acc2 \in Nat /\ AtMost(acc2, Decayed(a2), Weight(a2))
    <3>1. CASE b = 0
      <4>1. a2 = a
        BY <2>7, <3>1
      <4> QED BY <1>2, <2>3, <3>1, <4>1
    <3>2. CASE b = 1
      <4>1. a2 = a + q
        BY <2>7, <3>2
      <4>2. q2 * d \in Nat /\ a + q <= MAX_HEIGHT
        BY <1>0, <2>2, <2>8, <4>1, TimesNat
      <4>3. Mul(acc, base) \in Nat /\ AtMost(Mul(acc, base), Decayed(a + q), Weight(a + q))
        BY <1>2, <2>6, <4>2, BoundsAdd
      <4> QED BY <2>3, <3>2, <4>1, <4>3
    <3> QED BY <2>2, <3>1, <3>2
  <2>10. d # 0 => q2 <= h
    <3> SUFFICES ASSUME d # 0 PROVE q2 <= h
      OBVIOUS
    <3>1. 1 * q2 <= d * q2
      BY <2>2, TimesMonotone
    <3>2. q2 * d \in Nat /\ d * q2 = q2 * d /\ 1 * q2 = q2
      BY <2>2
    <3> QED BY <1>0, <2>8, <3>1, <3>2
  <2>11. base2 \in Nat /\ (d # 0 => AtMost(base2, Decayed(q2), Weight(q2)))
    <3>1. base2 \in Nat
      <4>1. ONE \in Nat \ {0}
        BY EmissionAssumption
      <4> QED BY <2>3, <4>1, TimesNat, Floor DEF Mul
    <3>2. ASSUME d # 0 PROVE AtMost(base2, Decayed(q2), Weight(q2))
      <4>1. q + q <= MAX_HEIGHT
        BY <1>0, <2>7, <2>10, <3>2
      <4> QED BY <2>3, <2>6, <2>7, <4>1, BoundsAdd
    <3> QED BY <3>1, <3>2
  <2> QED BY <2>2, <2>4, <2>8, <2>9, <2>10, <2>11 DEF Loops
<1> QED BY <1>3, <1>4

LEMMA PowBelow ==
  ASSUME NEW h \in 0..MAX_HEIGHT
  PROVE  Pow(Base, h) \in Nat /\ AtMost(Pow(Base, h), Decayed(h), Weight(h))
<1>0. MAX_HEIGHT \in Nat /\ h \in Nat /\ h <= MAX_HEIGHT
  BY EmissionAssumption
<1> DEFINE start == [acc |-> ONE, base |-> Base, e |-> h]
           Fits(g, m) == g = [i \in 0..m |-> IF i = 0 THEN start ELSE Round(g[i - 1])]
           S == {m \in Nat : \E g : Fits(g, m)}
<1> HIDE DEF start
<1>1. 0 \in S
  <2>1. Fits([i \in 0..0 |-> start], 0)
    OBVIOUS
  <2> QED BY <2>1
<1>2. ASSUME NEW m \in Nat, m \in S PROVE m + 1 \in S
  <2>1. PICK g : Fits(g, m)
    BY <1>2
  <2>2. PICK f : f = [n \in 0..(m + 1) |-> IF n = m + 1 THEN Round(g[m]) ELSE g[n]]
    OBVIOUS
  <2>3. ASSUME NEW n \in 0..(m + 1)
        PROVE  f[n] = IF n = 0 THEN start ELSE Round(f[n - 1])
    <3>1. CASE n = m + 1
      <4>1. n # 0 /\ n - 1 = m /\ m \in 0..(m + 1) /\ m # m + 1
        BY <1>2, <3>1
      <4> QED BY <2>2, <3>1, <4>1
    <3>2. CASE n # m + 1
      <4>1. n \in 0..m
        BY <1>2, <3>2
      <4>2. f[n] = g[n] /\ g[n] = IF n = 0 THEN start ELSE Round(g[n - 1])
        BY <2>1, <2>2, <3>2, <4>1
      <4>3. n # 0 => n - 1 \in 0..(m + 1) /\ n - 1 # m + 1
        BY <1>2, <3>2, <4>1
      <4> QED BY <2>2, <4>2, <4>3
    <3> QED BY <3>1, <3>2
  <2>4. Fits(f, m + 1)
    BY <2>2, <2>3, Zenon
  <2> QED BY <2>4
<1>3. PICK g : Fits(g, h)
  <2> HIDE DEF S
  <2>1. \A m \in Nat : m \in S
    BY <1>1, <1>2, NatSetInduction
  <2> QED BY <1>0, <2>1 DEF S
<1>4. PICK t : Fits(t, h) /\ Pow(Base, h) = t[h].acc
  BY <1>3 DEF Pow, start
<1>5. t[0] = start /\ \A i \in 0..(h - 1) : t[i + 1] = Round(t[i])
  <2>1. 0 \in 0..h
    BY <1>0
  <2>2. ASSUME NEW n \in 0..(h - 1)
        PROVE  n + 1 \in 0..h /\ n + 1 # 0 /\ (n + 1) - 1 = n
    BY <1>0, <2>2
  <2>3. t = [i \in 0..h |-> IF i = 0 THEN start ELSE Round(t[i - 1])]
    BY <1>4
  <2> HIDE DEF Fits
  <2> QED BY <2>1, <2>2, <2>3
<1> DEFINE I == {i \in Nat : i <= h => Loops(t[i], h, h - i)}
<1>6. 0 \in I
  <2>1. Loops(start, h, h)
    <3>1. ONE \in Nat \ {0} /\ DECAY_M \in Nat \ {0}
      BY EmissionAssumption
    <3>2. PICK o \in Nat, m \in Nat : o = ONE /\ m = DECAY_M /\ o # 0 /\ m # 0 /\ m - 1 \in Nat
      BY <3>1
    <3>3. Base \in Nat /\ m * Base <= (m - 1) * o
      BY <3>1, <3>2, Floor, TimesNat DEF Base
    <3>4. Decayed(0) = 1 /\ Weight(0) = 1
      BY <3>2, WeightFacts DEF Decayed, Weight
    <3>5. AtMost(ONE, Decayed(0), Weight(0))
      BY <3>2, <3>4 DEF AtMost
    <3>6. h # 0 => AtMost(Base, Decayed(1), Weight(1))
      <4> SUFFICES ASSUME h # 0 PROVE AtMost(Base, Decayed(1), Weight(1))
        OBVIOUS
      <4>1. 0 \in 0..(MAX_HEIGHT - 1) /\ 0 + 1 = 1
        BY <1>0
      <4>2. Decayed(1) = (m - 1) * 1 /\ Weight(1) = m * 1
        BY <3>2, <3>4, <4>1, WeightFacts DEF Decayed, Weight
      <4>3. Decayed(1) = m - 1 /\ Weight(1) = m
        BY <3>2, <4>2
      <4>4. Base * m = m * Base /\ o * (m - 1) = (m - 1) * o
        BY <3>2, <3>3
      <4> QED BY <3>2, <3>3, <4>3, <4>4 DEF AtMost
    <3>7. 0 + 1 * h = h /\ (h # 0 => 1 <= h)
      BY <1>0
    <3> QED BY <1>0, <3>2, <3>3, <3>5, <3>6, <3>7 DEF Loops, start
  <2> QED BY <1>0, <1>5, <2>1
<1>7. ASSUME NEW i \in Nat, i \in I PROVE i + 1 \in I
  <2> SUFFICES ASSUME i + 1 <= h PROVE Loops(t[i + 1], h, h - (i + 1))
    OBVIOUS
  <2>1. PICK k \in Nat : k = h - (i + 1) /\ k + 1 = h - i /\ i \in 0..(h - 1) /\ i <= h
    BY <1>0
  <2>2. Loops(t[i], h, k + 1) /\ t[i + 1] = Round(t[i])
    BY <1>5, <1>7, <2>1
  <2> QED BY <2>1, <2>2, RoundKeeps
<1>8. Loops(t[h], h, 0)
  <2> HIDE DEF I
  <2>1. \A i \in Nat : i \in I
    BY <1>6, <1>7, NatSetInduction
  <2>2. h - h = 0 /\ h <= h
    BY <1>0
  <2> QED BY <1>0, <2>1, <2>2 DEF I
<1>9. PICK a \in Nat, q \in Nat : /\ a + q * t[h].e = h /\ t[h].e = 0 /\ t[h].acc \in Nat
                                  /\ AtMost(t[h].acc, Decayed(a), Weight(a))
  BY <1>8 DEF Loops
<1>10. a = h
  BY <1>0, <1>9
<1> QED BY <1>4, <1>9, <1>10

-----------------------------------------------------------------------------
\* The first subsidy times the decay divisor, and the subsidies so far, which
\* are at most cap * (1 - Decayed / Weight).
Whole == DECAY_M * (SUPPLY_CAP \div DECAY_M)

EmissionInv ==
    /\ next_height \in 0..MAX_HEIGHT /\ issued \in Nat
    /\ issued * Weight(next_height) + Whole * Decayed(next_height)
         <= Whole * Weight(next_height)

LEMMA RewardBelow ==
  ASSUME NEW h \in 0..MAX_HEIGHT
  PROVE  /\ BlockReward(h) \in Nat
         /\ BlockReward(h) * Weight(h) <= (SUPPLY_CAP \div DECAY_M) * Decayed(h)
<1>1. PICK o \in Nat \ {0}, r0 \in Nat, f \in Nat, w \in Nat, d \in Nat :
         /\ o = ONE /\ r0 = SUPPLY_CAP \div DECAY_M /\ f = Pow(Base, h)
         /\ w = Weight(h) /\ d = Decayed(h)
  <2>1. h \in Nat
    BY EmissionConstants
  <2>2. SUPPLY_CAP \div DECAY_M \in Nat
    BY EmissionConstants, Floor
  <2>3. Weight(h) \in Nat /\ Decayed(h) \in Nat
    BY <2>1, WeightFacts
  <2> QED BY <2>2, <2>3, EmissionConstants, PowBelow
<1>2. f * w <= o * d
  BY <1>1, PowBelow DEF AtMost
<1>3. PICK z \in Nat : z = BlockReward(h) /\ o * z <= r0 * f
  <2>1. r0 * f \in Nat
    BY TimesNat
  <2> QED BY <1>1, <2>1, Floor DEF BlockReward, Mul
<1>4. (o * z) * w <= (r0 * f) * w
  BY <1>3, TimesNat, TimesMonotone
<1>5. (f * w) * r0 <= (o * d) * r0
  BY <1>2, TimesNat, TimesMonotone
<1>6. /\ (r0 * f) * w = (f * w) * r0 /\ (o * z) * w = o * (z * w)
      /\ (o * d) * r0 = o * (r0 * d)
  OBVIOUS
<1>7. o * (z * w) <= o * (r0 * d)
  <2>1. (o * z) * w \in Nat /\ (r0 * f) * w \in Nat /\ (o * d) * r0 \in Nat
    BY TimesNat
  <2> QED BY <1>4, <1>5, <1>6, <2>1
<1>8. z * w <= r0 * d
  BY <1>7, TimesNat, TimesCancels
<1> QED BY <1>1, <1>3, <1>8

LEMMA EmissionStep == EmissionInv /\ [Issue]_emissionVars => EmissionInv'
<1> SUFFICES ASSUME EmissionInv, [Issue]_emissionVars PROVE EmissionInv'
  OBVIOUS
<1>1. CASE UNCHANGED emissionVars
  BY <1>1 DEF EmissionInv, emissionVars
<1>2. CASE Issue
  <2>1. PICK h : h = next_height
    OBVIOUS
  <2>2. h \in 0..MAX_HEIGHT /\ h \in 0..(MAX_HEIGHT - 1) /\ h + 1 \in 0..MAX_HEIGHT
    BY <1>2, <2>1, EmissionConstants DEF EmissionInv, Issue
  <2>3. PICK i \in Nat, z \in Nat, m \in Nat, r0 \in Nat, w \in Nat, d \in Nat :
           /\ i = issued /\ z = BlockReward(h) /\ m = DECAY_M /\ r0 = SUPPLY_CAP \div DECAY_M
           /\ w = Weight(h) /\ d = Decayed(h) /\ m # 0 /\ m - 1 \in Nat
    <3>1. h \in Nat
      BY <2>2, EmissionConstants
    <3>2. SUPPLY_CAP \div DECAY_M \in Nat
      BY EmissionConstants, Floor
    <3>3. Weight(h) \in Nat /\ Decayed(h) \in Nat
      BY <3>1, WeightFacts
    <3> QED BY <2>2, <3>2, <3>3, EmissionConstants, RewardBelow DEF EmissionInv
  <2>4. z * w <= r0 * d
    BY <2>2, <2>3, RewardBelow
  <2>5. i * w + (m * r0) * d <= (m * r0) * w
    BY <2>1, <2>3 DEF EmissionInv, Whole
  <2>6. Weight(h + 1) = m * w /\ Decayed(h + 1) = (m - 1) * d
    BY <2>2, <2>3, WeightFacts DEF Weight, Decayed
  <2>7. (i + z) * (m * w) + (m * r0) * ((m - 1) * d) <= (m * r0) * (m * w)
    <3>1. m * (i * w + (m * r0) * d) <= m * ((m * r0) * w)
      BY ONLY <2>5, i \in Nat, m \in Nat, r0 \in Nat, w \in Nat, d \in Nat
    <3>2. m * (z * w) <= m * (r0 * d)
      BY ONLY <2>4, z \in Nat, m \in Nat, r0 \in Nat, w \in Nat, d \in Nat
    <3>3. (i + z) * (m * w) = m * (i * w) + m * (z * w)
      BY ONLY i \in Nat, z \in Nat, m \in Nat, w \in Nat
    <3>4. (m * r0) * ((m - 1) * d) = m * ((m * r0) * d) - m * (r0 * d)
      BY ONLY m \in Nat, r0 \in Nat, d \in Nat
    <3>5. m * (i * w + (m * r0) * d) = m * (i * w) + m * ((m * r0) * d)
      BY ONLY i \in Nat, m \in Nat, r0 \in Nat, w \in Nat, d \in Nat
    <3>6. m * ((m * r0) * w) = (m * r0) * (m * w)
      BY ONLY m \in Nat, r0 \in Nat, w \in Nat
    <3>7. PICK A \in Nat, B \in Nat, C \in Nat, D \in Nat, E \in Nat :
             /\ A = m * (i * w) /\ B = m * (z * w) /\ C = m * ((m * r0) * d)
             /\ D = m * (r0 * d) /\ E = (m * r0) * (m * w)
      BY TimesNat
    <3>8. A + C <= E /\ B <= D
      BY <3>1, <3>2, <3>5, <3>6, <3>7
    <3>9. A + B + (C - D) <= E
      BY ONLY <3>8, A \in Nat, B \in Nat, C \in Nat, D \in Nat, E \in Nat
    <3> QED BY <3>3, <3>4, <3>7, <3>9
  <2>8. next_height' = h + 1 /\ issued' = i + z
    BY <1>2, <2>1, <2>3 DEF Issue
  <2> QED BY <2>2, <2>3, <2>6, <2>7, <2>8 DEF EmissionInv, Whole
<1> QED BY <1>1, <1>2

\* Whatever the cap, the rate of decay and the precision, the subsidies of all
\* blocks together stay within the cap, because each floor of pow_q96 only
\* lowers them.
THEOREM CapHolds == EmissionSpec => []WithinCap
<1>1. EmissionInit => EmissionInv
  <2>1. Weight(0) = 1 /\ Decayed(0) = 1
    BY EmissionConstants, WeightFacts DEF Weight, Decayed
  <2>2. Whole \in Nat
    BY EmissionConstants, Floor, TimesNat DEF Whole
  <2> QED BY <2>1, <2>2, EmissionConstants DEF EmissionInit, EmissionInv
<1>2. EmissionInv => WithinCap
  <2> SUFFICES ASSUME EmissionInv PROVE WithinCap
    OBVIOUS
  <2>1. PICK i \in Nat, w \in Nat \ {0}, d \in Nat, v \in Nat :
           /\ i = issued /\ w = Weight(next_height) /\ d = Decayed(next_height) /\ v = Whole
    <3>1. next_height \in Nat /\ issued \in Nat
      BY EmissionConstants DEF EmissionInv
    <3>2. Whole \in Nat
      BY EmissionConstants, Floor, TimesNat DEF Whole
    <3>3. Weight(next_height) \in Nat \ {0} /\ Decayed(next_height) \in Nat
      BY <3>1, WeightFacts
    <3> QED BY <3>1, <3>2, <3>3
  <2>2. i * w + v * d <= v * w
    BY <2>1 DEF EmissionInv
  <2>3. i * w <= v * w
    <3>1. v * d \in Nat /\ i * w \in Nat /\ v * w \in Nat
      BY TimesNat
    <3> QED BY <2>2, <3>1
  <2>4. i <= v
    BY <2>3, TimesCancels
  <2>5. v <= SUPPLY_CAP
    BY <2>1, EmissionConstants, Floor DEF Whole
  <2> QED BY <2>1, <2>4, <2>5, EmissionConstants DEF WithinCap
<1> QED BY <1>1, <1>2, EmissionStep, PTL DEF EmissionSpec

-----------------------------------------------------------------------------
(***************************************************************************)
(* Merkle.                                                                 *)
(***************************************************************************)
\* The layers of a tree, from the leaves up: the recursion inside MerkleRoot.
Layers(leaves) ==
    LET layer[n \in 0..Len(leaves)] ==
            IF n = 0 THEN [i \in DOMAIN leaves |-> Leaf(leaves[i])]
            ELSE IF Len(layer[n - 1]) > 1 THEN Pairs(layer[n - 1]) ELSE layer[n - 1]
    IN  layer

IsSeq(s)  == s \in Seq({s[i] : i \in DOMAIN s})
NoTwice(s) == \A i, j \in DOMAIN s : s[i] = s[j] => i = j
Half(n) == (n + 1) \div 2

LEMMA Halves ==
  ASSUME NEW n \in Nat
  PROVE  /\ Half(n) \in Nat
         /\ n % 2 = 1 => 2 * Half(n) = n + 1
         /\ n % 2 # 1 => 2 * Half(n) = n
         /\ n > 0 => Half(n) > 0
         /\ n > 1 => Half(n) < n
         /\ n <= 2 * Half(n) /\ 2 * Half(n) <= n + 1
  BY DEF Half

LEMMA Squeezed ==
  ASSUME NEW a \in Nat, NEW b \in Nat, NEW h \in Nat, a <= 2 * h, 2 * h <= a + 1, b <= 2 * h
  PROVE  (a < b => b = a + 1 /\ 2 * h = b) /\ (~ (a < b) /\ ~ (b < a) => a = b)
  OBVIOUS

\* A sequence by its length and its elements.
LEMMA SeqByElements ==
  ASSUME NEW n \in Nat, NEW f, f = [i \in 1..n |-> f[i]]
  PROVE  IsSeq(f) /\ Len(f) = n /\ DOMAIN f = 1..n
<1>1. DOMAIN f = 1..n
  BY Zenon
<1>2. f \in [1..n -> {f[i] : i \in DOMAIN f}]
  BY <1>1
<1>3. f \in Seq({f[i] : i \in DOMAIN f})
  BY <1>2
<1> QED BY <1>1, <1>3 DEF IsSeq

LEMMA SeqFacts ==
  ASSUME NEW s, IsSeq(s)
  PROVE  Len(s) \in Nat /\ DOMAIN s = 1..Len(s) /\ s = [i \in 1..Len(s) |-> s[i]]
  BY DEF IsSeq

\* The last element stands twice in a layer of odd length.
LEMMA PaddedFacts ==
  ASSUME NEW s, IsSeq(s), Len(s) > 0, NEW i \in 1..(2 * Half(Len(s)))
  PROVE  Padded(s)[i] = s[IF i <= Len(s) THEN i ELSE Len(s)]
<1>1. Len(s) \in Nat /\ DOMAIN s = 1..Len(s)
  BY SeqFacts
<1>2. CASE Len(s) % 2 = 1
  <2>1. PICK S : S = {s[j] : j \in DOMAIN s}
    OBVIOUS
  <2>2. s \in Seq(S) /\ s[Len(s)] \in S
    BY <1>1, <2>1 DEF IsSeq
  <2>3. /\ \A j \in 1..Len(s) : Append(s, s[Len(s)])[j] = s[j]
        /\ Append(s, s[Len(s)])[Len(s) + 1] = s[Len(s)]
    BY ONLY <1>1, <2>2
  <2>4. Padded(s) = Append(s, s[Len(s)])
    BY <1>2 DEF Padded, Last
  <2>5. i \in 1..(Len(s) + 1)
    BY <1>1, <1>2, Halves
  <2>6. CASE i <= Len(s)
    <3>1. i \in 1..Len(s)
      BY <1>1, <2>5, <2>6
    <3> QED BY <2>3, <2>4, <2>6, <3>1
  <2>7. CASE ~ (i <= Len(s))
    <3>1. i = Len(s) + 1
      BY <1>1, <2>5, <2>7
    <3> QED BY <2>3, <2>4, <2>7, <3>1
  <2> QED BY <2>6, <2>7
<1>3. CASE Len(s) % 2 # 1
  <2>1. i \in 1..Len(s) /\ i <= Len(s)
    <3>1. 2 * Half(Len(s)) = Len(s)
      BY <1>1, <1>3, Halves
    <3> QED BY <1>1, <3>1
  <2>2. Padded(s) = s
    BY <1>3 DEF Padded
  <2> QED BY <2>1, <2>2
<1> QED BY <1>2, <1>3

LEMMA PairsFacts ==
  ASSUME NEW s, IsSeq(s)
  PROVE  /\ IsSeq(Pairs(s)) /\ Len(Pairs(s)) = Half(Len(s))
         /\ \A i \in 1..Half(Len(s)) :
               Pairs(s)[i] = Node(Padded(s)[2 * i - 1], Padded(s)[2 * i])
<1>1. Len(s) \in Nat /\ Half(Len(s)) \in Nat
  BY SeqFacts, Halves
<1>2. Pairs(s) = [i \in 1..Half(Len(s)) |-> Node(Padded(s)[2 * i - 1], Padded(s)[2 * i])]
  BY DEF Pairs, Half
<1>3. Pairs(s) = [i \in 1..Half(Len(s)) |-> Pairs(s)[i]]
  BY <1>2
<1>4. IsSeq(Pairs(s)) /\ Len(Pairs(s)) = Half(Len(s))
  <2>1. PICK p : p = Pairs(s)
    OBVIOUS
  <2>2. p = [i \in 1..Half(Len(s)) |-> p[i]]
    BY <1>3, <2>1
  <2>3. IsSeq(p) /\ Len(p) = Half(Len(s))
    BY ONLY <1>1, <2>2, SeqByElements
  <2> QED BY <2>1, <2>3
<1> QED BY <1>2, <1>4

LEMMA NodesDiffer ==
  ASSUME NEW l, NEW r, NEW a, NEW b
  PROVE  /\ Node(l, r) = Node(a, b) => l = a /\ r = b
         /\ Node(l, r) # Leaf(a)
<1>1. /\ Node(l, r)[2] = l /\ Node(l, r)[3] = r
      /\ Node(a, b)[2] = a /\ Node(a, b)[3] = b
  BY DEF Node
<1>2. Node(l, r)[1] = "node" /\ Leaf(a)[1] = "leaf"
  BY DEF Node, Leaf
<1> QED BY <1>1, <1>2

LEMMA LeavesDiffer ==
  ASSUME NEW a, NEW b, Leaf(a) = Leaf(b)
  PROVE  a = b
<1>1. Leaf(a)[2] = a /\ Leaf(b)[2] = b
  BY DEF Leaf
<1> QED BY <1>1

\* A layer determines the one below it up to the padding.
LEMMA PairsSame ==
  ASSUME NEW s, NEW t, IsSeq(s), IsSeq(t), Len(s) > 0, Len(t) > 0, Pairs(s) = Pairs(t)
  PROVE  /\ Half(Len(s)) = Half(Len(t))
         /\ \A i \in 1..(2 * Half(Len(s))) :
               s[IF i <= Len(s) THEN i ELSE Len(s)] = t[IF i <= Len(t) THEN i ELSE Len(t)]
<1>1. /\ Len(s) \in Nat /\ Half(Len(s)) \in Nat
      /\ Half(Len(s)) = Half(Len(t))
  BY SeqFacts, PairsFacts, Halves
<1>2. ASSUME NEW i \in 1..(2 * Half(Len(s)))
      PROVE  Padded(s)[i] = Padded(t)[i]
  <2>1. ASSUME NEW j \in 1..Half(Len(s))
        PROVE  /\ Padded(s)[2 * j - 1] = Padded(t)[2 * j - 1]
               /\ Padded(s)[2 * j] = Padded(t)[2 * j]
    <3>1. Node(Padded(s)[2 * j - 1], Padded(s)[2 * j])
             = Node(Padded(t)[2 * j - 1], Padded(t)[2 * j])
      BY <1>1, PairsFacts
    <3> QED BY <3>1, NodesDiffer
  <2>2. \E j \in 1..Half(Len(s)) : i = 2 * j - 1 \/ i = 2 * j
    <3>1. CASE i % 2 = 0
      <4>1. i \div 2 \in 1..Half(Len(s)) /\ i = 2 * (i \div 2)
        BY <1>1, <3>1
      <4> QED BY <4>1
    <3>2. CASE i % 2 = 1
      <4>1. (i + 1) \div 2 \in 1..Half(Len(s)) /\ i = 2 * ((i + 1) \div 2) - 1
        BY <1>1, <3>2
      <4> QED BY <4>1
    <3> QED BY <1>1, <3>1, <3>2
  <2> QED BY <2>1, <2>2
<1> QED BY <1>1, <1>2, PaddedFacts

\* Layers of one length are told apart by the layer above them.
LEMMA PairsOfOneLength ==
  ASSUME NEW s, NEW t, IsSeq(s), IsSeq(t), Len(s) > 0, Len(s) = Len(t), Pairs(s) = Pairs(t)
  PROVE  s = t
<1>1. Len(s) \in Nat /\ 1..Len(s) \subseteq 1..(2 * Half(Len(s)))
  <2>1. Len(s) \in Nat
    BY SeqFacts
  <2>2. Half(Len(s)) \in Nat
    BY <2>1, Halves
  <2>3. Len(s) <= 2 * Half(Len(s))
    BY <2>1, Halves
  <2> QED BY <2>1, <2>2, <2>3
<1>2. ASSUME NEW i \in 1..Len(s) PROVE s[i] = t[i]
  <2>1. i <= Len(s) /\ i <= Len(t)
    BY <1>1
  <2> QED BY <1>1, <2>1, PairsSame
<1>3. s = [i \in 1..Len(s) |-> s[i]] /\ t = [i \in 1..Len(s) |-> t[i]]
  BY SeqFacts
<1> QED BY <1>2, <1>3

\* Without repetitions the padding shows.
LEMMA PairsOfDistinct ==
  ASSUME NEW s, NEW t, IsSeq(s), IsSeq(t), Len(s) > 0, Len(t) > 0, Pairs(s) = Pairs(t),
         NoTwice(s), NoTwice(t)
  PROVE  s = t
<1>0. /\ Len(s) \in Nat /\ Len(t) \in Nat /\ DOMAIN s = 1..Len(s) /\ DOMAIN t = 1..Len(t)
      /\ Half(Len(s)) \in Nat /\ Half(Len(s)) = Half(Len(t))
  BY SeqFacts, PairsSame, Halves
<1>1. ASSUME NEW u, NEW v, IsSeq(u), IsSeq(v), Len(u) > 0, Len(v) > 0, Pairs(u) = Pairs(v),
             NoTwice(u), NoTwice(v), Len(u) < Len(v)
      PROVE  FALSE
  <2>1. /\ Len(u) \in Nat /\ Len(v) \in Nat /\ DOMAIN v = 1..Len(v)
        /\ Half(Len(u)) \in Nat /\ Half(Len(u)) = Half(Len(v))
    BY <1>1, SeqFacts, PairsSame, Halves
  <2>2. Len(u) <= 2 * Half(Len(u)) /\ 2 * Half(Len(u)) <= Len(u) + 1
    <3>1. Len(u) <= 2 * Half(Len(u))
      BY <2>1, Halves
    <3>2. 2 * Half(Len(u)) <= Len(u) + 1
      BY <2>1, Halves
    <3> QED BY <3>1, <3>2
  <2>3. Len(v) <= 2 * Half(Len(u))
    BY <2>1, Halves
  <2>4. Len(v) = Len(u) + 1 /\ 2 * Half(Len(u)) = Len(v)
    BY <1>1, <2>1, <2>2, <2>3, Squeezed
  <2>5. u[Len(u)] = v[Len(u)]
    <3>1. Len(u) \in 1..(2 * Half(Len(u))) /\ Len(u) <= Len(u) /\ Len(u) <= Len(v)
      BY <1>1, <2>1, <2>4
    <3> QED BY <1>1, <3>1, PairsSame
  <2>6. u[Len(u)] = v[Len(v)]
    <3>1. Len(v) \in 1..(2 * Half(Len(u))) /\ ~ (Len(v) <= Len(u)) /\ Len(v) <= Len(v)
      BY <1>1, <2>1, <2>4
    <3> QED BY <1>1, <3>1, PairsSame
  <2>7. Len(u) \in DOMAIN v /\ Len(v) \in DOMAIN v /\ Len(u) # Len(v)
    BY <1>1, <2>1
  <2> QED BY <1>1, <2>5, <2>6, <2>7 DEF NoTwice
<1>2. ~ (Len(s) < Len(t)) /\ ~ (Len(t) < Len(s))
  BY <1>1
<1>3. Len(s) = Len(t)
  <2>1. PICK a, b : a = Len(s) /\ b = Len(t)
    OBVIOUS
  <2>2. a \in Nat /\ b \in Nat /\ ~ (a < b) /\ ~ (b < a)
    BY <1>0, <1>2, <2>1
  <2>3. a = b
    BY ONLY <2>2
  <2> QED BY <2>1, <2>3
<1> QED BY <1>3, PairsOfOneLength

LEMMA PairsKeepDistinct ==
  ASSUME NEW s, IsSeq(s), Len(s) > 0, NoTwice(s)
  PROVE  NoTwice(Pairs(s))
<1>0. /\ Len(s) \in Nat /\ DOMAIN s = 1..Len(s) /\ Half(Len(s)) \in Nat
      /\ 2 * Half(Len(s)) <= Len(s) + 1
  BY SeqFacts, Halves
<1>1. DOMAIN Pairs(s) = 1..Half(Len(s))
  BY DEF Pairs, Half
<1>2. ASSUME NEW i \in 1..Half(Len(s)), NEW j \in 1..Half(Len(s)), Pairs(s)[i] = Pairs(s)[j]
      PROVE  i = j
  <2>1. Padded(s)[2 * i - 1] = Padded(s)[2 * j - 1]
    <3>1. Node(Padded(s)[2 * i - 1], Padded(s)[2 * i]) = Node(Padded(s)[2 * j - 1], Padded(s)[2 * j])
      BY <1>2, PairsFacts
    <3> QED BY <3>1, NodesDiffer
  <2>2. ASSUME NEW k \in 1..Half(Len(s))
        PROVE  2 * k - 1 \in 1..Len(s) /\ Padded(s)[2 * k - 1] = s[2 * k - 1]
    <3>1. /\ 2 * k - 1 \in 1..(2 * Half(Len(s))) /\ 2 * k - 1 \in 1..Len(s)
          /\ 2 * k - 1 <= Len(s)
      BY <1>0
    <3> QED BY <3>1, PaddedFacts
  <2>3. 2 * i - 1 = 2 * j - 1
    BY <1>0, <2>1, <2>2 DEF NoTwice
  <2> QED BY <2>3
<1> QED BY <1>1, <1>2 DEF NoTwice

-----------------------------------------------------------------------------
\* The recursion of MerkleRoot has a solution, so it means what it says.
LeafLayer(leaves) == [i \in DOMAIN leaves |-> Leaf(leaves[i])]
Above(layer)      == IF Len(layer) > 1 THEN Pairs(layer) ELSE layer

LEMMA LayersDef ==
  ASSUME NEW leaves, Len(leaves) \in Nat
  PROVE  /\ Layers(leaves)[0] = LeafLayer(leaves)
         /\ \A n \in 0..(Len(leaves) - 1) :
               Layers(leaves)[n + 1] = Above(Layers(leaves)[n])
<1> DEFINE base == LeafLayer(leaves)
           Fits(g, m) == g = [n \in 0..m |-> IF n = 0 THEN base ELSE Above(g[n - 1])]
           S == {m \in Nat : \E g : Fits(g, m)}
<1> HIDE DEF base
<1>1. 0 \in S
  <2>1. Fits([n \in 0..0 |-> base], 0)
    OBVIOUS
  <2> QED BY <2>1
<1>2. ASSUME NEW m \in Nat, m \in S PROVE m + 1 \in S
  <2>1. PICK g : Fits(g, m)
    BY <1>2
  <2>2. PICK h : h = [n \in 0..(m + 1) |-> IF n = m + 1 THEN Above(g[m]) ELSE g[n]]
    OBVIOUS
  <2>3. ASSUME NEW n \in 0..(m + 1)
        PROVE  h[n] = IF n = 0 THEN base ELSE Above(h[n - 1])
    <3>1. CASE n = m + 1
      <4>1. n # 0 /\ n - 1 = m /\ m \in 0..(m + 1) /\ m # m + 1
        BY <1>2, <3>1
      <4> QED BY <2>2, <3>1, <4>1
    <3>2. CASE n # m + 1
      <4>1. n \in 0..m
        BY <1>2, <3>2
      <4>2. h[n] = g[n] /\ g[n] = IF n = 0 THEN base ELSE Above(g[n - 1])
        BY <2>1, <2>2, <3>2, <4>1
      <4>3. n # 0 => n - 1 \in 0..(m + 1) /\ n - 1 # m + 1
        BY <1>2, <3>2, <4>1
      <4> QED BY <2>2, <4>2, <4>3
    <3> QED BY <3>1, <3>2
  <2>4. Fits(h, m + 1)
    BY <2>2, <2>3, Zenon
  <2> QED BY <2>4
<1>3. PICK g : Fits(g, Len(leaves))
  <2> HIDE DEF S
  <2>1. \A m \in Nat : m \in S
    BY <1>1, <1>2, NatSetInduction
  <2> QED BY <2>1 DEF S
<1>4. Fits(Layers(leaves), Len(leaves))
  BY <1>3 DEF Layers, base, LeafLayer, Above
<1>5. 0 \in 0..Len(leaves)
  OBVIOUS
<1>6. ASSUME NEW n \in 0..(Len(leaves) - 1)
      PROVE  n + 1 \in 0..Len(leaves) /\ n + 1 # 0 /\ (n + 1) - 1 = n
  BY <1>6
<1> HIDE DEF Fits
<1>7. PICK t : t = Layers(leaves)
  OBVIOUS
<1>8. t = [n \in 0..Len(leaves) |-> IF n = 0 THEN base ELSE Above(t[n - 1])]
  BY <1>4, <1>7 DEF Fits
<1>9. t[0] = base /\ \A n \in 0..(Len(leaves) - 1) : t[n + 1] = Above(t[n])
  BY <1>5, <1>6, <1>8
<1> QED BY <1>7, <1>9 DEF base

LEMMA MerkleRootIsTop ==
  ASSUME NEW leaves
  PROVE  MerkleRoot(leaves) = IF leaves = <<>> THEN <<"empty">> ELSE Layers(leaves)[Len(leaves)][1]
  BY DEF MerkleRoot, Layers

LEMMA LeafLayerFacts ==
  ASSUME NEW leaves, IsSeq(leaves)
  PROVE  /\ IsSeq(LeafLayer(leaves)) /\ Len(LeafLayer(leaves)) = Len(leaves)
         /\ \A i \in 1..Len(leaves) : LeafLayer(leaves)[i] = Leaf(leaves[i])
         /\ NoTwice(leaves) => NoTwice(LeafLayer(leaves))
<1>1. Len(leaves) \in Nat /\ DOMAIN leaves = 1..Len(leaves)
  BY SeqFacts
<1>2. PICK t : t = LeafLayer(leaves)
  OBVIOUS
<1>3. t = [i \in 1..Len(leaves) |-> Leaf(leaves[i])]
  BY <1>1, <1>2 DEF LeafLayer
<1>4. t = [i \in 1..Len(leaves) |-> t[i]]
  BY <1>3
<1>5. IsSeq(t) /\ Len(t) = Len(leaves) /\ DOMAIN t = 1..Len(leaves)
  BY ONLY <1>1, <1>4, SeqByElements
<1>6. ASSUME NoTwice(leaves) PROVE NoTwice(t)
  <2>1. ASSUME NEW i \in 1..Len(leaves), NEW j \in 1..Len(leaves), t[i] = t[j]
        PROVE  i = j
    <3>1. leaves[i] = leaves[j]
      BY <1>3, <2>1, LeavesDiffer
    <3> QED BY <1>1, <1>6, <3>1 DEF NoTwice
  <2> QED BY <1>5, <2>1 DEF NoTwice
<1> QED BY <1>2, <1>3, <1>5, <1>6

LEMMA AboveFacts ==
  ASSUME NEW s, IsSeq(s), Len(s) > 0
  PROVE  /\ IsSeq(Above(s)) /\ Len(Above(s)) > 0 /\ Len(Above(s)) \in Nat
         /\ Len(s) > 1 => Len(Above(s)) < Len(s) /\ Above(s) = Pairs(s)
         /\ Len(s) <= 1 => Above(s) = s
         /\ NoTwice(s) => NoTwice(Above(s))
<1>1. Len(s) \in Nat
  BY SeqFacts
<1>2. CASE Len(s) > 1
  <2>1. Above(s) = Pairs(s) /\ ~ (Len(s) <= 1)
    BY <1>1, <1>2 DEF Above
  <2>2. IsSeq(Pairs(s)) /\ Len(Pairs(s)) = Half(Len(s))
    BY PairsFacts
  <2>3. Half(Len(s)) \in Nat /\ Half(Len(s)) > 0 /\ Half(Len(s)) < Len(s)
    BY <1>1, <1>2, Halves
  <2>4. NoTwice(s) => NoTwice(Pairs(s))
    BY PairsKeepDistinct
  <2> QED BY <2>1, <2>2, <2>3, <2>4
<1>3. CASE ~ (Len(s) > 1)
  <2>1. Above(s) = s
    BY <1>3 DEF Above
  <2> QED BY <1>1, <1>3, <2>1
<1> QED BY <1>2, <1>3

\* Every layer is a list that is not empty; it shrinks as long as it can.
LEMMA LayerShape ==
  ASSUME NEW leaves, IsSeq(leaves), Len(leaves) > 0, NEW n \in 0..Len(leaves)
  PROVE  /\ IsSeq(Layers(leaves)[n]) /\ Len(Layers(leaves)[n]) > 0
         /\ Len(Layers(leaves)[n]) \in Nat
         /\ Len(Layers(leaves)[n]) = 1 \/ Len(Layers(leaves)[n]) <= Len(leaves) - n
         /\ NoTwice(leaves) => NoTwice(Layers(leaves)[n])
<1>0. Len(leaves) \in Nat
  BY SeqFacts
<1>1. PICK t, N : t = Layers(leaves) /\ N = Len(leaves)
  OBVIOUS
<1>2. /\ t[0] = LeafLayer(leaves)
      /\ \A m \in 0..(N - 1) : t[m + 1] = Above(t[m])
  BY <1>0, <1>1, LayersDef
<1> DEFINE Fine(m) == /\ IsSeq(t[m]) /\ Len(t[m]) > 0 /\ Len(t[m]) \in Nat
                      /\ Len(t[m]) = 1 \/ Len(t[m]) <= N - m
                      /\ NoTwice(leaves) => NoTwice(t[m])
           S == {m \in Nat : m \in 0..N => Fine(m)}
<1>3. 0 \in S
  <2>1. IsSeq(t[0]) /\ Len(t[0]) = N /\ (NoTwice(leaves) => NoTwice(t[0]))
    BY <1>1, <1>2, LeafLayerFacts
  <2> QED BY <1>0, <1>1, <2>1
<1>4. ASSUME NEW m \in Nat, m \in S PROVE m + 1 \in S
  <2> SUFFICES ASSUME m + 1 \in 0..N PROVE Fine(m + 1)
    OBVIOUS
  <2>1. N \in Nat /\ m \in 0..N /\ m \in 0..(N - 1)
    BY <1>0, <1>1
  <2>2. Fine(m) /\ t[m + 1] = Above(t[m])
    BY <1>2, <1>4, <2>1
  <2>3. PICK s : s = t[m]
    OBVIOUS
  <2>4. IsSeq(s) /\ Len(s) > 0 /\ Len(s) \in Nat /\ (Len(s) = 1 \/ Len(s) <= N - m)
        /\ (NoTwice(leaves) => NoTwice(s)) /\ t[m + 1] = Above(s)
    BY <2>2, <2>3
  <2>5. /\ IsSeq(Above(s)) /\ Len(Above(s)) > 0 /\ Len(Above(s)) \in Nat
        /\ Len(s) > 1 => Len(Above(s)) < Len(s)
        /\ Len(s) <= 1 => Above(s) = s
        /\ NoTwice(s) => NoTwice(Above(s))
    BY <2>4, AboveFacts
  <2>6. Len(Above(s)) = 1 \/ Len(Above(s)) <= N - (m + 1)
    <3>1. CASE Len(s) > 1
      <4>1. PICK a, b : a = Len(s) /\ b = Len(Above(s))
        OBVIOUS
      <4>2. a \in Nat /\ b \in Nat /\ b < a /\ a <= N - m
        BY <2>4, <2>5, <3>1, <4>1
      <4>3. b <= N - (m + 1)
        BY ONLY <4>2, <2>1, m \in Nat
      <4> QED BY <4>1, <4>3
    <3>2. CASE Len(s) <= 1
      <4>1. Len(s) = 1
        BY <2>4, <3>2
      <4> QED BY <2>5, <3>2, <4>1
    <3> QED BY <2>4, <3>1, <3>2
  <2> QED BY <2>4, <2>5, <2>6
<1>5. n \in S
  <2> HIDE DEF S
  <2>1. \A m \in Nat : m \in S
    BY <1>3, <1>4, NatSetInduction
  <2> QED BY <1>0, <2>1
<1> QED BY <1>1, <1>5

\* The depth of a tree: where its layers stop shrinking.
IsDepth(leaves, d) ==
    /\ d \in 0..Len(leaves) /\ Len(Layers(leaves)[d]) = 1
    /\ \A n \in 0..(d - 1) : Len(Layers(leaves)[n]) > 1
    /\ Layers(leaves)[Len(leaves)] = Layers(leaves)[d]

LEMMA DepthExists ==
  ASSUME NEW leaves, IsSeq(leaves), Len(leaves) > 0
  PROVE  \E d : IsDepth(leaves, d)
<1>0. Len(leaves) \in Nat
  BY SeqFacts
<1>1. PICK t, N : t = Layers(leaves) /\ N = Len(leaves)
  OBVIOUS
<1>2. \A m \in 0..(N - 1) : t[m + 1] = Above(t[m])
  BY <1>0, <1>1, LayersDef
<1>3. \A m \in 0..N : /\ IsSeq(t[m]) /\ Len(t[m]) > 0 /\ Len(t[m]) \in Nat
                      /\ Len(t[m]) = 1 \/ Len(t[m]) <= N - m
  BY <1>1, LayerShape
<1> DEFINE Stops(d, m) == /\ d \in 0..m /\ \A n \in 0..(d - 1) : Len(t[n]) > 1
                          /\ d = m \/ (Len(t[d]) = 1 /\ t[m] = t[d])
           S == {m \in Nat : m \in 0..N => \E d : Stops(d, m)}
<1>4. 0 \in S
  <2>1. Stops(0, 0)
    OBVIOUS
  <2> QED BY <2>1
<1>5. ASSUME NEW m \in Nat, m \in S PROVE m + 1 \in S
  <2> SUFFICES ASSUME m + 1 \in 0..N PROVE \E d : Stops(d, m + 1)
    OBVIOUS
  <2>1. m \in 0..N /\ m \in 0..(N - 1) /\ N \in Nat
    BY <1>0, <1>1
  <2>2. PICK d : Stops(d, m)
    BY <1>5, <2>1
  <2>3. t[m + 1] = Above(t[m]) /\ IsSeq(t[m]) /\ Len(t[m]) > 0 /\ Len(t[m]) \in Nat
    BY <1>2, <1>3, <2>1
  <2>4. CASE Len(t[m]) > 1
    <3>1. d = m
      <4>1. Len(t[m]) # 1
        <5>1. PICK a : a = Len(t[m])
          OBVIOUS
        <5>2. a \in Nat /\ a > 1
          BY <2>3, <2>4, <5>1
        <5>3. a # 1
          BY ONLY <5>2
        <5> QED BY <5>1, <5>3
      <4> QED BY <2>2, <4>1
    <3>2. \A n \in 0..m : n = m \/ n \in 0..(m - 1)
      OBVIOUS
    <3>3. m + 1 \in 0..(m + 1) /\ (m + 1) - 1 = m
      OBVIOUS
    <3>4. Stops(m + 1, m + 1)
      BY <2>2, <2>4, <3>1, <3>2, <3>3
    <3> QED BY <3>4
  <2>5. CASE ~ (Len(t[m]) > 1)
    <3>1. Len(t[m]) = 1 /\ Len(t[m]) <= 1
      <4>1. PICK a \in Nat : a = Len(t[m])
        BY <2>3
      <4>2. a > 0 /\ ~ (a > 1)
        BY <2>3, <2>5, <4>1
      <4>3. a = 1 /\ a <= 1
        BY ONLY <4>2, a \in Nat
      <4> QED BY ONLY <4>1, <4>3
    <3>2. t[m + 1] = t[m]
      BY <2>3, <3>1, AboveFacts
    <3>3. d \in 0..(m + 1) /\ Len(t[d]) = 1 /\ t[m] = t[d]
      BY <2>2, <3>1
    <3>4. Stops(d, m + 1)
      BY <2>2, <3>2, <3>3
    <3> QED BY <3>4
  <2> QED BY <2>4, <2>5
<1>6. N \in S
  <2> HIDE DEF S
  <2>1. \A m \in Nat : m \in S
    BY <1>4, <1>5, NatSetInduction
  <2> QED BY <1>0, <1>1, <2>1
<1>7. N \in 0..N /\ N \in Nat
  BY <1>0, <1>1
<1>8. PICK d : Stops(d, N)
  BY <1>6, <1>7
<1>9. Len(t[d]) = 1 /\ t[N] = t[d]
  <2>1. CASE d = N
    <3>1. Len(t[N]) = 1 \/ Len(t[N]) <= 0
      BY <1>3, <1>7
    <3>2. Len(t[N]) \in Nat /\ Len(t[N]) > 0
      BY <1>3, <1>7
    <3> QED BY <2>1, <3>1, <3>2
  <2> QED BY <1>8, <2>1
<1> QED BY <1>1, <1>8, <1>9 DEF IsDepth

-----------------------------------------------------------------------------
\* Two trees with the same top agree in every layer, counted from the top, when
\* their leaves are distinct.
LEMMA Descend ==
  ASSUME NEW x, NEW y, IsSeq(x), IsSeq(y), Len(x) > 0, Len(y) > 0, NoTwice(x), NoTwice(y),
         Layers(x)[Len(x)][1] = Layers(y)[Len(y)][1],
         NEW d, NEW e, IsDepth(x, d), IsDepth(y, e), NEW k \in Nat, k <= d, k <= e
  PROVE  Layers(x)[d - k] = Layers(y)[e - k]
<1>0. /\ Len(x) \in Nat /\ Len(y) \in Nat /\ d \in Nat /\ e \in Nat
      /\ d <= Len(x) /\ e <= Len(y)
  BY SeqFacts DEF IsDepth
<1>1. PICK s, t, M, N : s = Layers(x) /\ t = Layers(y) /\ M = Len(x) /\ N = Len(y)
  OBVIOUS
<1>2. /\ \A n \in 0..(M - 1) : s[n + 1] = Above(s[n])
      /\ \A n \in 0..(N - 1) : t[n + 1] = Above(t[n])
  BY <1>0, <1>1, LayersDef
<1>3. /\ \A n \in 0..M : IsSeq(s[n]) /\ Len(s[n]) > 0 /\ NoTwice(s[n])
      /\ \A n \in 0..N : IsSeq(t[n]) /\ Len(t[n]) > 0 /\ NoTwice(t[n])
  BY <1>1, LayerShape
<1>4. /\ Len(s[d]) = 1 /\ Len(t[e]) = 1 /\ s[d][1] = t[e][1]
      /\ \A n \in 0..(d - 1) : Len(s[n]) > 1
      /\ \A n \in 0..(e - 1) : Len(t[n]) > 1
  BY <1>1 DEF IsDepth
<1> DEFINE S == {m \in Nat : m <= d /\ m <= e => s[d - m] = t[e - m]}
<1>5. 0 \in S
  <2>1. d \in 0..M /\ e \in 0..N /\ d - 0 = d /\ e - 0 = e
    BY <1>0, <1>1
  <2>2. s[d] = [i \in 1..1 |-> s[d][i]] /\ t[e] = [i \in 1..1 |-> t[e][i]]
    BY <1>3, <1>4, <2>1, SeqFacts
  <2>3. \A i \in 1..1 : s[d][i] = t[e][i]
    BY <1>4
  <2>4. s[d] = t[e]
    BY <2>2, <2>3
  <2> QED BY <2>1, <2>4
<1>6. ASSUME NEW m \in Nat, m \in S PROVE m + 1 \in S
  <2> SUFFICES ASSUME m + 1 <= d, m + 1 <= e PROVE s[d - (m + 1)] = t[e - (m + 1)]
    OBVIOUS
  <2>1. PICK a, b : a = d - (m + 1) /\ b = e - (m + 1)
    OBVIOUS
  <2>2. /\ a \in 0..(d - 1) /\ a \in 0..M /\ a \in 0..(M - 1) /\ a + 1 = d - m
        /\ b \in 0..(e - 1) /\ b \in 0..N /\ b \in 0..(N - 1) /\ b + 1 = e - m
        /\ m <= d /\ m <= e
    BY <1>0, <1>1, <2>1
  <2>3. s[a + 1] = t[b + 1]
    BY <1>6, <2>2
  <2>4. Len(s[a]) > 1 /\ Len(t[b]) > 1
    BY <1>4, <2>2
  <2>5. s[a + 1] = Pairs(s[a]) /\ t[b + 1] = Pairs(t[b])
    BY <1>2, <1>3, <2>2, <2>4, AboveFacts
  <2>6. s[a] = t[b]
    BY <1>3, <2>2, <2>3, <2>5, PairsOfDistinct
  <2> QED BY <2>1, <2>6
<1>7. k \in S
  <2> HIDE DEF S
  <2>1. \A m \in Nat : m \in S
    BY <1>5, <1>6, NatSetInduction
  <2> QED BY <2>1
<1> QED BY <1>1, <1>7

\* No leaf is a node: two such trees are equally deep.
LEMMA NotDeeper ==
  ASSUME NEW x, NEW y, IsSeq(x), IsSeq(y), Len(x) > 0, Len(y) > 0, NoTwice(x), NoTwice(y),
         Layers(x)[Len(x)][1] = Layers(y)[Len(y)][1],
         NEW d, NEW e, IsDepth(x, d), IsDepth(y, e), d < e
  PROVE  FALSE
<1>0. /\ Len(x) \in Nat /\ Len(y) \in Nat /\ d \in Nat /\ e \in Nat /\ e <= Len(y)
  BY SeqFacts DEF IsDepth
<1>1. PICK c : c = e - d - 1
  OBVIOUS
<1>2. c \in 0..(Len(y) - 1) /\ c \in 0..Len(y) /\ c \in 0..(e - 1) /\ c + 1 = e - d /\ d - d = 0
  BY <1>0, <1>1
<1>3. Layers(x)[0] = Layers(y)[c + 1]
  <2>1. d \in Nat /\ d <= d /\ d <= e
    BY <1>0
  <2>2. Layers(x)[d - d] = Layers(y)[e - d]
    BY <2>1, Descend
  <2> QED BY <1>2, <2>2
<1>4. Layers(x)[0][1] = Leaf(x[1])
  <2>1. Layers(x)[0] = LeafLayer(x) /\ 1 \in 1..Len(x)
    BY <1>0, LayersDef
  <2> QED BY <2>1, LeafLayerFacts
<1>5. PICK u : u = Layers(y)[c]
  OBVIOUS
<1>6. IsSeq(u) /\ Len(u) > 0 /\ Len(u) > 1
  BY <1>2, <1>5, LayerShape DEF IsDepth
<1>7. Layers(y)[c + 1] = Pairs(u)
  <2>1. Layers(y)[c + 1] = Above(u)
    BY <1>0, <1>2, <1>5, LayersDef
  <2> QED BY <1>6, <2>1, AboveFacts
<1>8. \E l, r : Pairs(u)[1] = Node(l, r)
  <2>1. Len(u) \in Nat
    BY <1>6, SeqFacts
  <2>2. Half(Len(u)) \in Nat /\ Half(Len(u)) > 0
    BY <1>6, <2>1, Halves
  <2>3. 1 \in 1..Half(Len(u))
    BY <2>2
  <2>4. Pairs(u)[1] = Node(Padded(u)[2 * 1 - 1], Padded(u)[2 * 1])
    BY <1>6, <2>3, PairsFacts
  <2> QED BY <2>4, Zenon
<1> QED BY <1>3, <1>4, <1>7, <1>8, NodesDiffer

\* Equal leaf layers have equal leaves.
LEMMA SameLeaves ==
  ASSUME NEW x, NEW y, IsSeq(x), IsSeq(y), LeafLayer(x) = LeafLayer(y)
  PROVE  x = y
<1>1. Len(x) = Len(y)
  BY LeafLayerFacts
<1>2. ASSUME NEW i \in 1..Len(x) PROVE x[i] = y[i]
  <2>1. Leaf(x[i]) = Leaf(y[i])
    BY <1>1, <1>2, LeafLayerFacts
  <2> QED BY <2>1, LeavesDiffer
<1>3. x = [i \in 1..Len(x) |-> x[i]] /\ y = [i \in 1..Len(x) |-> y[i]]
  BY <1>1, SeqFacts
<1> QED BY <1>2, <1>3

\* Lists of distinct leaves with one root are one list.
LEMMA DistinctBound ==
  ASSUME NEW x, NEW y, IsSeq(x), IsSeq(y), Len(x) > 0, Len(y) > 0, NoTwice(x), NoTwice(y),
         Layers(x)[Len(x)][1] = Layers(y)[Len(y)][1]
  PROVE  x = y
<1>1. PICK d, e : IsDepth(x, d) /\ IsDepth(y, e)
  BY DepthExists
<1>2. d \in Nat /\ e \in Nat /\ Len(x) \in Nat /\ Len(y) \in Nat
  BY <1>1, SeqFacts DEF IsDepth
<1>3. ~ (d < e)
  BY <1>1, NotDeeper
<1>4. ~ (e < d)
  BY <1>1, NotDeeper
<1>5. d = e /\ d <= d /\ d - d = 0
  BY <1>2, <1>3, <1>4
<1>6. Layers(x)[d - d] = Layers(y)[d - d]
  BY <1>1, <1>2, <1>5, Descend
<1>7. LeafLayer(x) = LeafLayer(y)
  BY <1>2, <1>5, <1>6, LayersDef
<1> QED BY <1>7, SameLeaves

\* Lists of one length with one root are one list, repetitions or not.
LEMMA LengthBound ==
  ASSUME NEW x, NEW y, IsSeq(x), IsSeq(y), Len(x) > 0, Len(x) = Len(y),
         Layers(x)[Len(x)][1] = Layers(y)[Len(y)][1]
  PROVE  x = y
<1>0. Len(x) \in Nat
  BY SeqFacts
<1>1. PICK s, t, N : s = Layers(x) /\ t = Layers(y) /\ N = Len(x)
  OBVIOUS
<1>2. /\ \A n \in 0..(N - 1) : s[n + 1] = Above(s[n])
      /\ \A n \in 0..(N - 1) : t[n + 1] = Above(t[n])
      /\ s[0] = LeafLayer(x) /\ t[0] = LeafLayer(y)
  BY <1>0, <1>1, LayersDef
<1>3. \A n \in 0..N : /\ IsSeq(s[n]) /\ Len(s[n]) > 0 /\ Len(s[n]) \in Nat
                      /\ IsSeq(t[n]) /\ Len(t[n]) > 0
                      /\ Len(s[n]) = 1 \/ Len(s[n]) <= N - n
  BY <1>1, LayerShape
<1> DEFINE S == {m \in Nat : m \in 0..N => Len(s[m]) = Len(t[m])}
           T == {m \in Nat : m \in 0..N => s[N - m] = t[N - m]}
<1>4. \A m \in Nat : m \in S
  <2>1. 0 \in S
    BY <1>2, LeafLayerFacts
  <2>2. ASSUME NEW m \in Nat, m \in S PROVE m + 1 \in S
    <3> SUFFICES ASSUME m + 1 \in 0..N PROVE Len(s[m + 1]) = Len(t[m + 1])
      OBVIOUS
    <3>1. m \in 0..N /\ m \in 0..(N - 1)
      BY <1>0, <1>1
    <3>2. Len(s[m]) = Len(t[m]) /\ s[m + 1] = Above(s[m]) /\ t[m + 1] = Above(t[m])
      BY <1>2, <2>2, <3>1
    <3>3. IsSeq(s[m]) /\ IsSeq(t[m])
      BY <1>3, <3>1
    <3>4. PICK p, q : p = s[m] /\ q = t[m]
      OBVIOUS
    <3>5. IsSeq(p) /\ IsSeq(q) /\ Len(p) = Len(q)
      BY <3>2, <3>3, <3>4
    <3>6. Len(Pairs(p)) = Len(Pairs(q))
      BY ONLY <3>5, PairsFacts
    <3>7. Len(Above(p)) = Len(Above(q))
      BY ONLY <3>5, <3>6 DEF Above
    <3> QED BY <3>2, <3>4, <3>7
  <2> HIDE DEF S
  <2> QED BY <2>1, <2>2, NatSetInduction
<1>5. \A m \in Nat : m \in T
  <2>1. 0 \in T
    <3>1. N \in 0..N /\ N \in Nat /\ N - 0 = N
      BY <1>0, <1>1
    <3>2. Len(s[N]) = 1
      <4>1. Len(s[N]) = 1 \/ Len(s[N]) <= N - N
        BY <1>3, <3>1
      <4>2. Len(s[N]) \in Nat /\ Len(s[N]) > 0
        BY <1>3, <3>1
      <4> QED BY <3>1, <4>1, <4>2
    <3>3. Len(t[N]) = 1
      BY <1>4, <3>1, <3>2
    <3>4. s[N] = [i \in 1..1 |-> s[N][i]] /\ t[N] = [i \in 1..1 |-> t[N][i]]
      BY <1>3, <3>1, <3>2, <3>3, SeqFacts
    <3>5. \A i \in 1..1 : s[N][i] = t[N][i]
      BY <1>1
    <3>6. s[N] = t[N]
      BY <3>4, <3>5
    <3> QED BY <3>1, <3>6
  <2>2. ASSUME NEW m \in Nat, m \in T PROVE m + 1 \in T
    <3> SUFFICES ASSUME m + 1 \in 0..N PROVE s[N - (m + 1)] = t[N - (m + 1)]
      OBVIOUS
    <3>1. PICK a : a = N - (m + 1)
      OBVIOUS
    <3>2. a \in 0..N /\ a \in 0..(N - 1) /\ a \in Nat /\ a + 1 = N - m /\ m \in 0..N
      BY <1>0, <1>1, <3>1
    <3>3. s[a + 1] = t[a + 1]
      BY <2>2, <3>2
    <3>4. s[a + 1] = Above(s[a]) /\ t[a + 1] = Above(t[a])
      BY <1>2, <3>2
    <3>5. /\ IsSeq(s[a]) /\ IsSeq(t[a]) /\ Len(s[a]) > 0 /\ Len(s[a]) = Len(t[a])
      BY <1>3, <1>4, <3>2
    <3>6. s[a] = t[a]
      BY <3>3, <3>4, <3>5, PairsOfOneLength DEF Above
    <3> QED BY <3>1, <3>6
  <2> HIDE DEF T
  <2> QED BY <2>1, <2>2, NatSetInduction
<1>6. s[0] = t[0]
  <2>1. N \in Nat /\ N \in 0..N /\ N - N = 0
    BY <1>0, <1>1
  <2> QED BY <1>5, <2>1
<1> QED BY <1>2, <1>6, SameLeaves

-----------------------------------------------------------------------------
\* The lists that the two roots of a body commit to.
Txids(txs)     == [i \in DOMAIN txs |-> txs[i].txid]
Witnesses(txs) == [i \in DOMAIN txs |-> txs[i].witness]

LEMMA BodyFacts ==
  ASSUME NEW txs \in Bodies
  PROVE  /\ IsSeq(txs) /\ Len(txs) \in Nat /\ DOMAIN txs = 1..Len(txs)
         /\ IsSeq(Txids(txs)) /\ Len(Txids(txs)) = Len(txs)
         /\ IsSeq(Witnesses(txs)) /\ Len(Witnesses(txs)) = Len(txs)
         /\ \A i \in DOMAIN txs : txs[i] \in Transactions
<1>1. PICK m \in 0..MAX_TXS : txs \in [1..m -> Transactions]
  BY DEF Bodies, BoundedSeq, SeqOf
<1>2. m \in Nat
  BY MerkleAssumption
<1>3. txs = [i \in 1..m |-> txs[i]]
  BY <1>1
<1>4. IsSeq(txs) /\ Len(txs) = m /\ DOMAIN txs = 1..m
  BY <1>2, <1>3, SeqByElements
<1>5. PICK x, w : x = Txids(txs) /\ w = Witnesses(txs)
  OBVIOUS
<1>6. x = [i \in 1..m |-> x[i]] /\ w = [i \in 1..m |-> w[i]]
  BY <1>4, <1>5 DEF Txids, Witnesses
<1>7. IsSeq(x) /\ Len(x) = m
  BY ONLY <1>2, <1>6, SeqByElements
<1>8. IsSeq(w) /\ Len(w) = m
  BY ONLY <1>2, <1>6, SeqByElements
<1> QED BY <1>1, <1>2, <1>4, <1>5, <1>7, <1>8

\* The header is made for a body of distinct transactions.
LEMMA HonestIsDistinct ==
  ASSUME NEW txs \in Bodies, IsHonest(txs)
  PROVE  NoTwice(Txids(txs)) /\ Len(txs) > 0
<1>1. PICK x, n : x = Txids(txs) /\ n = Len(txs)
  OBVIOUS
<1>2. n \in Nat /\ DOMAIN txs = 1..n /\ DOMAIN x = 1..n /\ x = [i \in 1..n |-> txs[i].txid]
  BY <1>1, BodyFacts DEF Txids
<1>3. PICK T : T = {txs[i].txid : i \in 1..n}
  OBVIOUS
<1>4. Cardinality(T) = n
  BY <1>1, <1>2, <1>3 DEF IsHonest
<1>5. x \in Surjection(1..n, T)
  <2>1. x \in [1..n -> T]
    BY <1>2, <1>3
  <2>2. \A e \in T : \E i \in 1..n : x[i] = e
    BY <1>2, <1>3
  <2> QED BY <2>1, <2>2 DEF Surjection
<1>6. IsFiniteSet(1..n) /\ Cardinality(1..n) = n
  BY <1>2, FS_Interval
<1>7. x \in Injection(1..n, T)
  BY ONLY <1>4, <1>5, <1>6, FS_Surjection
<1>8. NoTwice(x)
  BY <1>2, <1>7 DEF Injection, IsInjective, NoTwice
<1>9. n > 0
  <2>1. IsSeq(txs) /\ txs # <<>>
    BY BodyFacts DEF IsHonest
  <2>2. Len(txs) # 0
    BY <2>1 DEF IsSeq
  <2> QED BY <1>1, <1>2, <2>2
<1> QED BY <1>1, <1>8, <1>9

\* Two bodies whose txids are distinct and whose roots agree are one body.
LEMMA RootsBind ==
  ASSUME NEW a \in Bodies, NEW b \in Bodies, Len(a) > 0, Len(b) > 0,
         NoTwice(Txids(a)), NoTwice(Txids(b)),
         TxRoot(a) = TxRoot(b), WitnessRoot(a) = WitnessRoot(b)
  PROVE  a = b
<1>1. PICK x, y, u, v : /\ x = Txids(a) /\ y = Txids(b)
                        /\ u = Witnesses(a) /\ v = Witnesses(b)
  OBVIOUS
<1>2. /\ IsSeq(x) /\ IsSeq(y) /\ Len(x) = Len(a) /\ Len(y) = Len(b)
      /\ IsSeq(u) /\ IsSeq(v) /\ Len(u) = Len(a) /\ Len(v) = Len(b)
      /\ Len(a) \in Nat /\ Len(b) \in Nat
  BY <1>1, BodyFacts
<1>3. ASSUME NEW l, Len(l) > 0, Len(l) \in Nat
      PROVE  MerkleRoot(l) = Layers(l)[Len(l)][1]
  <2>1. l # <<>>
    BY <1>3
  <2> QED BY <2>1, MerkleRootIsTop
<1>4. Layers(x)[Len(x)][1] = Layers(y)[Len(y)][1]
  <2>1. MerkleRoot(x) = MerkleRoot(y)
    BY <1>1 DEF TxRoot, Txids
  <2> QED BY <1>2, <1>3, <2>1
<1>5. Layers(u)[Len(u)][1] = Layers(v)[Len(v)][1]
  <2>1. MerkleRoot(u) = MerkleRoot(v)
    BY <1>1 DEF WitnessRoot, Witnesses
  <2> QED BY <1>2, <1>3, <2>1
<1>6. x = y
  BY <1>1, <1>2, <1>4, DistinctBound
<1>7. Len(a) = Len(b)
  BY <1>2, <1>6
<1>8. u = v
  BY <1>2, <1>5, <1>7, LengthBound
<1>9. ASSUME NEW i \in 1..Len(a) PROVE a[i] = b[i]
  <2>1. i \in DOMAIN a /\ i \in DOMAIN b
    BY <1>7, <1>9, BodyFacts
  <2>2. a[i].txid = b[i].txid
    BY <1>1, <1>6, <2>1 DEF Txids
  <2>3. a[i].witness = b[i].witness
    BY <1>1, <1>8, <2>1 DEF Witnesses
  <2>4. a[i] \in Transactions /\ b[i] \in Transactions
    BY <2>1, BodyFacts
  <2> QED BY <2>2, <2>3, <2>4 DEF Transactions
<1>10. a = [i \in 1..Len(a) |-> a[i]] /\ b = [i \in 1..Len(a) |-> b[i]]
  BY <1>7, BodyFacts, SeqFacts
<1> QED BY <1>9, <1>10

\* The kept body passed check_roots, and what is connected is the honest body.
MerkleInv ==
    /\ honest \in Bodies /\ IsHonest(honest)
    /\ body \in Bodies
    /\ body # <<>> => CheckRoots(Header, body)
    /\ OnlyHonestConnects

LEMMA OnlyOneConnects ==
  ASSUME honest \in Bodies, IsHonest(honest), body \in Bodies, body # <<>>,
         CheckRoots(Header, body), Distinct(body)
  PROVE  body = honest
<1>1. TxRoot(body) = TxRoot(honest) /\ WitnessRoot(body) = WitnessRoot(honest)
  BY DEF CheckRoots, Header
<1>2. NoTwice(Txids(honest)) /\ Len(honest) > 0
  BY HonestIsDistinct
<1>3. Len(body) \in Nat /\ IsSeq(body)
  BY BodyFacts
<1>4. Len(body) > 0
  <2>1. Len(body) # 0
    BY <1>3 DEF IsSeq
  <2> QED BY <1>3, <2>1
<1>5. NoTwice(Txids(body))
  BY DEF Distinct, NoTwice, Txids
<1> QED BY <1>1, <1>2, <1>4, <1>5, RootsBind

\* A header binds its block: whatever bodies the node is handed, only the honest
\* one, with its witnesses and in its order, connects.
THEOREM HeaderBindsBody == MerkleSpec => []OnlyHonestConnects
<1>1. MerkleInit => MerkleInv
  <2> SUFFICES ASSUME MerkleInit PROVE MerkleInv
    OBVIOUS
  <2>1. <<>> \in Bodies
    <3>1. 0 \in 0..MAX_TXS /\ <<>> \in [1..0 -> Transactions]
      BY MerkleAssumption
    <3> QED BY <3>1 DEF Bodies, BoundedSeq, SeqOf
  <2> QED BY <2>1 DEF MerkleInit, MerkleInv, OnlyHonestConnects
<1>2. MerkleInv /\ [MerkleNext]_merkleVars => MerkleInv'
  <2> SUFFICES ASSUME MerkleInv, [MerkleNext]_merkleVars PROVE MerkleInv'
    OBVIOUS
  <2>1. ASSUME NEW txs \in Bodies, Receive(txs) PROVE MerkleInv'
    <3>1. UNCHANGED honest /\ connected' = connected /\ body' = txs
      BY <2>1 DEF Receive
    <3>2. Header' = Header
      BY <3>1 DEF Header
    <3>3. CheckRoots(Header, txs)
      BY <2>1 DEF Receive
    <3>4. CheckRoots(Header, body)'
      BY <3>1, <3>2, <3>3 DEF CheckRoots
    <3>5. IsHonest(honest)'
      BY <3>1 DEF MerkleInv
    <3> QED BY <3>1, <3>4, <3>5 DEF MerkleInv, OnlyHonestConnects
  <2>2. CASE Connect
    <3>1. body = honest
      BY <2>2, OnlyOneConnects DEF Connect, MerkleInv
    <3>2. connected' = honest' /\ body' = body /\ UNCHANGED honest
      BY <2>2, <3>1 DEF Connect
    <3>3. (body # <<>> => CheckRoots(Header, body))'
      BY <3>2 DEF MerkleInv, CheckRoots, Header
    <3> QED BY <3>2, <3>3 DEF MerkleInv, OnlyHonestConnects
  <2>3. CASE UNCHANGED merkleVars
    <3>1. UNCHANGED <<honest, body, connected>>
      BY <2>3 DEF merkleVars
    <3>2. (body # <<>> => CheckRoots(Header, body))'
      BY <3>1 DEF MerkleInv, CheckRoots, Header
    <3> QED BY <3>1, <3>2 DEF MerkleInv, OnlyHonestConnects
  <2> QED BY <2>1, <2>2, <2>3 DEF MerkleNext
<1>3. MerkleInv => OnlyHonestConnects
  BY DEF MerkleInv
<1> QED BY <1>1, <1>2, <1>3, PTL DEF MerkleSpec

-----------------------------------------------------------------------------
(***************************************************************************)
(* MinerLoop.                                                              *)
(***************************************************************************)
\* Counting nonces: once past the last one the count starts again.
LEMMA Wrapping ==
  ASSUME NEW n \in Nat
  PROVE  /\ Wrapped(n) \in Nonces /\ Wrapped(n) <= n
         /\ n < NONCES => Wrapped(n) = n
         /\ n >= NONCES /\ n < 2 * NONCES => Wrapped(n) = n - NONCES
<1>1. NONCES \in Nat /\ NONCES > 0
  BY MinerAssumption
<1>2. Wrapped(n) \in 0..(NONCES - 1) /\ n = (n \div NONCES) * NONCES + Wrapped(n) /\ n \div NONCES \in Nat
  BY <1>1 DEF Wrapped
<1> QED BY <1>1, <1>2 DEF Nonces

LEMMA LeastHit ==
  ASSUME NEW S, S \subseteq Nat, S # {}
  PROVE  Min(S) \in S /\ \A k \in S : Min(S) <= k
  BY LeastNat DEF Min

\* The loop mines for the epoch of its template, and no nonce of that epoch is
\* left behind the place it goes on from.
MinerInv ==
    /\ works \in [Epochs -> SUBSET Nonces]
    /\ height \in 0..TOP
    /\ template # NoBlock =>
          /\ template.height \in 1..TOP /\ template.nonce \in Nonces
          /\ template = [height |-> template.height, nonce |-> template.nonce]
          /\ ctx_epoch = EpochOfHeight(template.height)
          /\ \A n \in works[ctx_epoch] : template.nonce <= n
    /\ MinedIsWork

LEMMA EpochKnown == \A h \in 0..TOP : EpochOfHeight(h) \in Epochs
<1> TAKE h \in 0..TOP
<1>1. TOP \in Nat /\ EPOCH_LENGTH \in Nat /\ EPOCH_LENGTH > 0
  BY MinerAssumption
<1> DEFINE q == h \div EPOCH_LENGTH
           p == TOP \div EPOCH_LENGTH
           r == h % EPOCH_LENGTH
           s == TOP % EPOCH_LENGTH
<1>2. q \in Nat /\ p \in Nat /\ r \in 0..(EPOCH_LENGTH - 1) /\ s \in 0..(EPOCH_LENGTH - 1)
  BY <1>1
<1>3. h = q * EPOCH_LENGTH + r /\ TOP = p * EPOCH_LENGTH + s
  BY <1>1
<1> HIDE DEF q, p, r, s
<1>4. q <= p
  <2> SUFFICES ASSUME q > p PROVE FALSE
    BY <1>2
  <2>1. q >= p + 1
    BY <1>2
  <2>2. q * EPOCH_LENGTH >= (p + 1) * EPOCH_LENGTH
    BY <1>1, <1>2, <2>1
  <2>3. (p + 1) * EPOCH_LENGTH = p * EPOCH_LENGTH + EPOCH_LENGTH
    BY <1>1, <1>2
  <2>4. p * EPOCH_LENGTH \in Nat /\ q * EPOCH_LENGTH \in Nat
    BY <1>1, <1>2
  <2> QED BY <1>1, <1>2, <1>3, <2>2, <2>3, <2>4
<1> QED BY <1>2, <1>4 DEF EpochOfHeight, Epochs, q, p

\* A rig finds the first nonce of the epoch, if nothing lies behind its start.
LEMMA SearchFindsFirst ==
  ASSUME NEW start \in Nonces, works[ctx_epoch] \subseteq Nonces,
         \A h \in works[ctx_epoch] : start <= h, NEW n \in Search(start)
  PROVE  n \in works[ctx_epoch] /\ \A h \in works[ctx_epoch] : n <= h
<1> DEFINE W == works[ctx_epoch]
<1>1. start \in Nat /\ CHUNK \in Nat /\ CHUNK > 0 /\ NONCES \in Nat /\ W \subseteq Nat
      /\ \A h \in W : h < NONCES /\ start <= h
  BY MinerAssumption DEF Nonces
<1>2. ASSUME n \in CpuSearch(start)
      PROVE  n \in W /\ \A h \in W : n <= h
  <2> DEFINE hits == {i \in 0..(CHUNK - 1) : Wrapped(start + i) \in W}
  <2>1. hits # {} /\ n = Wrapped(start + Min(hits))
    BY <1>2 DEF CpuSearch
  <2>2. hits \subseteq Nat
    OBVIOUS
  <2>3. Min(hits) \in hits /\ \A i \in hits : Min(hits) <= i
    <3> HIDE DEF hits
    <3> QED BY <2>1, <2>2, LeastHit
  <2>4. n \in W
    BY <2>1, <2>3
  <2>5. ASSUME NEW h \in W PROVE n <= h
    <3>1. start + Min(hits) \in Nat /\ n <= start + Min(hits) /\ Min(hits) \in 0..(CHUNK - 1)
      BY <1>1, <2>1, <2>3, Wrapping
    <3>2. CASE h < start + CHUNK
      <4>1. h - start \in 0..(CHUNK - 1) /\ start + (h - start) = h
        BY <1>1, <3>2
      <4>2. Wrapped(h) = h
        BY <1>1, Wrapping
      <4>3. h - start \in hits
        BY <4>1, <4>2
      <4>4. Min(hits) <= h - start
        BY <2>3, <4>3
      <4>5. n \in Nat /\ h \in Nat
        BY <1>1, <2>4
      <4> QED BY <1>1, <3>1, <4>4, <4>5
    <3>3. CASE h >= start + CHUNK
      <4>1. n \in Nat /\ h \in Nat
        BY <1>1, <2>4
      <4> QED BY <1>1, <3>1, <3>3, <4>1
    <3> QED BY <1>1, <3>2, <3>3
  <2> QED BY <2>4, <2>5
<1>3. ASSUME n \in GpuSearch(start)
      PROVE  n \in W /\ \A h \in W : n <= h
  <2> DEFINE seen == {NONCES - 1} \cup (W \cap Window(start))
  <2>1. n = Min(seen) /\ n # NONCES - 1 /\ n >= start /\ n < Wrapped(start + CHUNK)
    BY <1>3 DEF GpuSearch
  <2>2. seen \subseteq Nat /\ seen # {}
    BY <1>1, MinerAssumption
  <2>3. Min(seen) \in seen /\ \A k \in seen : Min(seen) <= k
    <3> HIDE DEF seen
    <3> QED BY <2>2, LeastHit
  <2>4. n \in W /\ n \in Nat
    BY <1>1, <2>1, <2>3
  <2>5. ASSUME NEW h \in W PROVE n <= h
    <3>1. CASE h < start + CHUNK
      <4>1. h - start \in 0..(CHUNK - 1) /\ start + (h - start) = h
        BY <1>1, <3>1
      <4>2. Wrapped(h) = h
        BY <1>1, Wrapping
      <4>3. h \in Window(start)
        BY <4>1, <4>2 DEF Window
      <4> QED BY <2>1, <2>3, <4>3
    <3>2. CASE h >= start + CHUNK
      <4>1. Wrapped(start + CHUNK) <= start + CHUNK /\ Wrapped(start + CHUNK) \in Nat
        BY <1>1, Wrapping DEF Nonces
      <4>2. h \in Nat
        BY <1>1
      <4> QED BY <1>1, <2>1, <2>4, <3>2, <4>1, <4>2
    <3> QED BY <1>1, <3>1, <3>2
  <2> QED BY <2>4, <2>5
<1> QED BY <1>2, <1>3 DEF Search

\* A rig that finds nothing passes no nonce of the epoch; one whose window
\* wraps goes on from an earlier place.
LEMMA NothingLeftBehind ==
  ASSUME NEW start \in Nonces, works[ctx_epoch] \subseteq Nonces,
         \A h \in works[ctx_epoch] : start <= h, Search(start) = {}
  PROVE  \A h \in works[ctx_epoch] : Wrapped(start + CHUNK) <= h
<1> DEFINE W == works[ctx_epoch]
           next == Wrapped(start + CHUNK)
<1>1. start \in Nat /\ start < NONCES /\ CHUNK \in Nat /\ CHUNK > 0 /\ CHUNK <= NONCES
      /\ NONCES \in Nat /\ W \subseteq Nat /\ \A h \in W : h < NONCES /\ start <= h
  BY MinerAssumption DEF Nonces
<1>2. /\ next \in Nat /\ next <= start + CHUNK
      /\ start + CHUNK < NONCES => next = start + CHUNK
      /\ start + CHUNK >= NONCES => next = start + CHUNK - NONCES
  BY <1>1, Wrapping DEF Nonces
<1> SUFFICES ASSUME NEW h \in W, h < next PROVE FALSE
  BY <1>1, <1>2
<1>3. start + CHUNK < NONCES
  <2> SUFFICES ASSUME start + CHUNK >= NONCES PROVE FALSE
    BY <1>1
  <2>1. next <= start
    BY <1>1, <1>2
  <2> QED BY <1>1, <1>2, <2>1
<1>4. h \in Nat /\ start <= h /\ h < start + CHUNK /\ next = start + CHUNK
  BY <1>1, <1>2, <1>3
<1>5. h - start \in 0..(CHUNK - 1) /\ start + (h - start) = h /\ Wrapped(h) = h
  BY <1>1, <1>4, Wrapping
<1> HIDE DEF next
<1>6. CASE rig # "gpu"
  <2> DEFINE hits == {i \in 0..(CHUNK - 1) : Wrapped(start + i) \in W}
  <2>1. h - start \in hits
    BY <1>5
  <2> QED BY <1>6, <2>1 DEF Search, CpuSearch
<1>7. CASE rig = "gpu"
  <2> DEFINE seen == {NONCES - 1} \cup (W \cap Window(start))
             n == Min(seen)
  <2>1. h \in seen
    BY <1>5 DEF Window
  <2>2. seen \subseteq Nat /\ seen # {}
    BY <1>1, MinerAssumption
  <2>3. n \in seen /\ n <= h
    <3> HIDE DEF seen
    <3> QED BY <2>1, <2>2, LeastHit
  <2>4. n # NONCES - 1 /\ n \in W
    BY <1>1, <1>3, <1>4, <2>2, <2>3
  <2>5. n \in GpuSearch(start)
    BY <1>1, <1>4, <2>2, <2>3, <2>4 DEF GpuSearch, next
  <2> QED BY <1>7, <2>5 DEF Search
<1> QED BY <1>6, <1>7

LEMMA MinerStart == MinerInit => MinerInv
  BY MinerAssumption DEF MinerInit, MinerInv, MinedIsWork

LEMMA MinerStep == MinerInv /\ [MinerNext]_minerVars => MinerInv'
<1> SUFFICES ASSUME MinerInv, [MinerNext]_minerVars PROVE MinerInv'
  OBVIOUS
<1>1. CASE TipMoves
  <2>1. height' \in 0..(TOP - 1) /\ UNCHANGED <<works, ctx_epoch, template, mined>>
    BY <1>1 DEF TipMoves
  <2>2. TOP \in Nat /\ 0..(TOP - 1) \subseteq 0..TOP
    BY MinerAssumption
  <2>3. height' \in 0..TOP
    BY <2>1, <2>2
  <2>4. MinedIsWork'
    BY <2>1 DEF MinerInv, MinedIsWork
  <2> QED BY <2>1, <2>3, <2>4 DEF MinerInv
<1>2. CASE TakeTemplate
  <2>1. /\ template' = [height |-> height + 1, nonce |-> 0] /\ mined' = NoBlock
        /\ ctx_epoch' = EpochOfHeight(height + 1) /\ height < TOP
        /\ UNCHANGED <<command, works, height>>
    BY <1>2 DEF TakeTemplate, NeedsContext
  <2>2. height \in 0..TOP /\ TOP \in Nat /\ NONCES \in Nat /\ NONCES > 0
    BY MinerAssumption DEF MinerInv
  <2>3. height + 1 \in 1..TOP /\ 0 \in Nonces
    BY <2>1, <2>2 DEF Nonces
  <2>4. EpochOfHeight(height + 1) \in Epochs
    BY <2>2, <2>3, EpochKnown
  <2>5. works[ctx_epoch'] \subseteq Nonces
    BY <2>1, <2>4 DEF MinerInv
  <2>6. \A n \in works[ctx_epoch'] : 0 <= n
    BY <2>5 DEF Nonces
  <2> QED BY <2>1, <2>3, <2>6 DEF MinerInv, MinedIsWork
<1>3. ASSUME template # NoBlock
      PROVE  /\ template.height \in 1..TOP /\ template.nonce \in Nonces
             /\ ctx_epoch = EpochOfHeight(template.height)
             /\ works[ctx_epoch] \subseteq Nonces
             /\ \A n \in works[ctx_epoch] : template.nonce <= n
             /\ height \in 0..TOP
  <2>1. /\ template.height \in 1..TOP /\ template.nonce \in Nonces
        /\ ctx_epoch = EpochOfHeight(template.height)
        /\ \A n \in works[ctx_epoch] : template.nonce <= n
        /\ height \in 0..TOP
    BY <1>3 DEF MinerInv
  <2>2. ctx_epoch \in Epochs
    BY <2>1, EpochKnown
  <2> QED BY <2>1, <2>2 DEF MinerInv
<1>4. ASSUME NEW n, NEW found, HandIn(n, found), template # NoBlock
      PROVE  height' \in 0..TOP
  BY <1>3, <1>4 DEF HandIn
<1>5. CASE Found
  <2>1. template # NoBlock /\ UNCHANGED <<works, ctx_epoch>>
    BY <1>5 DEF Found
  <2>2. PICK n \in Search(template.nonce) : HandIn(n, TRUE)
    BY <1>5 DEF Found
  <2>3. n \in works[ctx_epoch] /\ \A h \in works[ctx_epoch] : n <= h
    BY <1>3, <2>1, SearchFindsFirst
  <2>4. /\ mined' = [height |-> template.height, nonce |-> n, found |-> TRUE]
        /\ template' = NoBlock /\ height' \in 0..TOP
    BY <1>4, <2>1, <2>2 DEF HandIn
  <2>5. MinedIsWork'
    BY <1>3, <2>1, <2>3, <2>4 DEF MinedIsWork, EpochOfHeight
  <2> QED BY <2>1, <2>4, <2>5 DEF MinerInv
<1>6. CASE NotFound
  <2>1. /\ template # NoBlock /\ Search(template.nonce) = {}
        /\ UNCHANGED <<works, height, ctx_epoch, mined>>
        /\ template' = IF command = "node" THEN NoBlock
                       ELSE [template EXCEPT !.nonce = Wrapped(template.nonce + CHUNK)]
    BY <1>6 DEF NotFound
  <2>2. MinedIsWork'
    BY <2>1 DEF MinerInv, MinedIsWork
  <2>3. CASE command = "node"
    BY <2>1, <2>2, <2>3 DEF MinerInv
  <2>4. CASE command # "node"
    <3> DEFINE next == Wrapped(template.nonce + CHUNK)
    <3>1. template.nonce + CHUNK \in Nat
      BY <1>3, <2>1, MinerAssumption DEF Nonces
    <3>2. next \in Nonces
      BY <3>1, Wrapping
    <3>3. \A n \in works[ctx_epoch] : next <= n
      BY <1>3, <2>1, NothingLeftBehind
    <3>4. template = [height |-> template.height, nonce |-> template.nonce]
      BY <2>1 DEF MinerInv
    <3>5. template' = [height |-> template.height, nonce |-> next]
      BY <2>1, <2>4, <3>4
    <3> HIDE DEF next
    <3>6. template'.height = template.height /\ template'.nonce = next
      BY <3>5
    <3> QED BY <1>3, <2>1, <2>2, <3>2, <3>3, <3>5, <3>6 DEF MinerInv, EpochOfHeight
  <2> QED BY <2>3, <2>4
<1>7. CASE GpuFails
  <2>1. template # NoBlock /\ UNCHANGED <<works, ctx_epoch>>
    BY <1>7 DEF GpuFails
  <2>2. CASE HandIn(0, FALSE)
    <3>1. /\ mined' = [height |-> template.height, nonce |-> 0, found |-> FALSE]
          /\ template' = NoBlock /\ height' \in 0..TOP
      BY <1>4, <2>1, <2>2 DEF HandIn
    <3>2. MinedIsWork'
      BY <3>1 DEF MinedIsWork
    <3> QED BY <2>1, <3>1, <3>2 DEF MinerInv
  <2>3. CASE template' = NoBlock /\ UNCHANGED <<height, mined>>
    BY <2>1, <2>3 DEF MinerInv, MinedIsWork
  <2> QED BY <1>7, <2>2, <2>3 DEF GpuFails
<1>8. CASE UNCHANGED minerVars
  BY <1>8 DEF minerVars, MinerInv, MinedIsWork, EpochOfHeight
<1> QED BY <1>1, <1>2, <1>5, <1>6, <1>7, <1>8 DEF MinerNext

\* A nonce that either rig reports is the first proof of work of the epoch its
\* block is checked in, however the tip has moved since the rig's dataset was
\* built and wherever the windows end.
THEOREM MiningFindsWork == MinerSpec => []MinedIsWork
<1>1. MinerInit => MinerInv
  BY MinerStart
<1>2. MinerInv /\ [MinerNext]_minerVars => MinerInv'
  BY MinerStep
<1>3. MinerInv => MinedIsWork
  BY DEF MinerInv
<1> QED BY <1>1, <1>2, <1>3, PTL DEF MinerSpec

-----------------------------------------------------------------------------
(***************************************************************************)
(* The binary encoding, for any limits, values and edits.  Faithful and    *)
(* Canonical pass from the fields of a type to the type: the lemmas follow *)
(* the constructors of codecs, and then the types.                         *)
(***************************************************************************)
\* An encoding is a byte string, and decoding it gives the value back,
\* whatever follows.
Faithful(c) ==
    /\ \A v \in Values(c) : c.write[v] \in Bytes
    /\ \A v \in Values(c), r \in Bytes : c.read[c.write[v] \o r] = Yields(v, r)

\* What is decoded is a value, and what was read for it is its encoding.
Canonical(c) ==
    \A s \in Bytes :
        c.read[s].ok => /\ c.read[s].value \in Values(c)
                        /\ c.read[s].rest \in Bytes
                        /\ s = c.write[c.read[s].value] \o c.read[s].rest

Lawful(c) == Faithful(c) /\ Canonical(c)

LEMMA FirstToken ==
  ASSUME NEW x \in Nat, NEW r \in Bytes
  PROVE  /\ <<x>> \in Bytes /\ <<x>> \o r \in Bytes
         /\ Head(<<x>> \o r) = x /\ Tail(<<x>> \o r) = r /\ <<x>> \o r # <<>>
         /\ Len(<<x>> \o r) = Len(r) + 1
<1>1. <<x>> \in Bytes
  BY DEF Bytes
<1>2. <<x>> \o r \in Bytes /\ Len(<<x>> \o r) = Len(r) + 1
  BY DEF Bytes
<1>3. Head(<<x>> \o r) = x /\ <<x>> \o r # <<>>
  BY DEF Bytes
<1>4. Tail(<<x>> \o r) = r
  BY <1>2 DEF Bytes
<1> QED BY <1>1, <1>2, <1>3, <1>4

LEMMA HeadAndTail ==
  ASSUME NEW s \in Bytes, s # <<>>
  PROVE  /\ Head(s) \in Nat /\ Tail(s) \in Bytes /\ s = <<Head(s)>> \o Tail(s)
         /\ Len(s) = Len(Tail(s)) + 1
BY DEF Bytes

LEMMA Joined ==
  ASSUME NEW s \in Bytes, NEW t \in Bytes
  PROVE  s \o t \in Bytes /\ Len(s \o t) = Len(s) + Len(t)
BY ConcatProperties DEF Bytes

LEMMA Associates ==
  ASSUME NEW s \in Bytes, NEW t \in Bytes, NEW u \in Bytes
  PROVE  (s \o t) \o u = s \o (t \o u)
BY ConcatAssociative, SMTT(40) DEF Bytes

LEMMA NothingFollows ==
  ASSUME NEW s \in Bytes
  PROVE  s \o <<>> = s /\ <<>> \o s = s /\ <<>> \in Bytes
BY ConcatEmptySeq DEF Bytes

LEMMA EmptyBytes == <<>> \in Bytes
BY DEF Bytes

LEMMA YieldsFields ==
  ASSUME NEW v, NEW r
  PROVE  Yields(v, r).ok /\ Yields(v, r).value = v /\ Yields(v, r).rest = r /\ ~Fails.ok
BY DEF Yields, Fails

LEMMA TokenLawful ==
  ASSUME NEW ts, ts \subseteq Nat
  PROVE  Lawful(Token(ts))
<1> DEFINE c == Token(ts)
<1>1. Values(c) = ts /\ \A v \in ts : c.write[v] = <<v>>
  BY DEF Token, Values
<1>2. \A s \in Bytes : c.read[s] = IF s # <<>> /\ Head(s) \in ts
                                   THEN Yields(Head(s), Tail(s)) ELSE Fails
  BY DEF Token
<1> HIDE DEF c
<1>3. ASSUME NEW v \in ts, NEW r \in Bytes
      PROVE  c.write[v] \in Bytes /\ c.read[c.write[v] \o r] = Yields(v, r)
  <2>1. PICK s : s = <<v>> \o r
    OBVIOUS
  <2>2. v \in Nat
    OBVIOUS
  <2>3. <<v>> \in Bytes /\ s \in Bytes /\ Head(s) = v /\ Tail(s) = r /\ s # <<>>
    BY <2>1, <2>2, FirstToken
  <2>4. c.read[s] = Yields(v, r)
    BY <1>2, <2>3
  <2> QED BY <1>1, <2>1, <2>3, <2>4
<1>4. Canonical(c)
  <2> SUFFICES ASSUME NEW s \in Bytes, c.read[s].ok
               PROVE  /\ c.read[s].value \in ts /\ c.read[s].rest \in Bytes
                      /\ s = c.write[c.read[s].value] \o c.read[s].rest
    BY <1>1 DEF Canonical
  <2>1. s # <<>> /\ Head(s) \in ts /\ c.read[s] = Yields(Head(s), Tail(s))
    BY <1>2, YieldsFields
  <2>2. PICK x, t : x = Head(s) /\ t = Tail(s)
    OBVIOUS
  <2>3. c.read[s].value = x /\ c.read[s].rest = t
    <3>1. c.read[s] = Yields(x, t)
      BY <2>1, <2>2
    <3> QED BY ONLY <3>1, YieldsFields
  <2>4. t \in Bytes /\ s = <<x>> \o t
    BY <2>1, <2>2, HeadAndTail
  <2> QED BY <1>1, <2>1, <2>2, <2>3, <2>4
<1>5. Faithful(c)
  BY <1>1, <1>3, EmptyBytes DEF Faithful
<1> QED BY <1>4, <1>5 DEF Lawful, c

LEMMA UnitLawful == Lawful(Unit)
<1>1. Values(Unit) = {<<>>} /\ Unit.write[<<>>] = <<>>
  BY DEF Unit, Values
<1>2. \A s \in Bytes : Unit.read[s] = Yields(<<>>, s)
  BY DEF Unit
<1>3. PICK c : c = Unit
  OBVIOUS
<1>4. Faithful(c)
  <2> SUFFICES ASSUME NEW v \in Values(c), NEW r \in Bytes
               PROVE  c.write[v] \in Bytes /\ c.read[c.write[v] \o r] = Yields(v, r)
    BY EmptyBytes DEF Faithful
  <2>1. v = <<>> /\ c.write[v] = <<>>
    BY <1>1, <1>3
  <2> QED BY <1>2, <1>3, <2>1, NothingFollows
<1>5. Canonical(c)
  <2> SUFFICES ASSUME NEW s \in Bytes
               PROVE  /\ c.read[s].value \in Values(c) /\ c.read[s].rest \in Bytes
                      /\ s = c.write[c.read[s].value] \o c.read[s].rest
    BY DEF Canonical
  <2>1. c.read[s].value = <<>> /\ c.read[s].rest = s
    BY <1>2, <1>3, YieldsFields
  <2> QED BY <1>1, <1>3, <2>1, NothingFollows
<1> QED BY <1>3, <1>4, <1>5 DEF Lawful

\* c writes and reads a value of a, then one of b.
InSuccession(a, b, c) ==
    /\ Values(c) = Values(a) \X Values(b)
    /\ \A v \in Values(c) : c.write[v] = a.write[v[1]] \o b.write[v[2]]
    /\ \A s \in Bytes : \A d, e :
          d = a.read[s] /\ e = b.read[d.rest] =>
             c.read[s] = IF d.ok /\ e.ok THEN Yields(<<d.value, e.value>>, e.rest) ELSE Fails

LEMMA ThenParts ==
  ASSUME NEW a, NEW b, NEW c, c = a ** b
  PROVE  InSuccession(a, b, c)
<1>1. PICK W : W = [v \in Values(a) \X Values(b) |-> a.write[v[1]] \o b.write[v[2]]]
  OBVIOUS
<1>2. PICK R : R = [s \in Bytes |->
                      IF a.read[s].ok /\ b.read[a.read[s].rest].ok
                      THEN Yields(<<a.read[s].value, b.read[a.read[s].rest].value>>,
                                  b.read[a.read[s].rest].rest)
                      ELSE Fails]
  OBVIOUS
<1>3. c = [write |-> W, read |-> R]
  BY ONLY <1>1, <1>2, c = a ** b DEF **, Then
<1>4. c.write = W /\ c.read = R
  BY ONLY <1>3
<1>5. DOMAIN W = Values(a) \X Values(b) /\ \A v \in DOMAIN W : W[v] = a.write[v[1]] \o b.write[v[2]]
  BY ONLY <1>1
<1>6. ASSUME NEW s \in Bytes, NEW d, NEW e, d = a.read[s], e = b.read[d.rest]
      PROVE  R[s] = IF d.ok /\ e.ok THEN Yields(<<d.value, e.value>>, e.rest) ELSE Fails
  <2>1. R[s] = IF a.read[s].ok /\ b.read[a.read[s].rest].ok
               THEN Yields(<<a.read[s].value, b.read[a.read[s].rest].value>>,
                           b.read[a.read[s].rest].rest)
               ELSE Fails
    BY ONLY <1>2, s \in Bytes
  <2> QED BY ONLY <1>6, <2>1
<1>7. Values(c) = DOMAIN W
  BY ONLY <1>4 DEF Values
<1> QED BY ONLY <1>4, <1>5, <1>6, <1>7 DEF InSuccession

\* A field, then another.
LEMMA PairFaithful ==
  ASSUME NEW a, NEW b, Faithful(a), Faithful(b)
  PROVE  Faithful(a ** b)
<1>0. PICK c : c = a ** b
  OBVIOUS
<1>1. /\ Values(c) = Values(a) \X Values(b)
      /\ \A v \in Values(c) : c.write[v] = a.write[v[1]] \o b.write[v[2]]
  <2>1. InSuccession(a, b, c)
    BY ONLY <1>0, ThenParts
  <2> QED BY ONLY <2>1 DEF InSuccession
<1>2. ASSUME NEW s \in Bytes, NEW d, d = a.read[s], NEW e, e = b.read[d.rest]
      PROVE  c.read[s] = IF d.ok /\ e.ok THEN Yields(<<d.value, e.value>>, e.rest) ELSE Fails
  <2>1. InSuccession(a, b, c)
    BY ONLY <1>0, ThenParts
  <2> QED BY ONLY <1>2, <2>1 DEF InSuccession
<1>3. ASSUME NEW v \in Values(c), NEW r \in Bytes
      PROVE  c.write[v] \in Bytes /\ c.read[c.write[v] \o r] = Yields(v, r)
  <2>1. PICK x \in Values(a), y \in Values(b) : v = <<x, y>>
    BY <1>1, <1>3
  <2>2. PICK wx \in Bytes, wy \in Bytes : wx = a.write[x] /\ wy = b.write[y]
    BY DEF Faithful
  <2>3. c.write[v] = wx \o wy /\ wx \o wy \in Bytes
    BY <1>1, <2>1, <2>2, Joined
  <2>4. (wx \o wy) \o r = wx \o (wy \o r) /\ wy \o r \in Bytes /\ (wx \o wy) \o r \in Bytes
    BY Associates, Joined
  <2>5. a.read[wx \o (wy \o r)] = Yields(x, wy \o r) /\ b.read[wy \o r] = Yields(y, r)
    BY <2>2, <2>4 DEF Faithful
  <2>6. PICK s, d, e : s \in Bytes /\ s = wx \o (wy \o r) /\ d = a.read[s] /\ e = b.read[d.rest]
    BY <2>4
  <2>7. d.ok /\ e.ok /\ d.value = x /\ e.value = y /\ e.rest = r
    BY <2>5, <2>6, YieldsFields
  <2>8. c.read[s] = Yields(<<x, y>>, r)
    <3>1. c.read[s] = IF d.ok /\ e.ok THEN Yields(<<d.value, e.value>>, e.rest) ELSE Fails
      BY ONLY <1>2, <2>6
    <3> QED BY ONLY <2>7, <3>1
  <2> QED BY <2>1, <2>3, <2>4, <2>6, <2>8
<1> QED BY <1>0, <1>3, EmptyBytes DEF Faithful

LEMMA PairLawful ==
  ASSUME NEW a, NEW b, Lawful(a), Lawful(b)
  PROVE  Lawful(a ** b)
<1>0. PICK c : c = a ** b
  OBVIOUS
<1>1. /\ Values(c) = Values(a) \X Values(b)
      /\ \A v \in Values(c) : c.write[v] = a.write[v[1]] \o b.write[v[2]]
  <2>1. InSuccession(a, b, c)
    BY ONLY <1>0, ThenParts
  <2> QED BY ONLY <2>1 DEF InSuccession
<1>2. ASSUME NEW s \in Bytes, NEW d, d = a.read[s], NEW e, e = b.read[d.rest]
      PROVE  c.read[s] = IF d.ok /\ e.ok THEN Yields(<<d.value, e.value>>, e.rest) ELSE Fails
  <2>1. InSuccession(a, b, c)
    BY ONLY <1>0, ThenParts
  <2> QED BY ONLY <1>2, <2>1 DEF InSuccession
<1>3. ASSUME NEW s \in Bytes, c.read[s].ok
      PROVE  /\ c.read[s].value \in Values(c) /\ c.read[s].rest \in Bytes
             /\ s = c.write[c.read[s].value] \o c.read[s].rest
  <2>1. PICK d, e : d = a.read[s] /\ e = b.read[d.rest]
    OBVIOUS
  <2>2. d.ok /\ e.ok /\ c.read[s] = Yields(<<d.value, e.value>>, e.rest)
    BY <1>2, <1>3, <2>1, YieldsFields
  <2>3. d.value \in Values(a) /\ d.rest \in Bytes /\ s = a.write[d.value] \o d.rest
    BY <2>1, <2>2 DEF Lawful, Canonical
  <2>4. e.value \in Values(b) /\ e.rest \in Bytes /\ d.rest = b.write[e.value] \o e.rest
    BY <2>1, <2>2, <2>3 DEF Lawful, Canonical
  <2>5. PICK x, y, r, wx, wy : /\ x = d.value /\ y = e.value /\ r = e.rest
                               /\ wx = a.write[x] /\ wy = b.write[y]
    OBVIOUS
  <2>6. wx \in Bytes /\ wy \in Bytes /\ r \in Bytes
    BY <2>3, <2>4, <2>5 DEF Lawful, Faithful
  <2>7. s = (wx \o wy) \o r
    <3>1. s = wx \o (wy \o r)
      BY <2>3, <2>4, <2>5
    <3> QED BY ONLY <2>6, <3>1, Associates
  <2>8. PICK v : v = <<x, y>>
    OBVIOUS
  <2>9. v \in Values(c) /\ c.write[v] = wx \o wy
    <3>1. x \in Values(a) /\ y \in Values(b) /\ v[1] = x /\ v[2] = y
      BY <2>3, <2>4, <2>5, <2>8
    <3>2. v \in Values(c)
      BY ONLY <1>1, <2>8, <3>1
    <3>3. c.write[v] = a.write[v[1]] \o b.write[v[2]]
      BY <1>1, <3>2
    <3> QED BY <2>5, <3>1, <3>2, <3>3
  <2>10. c.read[s].value = v /\ c.read[s].rest = r
    <3>1. c.read[s] = Yields(v, r)
      BY <2>2, <2>5, <2>8
    <3> QED BY ONLY <3>1, YieldsFields
  <2> QED BY <2>6, <2>7, <2>9, <2>10
<1>4. Faithful(c)
  BY <1>0, PairFaithful DEF Lawful
<1> QED BY <1>0, <1>3, <1>4 DEF Lawful, Canonical

\* What the i-th item adds to an encoding.
Piece(c, v, w, i) == w \o c.write[v[i]]

\* The table that Written takes its last entry from.
Writing(g, c, v, n) ==
    g = [i \in 0..n |-> IF i = 0 THEN <<>> ELSE Piece(c, v, g[i - 1], i)]

LEMMA WritingSteps ==
  ASSUME NEW c, NEW v, NEW n \in Nat, NEW g, Writing(g, c, v, n)
  PROVE  g[0] = <<>> /\ \A i \in 0..(n - 1) : g[i + 1] = Piece(c, v, g[i], i + 1)
<1>1. 0 \in 0..n
  OBVIOUS
<1>2. ASSUME NEW i \in 0..(n - 1)
      PROVE  i + 1 \in 0..n /\ i + 1 # 0 /\ (i + 1) - 1 = i
  BY <1>2
<1>3. g = [i \in 0..n |-> IF i = 0 THEN <<>> ELSE Piece(c, v, g[i - 1], i)]
  BY DEF Writing
<1>4. ASSUME NEW i \in 0..(n - 1) PROVE g[i + 1] = Piece(c, v, g[i], i + 1)
  <2>1. PICK j \in 0..n : j = i + 1 /\ j # 0 /\ j - 1 = i
    BY <1>2
  <2> QED BY <1>3, <2>1
<1> QED BY <1>1, <1>3, <1>4

LEMMA WritingExists ==
  ASSUME NEW c, NEW v
  PROVE  \A n \in Nat : \E g : Writing(g, c, v, n)
<1> DEFINE S == {n \in Nat : \E g : Writing(g, c, v, n)}
<1>1. 0 \in S
  <2>1. Writing([i \in 0..0 |-> <<>>], c, v, 0)
    BY DEF Writing
  <2> QED BY <2>1
<1>2. ASSUME NEW m \in Nat, m \in S PROVE m + 1 \in S
  <2>1. PICK g : Writing(g, c, v, m)
    BY <1>2
  <2>2. PICK x : x = Piece(c, v, g[m], m + 1)
    OBVIOUS
  <2>3. PICK h : h = [i \in 0..(m + 1) |-> IF i = m + 1 THEN x ELSE g[i]]
    OBVIOUS
  <2>4. ASSUME NEW i \in 0..(m + 1)
        PROVE  h[i] = IF i = 0 THEN <<>> ELSE Piece(c, v, h[i - 1], i)
    <3>1. CASE i = m + 1
      <4>1. i # 0 /\ i - 1 = m /\ m \in 0..(m + 1) /\ m # m + 1
        BY <1>2, <3>1
      <4>2. h[i - 1] = g[m] /\ h[i] = x
        BY <2>3, <3>1, <4>1
      <4> QED BY <2>2, <3>1, <4>1, <4>2
    <3>2. CASE i # m + 1
      <4>1. i \in 0..m
        BY <1>2, <3>2
      <4>2. h[i] = g[i] /\ g[i] = IF i = 0 THEN <<>> ELSE Piece(c, v, g[i - 1], i)
        BY <2>1, <2>3, <3>2, <4>1 DEF Writing
      <4>3. i # 0 => i - 1 \in 0..(m + 1) /\ i - 1 # m + 1
        BY <1>2, <3>2, <4>1
      <4> QED BY <2>3, <4>2, <4>3
    <3> QED BY <3>1, <3>2
  <2>5. Writing(h, c, v, m + 1)
    BY <2>3, <2>4, Zenon DEF Writing
  <2> QED BY <2>5
<1> HIDE DEF S
<1>3. \A m \in Nat : m \in S
  BY <1>1, <1>2, NatSetInduction
<1> QED BY <1>3 DEF S

LEMMA WritingAgree ==
  ASSUME NEW c, NEW v, NEW n \in Nat,
         NEW g, Writing(g, c, v, n), NEW h, Writing(h, c, v, n + 1)
  PROVE  \A i \in 0..n : g[i] = h[i]
<1>1. g[0] = <<>> /\ \A i \in 0..(n - 1) : g[i + 1] = Piece(c, v, g[i], i + 1)
  BY ONLY n \in Nat, Writing(g, c, v, n), WritingSteps
<1>2. h[0] = <<>> /\ \A i \in 0..((n + 1) - 1) : h[i + 1] = Piece(c, v, h[i], i + 1)
  <2>1. PICK m \in Nat : m = n + 1
    OBVIOUS
  <2>2. Writing(h, c, v, m)
    BY <2>1
  <2>3. h[0] = <<>> /\ \A i \in 0..(m - 1) : h[i + 1] = Piece(c, v, h[i], i + 1)
    BY ONLY m \in Nat, <2>2, WritingSteps, SMTT(30)
  <2> QED BY <2>1, <2>3
<1> DEFINE S == {i \in Nat : i <= n => g[i] = h[i]}
<1>3. 0 \in S
  BY <1>1, <1>2
<1>4. ASSUME NEW i \in Nat, i \in S PROVE i + 1 \in S
  <2> SUFFICES ASSUME i + 1 <= n PROVE g[i + 1] = h[i + 1]
    OBVIOUS
  <2>1. i \in 0..(n - 1) /\ i \in 0..((n + 1) - 1) /\ i <= n
    OBVIOUS
  <2>2. g[i] = h[i]
    BY <1>4, <2>1
  <2> QED BY <1>1, <1>2, <2>1, <2>2
<1> HIDE DEF S
<1>5. \A i \in Nat : i \in S
  BY <1>3, <1>4, NatSetInduction
<1> QED BY <1>5 DEF S

LEMMA WrittenDef ==
  ASSUME NEW c, NEW v
  PROVE  /\ Written(c, v, 0) = <<>>
         /\ \A n \in Nat : Written(c, v, n + 1) = Written(c, v, n) \o c.write[v[n + 1]]
<1>1. ASSUME NEW n \in Nat PROVE \E g : Writing(g, c, v, n) /\ Written(c, v, n) = g[n]
  <2> DEFINE p == CHOOSE g : g = [i \in 0..n |-> IF i = 0 THEN <<>> ELSE Piece(c, v, g[i - 1], i)]
  <2>1. \E g : Writing(g, c, v, n)
    BY WritingExists
  <2>2. p = [i \in 0..n |-> IF i = 0 THEN <<>> ELSE Piece(c, v, p[i - 1], i)]
    BY <2>1, Zenon DEF Writing
  <2>3. Written(c, v, n) = p[n]
    BY DEF Written, Piece
  <2> HIDE DEF p
  <2> QED BY <2>2, <2>3 DEF Writing
<1>2. Written(c, v, 0) = <<>>
  <2>1. PICK z \in Nat : z = 0
    OBVIOUS
  <2>2. PICK g : Writing(g, c, v, z) /\ Written(c, v, z) = g[z]
    BY <1>1
  <2>3. g[0] = <<>>
    BY ONLY z \in Nat, <2>2, WritingSteps
  <2> QED BY <2>1, <2>2, <2>3
<1>3. ASSUME NEW n \in Nat PROVE Written(c, v, n + 1) = Written(c, v, n) \o c.write[v[n + 1]]
  <2>1. PICK g : Writing(g, c, v, n) /\ Written(c, v, n) = g[n]
    BY <1>1
  <2>2. PICK h : Writing(h, c, v, n + 1) /\ Written(c, v, n + 1) = h[n + 1]
    BY <1>1
  <2>3. n \in 0..n /\ n \in 0..((n + 1) - 1)
    OBVIOUS
  <2>4. g[n] = h[n]
    BY ONLY n \in Nat, <2>1, <2>2, <2>3, WritingAgree
  <2>5. h[n + 1] = Piece(c, v, h[n], n + 1)
    <3>1. PICK m \in Nat : m = n + 1
      OBVIOUS
    <3>2. Writing(h, c, v, m) /\ n \in 0..(m - 1)
      BY <2>2, <2>3, <3>1
    <3>3. \A i \in 0..(m - 1) : h[i + 1] = Piece(c, v, h[i], i + 1)
      BY ONLY m \in Nat, <3>2, WritingSteps
    <3> QED BY <3>2, <3>3
  <2> QED BY <2>1, <2>2, <2>4, <2>5 DEF Piece
<1> QED BY <1>2, <1>3

\* The table that Items takes its last entry from.
Reading(g, c, s, n) ==
    g = [i \in 0..n |-> IF i = 0 THEN Yields(<<>>, s) ELSE OneMoreItem(c, g[i - 1])]

LEMMA ReadingSteps ==
  ASSUME NEW c, NEW s, NEW n \in Nat, NEW g, Reading(g, c, s, n)
  PROVE  g[0] = Yields(<<>>, s) /\ \A i \in 0..(n - 1) : g[i + 1] = OneMoreItem(c, g[i])
<1>1. 0 \in 0..n
  OBVIOUS
<1>2. ASSUME NEW i \in 0..(n - 1)
      PROVE  i + 1 \in 0..n /\ i + 1 # 0 /\ (i + 1) - 1 = i
  BY <1>2
<1>3. g = [i \in 0..n |-> IF i = 0 THEN Yields(<<>>, s) ELSE OneMoreItem(c, g[i - 1])]
  BY DEF Reading
<1>4. ASSUME NEW i \in 0..(n - 1) PROVE g[i + 1] = OneMoreItem(c, g[i])
  <2>1. PICK j \in 0..n : j = i + 1 /\ j # 0 /\ j - 1 = i
    BY <1>2
  <2> QED BY <1>3, <2>1
<1> QED BY <1>1, <1>3, <1>4

LEMMA ReadingExists ==
  ASSUME NEW c, NEW s
  PROVE  \A n \in Nat : \E g : Reading(g, c, s, n)
<1> DEFINE S == {n \in Nat : \E g : Reading(g, c, s, n)}
<1>1. 0 \in S
  <2>1. Reading([i \in 0..0 |-> Yields(<<>>, s)], c, s, 0)
    BY DEF Reading
  <2> QED BY <2>1
<1>2. ASSUME NEW m \in Nat, m \in S PROVE m + 1 \in S
  <2>1. PICK g : Reading(g, c, s, m)
    BY <1>2
  <2>2. PICK x : x = OneMoreItem(c, g[m])
    OBVIOUS
  <2>3. PICK h : h = [i \in 0..(m + 1) |-> IF i = m + 1 THEN x ELSE g[i]]
    OBVIOUS
  <2>4. ASSUME NEW i \in 0..(m + 1)
        PROVE  h[i] = IF i = 0 THEN Yields(<<>>, s) ELSE OneMoreItem(c, h[i - 1])
    <3>1. CASE i = m + 1
      <4>1. i # 0 /\ i - 1 = m /\ m \in 0..(m + 1) /\ m # m + 1
        BY <1>2, <3>1
      <4>2. h[i - 1] = g[m] /\ h[i] = x
        BY <2>3, <3>1, <4>1
      <4> QED BY <2>2, <3>1, <4>1, <4>2
    <3>2. CASE i # m + 1
      <4>1. i \in 0..m
        BY <1>2, <3>2
      <4>2. h[i] = g[i] /\ g[i] = IF i = 0 THEN Yields(<<>>, s) ELSE OneMoreItem(c, g[i - 1])
        BY <2>1, <2>3, <3>2, <4>1 DEF Reading
      <4>3. i # 0 => i - 1 \in 0..(m + 1) /\ i - 1 # m + 1
        BY <1>2, <3>2, <4>1
      <4> QED BY <2>3, <4>2, <4>3
    <3> QED BY <3>1, <3>2
  <2>5. Reading(h, c, s, m + 1)
    BY <2>3, <2>4, Zenon DEF Reading
  <2> QED BY <2>5
<1> HIDE DEF S
<1>3. \A m \in Nat : m \in S
  BY <1>1, <1>2, NatSetInduction
<1> QED BY <1>3 DEF S

LEMMA ReadingAgree ==
  ASSUME NEW c, NEW s, NEW n \in Nat,
         NEW g, Reading(g, c, s, n), NEW h, Reading(h, c, s, n + 1)
  PROVE  \A i \in 0..n : g[i] = h[i]
<1>1. g[0] = Yields(<<>>, s) /\ \A i \in 0..(n - 1) : g[i + 1] = OneMoreItem(c, g[i])
  BY ONLY n \in Nat, Reading(g, c, s, n), ReadingSteps
<1>2. h[0] = Yields(<<>>, s) /\ \A i \in 0..((n + 1) - 1) : h[i + 1] = OneMoreItem(c, h[i])
  <2>1. PICK m \in Nat : m = n + 1
    OBVIOUS
  <2>2. Reading(h, c, s, m)
    BY <2>1
  <2>3. h[0] = Yields(<<>>, s) /\ \A i \in 0..(m - 1) : h[i + 1] = OneMoreItem(c, h[i])
    BY ONLY m \in Nat, <2>2, ReadingSteps
  <2> QED BY <2>1, <2>3
<1> DEFINE S == {i \in Nat : i <= n => g[i] = h[i]}
<1>3. 0 \in S
  BY <1>1, <1>2
<1>4. ASSUME NEW i \in Nat, i \in S PROVE i + 1 \in S
  <2> SUFFICES ASSUME i + 1 <= n PROVE g[i + 1] = h[i + 1]
    OBVIOUS
  <2>1. i \in 0..(n - 1) /\ i \in 0..((n + 1) - 1) /\ i <= n
    OBVIOUS
  <2>2. g[i] = h[i]
    BY <1>4, <2>1
  <2> QED BY <1>1, <1>2, <2>1, <2>2
<1> HIDE DEF S
<1>5. \A i \in Nat : i \in S
  BY <1>3, <1>4, NatSetInduction
<1> QED BY <1>5 DEF S

LEMMA ItemsDef ==
  ASSUME NEW c, NEW s
  PROVE  /\ Items(c, s, 0) = Yields(<<>>, s)
         /\ \A n \in Nat : Items(c, s, n + 1) = OneMoreItem(c, Items(c, s, n))
<1>1. ASSUME NEW n \in Nat PROVE \E g : Reading(g, c, s, n) /\ Items(c, s, n) = g[n]
  <2>1. \E g : Reading(g, c, s, n)
    BY ReadingExists
  <2> DEFINE p == CHOOSE g : g = [i \in 0..n |-> IF i = 0 THEN Yields(<<>>, s) ELSE OneMoreItem(c, g[i - 1])]
  <2>2. p = [i \in 0..n |-> IF i = 0 THEN Yields(<<>>, s) ELSE OneMoreItem(c, p[i - 1])]
    BY <2>1, Zenon DEF Reading
  <2>3. Items(c, s, n) = p[n]
    BY DEF Items
  <2> HIDE DEF p
  <2> QED BY <2>2, <2>3 DEF Reading
<1>2. Items(c, s, 0) = Yields(<<>>, s)
  <2>1. PICK z \in Nat : z = 0
    OBVIOUS
  <2>2. PICK g : Reading(g, c, s, z) /\ Items(c, s, z) = g[z]
    BY <1>1
  <2>3. g[0] = Yields(<<>>, s)
    BY ONLY z \in Nat, <2>2, ReadingSteps
  <2> QED BY <2>1, <2>2, <2>3
<1>3. ASSUME NEW n \in Nat PROVE Items(c, s, n + 1) = OneMoreItem(c, Items(c, s, n))
  <2>1. PICK g : Reading(g, c, s, n) /\ Items(c, s, n) = g[n]
    BY <1>1
  <2>2. PICK h : Reading(h, c, s, n + 1) /\ Items(c, s, n + 1) = h[n + 1]
    BY <1>1
  <2>3. n \in 0..n /\ n \in 0..((n + 1) - 1)
    OBVIOUS
  <2>4. g[n] = h[n]
    BY ONLY n \in Nat, <2>1, <2>2, <2>3, ReadingAgree
  <2>5. h[n + 1] = OneMoreItem(c, h[n])
    <3>1. PICK m \in Nat : m = n + 1
      OBVIOUS
    <3>2. Reading(h, c, s, m) /\ n \in 0..(m - 1)
      BY <2>2, <2>3, <3>1
    <3>3. \A i \in 0..(m - 1) : h[i + 1] = OneMoreItem(c, h[i])
      BY ONLY m \in Nat, <3>2, ReadingSteps
    <3> QED BY <3>2, <3>3
  <2> QED BY <2>1, <2>2, <2>4, <2>5
<1> QED BY <1>2, <1>3

LEMMA WrittenBytes ==
  ASSUME NEW c, Faithful(c), NEW v \in Seq(Values(c))
  PROVE  \A n \in Nat : n <= Len(v) => Written(c, v, n) \in Bytes
<1> DEFINE S == {n \in Nat : n <= Len(v) => Written(c, v, n) \in Bytes}
<1>1. 0 \in S
  BY WrittenDef, EmptyBytes
<1>2. ASSUME NEW n \in Nat, n \in S PROVE n + 1 \in S
  <2> SUFFICES ASSUME n + 1 <= Len(v) PROVE Written(c, v, n + 1) \in Bytes
    OBVIOUS
  <2>1. v[n + 1] \in Values(c) /\ n <= Len(v)
    OBVIOUS
  <2>2. PICK w, x : w = Written(c, v, n) /\ x = c.write[v[n + 1]]
    OBVIOUS
  <2>3. w \in Bytes /\ x \in Bytes
    BY <1>2, <2>1, <2>2 DEF Faithful
  <2>4. Written(c, v, n + 1) = w \o x
    BY <2>2, WrittenDef
  <2> QED BY <2>3, <2>4, Joined
<1> HIDE DEF S
<1>3. \A n \in Nat : n \in S
  BY <1>1, <1>2, NatSetInduction
<1> QED BY <1>3 DEF S

\* Lists that begin alike are written alike.
LEMMA WrittenSame ==
  ASSUME NEW c, NEW v, NEW u
  PROVE  \A n \in Nat : (\A i \in 1..n : v[i] = u[i]) => Written(c, v, n) = Written(c, u, n)
<1> DEFINE S == {n \in Nat : (\A i \in 1..n : v[i] = u[i]) => Written(c, v, n) = Written(c, u, n)}
<1>1. 0 \in S
  BY WrittenDef
<1>2. ASSUME NEW n \in Nat, n \in S PROVE n + 1 \in S
  <2> SUFFICES ASSUME \A i \in 1..(n + 1) : v[i] = u[i]
               PROVE  Written(c, v, n + 1) = Written(c, u, n + 1)
    OBVIOUS
  <2>1. v[n + 1] = u[n + 1] /\ Written(c, v, n) = Written(c, u, n)
    BY <1>2
  <2>2. /\ Written(c, v, n + 1) = Written(c, v, n) \o c.write[v[n + 1]]
        /\ Written(c, u, n + 1) = Written(c, u, n) \o c.write[u[n + 1]]
    BY WrittenDef
  <2> QED BY <2>1, <2>2
<1> HIDE DEF S
<1>3. \A n \in Nat : n \in S
  BY <1>1, <1>2, NatSetInduction
<1> QED BY <1>3 DEF S

LEMMA ItemsFaithful ==
  ASSUME NEW c, Faithful(c), NEW v \in Seq(Values(c))
  PROVE  \A n \in Nat : n <= Len(v) =>
            \A r \in Bytes : Items(c, Written(c, v, n) \o r, n) = Yields(SubSeq(v, 1, n), r)
<1> DEFINE S == {n \in Nat : n <= Len(v) =>
            \A r \in Bytes : Items(c, Written(c, v, n) \o r, n) = Yields(SubSeq(v, 1, n), r)}
<1>1. 0 \in S
  <2> SUFFICES ASSUME NEW r \in Bytes
               PROVE  Items(c, Written(c, v, 0) \o r, 0) = Yields(SubSeq(v, 1, 0), r)
    OBVIOUS
  <2>1. Written(c, v, 0) \o r = r
    BY WrittenDef, NothingFollows
  <2>2. SubSeq(v, 1, 0) = <<>>
    BY SubSeqEmpty
  <2> QED BY <2>1, <2>2, ItemsDef
<1>2. ASSUME NEW n \in Nat, n \in S PROVE n + 1 \in S
  <2> SUFFICES ASSUME n + 1 <= Len(v), NEW r \in Bytes
               PROVE  Items(c, Written(c, v, n + 1) \o r, n + 1) = Yields(SubSeq(v, 1, n + 1), r)
    OBVIOUS
  <2>1. PICK x : x = v[n + 1]
    OBVIOUS
  <2>2. x \in Values(c) /\ n <= Len(v) /\ n + 1 \in 1..Len(v)
    BY <2>1
  <2>3. PICK w, y : w = Written(c, v, n) /\ y = c.write[x]
    OBVIOUS
  <2>4. w \in Bytes /\ y \in Bytes
    BY <2>2, <2>3, WrittenBytes DEF Faithful
  <2>5. PICK s, t : s = (w \o y) \o r /\ t = y \o r
    OBVIOUS
  <2>6. s = w \o t /\ t \in Bytes
    BY <2>4, <2>5, Associates, Joined
  <2>7. Written(c, v, n + 1) \o r = s
    BY <2>1, <2>3, <2>5, WrittenDef
  <2>8. Items(c, s, n) = Yields(SubSeq(v, 1, n), t)
    BY <1>2, <2>2, <2>3, <2>6
  <2>9. c.read[t] = Yields(x, r)
    BY <2>2, <2>3, <2>5 DEF Faithful
  <2>10. PICK f, d, e : f = SubSeq(v, 1, n) /\ d = Items(c, s, n) /\ e = c.read[d.rest]
    OBVIOUS
  <2>11. d.ok /\ d.value = f /\ d.rest = t
    <3>1. d = Yields(f, t)
      BY <2>8, <2>10
    <3> QED BY ONLY <3>1, YieldsFields
  <2>12. e.ok /\ e.value = x /\ e.rest = r
    <3>1. e = Yields(x, r)
      BY <2>9, <2>10, <2>11
    <3> QED BY ONLY <3>1, YieldsFields
  <2>13. OneMoreItem(c, d) = Yields(Append(f, x), r)
    BY <2>10, <2>11, <2>12 DEF OneMoreItem
  <2>14. Append(f, x) = SubSeq(v, 1, n + 1)
    BY <2>1, <2>2, <2>10
  <2>15. Items(c, s, n + 1) = OneMoreItem(c, d)
    BY <2>10, ItemsDef
  <2> QED BY <2>7, <2>13, <2>14, <2>15
<1> HIDE DEF S
<1>3. \A n \in Nat : n \in S
  BY <1>1, <1>2, NatSetInduction
<1> QED BY <1>3 DEF S

\* What reading n items of s has made of it.
Consumed(c, s, n, d) ==
    /\ d.value \in Seq(Values(c)) /\ Len(d.value) = n /\ d.rest \in Bytes
    /\ s = Written(c, d.value, n) \o d.rest

LEMMA ItemsCanonical ==
  ASSUME NEW c, Lawful(c), NEW s \in Bytes
  PROVE  \A n \in Nat : Items(c, s, n).ok => Consumed(c, s, n, Items(c, s, n))
<1> DEFINE S == {n \in Nat : Items(c, s, n).ok => Consumed(c, s, n, Items(c, s, n))}
<1>1. 0 \in S
  <2>1. PICK d : d = Items(c, s, 0)
    OBVIOUS
  <2>2. d = Yields(<<>>, s)
    BY <2>1, ItemsDef
  <2>3. d.value = <<>> /\ d.rest = s
    BY ONLY <2>2, YieldsFields
  <2>4. Written(c, d.value, 0) = <<>>
    BY WrittenDef
  <2>5. d.value \in Seq(Values(c)) /\ Len(d.value) = 0
    BY <2>3
  <2>6. Consumed(c, s, 0, d)
    BY <2>3, <2>4, <2>5, NothingFollows DEF Consumed
  <2> QED BY <2>1, <2>6
<1>2. ASSUME NEW n \in Nat, n \in S PROVE n + 1 \in S
  <2>1. PICK d, e, b : d = Items(c, s, n) /\ e = c.read[d.rest] /\ b = Items(c, s, n + 1)
    OBVIOUS
  <2> SUFFICES ASSUME b.ok PROVE Consumed(c, s, n + 1, b)
    BY <2>1
  <2>2. b = OneMoreItem(c, d)
    BY <2>1, ItemsDef
  <2>3. d.ok /\ e.ok /\ b = Yields(Append(d.value, e.value), e.rest)
    BY <2>1, <2>2, YieldsFields DEF OneMoreItem
  <2>4. Consumed(c, s, n, d)
    BY <1>2, <2>1, <2>3
  <2>5. PICK u, t, x, r : u = d.value /\ t = d.rest /\ x = e.value /\ r = e.rest
    OBVIOUS
  <2>6. /\ u \in Seq(Values(c)) /\ Len(u) = n /\ t \in Bytes
        /\ s = Written(c, u, n) \o t
    BY <2>4, <2>5 DEF Consumed
  <2>7. x \in Values(c) /\ r \in Bytes /\ t = c.write[x] \o r
    BY <2>1, <2>3, <2>5, <2>6 DEF Lawful, Canonical
  <2>8. PICK v : v = Append(u, x)
    OBVIOUS
  <2>9. v \in Seq(Values(c)) /\ Len(v) = n + 1 /\ v[n + 1] = x /\ \A i \in 1..n : v[i] = u[i]
    BY <2>6, <2>7, <2>8
  <2>10. PICK w, y : w = Written(c, u, n) /\ y = c.write[x]
    OBVIOUS
  <2>11. w \in Bytes /\ y \in Bytes
    BY <2>6, <2>7, <2>10, WrittenBytes DEF Lawful, Faithful
  <2>12. Written(c, v, n + 1) = w \o y
    <3>1. Written(c, v, n) = w
      BY <2>9, <2>10, WrittenSame
    <3>2. Written(c, v, n + 1) = Written(c, v, n) \o c.write[v[n + 1]]
      BY WrittenDef
    <3> QED BY <2>9, <2>10, <3>1, <3>2
  <2>13. s = (w \o y) \o r
    <3>1. s = w \o (y \o r)
      BY <2>6, <2>7, <2>10
    <3>2. (w \o y) \o r = w \o (y \o r)
      BY ONLY <2>7, <2>11, Associates
    <3> QED BY ONLY <3>1, <3>2
  <2>14. b.value = v /\ b.rest = r
    <3>1. b = Yields(v, r)
      BY <2>3, <2>5, <2>8
    <3> QED BY ONLY <3>1, YieldsFields
  <2> QED BY <2>7, <2>9, <2>12, <2>13, <2>14 DEF Consumed
<1> HIDE DEF S
<1>3. \A n \in Nat : n \in S
  BY <1>1, <1>2, NatSetInduction
<1> QED BY <1>3 DEF S

\* A count, then the items.
LEMMA ListFaithful ==
  ASSUME NEW c, Faithful(c), NEW max \in Nat
  PROVE  Faithful(List(c, max))
<1>1. PICK l : l = List(c, max)
  OBVIOUS
<1>2. /\ Values(l) = {u \in Seq(Values(c)) : Len(u) <= max}
      /\ \A v \in Values(l) : l.write[v] = <<Len(v)>> \o Written(c, v, Len(v))
  BY <1>1 DEF List, Values
<1>3. \A s \in Bytes : l.read[s] = IF s # <<>> /\ Head(s) <= max
                                   THEN Items(c, Tail(s), Head(s)) ELSE Fails
  BY <1>1 DEF List
<1>4. ASSUME NEW v \in Values(l), NEW r \in Bytes
      PROVE  l.write[v] \in Bytes /\ l.read[l.write[v] \o r] = Yields(v, r)
  <2>1. v \in Seq(Values(c)) /\ Len(v) <= max
    BY <1>2
  <2>2. PICK n \in Nat : n = Len(v) /\ n <= max
    BY <2>1
  <2>3. PICK w : w = Written(c, v, n)
    OBVIOUS
  <2>4. w \in Bytes
    BY <2>1, <2>2, <2>3, WrittenBytes
  <2>5. l.write[v] = <<n>> \o w /\ <<n>> \o w \in Bytes /\ <<n>> \in Bytes
    BY <1>2, <2>2, <2>3, <2>4, FirstToken
  <2>6. PICK t, s : t = w \o r /\ s = <<n>> \o t
    OBVIOUS
  <2>7. t \in Bytes /\ s \in Bytes /\ s # <<>> /\ Head(s) = n /\ Tail(s) = t
    BY <2>2, <2>4, <2>6, Joined, FirstToken
  <2>8. (<<n>> \o w) \o r = s
    BY <2>4, <2>5, <2>6, Associates
  <2>9. l.read[s] = Items(c, t, n)
    BY <1>3, <2>2, <2>7
  <2>10. Items(c, t, n) = Yields(SubSeq(v, 1, n), r)
    <3>1. Items(c, w \o r, n) = Yields(SubSeq(v, 1, n), r)
      BY <2>1, <2>2, <2>3, ItemsFaithful
    <3> QED BY ONLY <2>6, <3>1
  <2>11. SubSeq(v, 1, n) = v
    BY <2>1, <2>2, SubSeqFull
  <2> QED BY <2>5, <2>8, <2>9, <2>10, <2>11
<1> QED BY <1>1, <1>4, EmptyBytes DEF Faithful

LEMMA ListLawful ==
  ASSUME NEW c, Lawful(c), NEW max \in Nat
  PROVE  Lawful(List(c, max))
<1>1. PICK l : l = List(c, max)
  OBVIOUS
<1>2. /\ Values(l) = {u \in Seq(Values(c)) : Len(u) <= max}
      /\ \A v \in Values(l) : l.write[v] = <<Len(v)>> \o Written(c, v, Len(v))
  BY <1>1 DEF List, Values
<1>3. \A s \in Bytes : l.read[s] = IF s # <<>> /\ Head(s) <= max
                                   THEN Items(c, Tail(s), Head(s)) ELSE Fails
  BY <1>1 DEF List
<1>4. ASSUME NEW s \in Bytes, l.read[s].ok
      PROVE  /\ l.read[s].value \in Values(l) /\ l.read[s].rest \in Bytes
             /\ s = l.write[l.read[s].value] \o l.read[s].rest
  <2>1. s # <<>> /\ Head(s) <= max /\ l.read[s] = Items(c, Tail(s), Head(s))
    BY <1>3, <1>4, YieldsFields
  <2>2. PICK n, t : n = Head(s) /\ t = Tail(s)
    OBVIOUS
  <2>3. n \in Nat /\ n <= max /\ t \in Bytes /\ s = <<n>> \o t
    BY <2>1, <2>2, HeadAndTail
  <2>4. PICK d : d = Items(c, t, n)
    OBVIOUS
  <2>5. d.ok /\ l.read[s] = d
    BY <1>4, <2>1, <2>2, <2>4
  <2>6. Consumed(c, t, n, d)
    BY <2>3, <2>4, <2>5, ItemsCanonical
  <2>7. PICK v, r, w : v = d.value /\ r = d.rest /\ w = Written(c, v, n)
    OBVIOUS
  <2>8. v \in Seq(Values(c)) /\ Len(v) = n /\ r \in Bytes /\ t = w \o r
    BY <2>6, <2>7 DEF Consumed
  <2>9. w \in Bytes
    BY <2>3, <2>7, <2>8, WrittenBytes DEF Lawful
  <2>10. v \in Values(l) /\ l.write[v] = <<n>> \o w
    BY <1>2, <2>3, <2>7, <2>8
  <2>11. s = (<<n>> \o w) \o r
    <3>1. s = <<n>> \o (w \o r) /\ <<n>> \in Bytes
      BY <2>3, <2>8, FirstToken
    <3> QED BY ONLY <2>8, <2>9, <3>1, Associates
  <2> QED BY <2>5, <2>7, <2>8, <2>10, <2>11
<1>5. Faithful(l)
  BY <1>1, ListFaithful DEF Lawful
<1> QED BY <1>1, <1>4, <1>5 DEF Lawful, Canonical

LEMMA Lengths ==
  ASSUME NEW s \in Bytes
  PROVE  Len(s) \in Nat /\ \A i \in 1..Len(s) : s[i] \in Nat
BY DEF Bytes

\* x is the part of s from i to j.
IsPart(x, s, i, j) ==
    /\ x \in Bytes /\ Len(x) = (j + 1) - i
    /\ \A k \in 1..((j + 1) - i) : x[k] = s[(k + i) - 1]

LEMMA Part ==
  ASSUME NEW s \in Bytes, NEW i \in Nat, NEW j \in Nat, 0 < i, i <= j + 1, j <= Len(s)
  PROVE  IsPart(SubSeq(s, i, j), s, i, j)
<1>1. \A k \in i..j : s[k] \in Nat
  BY Lengths
<1>2. PICK x : x = SubSeq(s, i, j)
  OBVIOUS
<1>3. x \in Seq(Nat) /\ Len(x) = IF i <= j THEN j - i + 1 ELSE 0
  BY <1>1, <1>2, SubSeqProperties
<1>4. \A k \in 1..(j - i + 1) : x[k] = s[i + k - 1]
  BY <1>1, <1>2, SubSeqProperties
<1> QED BY <1>2, <1>3, <1>4 DEF Bytes, IsPart

\* s begins with n and the n bytes b, and goes on with r.
Frames(s, n, b, r) ==
    /\ s \in Bytes /\ s # <<>> /\ Head(s) = n /\ n < Len(s)
    /\ SubSeq(s, 2, n + 1) = b /\ SubSeq(s, n + 2, Len(s)) = r

LEMMA CutFrame ==
  ASSUME NEW n \in Nat, NEW b \in Bytes, Len(b) = n, NEW r \in Bytes,
         NEW s, s = <<n>> \o (b \o r)
  PROVE  Frames(s, n, b, r)
<1>1. PICK t, l, q : t = b \o r /\ l = Len(r) /\ q = Len(s)
  OBVIOUS
<1>2. t \in Bytes /\ Len(t) = n + l /\ l \in Nat
  BY <1>1, Joined, Lengths
<1>3. /\ s \in Bytes /\ s # <<>> /\ Head(s) = n /\ Tail(s) = t
      /\ q = (n + l) + 1 /\ q \in Nat
  <2>1. s = <<n>> \o t
    BY <1>1
  <2>2. s \in Bytes /\ s # <<>> /\ Head(s) = n /\ Tail(s) = t /\ Len(s) = Len(t) + 1
    BY ONLY n \in Nat, <1>2, <2>1, FirstToken
  <2> QED BY <1>1, <1>2, <2>2
<1>4. \A i \in 1..(n + l) : s[i + 1] = t[i]
  <2>1. \A i \in 1..Len(Tail(s)) : Tail(s)[i] = s[i + 1]
    BY <1>3, HeadTailProperties DEF Bytes
  <2> QED BY <1>2, <1>3, <2>1
<1>5. \A i \in 1..(n + l) : t[i] = IF i <= n THEN b[i] ELSE r[i - n]
  BY <1>1, <1>2, ConcatProperties DEF Bytes
<1>7. SubSeq(s, 2, n + 1) = b
  <2>1. PICK x, m, two : x = SubSeq(s, two, m) /\ m = n + 1 /\ two = 2
    OBVIOUS
  <2>2. m \in Nat /\ two \in Nat /\ 0 < two /\ two <= m + 1 /\ m <= q
    BY <1>2, <1>3, <2>1
  <2>3. IsPart(x, s, two, m)
    BY ONLY <1>1, <1>3, <2>1, <2>2, Part
  <2>4. x \in Bytes /\ Len(x) = n /\ \A i \in 1..n : x[i] = s[i + 1]
    BY <2>1, <2>3 DEF IsPart
  <2>5. ASSUME NEW i \in 1..n PROVE x[i] = b[i]
    <3>1. i \in 1..(n + l) /\ i <= n
      BY <1>2
    <3> QED BY <1>4, <1>5, <2>4, <3>1
  <2> QED BY <2>1, <2>4, <2>5, SeqEqual DEF Bytes
<1>8. SubSeq(s, n + 2, Len(s)) = r
  <2>1. PICK x, m : x = SubSeq(s, m, q) /\ m = n + 2
    OBVIOUS
  <2>2. m \in Nat /\ 0 < m /\ m <= q + 1 /\ q <= q /\ (q + 1) - m = l
    BY <1>2, <1>3, <2>1
  <2>3. IsPart(x, s, m, q)
    BY ONLY <1>1, <1>3, <2>1, <2>2, Part
  <2>4. x \in Bytes /\ Len(x) = l /\ \A i \in 1..l : x[i] = s[(i + m) - 1]
    BY <2>2, <2>3 DEF IsPart
  <2>5. ASSUME NEW i \in 1..l PROVE x[i] = r[i]
    <3>1. PICK j \in 1..(n + l) : j = n + i /\ j + 1 = (i + m) - 1 /\ ~(j <= n) /\ j - n = i
      BY <1>2, <2>1
    <3>2. x[i] = s[j + 1] /\ s[j + 1] = t[j] /\ t[j] = r[j - n]
      BY <1>4, <1>5, <2>4, <3>1
    <3> QED BY <3>1, <3>2
  <2> QED BY <1>1, <2>1, <2>4, <2>5, SeqEqual DEF Bytes
<1>9. n < q
  BY <1>2, <1>3
<1> QED BY <1>1, <1>3, <1>7, <1>8, <1>9 DEF Frames

\* The frame n, b of s and what follows it.
Frame(s, n, b, r) ==
    n \in Nat /\ b \in Bytes /\ Len(b) = n /\ r \in Bytes /\ s = <<n>> \o (b \o r)

LEMMA PasteFrame ==
  ASSUME NEW s, NEW n, NEW b, NEW r, Frames(s, n, b, r)
  PROVE  Frame(s, n, b, r)
<1>1. /\ s \in Bytes /\ s # <<>> /\ Head(s) = n /\ n < Len(s)
      /\ SubSeq(s, 2, n + 1) = b /\ SubSeq(s, n + 2, Len(s)) = r
  BY DEF Frames
<1>2. PICK q : q = Len(s)
  OBVIOUS
<1>3. n \in Nat /\ q \in Nat /\ n < q /\ s \in Seq(Nat)
  BY <1>1, <1>2, HeadAndTail, Lengths DEF Bytes
<1>4. PICK m, k, two : m = n + 1 /\ k = n + 2 /\ two = 2
  OBVIOUS
<1>5. b \in Bytes /\ Len(b) = n
  <2>1. m \in Nat /\ two \in Nat /\ 0 < two /\ two <= m + 1 /\ m <= q /\ (m + 1) - two = n
    BY <1>3, <1>4
  <2>2. IsPart(SubSeq(s, two, m), s, two, m)
    BY ONLY <1>1, <1>2, <2>1, Part
  <2> QED BY <1>1, <1>4, <2>1, <2>2 DEF IsPart
<1>6. r \in Bytes
  <2>1. k \in Nat /\ 0 < k /\ k <= q + 1 /\ q <= q
    BY <1>3, <1>4
  <2>2. IsPart(SubSeq(s, k, q), s, k, q)
    BY ONLY <1>1, <1>2, <1>3, <2>1, Part
  <2> QED BY <1>1, <1>2, <1>4, <2>2 DEF IsPart
<1>7. b \o r = SubSeq(s, 2, Len(s))
  <2>1. two \in 1..(q + 1) /\ m \in (two - 1)..q /\ q \in m..q /\ m + 1 = k
    BY <1>3, <1>4
  <2>2. SubSeq(s, two, m) \o SubSeq(s, m + 1, q) = SubSeq(s, two, q)
    BY ONLY <1>2, <1>3, <2>1, ConcatAdjacentSubSeq
  <2> QED BY <1>1, <1>2, <1>4, <2>1, <2>2
<1>8. Tail(s) = SubSeq(s, 2, Len(s)) /\ s = <<Head(s)>> \o Tail(s)
  BY <1>1, <1>3, HeadAndTail, TailIsSubSeq
<1> QED BY <1>1, <1>3, <1>5, <1>6, <1>7, <1>8 DEF Frame

LEMMA FramedLawful ==
  ASSUME NEW c, Lawful(c)
  PROVE  Lawful(Framed(c))
<1>1. PICK l : l = Framed(c)
  OBVIOUS
<1>2. /\ Values(l) = {u \in Values(c) : Len(c.write[u]) <= MAX_FIELD_LEN}
      /\ \A v \in Values(l) : l.write[v] = <<Len(c.write[v])>> \o c.write[v]
  BY <1>1 DEF Framed, Values
<1>3. ASSUME NEW s \in Bytes, NEW d, d = c.read[SubSeq(s, 2, Head(s) + 1)]
      PROVE  l.read[s] = IF s # <<>> /\ Head(s) <= MAX_FIELD_LEN /\ Head(s) < Len(s)
                            /\ FrameUsedUp(d)
                         THEN Yields(d.value, SubSeq(s, Head(s) + 2, Len(s))) ELSE Fails
  BY <1>1, <1>3 DEF Framed
<1>4. ASSUME NEW v \in Values(l), NEW r \in Bytes
      PROVE  l.write[v] \in Bytes /\ l.read[l.write[v] \o r] = Yields(v, r)
  <2>1. PICK b, n : b = c.write[v] /\ n = Len(b)
    OBVIOUS
  <2>2. v \in Values(c) /\ b \in Bytes /\ n \in Nat /\ n <= MAX_FIELD_LEN
    BY <1>2, <2>1 DEF Lawful, Faithful, Bytes
  <2>3. l.write[v] = <<n>> \o b /\ <<n>> \o b \in Bytes /\ <<n>> \in Bytes
    BY <1>2, <2>1, <2>2, FirstToken
  <2>4. PICK s : s = <<n>> \o (b \o r)
    OBVIOUS
  <2>5. (<<n>> \o b) \o r = s
    BY <2>2, <2>3, <2>4, Associates
  <2>6. /\ s \in Bytes /\ s # <<>> /\ Head(s) = n /\ n < Len(s)
        /\ SubSeq(s, 2, n + 1) = b /\ SubSeq(s, n + 2, Len(s)) = r
    <3>1. Len(b) = n
      BY <2>1
    <3>2. Frames(s, n, b, r)
      BY ONLY r \in Bytes, <2>2, <2>4, <3>1, CutFrame
    <3> QED BY ONLY <3>2 DEF Frames
  <2>7. PICK d : d = c.read[b]
    OBVIOUS
  <2>8. d = Yields(v, <<>>)
    <3>1. b \o <<>> = b
      BY <2>2, NothingFollows
    <3>2. c.read[c.write[v] \o <<>>] = Yields(v, <<>>)
      BY <2>2, EmptyBytes DEF Lawful, Faithful
    <3> QED BY <2>1, <2>7, <3>1, <3>2
  <2>9. d.ok /\ d.value = v /\ d.rest = <<>>
    BY ONLY <2>8, YieldsFields
  <2>10. l.read[s] = Yields(v, r)
    BY <1>3, <2>2, <2>6, <2>7, <2>9 DEF FrameUsedUp
  <2> QED BY <2>3, <2>5, <2>10
<1>5. ASSUME NEW s \in Bytes, l.read[s].ok
      PROVE  /\ l.read[s].value \in Values(l) /\ l.read[s].rest \in Bytes
             /\ s = l.write[l.read[s].value] \o l.read[s].rest
  <2>1. PICK n, b, r, d : /\ n = Head(s) /\ b = SubSeq(s, 2, n + 1)
                          /\ r = SubSeq(s, n + 2, Len(s)) /\ d = c.read[b]
    OBVIOUS
  <2>2. /\ s # <<>> /\ Head(s) <= MAX_FIELD_LEN /\ Head(s) < Len(s)
        /\ FrameUsedUp(d) /\ l.read[s] = Yields(d.value, r)
    BY <1>3, <1>5, <2>1, YieldsFields
  <2>3. n \in Nat /\ b \in Bytes /\ Len(b) = n /\ r \in Bytes /\ s = <<n>> \o (b \o r)
    <3>1. Frames(s, n, b, r)
      BY <2>1, <2>2 DEF Frames
    <3>2. Frame(s, n, b, r)
      BY ONLY <3>1, PasteFrame
    <3> QED BY ONLY <3>2 DEF Frame
  <2>4. PICK v : v = d.value
    OBVIOUS
  <2>5. v \in Values(c) /\ b = c.write[v] \o <<>>
    <3>1. Canonical(c) /\ d.ok /\ d.rest = <<>>
      BY <2>2 DEF Lawful, FrameUsedUp
    <3>2. c.read[b].value \in Values(c) /\ b = c.write[c.read[b].value] \o c.read[b].rest
      BY ONLY <2>1, <2>3, <3>1 DEF Canonical
    <3> QED BY ONLY <2>1, <2>4, <3>1, <3>2
  <2>6. b = c.write[v]
    BY <2>5, NothingFollows DEF Lawful, Faithful
  <2>7. v \in Values(l) /\ l.write[v] = <<n>> \o b
    BY <1>2, <2>1, <2>2, <2>3, <2>5, <2>6
  <2>8. l.read[s].value = v /\ l.read[s].rest = r
    <3>1. l.read[s] = Yields(v, r)
      BY <2>2, <2>4
    <3> QED BY ONLY <3>1, YieldsFields
  <2>9. s = (<<n>> \o b) \o r
    <3>1. <<n>> \in Bytes
      BY <2>3, FirstToken
    <3> QED BY ONLY <2>3, <3>1, Associates
  <2> QED BY <2>3, <2>7, <2>8, <2>9
<1> QED BY <1>1, <1>4, <1>5, EmptyBytes DEF Lawful, Faithful, Canonical

\* The values of arms are marked by tags of T, and so are their encodings.
Tagged(c, T) ==
    \A v \in Values(c) : /\ v[1] \in T
                         /\ \E b \in Bytes : c.write[v] = <<v[1]>> \o b

LEMMA ArmWrites ==
  ASSUME NEW tag \in Nat, NEW c, Faithful(c), NEW o, Faithful(o),
         NEW T, T \subseteq Nat, Tagged(o, T), tag \notin T
  PROVE  Faithful(Arm(tag, c, o)) /\ Tagged(Arm(tag, c, o), T \cup {tag})
<1>1. PICK l : l = Arm(tag, c, o)
  OBVIOUS
<1>2. /\ Values(l) = ({tag} \X Values(c)) \cup Values(o)
      /\ \A v \in Values(l) :
            l.write[v] = IF v[1] = tag THEN <<tag>> \o c.write[v[2]] ELSE o.write[v]
  BY <1>1 DEF Arm, Values
<1>3. ASSUME NEW s \in Bytes, NEW d, d = c.read[Tail(s)]
      PROVE  l.read[s] = IF s # <<>> /\ Head(s) = tag
                         THEN IF d.ok THEN Yields(<<tag, d.value>>, d.rest) ELSE Fails
                         ELSE o.read[s]
  BY <1>1, <1>3 DEF Arm
<1>4. ASSUME NEW v \in Values(l), NEW r \in Bytes
      PROVE  /\ l.write[v] \in Bytes /\ l.read[l.write[v] \o r] = Yields(v, r)
             /\ v[1] \in T \cup {tag} /\ \E b \in Bytes : l.write[v] = <<v[1]>> \o b
  <2>1. CASE v \in {tag} \X Values(c)
    <3>1. PICK x \in Values(c) : v = <<tag, x>>
      BY <2>1
    <3>2. PICK b : b = c.write[x]
      OBVIOUS
    <3>3. b \in Bytes
      BY <3>1, <3>2 DEF Faithful
    <3>4. l.write[v] = <<tag>> \o b /\ v[1] = tag
      BY <1>2, <1>4, <3>1, <3>2
    <3>5. PICK t, s : t = b \o r /\ s = <<tag>> \o t
      OBVIOUS
    <3>6. t \in Bytes /\ <<tag>> \in Bytes /\ <<tag>> \o b \in Bytes
      BY <3>3, <3>5, Joined, FirstToken
    <3>7. s \in Bytes /\ s # <<>> /\ Head(s) = tag /\ Tail(s) = t
      BY <3>5, <3>6, FirstToken
    <3>8. (<<tag>> \o b) \o r = s
      BY <3>3, <3>5, <3>6, Associates
    <3>9. PICK d : d = c.read[t]
      OBVIOUS
    <3>10. d = Yields(x, r)
      BY <3>1, <3>2, <3>5, <3>9 DEF Faithful
    <3>11. d.ok /\ d.value = x /\ d.rest = r
      BY ONLY <3>10, YieldsFields
    <3>12. l.read[s] = Yields(v, r)
      BY <1>3, <3>1, <3>7, <3>9, <3>11
    <3> QED BY <3>3, <3>4, <3>6, <3>8, <3>12
  <2>2. CASE v \in Values(o)
    <3>1. PICK b \in Bytes : o.write[v] = <<v[1]>> \o b /\ v[1] \in T
      BY <2>2 DEF Tagged
    <3>2. PICK x \in T : x = v[1] /\ x \in Nat /\ x # tag
      BY <3>1
    <3>3. l.write[v] = <<x>> \o b /\ o.write[v] = <<x>> \o b
      BY <1>2, <1>4, <3>1, <3>2
    <3>4. PICK t, s : t = b \o r /\ s = <<x>> \o t
      OBVIOUS
    <3>5. t \in Bytes /\ <<x>> \in Bytes /\ <<x>> \o b \in Bytes
      BY <3>2, <3>4, Joined, FirstToken
    <3>6. s \in Bytes /\ Head(s) = x
      BY <3>2, <3>4, <3>5, FirstToken
    <3>7. (<<x>> \o b) \o r = s
      BY <3>4, <3>5, Associates
    <3>8. o.read[s] = Yields(v, r)
      <4>1. o.read[o.write[v] \o r] = Yields(v, r)
        BY <2>2 DEF Faithful
      <4> QED BY <3>3, <3>7, <4>1
    <3>9. l.read[s] = Yields(v, r)
      BY <1>3, <3>2, <3>6, <3>8
    <3> QED BY <3>2, <3>3, <3>5, <3>7, <3>9
  <2> QED BY <1>2, <2>1, <2>2
<1>5. Faithful(l)
  BY <1>4, EmptyBytes DEF Faithful
<1>6. Tagged(l, T \cup {tag})
  BY <1>4, EmptyBytes DEF Tagged
<1> QED BY <1>1, <1>5, <1>6

LEMMA ArmReads ==
  ASSUME NEW tag \in Nat, NEW c, Lawful(c), NEW o, Lawful(o),
         NEW T, Tagged(o, T), tag \notin T
  PROVE  Canonical(Arm(tag, c, o))
<1>1. PICK l : l = Arm(tag, c, o)
  OBVIOUS
<1>2. /\ Values(l) = ({tag} \X Values(c)) \cup Values(o)
      /\ \A v \in Values(l) :
            l.write[v] = IF v[1] = tag THEN <<tag>> \o c.write[v[2]] ELSE o.write[v]
  BY <1>1 DEF Arm, Values
<1>3. ASSUME NEW s \in Bytes, NEW d, d = c.read[Tail(s)]
      PROVE  l.read[s] = IF s # <<>> /\ Head(s) = tag
                         THEN IF d.ok THEN Yields(<<tag, d.value>>, d.rest) ELSE Fails
                         ELSE o.read[s]
  BY <1>1, <1>3 DEF Arm
<1>4. ASSUME NEW s \in Bytes, l.read[s].ok
      PROVE  /\ l.read[s].value \in Values(l) /\ l.read[s].rest \in Bytes
             /\ s = l.write[l.read[s].value] \o l.read[s].rest
  <2>1. CASE s # <<>> /\ Head(s) = tag
    <3>1. PICK t, d : t = Tail(s) /\ d = c.read[t]
      OBVIOUS
    <3>2. t \in Bytes /\ s = <<tag>> \o t /\ <<tag>> \in Bytes
      BY <2>1, <3>1, HeadAndTail, FirstToken
    <3>3. d.ok /\ l.read[s] = Yields(<<tag, d.value>>, d.rest)
      BY <1>3, <1>4, <2>1, <3>1, YieldsFields
    <3>4. PICK x, r, b : x = d.value /\ r = d.rest /\ b = c.write[x]
      OBVIOUS
    <3>5. x \in Values(c) /\ r \in Bytes /\ t = b \o r
      BY <3>1, <3>2, <3>3, <3>4 DEF Lawful, Canonical
    <3>6. b \in Bytes
      BY <3>4, <3>5 DEF Lawful, Faithful
    <3>7. PICK v : v = <<tag, x>>
      OBVIOUS
    <3>8. v \in Values(l) /\ l.write[v] = <<tag>> \o b
      BY <1>2, <3>4, <3>5, <3>7
    <3>9. l.read[s].value = v /\ l.read[s].rest = r
      <4>1. l.read[s] = Yields(v, r)
        BY <3>3, <3>4, <3>7
      <4> QED BY ONLY <4>1, YieldsFields
    <3>10. s = (<<tag>> \o b) \o r
      <4>1. s = <<tag>> \o (b \o r)
        BY <3>2, <3>5
      <4> QED BY ONLY <3>2, <3>5, <3>6, <4>1, Associates
    <3> QED BY <3>5, <3>8, <3>9, <3>10
  <2>2. CASE ~(s # <<>> /\ Head(s) = tag)
    <3>1. PICK d, v, r : d = o.read[s] /\ v = d.value /\ r = d.rest
      OBVIOUS
    <3>2. l.read[s] = d /\ d.ok
      BY <1>3, <1>4, <2>2, <3>1
    <3>3. v \in Values(o) /\ r \in Bytes /\ s = o.write[v] \o r
      BY <3>1, <3>2 DEF Lawful, Canonical
    <3>4. v[1] # tag
      BY <3>3 DEF Tagged
    <3>5. v \in Values(l) /\ l.write[v] = o.write[v]
      BY <1>2, <3>3, <3>4
    <3> QED BY <3>1, <3>2, <3>3, <3>5
  <2> QED BY <2>1, <2>2
<1> QED BY <1>1, <1>4 DEF Canonical

LEMMA ArmLawful ==
  ASSUME NEW tag \in Nat, NEW c, Lawful(c), NEW o, Lawful(o),
         NEW T, T \subseteq Nat, Tagged(o, T), tag \notin T
  PROVE  Lawful(Arm(tag, c, o)) /\ Tagged(Arm(tag, c, o), T \cup {tag})
BY ArmWrites, ArmReads DEF Lawful

LEMMA NoArmLawful == Lawful(NoArm) /\ Tagged(NoArm, {})
<1>1. PICK c : c = NoArm
  OBVIOUS
<1>2. Values(c) = {} /\ \A s \in Bytes : ~c.read[s].ok
  BY <1>1, YieldsFields DEF NoArm, Values
<1> QED BY <1>1, <1>2 DEF Lawful, Faithful, Canonical, Tagged

LEMMA OptionalNonceFaithful == Faithful(OptionalNonce)
<1>1. PICK c : c = OptionalNonce
  OBVIOUS
<1>2. Values(c) = Nat \X Nat /\ \A v \in Nat \X Nat : c.write[v] = v
  BY <1>1 DEF OptionalNonce, Values
<1>3. ASSUME NEW v \in Nat \X Nat, NEW r \in Bytes
      PROVE  v \in Bytes /\ c.read[v \o r] = Yields(v, r)
  <2>1. v \in Bytes /\ Len(v) = 2
    <3>1. PICK a \in Nat, b \in Nat : v = <<a, b>>
      OBVIOUS
    <3> QED BY <3>1 DEF Bytes
  <2>2. PICK s : s = v \o r
    OBVIOUS
  <2>3. s \in Bytes /\ Len(s) = 2 + Len(r) /\ Len(r) \in Nat
    BY <2>1, <2>2, Joined, Lengths
  <2>4. SubSeq(s, 1, 2) = v
    BY <2>1, <2>2, <2>3 DEF Bytes
  <2>5. SubSeq(s, 3, Len(s)) = r
    BY <2>1, <2>2, <2>3 DEF Bytes
  <2>6. c.read[s] = Yields(SubSeq(s, 1, 2), SubSeq(s, 3, Len(s)))
    BY <1>1, <2>3 DEF OptionalNonce
  <2> QED BY <2>1, <2>2, <2>4, <2>5, <2>6
<1> QED BY <1>1, <1>2, <1>3, EmptyBytes DEF Faithful

LEMMA Limits ==
  /\ MAX_TX_IO \in Nat /\ MAX_FIELD_LEN \in Nat /\ MAX_BLOCK_TXS \in Nat
  /\ MAX_INV \in Nat /\ MAX_LOCATOR \in Nat /\ MAX_ADDRS \in Nat
BY WireAssumption

LEMMA WordLawful == Lawful(Word)
BY TokenLawful DEF Word

LEMMA VecLawful == Lawful(Vec) /\ Lawful(Hashes(MAX_INV)) /\ Lawful(Hashes(MAX_LOCATOR))
BY WordLawful, ListLawful, Limits DEF Vec, Hashes

LEMMA OutputLawful == Lawful(OutputCodec)
<1>1. Lawful(Scheme)
  <2>1. {0, 1} \subseteq Nat
    OBVIOUS
  <2> QED BY <2>1, TokenLawful DEF Scheme
<1>2. Lawful(Scheme ** Word) /\ Lawful((Scheme ** Word) ** Word)
  BY <1>1, WordLawful, PairLawful
<1>3. PICK a, b, zero, one : /\ a = Scheme ** Word /\ b = (Scheme ** Word) ** Word
                             /\ zero = 0 /\ one = 1
  OBVIOUS
<1>4. zero \in Nat /\ one \in Nat /\ {one} \subseteq Nat /\ zero \notin {one} /\ one \notin {}
  BY <1>3
<1>5. PICK l, o : o = Arm(one, b, NoArm) /\ l = Arm(zero, a, o)
  OBVIOUS
<1>6. Lawful(o) /\ Tagged(o, {} \cup {one}) /\ {} \cup {one} = {one}
  BY <1>2, <1>3, <1>4, <1>5, NoArmLawful, ArmLawful
<1>7. Tagged(o, {one})
  BY <1>6
<1>8. Lawful(l)
  BY <1>2, <1>3, <1>4, <1>5, <1>6, <1>7, ArmLawful
<1>9. l = LockCodec
  BY <1>3, <1>5 DEF LockCodec
<1> QED BY <1>8, <1>9, WordLawful, PairLawful DEF OutputCodec

LEMMA BodyLawful == Lawful(BodyCodec)
<1>1. Lawful(InputCodec) /\ Lawful(List(InputCodec, MAX_TX_IO))
  BY WordLawful, PairLawful, ListLawful, Limits DEF InputCodec
<1>2. Lawful(List(OutputCodec, MAX_TX_IO))
  BY OutputLawful, ListLawful, Limits
<1>3. Lawful(Word ** List(InputCodec, MAX_TX_IO))
  BY <1>1, WordLawful, PairLawful
<1>4. Lawful((Word ** List(InputCodec, MAX_TX_IO)) ** List(OutputCodec, MAX_TX_IO))
  BY <1>2, <1>3, PairLawful
<1>5. PICK c : c = (Word ** List(InputCodec, MAX_TX_IO)) ** List(OutputCodec, MAX_TX_IO)
  OBVIOUS
<1>6. Lawful((c ** Word) ** Vec)
  BY <1>4, <1>5, WordLawful, VecLawful, PairLawful
<1> QED BY <1>5, <1>6 DEF BodyCodec

LEMMA TxLawful == Lawful(TxCodec)
<1>1. Lawful(Vec ** Vec) /\ Lawful(List(Vec ** Vec, MAX_TX_IO))
  BY VecLawful, PairLawful, ListLawful, Limits
<1>2. Lawful(Framed(BodyCodec))
  BY BodyLawful, FramedLawful
<1> QED BY <1>1, <1>2, PairLawful DEF TxCodec

LEMMA BlockLawful == Lawful(BlockCodec)
<1>1. Lawful(Word ** Word) /\ Lawful((Word ** Word) ** Word)
  BY WordLawful, PairLawful
<1>2. PICK a : a = (Word ** Word) ** Word
  OBVIOUS
<1>3. Lawful(a ** Word) /\ Lawful((a ** Word) ** Word)
  BY <1>1, <1>2, WordLawful, PairLawful
<1>4. PICK b : b = (a ** Word) ** Word
  OBVIOUS
<1>5. Lawful(b ** Word) /\ Lawful((b ** Word) ** Word)
  BY <1>3, <1>4, WordLawful, PairLawful
<1>6. Lawful(HeaderCodec)
  BY <1>2, <1>4, <1>5 DEF HeaderCodec
<1>7. Lawful(List(TxCodec, MAX_BLOCK_TXS))
  BY TxLawful, ListLawful, Limits
<1> QED BY <1>6, <1>7, PairLawful DEF BlockCodec

\* The arms with tags above n are lawful and marked by their tags.
Arms(o, n) == Lawful(o) /\ Tagged(o, (n + 1)..10)

LEMMA NextArm ==
  ASSUME NEW m \in Nat, NEW n \in Nat, n = m + 1, n <= 10,
         NEW c, Lawful(c), NEW o, Arms(o, n)
  PROVE  Arms(Arm(n, c, o), m)
<1>1. PICK T : T = (n + 1)..10
  OBVIOUS
<1>2. Lawful(o) /\ Tagged(o, T) /\ T \subseteq Nat /\ n \notin T
  BY <1>1 DEF Arms
<1>3. Lawful(Arm(n, c, o)) /\ Tagged(Arm(n, c, o), T \cup {n})
  BY ONLY n \in Nat, Lawful(c), <1>2, ArmLawful
<1>4. T \cup {n} = (m + 1)..10
  BY <1>1
<1> QED BY <1>3, <1>4 DEF Arms

LEMMA InvLawful == Lawful(InvCodec) /\ Lawful(List(Word ** Word, MAX_ADDRS))
BY VecLawful, WordLawful, PairLawful, ListLawful, Limits DEF InvCodec

LEMMA OtherArmsLawful == Arms(OtherArms, 1)
<1>1. Arms(NoArm, 10)
  <2>1. (10 + 1)..10 = {}
    OBVIOUS
  <2> QED BY <2>1, NoArmLawful DEF Arms
<1>2. PICK a9, a8, a7, a6, a5, a4, a3, a2 :
        /\ a9 = Arm(10, List(Word ** Word, MAX_ADDRS), NoArm)
        /\ a8 = Arm(9, Unit, a9)
        /\ a7 = Arm(8, TxCodec, a8)
        /\ a6 = Arm(7, BlockCodec, a7)
        /\ a5 = Arm(6, Hashes(MAX_LOCATOR), a6)
        /\ a4 = Arm(5, InvCodec, a5)
        /\ a3 = Arm(4, InvCodec, a4)
        /\ a2 = Arm(3, Word, a3)
  OBVIOUS
<1>3. Arms(a9, 9)
  BY <1>1, <1>2, InvLawful, NextArm
<1>4. Arms(a8, 8)
  BY <1>2, <1>3, UnitLawful, NextArm
<1>5. Arms(a7, 7)
  BY <1>2, <1>4, TxLawful, NextArm
<1>6. Arms(a6, 6)
  BY <1>2, <1>5, BlockLawful, NextArm
<1>7. Arms(a5, 5)
  BY <1>2, <1>6, VecLawful, NextArm
<1>8. Arms(a4, 4)
  BY <1>2, <1>7, InvLawful, NextArm
<1>9. Arms(a3, 3)
  BY <1>2, <1>8, InvLawful, NextArm
<1>10. Arms(a2, 2)
  BY <1>2, <1>9, WordLawful, NextArm
<1>11. Arms(Arm(2, Word, a2), 1)
  BY <1>10, WordLawful, NextArm
<1> QED BY <1>2, <1>11 DEF OtherArms

\* The fields of Hello before the nonce.
FixedHello == Word ** Word ** Word ** Word

\* Every encoding has n tokens.
Width(c, n) == \A v \in Values(c) : c.write[v] \in Bytes /\ Len(c.write[v]) = n

LEMMA WordWidth == Width(Word, 1)
BY FirstToken, EmptyBytes DEF Width, Word, Token, Values, Bytes

LEMMA PairWidth ==
  ASSUME NEW a, NEW b, NEW m \in Nat, NEW n \in Nat, Width(a, m), Width(b, n)
  PROVE  Width(a ** b, m + n)
<1>1. PICK c : c = a ** b
  OBVIOUS
<1>2. /\ Values(c) = Values(a) \X Values(b)
      /\ \A v \in Values(c) : c.write[v] = a.write[v[1]] \o b.write[v[2]]
  BY <1>1 DEF **, Then, Values
<1>3. ASSUME NEW v \in Values(c) PROVE c.write[v] \in Bytes /\ Len(c.write[v]) = m + n
  <2>1. PICK s, t : s = a.write[v[1]] /\ t = b.write[v[2]]
    OBVIOUS
  <2>2. s \in Bytes /\ t \in Bytes /\ Len(s) = m /\ Len(t) = n
    BY <1>2, <2>1 DEF Width
  <2> QED BY <1>2, <2>1, <2>2, Joined
<1> QED BY <1>1, <1>3 DEF Width

LEMMA FixedHelloLawful == Lawful(FixedHello) /\ Width(FixedHello, 4)
<1>1. PICK a, b : a = Word ** Word /\ b = a ** Word
  OBVIOUS
<1>2. Lawful(a) /\ Lawful(b) /\ Lawful(b ** Word)
  BY <1>1, WordLawful, PairLawful
<1>3. Width(a, 2)
  BY <1>1, WordWidth, PairWidth
<1>4. Width(b, 3)
  BY <1>1, <1>3, WordWidth, PairWidth
<1>5. Width(b ** Word, 4)
  BY <1>4, WordWidth, PairWidth
<1> QED BY <1>1, <1>2, <1>5 DEF FixedHello

LEMMA HelloFaithful == Faithful(HelloCodec) /\ Width(HelloCodec, 6)
<1>1. HelloCodec = FixedHello ** OptionalNonce
  BY DEF HelloCodec, FixedHello
<1>2. Width(OptionalNonce, 2)
  <2>1. ASSUME NEW v \in Nat \X Nat PROVE v \in Bytes /\ Len(v) = 2
    <3>1. PICK x \in Nat, y \in Nat : v = <<x, y>>
      OBVIOUS
    <3> QED BY <3>1 DEF Bytes
  <2> QED BY <2>1 DEF Width, OptionalNonce, Values
<1>3. PICK f, o : f = FixedHello /\ o = OptionalNonce
  OBVIOUS
<1>4. Faithful(f ** o)
  BY <1>3, FixedHelloLawful, OptionalNonceFaithful, PairFaithful DEF Lawful
<1>5. Width(f ** o, 6)
  BY <1>2, <1>3, FixedHelloLawful, PairWidth
<1> QED BY <1>1, <1>3, <1>4, <1>5

LEMMA MessageFaithful == Faithful(MessageCodec) /\ Tagged(MessageCodec, KnownTags)
<1>1. PICK one, T, o, h : one = 1 /\ T = (1 + 1)..10 /\ o = OtherArms /\ h = HelloCodec
  OBVIOUS
<1>2. Faithful(o) /\ Tagged(o, T)
  BY <1>1, OtherArmsLawful DEF Arms, Lawful
<1>3. one \in Nat /\ T \subseteq Nat /\ one \notin T /\ T \cup {one} = 1..10
  BY <1>1
<1>4. Faithful(h)
  BY <1>1, HelloFaithful
<1>5. Faithful(Arm(one, h, o)) /\ Tagged(Arm(one, h, o), T \cup {one})
  BY ONLY <1>2, <1>3, <1>4, ArmWrites
<1> QED BY <1>1, <1>3, <1>5 DEF MessageCodec, KnownTags

LEMMA PrefixExtends ==
  ASSUME NEW s \in Bytes, NEW t \in Bytes, IsPrefix(s, t)
  PROVE  \E r \in Bytes : t = s \o r
<1>1. PICK n, q : n = Len(s) /\ q = Len(t)
  OBVIOUS
<1>2. n \in Nat /\ q \in Nat /\ n <= q /\ SubSeq(s, 1, n) = SubSeq(t, 1, n)
  BY <1>1, Lengths DEF IsPrefix
<1>3. SubSeq(s, 1, n) = s /\ SubSeq(t, 1, q) = t
  BY <1>1, SubSeqFull DEF Bytes
<1>4. PICK r, m, one : r = SubSeq(t, m, q) /\ m = n + 1 /\ one = 1
  OBVIOUS
<1>5. r \in Bytes
  <2>1. m \in Nat /\ 0 < m /\ m <= q + 1 /\ q <= q
    BY <1>2, <1>4
  <2>2. IsPart(SubSeq(t, m, q), t, m, q)
    BY ONLY t \in Bytes, <1>1, <1>2, <2>1, Part
  <2> QED BY <1>4, <2>2 DEF IsPart
<1>6. t = SubSeq(t, 1, n) \o r
  <2>1. one \in 1..(q + 1) /\ n \in (one - 1)..q /\ q \in n..q
    BY <1>2, <1>4
  <2>2. t \in Seq(Nat)
    BY DEF Bytes
  <2>3. SubSeq(t, one, n) \o SubSeq(t, n + 1, q) = SubSeq(t, one, q)
    BY ONLY <1>1, <2>1, <2>2, ConcatAdjacentSubSeq
  <2> QED BY <1>3, <1>4, <2>3
<1> QED BY <1>2, <1>3, <1>5, <1>6

\* What has lost its end is refused.
LEMMA CutOff ==
  ASSUME NEW c, Lawful(c), NEW v \in Values(c),
         NEW s \in Bytes, NEW x \in Bytes, x # <<>>, c.write[v] = s \o x
  PROVE  ~c.read[s].ok
<1> SUFFICES ASSUME c.read[s].ok PROVE FALSE
  OBVIOUS
<1>1. PICK u, r, w : u = c.read[s].value /\ r = c.read[s].rest /\ w = c.write[u]
  OBVIOUS
<1>2. u \in Values(c) /\ r \in Bytes /\ s = w \o r /\ w \in Bytes
  BY <1>1 DEF Lawful, Canonical, Faithful
<1>3. PICK y, z : y = r \o x /\ z = c.write[v]
  OBVIOUS
<1>4. y \in Bytes /\ z = w \o y /\ z \in Bytes
  <2>1. (w \o r) \o x = w \o (r \o x) /\ r \o x \in Bytes
    BY <1>2, Associates, Joined
  <2>2. z \in Bytes
    BY <1>3 DEF Lawful, Faithful
  <2> QED BY <1>2, <1>3, <2>1, <2>2
<1>5. c.read[z] = Yields(u, y)
  BY <1>1, <1>2, <1>4 DEF Lawful, Faithful
<1>6. c.read[z] = Yields(v, <<>>)
  <2>1. z \o <<>> = z
    BY <1>4, NothingFollows
  <2>2. c.read[z \o <<>>] = Yields(v, <<>>)
    BY <1>3, EmptyBytes DEF Lawful, Faithful
  <2> QED BY <2>1, <2>2
<1>7. y = <<>>
  <2>1. Yields(u, y).rest = y /\ Yields(v, <<>>).rest = <<>>
    BY YieldsFields
  <2> QED BY <1>5, <1>6, <2>1
<1>8. Len(y) = Len(r) + Len(x) /\ Len(r) \in Nat /\ Len(x) \in Nat /\ Len(x) # 0
  <2>1. Len(x) # 0
    BY EmptySeq DEF Bytes
  <2> QED BY <1>2, <1>3, <2>1, Joined, Lengths
<1> QED BY <1>7, <1>8

LEMMA ReadsItsOwn ==
  ASSUME NEW c, Faithful(c), NEW v \in Values(c)
  PROVE  c.write[v] \in Bytes /\ c.read[c.write[v]] = Yields(v, <<>>)
<1>1. PICK z : z = c.write[v]
  OBVIOUS
<1>2. z \in Bytes /\ c.read[z \o <<>>] = Yields(v, <<>>)
  BY <1>1, EmptyBytes DEF Faithful
<1> QED BY <1>1, <1>2, NothingFollows

LEMMA DecodesAll ==
  ASSUME NEW c, Lawful(c), NEW s \in Bytes
  PROVE  /\ \A v \in Values(c) : s = c.write[v] =>
                DecodeAll(c, s).ok /\ DecodeAll(c, s).value = v
         /\ DecodeAll(c, s).ok => c.write[DecodeAll(c, s).value] = s
<1>1. PICK d : d = c.read[s]
  OBVIOUS
<1>2. DecodeAll(c, s) = IF d.ok /\ d.rest = <<>> THEN d ELSE Fails
  BY <1>1 DEF DecodeAll
<1>3. ASSUME NEW v \in Values(c), s = c.write[v]
      PROVE  DecodeAll(c, s).ok /\ DecodeAll(c, s).value = v
  <2>1. d = Yields(v, <<>>)
    BY <1>1, <1>3, ReadsItsOwn DEF Lawful
  <2>2. d.ok /\ d.value = v /\ d.rest = <<>>
    BY ONLY <2>1, YieldsFields
  <2> QED BY <1>2, <2>2
<1>4. ASSUME DecodeAll(c, s).ok PROVE c.write[DecodeAll(c, s).value] = s
  <2>1. ~Fails.ok
    BY YieldsFields
  <2>2. d.ok /\ d.rest = <<>> /\ DecodeAll(c, s) = d
    BY <1>2, <1>4, <2>1
  <2>3. PICK v : v = d.value
    OBVIOUS
  <2>4. v \in Values(c) /\ s = c.write[v] \o <<>>
    <3>1. Canonical(c)
      BY DEF Lawful
    <3>2. /\ c.read[s].value \in Values(c)
          /\ s = c.write[c.read[s].value] \o c.read[s].rest
      BY ONLY <1>1, <2>2, <3>1, s \in Bytes DEF Canonical
    <3> QED BY ONLY <1>1, <2>2, <2>3, <3>2
  <2>5. c.write[v] \o <<>> = c.write[v]
    BY <2>4, NothingFollows DEF Lawful, Faithful
  <2> QED BY <2>2, <2>3, <2>4, <2>5
<1> QED BY <1>3, <1>4

\* No two triples are hashed from the same bytes.
LEMMA PreimageInjective ==
  ASSUME NEW s \in Values(BodyCodec) \X Nat \X Values(OutputCodec),
         NEW t \in Values(BodyCodec) \X Nat \X Values(OutputCodec),
         Preimage(s) = Preimage(t)
  PROVE  s = t
<1>1. PICK B, O : B = BodyCodec /\ O = OutputCodec
  OBVIOUS
<1>2. Lawful(B) /\ Lawful(O)
  BY <1>1, BodyLawful, OutputLawful
<1>3. PICK b \in Values(B), i \in Nat, o \in Values(O) : s = <<b, i, o>>
  BY <1>1
<1>4. PICK c \in Values(B), j \in Nat, p \in Values(O) : t = <<c, j, p>>
  BY <1>1
<1>5. PICK wb, wo, wc, wp : /\ wb = B.write[b] /\ wo = O.write[o]
                            /\ wc = B.write[c] /\ wp = O.write[p]
  OBVIOUS
<1>6. wb \in Bytes /\ wo \in Bytes /\ wc \in Bytes /\ wp \in Bytes
  BY <1>2, <1>5 DEF Lawful, Faithful
<1>7. PICK x, y : x = <<i>> \o wo /\ y = <<j>> \o wp
  OBVIOUS
<1>8. /\ x \in Bytes /\ Head(x) = i /\ Tail(x) = wo /\ <<i>> \in Bytes
      /\ y \in Bytes /\ Head(y) = j /\ Tail(y) = wp /\ <<j>> \in Bytes
  BY <1>6, <1>7, FirstToken
<1>9. Preimage(s) = wb \o x /\ Preimage(t) = wc \o y
  <2>1. Preimage(s) = (wb \o <<i>>) \o wo /\ Preimage(t) = (wc \o <<j>>) \o wp
    BY <1>1, <1>3, <1>4, <1>5 DEF Preimage
  <2>2. (wb \o <<i>>) \o wo = wb \o (<<i>> \o wo)
    BY ONLY <1>6, <1>8, Associates, SMTT(40)
  <2>3. (wc \o <<j>>) \o wp = wc \o (<<j>> \o wp)
    BY ONLY <1>6, <1>8, Associates, SMTT(40)
  <2> QED BY <1>7, <2>1, <2>2, <2>3
<1>10. B.read[wb \o x] = Yields(b, x) /\ B.read[wc \o y] = Yields(c, y)
  BY <1>2, <1>5, <1>8 DEF Lawful, Faithful
<1>11. b = c /\ x = y
  <2>1. Yields(b, x) = Yields(c, y)
    BY <1>9, <1>10
  <2>2. Yields(b, x).value = b /\ Yields(b, x).rest = x
    BY YieldsFields
  <2>3. Yields(c, y).value = c /\ Yields(c, y).rest = y
    BY YieldsFields
  <2> QED BY <2>1, <2>2, <2>3
<1>12. i = j /\ wo = wp
  BY <1>8, <1>11
<1>13. o = p
  <2>1. O.read[wo] = Yields(o, <<>>) /\ O.read[wp] = Yields(p, <<>>)
    BY <1>2, <1>5, ReadsItsOwn DEF Lawful
  <2>2. Yields(o, <<>>).value = o /\ Yields(p, <<>>).value = p
    BY YieldsFields
  <2> QED BY <1>12, <2>1, <2>2
<1> QED BY <1>3, <1>4, <1>11, <1>12, <1>13

LEMMA MessageWrites ==
  ASSUME NEW v \in Values(MessageCodec)
  PROVE  IF v[1] = 1
         THEN v[2] \in Values(HelloCodec)
              /\ MessageCodec.write[v] = <<1>> \o HelloCodec.write[v[2]]
         ELSE v \in Values(OtherArms) /\ MessageCodec.write[v] = OtherArms.write[v]
<1>1. PICK l, h, o : l = MessageCodec /\ h = HelloCodec /\ o = OtherArms
  OBVIOUS
<1>2. /\ Values(l) = ({1} \X Values(h)) \cup Values(o)
      /\ \A u \in Values(l) :
            l.write[u] = IF u[1] = 1 THEN <<1>> \o h.write[u[2]] ELSE o.write[u]
  BY <1>1 DEF MessageCodec, Arm, Values
<1>3. \A u \in Values(o) : u[1] # 1
  <2>1. Tagged(o, (1 + 1)..10)
    BY <1>1, OtherArmsLawful DEF Arms
  <2>2. \A u \in Values(o) : u[1] \in (1 + 1)..10
    BY <2>1 DEF Tagged
  <2> QED BY <2>2
<1> QED BY <1>1, <1>2, <1>3

LEMMA MessageReads ==
  ASSUME NEW s \in Bytes
  PROVE  /\ s # <<>> /\ Head(s) = 1 /\ MessageCodec.read[s].ok => HelloCodec.read[Tail(s)].ok
         /\ ~(s # <<>> /\ Head(s) = 1) => MessageCodec.read[s] = OtherArms.read[s]
<1>1. PICK l, h, o : l = MessageCodec /\ h = HelloCodec /\ o = OtherArms
  OBVIOUS
<1>2. ASSUME NEW d, d = h.read[Tail(s)]
      PROVE  l.read[s] = IF s # <<>> /\ Head(s) = 1
                         THEN IF d.ok THEN Yields(<<1, d.value>>, d.rest) ELSE Fails
                         ELSE o.read[s]
  BY <1>1, <1>2 DEF MessageCodec, Arm
<1>3. PICK d : d = h.read[Tail(s)]
  OBVIOUS
<1>4. ~Fails.ok
  BY YieldsFields
<1> QED BY <1>1, <1>2, <1>3, <1>4

LEMMA SentHead ==
  ASSUME NEW v \in Values(MessageCodec)
  PROVE  /\ v[1] \in KnownTags /\ MessageCodec.write[v] \in Bytes
         /\ \A s \in Bytes, r \in Bytes :
               s # <<>> /\ MessageCodec.write[v] = s \o r => Head(s) = v[1]
         /\ MessageCodec.write[v] # <<>> /\ Head(MessageCodec.write[v]) = v[1]
<1>1. PICK w, x, b : w = MessageCodec.write[v] /\ x = v[1] /\ b \in Bytes /\ w = <<x>> \o b
  BY MessageFaithful DEF Tagged
<1>2. x \in KnownTags /\ x \in Nat /\ w \in Bytes
  <2>1. x \in KnownTags
    BY <1>1, MessageFaithful DEF Tagged
  <2>2. x \in Nat
    BY <2>1 DEF KnownTags
  <2>3. w \in Bytes
    BY <1>1, MessageFaithful DEF Faithful
  <2> QED BY <2>1, <2>2, <2>3
<1>3. Head(w) = x /\ w # <<>>
  BY <1>1, <1>2, FirstToken
<1>4. ASSUME NEW s \in Bytes, NEW r \in Bytes, s # <<>>, w = s \o r
      PROVE  Head(s) = x
  <2>1. PICK y, t : y = Head(s) /\ t = Tail(s)
    OBVIOUS
  <2>2. y \in Nat /\ t \in Bytes /\ s = <<y>> \o t /\ <<y>> \in Bytes /\ t \o r \in Bytes
    BY <1>4, <2>1, HeadAndTail, FirstToken, Joined
  <2>3. w = <<y>> \o (t \o r)
    <3>1. (<<y>> \o t) \o r = <<y>> \o (t \o r)
      BY ONLY <2>2, r \in Bytes, Associates
    <3> QED BY <1>4, <2>2, <3>1
  <2>4. PICK u : u = t \o r
    OBVIOUS
  <2>5. Head(<<y>> \o u) = y
    BY <2>2, <2>4, FirstToken
  <2> QED BY <1>3, <2>1, <2>3, <2>4, <2>5
<1> QED BY <1>1, <1>2, <1>3, <1>4

\* A message that goes on after its end is understood.
LEMMA LongerMessage ==
  ASSUME NEW v \in Values(MessageCodec), NEW s \in Bytes,
         IsPrefix(MessageCodec.write[v], s)
  PROVE  DecodeMessage(s).ok /\ DecodeMessage(s).value = v
<1>1. PICK w : w = MessageCodec.write[v]
  OBVIOUS
<1>2. w \in Bytes /\ w # <<>> /\ Head(w) = v[1] /\ v[1] \in KnownTags /\ v[1] \in Nat
  BY <1>1, SentHead DEF KnownTags
<1>3. PICK r \in Bytes : s = w \o r
  BY <1>1, <1>2, PrefixExtends
<1>4. MessageCodec.read[s] = Yields(v, r)
  BY <1>1, <1>3, MessageFaithful DEF Faithful
<1>5. s # <<>> /\ Head(s) = Head(w)
  <2>1. PICK x, t : x = Head(w) /\ t = Tail(w)
    OBVIOUS
  <2>2. x \in Nat /\ t \in Bytes /\ w = <<x>> \o t
    BY <1>2, <2>1, HeadAndTail
  <2>3. PICK u : u = t \o r
    OBVIOUS
  <2>4. u \in Bytes
    BY <2>2, <2>3, Joined
  <2>5. s = <<x>> \o u
    <3>1. <<x>> \in Bytes
      BY <2>2, FirstToken
    <3>2. (<<x>> \o t) \o r = <<x>> \o (t \o r)
      BY ONLY <2>2, <3>1, r \in Bytes, Associates
    <3> QED BY <1>3, <2>2, <2>3, <3>2
  <2>6. s # <<>> /\ Head(s) = x
    BY ONLY <2>2, <2>4, <2>5, FirstToken
  <2> QED BY <2>1, <2>6
<1>6. DecodeMessage(s) = Yields(v, r)
  BY <1>2, <1>4, <1>5 DEF DecodeMessage
<1> QED BY ONLY <1>6, YieldsFields

\* A message without its end is refused, but for the nonce of Hello.
LEMMA ShorterMessage ==
  ASSUME NEW v \in Values(MessageCodec), NEW s \in Bytes,
         IsStrictPrefix(s, MessageCodec.write[v]), DecodeMessage(s).ok
  PROVE  v[1] = 1 /\ Len(MessageCodec.write[v]) - Len(s) <= 2
<1>1. PICK w : w = MessageCodec.write[v]
  OBVIOUS
<1>2. w \in Bytes /\ v[1] \in KnownTags /\ v[1] \in Nat
  BY <1>1, SentHead DEF KnownTags
<1>3. PICK x \in Bytes : w = s \o x
  BY <1>1, <1>2, PrefixExtends DEF IsStrictPrefix
<1>4. x # <<>>
  <2>1. s \o <<>> = s /\ s # w
    BY <1>1, NothingFollows DEF IsStrictPrefix
  <2> QED BY <1>3, <2>1
<1>5. s # <<>> => Head(s) = v[1]
  BY <1>1, <1>3, SentHead
<1>6. MessageCodec.read[s].ok
  BY <1>2, <1>5 DEF DecodeMessage
<1>7. s # <<>>
  <2> SUFFICES ASSUME s = <<>> PROVE FALSE
    OBVIOUS
  <2>1. PICK o : o = OtherArms
    OBVIOUS
  <2>2. o.read[s].ok
    BY <1>6, <2>1, MessageReads
  <2>3. Lawful(o) /\ Tagged(o, (1 + 1)..10)
    BY <2>1, OtherArmsLawful DEF Arms
  <2>4. PICK u, r : u = o.read[s].value /\ r = o.read[s].rest
    OBVIOUS
  <2>5. u \in Values(o) /\ r \in Bytes /\ s = o.write[u] \o r
    BY <2>2, <2>3, <2>4 DEF Lawful, Canonical
  <2>6. PICK b \in Bytes : o.write[u] = <<u[1]>> \o b /\ u[1] \in (1 + 1)..10
    BY <2>3, <2>5 DEF Tagged
  <2>7. PICK y : y = u[1]
    OBVIOUS
  <2>8. y \in Nat
    BY <2>6, <2>7
  <2>9. <<y>> \o b \in Bytes /\ Len(<<y>> \o b) = Len(b) + 1
    BY <2>8, FirstToken
  <2>10. PICK z : z = <<y>> \o b
    OBVIOUS
  <2>11. Len(z \o r) = Len(z) + Len(r)
    BY <2>5, <2>9, <2>10, Joined
  <2>12. Len(s) = 0 /\ s = z \o r /\ Len(z) = Len(b) + 1 /\ Len(b) \in Nat /\ Len(r) \in Nat
    BY <2>5, <2>6, <2>7, <2>9, <2>10, Lengths
  <2> QED BY <2>11, <2>12
<1>8. v[1] = 1
  <2> SUFFICES ASSUME v[1] # 1 PROVE FALSE
    OBVIOUS
  <2>1. PICK o : o = OtherArms
    OBVIOUS
  <2>2. v \in Values(o) /\ o.write[v] = s \o x
    BY <1>1, <1>3, <2>1, MessageWrites
  <2>3. o.read[s].ok
    BY <1>5, <1>6, <1>7, <2>1, MessageReads
  <2>4. Lawful(o)
    BY <2>1, OtherArmsLawful DEF Arms
  <2> QED BY <1>4, <2>2, <2>3, <2>4, CutOff
<1>9. PICK t : t = Tail(s)
  OBVIOUS
<1>10. t \in Bytes /\ Len(s) = Len(t) + 1
  BY <1>7, <1>9, HeadAndTail
<1>11. Len(t) >= 4
  <2>1. HelloCodec.read[t].ok
    BY <1>5, <1>6, <1>7, <1>8, <1>9, MessageReads
  <2>2. PICK f, d, e : f = FixedHello /\ d = f.read[t] /\ e = OptionalNonce.read[d.rest]
    OBVIOUS
  <2>3. HelloCodec.read[t] = IF d.ok /\ e.ok THEN Yields(<<d.value, e.value>>, e.rest) ELSE Fails
    <3>1. HelloCodec = f ** OptionalNonce
      BY <2>2 DEF HelloCodec, FixedHello
    <3> QED BY <1>10, <2>2, <3>1 DEF **, Then
  <2>4. d.ok
    BY <2>1, <2>3, YieldsFields
  <2>5. PICK u, r, z : u = d.value /\ r = d.rest /\ z = f.write[u]
    OBVIOUS
  <2>6. u \in Values(f) /\ r \in Bytes /\ t = z \o r
    BY <1>10, <2>2, <2>4, <2>5, FixedHelloLawful DEF Lawful, Canonical
  <2>7. z \in Bytes /\ Len(z) = 4
    BY <2>2, <2>5, <2>6, FixedHelloLawful DEF Width
  <2>8. Len(z \o r) = Len(z) + Len(r) /\ Len(r) \in Nat
    BY <2>6, <2>7, Joined, Lengths
  <2> QED BY <2>6, <2>7, <2>8
<1>12. Len(w) = 7
  <2>1. PICK b : b = HelloCodec.write[v[2]]
    OBVIOUS
  <2>2. w = <<1>> \o b /\ v[2] \in Values(HelloCodec)
    BY <1>1, <1>8, <2>1, MessageWrites
  <2>3. b \in Bytes /\ Len(b) = 6
    BY <2>1, <2>2, HelloFaithful DEF Width
  <2>4. Len(<<1>> \o b) = Len(b) + 1
    BY <2>3, FirstToken
  <2> QED BY <2>2, <2>3, <2>4
<1>13. Len(t) \in Nat
  BY <1>10, Lengths
<1> QED BY <1>1, <1>8, <1>10, <1>11, <1>12, <1>13

LEMMA Edited ==
  ASSUME NEW s \in Bytes, NEW x \in Nat
  PROVE  /\ \A i \in DOMAIN s : [s EXCEPT ![i] = x] \in Bytes /\ RemoveAt(s, i) \in Bytes
         /\ \A i \in 1..(Len(s) + 1) : InsertAt(s, i, x) \in Bytes
<1>1. PICK q : q = Len(s)
  OBVIOUS
<1>2. q \in Nat /\ DOMAIN s = 1..q /\ s \in Seq(Nat)
  BY <1>1 DEF Bytes
<1>3. ASSUME NEW i \in Nat, NEW j \in Nat, 0 < i, i <= j + 1, j <= q
      PROVE  SubSeq(s, i, j) \in Bytes
  <2>1. IsPart(SubSeq(s, i, j), s, i, j)
    BY ONLY s \in Bytes, <1>1, <1>3, Part
  <2> QED BY <2>1 DEF IsPart
<1>4. ASSUME NEW i \in 1..q PROVE [s EXCEPT ![i] = x] \in Bytes /\ RemoveAt(s, i) \in Bytes
  <2>1. [s EXCEPT ![i] = x] \in Bytes
    BY <1>1, <1>2 DEF Bytes
  <2>2. PICK h, k, one : h = i - 1 /\ k = i + 1 /\ one = 1
    OBVIOUS
  <2>3. /\ h \in Nat /\ k \in Nat /\ one \in Nat /\ 0 < one /\ one <= h + 1 /\ h <= q
        /\ 0 < k /\ k <= q + 1 /\ q <= q
    BY <1>2, <2>2
  <2>4. SubSeq(s, one, h) \in Bytes /\ SubSeq(s, k, q) \in Bytes
    BY <1>2, <1>3, <2>3
  <2>5. SubSeq(s, one, h) \o SubSeq(s, k, q) \in Bytes
    BY <2>4, Joined
  <2> QED BY <1>1, <2>1, <2>2, <2>5 DEF RemoveAt
<1>5. ASSUME NEW i \in 1..(q + 1) PROVE InsertAt(s, i, x) \in Bytes
  <2>1. PICK h, one : h = i - 1 /\ one = 1
    OBVIOUS
  <2>2. /\ h \in Nat /\ one \in Nat /\ 0 < one /\ one <= h + 1 /\ h <= q
        /\ i \in Nat /\ 0 < i /\ i <= q + 1 /\ q <= q
    BY <1>2, <2>1
  <2>3. SubSeq(s, one, h) \in Bytes /\ SubSeq(s, i, q) \in Bytes /\ <<x>> \in Bytes
    BY <1>2, <1>3, <2>2, FirstToken
  <2>4. (SubSeq(s, one, h) \o <<x>>) \o SubSeq(s, i, q) \in Bytes
    BY <2>3, Joined
  <2> QED BY <1>1, <2>1, <2>4 DEF InsertAt
<1> QED BY <1>1, <1>2, <1>4, <1>5

\* What was encoded is fixed; a preimage is never edited.
WireInv ==
    /\ edits \in Nat /\ bytes \in Bytes
    /\ \/ origin \in Transfers /\ (edits = 0 => bytes = Codec(origin.as).write[origin.value])
       \/ \E s \in Signed : origin = [as |-> "sighash", value |-> s] /\ bytes = Preimage(s)

LEMMA CodecFaithful ==
  ASSUME NEW as \in {"tx", "block", "message"}
  PROVE  Faithful(Codec(as)) /\ (as # "message" => Lawful(Codec(as)))
<1>1. as = "tx" => Codec(as) = TxCodec
  BY DEF Codec
<1>2. as = "block" => Codec(as) = BlockCodec
  BY DEF Codec
<1>3. as = "message" => Codec(as) = MessageCodec
  BY DEF Codec
<1> QED BY <1>1, <1>2, <1>3, TxLawful, BlockLawful, MessageFaithful DEF Lawful

LEMMA PreimageBytes ==
  ASSUME NEW s \in Signed
  PROVE  Preimage(s) \in Bytes
<1>1. PICK b, i, o : b = BodyCodec.write[s[1]] /\ i = s[2] /\ o = OutputCodec.write[s[3]]
  OBVIOUS
<1>2. b \in Bytes /\ i \in Nat /\ o \in Bytes
  BY <1>1, WireAssumption, BodyLawful, OutputLawful DEF Lawful, Faithful
<1>3. (b \o <<i>>) \o o \in Bytes
  BY <1>2, FirstToken, Joined
<1> QED BY <1>1, <1>3 DEF Preimage

LEMMA WireInitially == WireInit => WireInv
<1> SUFFICES ASSUME WireInit PROVE WireInv
  OBVIOUS
<1>1. CASE origin \in Transfers /\ bytes = Codec(origin.as).write[origin.value]
  <2>1. bytes \in Bytes
    BY <1>1, WireAssumption, CodecFaithful DEF Faithful
  <2> QED BY <1>1, <2>1 DEF WireInit, WireInv
<1>2. CASE \E s \in Signed : origin = [as |-> "sighash", value |-> s] /\ bytes = Preimage(s)
  BY <1>2, PreimageBytes DEF WireInit, WireInv
<1> QED BY <1>1, <1>2 DEF WireInit

LEMMA WireStep == WireInv /\ [Edit]_wireVars => WireInv'
<1> SUFFICES ASSUME WireInv, [Edit]_wireVars PROVE WireInv'
  OBVIOUS
<1>1. CASE Edit
  <2>1. origin \in Transfers /\ origin' = origin /\ edits' = edits + 1 /\ edits \in Nat
    BY <1>1 DEF WireInv, Edit
  <2>2. bytes' \in Bytes
    <3>1. \A x \in Tokens : x \in Nat
      BY WireAssumption
    <3>2. bytes \in Bytes
      BY DEF WireInv
    <3>3. CASE \E i \in DOMAIN bytes, x \in Tokens : bytes' = [bytes EXCEPT ![i] = x]
      BY <3>1, <3>2, <3>3, Edited
    <3>4. CASE \E i \in DOMAIN bytes : bytes' = RemoveAt(bytes, i)
      <4>1. PICK x \in Nat : x = 0
        OBVIOUS
      <4> QED BY <3>2, <3>4, <4>1, Edited
    <3>5. CASE \E i \in 1..(Len(bytes) + 1), x \in Tokens : bytes' = InsertAt(bytes, i, x)
      <4>1. PICK i \in 1..(Len(bytes) + 1), x \in Nat : bytes' = InsertAt(bytes, i, x)
        BY <3>1, <3>5
      <4> QED BY <3>2, <4>1, Edited
    <3> QED BY <1>1, <3>3, <3>4, <3>5 DEF Edit
  <2>3. edits' \in Nat /\ edits' # 0
    BY <2>1
  <2> QED BY <2>1, <2>2, <2>3 DEF WireInv
<1>2. CASE UNCHANGED wireVars
  BY <1>2 DEF WireInv, wireVars
<1> QED BY <1>1, <1>2

LEMMA WireInvariant == WireSpec => []WireInv
BY WireInitially, WireStep, PTL DEF WireSpec

LEMMA SoOneEncoding == WireInv => OneEncoding
<1> SUFFICES ASSUME WireInv, origin.as \in {"tx", "block"} PROVE OneEncoding
  BY DEF OneEncoding
<1>1. /\ origin \in Transfers /\ bytes \in Bytes
      /\ edits = 0 => bytes = Codec(origin.as).write[origin.value]
  BY DEF WireInv
<1>2. PICK c, v : c = Codec(origin.as) /\ v = origin.value
  OBVIOUS
<1>3. Lawful(c) /\ v \in Values(c)
  BY <1>1, <1>2, WireAssumption, CodecFaithful
<1>4. /\ edits = 0 => DecodeAll(c, bytes).ok /\ DecodeAll(c, bytes).value = v
      /\ DecodeAll(c, bytes).ok => c.write[DecodeAll(c, bytes).value] = bytes
  BY <1>1, <1>2, <1>3, DecodesAll
<1> QED BY <1>2, <1>4 DEF OneEncoding

LEMMA SoForward == WireInv => ForwardCompatible
<1> SUFFICES ASSUME WireInv, origin.as = "message" PROVE ForwardCompatible
  BY DEF ForwardCompatible
<1>1. origin \in Transfers /\ bytes \in Bytes
  BY DEF WireInv
<1>2. Codec(origin.as) = MessageCodec
  BY DEF Codec
<1>3. PICK v : v = origin.value
  OBVIOUS
<1>4. v \in Values(MessageCodec)
  BY <1>1, <1>2, <1>3, WireAssumption
<1>5. IsPrefix(MessageCodec.write[v], bytes)
        => DecodeMessage(bytes).ok /\ DecodeMessage(bytes).value = v
  BY <1>1, <1>4, LongerMessage
<1>6. IsStrictPrefix(bytes, MessageCodec.write[v]) /\ DecodeMessage(bytes).ok
        => v[1] = 1 /\ Len(MessageCodec.write[v]) - Len(bytes) <= 2
  BY <1>1, <1>4, ShorterMessage
<1> QED BY <1>3, <1>5, <1>6 DEF ForwardCompatible

LEMMA SoBinds == WireInv => SighashBinds
<1> SUFFICES ASSUME WireInv, origin.as = "sighash", NEW s \in Signed, Preimage(s) = bytes
             PROVE  s = origin.value
  BY DEF SighashBinds
<1>1. PICK t \in Signed : origin = [as |-> "sighash", value |-> t] /\ bytes = Preimage(t)
  BY WireAssumption DEF WireInv
<1>2. s = t
  BY <1>1, WireAssumption, PreimageInjective
<1> QED BY <1>1, <1>2

\* Whatever is edited: what was encoded is decoded again, and what decode_all
\* accepts as a transaction or a block is the encoding of what it returns
\* (core/src/encode.rs, core/src/tx.rs, core/src/block.rs).
THEOREM OneForm == WireSpec => []OneEncoding
BY WireInvariant, SoOneEncoding, PTL

\* A message with further fields is read as the message it starts with, and
\* one that lost its end is refused, but for Hello's nonce (net/src/message.rs).
THEOREM NewerUnderstood == WireSpec => []ForwardCompatible
BY WireInvariant, SoForward, PTL

\* No two of a body, an input index and an output that differ are hashed from
\* the same bytes by sighash (core/src/tx.rs).
THEOREM SignatureBinds == WireSpec => []SighashBinds
BY WireInvariant, SoBinds, PTL
=============================================================================
