------------------------------ MODULE CrcProofs ------------------------------
(* The three forms of the code agree, for every width, polynomial and           *)
(* reflection, and names that differ in one window get different checksums.     *)

EXTENDS Crc, FlattenLemmas, TLAPS

-----------------------------------------------------------------------------
(* Bits of registers.                                                           *)

\* What a register may hold.
Held == SUBSET (0 .. Digits - 1)

\* Only the bits of the code tell two registers apart.
Alike(x, y) == \A i \in 0 .. Bits - 1 : i \in x <=> i \in y

\* d holds the bits of the code in which x and y differ.
Differ(d, x, y) == \A i \in 0 .. Bits - 1 : i \in d <=> ~(i \in x <=> i \in y)

LEMMA Widths ==
  /\ Bits \in Nat /\ CharBit \in Nat /\ Digits \in Nat
  /\ 1 <= Bits /\ 1 <= CharBit /\ Bits <= Digits /\ CharBit <= Digits
BY WidthAssumption

LEMMA XorHas ==
  ASSUME NEW x, NEW y, NEW i
  PROVE  i \in Xor(x, y) <=> ~(i \in x <=> i \in y)
BY DEF Xor

LEMMA LeftHas ==
  ASSUME NEW x \in Held, NEW n \in Nat, NEW i \in 0 .. Digits - 1
  PROVE  i \in ShiftLeft(x, n) <=> i - n \in x
<1>1. ASSUME i - n \in x PROVE i \in {k + n : k \in x}
  <2>1. i = (i - n) + n
    BY Widths
  <2> QED
    BY <1>1, <2>1
<1>2. ASSUME i \in {k + n : k \in x} PROVE i - n \in x
  <2>1. PICK k \in x : i = k + n
    BY <1>2
  <2>2. k \in Int /\ i - n = k
    BY <2>1 DEF Held
  <2> QED
    BY <2>2
<1> QED
  BY <1>1, <1>2 DEF ShiftLeft

LEMMA LeftHeld ==
  ASSUME NEW x, NEW n
  PROVE  ShiftLeft(x, n) \in Held
BY DEF ShiftLeft, Held

LEMMA RightHas ==
  ASSUME NEW x \in Held, NEW n \in Nat, NEW i \in Nat
  PROVE  i \in ShiftRight(x, n) <=> i + n \in x
<1>1. ASSUME i + n \in x PROVE i \in ShiftRight(x, n)
  <2>1. i + n \in {k \in x : k >= n} /\ i = (i + n) - n
    BY <1>1
  <2> QED
    BY <2>1 DEF ShiftRight
<1>2. ASSUME i \in ShiftRight(x, n) PROVE i + n \in x
  <2>1. PICK k \in x : k >= n /\ i = k - n
    BY <1>2 DEF ShiftRight
  <2>2. k \in Int /\ i + n = k
    BY <2>1 DEF Held
  <2> QED
    BY <2>2
<1> QED
  BY <1>1, <1>2

LEMMA RightBounds ==
  ASSUME NEW m \in Nat, NEW x \in SUBSET (0 .. m - 1), NEW n \in Nat
  PROVE  ShiftRight(x, n) \in SUBSET (0 .. m - 1)
<1> SUFFICES ASSUME NEW i \in ShiftRight(x, n) PROVE i \in 0 .. m - 1
  OBVIOUS
<1>1. PICK k \in x : k >= n /\ i = k - n
  BY DEF ShiftRight
<1> QED
  BY <1>1

LEMMA ReflectHas ==
  ASSUME NEW x, NEW n \in Nat, NEW i \in 0 .. n - 1
  PROVE  i \in Reflect(n, x) <=> n - 1 - i \in x
<1>1. ASSUME n - 1 - i \in x PROVE i \in Reflect(n, x)
  <2>1. n - 1 - i \in x \cap 0 .. n - 1 /\ i = n - 1 - (n - 1 - i)
    BY <1>1
  <2> QED
    BY <2>1 DEF Reflect
<1>2. ASSUME i \in Reflect(n, x) PROVE n - 1 - i \in x
  <2>1. PICK k \in x \cap 0 .. n - 1 : i = n - 1 - k
    BY <1>2 DEF Reflect
  <2>2. n - 1 - i = k
    BY <2>1
  <2> QED
    BY <2>1, <2>2
<1> QED
  BY <1>1, <1>2

LEMMA ReflectBounds ==
  ASSUME NEW x, NEW n \in Nat
  PROVE  Reflect(n, x) \in SUBSET (0 .. n - 1)
BY DEF Reflect

-----------------------------------------------------------------------------
(* Bits fed to a register one by one.                                           *)

\* The steps of a function that is defined by recursion up to n.
Steps(next, n, S) == next \in [1 .. n -> [S -> S]]

Takes(f, next, first, n, S) ==
  /\ f \in [0 .. n -> S] /\ f[0] = first
  /\ \A k \in 1 .. n : f[k] = next[k][f[k - 1]]

LEMMA Recursion ==
  ASSUME NEW n \in Nat, NEW S, NEW first \in S, NEW next, Steps(next, n, S)
  PROVE  \E f : Takes(f, next, first, n, S)
<1>0. next \in [1 .. n -> [S -> S]]
  BY DEF Steps
<1> DEFINE Until(m, f) == /\ f \in [0 .. m -> S] /\ f[0] = first
                          /\ \A k \in 1 .. m : f[k] = next[k][f[k - 1]]
           Good == {m \in 0 .. n : \E f : Until(m, f)}
<1>1. 0 \in Good
  <2> DEFINE start == [k \in 0 .. 0 |-> first]
  <2>1. Until(0, start)
    OBVIOUS
  <2> HIDE DEF start
  <2>2. \E f : Until(0, f)
    <3> HIDE DEF Until
    <3> QED
      BY <2>1
  <2> QED
    BY <2>2
<1>2. ASSUME NEW m \in Nat, m < n, m \in Good PROVE m + 1 \in Good
  <2>1. PICK f : Until(m, f)
    BY <1>2
  <2>2. m + 1 \in 1 .. n /\ m \in 0 .. m /\ f[m] \in S
    BY <1>2, <2>1
  <2> DEFINE g == [k \in 0 .. m + 1 |-> IF k <= m THEN f[k] ELSE next[m + 1][f[m]]]
  <2>3. next[m + 1][f[m]] \in S
    BY <1>0, <2>2
  <2>4. g \in [0 .. m + 1 -> S] /\ g[0] = first
    BY <2>1, <2>3
  <2>5. ASSUME NEW k \in 1 .. m + 1 PROVE g[k] = next[k][g[k - 1]]
    <3>1. k - 1 \in 0 .. m /\ g[k - 1] = f[k - 1]
      BY <2>5
    <3>2. CASE k = m + 1
      BY <3>1, <3>2
    <3>3. CASE k # m + 1
      <4>1. k \in 1 .. m /\ g[k] = f[k]
        BY <2>5, <3>3
      <4> QED
        BY <2>1, <3>1, <4>1
    <3> QED
      BY <3>2, <3>3
  <2>6. Until(m + 1, g)
    BY <2>4, <2>5
  <2> HIDE DEF g
  <2>7. \E h : Until(m + 1, h)
    <3> HIDE DEF Until
    <3> QED
      BY <2>6
  <2>8. m + 1 \in 0 .. n
    BY <2>2
  <2> QED
    BY <2>7, <2>8
<1>3. n \in Good
  <2> HIDE DEF Good
  <2>1. \A i \in 0 .. n : i \in Good
    BY <1>1, <1>2, Induction
  <2> QED
    BY <2>1
<1> QED
  BY <1>3 DEF Takes

\* One step: the bits move up, and the polynomial is added if a one fell out.
Stepped(poly, x, bit, y) ==
  \A i \in 0 .. Bits - 1 :
    i \in y <=> ~(i - 1 \in x <=> (i \in poly /\ ~(Bits - 1 \in x <=> bit)))

LEMMA OneBit ==
  ASSUME NEW poly \in Values, NEW x \in Held, NEW j, NEW bits
  PROVE  /\ ProcessBit(poly, x, j \in bits) \in Held
         /\ Stepped(poly, x, j \in bits, ProcessBit(poly, x, j \in bits))
<1> DEFINE bit == j \in bits
           compared == IF bit THEN Xor(x, {Bits - 1}) ELSE x
           shifted == ShiftLeft(compared, 1)
           y == IF Bits - 1 \in compared THEN Xor(shifted, poly) ELSE shifted
<1>1. ProcessBit(poly, x, j \in bits) = y
  BY DEF ProcessBit
<1>2. compared \in Held
  BY Widths DEF Xor, Held
<1>3. Bits - 1 \in compared <=> ~(Bits - 1 \in x <=> bit)
  BY XorHas
<1>4. ASSUME NEW i \in 0 .. Bits - 1 PROVE i - 1 \in compared <=> i - 1 \in x
  <2>1. i - 1 # Bits - 1
    BY Widths
  <2> QED
    BY <2>1, XorHas
<1> HIDE DEF compared
<1>5. ASSUME NEW i \in 0 .. Bits - 1 PROVE i \in shifted <=> i - 1 \in compared
  <2>1. i \in 0 .. Digits - 1
    BY Widths
  <2> QED
    BY <1>2, <2>1, LeftHas
<1>6. shifted \in Held
  BY LeftHeld
<1> HIDE DEF shifted
<1>7. y \in Held
  BY <1>6, Widths DEF Xor, Held, Values
<1>8. ASSUME NEW i \in 0 .. Bits - 1
      PROVE  i \in y <=> ~(i \in shifted <=> (i \in poly /\ Bits - 1 \in compared))
  BY XorHas
<1> HIDE DEF y
<1>9. Stepped(poly, x, bit, y)
  BY <1>3, <1>4, <1>5, <1>8 DEF Stepped
<1> QED
  BY <1>1, <1>7, <1>9

\* The n lower bits of a set are fed to a register, from the upper one down.
Fed(poly, x, bits, n) ==
  LET fed[k \in 0 .. n] == IF k = 0 THEN x ELSE ProcessBit(poly, fed[k - 1], n - k \in bits)
  IN  fed[n]

\* The registers on the way.
Run(f, poly, x, bits, n) ==
  /\ f \in [0 .. n -> Held] /\ f[0] = x
  /\ \A k \in 1 .. n : f[k] = ProcessBit(poly, f[k - 1], n - k \in bits)

IsFed(f, poly, x, bits, n) ==
  f = [k \in 0 .. n |-> IF k = 0 THEN x ELSE ProcessBit(poly, f[k - 1], n - k \in bits)]

LEMMA RunExists ==
  ASSUME NEW poly \in Values, NEW x \in Held, NEW bits, NEW n \in Nat
  PROVE  \E f : Run(f, poly, x, bits, n)
<1> DEFINE next == [k \in 1 .. n |-> [r \in Held |-> ProcessBit(poly, r, n - k \in bits)]]
<1>1. \A k \in 1 .. n : \A r \in Held : ProcessBit(poly, r, n - k \in bits) \in Held
  BY OneBit
<1>2. next \in [1 .. n -> [Held -> Held]]
  BY <1>1
<1>3. \A k \in 1 .. n : \A r \in Held : next[k][r] = ProcessBit(poly, r, n - k \in bits)
  OBVIOUS
<1> HIDE DEF next
<1>4. PICK f : Takes(f, next, x, n, Held)
  BY <1>2, Recursion DEF Steps
<1>5. ASSUME NEW k \in 1 .. n PROVE f[k] = ProcessBit(poly, f[k - 1], n - k \in bits)
  <2>1. k - 1 \in 0 .. n
    BY <1>5
  <2> QED
    BY <1>3, <1>4, <2>1 DEF Takes
<1>6. Run(f, poly, x, bits, n)
  BY <1>4, <1>5 DEF Run, Takes
<1> QED
  BY <1>6

LEMMA FedRuns ==
  ASSUME NEW poly \in Values, NEW x \in Held, NEW bits, NEW n \in Nat
  PROVE  \E f : Run(f, poly, x, bits, n) /\ f[n] = Fed(poly, x, bits, n)
<1> DEFINE fed == CHOOSE f : IsFed(f, poly, x, bits, n)
<1>1. PICK g : Run(g, poly, x, bits, n)
  BY RunExists
<1>2. IsFed(g, poly, x, bits, n)
  <2>1. g \in [0 .. n -> Held] /\ g[0] = x
    BY <1>1 DEF Run
  <2>2. \A k \in 0 .. n :
          g[k] = IF k = 0 THEN x ELSE ProcessBit(poly, g[k - 1], n - k \in bits)
    BY <1>1 DEF Run
  <2>3. g = [k \in 0 .. n |-> g[k]]
    BY <2>1
  <2> QED
    BY <2>2, <2>3 DEF IsFed
<1>3. IsFed(fed, poly, x, bits, n)
  BY <1>2
<1>4. Fed(poly, x, bits, n) = fed[n]
  BY DEF Fed, IsFed
<1> HIDE DEF fed
<1>5. \A k \in 0 .. n :
        fed[k] = IF k = 0 THEN x ELSE ProcessBit(poly, fed[k - 1], n - k \in bits)
  BY <1>3 DEF IsFed
<1> DEFINE Good == {k \in 0 .. n : fed[k] \in Held}
<1>6. 0 \in Good
  BY <1>5
<1>7. ASSUME NEW k \in Nat, k < n, k \in Good PROVE k + 1 \in Good
  <2>1. k + 1 \in 0 .. n /\ k + 1 # 0 /\ (k + 1) - 1 = k
    BY <1>7
  <2>2. fed[k + 1] = ProcessBit(poly, fed[k], n - (k + 1) \in bits)
    BY <1>5, <2>1
  <2>3. fed[k + 1] \in Held
    BY <1>7, <2>2, OneBit
  <2> QED
    BY <2>1, <2>3
<1>8. \A k \in 0 .. n : fed[k] \in Held
  <2> HIDE DEF Good
  <2>1. \A k \in 0 .. n : k \in Good
    BY <1>6, <1>7, Induction
  <2> QED
    BY <2>1 DEF Good
<1>9. fed = [k \in 0 .. n |-> fed[k]]
  BY <1>3 DEF IsFed
<1>10. fed \in [0 .. n -> Held]
  BY <1>8, <1>9
<1>11. Run(fed, poly, x, bits, n)
  BY <1>5, <1>10 DEF Run
<1> QED
  BY <1>4, <1>11

\* A byte of the bitwise code is CharBit steps.
LEMMA BitsAreFed ==
  ASSUME NEW poly, NEW x, NEW byte
  PROVE  ProcessBits(poly, x, byte) = Fed(poly, x, byte, CharBit)
BY DEF ProcessBits, Fed

LEMMA RunSteps ==
  ASSUME NEW poly \in Values, NEW x \in Held, NEW bits, NEW n \in Nat,
         NEW f, Run(f, poly, x, bits, n), NEW k \in Nat, k < n
  PROVE  /\ f[k] \in Held /\ f[k + 1] \in Held
         /\ Stepped(poly, f[k], n - 1 - k \in bits, f[k + 1])
<1>1. k + 1 \in 1 .. n /\ k \in 0 .. n /\ k + 1 \in 0 .. n
      /\ (k + 1) - 1 = k /\ n - (k + 1) = n - 1 - k
  OBVIOUS
<1>2. f[k] \in Held /\ f[k + 1] \in Held
  BY <1>1 DEF Run
<1>3. f[k + 1] = ProcessBit(poly, f[k], n - 1 - k \in bits)
  <2>1. f[k + 1] = ProcessBit(poly, f[(k + 1) - 1], n - (k + 1) \in bits)
    BY <1>1 DEF Run
  <2> QED
    BY <1>1, <2>1
<1> QED
  BY <1>2, <1>3, OneBit

LEMMA FedHeld ==
  ASSUME NEW poly \in Values, NEW x \in Held, NEW bits, NEW n \in Nat
  PROVE  Fed(poly, x, bits, n) \in Held
<1>1. PICK f : Run(f, poly, x, bits, n) /\ f[n] = Fed(poly, x, bits, n)
  BY FedRuns
<1> QED
  BY <1>1 DEF Run

\* No bit is below the lowest.
LEMMA BelowHeld ==
  ASSUME NEW x \in Held, NEW i \in Int, i < 0
  PROVE  i \notin x
BY DEF Held

\* A step is linear.
LEMMA StepDiffers ==
  ASSUME NEW poly \in Values, NEW x \in Held, NEW y \in Held, NEW z \in Held,
         NEW p, NEW q, NEW r, NEW a, NEW b, NEW c, NEW j,
         Stepped(poly, x, j \in a, p), Stepped(poly, y, j \in b, q), Stepped(poly, z, j \in c, r),
         Differ(z, x, y), j \in c <=> ~(j \in a <=> j \in b)
  PROVE  Differ(r, p, q)
<1> SUFFICES ASSUME NEW i \in 0 .. Bits - 1 PROVE i \in r <=> ~(i \in p <=> i \in q)
  BY DEF Differ
<1>1. Bits - 1 \in z <=> ~(Bits - 1 \in x <=> Bits - 1 \in y)
  BY Widths DEF Differ
<1>2. i - 1 \in z <=> ~(i - 1 \in x <=> i - 1 \in y)
  <2>1. CASE i = 0
    <3>1. i - 1 \in Int /\ i - 1 < 0
      BY <2>1
    <3>2. i - 1 \notin x /\ i - 1 \notin y /\ i - 1 \notin z
      BY <3>1, BelowHeld
    <3> QED
      BY <3>2
  <2>2. CASE i # 0
    <3>1. i - 1 \in 0 .. Bits - 1
      BY <2>2, Widths
    <3> QED
      BY <3>1 DEF Differ
  <2> QED
    BY <2>1, <2>2
<1>3. /\ i \in p <=> ~(i - 1 \in x <=> (i \in poly /\ ~(Bits - 1 \in x <=> j \in a)))
      /\ i \in q <=> ~(i - 1 \in y <=> (i \in poly /\ ~(Bits - 1 \in y <=> j \in b)))
      /\ i \in r <=> ~(i - 1 \in z <=> (i \in poly /\ ~(Bits - 1 \in z <=> j \in c)))
  BY DEF Stepped
<1> QED
  BY <1>1, <1>2, <1>3

\* The codes are linear: what differs is fed to the difference.
LEMMA FedDiffers ==
  ASSUME NEW poly \in Values, NEW x \in Held, NEW y \in Held, NEW z \in Held,
         NEW n \in Nat, NEW a, NEW b, NEW c,
         Differ(z, x, y), \A j \in 0 .. n - 1 : j \in c <=> ~(j \in a <=> j \in b)
  PROVE  Differ(Fed(poly, z, c, n), Fed(poly, x, a, n), Fed(poly, y, b, n))
<1>1. PICK f : Run(f, poly, x, a, n) /\ f[n] = Fed(poly, x, a, n)
  BY FedRuns
<1>2. PICK g : Run(g, poly, y, b, n) /\ g[n] = Fed(poly, y, b, n)
  BY FedRuns
<1>3. PICK h : Run(h, poly, z, c, n) /\ h[n] = Fed(poly, z, c, n)
  BY FedRuns
<1> DEFINE Good == {k \in 0 .. n : Differ(h[k], f[k], g[k])}
<1>4. 0 \in Good
  BY <1>1, <1>2, <1>3 DEF Run
<1>5. ASSUME NEW k \in Nat, k < n, k \in Good PROVE k + 1 \in Good
  <2>1. n - 1 - k \in 0 .. n - 1 /\ k + 1 \in 0 .. n
    BY <1>5
  <2>2. /\ f[k] \in Held /\ f[k + 1] \in Held
        /\ Stepped(poly, f[k], n - 1 - k \in a, f[k + 1])
    BY <1>1, <1>5, RunSteps
  <2>3. /\ g[k] \in Held /\ g[k + 1] \in Held
        /\ Stepped(poly, g[k], n - 1 - k \in b, g[k + 1])
    BY <1>2, <1>5, RunSteps
  <2>4. /\ h[k] \in Held /\ h[k + 1] \in Held
        /\ Stepped(poly, h[k], n - 1 - k \in c, h[k + 1])
    BY <1>3, <1>5, RunSteps
  <2>5. n - 1 - k \in c <=> ~(n - 1 - k \in a <=> n - 1 - k \in b)
    BY <2>1
  <2>6. Differ(h[k], f[k], g[k])
    BY <1>5
  <2>7. Differ(h[k + 1], f[k + 1], g[k + 1])
    BY <2>2, <2>3, <2>4, <2>5, <2>6, StepDiffers
  <2> QED
    BY <2>1, <2>7
<1>6. n \in Good
  <2> HIDE DEF Good
  <2>1. \A k \in 0 .. n : k \in Good
    BY <1>4, <1>5, Induction
  <2> QED
    BY <2>1
<1> QED
  BY <1>1, <1>2, <1>3, <1>6

\* Nothing comes of nothing.
LEMMA FedNothing ==
  ASSUME NEW poly \in Values, NEW n \in Nat
  PROVE  Alike(Fed(poly, {}, {}, n), {})
<1>1. {} \in Held /\ Differ({}, {}, {})
  BY DEF Held, Differ
<1>2. Differ(Fed(poly, {}, {}, n), Fed(poly, {}, {}, n), Fed(poly, {}, {}, n))
  BY <1>1, FedDiffers
<1> QED
  BY <1>2 DEF Differ, Alike

\* Only the bits of the code go into those of the result.
LEMMA FedAlike ==
  ASSUME NEW poly \in Values, NEW x \in Held, NEW y \in Held, NEW n \in Nat, NEW a, NEW b,
         Alike(x, y), \A j \in 0 .. n - 1 : j \in a <=> j \in b
  PROVE  Alike(Fed(poly, x, a, n), Fed(poly, y, b, n))
<1>1. {} \in Held /\ Differ(y, x, {})
  BY DEF Held, Differ, Alike
<1>2. \A j \in 0 .. n - 1 : j \in b <=> ~(j \in a <=> j \in {})
  OBVIOUS
<1>3. Differ(Fed(poly, y, b, n), Fed(poly, x, a, n), Fed(poly, {}, {}, n))
  BY <1>1, <1>2, FedDiffers
<1> QED
  BY <1>3, FedNothing DEF Differ, Alike

LEMMA StepAlike ==
  ASSUME NEW poly \in Values, NEW x \in Held, NEW y \in Held,
         NEW p, NEW q, NEW a, NEW b, NEW j, NEW l,
         Stepped(poly, x, j \in a, p), Stepped(poly, y, l \in b, q),
         Alike(x, y), j \in a <=> l \in b
  PROVE  Alike(p, q)
<1> SUFFICES ASSUME NEW i \in 0 .. Bits - 1 PROVE i \in p <=> i \in q
  BY DEF Alike
<1>1. Bits - 1 \in x <=> Bits - 1 \in y
  BY Widths DEF Alike
<1>2. i - 1 \in x <=> i - 1 \in y
  <2>1. CASE i = 0
    <3>1. i - 1 \in Int /\ i - 1 < 0
      BY <2>1
    <3>2. i - 1 \notin x /\ i - 1 \notin y
      BY <3>1, BelowHeld
    <3> QED
      BY <3>2
  <2>2. CASE i # 0
    <3>1. i - 1 \in 0 .. Bits - 1
      BY <2>2, Widths
    <3> QED
      BY <3>1 DEF Alike
  <2> QED
    BY <2>1, <2>2
<1>3. /\ i \in p <=> ~(i - 1 \in x <=> (i \in poly /\ ~(Bits - 1 \in x <=> j \in a)))
      /\ i \in q <=> ~(i - 1 \in y <=> (i \in poly /\ ~(Bits - 1 \in y <=> l \in b)))
  BY DEF Stepped
<1> QED
  BY <1>1, <1>2, <1>3

\* Feeding n bits and then m is feeding n + m.
LEMMA FedJoins ==
  ASSUME NEW poly \in Values, NEW x \in Held, NEW n \in Nat, NEW m \in Nat,
         NEW a, NEW b, NEW c,
         \A j \in 0 .. n - 1 : j + m \in c <=> j \in a,
         \A j \in 0 .. m - 1 : j \in c <=> j \in b
  PROVE  Alike(Fed(poly, x, c, n + m), Fed(poly, Fed(poly, x, a, n), b, m))
<1> DEFINE y == Fed(poly, x, a, n)
           N == n + m
<1>1. y \in Held
  BY FedHeld
<1>2. N \in Nat
  OBVIOUS
<1>3. PICK f : Run(f, poly, x, a, n) /\ f[n] = y
  BY FedRuns
<1> HIDE DEF y, N
<1>4. PICK g : Run(g, poly, y, b, m) /\ g[m] = Fed(poly, y, b, m)
  BY <1>1, FedRuns
<1>5. PICK h : Run(h, poly, x, c, N) /\ h[N] = Fed(poly, x, c, N)
  BY <1>2, FedRuns
<1>6. Alike(h[n], f[n])
  <2> DEFINE Good == {k \in 0 .. n : Alike(h[k], f[k])}
  <2>1. 0 \in Good
    BY <1>3, <1>5 DEF Run, Alike
  <2>2. ASSUME NEW k \in Nat, k < n, k \in Good PROVE k + 1 \in Good
    <3>1. /\ k + 1 \in 0 .. n /\ k < N /\ n - 1 - k \in 0 .. n - 1
          /\ N - 1 - k = (n - 1 - k) + m
      BY <2>2 DEF N
    <3>2. /\ f[k] \in Held
          /\ Stepped(poly, f[k], n - 1 - k \in a, f[k + 1])
      BY <1>3, <2>2, RunSteps
    <3>3. /\ h[k] \in Held
          /\ Stepped(poly, h[k], N - 1 - k \in c, h[k + 1])
      BY <1>2, <1>5, <3>1, RunSteps
    <3>4. N - 1 - k \in c <=> n - 1 - k \in a
      BY <3>1
    <3>5. Alike(h[k], f[k])
      BY <2>2
    <3>6. Alike(h[k + 1], f[k + 1])
      BY <3>2, <3>3, <3>4, <3>5, StepAlike
    <3> QED
      BY <3>1, <3>6
  <2> HIDE DEF Good
  <2>3. \A k \in 0 .. n : k \in Good
    BY <2>1, <2>2, Induction
  <2> QED
    BY <2>3 DEF Good
<1>7. Alike(h[n + m], g[m])
  <2> DEFINE Good == {k \in 0 .. m : Alike(h[n + k], g[k])}
  <2>1. 0 \in Good
    <3>1. n + 0 = n /\ g[0] = f[n]
      BY <1>3, <1>4 DEF Run
    <3> QED
      BY <1>6, <3>1
  <2>2. ASSUME NEW k \in Nat, k < m, k \in Good PROVE k + 1 \in Good
    <3>1. /\ k + 1 \in 0 .. m /\ n + k \in Nat /\ n + k < N /\ m - 1 - k \in 0 .. m - 1
          /\ N - 1 - (n + k) = m - 1 - k /\ (n + k) + 1 = n + (k + 1)
      BY <2>2 DEF N
    <3>2. /\ g[k] \in Held
          /\ Stepped(poly, g[k], m - 1 - k \in b, g[k + 1])
      BY <1>1, <1>4, <2>2, RunSteps
    <3>3. /\ h[n + k] \in Held
          /\ Stepped(poly, h[n + k], N - 1 - (n + k) \in c, h[(n + k) + 1])
      BY <1>2, <1>5, <3>1, RunSteps
    <3>4. N - 1 - (n + k) \in c <=> m - 1 - k \in b
      BY <3>1
    <3>5. Alike(h[n + k], g[k])
      BY <2>2
    <3>6. Alike(h[(n + k) + 1], g[k + 1])
      BY <3>2, <3>3, <3>4, <3>5, StepAlike
    <3> QED
      BY <3>1, <3>6
  <2> HIDE DEF Good
  <2>3. \A k \in 0 .. m : k \in Good
    BY <2>1, <2>2, Induction
  <2> QED
    BY <2>3 DEF Good
<1> QED
  BY <1>4, <1>5, <1>7 DEF y, N

\* What a register holds above can be fed with the bits: the trick of the table.
LEMMA FedShifts ==
  ASSUME NEW poly \in Values, NEW x \in Held, NEW n \in Nat, NEW b, NEW index,
         \A k \in 0 .. n - 1 :
           n - 1 - k \in index <=> ~(n - 1 - k \in b <=> Bits - 1 - k \in x)
  PROVE  \A i \in 0 .. Bits - 1 :
           i \in Fed(poly, x, b, n) <=> ~(i \in Fed(poly, {}, index, n) <=> i - n \in x)
<1>1. PICK f : Run(f, poly, x, b, n) /\ f[n] = Fed(poly, x, b, n)
  BY FedRuns
<1>2. {} \in Held
  BY DEF Held
<1>3. PICK t : Run(t, poly, {}, index, n) /\ t[n] = Fed(poly, {}, index, n)
  BY <1>2, FedRuns
<1> DEFINE Moved(k) == \A i \in 0 .. Bits - 1 : i \in f[k] <=> ~(i \in t[k] <=> i - k \in x)
           Good == {k \in 0 .. n : Moved(k)}
<1>4. 0 \in Good
  <2>1. f[0] = x /\ t[0] = {} /\ \A i \in 0 .. Bits - 1 : i - 0 = i
    BY <1>1, <1>3, Widths DEF Run
  <2> QED
    BY <2>1
<1>5. ASSUME NEW k \in Nat, k < n, k \in Good PROVE k + 1 \in Good
  <2>1. k + 1 \in 0 .. n /\ k \in 0 .. n - 1
    BY <1>5
  <2>2. /\ f[k] \in Held
        /\ Stepped(poly, f[k], n - 1 - k \in b, f[k + 1])
    BY <1>1, <1>5, RunSteps
  <2>3. /\ t[k] \in Held
        /\ Stepped(poly, t[k], n - 1 - k \in index, t[k + 1])
    BY <1>2, <1>3, <1>5, RunSteps
  <2>4. Moved(k)
    BY <1>5
  <2>5. ASSUME NEW i \in 0 .. Bits - 1
        PROVE  i \in f[k + 1] <=> ~(i \in t[k + 1] <=> i - (k + 1) \in x)
    <3>1. Bits - 1 \in f[k] <=> ~(Bits - 1 \in t[k] <=> Bits - 1 - k \in x)
      BY <2>4, Widths
    <3>2. i - 1 \in f[k] <=> ~(i - 1 \in t[k] <=> i - (k + 1) \in x)
      <4>1. CASE i = 0
        <5>1. i - 1 \in Int /\ i - 1 < 0 /\ i - (k + 1) \in Int /\ i - (k + 1) < 0
          BY <4>1
        <5>2. i - 1 \notin f[k] /\ i - 1 \notin t[k] /\ i - (k + 1) \notin x
          BY <2>2, <2>3, <5>1, BelowHeld
        <5> QED
          BY <5>2
      <4>2. CASE i # 0
        <5>1. i - 1 \in 0 .. Bits - 1 /\ (i - 1) - k = i - (k + 1)
          BY <4>2, Widths
        <5>2. i - 1 \in f[k] <=> ~(i - 1 \in t[k] <=> (i - 1) - k \in x)
          BY <2>4, <5>1
        <5> QED
          BY <5>1, <5>2
      <4> QED
        BY <4>1, <4>2
    <3>3. n - 1 - k \in index <=> ~(n - 1 - k \in b <=> Bits - 1 - k \in x)
      BY <2>1
    <3>4. /\ i \in f[k + 1] <=> ~(i - 1 \in f[k] <=> (i \in poly /\ ~(Bits - 1 \in f[k] <=> n - 1 - k \in b)))
          /\ i \in t[k + 1] <=> ~(i - 1 \in t[k] <=> (i \in poly /\ ~(Bits - 1 \in t[k] <=> n - 1 - k \in index)))
      BY <2>2, <2>3 DEF Stepped
    <3> QED
      BY <3>1, <3>2, <3>3, <3>4
  <2>6. Moved(k + 1)
    BY <2>5
  <2> QED
    BY <2>1, <2>6
<1>6. Moved(n)
  <2> HIDE DEF Good
  <2>1. \A k \in 0 .. n : k \in Good
    BY <1>4, <1>5, Induction
  <2> QED
    BY <2>1 DEF Good
<1> QED
  BY <1>1, <1>3, <1>6

\* A polynomial with a constant term loses nothing.
LEMMA FedNonzero ==
  ASSUME NEW poly \in Values, 0 \in poly, NEW x \in Held, NEW n \in Nat, ~Alike(x, {})
  PROVE  ~Alike(Fed(poly, x, {}, n), {})
<1>1. PICK f : Run(f, poly, x, {}, n) /\ f[n] = Fed(poly, x, {}, n)
  BY FedRuns
<1> DEFINE Good == {k \in 0 .. n : ~Alike(f[k], {})}
<1>2. 0 \in Good
  BY <1>1 DEF Run
<1>3. ASSUME NEW k \in Nat, k < n, k \in Good PROVE k + 1 \in Good
  <2>1. k + 1 \in 0 .. n
    BY <1>3
  <2>2. /\ f[k] \in Held
        /\ Stepped(poly, f[k], n - 1 - k \in {}, f[k + 1])
    BY <1>1, <1>3, RunSteps
  <2>3. \A i \in 0 .. Bits - 1 :
          i \in f[k + 1] <=> ~(i - 1 \in f[k] <=> (i \in poly /\ Bits - 1 \in f[k]))
    BY <2>2 DEF Stepped
  <2>4. ASSUME Alike(f[k + 1], {}) PROVE FALSE
    <3>1. 0 \in 0 .. Bits - 1 /\ Bits - 1 \in 0 .. Bits - 1
      BY Widths
    <3>2. 0 - 1 \notin f[k]
      BY <2>2, BelowHeld
    <3>3. Bits - 1 \notin f[k]
      BY <2>3, <2>4, <3>1, <3>2 DEF Alike
    <3>4. ASSUME NEW i \in 0 .. Bits - 1 PROVE i \notin f[k]
      <4>1. CASE i = Bits - 1
        BY <3>3, <4>1
      <4>2. CASE i # Bits - 1
        <5>1. i + 1 \in 0 .. Bits - 1 /\ (i + 1) - 1 = i
          BY <4>2, Widths
        <5> QED
          BY <2>3, <2>4, <3>3, <5>1 DEF Alike
      <4> QED
        BY <4>1, <4>2
    <3>5. Alike(f[k], {})
      BY <3>4 DEF Alike
    <3> QED
      BY <1>3, <3>5
  <2> QED
    BY <2>1, <2>4
<1>4. n \in Good
  <2> HIDE DEF Good
  <2>1. \A k \in 0 .. n : k \in Good
    BY <1>2, <1>3, Induction
  <2> QED
    BY <2>1
<1> QED
  BY <1>1, <1>4

-----------------------------------------------------------------------------
(* The table-driven code does what the bitwise one does.                        *)

Types == [poly : Polys, init : Remainders, final : FinalXors,
          reflectIn : BOOLEAN, reflectRem : BOOLEAN]

LEMMA TypeFields ==
  ASSUME NEW t \in Types
  PROVE  /\ t.poly \in Values /\ t.init \in Values /\ t.final \in Values
         /\ t.reflectIn \in BOOLEAN /\ t.reflectRem \in BOOLEAN
BY WidthAssumption DEF Types

LEMMA ValuesHeld ==
  /\ \A x \in Values : x \in Held
  /\ \A x \in Bytes : x \in Held
  /\ {} \in Values /\ {} \in Bytes /\ {} \in Held
BY Widths DEF Values, Bytes, Held

\* The remainder of an optimal code as the bitwise code would hold it.
View(x) == ReflectIf(type.reflectIn, Bits, x)

\* A reflected remainder has no bit above the code.
OptimalHeld == IF type.reflectIn THEN Values ELSE Held

LEMMA TablePlain ==
  ASSUME NEW t \in Types, ~t.reflectIn, NEW index \in Bytes
  PROVE  /\ Table(t)[index] = Fed(t.poly, {}, index, CharBit)
         /\ Table(t)[index] \in Held
<1>1. Table(t)[index] = ProcessBits(t.poly, {}, index)
  BY DEF Table, ReflectIf
<1>2. Fed(t.poly, {}, index, CharBit) \in Held
  BY TypeFields, ValuesHeld, Widths, FedHeld
<1> QED
  BY <1>1, <1>2, BitsAreFed

LEMMA TableReflected ==
  ASSUME NEW t \in Types, t.reflectIn, NEW index \in Bytes
  PROVE  /\ Table(t)[index] \in Values
         /\ \A i \in 0 .. Bits - 1 :
              i \in Table(t)[index] <=>
                Bits - 1 - i \in Fed(t.poly, {}, Reflect(CharBit, index), CharBit)
<1> DEFINE z == Fed(t.poly, {}, Reflect(CharBit, index), CharBit)
<1>1. Table(t)[index] = Reflect(Bits, ProcessBits(t.poly, {}, Reflect(CharBit, index)))
  BY DEF Table, ReflectIf
<1>2. Table(t)[index] = Reflect(Bits, z)
  BY <1>1, BitsAreFed
<1> HIDE DEF z
<1>3. Reflect(Bits, z) \in Values
  BY Widths, ReflectBounds DEF Values
<1>4. \A i \in 0 .. Bits - 1 : i \in Reflect(Bits, z) <=> Bits - 1 - i \in z
  BY Widths, ReflectHas
<1> QED
  BY <1>2, <1>3, <1>4 DEF z

LEMMA IndexPlain ==
  ASSUME ~type.reflectIn, NEW o \in Held, NEW byte \in Bytes
  PROVE  /\ Index(o, byte) \in Bytes
         /\ \A k \in 0 .. CharBit - 1 :
              CharBit - 1 - k \in Index(o, byte) <=>
                ~(CharBit - 1 - k \in byte <=> Bits - 1 - k \in o)
<1> DEFINE upper == IF Bits > CharBit THEN ShiftRight(o, Bits - CharBit)
                    ELSE ShiftLeft(o, CharBit - Bits)
<1>1. Index(o, byte) = Byte(Xor(byte, upper))
  BY DEF Index
<1>2. ASSUME NEW k \in 0 .. CharBit - 1
      PROVE  CharBit - 1 - k \in upper <=> Bits - 1 - k \in o
  <2>1. CASE Bits > CharBit
    <3>1. /\ CharBit - 1 - k \in Nat /\ Bits - CharBit \in Nat
          /\ (CharBit - 1 - k) + (Bits - CharBit) = Bits - 1 - k
      BY <2>1, Widths
    <3>2. CharBit - 1 - k \in ShiftRight(o, Bits - CharBit) <=>
            (CharBit - 1 - k) + (Bits - CharBit) \in o
      BY <3>1, RightHas
    <3> QED
      BY <2>1, <3>1, <3>2
  <2>2. CASE ~(Bits > CharBit)
    <3>1. /\ CharBit - 1 - k \in 0 .. Digits - 1 /\ CharBit - Bits \in Nat
          /\ (CharBit - 1 - k) - (CharBit - Bits) = Bits - 1 - k
      BY <2>2, Widths
    <3>2. CharBit - 1 - k \in ShiftLeft(o, CharBit - Bits) <=>
            (CharBit - 1 - k) - (CharBit - Bits) \in o
      BY <3>1, LeftHas
    <3> QED
      BY <2>2, <3>1, <3>2
  <2> QED
    BY <2>1, <2>2
<1> HIDE DEF upper
<1>3. Index(o, byte) \in Bytes
  BY <1>1 DEF Byte, Bytes
<1>4. ASSUME NEW k \in 0 .. CharBit - 1
      PROVE  CharBit - 1 - k \in Index(o, byte) <=>
               ~(CharBit - 1 - k \in byte <=> Bits - 1 - k \in o)
  <2>1. CharBit - 1 - k \in 0 .. CharBit - 1
    BY Widths
  <2>2. CharBit - 1 - k \in Xor(byte, upper) <=> ~(CharBit - 1 - k \in byte <=> CharBit - 1 - k \in upper)
    BY XorHas
  <2> QED
    BY <1>1, <1>2, <2>1, <2>2 DEF Byte
<1> QED
  BY <1>3, <1>4

LEMMA IndexReflected ==
  ASSUME type.reflectIn, NEW o \in Values, NEW byte \in Bytes
  PROVE  /\ Index(o, byte) \in Bytes
         /\ \A k \in 0 .. CharBit - 1 :
              CharBit - 1 - k \in Reflect(CharBit, Index(o, byte)) <=>
                ~(CharBit - 1 - k \in Reflect(CharBit, byte) <=> Bits - 1 - k \in Reflect(Bits, o))
<1>1. Index(o, byte) = Byte(Xor(byte, o))
  BY DEF Index
<1>2. Index(o, byte) \in Bytes
  BY <1>1 DEF Byte, Bytes
<1>3. ASSUME NEW k \in 0 .. CharBit - 1
      PROVE  CharBit - 1 - k \in Reflect(CharBit, Index(o, byte)) <=>
               ~(CharBit - 1 - k \in Reflect(CharBit, byte) <=> Bits - 1 - k \in Reflect(Bits, o))
  <2>1. /\ CharBit - 1 - k \in 0 .. CharBit - 1
        /\ CharBit - 1 - (CharBit - 1 - k) = k
    BY Widths
  <2>2. CharBit - 1 - k \in Reflect(CharBit, Index(o, byte)) <=> k \in Index(o, byte)
    BY <2>1, Widths, ReflectHas
  <2>3. CharBit - 1 - k \in Reflect(CharBit, byte) <=> k \in byte
    BY <2>1, Widths, ReflectHas
  <2>4. Bits - 1 - k \in Reflect(Bits, o) <=> k \in o
    <3>1. CASE k <= Bits - 1
      <4>1. Bits - 1 - k \in 0 .. Bits - 1 /\ Bits - 1 - (Bits - 1 - k) = k
        BY <3>1, Widths
      <4> QED
        BY <4>1, Widths, ReflectHas
    <3>2. CASE ~(k <= Bits - 1)
      <4>1. k \notin 0 .. Bits - 1 /\ Bits - 1 - k \notin 0 .. Bits - 1
        BY <3>2, Widths
      <4>2. Reflect(Bits, o) \in SUBSET (0 .. Bits - 1)
        BY Widths, ReflectBounds
      <4> QED
        BY <4>1, <4>2 DEF Values
    <3> QED
      BY <3>1, <3>2
  <2>5. k \in Index(o, byte) <=> ~(k \in byte <=> k \in o)
    BY <1>1, XorHas DEF Byte
  <2> QED
    BY <2>2, <2>3, <2>4, <2>5
<1> QED
  BY <1>2, <1>3

\* The bits that the bitwise code takes from a byte.
Input(byte) == ReflectIf(type.reflectIn, CharBit, byte)

LEMMA OptimalPlain ==
  ASSUME type \in Types, ~type.reflectIn, table = Table(type), NEW o \in Held, NEW byte \in Bytes
  PROVE  /\ OptimalByte(o, byte) \in Held
         /\ Alike(OptimalByte(o, byte), Fed(type.poly, o, byte, CharBit))
<1> DEFINE index == Index(o, byte)
           entry == Table(type)[index]
           fed == Fed(type.poly, {}, index, CharBit)
<1>1. index \in Bytes /\ \A k \in 0 .. CharBit - 1 :
        CharBit - 1 - k \in index <=> ~(CharBit - 1 - k \in byte <=> Bits - 1 - k \in o)
  BY IndexPlain
<1>2. OptimalByte(o, byte) = Xor(ShiftLeft(o, CharBit), entry)
  BY DEF OptimalByte, Shift
<1> HIDE DEF index
<1>3. entry = fed /\ entry \in Held
  BY <1>1, TablePlain
<1>4. \A i \in 0 .. Bits - 1 :
        i \in Fed(type.poly, o, byte, CharBit) <=> ~(i \in fed <=> i - CharBit \in o)
  BY <1>1, TypeFields, Widths, FedShifts
<1> HIDE DEF entry, fed
<1>5. ShiftLeft(o, CharBit) \in Held
  BY LeftHeld
<1>6. OptimalByte(o, byte) \in Held
  BY <1>2, <1>3, <1>5 DEF Xor, Held
<1>7. ASSUME NEW i \in 0 .. Bits - 1
      PROVE  i \in OptimalByte(o, byte) <=> i \in Fed(type.poly, o, byte, CharBit)
  <2>1. i \in 0 .. Digits - 1
    BY Widths
  <2>2. i \in ShiftLeft(o, CharBit) <=> i - CharBit \in o
    BY <2>1, Widths, LeftHas
  <2>3. i \in OptimalByte(o, byte) <=> ~(i \in ShiftLeft(o, CharBit) <=> i \in entry)
    BY <1>2, XorHas
  <2> QED
    BY <1>3, <1>4, <2>2, <2>3
<1> QED
  BY <1>6, <1>7 DEF Alike

LEMMA OptimalReflected ==
  ASSUME type \in Types, type.reflectIn, table = Table(type), NEW o \in Values, NEW byte \in Bytes
  PROVE  /\ OptimalByte(o, byte) \in Values
         /\ Alike(Reflect(Bits, OptimalByte(o, byte)),
                  Fed(type.poly, Reflect(Bits, o), Reflect(CharBit, byte), CharBit))
<1> DEFINE index == Index(o, byte)
           entry == Table(type)[index]
           fed == Fed(type.poly, {}, Reflect(CharBit, index), CharBit)
           z == Fed(type.poly, Reflect(Bits, o), Reflect(CharBit, byte), CharBit)
<1>1. index \in Bytes /\ \A k \in 0 .. CharBit - 1 :
        CharBit - 1 - k \in Reflect(CharBit, index) <=>
          ~(CharBit - 1 - k \in Reflect(CharBit, byte) <=> Bits - 1 - k \in Reflect(Bits, o))
  BY IndexReflected
<1>2. OptimalByte(o, byte) = Xor(ShiftRight(o, CharBit), entry)
  BY DEF OptimalByte, Shift
<1> HIDE DEF index
<1>3. entry \in Values /\ \A i \in 0 .. Bits - 1 : i \in entry <=> Bits - 1 - i \in fed
  BY <1>1, TableReflected
<1>4. Reflect(Bits, o) \in Values /\ Reflect(Bits, o) \in Held
  BY Widths, ReflectBounds, ValuesHeld DEF Values
<1>5. \A i \in 0 .. Bits - 1 : i \in z <=> ~(i \in fed <=> i - CharBit \in Reflect(Bits, o))
  BY <1>1, <1>4, TypeFields, Widths, FedShifts
<1> HIDE DEF entry, fed, z
<1>6. ShiftRight(o, CharBit) \in Values
  BY Widths, RightBounds DEF Values
<1>7. OptimalByte(o, byte) \in Values
  BY <1>2, <1>3, <1>6 DEF Xor, Values
<1>8. ASSUME NEW i \in 0 .. Bits - 1
      PROVE  i \in Reflect(Bits, OptimalByte(o, byte)) <=> i \in z
  <2>1. /\ Bits - 1 - i \in 0 .. Bits - 1 /\ Bits - 1 - i \in Nat
        /\ Bits - 1 - (Bits - 1 - i) = i
    BY Widths
  <2>2. i \in Reflect(Bits, OptimalByte(o, byte)) <=> Bits - 1 - i \in OptimalByte(o, byte)
    BY Widths, ReflectHas
  <2>3. Bits - 1 - i \in OptimalByte(o, byte) <=>
          ~(Bits - 1 - i \in ShiftRight(o, CharBit) <=> Bits - 1 - i \in entry)
    BY <1>2, XorHas
  <2>4. Bits - 1 - i \in ShiftRight(o, CharBit) <=> (Bits - 1 - i) + CharBit \in o
    BY <2>1, ValuesHeld, Widths, RightHas
  <2>5. Bits - 1 - i \in entry <=> i \in fed
    BY <1>3, <2>1
  <2>6. i - CharBit \in Reflect(Bits, o) <=> (Bits - 1 - i) + CharBit \in o
    <3>1. CASE CharBit <= i
      <4>1. i - CharBit \in 0 .. Bits - 1 /\ Bits - 1 - (i - CharBit) = (Bits - 1 - i) + CharBit
        BY <3>1, Widths
      <4>2. i - CharBit \in Reflect(Bits, o) <=> Bits - 1 - (i - CharBit) \in o
        BY <4>1, Widths, ReflectHas
      <4> QED
        BY <4>1, <4>2
    <3>2. CASE ~(CharBit <= i)
      <4>1. i - CharBit \notin 0 .. Bits - 1 /\ (Bits - 1 - i) + CharBit \notin 0 .. Bits - 1
        BY <3>2, Widths
      <4> QED
        BY <1>4, <4>1 DEF Values
    <3> QED
      BY <3>1, <3>2
  <2> QED
    BY <1>5, <2>2, <2>3, <2>4, <2>5, <2>6
<1> QED
  BY <1>7, <1>8 DEF Alike, z

\* In the eyes of the bitwise code a byte is taken by its steps.
LEMMA OptimalIsBasic ==
  ASSUME type \in Types, table = Table(type), NEW o \in OptimalHeld, NEW byte \in Bytes
  PROVE  /\ OptimalByte(o, byte) \in OptimalHeld
         /\ View(o) \in Held
         /\ Alike(View(OptimalByte(o, byte)), Fed(type.poly, View(o), Input(byte), CharBit))
<1>1. CASE type.reflectIn
  <2>1. o \in Values
    BY <1>1 DEF OptimalHeld
  <2>2. Reflect(Bits, o) \in Held
    BY Widths, ReflectBounds, ValuesHeld DEF Values
  <2> QED
    BY <1>1, <2>1, <2>2, OptimalReflected DEF OptimalHeld, View, Input, ReflectIf
<1>2. CASE ~type.reflectIn
  <2>1. o \in Held
    BY <1>2 DEF OptimalHeld
  <2> QED
    BY <1>2, <2>1, OptimalPlain DEF OptimalHeld, View, Input, ReflectIf
<1> QED
  BY <1>1, <1>2

\* Alike registers have the same bits of the code.
LEMMA AlikeBits ==
  ASSUME NEW x, NEW y
  PROVE  Alike(x, y) <=> SigBits(x) = SigBits(y)
BY DEF Alike, SigBits

\* The final reflection and the final value keep registers alike, and apart.
LEMMA AlikeReflected ==
  ASSUME NEW x, NEW y
  PROVE  Alike(x, y) <=> Alike(Reflect(Bits, x), Reflect(Bits, y))
<1>1. ASSUME NEW i \in 0 .. Bits - 1
      PROVE  /\ Bits - 1 - i \in 0 .. Bits - 1 /\ Bits - 1 - (Bits - 1 - i) = i
             /\ i \in Reflect(Bits, x) <=> Bits - 1 - i \in x
             /\ i \in Reflect(Bits, y) <=> Bits - 1 - i \in y
  BY Widths, ReflectHas
<1>2. ASSUME Alike(x, y), NEW i \in 0 .. Bits - 1
      PROVE  i \in Reflect(Bits, x) <=> i \in Reflect(Bits, y)
  BY <1>1, <1>2 DEF Alike
<1>3. ASSUME Alike(Reflect(Bits, x), Reflect(Bits, y)), NEW i \in 0 .. Bits - 1
      PROVE  i \in x <=> i \in y
  <2> DEFINE k == Bits - 1 - i
  <2>1. k \in 0 .. Bits - 1 /\ Bits - 1 - k = i
    BY <1>1
  <2> HIDE DEF k
  <2>2. /\ k \in Reflect(Bits, x) <=> Bits - 1 - k \in x
        /\ k \in Reflect(Bits, y) <=> Bits - 1 - k \in y
    BY <1>1, <2>1
  <2> QED
    BY <1>3, <2>1, <2>2 DEF Alike
<1> QED
  BY <1>2, <1>3 DEF Alike

LEMMA AlikeTwice ==
  ASSUME NEW x
  PROVE  Alike(Reflect(Bits, Reflect(Bits, x)), x)
<1> SUFFICES ASSUME NEW i \in 0 .. Bits - 1
             PROVE  i \in Reflect(Bits, Reflect(Bits, x)) <=> i \in x
  BY DEF Alike
<1>1. Bits - 1 - i \in 0 .. Bits - 1 /\ Bits - 1 - (Bits - 1 - i) = i
  BY Widths
<1> QED
  BY <1>1, Widths, ReflectHas

LEMMA AlikeFinal ==
  ASSUME NEW x, NEW y, NEW z
  PROVE  Alike(x, y) <=> SigBits(Xor(x, z)) = SigBits(Xor(y, z))
<1>1. \A i : /\ i \in Xor(x, z) <=> ~(i \in x <=> i \in z)
             /\ i \in Xor(y, z) <=> ~(i \in y <=> i \in z)
  BY XorHas
<1> QED
  BY <1>1, AlikeBits DEF Alike

\* Equal checksums come from alike remainders only.
LEMMA SameChecksum ==
  ASSUME type \in Types, NEW x, NEW y
  PROVE  Alike(View(x), View(y)) <=> OptimalChecksum(x) = OptimalChecksum(y)
<1>1. Alike(View(x), View(y)) <=> Alike(x, y)
  BY AlikeReflected DEF View, ReflectIf
<1> DEFINE r == type.reflectRem # type.reflectIn
<1>2. Alike(x, y) <=> Alike(ReflectIf(r, Bits, x), ReflectIf(r, Bits, y))
  BY AlikeReflected DEF ReflectIf
<1> QED
  BY <1>1, <1>2, AlikeFinal DEF OptimalChecksum

\* The optimal checksum of what is alike to the bitwise code is that of this one.
LEMMA ChecksumOfView ==
  ASSUME type \in Types, NEW x, Alike(View(x), basic)
  PROVE  OptimalChecksum(x) = BasicChecksum
<1>1. type.reflectIn \in BOOLEAN /\ type.reflectRem \in BOOLEAN
  BY TypeFields
<1>2. Alike(ReflectIf(type.reflectRem # type.reflectIn, Bits, x),
            ReflectIf(type.reflectRem, Bits, View(x)))
  BY <1>1, AlikeTwice DEF View, ReflectIf, Alike
<1>3. Alike(ReflectIf(type.reflectRem, Bits, View(x)), ReflectIf(type.reflectRem, Bits, basic))
  BY AlikeReflected DEF ReflectIf
<1>4. Alike(ReflectIf(type.reflectRem # type.reflectIn, Bits, x),
            ReflectIf(type.reflectRem, Bits, basic))
  BY <1>2, <1>3 DEF Alike
<1> QED
  BY <1>4, AlikeFinal DEF OptimalChecksum, BasicChecksum

-----------------------------------------------------------------------------
(* The inductive invariant of the codes.                                        *)

Registers ==
  /\ type \in Types /\ didInit \in BOOLEAN
  /\ didInit => table = Table(type)
  /\ basic \in Held /\ augmented \in Held
  /\ optimal \in OptimalHeld /\ other \in OptimalHeld

\* The two ways to compute the number hold the same remainder.
SameRemainder == Alike(View(optimal), basic)

AgreeInv == Registers /\ SameRemainder

LEMMA InitAgree == Init => AgreeInv
<1> SUFFICES ASSUME Init PROVE AgreeInv
  OBVIOUS
<1>1. type \in Types /\ didInit = FALSE
      /\ basic = {} /\ optimal = {} /\ augmented = {} /\ other = {}
  BY DEF Init, Types
<1>2. {} \in Held /\ {} \in OptimalHeld
  BY ValuesHeld DEF OptimalHeld
<1>3. Reflect(Bits, {}) = {}
  BY DEF Reflect
<1>4. Alike(View({}), {})
  BY <1>3 DEF View, ReflectIf, Alike
<1>5. Registers
  BY <1>1, <1>2 DEF Registers
<1> QED
  BY <1>1, <1>4, <1>5 DEF AgreeInv, SameRemainder

\* The remainders that a code starts with.
LEMMA Started ==
  ASSUME type \in Types, NEW rem \in Values
  PROVE  /\ rem \in Held /\ ReflectIf(type.reflectIn, Bits, rem) \in OptimalHeld
         /\ Alike(View(ReflectIf(type.reflectIn, Bits, rem)), rem)
<1>1. rem \in Held
  BY ValuesHeld
<1>2. Reflect(Bits, rem) \in Values
  BY Widths, ReflectBounds DEF Values
<1>3. Alike(rem, rem)
  BY DEF Alike
<1> QED
  BY <1>1, <1>2, <1>3, AlikeTwice DEF ReflectIf, View, OptimalHeld

\* The constructors and reset() start all codes over.
LEMMA ResetAgree ==
  ASSUME type \in Types, didInit' \in BOOLEAN, didInit' => table' = Table(type),
         type' = type, ResetTo(type.init)
  PROVE  AgreeInv'
<1> DEFINE rem == type.init
           start == ReflectIf(type.reflectIn, Bits, rem)
<1>1. rem \in Values
  BY TypeFields
<1>2. rem \in Held /\ start \in OptimalHeld /\ Alike(View(start), rem)
  BY <1>1, Started
<1>3. basic' = rem /\ augmented' = rem /\ optimal' = start /\ other' = start
  BY DEF ResetTo
<1>4. Registers'
  BY <1>2, <1>3 DEF Registers, OptimalHeld
<1>5. SameRemainder'
  BY <1>2, <1>3 DEF SameRemainder, View
<1> QED
  BY <1>4, <1>5 DEF AgreeInv

\* The bits of a byte, in either order.
LEMMA InputBits ==
  ASSUME NEW byte \in Bytes
  PROVE  Input(byte) \in Bytes /\ Input(byte) \in Held
<1>1. Reflect(CharBit, byte) \in Bytes
  BY Widths, ReflectBounds DEF Bytes
<1> QED
  BY <1>1, ValuesHeld DEF Input, ReflectIf

\* A byte of augmented_crc stays in the register.
LEMMA AugmentedHeld ==
  ASSUME type \in Types, table = Table(type), NEW rem \in Held, NEW byte \in Bytes
  PROVE  AugmentedByte(rem, byte) \in Held
<1> DEFINE index == Byte(ShiftRight(rem, Bits - CharBit))
           entry == table[index]
<1>1. index \in Bytes
  BY DEF Byte, Bytes
<1> HIDE DEF index
<1>2. entry \in Held
  <2>1. CASE type.reflectIn
    BY <1>1, <2>1, TableReflected, ValuesHeld
  <2>2. CASE ~type.reflectIn
    BY <1>1, <2>2, TablePlain
  <2> QED
    BY <2>1, <2>2
<1>3. AugmentedByte(rem, byte) = Xor(ShiftLeft(rem, CharBit) \cup byte, entry)
  BY DEF AugmentedByte, index
<1> HIDE DEF entry
<1>4. ShiftLeft(rem, CharBit) \in Held /\ byte \in Held
  BY LeftHeld, ValuesHeld
<1> QED
  BY <1>2, <1>3, <1>4 DEF Xor, Held

LEMMA BasicIsFed ==
  ASSUME NEW x, NEW byte
  PROVE  BasicByte(x, byte) = Fed(type.poly, x, Input(byte), CharBit)
BY BitsAreFed DEF BasicByte, Input

LEMMA ByteAgree ==
  ASSUME AgreeInv, NEW byte \in Bytes, NEW otherByte \in Bytes, ProcessByte(byte, otherByte)
  PROVE  AgreeInv'
<1>1. /\ type \in Types /\ didInit \in BOOLEAN /\ table = Table(type)
      /\ basic \in Held /\ augmented \in Held
      /\ optimal \in OptimalHeld /\ other \in OptimalHeld
      /\ Alike(View(optimal), basic)
  BY DEF AgreeInv, Registers, SameRemainder, ProcessByte
<1>2. /\ type' = type /\ table' = table /\ didInit' = didInit
      /\ basic' = BasicByte(basic, byte)
      /\ optimal' = OptimalByte(optimal, byte)
      /\ other' = OptimalByte(other, otherByte)
      /\ augmented' = AugmentedByte(augmented, byte) \/ augmented' = augmented
  BY DEF ProcessByte
<1> DEFINE view == View(optimal)
           fed == Fed(type.poly, view, Input(byte), CharBit)
           next == OptimalByte(optimal, byte)
<1>3. /\ next \in OptimalHeld /\ view \in Held
      /\ Alike(View(next), fed)
  BY <1>1, OptimalIsBasic
<1>4. BasicByte(basic, byte) \in Held /\ Alike(fed, BasicByte(basic, byte))
  <2>1. BasicByte(basic, byte) = Fed(type.poly, basic, Input(byte), CharBit)
    BY BasicIsFed
  <2>2. type.poly \in Values /\ CharBit \in Nat
    BY <1>1, TypeFields, Widths
  <2>3. Alike(view, basic)
    BY <1>1
  <2> HIDE DEF view
  <2>4. Fed(type.poly, basic, Input(byte), CharBit) \in Held
    BY <1>1, <2>2, FedHeld
  <2>5. Alike(Fed(type.poly, view, Input(byte), CharBit), Fed(type.poly, basic, Input(byte), CharBit))
    BY <1>1, <1>3, <2>2, <2>3, FedAlike
  <2> QED
    BY <2>1, <2>4, <2>5
<1>5. OptimalByte(other, otherByte) \in OptimalHeld
  BY <1>1, OptimalIsBasic
<1>6. augmented' \in Held
  BY <1>1, <1>2, AugmentedHeld
<1> HIDE DEF next, fed, view
<1>7. Alike(View(next), BasicByte(basic, byte))
  BY <1>3, <1>4 DEF Alike
<1>8. Registers'
  BY <1>1, <1>2, <1>3, <1>4, <1>5, <1>6 DEF Registers, OptimalHeld, next
<1>9. SameRemainder'
  BY <1>2, <1>7 DEF SameRemainder, View, next
<1> QED
  BY <1>8, <1>9 DEF AgreeInv

LEMMA NextAgree == AgreeInv /\ [Next]_vars => AgreeInv'
<1> SUFFICES ASSUME AgreeInv, [Next]_vars PROVE AgreeInv'
  OBVIOUS
<1>1. type \in Types /\ didInit \in BOOLEAN /\ (didInit => table = Table(type))
  BY DEF AgreeInv, Registers
<1>2. CASE Construct
  <2>1. type' = type /\ didInit' \in BOOLEAN /\ table' = Table(type) /\ ResetTo(type.init)
    BY <1>1, <1>2 DEF Construct
  <2> QED
    BY <1>1, <2>1, ResetAgree
<1>3. CASE Reset
  <2>1. type' = type /\ didInit' \in BOOLEAN /\ table' = Table(type) /\ ResetTo(type.init)
    BY <1>1, <1>3 DEF Reset
  <2> QED
    BY <1>1, <2>1, ResetAgree
<1>4. CASE \E byte, otherByte \in Bytes : ProcessByte(byte, otherByte)
  BY <1>4, ByteAgree
<1>5. CASE UNCHANGED vars
  BY <1>5 DEF vars, AgreeInv, Registers, SameRemainder, OptimalHeld, View
<1> QED
  BY <1>2, <1>3, <1>4, <1>5 DEF Next

LEMMA AgreeAlways == Spec => []AgreeInv
BY InitAgree, NextAgree, PTL DEF Spec

LEMMA AgreeImplies == AgreeInv => ChecksumsAgree
<1> SUFFICES ASSUME AgreeInv PROVE ChecksumsAgree
  OBVIOUS
<1>1. type \in Types /\ Alike(View(optimal), basic)
  BY DEF AgreeInv, Registers, SameRemainder
<1>2. OptimalChecksum(optimal) = BasicChecksum
  BY <1>1, ChecksumOfView
<1>3. SigBits(ReflectIf(type.reflectIn, Bits, optimal)) = SigBits(basic)
  BY <1>1, AlikeBits DEF View
<1> QED
  BY <1>2, <1>3 DEF ChecksumsAgree

(* The number of a method does not depend on the way it is computed: the        *)
(* table-driven code agrees with the bitwise one after any bytes                *)
(* (crc.hpp:486-534, 707-802, 953-1012).                                        *)
THEOREM TableIsBitwise == Spec => []ChecksumsAgree
BY AgreeAlways, AgreeImplies, PTL

-----------------------------------------------------------------------------
(* Names that differ in one window.                                             *)

\* What the bytes of the window change is a remainder of these alone.
WindowFed(bits, n) ==
  /\ bits \in SUBSET (0 .. n - 1) /\ bits # {}
  /\ Differ(Fed(type.poly, {}, bits, n), View(optimal), View(other))

NearInv ==
  /\ since \in 0 .. Window
  /\ since = 0 => Alike(View(optimal), View(other))
  /\ since # 0 /\ since < Window =>
       \E bits \in SUBSET (0 .. since * CharBit - 1) : WindowFed(bits, since * CharBit)
  /\ since # 0 /\ 0 \in type.poly => ~Alike(View(optimal), View(other))

LEMMA WindowFits ==
  /\ Window \in Nat
  /\ \A s \in Nat : s <= Window => s * CharBit \in Nat /\ s * CharBit <= Bits
  /\ \A s \in Nat : (s + 1) * CharBit = s * CharBit + CharBit
<1>1. Window \in Nat /\ Window * CharBit <= Bits
  BY Widths DEF Window
<1>2. ASSUME NEW s \in Nat, s <= Window PROVE s * CharBit \in Nat /\ s * CharBit <= Bits
  <2>1. s * CharBit <= Window * CharBit
    BY <1>1, <1>2, Widths
  <2> QED
    BY <1>1, <2>1, Widths
<1>3. \A s \in Nat : (s + 1) * CharBit = s * CharBit + CharBit
  BY Widths
<1> QED
  BY <1>1, <1>2, <1>3

\* As many bits as the code has never cancel out.
LEMMA WindowNonzero ==
  ASSUME NEW poly \in Values, 0 \in poly, NEW n \in Nat, n <= Bits,
         NEW bits \in SUBSET (0 .. n - 1), bits # {}
  PROVE  ~Alike(Fed(poly, {}, bits, n), {})
<1> DEFINE x == {j + (Bits - n) : j \in bits}
           fed == Fed(poly, {}, bits, n)
           moved == Fed(poly, x, {}, n)
<1>1. \A i \in Int : i \in x <=> i - (Bits - n) \in bits
  <2> SUFFICES ASSUME NEW i \in Int PROVE i \in x <=> i - (Bits - n) \in bits
    OBVIOUS
  <2>1. ASSUME i \in x PROVE i - (Bits - n) \in bits
    <3>1. PICK j \in bits : i = j + (Bits - n)
      BY <2>1
    <3>2. j \in Int /\ i - (Bits - n) = j
      BY <3>1, Widths
    <3> QED
      BY <3>2
  <2>2. ASSUME i - (Bits - n) \in bits PROVE i \in x
    <3>1. i = (i - (Bits - n)) + (Bits - n)
      BY Widths
    <3> QED
      BY <2>2, <3>1
  <2> QED
    BY <2>1, <2>2
<1>2. x \in Values /\ x \in Held
  <2>1. ASSUME NEW j \in bits PROVE j + (Bits - n) \in 0 .. Bits - 1
    BY Widths
  <2> QED
    BY <2>1, ValuesHeld DEF Values
<1> HIDE DEF x
<1>3. \A k \in 0 .. n - 1 :
        n - 1 - k \in bits <=> ~(n - 1 - k \in {} <=> Bits - 1 - k \in x)
  <2> SUFFICES ASSUME NEW k \in 0 .. n - 1 PROVE n - 1 - k \in bits <=> Bits - 1 - k \in x
    OBVIOUS
  <2>1. Bits - 1 - k \in Int /\ (Bits - 1 - k) - (Bits - n) = n - 1 - k
    BY Widths
  <2>2. Bits - 1 - k \in x <=> (Bits - 1 - k) - (Bits - n) \in bits
    BY <1>1, <2>1
  <2> QED
    BY <2>1, <2>2
<1>4. \A i \in 0 .. Bits - 1 : i \in moved <=> ~(i \in fed <=> i - n \in x)
  BY <1>2, <1>3, FedShifts
<1>5. ASSUME NEW i \in 0 .. Bits - 1 PROVE i - n \notin x
  <2>1. i - n \in Int /\ (i - n) - (Bits - n) < 0 /\ (i - n) - (Bits - n) \notin 0 .. n - 1
    BY Widths
  <2> QED
    BY <1>1, <2>1
<1>6. Alike(moved, fed)
  <2> HIDE DEF moved, fed
  <2> QED
    BY <1>4, <1>5 DEF Alike
<1>7. ~Alike(x, {})
  <2>1. PICK j \in bits : TRUE
    OBVIOUS
  <2>2. j + (Bits - n) \in 0 .. Bits - 1 /\ (j + (Bits - n)) - (Bits - n) = j
    BY Widths
  <2>3. j + (Bits - n) \in x
    BY <1>1, <2>2
  <2> QED
    BY <2>2, <2>3 DEF Alike
<1>8. ~Alike(moved, {})
  BY <1>2, <1>7, FedNonzero
<1> HIDE DEF moved, fed
<1>9. ~Alike(fed, {})
  BY <1>6, <1>8 DEF Alike
<1> QED
  BY <1>9 DEF fed

\* Registers that differ in something are not alike.
LEMMA DifferIsNotAlike ==
  ASSUME NEW d, NEW x, NEW y, Differ(d, x, y)
  PROVE  Alike(x, y) <=> Alike(d, {})
BY DEF Differ, Alike

\* Different bytes are different bits for the code.
LEMMA InputsDiffer ==
  ASSUME NEW a \in Bytes, NEW b \in Bytes
  PROVE  /\ Xor(Input(a), Input(b)) \in Bytes
         /\ a # b => Xor(Input(a), Input(b)) # {}
<1>1. Input(a) \in Bytes /\ Input(b) \in Bytes
  BY InputBits
<1>2. Xor(Input(a), Input(b)) \in Bytes
  BY <1>1 DEF Xor, Bytes
<1>3. ASSUME a # b PROVE Input(a) # Input(b)
  <2>1. PICK j \in 0 .. CharBit - 1 : ~(j \in a <=> j \in b)
    BY <1>3 DEF Bytes
  <2>2. CASE type.reflectIn
    <3> DEFINE l == CharBit - 1 - j
    <3>1. l \in 0 .. CharBit - 1 /\ CharBit - 1 - l = j
      BY Widths
    <3> HIDE DEF l
    <3>2. (l \in Reflect(CharBit, a) <=> j \in a) /\ (l \in Reflect(CharBit, b) <=> j \in b)
      BY <3>1, Widths, ReflectHas
    <3> QED
      BY <2>1, <2>2, <3>2 DEF Input, ReflectIf
  <2>3. CASE ~type.reflectIn
    BY <1>3, <2>3 DEF Input, ReflectIf
  <2> QED
    BY <2>2, <2>3
<1> QED
  BY <1>2, <1>3 DEF Xor

\* The bits of one byte more follow those of the window.
LEMMA WindowGrows ==
  ASSUME NEW poly \in Values, NEW n \in Nat, NEW bits \in SUBSET (0 .. n - 1),
         NEW more \in Bytes, bits # {} \/ more # {}
  PROVE  \E longer \in SUBSET (0 .. n + CharBit - 1) :
           /\ longer # {}
           /\ Alike(Fed(poly, {}, longer, n + CharBit),
                    Fed(poly, Fed(poly, {}, bits, n), more, CharBit))
<1> DEFINE longer == {j + CharBit : j \in bits} \cup more
<1>1. longer \in SUBSET (0 .. n + CharBit - 1)
  <2>1. \A j \in bits : j + CharBit \in 0 .. n + CharBit - 1
    BY Widths
  <2>2. \A j \in more : j \in 0 .. n + CharBit - 1
    BY Widths DEF Bytes
  <2> QED
    BY <2>1, <2>2
<1>2. longer # {}
  OBVIOUS
<1>3. ASSUME NEW j \in 0 .. n - 1 PROVE j + CharBit \in longer <=> j \in bits
  <2>1. j + CharBit \notin more
    BY Widths DEF Bytes
  <2>2. ASSUME j + CharBit \in longer PROVE j \in bits
    <3>1. PICK k \in bits : j + CharBit = k + CharBit
      BY <2>1, <2>2
    <3>2. j = k
      BY <3>1, Widths
    <3> QED
      BY <3>2
  <2> QED
    BY <2>2
<1>4. ASSUME NEW j \in 0 .. CharBit - 1 PROVE j \in longer <=> j \in more
  <2>1. \A k \in bits : j # k + CharBit
    BY Widths
  <2> QED
    BY <2>1
<1> HIDE DEF longer
<1>5. Alike(Fed(poly, {}, longer, n + CharBit), Fed(poly, Fed(poly, {}, bits, n), more, CharBit))
  <2>1. {} \in Held /\ CharBit \in Nat
    BY ValuesHeld, Widths
  <2> QED
    BY <1>3, <1>4, <2>1, FedJoins
<1> QED
  BY <1>1, <1>2, <1>5

\* The remainders of both names after one byte more.
LEMMA BothFed ==
  ASSUME AgreeInv, NEW byte \in Bytes, NEW otherByte \in Bytes, ProcessByte(byte, otherByte)
  PROVE  /\ View(optimal) \in Held /\ View(other) \in Held
         /\ Alike(View(optimal)', Fed(type.poly, View(optimal), Input(byte), CharBit))
         /\ Alike(View(other)', Fed(type.poly, View(other), Input(otherByte), CharBit))
<1>1. /\ type \in Types /\ table = Table(type)
      /\ optimal \in OptimalHeld /\ other \in OptimalHeld
  BY DEF AgreeInv, Registers, ProcessByte
<1>2. /\ type' = type /\ optimal' = OptimalByte(optimal, byte)
      /\ other' = OptimalByte(other, otherByte)
  BY DEF ProcessByte
<1>3. /\ View(optimal)' = View(OptimalByte(optimal, byte))
      /\ View(other)' = View(OptimalByte(other, otherByte))
  BY <1>2 DEF View
<1> QED
  BY <1>1, <1>3, OptimalIsBasic

LEMMA ByteNear ==
  ASSUME AgreeInv, NearInv, NEW byte \in Bytes, NEW otherByte \in Bytes,
         ProcessByte(byte, otherByte)
  PROVE  NearInv'
<1> DEFINE poly == type.poly
           u == View(optimal)
           w == View(other)
           u1 == View(optimal)'
           w1 == View(other)'
           a == Input(byte)
           b == Input(otherByte)
           more == Xor(a, b)
           fu == Fed(poly, u, a, CharBit)
           fw == Fed(poly, w, b, CharBit)
<1>1. poly \in Values /\ CharBit \in Nat /\ type' = type
  BY TypeFields, Widths DEF AgreeInv, Registers, ProcessByte
<1>2. u \in Held /\ w \in Held /\ Alike(u1, fu) /\ Alike(w1, fw)
  BY BothFed
<1>3. a \in Held /\ b \in Held /\ more \in Bytes /\ (byte # otherByte => more # {})
  BY InputBits, InputsDiffer
<1>4. \A j : j \in more <=> ~(j \in a <=> j \in b)
  BY XorHas
<1>5. byte = otherByte => a = b
  OBVIOUS
<1>6. /\ since \in 0 .. Window
      /\ since = 0 => Alike(u, w)
      /\ since # 0 /\ since < Window =>
           \E bits \in SUBSET (0 .. since * CharBit - 1) : WindowFed(bits, since * CharBit)
      /\ since # 0 /\ 0 \in poly => ~Alike(u, w)
  BY DEF NearInv
<1>7. /\ byte = otherByte \/ since < Window
      /\ since' = IF byte = otherByte /\ since = 0 THEN 0
                  ELSE IF since < Window THEN since + 1 ELSE since
  BY DEF ProcessByte
<1>8. Window \in Nat /\ Window' = Window
  BY WindowFits DEF Window
<1>9. ASSUME NEW bits, NEW n
      PROVE  WindowFed(bits, n) <=>
               /\ bits \in SUBSET (0 .. n - 1) /\ bits # {}
               /\ Differ(Fed(poly, {}, bits, n), u, w)
  BY DEF WindowFed
<1>10. (0 \in poly)' <=> 0 \in poly
  BY <1>1
<1> HIDE DEF poly, u, w, u1, w1, a, b, more, fu, fw
<1>12. CASE byte = otherByte /\ since = 0
  <2>1. since' = 0 /\ Alike(u, w) /\ a = b
    BY <1>5, <1>6, <1>7, <1>12
  <2>2. Alike(fu, fw)
    BY <1>1, <1>2, <2>1, FedAlike DEF fu, fw
  <2>3. Alike(u1, w1)
    BY <1>2, <2>2 DEF Alike
  <2> QED
    BY <1>8, <2>1, <2>3 DEF NearInv, u1, w1
<1>13. CASE since < Window /\ ~(byte = otherByte /\ since = 0)
  <2>1. since' = since + 1
    BY <1>7, <1>13
  <2>2. since \in Nat /\ since + 1 \in Nat /\ since + 1 <= Window /\ since + 1 \in 0 .. Window
    BY <1>6, <1>8, <1>13
  <2>3. PICK n \in Nat :
          n = since * CharBit /\ (since + 1) * CharBit = n + CharBit /\ n + CharBit <= Bits
    <3>1. since * CharBit \in Nat
      BY <1>1, <2>2
    <3> QED
      BY <2>2, <3>1, WindowFits
  <2>4. PICK bits \in SUBSET (0 .. n - 1) :
          /\ since # 0 => bits # {}
          /\ Differ(Fed(poly, {}, bits, n), u, w)
    <3>1. CASE since = 0
      <4>1. n = 0
        BY <2>3, <3>1, Widths
      <4>2. Alike(Fed(poly, {}, {}, 0), {})
        BY <1>1, FedNothing
      <4>3. Differ(Fed(poly, {}, {}, 0), u, w)
        BY <1>6, <3>1, <4>2 DEF Alike, Differ
      <4> QED
        BY <3>1, <4>1, <4>3
    <3>2. CASE since # 0
      <4>1. PICK bits \in SUBSET (0 .. n - 1) : WindowFed(bits, n)
        BY <1>6, <1>13, <2>3, <3>2
      <4> QED
        BY <1>9, <4>1
    <3> QED
      BY <3>1, <3>2
  <2> DEFINE d == Fed(poly, {}, bits, n)
  <2>5. d \in Held
    BY <1>1, <2>3, ValuesHeld, FedHeld
  <2>6. bits # {} \/ more # {}
    BY <1>3, <1>13, <2>4
  <2>7. PICK longer \in SUBSET (0 .. n + CharBit - 1) :
          /\ longer # {}
          /\ Alike(Fed(poly, {}, longer, n + CharBit), Fed(poly, d, more, CharBit))
    BY <1>1, <1>3, <2>3, <2>6, WindowGrows
  <2>8. Differ(Fed(poly, d, more, CharBit), fu, fw)
    <3>1. Differ(d, u, w)
      BY <2>4
    <3> HIDE DEF d
    <3>2. \A j \in 0 .. CharBit - 1 : j \in more <=> ~(j \in a <=> j \in b)
      BY <1>4
    <3> QED
      BY <1>1, <1>2, <2>5, <3>1, <3>2, FedDiffers DEF fu, fw
  <2> DEFINE d1 == Fed(poly, {}, longer, n + CharBit)
             d2 == Fed(poly, d, more, CharBit)
  <2>9. Differ(d1, u1, w1)
    <3>1. Alike(d1, d2) /\ Differ(d2, fu, fw)
      BY <2>7, <2>8
    <3> HIDE DEF d1, d2
    <3> QED
      BY <1>2, <3>1 DEF Alike, Differ
  <2>10. Differ(Fed(type.poly', {}, longer, since' * CharBit), u1, w1)
    <3>1. since' * CharBit = n + CharBit /\ type.poly' = poly
      BY <1>1, <2>1, <2>3 DEF poly
    <3> QED
      BY <2>9, <3>1
  <2>11. n + CharBit \in Nat
    BY <1>1, <2>3
  <2>12. 0 \in poly => ~Alike(u1, w1)
    <3>1. 0 \in poly => ~Alike(d1, {})
      BY <1>1, <2>3, <2>7, <2>11, WindowNonzero
    <3> HIDE DEF d1
    <3> QED
      BY <2>9, <3>1, DifferIsNotAlike
  <2>13. since' * CharBit = n + CharBit
    BY <2>1, <2>3
  <2>14. since' \in 0 .. Window' /\ since' # 0
    BY <1>8, <2>1, <2>2
  <2>15. longer \in SUBSET (0 .. since' * CharBit - 1) /\ longer # {}
    <3>1. since' * CharBit \in Nat /\ since' * CharBit - 1 = n + CharBit - 1
      BY <2>11, <2>13, Widths
    <3> QED
      BY <2>7, <3>1
  <2>16. WindowFed(longer, since * CharBit)'
    BY <2>10, <2>15 DEF WindowFed, u1, w1
  <2> QED
    BY <1>10, <2>12, <2>14, <2>15, <2>16 DEF NearInv, poly, u1, w1
<1>14. CASE ~(since < Window) /\ ~(byte = otherByte /\ since = 0)
  <2>1. since' = since /\ byte = otherByte /\ since # 0 /\ a = b
    BY <1>5, <1>7, <1>14
  <2> DEFINE z == SigBits(Xor(u, w))
  <2>2. z \in Held /\ Differ(z, u, w)
    BY XorHas, Widths DEF SigBits, Held, Differ
  <2> HIDE DEF z
  <2>3. Differ(Fed(poly, z, {}, CharBit), fu, fw)
    <3>1. \A j \in 0 .. CharBit - 1 : j \in {} <=> ~(j \in a <=> j \in b)
      BY <2>1
    <3> QED
      BY <1>1, <1>2, <2>2, <3>1, FedDiffers DEF fu, fw
  <2>4. 0 \in poly => ~Alike(u1, w1)
    <3>1. 0 \in poly => ~Alike(z, {})
      BY <1>6, <2>1, <2>2, DifferIsNotAlike
    <3>2. 0 \in poly => ~Alike(Fed(poly, z, {}, CharBit), {})
      BY <1>1, <2>2, <3>1, FedNonzero
    <3>3. 0 \in poly => ~Alike(fu, fw)
      BY <2>3, <3>2, DifferIsNotAlike
    <3> QED
      BY <1>2, <3>3 DEF Alike
  <2>5. since' \in 0 .. Window' /\ ~(since' < Window')
    BY <1>6, <1>8, <1>14, <2>1
  <2> QED
    BY <1>10, <2>1, <2>4, <2>5 DEF NearInv, poly, u1, w1
<1> QED
  BY <1>12, <1>13, <1>14

\* Codes that start over have seen the same bytes.
LEMMA StartNear ==
  ASSUME optimal = other, since = 0
  PROVE  NearInv
BY WindowFits DEF NearInv, Alike

LEMMA InitNear == Init => NearInv
BY StartNear DEF Init

LEMMA ResetNear ==
  ASSUME ResetTo(type.init)
  PROVE  NearInv'
<1>1. optimal' = other' /\ since' = 0
  BY DEF ResetTo
<1>2. Window' \in Nat
  BY WindowFits DEF Window
<1>3. Alike(View(optimal)', View(other)')
  BY <1>1 DEF View, Alike
<1> QED
  BY <1>1, <1>2, <1>3 DEF NearInv

LEMMA NextNear == AgreeInv /\ NearInv /\ [Next]_vars => NearInv'
<1> SUFFICES ASSUME AgreeInv, NearInv, [Next]_vars PROVE NearInv'
  OBVIOUS
<1>1. CASE Construct
  BY <1>1, ResetNear DEF Construct
<1>2. CASE Reset
  BY <1>2, ResetNear DEF Reset
<1>3. CASE \E byte, otherByte \in Bytes : ProcessByte(byte, otherByte)
  BY <1>3, ByteNear
<1>4. CASE UNCHANGED vars
  BY <1>4 DEF vars, NearInv, WindowFed, View, Window
<1> QED
  BY <1>1, <1>2, <1>3, <1>4 DEF Next

LEMMA NearAlways == Spec => []NearInv
<1>1. AgreeInv /\ AgreeInv' /\ NearInv /\ [Next]_vars => NearInv'
  BY NextNear
<1> QED
  BY <1>1, InitNear, AgreeAlways, PTL DEF Spec

LEMMA NearImplies == AgreeInv /\ NearInv => NearNamesDiffer
<1> SUFFICES ASSUME AgreeInv, NearInv PROVE NearNamesDiffer
  OBVIOUS
<1>1. type \in Types
  BY DEF AgreeInv, Registers
<1> QED
  BY <1>1, SameChecksum DEF NearInv, NearNamesDiffer

(* Names of one length that differ in one window only, as wide as the code,     *)
(* never get the same checksum, whatever follows (crc.hpp:953-970).             *)
THEOREM NearNames == Spec => []NearNamesDiffer
BY AgreeAlways, NearAlways, NearImplies, PTL

-----------------------------------------------------------------------------
(* The augmented code.                                                          *)

\* The arguments for which augmented_crc computes the code.
Plain == ~type.reflectIn /\ ~type.reflectRem /\ type.final = {} /\ type.init = {}

\* The zero bits that follow the message are what the augmented remainder lacks.
AugmentedInv ==
  didInit /\ Plain /\ Bits = Window * CharBit =>
    Alike(basic, Fed(type.poly, augmented, {}, Bits))

\* A byte moves the augmented remainder up and takes the place below.
LEMMA AugmentedIsFed ==
  ASSUME type \in Types, ~type.reflectIn, table = Table(type), CharBit <= Bits,
         NEW x \in Held, NEW byte \in Bytes
  PROVE  Differ(AugmentedByte(x, byte), Fed(type.poly, x, {}, CharBit), byte)
<1> DEFINE index == Byte(ShiftRight(x, Bits - CharBit))
           entry == Table(type)[index]
           fed == Fed(type.poly, {}, index, CharBit)
           moved == ShiftLeft(x, CharBit) \cup byte
<1>1. \A k \in 0 .. CharBit - 1 :
        CharBit - 1 - k \in index <=> ~(CharBit - 1 - k \in {} <=> Bits - 1 - k \in x)
  <2> SUFFICES ASSUME NEW k \in 0 .. CharBit - 1
               PROVE  CharBit - 1 - k \in index <=> Bits - 1 - k \in x
    OBVIOUS
  <2>1. /\ CharBit - 1 - k \in Nat /\ CharBit - 1 - k \in 0 .. CharBit - 1
        /\ Bits - CharBit \in Nat
        /\ (CharBit - 1 - k) + (Bits - CharBit) = Bits - 1 - k
    BY Widths
  <2>2. CharBit - 1 - k \in ShiftRight(x, Bits - CharBit) <=>
          (CharBit - 1 - k) + (Bits - CharBit) \in x
    BY <2>1, RightHas
  <2> QED
    BY <2>1, <2>2 DEF Byte
<1>2. index \in Bytes
  BY DEF Byte, Bytes
<1>3. AugmentedByte(x, byte) = Xor(moved, entry)
  BY DEF AugmentedByte
<1> HIDE DEF index
<1>4. entry = fed
  BY <1>2, TablePlain
<1>5. \A i \in 0 .. Bits - 1 :
        i \in Fed(type.poly, x, {}, CharBit) <=> ~(i \in fed <=> i - CharBit \in x)
  BY <1>1, TypeFields, Widths, FedShifts
<1>6. ASSUME NEW i \in 0 .. Bits - 1
      PROVE  i \in moved <=> ~(i - CharBit \in x <=> i \in byte)
  <2>1. i \in 0 .. Digits - 1
    BY Widths
  <2>2. i \in ShiftLeft(x, CharBit) <=> i - CharBit \in x
    BY <2>1, Widths, LeftHas
  <2>3. ~(i - CharBit \in x /\ i \in byte)
    BY Widths DEF Held, Bytes
  <2> QED
    BY <2>2, <2>3
<1> HIDE DEF entry, fed, moved
<1> SUFFICES ASSUME NEW i \in 0 .. Bits - 1
             PROVE  i \in AugmentedByte(x, byte) <=>
                      ~(i \in Fed(type.poly, x, {}, CharBit) <=> i \in byte)
  BY DEF Differ
<1>7. i \in AugmentedByte(x, byte) <=> ~(i \in moved <=> i \in entry)
  BY <1>3, XorHas
<1> QED
  BY <1>4, <1>5, <1>6, <1>7

\* A byte below, moved up through the whole code, is a byte of the message.
LEMMA FedBelow ==
  ASSUME NEW poly \in Values, CharBit <= Bits, NEW byte \in Bytes
  PROVE  Alike(Fed(poly, byte, {}, Bits), Fed(poly, {}, byte, CharBit))
<1>1. byte \in Held /\ {} \in Held /\ Bits \in Nat /\ CharBit \in Nat
  BY ValuesHeld, Widths
<1>2. Alike(Fed(poly, byte, {}, Bits), Fed(poly, {}, byte, Bits))
  <2> DEFINE x == Fed(poly, byte, {}, Bits)
             y == Fed(poly, {}, byte, Bits)
  <2>1. \A i \in 0 .. Bits - 1 : i \in x <=> ~(i \in y <=> i - Bits \in byte)
    <3>1. \A k \in 0 .. Bits - 1 :
            Bits - 1 - k \in byte <=> ~(Bits - 1 - k \in {} <=> Bits - 1 - k \in byte)
      OBVIOUS
    <3> QED
      BY <1>1, <3>1, FedShifts
  <2> HIDE DEF x, y
  <2>2. \A i \in 0 .. Bits - 1 : i - Bits \notin byte
    BY Widths DEF Bytes
  <2>3. Alike(x, y)
    BY <2>1, <2>2 DEF Alike
  <2> QED
    BY <2>3 DEF x, y
<1> DEFINE rest == Bits - CharBit
           none == Fed(poly, {}, {}, rest)
<1>3. rest \in Nat /\ rest + CharBit = Bits
  BY Widths
<1>4. Alike(Fed(poly, {}, byte, rest + CharBit), Fed(poly, none, byte, CharBit))
  <2>1. \A j \in 0 .. rest - 1 : j + CharBit \in byte <=> j \in {}
    BY Widths DEF Bytes
  <2> HIDE DEF rest
  <2> QED
    BY <1>1, <1>3, <2>1, FedJoins
<1>5. Alike(none, {}) /\ none \in Held
  <2> HIDE DEF rest
  <2> QED
    BY <1>1, <1>3, FedNothing, FedHeld
<1> HIDE DEF none, rest
<1>6. Alike(Fed(poly, none, byte, CharBit), Fed(poly, {}, byte, CharBit))
  BY <1>1, <1>5, FedAlike
<1>7. Alike(Fed(poly, {}, byte, Bits), Fed(poly, none, byte, CharBit))
  BY <1>3, <1>4
<1> QED
  BY <1>2, <1>6, <1>7 DEF Alike

\* Zero bits commute.
LEMMA FedCommutes ==
  ASSUME NEW poly \in Values, NEW x \in Held, NEW n \in Nat, NEW m \in Nat
  PROVE  Alike(Fed(poly, Fed(poly, x, {}, n), {}, m), Fed(poly, Fed(poly, x, {}, m), {}, n))
<1>1. Alike(Fed(poly, x, {}, n + m), Fed(poly, Fed(poly, x, {}, n), {}, m))
  BY FedJoins
<1>2. Alike(Fed(poly, x, {}, m + n), Fed(poly, Fed(poly, x, {}, m), {}, n))
  BY FedJoins
<1>3. n + m = m + n
  OBVIOUS
<1> QED
  BY <1>1, <1>2, <1>3 DEF Alike

\* The augmented remainder keeps pace with the bitwise one.
LEMMA AugmentedKeepsPace ==
  ASSUME type \in Types, ~type.reflectIn, table = Table(type), CharBit <= Bits,
         NEW x \in Held, NEW r \in Held, NEW byte \in Bytes,
         Alike(r, Fed(type.poly, x, {}, Bits))
  PROVE  Alike(Fed(type.poly, r, byte, CharBit),
               Fed(type.poly, AugmentedByte(x, byte), {}, Bits))
<1> DEFINE poly == type.poly
           next == AugmentedByte(x, byte)
           up == Fed(poly, x, {}, CharBit)
           lag == Fed(poly, x, {}, Bits)
           one == Fed(poly, r, {}, CharBit)
           all == Fed(poly, up, {}, Bits)
           far == Fed(poly, lag, {}, CharBit)
           low == Fed(poly, byte, {}, Bits)
           fresh == Fed(poly, {}, byte, CharBit)
<1>1. poly \in Values /\ Bits \in Nat /\ CharBit \in Nat /\ byte \in Held /\ {} \in Held
  BY TypeFields, Widths, ValuesHeld
<1>2. Differ(next, up, byte) /\ next \in Held /\ Alike(r, lag)
  BY AugmentedIsFed, AugmentedHeld
<1> HIDE DEF poly, next
<1>3. up \in Held /\ lag \in Held
  BY <1>1, FedHeld
<1> HIDE DEF up, lag
<1>4. Differ(Fed(poly, next, {}, Bits), all, low)
  BY <1>1, <1>2, <1>3, FedDiffers
<1>5. Alike(all, far)
  BY <1>1, FedCommutes DEF up, lag
<1>6. Alike(one, far)
  BY <1>1, <1>2, <1>3, FedAlike
<1>7. Alike(low, fresh)
  BY <1>1, FedBelow
<1>8. Differ(Fed(poly, r, byte, CharBit), one, fresh)
  <2>1. Differ(r, r, {})
    BY DEF Differ
  <2> QED
    BY <1>1, <2>1, FedDiffers
<1> HIDE DEF one, all, far, low, fresh
<1>9. Alike(Fed(poly, r, byte, CharBit), Fed(poly, next, {}, Bits))
  BY <1>4, <1>5, <1>6, <1>7, <1>8 DEF Alike, Differ
<1> QED
  BY <1>9 DEF poly, next

LEMMA InitAugmented == Init => AugmentedInv
BY DEF Init, AugmentedInv

LEMMA ResetAugmented ==
  ASSUME type \in Types, type' = type, ResetTo(type.init)
  PROVE  AugmentedInv'
<1> SUFFICES ASSUME type.init = {}
             PROVE  Alike(basic', Fed(type.poly, augmented', {}, Bits))
  BY DEF AugmentedInv, Plain
<1>1. basic' = {} /\ augmented' = {}
  BY DEF ResetTo
<1>2. Alike(Fed(type.poly, {}, {}, Bits), {})
  BY TypeFields, Widths, FedNothing
<1> QED
  BY <1>1, <1>2 DEF Alike

LEMMA NextAugmented == AgreeInv /\ AugmentedInv /\ [Next]_vars => AugmentedInv'
<1> SUFFICES ASSUME AgreeInv, AugmentedInv, [Next]_vars PROVE AugmentedInv'
  OBVIOUS
<1>1. type \in Types /\ basic \in Held /\ augmented \in Held /\ (didInit => table = Table(type))
  BY DEF AgreeInv, Registers
<1>2. CASE Construct
  BY <1>1, <1>2, ResetAugmented DEF Construct
<1>3. CASE Reset
  BY <1>1, <1>3, ResetAugmented DEF Reset
<1>4. ASSUME NEW byte \in Bytes, NEW otherByte \in Bytes, ProcessByte(byte, otherByte)
      PROVE  AugmentedInv'
  <2> SUFFICES ASSUME Plain, Bits = Window * CharBit
               PROVE  Alike(basic', Fed(type.poly, augmented', {}, Bits))
    BY <1>4 DEF AugmentedInv, ProcessByte, Plain, Window
  <2>1. CharBit <= Bits
    <3>1. Window \in Nat /\ Window # 0
      BY WindowFits, Widths
    <3> QED
      BY <3>1, Widths
  <2>2. Alike(basic, Fed(type.poly, augmented, {}, Bits))
    BY <1>4 DEF AugmentedInv, ProcessByte
  <2>3. ~type.reflectIn /\ table = Table(type)
    BY <1>1, <1>4 DEF Plain, ProcessByte
  <2>4. basic' = BasicByte(basic, byte) /\ augmented' = AugmentedByte(augmented, byte)
    BY <1>4, <2>1, Widths DEF ProcessByte
  <2>5. BasicByte(basic, byte) = Fed(type.poly, basic, byte, CharBit)
    BY <2>3, BasicIsFed DEF Input, ReflectIf
  <2> QED
    BY <1>1, <2>1, <2>2, <2>3, <2>4, <2>5, AugmentedKeepsPace
<1>5. CASE \E byte, otherByte \in Bytes : ProcessByte(byte, otherByte)
  BY <1>4, <1>5
<1>6. CASE UNCHANGED vars
  BY <1>6 DEF vars, AugmentedInv, Plain, Window
<1> QED
  BY <1>2, <1>3, <1>5, <1>6 DEF Next

LEMMA AugmentedAlways == Spec => []AugmentedInv
<1>1. AgreeInv /\ AgreeInv' /\ AugmentedInv /\ [Next]_vars => AugmentedInv'
  BY NextAugmented
<1> QED
  BY <1>1, InitAugmented, AgreeAlways, PTL DEF Spec

\* The zero bytes that follow the message.
IsFlushed(f) ==
  f = [k \in 0 .. Window |-> IF k = 0 THEN augmented ELSE AugmentedByte(f[k - 1], {})]

LEMMA FlushedExists ==
  ASSUME type \in Types, table = Table(type), augmented \in Held
  PROVE  \E f : IsFlushed(f)
<1> DEFINE next == [k \in 1 .. Window |-> [r \in Held |-> AugmentedByte(r, {})]]
<1>1. \A r \in Held : AugmentedByte(r, {}) \in Held
  BY ValuesHeld, AugmentedHeld
<1>2. next \in [1 .. Window -> [Held -> Held]]
  BY <1>1
<1>3. \A k \in 1 .. Window : \A r \in Held : next[k][r] = AugmentedByte(r, {})
  OBVIOUS
<1> HIDE DEF next
<1>4. Window \in Nat /\ Steps(next, Window, Held)
  BY <1>2, WindowFits DEF Steps
<1>5. PICK f : Takes(f, next, augmented, Window, Held)
  BY <1>4, Recursion
<1>6. f \in [0 .. Window -> Held] /\ f[0] = augmented
  BY <1>5 DEF Takes
<1>7. ASSUME NEW k \in 1 .. Window PROVE f[k] = AugmentedByte(f[k - 1], {})
  <2>1. k - 1 \in 0 .. Window
    BY <1>4, <1>7
  <2> QED
    BY <1>3, <1>5, <2>1 DEF Takes
<1>8. \A k \in 0 .. Window : f[k] = IF k = 0 THEN augmented ELSE AugmentedByte(f[k - 1], {})
  BY <1>4, <1>6, <1>7
<1>9. f = [k \in 0 .. Window |-> f[k]]
  BY <1>6
<1> QED
  BY <1>8, <1>9 DEF IsFlushed

\* No bits leave a register as it is.
LEMMA FedNone ==
  ASSUME NEW poly \in Values, NEW x \in Held, NEW bits
  PROVE  Fed(poly, x, bits, 0) = x
<1>1. PICK f : Run(f, poly, x, bits, 0) /\ f[0] = Fed(poly, x, bits, 0)
  BY FedRuns
<1> QED
  BY <1>1 DEF Run

LEMMA FlushedIsFed ==
  ASSUME type \in Types, ~type.reflectIn, table = Table(type), CharBit <= Bits,
         augmented \in Held, NEW f, IsFlushed(f)
  PROVE  \A k \in 0 .. Window : Alike(f[k], Fed(type.poly, augmented, {}, k * CharBit))
<1> DEFINE poly == type.poly
           lag(k) == Fed(poly, augmented, {}, k * CharBit)
           Good == {k \in 0 .. Window : f[k] \in Held /\ Alike(f[k], lag(k))}
<1>1. Window \in Nat /\ poly \in Values /\ CharBit \in Nat /\ {} \in Bytes
  BY WindowFits, TypeFields, Widths, ValuesHeld
<1>2. \A k \in 0 .. Window : f[k] = IF k = 0 THEN augmented ELSE AugmentedByte(f[k - 1], {})
  BY DEF IsFlushed
<1>3. 0 \in Good
  <2>1. 0 * CharBit = 0 /\ f[0] = augmented
    BY <1>1, <1>2
  <2>2. lag(0) = augmented
    BY <1>1, <2>1, FedNone
  <2>3. Alike(augmented, augmented)
    BY DEF Alike
  <2> QED
    BY <1>1, <2>1, <2>2, <2>3
<1>4. ASSUME NEW k \in Nat, k < Window, k \in Good PROVE k + 1 \in Good
  <2> DEFINE x == f[k]
             z == lag(k)
             y == Fed(poly, x, {}, CharBit)
             n == k * CharBit
  <2>1. k + 1 \in 0 .. Window /\ (k + 1) - 1 = k /\ k + 1 # 0
    BY <1>1, <1>4
  <2>2. f[k + 1] = AugmentedByte(x, {})
    BY <1>2, <2>1
  <2>3. x \in Held /\ Alike(x, z)
    BY <1>4
  <2>4. n \in Nat /\ (k + 1) * CharBit = n + CharBit
    <3>1. k <= Window
      BY <1>4
    <3> QED
      BY <3>1, WindowFits
  <2>5. z \in Held
    BY <1>1, <2>4, FedHeld
  <2>6. f[k + 1] \in Held /\ Differ(f[k + 1], y, {})
    BY <1>1, <2>2, <2>3, AugmentedHeld, AugmentedIsFed
  <2>7. Alike(y, Fed(poly, z, {}, CharBit))
    <3> HIDE DEF x, z
    <3> QED
      BY <1>1, <2>3, <2>5, FedAlike
  <2>8. Alike(lag(k + 1), Fed(poly, z, {}, CharBit))
    <3>1. Alike(Fed(poly, augmented, {}, n + CharBit),
                Fed(poly, Fed(poly, augmented, {}, n), {}, CharBit))
      <4> HIDE DEF n, poly
      <4> QED
        BY <1>1, <2>4, FedJoins
    <3> QED
      BY <2>4, <3>1
  <2> DEFINE far == lag(k + 1)
             both == Fed(poly, z, {}, CharBit)
             new == f[k + 1]
  <2> HIDE DEF x, y, z, far, both, new
  <2>9. Alike(new, far)
    <3>1. Differ(new, y, {}) /\ Alike(y, both) /\ Alike(far, both)
      BY <2>6, <2>7, <2>8 DEF far, both, new
    <3> QED
      BY <3>1 DEF Alike, Differ
  <2> QED
    BY <2>1, <2>6, <2>9 DEF far, new
<1>5. \A k \in 0 .. Window : k \in Good
  <2> HIDE DEF Good
  <2> QED
    BY <1>1, <1>3, <1>4, Induction
<1> QED
  BY <1>5

LEMMA AugmentedImplies == AgreeInv /\ AugmentedInv => AugmentedAgrees
<1> SUFFICES ASSUME AgreeInv, AugmentedInv PROVE AugmentedAgrees
  OBVIOUS
<1> DEFINE flushed == CHOOSE f : IsFlushed(f)
<1>1. ASSUME didInit, Plain, Bits = Window * CharBit
      PROVE  SigBits(flushed[Window]) = BasicChecksum
  <2>1. /\ type \in Types /\ table = Table(type) /\ augmented \in Held
        /\ ~type.reflectIn /\ ~type.reflectRem /\ type.final = {}
    BY <1>1 DEF AgreeInv, Registers, Plain
  <2>2. IsFlushed(flushed)
    BY <2>1, FlushedExists
  <2>3. Window \in Nat /\ Window \in 0 .. Window /\ CharBit <= Bits
    <3>1. Window \in Nat /\ Window # 0
      BY <1>1, WindowFits, Widths
    <3> QED
      BY <1>1, <3>1, Widths
  <2> HIDE DEF flushed
  <2>4. Alike(flushed[Window], Fed(type.poly, augmented, {}, Window * CharBit))
    BY <2>1, <2>2, <2>3, FlushedIsFed
  <2>5. Alike(basic, Fed(type.poly, augmented, {}, Bits))
    BY <1>1 DEF AugmentedInv
  <2>6. Alike(flushed[Window], basic)
    BY <1>1, <2>4, <2>5 DEF Alike
  <2>7. BasicChecksum = SigBits(basic)
    BY <2>1 DEF BasicChecksum, ReflectIf, Xor
  <2> QED
    BY <2>6, <2>7, AlikeBits
<1> QED
  BY <1>1 DEF AugmentedAgrees, IsFlushed, Plain

(* augmented_crc over a message that is followed by zero bytes as wide as the   *)
(* code is the plain checksum of the message (crc.hpp:1042-1081).               *)
THEOREM AugmentedIsPlain == Spec => []AugmentedAgrees
BY AgreeAlways, AugmentedAlways, AugmentedImplies, PTL

=============================================================================
