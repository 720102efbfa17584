---------------------------- MODULE FlattenLemmas ----------------------------
(* What FlattenSeq does, by induction on the number of sequences: the recursive *)
(* function it is defined by exists and takes one sequence more in each step.   *)

EXTENDS Naturals, SequencesExt, SequenceTheorems, NaturalsInduction,
        WellFoundedInduction, TLAPS

\* A set of naturals has a least element.
LEMMA Least ==
  ASSUME NEW S \in SUBSET Nat, S # {}
  PROVE  \E m \in S : \A k \in S : m <= k
<1>1. PICK m \in S : \A k \in S : ~(<<k, m>> \in OpToRel(<, Nat))
  BY NatLessThanWellFounded, WFMin
<1>2. \A k \in S : ~(k < m)
  BY <1>1 DEF OpToRel
<1> QED
  BY <1>2

\* Induction up to a bound.
LEMMA Induction ==
  ASSUME NEW n \in Nat, NEW Good, 0 \in Good,
         \A i \in Nat : i < n /\ i \in Good => i + 1 \in Good
  PROVE  \A i \in 0 .. n : i \in Good
<1> DEFINE Bad == {i \in 0 .. n : i \notin Good}
<1> SUFFICES ASSUME Bad # {} PROVE FALSE
  OBVIOUS
<1>1. Bad \in SUBSET Nat
  OBVIOUS
<1>2. PICK m \in Bad : \A k \in Bad : m <= k
  <2> HIDE DEF Bad
  <2> QED
    BY <1>1, Least
<1>3. m \in 0 .. n /\ m \notin Good /\ m # 0
  BY <1>2
<1>4. m - 1 \in Nat /\ m - 1 < m /\ m - 1 < n /\ m - 1 \in 0 .. n
  BY <1>3
<1>5. m - 1 \notin Bad
  <2> HIDE DEF Bad
  <2> QED
    BY <1>2, <1>3, <1>4
<1>6. m - 1 \in Good /\ (m - 1) + 1 = m
  BY <1>3, <1>4, <1>5
<1> QED
  BY <1>3, <1>4, <1>6

\* What the recursion of FlattenSeq computes for n sequences.
Joins(join, seqs, n) ==
  join = [i \in 1 .. n |-> IF i = 1 THEN seqs[i] ELSE join[i - 1] \o seqs[i]]

\* There is such a function ...
LEMMA JoinsExists ==
  ASSUME NEW seqs, NEW n \in Nat
  PROVE  \E join : Joins(join, seqs, n)
<1> DEFINE Good == {k \in Nat : \E join : Joins(join, seqs, k)}
<1>1. 0 \in Good
  <2>1. Joins(<<>>, seqs, 0)
    BY DEF Joins
  <2> QED
    BY <2>1
<1>2. ASSUME NEW k \in Nat, k \in Good PROVE k + 1 \in Good
  <2>1. PICK join : Joins(join, seqs, k)
    BY <1>2
  <2>2. \A i \in 1 .. k : join[i] = IF i = 1 THEN seqs[i] ELSE join[i - 1] \o seqs[i]
    BY <2>1 DEF Joins
  <2> DEFINE next1 == [i \in 1 .. k + 1 |->
                        IF i <= k THEN join[i]
                        ELSE IF i = 1 THEN seqs[i] ELSE join[i - 1] \o seqs[i]]
  <2>3. \A i \in 1 .. k + 1 :
          next1[i] = IF i = 1 THEN seqs[i] ELSE next1[i - 1] \o seqs[i]
    BY <2>2
  <2> HIDE DEF next1
  <2>4. next1 = [i \in 1 .. k + 1 |-> next1[i]]
    BY DEF next1
  <2>5. Joins(next1, seqs, k + 1)
    BY <2>3, <2>4 DEF Joins
  <2> QED
    BY <2>5
<1>3. \A k \in Nat : k < n /\ k \in Good => k + 1 \in Good
  BY <1>2
<1>4. n \in Good
  <2> HIDE DEF Good
  <2>1. \A i \in 0 .. n : i \in Good
    BY <1>1, <1>3, Induction
  <2> QED
    BY <2>1
<1> QED
  BY <1>4

\* ... and FlattenSeq takes its last value.
LEMMA FlattenJoins ==
  ASSUME NEW seqs, NEW n \in Nat \ {0}, Len(seqs) = n
  PROVE  \E join : Joins(join, seqs, n) /\ FlattenSeq(seqs) = join[n]
<1> DEFINE join == CHOOSE f : Joins(f, seqs, n)
<1>1. Joins(join, seqs, n)
  BY JoinsExists
<1>2. FlattenSeq(seqs) = join[n]
  BY DEF FlattenSeq, Joins
<1> QED
  BY <1>1, <1>2

\* The joins of the first sequences.
Partial(part, seqs, S) ==
  /\ part \in [0 .. Len(seqs) -> Seq(S)] /\ part[0] = <<>>
  /\ \A i \in Nat : i < Len(seqs) => part[i + 1] = part[i] \o seqs[i + 1]

\* FlattenSeq joins them all.
LEMMA Flatten ==
  ASSUME NEW S, NEW seqs \in Seq(Seq(S))
  PROVE  \E part : Partial(part, seqs, S) /\ FlattenSeq(seqs) = part[Len(seqs)]
<1> DEFINE n == Len(seqs)
<1>1. n \in Nat /\ \A i \in 1 .. n : seqs[i] \in Seq(S)
  BY LenProperties, ElementOfSeq
<1>2. CASE n = 0
  <2>1. seqs = <<>>
    BY <1>2
  <2>2. FlattenSeq(seqs) = <<>>
    BY <2>1 DEF FlattenSeq
  <2>3. Partial([i \in 0 .. 0 |-> <<>>], seqs, S)
    BY <1>2 DEF Partial
  <2> QED
    BY <1>2, <2>2, <2>3
<1>3. CASE n # 0
  <2>1. PICK join : Joins(join, seqs, n) /\ FlattenSeq(seqs) = join[n]
    BY <1>1, <1>3, FlattenJoins
  <2>2. \A i \in 1 .. n : join[i] = IF i = 1 THEN seqs[i] ELSE join[i - 1] \o seqs[i]
    BY <2>1 DEF Joins
  <2> DEFINE Good == {k \in Nat : k = 0 \/ join[k] \in Seq(S)}
  <2>3. ASSUME NEW k \in Nat, k < n, k \in Good PROVE k + 1 \in Good
    <3>1. k + 1 \in 1 .. n /\ seqs[k + 1] \in Seq(S)
      BY <1>1, <2>3
    <3>2. CASE k = 0
      BY <2>2, <3>1, <3>2
    <3>3. CASE k # 0
      <4>1. (k + 1) - 1 = k /\ k + 1 # 1
        BY <3>3
      <4>2. join[k + 1] = join[k] \o seqs[k + 1]
        BY <2>2, <3>1, <4>1
      <4>3. join[k] \in Seq(S)
        BY <2>3, <3>3
      <4>4. join[k + 1] \in Seq(S)
        BY <3>1, <4>2, <4>3, ConcatProperties
      <4> QED
        BY <4>4
    <3> QED
      BY <3>2, <3>3
  <2>4. \A k \in 1 .. n : join[k] \in Seq(S)
    <3>1. 0 \in Good
      OBVIOUS
    <3> HIDE DEF Good
    <3>2. \A i \in 0 .. n : i \in Good
      BY <1>1, <2>3, <3>1, Induction
    <3> QED
      BY <3>2 DEF Good
  <2> DEFINE part == [i \in 0 .. n |-> IF i = 0 THEN <<>> ELSE join[i]]
  <2>5. part \in [0 .. n -> Seq(S)] /\ part[0] = <<>> /\ part[n] = join[n]
    BY <1>1, <1>3, <2>4
  <2>6. ASSUME NEW i \in Nat, i < n PROVE part[i + 1] = part[i] \o seqs[i + 1]
    <3>1. i + 1 \in 1 .. n /\ part[i + 1] = join[i + 1]
      BY <1>1, <2>6
    <3>2. CASE i = 0
      BY <1>1, <2>2, <3>1, <3>2, ConcatEmptySeq
    <3>3. CASE i # 0
      <4>1. part[i] = join[i]
        BY <1>1, <2>6, <3>3
      <4>2. (i + 1) - 1 = i /\ i + 1 # 1
        BY <3>3
      <4>3. join[i + 1] = join[i] \o seqs[i + 1]
        BY <2>2, <3>1, <4>2
      <4> QED
        BY <3>1, <4>1, <4>3
    <3> QED
      BY <3>2, <3>3
  <2> HIDE DEF part
  <2>7. Partial(part, seqs, S)
    BY <2>5, <2>6 DEF Partial
  <2> QED
    BY <2>1, <2>5, <2>7
<1> QED
  BY <1>2, <1>3

\* It is the only one: whatever joins the sequences one by one flattens them.
LEMMA FlattenIs ==
  ASSUME NEW S, NEW seqs \in Seq(Seq(S)), NEW part, Partial(part, seqs, S)
  PROVE  FlattenSeq(seqs) = part[Len(seqs)] /\ FlattenSeq(seqs) \in Seq(S)
<1>1. PICK join : Partial(join, seqs, S) /\ FlattenSeq(seqs) = join[Len(seqs)]
  BY Flatten
<1>2. Len(seqs) \in Nat
  BY LenProperties
<1> DEFINE Good == {k \in Nat : join[k] = part[k]}
<1>3. 0 \in Good /\ \A i \in Nat : i < Len(seqs) /\ i \in Good => i + 1 \in Good
  <2>1. 0 \in Good
    BY <1>1 DEF Partial
  <2>2. ASSUME NEW i \in Nat, i < Len(seqs), i \in Good PROVE i + 1 \in Good
    <3>1. join[i + 1] = join[i] \o seqs[i + 1]
      BY <1>1, <2>2 DEF Partial
    <3>2. part[i + 1] = part[i] \o seqs[i + 1]
      BY <2>2 DEF Partial
    <3>3. join[i] = part[i]
      BY <2>2
    <3>4. join[i + 1] = part[i + 1]
      BY <3>1, <3>2, <3>3
    <3> QED
      BY <3>4
  <2> QED
    BY <2>1, <2>2
<1>4. Len(seqs) \in Good
  <2> HIDE DEF Good
  <2>1. \A i \in 0 .. Len(seqs) : i \in Good
    BY <1>2, <1>3, Induction
  <2> QED
    BY <1>2, <2>1
<1> QED
  BY <1>1, <1>2, <1>4 DEF Partial

\* The elements of a concatenation.
LEMMA ConcatElements ==
  ASSUME NEW S, NEW s \in Seq(S), NEW t \in Seq(S)
  PROVE  \A k \in 1 .. Len(s \o t) :
           \/ \E l \in 1 .. Len(s) : (s \o t)[k] = s[l]
           \/ \E l \in 1 .. Len(t) : (s \o t)[k] = t[l]
<1> DEFINE m == Len(s)
           n == Len(t)
           u == s \o t
<1> SUFFICES ASSUME NEW k \in 1 .. Len(u)
             PROVE  \/ \E l \in 1 .. m : u[k] = s[l]
                    \/ \E l \in 1 .. n : u[k] = t[l]
  OBVIOUS
<1>1. m \in Nat /\ n \in Nat
  BY LenProperties
<1>2. /\ Len(u) = m + n
      /\ \A i \in 1 .. m + n : u[i] = IF i <= m THEN s[i] ELSE t[i - m]
  BY ConcatProperties
<1> HIDE DEF m, n, u
<1>3. k \in 1 .. m + n /\ u[k] = IF k <= m THEN s[k] ELSE t[k - m]
  BY <1>2
<1>4. (k \in 1 .. m /\ u[k] = s[k]) \/ (k - m \in 1 .. n /\ u[k] = t[k - m])
  BY <1>1, <1>3
<1> QED
  BY <1>4

\* An element of it is one of a sequence.
LEMMA FlattenElements ==
  ASSUME NEW S, NEW seqs \in Seq(Seq(S))
  PROVE  /\ FlattenSeq(seqs) \in Seq(S)
         /\ \A k \in 1 .. Len(FlattenSeq(seqs)) :
              \E i \in 1 .. Len(seqs) : \E l \in 1 .. Len(seqs[i]) : FlattenSeq(seqs)[k] = seqs[i][l]
<1>1. PICK part : Partial(part, seqs, S) /\ FlattenSeq(seqs) = part[Len(seqs)]
  BY Flatten
<1>2. Len(seqs) \in Nat /\ \A i \in 1 .. Len(seqs) : seqs[i] \in Seq(S)
  BY LenProperties, ElementOfSeq
<1> DEFINE From(x) == \E i \in 1 .. Len(seqs) : \E l \in 1 .. Len(seqs[i]) : x = seqs[i][l]
           Good == {m \in 0 .. Len(seqs) : \A k \in 1 .. Len(part[m]) : From(part[m][k])}
<1>3. 0 \in Good
  <2>1. part[0] = <<>> /\ Len(part[0]) = 0
    BY <1>1 DEF Partial
  <2> QED
    BY <1>2, <2>1
<1>4. ASSUME NEW m \in Nat, m < Len(seqs), m \in Good PROVE m + 1 \in Good
  <2>1. m + 1 \in 1 .. Len(seqs) /\ m + 1 \in 0 .. Len(seqs) /\ m \in 0 .. Len(seqs)
    BY <1>2, <1>4
  <2>2. part[m + 1] = part[m] \o seqs[m + 1] /\ part[m] \in Seq(S) /\ seqs[m + 1] \in Seq(S)
    BY <1>1, <1>2, <1>4, <2>1 DEF Partial
  <2>3. ASSUME NEW k \in 1 .. Len(part[m + 1])
        PROVE  \/ \E l \in 1 .. Len(part[m]) : part[m + 1][k] = part[m][l]
               \/ \E l \in 1 .. Len(seqs[m + 1]) : part[m + 1][k] = seqs[m + 1][l]
    <3> DEFINE u == part[m + 1]
               v == part[m]
               w == seqs[m + 1]
    <3>1. v \in Seq(S) /\ w \in Seq(S)
      BY <2>2
    <3>2. u = v \o w /\ k \in 1 .. Len(u)
      BY <2>2, <2>3
    <3> HIDE DEF u, v, w
    <3>3. \A i \in 1 .. Len(v \o w) :
            (\E l \in 1 .. Len(v) : (v \o w)[i] = v[l]) \/ (\E l \in 1 .. Len(w) : (v \o w)[i] = w[l])
      BY <3>1, ConcatElements
    <3>4. (\E l \in 1 .. Len(v) : u[k] = v[l]) \/ (\E l \in 1 .. Len(w) : u[k] = w[l])
      BY <3>2, <3>3
    <3> QED
      BY <3>4 DEF u, v, w
  <2>4. \A k \in 1 .. Len(part[m]) : From(part[m][k])
    BY <1>4
  <2>5. ASSUME NEW k \in 1 .. Len(part[m + 1]) PROVE From(part[m + 1][k])
    <3>1. CASE \E l \in 1 .. Len(part[m]) : part[m + 1][k] = part[m][l]
      <4>1. PICK l \in 1 .. Len(part[m]) : part[m + 1][k] = part[m][l]
        BY <3>1
      <4>2. From(part[m][l])
        BY <2>4
      <4> HIDE DEF From
      <4> QED
        BY <4>1, <4>2
    <3>2. CASE \E l \in 1 .. Len(seqs[m + 1]) : part[m + 1][k] = seqs[m + 1][l]
      BY <2>1, <3>2
    <3> QED
      BY <2>3, <3>1, <3>2
  <2> QED
    BY <2>1, <2>5
<1>5. Len(seqs) \in Good
  <2> HIDE DEF Good
  <2>1. \A i \in 0 .. Len(seqs) : i \in Good
    BY <1>2, <1>3, <1>4, Induction
  <2> QED
    BY <1>2, <2>1
<1> QED
  BY <1>1, <1>2, <1>5 DEF Partial

\* If all sequences but one are empty it is that one.
LEMMA FlattenOnly ==
  ASSUME NEW S, NEW seqs \in Seq(Seq(S)), NEW p \in 1 .. Len(seqs),
         \A k \in 1 .. Len(seqs) : k # p => seqs[k] = <<>>
  PROVE  FlattenSeq(seqs) = seqs[p]
<1> DEFINE part == [i \in 0 .. Len(seqs) |-> IF i < p THEN <<>> ELSE seqs[p]]
<1>1. Len(seqs) \in Nat /\ seqs[p] \in Seq(S) /\ <<>> \in Seq(S) /\ p \in Nat
      /\ \A k \in 1 .. Len(seqs) : seqs[k] \in Seq(S)
  BY LenProperties, ElementOfSeq, EmptySeq
<1>2. part \in [0 .. Len(seqs) -> Seq(S)] /\ part[0] = <<>> /\ part[Len(seqs)] = seqs[p]
  BY <1>1
<1>3. ASSUME NEW i \in Nat, i < Len(seqs) PROVE part[i + 1] = part[i] \o seqs[i + 1]
  <2>1. i \in 0 .. Len(seqs) /\ i + 1 \in 0 .. Len(seqs) /\ i + 1 \in 1 .. Len(seqs)
    BY <1>1, <1>3
  <2>2. CASE i + 1 < p
    <3>1. part[i] = <<>> /\ part[i + 1] = <<>> /\ seqs[i + 1] = <<>>
      BY <1>1, <2>1, <2>2
    <3> QED
      BY <1>1, <3>1, ConcatEmptySeq
  <2>3. CASE i + 1 = p
    <3>1. part[i] = <<>> /\ part[i + 1] = seqs[p]
      BY <1>1, <2>1, <2>3
    <3> QED
      BY <1>1, <2>3, <3>1, ConcatEmptySeq
  <2>4. CASE i + 1 > p
    <3>1. part[i] = seqs[p] /\ part[i + 1] = seqs[p] /\ seqs[i + 1] = <<>>
      BY <1>1, <2>1, <2>4
    <3> QED
      BY <1>1, <3>1, ConcatEmptySeq
  <2>5. i + 1 < p \/ i + 1 = p \/ i + 1 > p
    BY <1>1
  <2> HIDE DEF part
  <2> QED
    BY <2>2, <2>3, <2>4, <2>5
<1> HIDE DEF part
<1>4. Partial(part, seqs, S)
  BY <1>2, <1>3 DEF Partial
<1> QED
  BY <1>2, <1>4, FlattenIs

\* Sequences of one element each give the sequence of these.
LEMMA FlattenEach ==
  ASSUME NEW S, NEW seqs \in Seq(Seq(S)), NEW x \in Seq(S), Len(x) = Len(seqs),
         \A k \in 1 .. Len(seqs) : seqs[k] = <<x[k]>>
  PROVE  FlattenSeq(seqs) = x
<1> DEFINE part == [i \in 0 .. Len(seqs) |-> [k \in 1 .. i |-> x[k]]]
<1>1. Len(seqs) \in Nat /\ \A k \in 1 .. Len(seqs) : x[k] \in S
  BY LenProperties, ElementOfSeq
<1>2. ASSUME NEW i \in 0 .. Len(seqs)
      PROVE  /\ part[i] \in Seq(S) /\ Len(part[i]) = i
             /\ \A k \in 1 .. i : part[i][k] = x[k]
  <2>1. i \in Nat /\ \A k \in 1 .. i : x[k] \in S
    BY <1>1
  <2>2. [k \in 1 .. i |-> x[k]] \in Seq(S)
    BY <2>1
  <2> QED
    BY <2>1, <2>2
<1>3. part[0] = <<>>
  BY <1>1
<1>4. part[Len(seqs)] = x
  BY <1>1, LenProperties
<1>5. ASSUME NEW i \in Nat, i < Len(seqs) PROVE part[i + 1] = part[i] \o seqs[i + 1]
  <2>1. i \in 0 .. Len(seqs) /\ i + 1 \in 0 .. Len(seqs) /\ i + 1 \in 1 .. Len(seqs)
    BY <1>1, <1>5
  <2>2. seqs[i + 1] = <<x[i + 1]>> /\ x[i + 1] \in S
    BY <1>1, <2>1
  <2>3. part[i] \o <<x[i + 1]>> = Append(part[i], x[i + 1])
    <3> HIDE DEF part
    <3> QED
      BY <1>2, <2>1, <2>2, AppendIsConcat
  <2>4. /\ part[i] \in Seq(S) /\ part[i + 1] \in Seq(S)
        /\ Len(part[i]) = i /\ Len(part[i + 1]) = i + 1
    BY <1>2, <2>1
  <2>5. \A k \in 1 .. i + 1 : part[i + 1][k] = Append(part[i], x[i + 1])[k]
    <3> SUFFICES ASSUME NEW k \in 1 .. i + 1
                 PROVE  part[i + 1][k] = Append(part[i], x[i + 1])[k]
      OBVIOUS
    <3>1. part[i + 1][k] = x[k]
      BY <2>1
    <3>2. k <= i => part[i][k] = x[k]
      BY <2>1
    <3>3. k \in 1 .. i \/ k = i + 1
      OBVIOUS
    <3> HIDE DEF part
    <3>4. /\ \A l \in 1 .. i : Append(part[i], x[i + 1])[l] = part[i][l]
          /\ Append(part[i], x[i + 1])[i + 1] = x[i + 1]
      <4>1. \A l \in 1 .. Len(part[i]) : Append(part[i], x[i + 1])[l] = part[i][l]
        BY <2>2, <2>4, AppendProperties
      <4>2. Append(part[i], x[i + 1])[Len(part[i]) + 1] = x[i + 1]
        BY <2>2, <2>4, AppendProperties
      <4> QED
        BY <2>4, <4>1, <4>2
    <3> QED
      BY <2>4, <3>1, <3>2, <3>4, <3>3
  <2>6. Append(part[i], x[i + 1]) \in Seq(S) /\ Len(Append(part[i], x[i + 1])) = i + 1
    <3> DEFINE before == part[i]
    <3>1. before \in Seq(S) /\ Len(before) = i /\ x[i + 1] \in S
      BY <2>2, <2>4
    <3> HIDE DEF part, before
    <3>2. Append(before, x[i + 1]) \in Seq(S) /\ Len(Append(before, x[i + 1])) = i + 1
      BY <3>1, AppendProperties
    <3> QED
      BY <3>2 DEF before
  <2> HIDE DEF part
  <2>7. part[i + 1] = Append(part[i], x[i + 1])
    <3>1. /\ Len(part[i + 1]) = Len(Append(part[i], x[i + 1]))
          /\ \A k \in 1 .. Len(part[i + 1]) : part[i + 1][k] = Append(part[i], x[i + 1])[k]
      BY <2>4, <2>5, <2>6
    <3> QED
      BY <2>4, <2>6, <3>1, SeqEqual
  <2> QED
    BY <2>2, <2>3, <2>7
<1>6. part \in [0 .. Len(seqs) -> Seq(S)]
  BY <1>2
<1> HIDE DEF part
<1>7. Partial(part, seqs, S)
  BY <1>3, <1>5, <1>6 DEF Partial
<1> QED
  BY <1>4, <1>7, FlattenIs

\* Joining is associative.
AreSeqs(a, b, c, S) == a \in Seq(S) /\ b \in Seq(S) /\ c \in Seq(S)

LEMMA Associative ==
  ASSUME NEW S, NEW a, NEW b, NEW c, AreSeqs(a, b, c, S)
  PROVE  (a \o b) \o c = a \o (b \o c)
BY ConcatAssociative DEF AreSeqs

\* Flattening two sequences is flattening each.
LEMMA FlattenConcat ==
  ASSUME NEW S, NEW x \in Seq(Seq(S)), NEW y \in Seq(Seq(S))
  PROVE  FlattenSeq(x \o y) = FlattenSeq(x) \o FlattenSeq(y)
<1>1. PICK px : Partial(px, x, S) /\ FlattenSeq(x) = px[Len(x)]
  BY Flatten
<1>2. PICK py : Partial(py, y, S) /\ FlattenSeq(y) = py[Len(y)]
  BY Flatten
<1> DEFINE m == Len(x)
           n == Len(y)
           X == FlattenSeq(x)
           z == x \o y
           part == [i \in 0 .. m + n |-> IF i <= m THEN px[i] ELSE X \o py[i - m]]
<1>3. m \in Nat /\ n \in Nat
  BY LenProperties
<1>4. /\ z \in Seq(Seq(S)) /\ Len(z) = m + n
      /\ \A i \in 1 .. m + n : z[i] = IF i <= m THEN x[i] ELSE y[i - m]
  BY ConcatProperties
<1>5. /\ \A i \in 0 .. m : px[i] \in Seq(S)
      /\ \A i \in 0 .. n : py[i] \in Seq(S)
      /\ px[0] = <<>> /\ py[0] = <<>> /\ px[m] = X
      /\ \A i \in Nat : i < m => px[i + 1] = px[i] \o x[i + 1]
      /\ \A i \in Nat : i < n => py[i + 1] = py[i] \o y[i + 1]
  BY <1>1, <1>2 DEF Partial
<1>6. X \in Seq(S) /\ \A i \in 1 .. n : y[i] \in Seq(S)
  BY <1>1, <1>3, ElementOfSeq DEF Partial
<1>7. FlattenSeq(y) = py[n]
  BY <1>2
<1> HIDE DEF m, n, X, z
<1>8. \A i \in 1 .. n : z[m + i] = y[i]
  <2> SUFFICES ASSUME NEW i \in 1 .. n PROVE z[m + i] = y[i]
    OBVIOUS
  <2>1. m + i \in 1 .. m + n /\ ~(m + i <= m) /\ (m + i) - m = i
    BY <1>3
  <2> QED
    BY <1>4, <2>1
<1>9. \A i \in 0 .. m : part[i] = px[i]
  BY <1>3
<1>10. \A i \in 0 .. n : part[m + i] = X \o py[i]
  <2> SUFFICES ASSUME NEW i \in 0 .. n PROVE part[m + i] = X \o py[i]
    OBVIOUS
  <2>1. m + i \in 0 .. m + n /\ (m + i) - m = i /\ (m + i <= m <=> i = 0)
    BY <1>3
  <2>2. CASE i = 0
    <3>1. part[m + i] = px[m]
      BY <1>3, <1>9, <2>2
    <3> QED
      BY <1>5, <1>6, <2>2, <3>1, ConcatEmptySeq
  <2>3. CASE i # 0
    BY <2>1, <2>3
  <2> QED
    BY <2>2, <2>3
<1>11. part = [i \in 0 .. m + n |-> part[i]]
  OBVIOUS
<1> HIDE DEF part
<1>12. ASSUME NEW i \in 0 .. m + n
       PROVE  i \in 0 .. m \/ \E j \in 0 .. n : i = m + j
  <2>1. i \in 0 .. m \/ (i - m \in 0 .. n /\ i = m + (i - m))
    BY <1>3
  <2> QED
    BY <2>1
<1>13. \A i \in 0 .. m + n : part[i] \in Seq(S)
  <2>1. \A j \in 0 .. n : X \o py[j] \in Seq(S)
    BY <1>5, <1>6, ConcatProperties
  <2> QED
    BY <1>5, <1>9, <1>10, <1>12, <2>1
<1>14. ASSUME NEW i \in Nat, i < m + n PROVE part[i + 1] = part[i] \o z[i + 1]
  <2>1. CASE i < m
    <3>1. i \in 0 .. m /\ i + 1 \in 0 .. m /\ i + 1 <= m /\ i + 1 \in 1 .. m + n
      BY <1>3, <2>1
    <3>2. part[i] = px[i] /\ part[i + 1] = px[i + 1] /\ z[i + 1] = x[i + 1]
      BY <1>4, <1>9, <3>1
    <3> QED
      BY <1>5, <2>1, <3>2
  <2>2. ASSUME NEW j \in Nat, i = m + j PROVE part[i + 1] = part[i] \o z[i + 1]
    <3>1. j \in 0 .. n /\ j < n /\ j + 1 \in 0 .. n /\ j + 1 \in 1 .. n /\ i + 1 = m + (j + 1)
      BY <1>3, <1>14, <2>2
    <3>2. part[i] = X \o py[j]
      BY <1>10, <2>2, <3>1
    <3>3. part[i + 1] = X \o py[j + 1]
      BY <1>10, <3>1
    <3>4. z[i + 1] = y[j + 1]
      BY <1>8, <3>1
    <3>5. py[j + 1] = py[j] \o y[j + 1] /\ py[j] \in Seq(S) /\ y[j + 1] \in Seq(S)
      BY <1>5, <1>6, <3>1
    <3> DEFINE u == py[j]
               w == y[j + 1]
    <3>6. u \in Seq(S) /\ w \in Seq(S)
      BY <3>5
    <3> HIDE DEF u, w
    <3>7. X \in Seq(S)
      BY <1>6
    <3>8. (X \o u) \o w = X \o (u \o w)
      <4>1. AreSeqs(X, u, w, S)
        BY <3>6, <3>7 DEF AreSeqs
      <4> QED
        BY <4>1, Associative
    <3> QED
      BY <3>2, <3>3, <3>4, <3>5, <3>8 DEF u, w
  <2>3. i < m \/ \E j \in Nat : i = m + j
    <3>1. i < m \/ (i - m \in Nat /\ i = m + (i - m))
      BY <1>3, <1>14
    <3> QED
      BY <3>1
  <2> QED
    BY <2>1, <2>2, <2>3
<1>15. part[0] = <<>> /\ part[m + n] = X \o py[n]
  <2>1. 0 \in 0 .. m /\ n \in 0 .. n
    BY <1>3
  <2> QED
    BY <1>5, <1>9, <1>10, <2>1
<1>16. part \in [0 .. m + n -> Seq(S)]
  BY <1>11, <1>13
<1>17. Partial(part, z, S)
  BY <1>4, <1>16, <1>14, <1>15 DEF Partial
<1>18. FlattenSeq(z) = part[m + n]
  BY <1>4, <1>17, FlattenIs
<1> QED
  BY <1>7, <1>18, <1>15 DEF X, z


\* Where the sequences are in the flat one: sequence i begins behind offset[i - 1].
Places(offset, seqs, flat) ==
  /\ offset \in [0 .. Len(seqs) -> Nat] /\ offset[0] = 0
  /\ \A i \in 1 .. Len(seqs) : offset[i] = offset[i - 1] + Len(seqs[i])
  /\ \A i, l \in 0 .. Len(seqs) : i <= l => offset[i] <= offset[l]
  /\ Len(flat) = offset[Len(seqs)]
  /\ \A i \in 1 .. Len(seqs) : \A j \in 1 .. Len(seqs[i]) :
       /\ offset[i - 1] + j \in 1 .. Len(flat)
       /\ flat[offset[i - 1] + j] = seqs[i][j]
  /\ \A k \in 1 .. Len(flat) :
       \E i \in 1 .. Len(seqs) : \E j \in 1 .. Len(seqs[i]) : k = offset[i - 1] + j

LEMMA FlattenPlaces ==
  ASSUME NEW S, NEW seqs \in Seq(Seq(S))
  PROVE  \E offset : Places(offset, seqs, FlattenSeq(seqs))
<1>1. PICK part : Partial(part, seqs, S) /\ FlattenSeq(seqs) = part[Len(seqs)]
  BY Flatten
<1> DEFINE n == Len(seqs)
           flat == FlattenSeq(seqs)
           offset == [i \in 0 .. n |-> Len(part[i])]
<1>2. n \in Nat /\ \A i \in 1 .. n : seqs[i] \in Seq(S) /\ Len(seqs[i]) \in Nat
  BY LenProperties, ElementOfSeq
<1>3. /\ \A i \in 0 .. n : part[i] \in Seq(S)
      /\ part[0] = <<>> /\ flat = part[n]
      /\ \A i \in Nat : i < n => part[i + 1] = part[i] \o seqs[i + 1]
  BY <1>1 DEF Partial
<1>4. /\ offset \in [0 .. n -> Nat] /\ offset[0] = 0
      /\ \A i \in 0 .. n : offset[i] = Len(part[i]) /\ offset[i] \in Nat
  <2>1. \A i \in 0 .. n : Len(part[i]) \in Nat
    BY <1>3, LenProperties
  <2> QED
    BY <1>2, <1>3, <2>1
<1> HIDE DEF n, flat, offset
<1>5. ASSUME NEW i \in Nat, i < n
      PROVE  /\ offset[i + 1] = offset[i] + Len(seqs[i + 1])
             /\ \A k \in 1 .. offset[i] : part[i + 1][k] = part[i][k]
             /\ \A j \in 1 .. Len(seqs[i + 1]) : part[i + 1][offset[i] + j] = seqs[i + 1][j]
  <2>1. i \in 0 .. n /\ i + 1 \in 0 .. n /\ i + 1 \in 1 .. n
    BY <1>2, <1>5
  <2> DEFINE x == part[i]
             y == seqs[i + 1]
  <2>2. x \in Seq(S) /\ y \in Seq(S) /\ part[i + 1] = x \o y
    BY <1>2, <1>3, <1>5, <2>1
  <2>3. offset[i] = Len(x) /\ offset[i + 1] = Len(x \o y) /\ Len(x) \in Nat /\ Len(y) \in Nat
    BY <1>2, <1>4, <2>1, <2>2
  <2> HIDE DEF x, y
  <2>4. /\ Len(x \o y) = Len(x) + Len(y)
        /\ \A k \in 1 .. Len(x) + Len(y) :
             (x \o y)[k] = IF k <= Len(x) THEN x[k] ELSE y[k - Len(x)]
    BY <2>2, ConcatProperties
  <2>5. ASSUME NEW k \in 1 .. Len(x) PROVE (x \o y)[k] = x[k]
    <3>1. k \in 1 .. Len(x) + Len(y) /\ k <= Len(x)
      BY <2>3
    <3> QED
      BY <2>4, <3>1
  <2>6. ASSUME NEW j \in 1 .. Len(y) PROVE (x \o y)[Len(x) + j] = y[j]
    <3>1. Len(x) + j \in 1 .. Len(x) + Len(y) /\ ~(Len(x) + j <= Len(x))
          /\ (Len(x) + j) - Len(x) = j
      BY <2>3
    <3> QED
      BY <2>4, <3>1
  <2> QED
    BY <2>2, <2>3, <2>4, <2>5, <2>6 DEF x, y
<1> DEFINE Found(m) ==
             /\ \A i \in 0 .. m : offset[i] <= offset[m]
             /\ \A i \in 1 .. m : \A j \in 1 .. Len(seqs[i]) :
                  /\ offset[i - 1] + j \in 1 .. offset[m]
                  /\ part[m][offset[i - 1] + j] = seqs[i][j]
             /\ \A k \in 1 .. offset[m] :
                  \E i \in 1 .. m : \E j \in 1 .. Len(seqs[i]) : k = offset[i - 1] + j
           Good == {m \in 0 .. n : Found(m)}
<1>6. 0 \in Good
  BY <1>2, <1>4
<1>7. ASSUME NEW m \in Nat, m < n, m \in Good PROVE m + 1 \in Good
  <2>1. m \in 0 .. n /\ m + 1 \in 0 .. n /\ m + 1 \in 1 .. n /\ (m + 1) - 1 = m
    BY <1>2, <1>7
  <2>2. /\ offset[m + 1] = offset[m] + Len(seqs[m + 1])
        /\ \A k \in 1 .. offset[m] : part[m + 1][k] = part[m][k]
        /\ \A j \in 1 .. Len(seqs[m + 1]) : part[m + 1][offset[m] + j] = seqs[m + 1][j]
    BY <1>5, <1>7
  <2>3. offset[m] \in Nat /\ offset[m + 1] \in Nat /\ Len(seqs[m + 1]) \in Nat
    BY <1>2, <1>4, <2>1
  <2>4. Found(m)
    BY <1>7
  <2>5. ASSUME NEW i \in 0 .. m + 1 PROVE offset[i] <= offset[m + 1]
    <3>1. i \in 0 .. m \/ i = m + 1
      BY <2>5
    <3>2. i \in 0 .. n /\ offset[i] \in Nat
      BY <1>2, <1>4, <1>7
    <3>3. CASE i \in 0 .. m
      <4>1. offset[i] <= offset[m]
        BY <2>4, <3>3
      <4> QED
        BY <2>2, <2>3, <3>2, <4>1
    <3> QED
      BY <2>3, <3>1, <3>3
  <2>6. ASSUME NEW i \in 1 .. m + 1, NEW j \in 1 .. Len(seqs[i])
        PROVE  /\ offset[i - 1] + j \in 1 .. offset[m + 1]
               /\ part[m + 1][offset[i - 1] + j] = seqs[i][j]
    <3>1. i \in 1 .. m \/ i = m + 1
      BY <2>6
    <3>2. CASE i \in 1 .. m
      <4>1. offset[i - 1] + j \in 1 .. offset[m] /\ part[m][offset[i - 1] + j] = seqs[i][j]
        BY <2>4, <3>2
      <4>2. part[m + 1][offset[i - 1] + j] = part[m][offset[i - 1] + j]
        BY <2>2, <4>1
      <4>3. offset[i - 1] + j \in 1 .. offset[m + 1]
        BY <2>2, <2>3, <4>1
      <4> QED
        BY <4>1, <4>2, <4>3
    <3>3. CASE i = m + 1
      <4>1. offset[i - 1] = offset[m]
        BY <2>1, <3>3
      <4>2. j \in 1 .. Len(seqs[m + 1]) /\ offset[m] + j \in 1 .. offset[m + 1]
        BY <2>2, <2>3, <3>3
      <4> QED
        BY <2>2, <3>3, <4>1, <4>2
    <3> QED
      BY <3>1, <3>2, <3>3
  <2>7. ASSUME NEW k \in 1 .. offset[m + 1]
        PROVE  \E i \in 1 .. m + 1 : \E j \in 1 .. Len(seqs[i]) : k = offset[i - 1] + j
    <3>1. k \in 1 .. offset[m] \/ k - offset[m] \in 1 .. Len(seqs[m + 1])
      BY <2>2, <2>3
    <3>2. CASE k \in 1 .. offset[m]
      <4>1. PICK i \in 1 .. m : \E j \in 1 .. Len(seqs[i]) : k = offset[i - 1] + j
        BY <2>4, <3>2
      <4>2. i \in 1 .. m + 1
        OBVIOUS
      <4> QED
        BY <4>1, <4>2
    <3>3. CASE k - offset[m] \in 1 .. Len(seqs[m + 1])
      <4>1. k = offset[(m + 1) - 1] + (k - offset[m])
        BY <2>1, <2>3
      <4>2. m + 1 \in 1 .. m + 1
        OBVIOUS
      <4> QED
        BY <3>3, <4>1, <4>2
    <3> QED
      BY <3>1, <3>2, <3>3
  <2>8. Found(m + 1)
    BY <2>5, <2>6, <2>7
  <2> QED
    BY <2>1, <2>8
<1>8. ASSUME NEW m \in 0 .. n PROVE Found(m)
  <2> HIDE DEF Good
  <2>1. \A i \in 0 .. n : i \in Good
    BY <1>2, <1>6, <1>7, Induction
  <2> QED
    BY <2>1 DEF Good
<1>9. ASSUME NEW i \in 1 .. n PROVE offset[i] = offset[i - 1] + Len(seqs[i])
  <2>1. i - 1 \in Nat /\ i - 1 < n /\ (i - 1) + 1 = i
    BY <1>2
  <2> QED
    BY <1>5, <2>1
<1>10. \A i, l \in 0 .. n : i <= l => offset[i] <= offset[l]
  <2> SUFFICES ASSUME NEW l \in 0 .. n, NEW i \in 0 .. n, i <= l PROVE offset[i] <= offset[l]
    OBVIOUS
  <2>1. i \in 0 .. l
    OBVIOUS
  <2> QED
    BY <1>8, <2>1
<1>11. n \in 0 .. n /\ Len(flat) = offset[n]
  BY <1>2, <1>3, <1>4
<1>12. Found(n)
  BY <1>8, <1>11
<1>13. Places(offset, seqs, flat)
  <2>1. \A i \in 1 .. n : \A j \in 1 .. Len(seqs[i]) :
          /\ offset[i - 1] + j \in 1 .. Len(flat)
          /\ flat[offset[i - 1] + j] = seqs[i][j]
    BY <1>3, <1>11, <1>12
  <2>2. \A k \in 1 .. Len(flat) :
          \E i \in 1 .. n : \E j \in 1 .. Len(seqs[i]) : k = offset[i - 1] + j
    BY <1>11, <1>12
  <2> HIDE DEF Found, Good
  <2> QED
    BY <1>4, <1>9, <1>10, <1>11, <2>1, <2>2 DEF Places, n
<1> QED
  BY <1>13 DEF flat

\* One sequence more is joined at the end.
LEMMA FlattenMore ==
  ASSUME NEW S, NEW seqs \in Seq(Seq(S)), NEW x \in Seq(S)
  PROVE  FlattenSeq(Append(seqs, x)) = FlattenSeq(seqs) \o x
<1> DEFINE one == <<x>>
<1>1. one \in Seq(Seq(S)) /\ Len(one) = 1 /\ one[1] = x
  OBVIOUS
<1>2. Append(seqs, x) = seqs \o one
  BY AppendIsConcat
<1> HIDE DEF one
<1>3. FlattenSeq(one) = one[1]
  BY <1>1, FlattenOnly
<1> QED
  BY <1>1, <1>2, <1>3, FlattenConcat

\* Every element of the sequences is among those of the flat one.
LEMMA FlattenHas ==
  ASSUME NEW S, NEW seqs \in Seq(Seq(S)), NEW i \in 1 .. Len(seqs), NEW j \in 1 .. Len(seqs[i])
  PROVE  \E k \in 1 .. Len(FlattenSeq(seqs)) : FlattenSeq(seqs)[k] = seqs[i][j]
<1>1. PICK offset : Places(offset, seqs, FlattenSeq(seqs))
  BY FlattenPlaces
<1> QED
  BY <1>1 DEF Places

=============================================================================
