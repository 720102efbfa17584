---------------------------- MODULE PluginProofs ----------------------------
(* Theorems about Plugin, for any requests, checksums and ranges of numbers:   *)
(* numbers stay in range, a crash has a reason that can be named, protoc       *)
(* rejects a response only for a reason, too, and each response type has one   *)
(* holder of errors.                                                           *)

EXTENDS Plugin, FlattenLemmas, FiniteSetTheorems, TLAPS

MethodTypes == [full : Seq(STRING), output : STRING]

-----------------------------------------------------------------------------
(* Requests, their files and methods.                                          *)

\* The elements of a sequence are its range.
LEMMA RangeOf ==
  ASSUME NEW S, NEW s \in Seq(S)
  PROVE  /\ DOMAIN s = 1 .. Len(s) /\ Len(s) \in Nat
         /\ \A k \in DOMAIN s : s[k] \in S /\ s[k] \in Range(s)
         /\ \A x \in Range(s) : x \in S /\ \E k \in DOMAIN s : x = s[k]
BY DEF Range

\* A function on the indices of a sequence is one, too.
LEMMA IsSequence ==
  ASSUME NEW S, NEW n \in Nat, NEW f, DOMAIN f = 1 .. n, f = [k \in 1 .. n |-> f[k]],
         \A k \in 1 .. n : f[k] \in S
  PROVE  f \in Seq(S) /\ Len(f) = n
<1>1. f \in [1 .. n -> S]
  OBVIOUS
<1> QED
  BY <1>1

LEMMA FilesTyped ==
  ASSUME request \in Requests
  PROVE  /\ request \in Seq(FileTypes) /\ Len(request) \in Nat
         /\ DOMAIN request = 1 .. Len(request)
         /\ \A k \in DOMAIN request : request[k] \in FileTypes /\ request[k] \in Range(request)
         /\ \A file \in Range(request) : \E k \in DOMAIN request : file = request[k]
<1>1. request \in Seq(FileTypes)
  BY RequestAssumption DEF RequestAssumption
<1> QED
  BY <1>1, RangeOf

LEMMA MethodsTyped ==
  ASSUME NEW file \in FileTypes
  PROVE  /\ MethodsOf(file) \in Seq(MethodTypes)
         /\ \A k \in DOMAIN MethodsOf(file) : MethodsOf(file)[k] \in MethodTypes
         /\ MethodsOf(file) # <<>> => file.services # <<>>
<1> DEFINE s == file.services
           n == Len(s)
           seqs == [k \in DOMAIN s |-> s[k].methods]
<1>1. s \in Seq(Services)
  BY DEF FileTypes
<1>2. n \in Nat /\ DOMAIN s = 1 .. n /\ \A k \in 1 .. n : s[k] \in Services
  BY <1>1, RangeOf
<1>3. \A k \in 1 .. n : s[k].methods \in Seq(MethodTypes)
  BY <1>2 DEF Services, MethodTypes
<1>4. seqs \in Seq(Seq(MethodTypes)) /\ Len(seqs) = n
  <2>1. DOMAIN seqs = 1 .. n /\ seqs = [k \in 1 .. n |-> seqs[k]]
        /\ \A k \in 1 .. n : seqs[k] \in Seq(MethodTypes)
    BY <1>2, <1>3
  <2> HIDE DEF seqs
  <2> QED
    BY <1>2, <2>1, IsSequence
<1>5. MethodsOf(file) = FlattenSeq(seqs)
  BY DEF MethodsOf
<1> HIDE DEF seqs, s
<1>6. MethodsOf(file) \in Seq(MethodTypes)
  BY <1>4, <1>5, FlattenElements
<1>7. ASSUME s = <<>> PROVE MethodsOf(file) = <<>>
  <2>1. Len(seqs) = 0
    BY <1>4, <1>7
  <2>2. seqs = <<>>
    BY <1>4, <2>1
  <2> QED
    BY <1>5, <2>1, <2>2 DEF FlattenSeq
<1> QED
  BY <1>6, <1>7, RangeOf DEF s

\* The methods of a request, by where they are.
LEMMA MethodNames ==
  ASSUME request \in Requests
  PROVE  /\ \A k \in DOMAIN request : \A a \in DOMAIN MethodsOf(request[k]) :
              MethodsOf(request[k])[a].full \in Methods
         /\ \A m \in Methods : m \in Seq(STRING)
<1>1. ASSUME NEW k \in DOMAIN request, NEW a \in DOMAIN MethodsOf(request[k])
      PROVE  MethodsOf(request[k])[a].full \in Methods
  <2>1. request[k] \in Range(request) /\ request[k] \in FileTypes
    BY FilesTyped
  <2>2. MethodsOf(request[k])[a] \in Range(MethodsOf(request[k]))
    BY <2>1, MethodsTyped, RangeOf
  <2> QED
    BY <2>1, <2>2 DEF Methods
<1>2. ASSUME NEW m \in Methods PROVE m \in Seq(STRING)
  <2>1. PICK file \in Range(request) : m \in {x.full : x \in Range(MethodsOf(file))}
    BY DEF Methods
  <2>2. PICK x \in Range(MethodsOf(file)) : m = x.full
    BY <2>1
  <2>3. x \in MethodTypes
    BY FilesTyped, MethodsTyped, RangeOf
  <2> QED
    BY <2>2, <2>3 DEF MethodTypes
<1> QED
  BY <1>1, <1>2

\* No two methods of a request have the same full name.
LEMMA NamesDiffer ==
  ASSUME request \in Requests, NEW k \in DOMAIN request, NEW l \in DOMAIN request,
         NEW a \in DOMAIN MethodsOf(request[k]), NEW b \in DOMAIN MethodsOf(request[l]),
         MethodsOf(request[k])[a].full = MethodsOf(request[l])[b].full
  PROVE  k = l /\ a = b
BY RequestAssumption DEF RequestAssumption

-----------------------------------------------------------------------------
(* Numbers.                                                                    *)

\* Scaling by h / u with h <= u does not enlarge.
LEMMA Scaled ==
  ASSUME NEW a \in Nat, NEW u \in Nat \ {0}, NEW h \in 0 .. u
  PROVE  (a * h) \div u \in 0 .. a
<1> DEFINE x == a * h
           q == x \div u
<1>1. x \in Nat /\ x <= a * u /\ a * u \in Nat
  OBVIOUS
<1> HIDE DEF x
<1>2. q \in Nat
  BY <1>1
<1>3. q * u <= x
  BY <1>1
<1> HIDE DEF q
<1>4. q <= a
  <2>1. CASE q >= a + 1
    <3>1. q * u >= (a + 1) * u
      BY <1>2, <2>1
    <3>2. (a + 1) * u = a * u + u
      OBVIOUS
    <3>3. q * u \in Nat
      BY <1>2
    <3> QED
      BY <1>1, <1>3, <3>1, <3>2, <3>3
  <2> QED
    BY <1>2, <2>1
<1> QED
  BY <1>2, <1>4 DEF q, x

LEMMA NumberInRange ==
  ASSUME NEW h \in Hashes
  PROVE  GenerateExtensionNumber(h) \in MinNumber .. MaxNumber
<1>1. /\ MinNumber \in Nat /\ MaxNumber \in Nat /\ FirstReserved \in Nat /\ LastReserved \in Nat
      /\ MinNumber < FirstReserved /\ FirstReserved <= LastReserved /\ LastReserved < MaxNumber
      /\ UintMax \in Nat \ {0} /\ h \in 0 .. UintMax
  BY NumberAssumption DEF NumberAssumption
<1>2. Cardinality(Reserved) = LastReserved - FirstReserved + 1
  BY <1>1, FS_Interval DEF Reserved
<1>3. Available \in Nat /\ Available <= MaxNumber - MinNumber
  BY <1>1, <1>2 DEF Available
<1>4. (Available * h) \div UintMax \in 0 .. Available
  BY <1>1, <1>3, Scaled
<1> HIDE DEF Available
<1> QED
  BY <1>1, <1>3, <1>4 DEF GenerateExtensionNumber

\* A number that protobuf refuses is reported.
LEMMA RefusedIsInvalid ==
  ASSUME NEW number \in Int, number \in Reserved \/ number \notin 1 .. MaxNumber
  PROVE  ~IsValidExtensionNumber(number)
BY NumberAssumption DEF NumberAssumption, IsValidExtensionNumber

-----------------------------------------------------------------------------
(* Extensions.                                                                 *)

Directions == {"request", "response"}

\* The words names are made of.
Words == STRING \cup Directions
           \cup {"_", "_rpc", ".pb.h", ".pb.cc", "_Proxy.pb.cc", "_Dispatcher.pb.h",
                 "_Dispatcher.pb.cc", "_Handler.pb.h", "_Handler.pb.cc", "includes", "class_scope"}
Texts == Seq(Words)
ExtensionTypes == [name : Texts, extendee : Directions, number : Int]

LEMMA Worded ==
  ASSUME NEW s \in Seq(STRING)
  PROVE  s \in Texts
<1>1. Len(s) \in Nat /\ DOMAIN s = 1 .. Len(s) /\ \A k \in DOMAIN s : s[k] \in STRING
  BY RangeOf
<1> DEFINE n == Len(s)
<1>2. n \in Nat /\ DOMAIN s = 1 .. n /\ s = [k \in 1 .. n |-> s[k]]
  BY <1>1
<1>3. \A k \in 1 .. n : s[k] \in Words
  BY <1>1 DEF Words
<1> HIDE DEF n
<1>4. s \in Seq(Words)
  BY <1>2, <1>3, IsSequence
<1> QED
  BY <1>4 DEF Texts

\* What a method is called after.
LEMMA ExtensionNames ==
  ASSUME NEW m \in Seq(STRING)
  PROVE  ToExtensionName(m) \in Texts
<1> DEFINE f == ToExtensionName(m)
           n == Len(m)
<1>1. n \in Nat /\ DOMAIN m = 1 .. n /\ \A k \in DOMAIN m : m[k] \in STRING
  BY RangeOf
<1>2. f = [k \in 1 .. n |-> IF m[k] = "." THEN "_" ELSE m[k]]
  BY <1>1 DEF ToExtensionName
<1> HIDE DEF f, n
<1>3. DOMAIN f = 1 .. n /\ \A k \in 1 .. n : f[k] \in Words
  BY <1>1, <1>2 DEF Words
<1>4. f = [k \in 1 .. n |-> f[k]]
  BY <1>2
<1>5. f \in Seq(Words)
  BY <1>1, <1>3, <1>4, IsSequence
<1> QED
  BY <1>5 DEF Texts, f

LEMMA PairIs ==
  ASSUME NEW S, NEW a \in S, NEW b \in S
  PROVE  <<a, b>> \in Seq(S) /\ Len(<<a, b>>) = 2 /\ <<a, b>>[1] = a /\ <<a, b>>[2] = b
OBVIOUS

\* Texts that end in the same number of words are equal if the whole is.
SameText(x, u, y, v) == Len(u) = Len(v) /\ x \o u = y \o v

LEMMA SameBeginning ==
  ASSUME NEW x \in Texts, NEW y \in Texts, NEW u \in Texts, NEW v \in Texts,
         SameText(x, u, y, v)
  PROVE  x = y /\ u = v
<1>0. x \in Seq(Words) /\ y \in Seq(Words) /\ u \in Seq(Words) /\ v \in Seq(Words)
  BY DEF Texts
<1> DEFINE m == Len(x)
           n == Len(y)
           c == Len(u)
<1>1. m \in Nat /\ n \in Nat /\ c \in Nat /\ c = Len(v) /\ x \o u = y \o v
  BY <1>0, LenProperties DEF SameText
<1>2. /\ Len(x \o u) = m + c
      /\ \A k \in 1 .. m + c : (x \o u)[k] = IF k <= m THEN x[k] ELSE u[k - m]
  BY <1>0, ConcatProperties
<1>3. /\ Len(y \o v) = n + c
      /\ \A k \in 1 .. n + c : (y \o v)[k] = IF k <= n THEN y[k] ELSE v[k - n]
  BY <1>0, <1>1, ConcatProperties
<1>4. m = n
  <2> HIDE DEF m, n, c
  <2> QED
    BY <1>1, <1>2, <1>3
<1>5. \A k \in 1 .. m : x[k] = y[k]
  <2> SUFFICES ASSUME NEW k \in 1 .. m PROVE x[k] = y[k]
    OBVIOUS
  <2> HIDE DEF m, n, c
  <2>1. k \in 1 .. m + c /\ k <= m
    BY <1>1
  <2> QED
    BY <1>1, <1>2, <1>3, <1>4, <2>1
<1>6. \A k \in 1 .. c : u[k] = v[k]
  <2> SUFFICES ASSUME NEW k \in 1 .. c PROVE u[k] = v[k]
    OBVIOUS
  <2> HIDE DEF m, n, c
  <2>1. m + k \in 1 .. m + c /\ ~(m + k <= m) /\ (m + k) - m = k
    BY <1>1
  <2> QED
    BY <1>1, <1>2, <1>3, <1>4, <2>1
<1> QED
  BY <1>0, <1>1, <1>4, <1>5, <1>6, SeqEqual

\* Extensions of one name are of methods with one extension name.
LEMMA NamesEqual ==
  ASSUME NEW x \in Texts, NEW y \in Texts, NEW s \in Directions, NEW t \in Directions,
         x \o <<"_", s>> = y \o <<"_", t>>
  PROVE  x = y /\ s = t
<1> DEFINE u == <<"_", s>>
           v == <<"_", t>>
<1>1. u \in Seq(Words) /\ v \in Seq(Words) /\ Len(u) = Len(v) /\ u[2] = s /\ v[2] = t
  <2>1. "_" \in Words /\ s \in Words /\ t \in Words
    BY DEF Words
  <2> QED
    BY <2>1, PairIs
<1>2. x \in Seq(Words) /\ y \in Seq(Words) /\ x \o u = y \o v
  BY DEF Texts
<1> HIDE DEF u, v
<1>3. x = y /\ u = v
  <2>1. u \in Texts /\ v \in Texts
    BY <1>1 DEF Texts
  <2>2. SameText(x, u, y, v)
    BY <1>1, <1>2 DEF SameText
  <2> QED
    BY <2>1, <2>2, SameBeginning
<1> QED
  BY <1>1, <1>3

IsOneOrTwo(y, e, f) == y = <<e>> \o <<>> \/ y = <<e>> \o <<f>>

LEMMA OneOrTwo ==
  ASSUME NEW S, NEW e \in S, NEW f \in S, NEW y, IsOneOrTwo(y, e, f)
  PROVE  /\ y \in Seq(S)
         /\ \A j \in 1 .. Len(y) : (j = 1 /\ y[j] = e) \/ (j = 2 /\ y[j] = f)
<1> DEFINE u == <<e>>
           v == <<f>>
           w == <<>>
<1>1. /\ u \in Seq(S) /\ Len(u) = 1 /\ u[1] = e
      /\ v \in Seq(S) /\ Len(v) = 1 /\ v[1] = f
      /\ w \in Seq(S) /\ Len(w) = 0
  OBVIOUS
<1>2. y = u \o w \/ y = u \o v
  BY DEF IsOneOrTwo
<1> HIDE DEF u, v, w
<1>3. CASE y = u \o w
  <2>1. y \in Seq(S) /\ Len(y) = 1 /\ y[1] = e
    BY <1>1, <1>3, ConcatProperties
  <2> QED
    BY <2>1
<1>4. CASE y = u \o v
  <2>1. /\ y \in Seq(S)
        /\ Len(y) = 1 + 1
    <3>1. u \o v \in Seq(S) /\ Len(u \o v) = Len(u) + Len(v)
      BY <1>1, ConcatProperties
    <3> QED
      BY <1>1, <1>4, <3>1
  <2>2. y[1] = e
    BY <1>1, <1>4, ConcatProperties
  <2>3. y[1 + 1] = f
    <3>1. \A k \in 1 .. Len(v) : y[Len(u) + k] = v[k]
      BY <1>1, <1>4, ConcatProperties
    <3> QED
      BY <1>1, <3>1
  <2> QED
    BY <2>1, <2>2, <2>3
<1> QED
  BY <1>2, <1>3, <1>4

\* The extensions of a method.
LEMMA MethodExtensionsAre ==
  ASSUME request \in Requests, hash \in [Methods -> Hashes], NEW m \in MethodTypes,
         m.full \in Methods
  PROVE  /\ MethodExtensions(m) \in Seq(ExtensionTypes)
         /\ \A j \in 1 .. Len(MethodExtensions(m)) : \E s \in Directions :
              /\ MethodExtensions(m)[j].name = ToExtensionName(m.full) \o <<"_", s>>
              /\ MethodExtensions(m)[j].extendee = s
              /\ MethodExtensions(m)[j].number = GenerateExtensionNumber(hash[m.full])
              /\ s = "request" <=> j = 1
              /\ j \in {1, 2}
<1> DEFINE x == ToExtensionName(m.full)
           h == GenerateExtensionNumber(hash[m.full])
           e == [name |-> x \o <<"_", "request">>, extendee |-> "request", number |-> h]
           f == [name |-> x \o <<"_", "response">>, extendee |-> "response", number |-> h]
<1>1. x \in Texts
  BY ExtensionNames, MethodNames
<1>2. h \in Int
  <2>1. hash[m.full] \in Hashes
    OBVIOUS
  <2>2. h \in MinNumber .. MaxNumber
    BY <2>1, NumberInRange
  <2> QED
    BY <2>2, NumberAssumption DEF NumberAssumption
<1>3. ASSUME NEW s \in Directions PROVE x \o <<"_", s>> \in Texts
  <2>1. "_" \in Words /\ s \in Words
    BY DEF Words
  <2>2. <<"_", s>> \in Seq(Words)
    BY <2>1, PairIs
  <2> HIDE DEF x
  <2> QED
    BY <1>1, <2>2, ConcatProperties DEF Texts
<1>4. e \in ExtensionTypes /\ f \in ExtensionTypes
  <2>1. "request" \in Directions /\ "response" \in Directions
    BY DEF Directions
  <2>2. e.name \in Texts /\ f.name \in Texts
    BY <1>3, <2>1
  <2> HIDE DEF x, h
  <2> QED
    BY <1>2, <2>1, <2>2 DEF ExtensionTypes
<1>5. /\ e.name = x \o <<"_", "request">> /\ e.extendee = "request" /\ e.number = h
      /\ f.name = x \o <<"_", "response">> /\ f.extendee = "response" /\ f.number = h
  OBVIOUS
<1> DEFINE y == MethodExtensions(m)
<1>6. IsOneOrTwo(y, e, f)
  BY DEF MethodExtensions, ExtensionName, IsOneOrTwo
<1> HIDE DEF e, f, x, h, y
<1>9. y \in Seq(ExtensionTypes)
  BY <1>4, <1>6, OneOrTwo
<1>10. ASSUME NEW j \in 1 .. Len(y)
       PROVE  (j = 1 /\ y[j] = e) \/ (j = 2 /\ y[j] = f)
  BY <1>4, <1>6, OneOrTwo
<1>11. "request" \in Directions /\ "response" \in Directions /\ "request" # "response"
  BY DEF Directions
<1>12. ASSUME NEW j \in 1 .. Len(y)
       PROVE  \E s \in Directions :
                /\ y[j].name = x \o <<"_", s>>
                /\ y[j].extendee = s
                /\ y[j].number = h
                /\ s = "request" <=> j = 1
                /\ j \in {1, 2}
  <2> DEFINE Named(s) == y[j].name = x \o <<"_", s>> /\ y[j].extendee = s
  <2>1. CASE j = 1 /\ y[j] = e
    <3>1. Named("request") /\ y[j].number = h
      BY <1>5, <2>1
    <3> HIDE DEF Named
    <3>2. \E s \in Directions : Named(s) /\ y[j].number = h /\ (s = "request" <=> j = 1)
      BY <1>11, <2>1, <3>1
    <3> QED
      BY <2>1, <3>2 DEF Named
  <2>2. CASE j = 2 /\ y[j] = f
    <3>1. Named("response") /\ y[j].number = h
      BY <1>5, <2>2
    <3> HIDE DEF Named
    <3>2. \E s \in Directions : Named(s) /\ y[j].number = h /\ (s = "request" <=> j = 1)
      BY <1>11, <2>2, <3>1
    <3> QED
      BY <2>2, <3>2 DEF Named
  <2> QED
    BY <1>10, <2>1, <2>2
<1> QED
  BY <1>9, <1>12 DEF x, h, y

\* Where an extension is from.
FromMethod(e, methods, a, s) ==
  /\ a \in DOMAIN methods /\ s \in Directions
  /\ e.name = ToExtensionName(methods[a].full) \o <<"_", s>> /\ e.extendee = s
  /\ e.number = GenerateExtensionNumber(hash[methods[a].full])

\* Extensions of a file are from its methods, different ones from different
\* methods or with different suffixes.
LEMMA ExtensionsFrom ==
  ASSUME request \in Requests, hash \in [Methods -> Hashes], NEW p \in DOMAIN request
  PROVE  /\ Extensions(request[p]) \in Seq(ExtensionTypes)
         /\ \A k \in DOMAIN Extensions(request[p]) :
              \E a \in DOMAIN MethodsOf(request[p]), s \in Directions :
                FromMethod(Extensions(request[p])[k], MethodsOf(request[p]), a, s)
         /\ \A k, l \in DOMAIN Extensions(request[p]) : k # l =>
              \E a, b \in DOMAIN MethodsOf(request[p]), s, t \in Directions :
                /\ FromMethod(Extensions(request[p])[k], MethodsOf(request[p]), a, s)
                /\ FromMethod(Extensions(request[p])[l], MethodsOf(request[p]), b, t)
                /\ a # b \/ s # t
<1> DEFINE methods == MethodsOf(request[p])
           n == Len(methods)
           seqs == [k \in DOMAIN methods |-> MethodExtensions(methods[k])]
           flat == FlattenSeq(seqs)
<1>1. request[p] \in FileTypes
  BY FilesTyped
<1>2. methods \in Seq(MethodTypes)
  BY <1>1, MethodsTyped
<1>3. n \in Nat /\ DOMAIN methods = 1 .. n /\ \A k \in 1 .. n : methods[k] \in MethodTypes
  <2> HIDE DEF methods
  <2> QED
    BY <1>2, RangeOf
<1>4. \A k \in 1 .. n : methods[k].full \in Methods
  BY <1>3, MethodNames
<1>5. Extensions(request[p]) = flat
  BY DEF Extensions
<1>6. seqs = [k \in 1 .. n |-> MethodExtensions(methods[k])]
  BY <1>3
<1> HIDE DEF methods, n, seqs, flat
<1>7. ASSUME NEW k \in 1 .. n
      PROVE  /\ seqs[k] \in Seq(ExtensionTypes)
             /\ \A j \in 1 .. Len(seqs[k]) : \E s \in Directions :
                  /\ FromMethod(seqs[k][j], methods, k, s)
                  /\ (s = "request" <=> j = 1) /\ j \in {1, 2}
  <2>1. seqs[k] = MethodExtensions(methods[k]) /\ k \in DOMAIN methods
    BY <1>3, <1>6
  <2>2. methods[k] \in MethodTypes /\ methods[k].full \in Methods
    BY <1>3, <1>4
  <2>3. MethodExtensions(methods[k]) \in Seq(ExtensionTypes)
    BY <2>2, MethodExtensionsAre
  <2>4. ASSUME NEW j \in 1 .. Len(seqs[k])
        PROVE  \E s \in Directions :
                 /\ FromMethod(seqs[k][j], methods, k, s)
                 /\ (s = "request" <=> j = 1) /\ j \in {1, 2}
    <3>1. j \in 1 .. Len(MethodExtensions(methods[k]))
      BY <2>1
    <3>2. PICK s \in Directions :
            /\ MethodExtensions(methods[k])[j].name
                 = ToExtensionName(methods[k].full) \o <<"_", s>>
            /\ MethodExtensions(methods[k])[j].extendee = s
            /\ MethodExtensions(methods[k])[j].number
                 = GenerateExtensionNumber(hash[methods[k].full])
            /\ s = "request" <=> j = 1
            /\ j \in {1, 2}
      BY <2>2, <3>1, MethodExtensionsAre
    <3> QED
      BY <2>1, <3>2 DEF FromMethod
  <2> QED
    BY <2>1, <2>3, <2>4
<1>8. seqs \in Seq(Seq(ExtensionTypes)) /\ Len(seqs) = n
  <2>1. DOMAIN seqs = 1 .. n /\ seqs = [k \in 1 .. n |-> seqs[k]]
    BY <1>6
  <2> QED
    BY <1>3, <1>7, <2>1, IsSequence
<1>9. PICK offset : Places(offset, seqs, flat)
  BY <1>8, FlattenPlaces DEF flat
<1>10. flat \in Seq(ExtensionTypes)
  BY <1>8, FlattenElements DEF flat
<1>11. DOMAIN flat = 1 .. Len(flat)
  BY <1>10
<1> DEFINE At(k, a, j, t) ==
             /\ a \in 1 .. n /\ j \in {1, 2} /\ t \in Directions /\ k = offset[a - 1] + j
             /\ (t = "request" <=> j = 1) /\ FromMethod(flat[k], methods, a, t)
<1>12. ASSUME NEW k \in DOMAIN flat
       PROVE  \E a \in 1 .. n, j \in {1, 2}, t \in Directions : At(k, a, j, t)
  <2>1. PICK a \in 1 .. n : \E j \in 1 .. Len(seqs[a]) : k = offset[a - 1] + j
    BY <1>8, <1>9, <1>11 DEF Places
  <2>2. PICK j \in 1 .. Len(seqs[a]) : k = offset[a - 1] + j
    BY <2>1
  <2>3. flat[k] = seqs[a][j]
    BY <1>8, <1>9, <2>2 DEF Places
  <2>4. PICK t \in Directions : /\ FromMethod(seqs[a][j], methods, a, t)
                                /\ (t = "request" <=> j = 1) /\ j \in {1, 2}
    BY <1>7
  <2> QED
    BY <2>2, <2>3, <2>4
<1>13. ASSUME NEW k \in DOMAIN flat, NEW l \in DOMAIN flat, k # l
       PROVE  \E a, b \in DOMAIN methods, s, t \in Directions :
                /\ FromMethod(flat[k], methods, a, s) /\ FromMethod(flat[l], methods, b, t)
                /\ a # b \/ s # t
  <2>1. PICK a \in 1 .. n, j \in {1, 2}, s \in Directions : At(k, a, j, s)
    BY <1>12
  <2>2. PICK b \in 1 .. n, m \in {1, 2}, t \in Directions : At(l, b, m, t)
    BY <1>12
  <2>3. a # b \/ s # t
    <3> SUFFICES ASSUME a = b, s = t PROVE FALSE
      OBVIOUS
    <3>1. j = m
      BY <2>1, <2>2
    <3> QED
      BY <1>13, <2>1, <2>2, <3>1
  <2>4. a \in DOMAIN methods /\ b \in DOMAIN methods
    BY <1>3
  <2>5. FromMethod(flat[k], methods, a, s) /\ FromMethod(flat[l], methods, b, t)
    BY <2>1, <2>2
  <2> QED
    BY <2>3, <2>4, <2>5
<1>14. \A k \in DOMAIN flat :
         \E a \in DOMAIN methods, s \in Directions : FromMethod(flat[k], methods, a, s)
  BY <1>3, <1>12
<1> QED
  BY <1>5, <1>10, <1>13, <1>14 DEF methods

\* The name of an extension of method a of file p.
NameOf(x, p, a, s) == x = ToExtensionName(MethodsOf(request[p])[a].full) \o <<"_", s>>

\* Two extensions of one name are of two methods with one extension name.
LEMMA TwoMethods ==
  ASSUME request \in Requests, NEW x,
         NEW p \in DOMAIN request, NEW a \in DOMAIN MethodsOf(request[p]), NEW s \in Directions,
         NEW q \in DOMAIN request, NEW b \in DOMAIN MethodsOf(request[q]), NEW t \in Directions,
         NameOf(x, p, a, s), NameOf(x, q, b, t), p # q \/ a # b \/ s # t
  PROVE  SameExtensionName
<1> DEFINE m == MethodsOf(request[p])[a].full
           n == MethodsOf(request[q])[b].full
<1>1. m \in Methods /\ n \in Methods /\ m \in Seq(STRING) /\ n \in Seq(STRING)
  BY MethodNames
<1>2. ToExtensionName(m) = ToExtensionName(n) /\ s = t
  <2> DEFINE y == ToExtensionName(m)
             z == ToExtensionName(n)
  <2>1. y \in Texts /\ z \in Texts
    BY <1>1, ExtensionNames
  <2>2. y \o <<"_", s>> = z \o <<"_", t>>
    BY DEF NameOf
  <2> HIDE DEF y, z
  <2>3. y = z /\ s = t
    BY <2>1, <2>2, NamesEqual
  <2> QED
    BY <2>3 DEF y, z
<1>3. m # n
  BY <1>2, NamesDiffer
<1> HIDE DEF m, n
<1> QED
  BY <1>1, <1>2, <1>3 DEF SameExtensionName

\* Names in the pool are declared in the request or made for methods of the first
\* n files; a parsed file is one of the request or made for one of these.
IsName(x, n) ==
  \/ \E file \in Range(request) : x \in file.declares
  \/ \E q \in 1 .. n : \E b \in DOMAIN MethodsOf(request[q]) : \E t \in Directions :
       NameOf(x, q, b, t)

IsParsed(f, n) ==
  \/ f \in Range(request)
  \/ \E q \in 1 .. n : request[q].services # <<>> /\ f = RpcFile(request[q])

\* The name of an extension is made for a method.
LEMMA NameMade ==
  ASSUME request \in Requests, NEW x, NEW p \in DOMAIN request,
         NEW a \in DOMAIN MethodsOf(request[p]), NEW s \in Directions, NameOf(x, p, a, s),
         NEW file \in Range(request), x \in file.declares
  PROVE  NameDeclared
<1> DEFINE m == MethodsOf(request[p])[a].full
<1>1. m \in Methods
  BY MethodNames
<1>2. x = ExtensionName(m, s)
  BY DEF NameOf, ExtensionName
<1>3. s \in {"request", "response"}
  BY DEF Directions
<1> HIDE DEF m
<1> QED
  BY <1>1, <1>2, <1>3 DEF NameDeclared

\* Equal numbers of the same message in a file are those of two methods.
LEMMA NumbersMade ==
  ASSUME request \in Requests, NEW p \in DOMAIN request, NEW e, NEW f,
         NEW a \in DOMAIN MethodsOf(request[p]), NEW s, FromMethod(e, MethodsOf(request[p]), a, s),
         NEW b \in DOMAIN MethodsOf(request[p]), NEW t, FromMethod(f, MethodsOf(request[p]), b, t),
         a # b \/ s # t, e.extendee = f.extendee, e.number = f.number
  PROVE  SameNumber
<1> DEFINE methods == MethodsOf(request[p])
           m == methods[a]
           n == methods[b]
<1>1. a # b
  BY DEF FromMethod
<1>2. m.full # n.full
  BY <1>1, NamesDiffer
<1>3. GenerateExtensionNumber(hash[m.full]) = GenerateExtensionNumber(hash[n.full])
  BY DEF FromMethod
<1>4. request[p] \in Range(request) /\ request[p] \in FileTypes
  BY FilesTyped
<1>5. m \in Range(methods) /\ n \in Range(methods)
  <2>1. methods \in Seq(MethodTypes)
    BY <1>4, MethodsTyped
  <2> QED
    BY <2>1, RangeOf
<1> HIDE DEF m, n
<1> QED
  BY <1>2, <1>3, <1>4, <1>5 DEF SameNumber

\* A file with the name of the _rpc file of another is seen in the request.
LEMMA RpcNameMade ==
  ASSUME request \in Requests, NEW p \in DOMAIN request, request[p].services # <<>>,
         NEW f, IsParsed(f, p - 1), f.proto, f.name = RpcName(request[p])
  PROVE  SameRpcName
<1>1. request[p] \in Range(request) /\ Len(request) \in Nat /\ DOMAIN request = 1 .. Len(request)
  BY FilesTyped
<1>2. CASE f \in Range(request)
  BY <1>1, <1>2 DEF SameRpcName
<1>3. CASE \E q \in 1 .. p - 1 : request[q].services # <<>> /\ f = RpcFile(request[q])
  <2>1. PICK q \in 1 .. p - 1 : request[q].services # <<>> /\ f = RpcFile(request[q])
    BY <1>3
  <2>2. q \in DOMAIN request /\ q # p
    BY <1>1
  <2>3. request[q] \in Range(request)
    BY <2>2, FilesTyped
  <2>4. request[q] # request[p]
    BY <2>2, RequestAssumption DEF RequestAssumption
  <2>5. RpcName(request[q]) = RpcName(request[p])
    BY <2>1 DEF RpcFile
  <2> QED
    BY <1>1, <2>1, <2>3, <2>4, <2>5 DEF SameRpcName
<1> QED
  BY <1>2, <1>3 DEF IsParsed

\* The pool refuses the _rpc file of a file only for a reason.
LEMMA RefusalExplained ==
  ASSUME request \in Requests, hash \in [Methods -> Hashes], NEW p \in DOMAIN request,
         request[p].services # <<>>,
         \A x \in symbols : IsName(x, p - 1),
         \A k \in DOMAIN parsedFiles : parsedFiles[k] # NULL => IsParsed(parsedFiles[k], p - 1),
         Refused(request[p], Extensions(request[p]))
  PROVE  \/ \E k \in DOMAIN Extensions(request[p]) :
              ~IsValidExtensionNumber(Extensions(request[p])[k].number)
         \/ Clash
<1> DEFINE e == Extensions(request[p])
           methods == MethodsOf(request[p])
           file == request[p]
<1>1. /\ e \in Seq(ExtensionTypes)
      /\ \A k \in DOMAIN e :
           \E a \in DOMAIN methods, s \in Directions : FromMethod(e[k], methods, a, s)
      /\ \A k, l \in DOMAIN e : k # l =>
           \E a, b \in DOMAIN methods, s, t \in Directions :
             /\ FromMethod(e[k], methods, a, s) /\ FromMethod(e[l], methods, b, t)
             /\ a # b \/ s # t
  BY ExtensionsFrom
<1>2. \A x, a, s : FromMethod(x, methods, a, s) => NameOf(x.name, p, a, s)
  BY DEF FromMethod, NameOf
<1>3. \/ \E k \in DOMAIN e : e[k].number \in Reserved \/ e[k].number \notin 1 .. MaxNumber
      \/ \E k \in DOMAIN e : e[k].name \in symbols
      \/ \E k, l \in DOMAIN e : k # l /\ e[k].name = e[l].name
      \/ \E k, l \in DOMAIN e : k # l /\ e[k].extendee = e[l].extendee /\ e[k].number = e[l].number
      \/ \E k \in DOMAIN parsedFiles :
           parsedFiles[k] # NULL /\ parsedFiles[k].proto /\ parsedFiles[k].name = RpcName(file)
      \/ file.lite
  BY DEF Refused
<1> HIDE DEF e
<1>4. ASSUME NEW k \in DOMAIN e,
             e[k].number \in Reserved \/ e[k].number \notin 1 .. MaxNumber
      PROVE  ~IsValidExtensionNumber(e[k].number)
  <2>1. e[k] \in ExtensionTypes
    BY <1>1, RangeOf
  <2>2. e[k].number \in Int
    BY <2>1 DEF ExtensionTypes
  <2> QED
    BY <1>4, <2>2, RefusedIsInvalid
<1>5. ASSUME NEW k \in DOMAIN e, e[k].name \in symbols PROVE Clash
  <2>1. PICK a \in DOMAIN methods, s \in Directions : FromMethod(e[k], methods, a, s)
    BY <1>1
  <2>2. NameOf(e[k].name, p, a, s)
    BY <1>2, <2>1
  <2>3. IsName(e[k].name, p - 1)
    BY <1>5
  <2>4. ASSUME NEW other \in Range(request), e[k].name \in other.declares PROVE NameDeclared
    BY <2>2, <2>4, NameMade
  <2>5. ASSUME NEW q \in 1 .. p - 1, NEW b \in DOMAIN MethodsOf(request[q]), NEW t \in Directions,
               NameOf(e[k].name, q, b, t)
        PROVE  SameExtensionName
    <3>1. q \in DOMAIN request /\ p # q
      BY FilesTyped
    <3> QED
      BY <2>2, <2>5, <3>1, TwoMethods
  <2> QED
    BY <2>3, <2>4, <2>5 DEF IsName, Clash
<1>6. ASSUME NEW k \in DOMAIN e, NEW l \in DOMAIN e, k # l, e[k].name = e[l].name
      PROVE  SameExtensionName
  <2>1. PICK a, b \in DOMAIN methods, s, t \in Directions :
          /\ FromMethod(e[k], methods, a, s) /\ FromMethod(e[l], methods, b, t)
          /\ a # b \/ s # t
    BY <1>1, <1>6
  <2>2. NameOf(e[k].name, p, a, s) /\ NameOf(e[k].name, p, b, t)
    BY <1>2, <1>6, <2>1
  <2> QED
    BY <2>1, <2>2, TwoMethods
<1>7. ASSUME NEW k \in DOMAIN e, NEW l \in DOMAIN e, k # l,
             e[k].extendee = e[l].extendee, e[k].number = e[l].number
      PROVE  SameNumber
  <2>1. PICK a, b \in DOMAIN methods, s, t \in Directions :
          /\ FromMethod(e[k], methods, a, s) /\ FromMethod(e[l], methods, b, t)
          /\ a # b \/ s # t
    BY <1>1, <1>7
  <2> QED
    BY <1>7, <2>1, NumbersMade
<1>8. ASSUME NEW k \in DOMAIN parsedFiles, parsedFiles[k] # NULL, parsedFiles[k].proto,
             parsedFiles[k].name = RpcName(file)
      PROVE  SameRpcName
  BY <1>8, RpcNameMade
<1>9. file.lite => LiteServices
  BY FilesTyped DEF LiteServices
<1> QED
  BY <1>3, <1>4, <1>5, <1>6, <1>7, <1>8, <1>9 DEF e, Clash

-----------------------------------------------------------------------------
(* Files and names.                                                            *)

ParsedTypes == [name : Texts, proto : BOOLEAN, lite : BOOLEAN, declares : SUBSET Seq(STRING),
                types : Seq(STRING), external : BOOLEAN, services : Seq(Services)]

\* How many files have got their _rpc file, or need none.
Extended == IF pc = "extending" THEN i - 1 ELSE Len(request)

\* What main has loaded and parsed.
FilesInv ==
  /\ request \in Requests /\ hash \in [Methods -> Hashes]
  /\ pc \in {"building", "failed", "extending", "generating", "inserting", "crashed", "done"}
  /\ i \in Nat \ {0} /\ warned \in BOOLEAN /\ error \in BOOLEAN
  /\ fileDescriptors \in Seq(FileTypes)
  /\ pc \in {"building", "failed"} =>
       /\ Len(fileDescriptors) = i - 1 /\ i - 1 <= Len(request)
       /\ \A k \in 1 .. i - 1 : fileDescriptors[k] = request[k]
       /\ parsedFiles = <<>> /\ response = <<>>
       /\ \A x \in symbols : IsName(x, 0)
  /\ pc \notin {"building", "failed"} => fileDescriptors = request
  /\ pc = "extending" => i - 1 <= Len(request)
  /\ parsedFiles \in Seq(ParsedTypes \cup {NULL})

\* Where the names in the pool and the parsed files are from, and the NULL among
\* the files.
NamesInv ==
  /\ \A x \in symbols : IsName(x, Extended)
  /\ \A k \in DOMAIN parsedFiles : parsedFiles[k] # NULL => IsParsed(parsedFiles[k], Extended)
  /\ (\E k \in DOMAIN parsedFiles : parsedFiles[k] = NULL) => warned \/ Clash
  /\ CrashExplained

LEMMA InitFiles ==
  ASSUME Init
  PROVE  FilesInv /\ NamesInv
<1>1. FilesInv
  <2>1. /\ request \in Requests /\ hash \in [Methods -> Hashes] /\ pc = "building" /\ i = 1
        /\ fileDescriptors = <<>> /\ symbols = {} /\ parsedFiles = <<>>
        /\ warned = FALSE /\ error = FALSE /\ response = <<>>
    BY DEF Init
  <2>2. Len(request) \in Nat
    BY <2>1, FilesTyped
  <2>3. fileDescriptors \in Seq(FileTypes) /\ parsedFiles \in Seq(ParsedTypes \cup {NULL})
        /\ Len(fileDescriptors) = 0
    BY <2>1
  <2>4. Len(fileDescriptors) = i - 1 /\ i - 1 <= Len(request) /\ 1 .. i - 1 = {}
        /\ i \in Nat \ {0}
    BY <2>1, <2>2, <2>3
  <2> QED
    BY <2>1, <2>3, <2>4 DEF FilesInv
<1>2. symbols = {} /\ parsedFiles = <<>> /\ pc = "building"
  BY DEF Init
<1> QED
  BY <1>1, <1>2 DEF NamesInv, CrashExplained

\* A file of the request as one of the parsed ones, and its _rpc file.
LEMMA FileParsed ==
  ASSUME NEW file \in FileTypes
  PROVE  file \in ParsedTypes /\ file # NULL
<1>1. file.name \in Texts
  BY Worded DEF FileTypes
<1>2. file = [name |-> file.name, proto |-> file.proto, lite |-> file.lite,
              declares |-> file.declares, types |-> file.types, external |-> file.external,
              services |-> file.services]
  BY DEF FileTypes
<1>3. file \in ParsedTypes
  BY <1>1, <1>2 DEF FileTypes, ParsedTypes
<1>4. file # NULL
  BY <1>2 DEF NULL
<1> QED
  BY <1>3, <1>4

LEMMA RpcNamed ==
  ASSUME NEW x \in Texts, NEW w \in Words
  PROVE  /\ Append(x, w) \in Texts /\ Len(Append(x, w)) = Len(x) + 1
         /\ \A k \in 1 .. Len(x) : Append(x, w)[k] = x[k]
         /\ Append(x, w)[Len(x) + 1] = w
<1>1. x \in Seq(Words)
  BY DEF Texts
<1> QED
  BY <1>1, AppendProperties DEF Texts

LEMMA RpcFileParsed ==
  ASSUME NEW file \in FileTypes
  PROVE  RpcFile(file) \in ParsedTypes /\ RpcFile(file) # NULL
<1>1. file.name \in Texts
  BY FileParsed DEF ParsedTypes
<1>2. "_rpc" \in Words
  BY DEF Words
<1>3. RpcName(file) \in Texts
  BY <1>1, <1>2, RpcNamed DEF RpcName
<1>4. RpcFile(file) \in ParsedTypes
  BY <1>3 DEF RpcFile, ParsedTypes, FileTypes
<1>5. RpcFile(file) # NULL
  BY DEF RpcFile, NULL
<1> QED
  BY <1>4, <1>5

\* What can be seen in the request stays.
LEMMA ClashKept ==
  ASSUME UNCHANGED <<request, hash>>
  PROVE  Clash' = Clash
BY DEF Clash, SameExtensionName, SameNumber, NameDeclared, SameRpcName, LiteServices, Methods

LEMMA BuildFileNames ==
  ASSUME FilesInv, NamesInv, BuildFile
  PROVE  FilesInv' /\ NamesInv'
<1>1. /\ pc = "building" /\ i <= Len(request)
      /\ fileDescriptors' = Append(fileDescriptors, request[i]) /\ i' = i + 1
      /\ symbols' = symbols \cup request[i].declares
      /\ UNCHANGED <<request, hash, pc, parsedFiles, warned, error, response>>
  BY DEF BuildFile
<1>2. /\ Len(request) \in Nat /\ i \in DOMAIN request
      /\ request[i] \in FileTypes /\ request[i] \in Range(request)
      /\ i \in Nat \ {0} /\ Len(fileDescriptors) = i - 1 /\ fileDescriptors \in Seq(FileTypes)
      /\ \A k \in 1 .. i - 1 : fileDescriptors[k] = request[k]
      /\ parsedFiles = <<>> /\ response = <<>>
  BY <1>1, FilesTyped DEF FilesInv
<1>3. /\ fileDescriptors' \in Seq(FileTypes) /\ Len(fileDescriptors') = i
      /\ \A k \in 1 .. i : fileDescriptors'[k] = request[k]
  <2>1. /\ fileDescriptors' \in Seq(FileTypes) /\ Len(fileDescriptors') = Len(fileDescriptors) + 1
        /\ \A k \in 1 .. Len(fileDescriptors) : fileDescriptors'[k] = fileDescriptors[k]
        /\ fileDescriptors'[Len(fileDescriptors) + 1] = request[i]
    BY <1>1, <1>2, AppendProperties
  <2>2. \A k \in 1 .. i : k \in 1 .. i - 1 \/ k = i
    BY <1>2
  <2> QED
    BY <1>2, <2>1, <2>2
<1>4. i' - 1 = i /\ i' \in Nat \ {0}
  BY <1>1, <1>2
<1>5. \A x \in symbols' : \E file \in Range(request') : x \in file.declares
  <2>1. \A x \in symbols : IsName(x, 0)
    BY <1>1 DEF FilesInv
  <2>2. \A x \in symbols : \E file \in Range(request) : x \in file.declares
    BY <2>1 DEF IsName
  <2> QED
    BY <1>1, <1>2, <2>2
<1>6. FilesInv'
  <2>1. (i' - 1 <= Len(request') /\ Len(fileDescriptors') = i' - 1)
        /\ \A k \in 1 .. i' - 1 : fileDescriptors'[k] = request'[k]
    BY <1>1, <1>3, <1>4
  <2>2. request' \in Requests /\ hash' \in [Methods' -> Hashes]
    BY <1>1 DEF FilesInv, Methods
  <2>3. (\A x \in symbols : IsName(x, 0))'
    BY <1>5 DEF IsName
  <2> QED
    BY <1>1, <1>2, <1>3, <1>4, <2>1, <2>2, <2>3 DEF FilesInv
<1>7. (\A x \in symbols : IsName(x, Extended))'
  BY <1>5 DEF IsName
<1> QED
  BY <1>1, <1>2, <1>6, <1>7 DEF NamesInv, CrashExplained

\* Names and files stay those of the request and of extended files.
LEMMA NamesKept ==
  ASSUME NamesInv, UNCHANGED <<request, symbols, parsedFiles>>,
         \A p \in 1 .. Extended : p \in 1 .. Extended'
  PROVE  /\ (\A x \in symbols : IsName(x, Extended))'
         /\ (\A k \in DOMAIN parsedFiles :
               parsedFiles[k] # NULL => IsParsed(parsedFiles[k], Extended))'
<1>1. (\A x \in symbols : IsName(x, Extended))'
  <2> SUFFICES ASSUME NEW x \in symbols PROVE IsName(x, Extended)'
    OBVIOUS
  <2>1. IsName(x, Extended)
    BY DEF NamesInv
  <2>2. ASSUME NEW q \in 1 .. Extended, NEW b \in DOMAIN MethodsOf(request[q]),
               NEW t \in Directions, NameOf(x, q, b, t)
        PROVE  IsName(x, Extended)'
    <3>1. q \in 1 .. Extended' /\ b \in DOMAIN MethodsOf(request'[q]) /\ NameOf(x, q, b, t)'
      BY <2>2 DEF NameOf
    <3> QED
      BY <3>1 DEF IsName
  <2>3. ASSUME NEW file \in Range(request), x \in file.declares
        PROVE  IsName(x, Extended)'
    BY <2>3 DEF IsName
  <2> QED
    BY <2>1, <2>2, <2>3 DEF IsName
<1>2. (\A k \in DOMAIN parsedFiles :
         parsedFiles[k] # NULL => IsParsed(parsedFiles[k], Extended))'
  BY DEF NamesInv, IsParsed
<1> QED
  BY <1>1, <1>2

\* Steps that leave files and names alone but for the place in the program.
LEMMA OtherNames ==
  ASSUME FilesInv, NamesInv,
         \/ Fail \/ BuiltAll \/ AddedAll \/ Generate \/ GenerateFails \/ Crash \/ GeneratedAll
         \/ Abort \/ Insert \/ UNCHANGED vars
  PROVE  FilesInv' /\ NamesInv'
<1>1. /\ UNCHANGED <<request, hash, fileDescriptors, symbols, warned>>
      /\ i' \in Nat \ {0} /\ error' \in BOOLEAN
  <2>1. i \in Nat \ {0} /\ error \in BOOLEAN /\ i + 1 \in Nat \ {0}
    BY DEF FilesInv
  <2>2. CASE Fail
    BY <2>1, <2>2 DEF Fail
  <2>3. CASE BuiltAll
    BY <2>1, <2>3 DEF BuiltAll
  <2>4. CASE AddedAll
    BY <2>1, <2>4 DEF AddedAll
  <2>5. CASE Generate
    BY <2>1, <2>5 DEF Generate
  <2>6. CASE GenerateFails
    BY <2>1, <2>6 DEF GenerateFails
  <2>7. CASE Crash
    BY <2>1, <2>7 DEF Crash
  <2>8. CASE GeneratedAll
    BY <2>1, <2>8 DEF GeneratedAll
  <2>9. CASE Abort
    BY <2>1, <2>9 DEF Abort
  <2>10. CASE Insert
    BY <2>1, <2>10 DEF Insert
  <2>11. CASE UNCHANGED vars
    BY <2>1, <2>11 DEF vars
  <2> QED
    BY <2>2, <2>3, <2>4, <2>5, <2>6, <2>7, <2>8, <2>9, <2>10, <2>11
<1>2. request' \in Requests /\ hash' \in [Methods' -> Hashes] /\ error' \in BOOLEAN
  BY <1>1 DEF FilesInv, Methods
<1>3. /\ Len(request) \in Nat /\ request \in Seq(FileTypes)
      /\ \A k \in DOMAIN request : request[k] \in FileTypes /\ request[k] \in Range(request)
  BY FilesTyped DEF FilesInv
<1>4. CASE BuiltAll
  <2>1. fileDescriptors = request
    <3>1. /\ i \in Nat /\ i > Len(request) /\ i - 1 <= Len(request)
          /\ Len(fileDescriptors) = i - 1 /\ fileDescriptors \in Seq(FileTypes)
          /\ \A k \in 1 .. i - 1 : fileDescriptors[k] = request[k]
      BY <1>4 DEF FilesInv, BuiltAll
    <3>2. i - 1 = Len(request)
      BY <1>3, <3>1
    <3> QED
      BY <1>3, <3>1, <3>2, SeqEqual
  <2>2. parsedFiles' \in Seq(ParsedTypes \cup {NULL}) /\ parsedFiles' = request
    <3> DEFINE S == ParsedTypes \cup {NULL}
               n == Len(request)
    <3>1. n \in Nat /\ DOMAIN request = 1 .. n /\ request = [k \in 1 .. n |-> request[k]]
      BY <1>3
    <3>2. \A k \in 1 .. n : request[k] \in S
      BY <1>3, FileParsed
    <3> HIDE DEF n, S
    <3>3. request \in Seq(S)
      BY <3>1, <3>2, IsSequence
    <3> QED
      BY <1>4, <2>1, <3>3 DEF S, BuiltAll
  <2>3. FilesInv'
    <3>1. pc' = "extending" /\ i' = 1 /\ i' - 1 <= Len(request') /\ fileDescriptors' = request'
      BY <1>1, <1>3, <1>4, <2>1 DEF BuiltAll
    <3>2. warned' \in BOOLEAN /\ fileDescriptors' \in Seq(FileTypes)
      BY <1>1 DEF FilesInv
    <3> QED
      BY <1>1, <1>2, <2>2, <3>1, <3>2 DEF FilesInv
  <2>4. (\A x \in symbols : IsName(x, Extended))'
    <3>1. \A x \in symbols : IsName(x, 0)
      BY <1>4 DEF FilesInv, BuiltAll
    <3>2. \A x \in symbols : \E file \in Range(request) : x \in file.declares
      BY <3>1 DEF IsName
    <3> QED
      BY <1>1, <3>2 DEF IsName
  <2>5. (\A k \in DOMAIN parsedFiles :
           parsedFiles[k] # NULL => IsParsed(parsedFiles[k], Extended))'
    BY <1>1, <1>3, <2>2 DEF IsParsed
  <2>6. \A k \in DOMAIN parsedFiles' : parsedFiles'[k] # NULL
    BY <1>3, <2>2, FileParsed
  <2> QED
    BY <1>4, <2>3, <2>4, <2>5, <2>6 DEF NamesInv, CrashExplained, BuiltAll
<1>5. CASE Fail
  <2>1. pc \in {"building", "failed"} /\ pc' = "failed"
        /\ UNCHANGED <<i, parsedFiles, response>>
    BY <1>5 DEF Fail
  <2>2. (\A x \in symbols : IsName(x, 0))'
    <3>1. \A x \in symbols : IsName(x, 0)
      BY <2>1 DEF FilesInv
    <3>2. \A x \in symbols : \E file \in Range(request) : x \in file.declares
      BY <3>1 DEF IsName
    <3> QED
      BY <1>1, <3>2 DEF IsName
  <2>3. FilesInv'
    BY <1>1, <1>2, <2>1, <2>2 DEF FilesInv
  <2>4. Extended' = Extended
    BY <1>1, <1>5 DEF Extended, Fail
  <2>5. /\ (\A x \in symbols : IsName(x, Extended))'
        /\ (\A k \in DOMAIN parsedFiles :
              parsedFiles[k] # NULL => IsParsed(parsedFiles[k], Extended))'
    BY <1>1, <2>1, <2>4, NamesKept
  <2>6. parsedFiles' = <<>>
    BY <2>1 DEF FilesInv
  <2> QED
    BY <2>1, <2>3, <2>5, <2>6 DEF NamesInv, CrashExplained
<1>6. CASE AddedAll \/ Generate \/ GenerateFails \/ Crash \/ GeneratedAll \/ Abort \/ Insert
  <2>1. /\ pc \notin {"building", "failed"} /\ pc' \notin {"building", "failed", "extending"}
        /\ pc' \in {"generating", "inserting", "crashed", "done"}
        /\ parsedFiles' = parsedFiles
    BY <1>6 DEF AddedAll, Generate, GenerateFails, Crash, GeneratedAll, Abort, Insert
  <2>2. FilesInv'
    BY <1>1, <1>2, <2>1 DEF FilesInv
  <2>3. Extended' = Len(request) /\ Extended \in Int /\ Extended <= Len(request)
    <3>1. Extended' = Len(request)
      BY <1>1, <2>1 DEF Extended
    <3>2. pc = "extending" => i - 1 <= Len(request) /\ i \in Nat
      BY DEF FilesInv
    <3> QED
      BY <1>3, <3>1, <3>2 DEF Extended
  <2>4. \A k \in 1 .. Extended : k \in 1 .. Extended'
    BY <1>3, <2>3
  <2>5. /\ (\A x \in symbols : IsName(x, Extended))'
        /\ (\A k \in DOMAIN parsedFiles :
              parsedFiles[k] # NULL => IsParsed(parsedFiles[k], Extended))'
    BY <1>1, <2>1, <2>4, NamesKept
  <2>6. Clash' = Clash
    BY <1>1, ClashKept
  <2>7. (\E k \in DOMAIN parsedFiles' : parsedFiles'[k] = NULL) => (warned' \/ Clash')
    BY <1>1, <2>1, <2>6 DEF NamesInv
  <2>8. CrashExplained'
    <3>1. CASE Crash
      <4>1. i \in DOMAIN parsedFiles /\ parsedFiles[i] = NULL
        BY <3>1 DEF FilesInv, Crash
      <4> QED
        BY <2>1, <2>7, <4>1 DEF CrashExplained
    <3>2. CASE Abort
      <4>1. PICK k \in DOMAIN request : ~request[k].proto
        BY <2>1, <3>2 DEF FilesInv, Abort
      <4>2. request[k] \in Range(request')
        BY <1>1, <1>3
      <4> QED
        BY <4>1, <4>2 DEF CrashExplained
    <3>3. CASE ~Crash /\ ~Abort
      BY <1>6, <3>3 DEF CrashExplained, AddedAll, Generate, GenerateFails, GeneratedAll, Insert
    <3> QED
      BY <3>1, <3>2, <3>3
  <2> QED
    BY <2>2, <2>5, <2>7, <2>8 DEF NamesInv
<1>7. CASE UNCHANGED vars
  <2>1. UNCHANGED <<pc, i, request, hash, parsedFiles, warned, response>>
    BY <1>7 DEF vars
  <2>2. Clash' = Clash
    BY <1>1, ClashKept
  <2>3. Extended' = Extended
    BY <2>1 DEF Extended
  <2>4. /\ (\A x \in symbols : IsName(x, Extended))'
        /\ (\A k \in DOMAIN parsedFiles :
              parsedFiles[k] # NULL => IsParsed(parsedFiles[k], Extended))'
    BY <1>1, <2>1, <2>3, NamesKept
  <2>5. pc \in {"building", "failed"} => (\A x \in symbols : IsName(x, 0))'
    <3> SUFFICES ASSUME pc \in {"building", "failed"}
                 PROVE  (\A x \in symbols : IsName(x, 0))'
      OBVIOUS
    <3>1. \A x \in symbols : IsName(x, 0)
      BY DEF FilesInv
    <3>2. \A x \in symbols : \E file \in Range(request) : x \in file.declares
      BY <3>1 DEF IsName
    <3> QED
      BY <1>1, <3>2 DEF IsName
  <2>6. FilesInv'
    BY <1>1, <1>2, <2>1, <2>5 DEF FilesInv
  <2> QED
    BY <2>1, <2>2, <2>4, <2>6 DEF NamesInv, CrashExplained
<1> QED
  BY <1>4, <1>5, <1>6, <1>7

\* The names of the extensions of a file are names of its methods.
LEMMA NewNames ==
  ASSUME FilesInv, NEW p \in DOMAIN request,
         NEW x \in {e.name : e \in Range(Extensions(request[p]))}
  PROVE  \E a \in DOMAIN MethodsOf(request[p]) : \E s \in Directions : NameOf(x, p, a, s)
<1> DEFINE e == Extensions(request[p])
           methods == MethodsOf(request[p])
<1>1. /\ e \in Seq(ExtensionTypes)
      /\ \A k \in DOMAIN e :
           \E a \in DOMAIN methods, s \in Directions : FromMethod(e[k], methods, a, s)
  BY ExtensionsFrom DEF FilesInv
<1>2. x \in {y.name : y \in Range(e)}
  OBVIOUS
<1> HIDE DEF e
<1>3. PICK y \in Range(e) : x = y.name
  BY <1>2
<1>4. PICK k \in DOMAIN e : y = e[k]
  BY <1>1, RangeOf
<1>5. PICK a \in DOMAIN methods, s \in Directions : FromMethod(e[k], methods, a, s)
  BY <1>1
<1> QED
  BY <1>3, <1>4, <1>5 DEF FromMethod, NameOf

\* An _rpc file is added or refused, then for a reason.
LEMMA AddNames ==
  ASSUME FilesInv, NamesInv, AddRpcMessageExtensions
  PROVE  FilesInv' /\ NamesInv'
<1> DEFINE file == fileDescriptors[i]
           extensions == Extensions(file)
<1>1. /\ pc = "extending" /\ i <= Len(fileDescriptors) /\ i' = i + 1
      /\ UNCHANGED <<request, hash, pc, fileDescriptors, error, response>>
  BY DEF AddRpcMessageExtensions
<1>2. /\ fileDescriptors = request /\ i \in DOMAIN request /\ file = request[i]
      /\ Len(request) \in Nat /\ i \in Nat \ {0} /\ file \in FileTypes
  <2>1. fileDescriptors = request /\ i \in Nat \ {0} /\ request \in Requests
    BY <1>1 DEF FilesInv
  <2>2. DOMAIN request = 1 .. Len(request) /\ Len(request) \in Nat
        /\ \A k \in DOMAIN request : request[k] \in FileTypes
    BY <2>1, FilesTyped
  <2> QED
    BY <1>1, <2>1, <2>2
<1>3. warned' \in BOOLEAN /\ (warned => warned')
  <2> DEFINE Invalid == \E k \in DOMAIN extensions :
                          ~IsValidExtensionNumber(extensions[k].number)
  <2>1. warned \in BOOLEAN
    BY DEF FilesInv
  <2>2. warned' = warned \/ warned' = (warned \/ Invalid)
    BY Zenon DEF AddRpcMessageExtensions
  <2>3. Invalid \in BOOLEAN
    OBVIOUS
  <2> HIDE DEF Invalid
  <2> QED
    BY <2>1, <2>2, <2>3
<1>4. parsedFiles' \in Seq(ParsedTypes \cup {NULL})
  <2>1. parsedFiles \in Seq(ParsedTypes \cup {NULL})
    BY DEF FilesInv
  <2>2. RpcFile(file) \in ParsedTypes \cup {NULL} /\ NULL \in ParsedTypes \cup {NULL}
    BY <1>2, RpcFileParsed
  <2>3. \/ parsedFiles' = parsedFiles \/ parsedFiles' = Append(parsedFiles, NULL)
        \/ parsedFiles' = Append(parsedFiles, RpcFile(file))
    BY DEF AddRpcMessageExtensions
  <2> QED
    BY <2>1, <2>2, <2>3, AppendProperties
<1>5. FilesInv'
  <2>1. /\ i' - 1 <= Len(request') /\ i' \in Nat \ {0} /\ fileDescriptors' = request'
        /\ request' \in Requests /\ hash' \in [Methods' -> Hashes] /\ error' \in BOOLEAN
        /\ fileDescriptors' \in Seq(FileTypes)
    BY <1>1, <1>2 DEF FilesInv, Methods
  <2> QED
    BY <1>1, <1>3, <1>4, <2>1 DEF FilesInv
<1>6. Extended = i - 1 /\ Extended' = i
  BY <1>1, <1>2 DEF Extended
<1>7. Clash' = Clash
  BY <1>1, ClashKept
<1>8. CrashExplained'
  BY <1>1 DEF CrashExplained
<1>9. (\A x \in symbols : IsName(x, Extended))'
  <2> SUFFICES ASSUME NEW x \in symbols' PROVE IsName(x, Extended)'
    OBVIOUS
  <2>1. ASSUME NEW q \in 1 .. i, NEW b \in DOMAIN MethodsOf(request[q]),
               NEW t \in Directions, NameOf(x, q, b, t)
        PROVE  IsName(x, Extended)'
    <3>1. q \in 1 .. Extended' /\ b \in DOMAIN MethodsOf(request'[q]) /\ NameOf(x, q, b, t)'
      BY <1>1, <1>6, <2>1 DEF NameOf
    <3> QED
      BY <3>1 DEF IsName
  <2>2. CASE x \in symbols
    <3>1. IsName(x, i - 1)
      BY <1>6, <2>2 DEF NamesInv
    <3>2. \A q \in 1 .. i - 1 : q \in 1 .. i
      BY <1>2
    <3>3. ASSUME NEW other \in Range(request), x \in other.declares PROVE IsName(x, Extended)'
      BY <1>1, <3>3 DEF IsName
    <3> QED
      BY <2>1, <3>1, <3>2, <3>3 DEF IsName
  <2>3. CASE x \notin symbols
    <3>1. x \in {e.name : e \in Range(Extensions(request[i]))}
      BY <1>2, <2>3 DEF AddRpcMessageExtensions
    <3>2. \E a \in DOMAIN MethodsOf(request[i]) : \E t \in Directions : NameOf(x, i, a, t)
      BY <1>2, <3>1, NewNames
    <3>3. i \in 1 .. i
      BY <1>2
    <3> QED
      BY <2>1, <3>2, <3>3
  <2> QED
    BY <2>2, <2>3
<1>10. \A f : IsParsed(f, i - 1) => IsParsed(f, i)
  <2>1. \A q \in 1 .. i - 1 : q \in 1 .. i
    BY <1>2
  <2> QED
    BY <2>1 DEF IsParsed
<1>11. parsedFiles \in Seq(ParsedTypes \cup {NULL})
  BY DEF FilesInv
<1>12. \A k \in DOMAIN parsedFiles' : parsedFiles'[k] # NULL => IsParsed(parsedFiles'[k], i)
  <2>1. \A k \in DOMAIN parsedFiles : parsedFiles[k] # NULL => IsParsed(parsedFiles[k], i)
    BY <1>6, <1>10 DEF NamesInv
  <2>2. CASE parsedFiles' = parsedFiles
    BY <2>1, <2>2
  <2>3. CASE parsedFiles' = Append(parsedFiles, NULL)
    <3>1. \A k \in DOMAIN parsedFiles' : parsedFiles'[k] # NULL =>
            k \in DOMAIN parsedFiles /\ parsedFiles'[k] = parsedFiles[k]
      BY <1>11, <2>3, AppendProperties
    <3> QED
      BY <2>1, <3>1
  <2>4. CASE parsedFiles' = Append(parsedFiles, RpcFile(file)) /\ file.services # <<>>
    <3>1. IsParsed(RpcFile(file), i)
      <4>1. i \in 1 .. i
        BY <1>2
      <4> QED
        BY <1>2, <2>4, <4>1 DEF IsParsed
    <3>2. RpcFile(file) \in ParsedTypes \cup {NULL}
      BY <1>2, RpcFileParsed
    <3>3. \A k \in DOMAIN parsedFiles' :
            \/ k \in DOMAIN parsedFiles /\ parsedFiles'[k] = parsedFiles[k]
            \/ parsedFiles'[k] = RpcFile(file)
      BY <1>11, <2>4, <3>2, AppendProperties
    <3> QED
      BY <2>1, <3>1, <3>3
  <2> QED
    BY <2>2, <2>3, <2>4 DEF AddRpcMessageExtensions
<1>13. (\A k \in DOMAIN parsedFiles :
          parsedFiles[k] # NULL => IsParsed(parsedFiles[k], Extended))'
  BY <1>1, <1>6, <1>12 DEF IsParsed
<1>14. (\E k \in DOMAIN parsedFiles' : parsedFiles'[k] = NULL) => warned' \/ Clash
  <2>1. (\E k \in DOMAIN parsedFiles : parsedFiles[k] = NULL) => warned \/ Clash
    BY DEF NamesInv
  <2>2. CASE parsedFiles' = parsedFiles
    BY <1>3, <2>1, <2>2
  <2>3. CASE parsedFiles' = Append(parsedFiles, RpcFile(file))
    <3>1. RpcFile(file) # NULL /\ RpcFile(file) \in ParsedTypes \cup {NULL}
      BY <1>2, RpcFileParsed
    <3>2. \A k \in DOMAIN parsedFiles' : parsedFiles'[k] = NULL =>
            k \in DOMAIN parsedFiles /\ parsedFiles[k] = NULL
      BY <1>11, <2>3, <3>1, AppendProperties
    <3> QED
      BY <1>3, <2>1, <3>2
  <2>4. CASE file.services # <<>> /\ Refused(file, extensions)
    <3>1. \A x \in symbols : IsName(x, i - 1)
      BY <1>6 DEF NamesInv
    <3>2. \A k \in DOMAIN parsedFiles : parsedFiles[k] # NULL => IsParsed(parsedFiles[k], i - 1)
      BY <1>6 DEF NamesInv
    <3>3. \/ \E k \in DOMAIN extensions : ~IsValidExtensionNumber(extensions[k].number)
          \/ Clash
      <4>1. request[i].services # <<>> /\ Refused(request[i], Extensions(request[i]))
            /\ i \in DOMAIN request
        BY <1>2, <2>4
      <4>2. request \in Requests /\ hash \in [Methods -> Hashes]
        BY DEF FilesInv
      <4>3. \/ \E k \in DOMAIN Extensions(request[i]) :
                 ~IsValidExtensionNumber(Extensions(request[i])[k].number)
            \/ Clash
        BY <3>1, <3>2, <4>1, <4>2, RefusalExplained
      <4> QED
        BY <1>2, <4>3
    <3>4. (\E k \in DOMAIN extensions : ~IsValidExtensionNumber(extensions[k].number))
            => warned'
      BY <2>4 DEF AddRpcMessageExtensions
    <3> QED
      BY <3>3, <3>4
  <2> QED
    BY <2>2, <2>3, <2>4 DEF AddRpcMessageExtensions
<1> QED
  BY <1>5, <1>7, <1>8, <1>9, <1>13, <1>14 DEF NamesInv

\* Both invariants hold.
LEMMA FilesAndNames == Spec => [](FilesInv /\ NamesInv)
<1>1. FilesInv /\ NamesInv /\ [Next]_vars => (FilesInv /\ NamesInv)'
  BY BuildFileNames, AddNames, OtherNames DEF Next
<1> QED
  BY <1>1, InitFiles, PTL DEF Spec

(* The plugin dies only after a warning was printed, or if the request has one *)
(* of the clashes that keep the pool from building an _rpc file, or a file     *)
(* that is not named .proto (rpcplugin.cpp:107-131, 525-527, utilities.cpp:111).*)
THEOREM CrashHasReason == Spec => []CrashExplained
<1>1. NamesInv => CrashExplained
  BY DEF NamesInv
<1> QED
  BY <1>1, FilesAndNames, PTL

\* No number is out of protobuf's range (rpcplugin.cpp:107-131).
THEOREM NumbersStayInRange == Spec => []NumbersInRange
<1>1. FilesInv => NumbersInRange
  <2> SUFFICES ASSUME FilesInv, NEW m \in Methods
               PROVE  GenerateExtensionNumber(hash[m]) \in MinNumber .. MaxNumber
    BY DEF NumbersInRange
  <2>1. hash[m] \in Hashes
    BY DEF FilesInv
  <2> QED
    BY <2>1, NumberInRange
<1> QED
  BY <1>1, FilesAndNames, PTL

-----------------------------------------------------------------------------
(* What is written for a file.                                                 *)

Entries == [file : Texts, point : Texts, offers : SUBSET Texts]
Offers(file) == {<<"includes">>} \cup {ClassScope(t) : t \in Range(file.types)}
Files(file) == CppFiles(file) \o ServiceFiles(file)
ServiceSuffixes == <<".pb.h", "_Proxy.pb.cc", "_Dispatcher.pb.h", "_Dispatcher.pb.cc",
                     "_Handler.pb.h", "_Handler.pb.cc">>

\* Insertion points are not empty and differ from each other.
LEMMA Points ==
  /\ <<>> \in Texts /\ <<"includes">> \in Texts /\ <<"includes">> # <<>>
  /\ \A t \in STRING : /\ ClassScope(t) \in Texts /\ ClassScope(t) # <<>>
                       /\ ClassScope(t) # <<"includes">>
                       /\ \A u \in STRING : ClassScope(t) = ClassScope(u) => t = u
<1>1. <<>> \in Texts
  BY DEF Texts
<1>2. <<"includes">> \in Texts /\ <<"includes">> # <<>> /\ Len(<<"includes">>) = 1
  <2> DEFINE w == "includes"
  <2>1. w \in Words
    BY DEF Words
  <2> HIDE DEF w
  <2>2. <<w>> \in Seq(Words) /\ Len(<<w>>) = 1 /\ <<w>> # <<>>
    BY <2>1
  <2> QED
    BY <2>2 DEF Texts, w
<1>3. ASSUME NEW t \in STRING
      PROVE  ClassScope(t) \in Seq(Words) /\ Len(ClassScope(t)) = 2 /\ ClassScope(t)[2] = t
  <2>1. "class_scope" \in Words /\ t \in Words
    BY DEF Words
  <2> QED
    BY <2>1, PairIs DEF ClassScope
<1>4. Len(<<>>) = 0
  OBVIOUS
<1> QED
  BY <1>1, <1>2, <1>3, <1>4 DEF Texts

LEMMA AppendEqual ==
  ASSUME NEW x \in Texts, NEW y \in Texts, NEW v \in Words, NEW w \in Words
  PROVE  Append(x, v) = Append(y, w) => x = y /\ v = w
<1> SUFFICES ASSUME Append(x, v) = Append(y, w) PROVE x = y /\ v = w
  OBVIOUS
<1>1. x \in Seq(Words) /\ y \in Seq(Words) /\ Len(x) \in Nat /\ Len(y) \in Nat
  BY LenProperties DEF Texts
<1>2. Len(x) = Len(y) /\ v = w
  BY <1>1, RpcNamed
<1>3. \A k \in 1 .. Len(x) : x[k] = y[k]
  BY <1>1, <1>2, RpcNamed
<1> QED
  BY <1>1, <1>2, <1>3, SeqEqual

LEMMA OneIs ==
  ASSUME NEW S, NEW a \in S, NEW b \in S
  PROVE  /\ <<a>> \in Seq(S) /\ <<a, b>> = Append(<<a>>, b)
         /\ \A c \in S : <<a>> = <<c>> => a = c
OBVIOUS

\* A file of a service is named with two words.
LEMMA ServiceNamed ==
  /\ \A s \in STRING : s \in Words
  /\ \A s, w \in Words : /\ <<s>> \in Texts /\ <<s, w>> = Append(<<s>>, w)
                         /\ \A t \in Words : <<s>> = <<t>> => s = t
<1>1. \A s \in STRING : s \in Words
  BY DEF Words
<1>2. ASSUME NEW s \in Words, NEW w \in Words
      PROVE  /\ <<s>> \in Seq(Words) /\ <<s, w>> = Append(<<s>>, w)
             /\ \A c \in Words : <<s>> = <<c>> => s = c
  BY OneIs
<1> QED
  BY <1>1, <1>2 DEF Texts

LEMMA SuffixesDiffer ==
  /\ \A k \in 1 .. 6 : ServiceSuffixes[k] \in Words
  /\ \A k, l \in 1 .. 6 : ServiceSuffixes[k] = ServiceSuffixes[l] => k = l
  /\ ".pb.h" \in Words /\ ".pb.cc" \in Words /\ ".pb.h" # ".pb.cc"
<1>1. \A k \in 1 .. 6 : k \in {1, 2, 3, 4, 5, 6}
  OBVIOUS
<1>2. /\ ServiceSuffixes[1] = ".pb.h" /\ ServiceSuffixes[2] = "_Proxy.pb.cc"
      /\ ServiceSuffixes[3] = "_Dispatcher.pb.h" /\ ServiceSuffixes[4] = "_Dispatcher.pb.cc"
      /\ ServiceSuffixes[5] = "_Handler.pb.h" /\ ServiceSuffixes[6] = "_Handler.pb.cc"
  BY DEF ServiceSuffixes
<1> QED
  BY <1>1, <1>2 DEF Words

LEMMA OffersTyped ==
  ASSUME NEW file \in ParsedTypes
  PROVE  /\ Offers(file) \in SUBSET Texts /\ ToHeader(file) \in Texts
         /\ Append(file.name, ".pb.cc") \in Texts
<1>1. file.types \in Seq(STRING) /\ file.name \in Texts
  BY DEF ParsedTypes
<1>2. \A t \in Range(file.types) : t \in STRING
  BY <1>1, RangeOf
<1>3. ToHeader(file) \in Texts /\ Append(file.name, ".pb.cc") \in Texts
  BY <1>1, SuffixesDiffer, RpcNamed DEF ToHeader
<1>4. \A t \in Range(file.types) : ClassScope(t) \in Texts
  BY <1>2, Points
<1>5. <<"includes">> \in Texts
  BY Points
<1>6. Offers(file) \in SUBSET Texts
  BY <1>4, <1>5 DEF Offers
<1> QED
  BY <1>3, <1>6

LEMMA CppEntries ==
  ASSUME NEW file \in ParsedTypes
  PROVE  /\ CppFiles(file) \in Seq(Entries) /\ Len(CppFiles(file)) = 2
         /\ CppFiles(file)[1] = Generated(ToHeader(file), Offers(file))
         /\ CppFiles(file)[2] = Generated(Append(file.name, ".pb.cc"), {})
<1> DEFINE e == Generated(ToHeader(file), Offers(file))
           f == Generated(Append(file.name, ".pb.cc"), {})
<1>1. e \in Entries /\ f \in Entries
  BY OffersTyped, Points DEF Generated, Entries
<1>2. CppFiles(file) = <<e, f>>
  BY DEF CppFiles, Offers, ToHeader
<1> HIDE DEF e, f
<1>3. CppFiles(file) \in Seq(Entries) /\ Len(CppFiles(file)) = 2
      /\ CppFiles(file)[1] = e /\ CppFiles(file)[2] = f
  BY <1>1, <1>2, PairIs
<1> QED
  BY <1>3 DEF e, f

\* File x of service k, with suffix s, is at place j.
IsServiceFile(file, offset, j, x) ==
  \E k \in DOMAIN file.services, s \in 1 .. 6 :
    j = offset[k - 1] + s /\ x = <<file.services[k].name, ServiceSuffixes[s]>>

LEMMA ServiceEntries ==
  ASSUME NEW file \in ParsedTypes
  PROVE  /\ ServiceFiles(file) \in Seq(Entries)
         /\ \E offset : \A j \in 1 .. Len(ServiceFiles(file)) :
              /\ ServiceFiles(file)[j].point = <<>>
              /\ IsServiceFile(file, offset, j, ServiceFiles(file)[j].file)
<1> DEFINE n == Len(file.services)
           Name(k) == file.services[k].name
           Entry(k, s) == Generated(<<Name(k), ServiceSuffixes[s]>>, {})
           seqs == [k \in DOMAIN file.services |-> [s \in DOMAIN ServiceSuffixes |-> Entry(k, s)]]
           flat == ServiceFiles(file)
<1>1. /\ n \in Nat /\ DOMAIN file.services = 1 .. n /\ \A k \in 1 .. n : Name(k) \in STRING
  <2>1. file.services \in Seq(Services)
    BY DEF ParsedTypes
  <2>2. n \in Nat /\ DOMAIN file.services = 1 .. n /\ \A k \in 1 .. n : file.services[k] \in Services
    BY <2>1, RangeOf
  <2> QED
    BY <2>2 DEF Services
<1>2. DOMAIN ServiceSuffixes = 1 .. 6
  BY DEF ServiceSuffixes
<1>3. flat = FlattenSeq(seqs)
  BY DEF ServiceFiles, ServiceSuffixes
<1>4. ASSUME NEW k \in 1 .. n, NEW s \in 1 .. 6
      PROVE  Entry(k, s) \in Entries /\ Entry(k, s).point = <<>>
             /\ Entry(k, s).file = <<Name(k), ServiceSuffixes[s]>>
  <2> DEFINE a == Name(k)
             b == ServiceSuffixes[s]
  <2>1. a \in Words /\ b \in Words
    BY <1>1, SuffixesDiffer, ServiceNamed
  <2> HIDE DEF a, b
  <2>2. <<a, b>> \in Texts
    BY <2>1, PairIs DEF Texts
  <2>3. <<Name(k), ServiceSuffixes[s]>> \in Texts
    BY <2>2 DEF a, b
  <2> HIDE DEF Name
  <2> QED
    BY <2>3, Points DEF Generated, Entries
<1>5. seqs = [k \in 1 .. n |-> [s \in 1 .. 6 |-> Entry(k, s)]]
  BY <1>1, <1>2
<1> HIDE DEF n, Name, Entry, seqs, flat
<1>6. ASSUME NEW k \in 1 .. n
      PROVE  seqs[k] \in Seq(Entries) /\ Len(seqs[k]) = 6
             /\ \A s \in 1 .. 6 : seqs[k][s] = Entry(k, s)
  <2>1. seqs[k] = [s \in 1 .. 6 |-> Entry(k, s)]
    BY <1>5
  <2>2. DOMAIN seqs[k] = 1 .. 6 /\ seqs[k] = [s \in 1 .. 6 |-> seqs[k][s]]
        /\ \A s \in 1 .. 6 : seqs[k][s] = Entry(k, s)
    BY <2>1
  <2> QED
    BY <1>4, <2>2, IsSequence
<1>7. seqs \in Seq(Seq(Entries)) /\ Len(seqs) = n
  <2>1. DOMAIN seqs = 1 .. n /\ seqs = [k \in 1 .. n |-> seqs[k]]
    BY <1>5
  <2> QED
    BY <1>1, <1>6, <2>1, IsSequence
<1>8. flat \in Seq(Entries)
  BY <1>3, <1>7, FlattenElements
<1>9. PICK offset : Places(offset, seqs, flat)
  BY <1>3, <1>7, FlattenPlaces
<1>10. ASSUME NEW j \in 1 .. Len(flat)
       PROVE  flat[j].point = <<>> /\ IsServiceFile(file, offset, j, flat[j].file)
  <2>1. PICK k \in 1 .. n : \E s \in 1 .. Len(seqs[k]) : j = offset[k - 1] + s
    BY <1>7, <1>9 DEF Places
  <2>2. PICK s \in 1 .. 6 : j = offset[k - 1] + s
    BY <1>6, <2>1
  <2>3. s \in 1 .. Len(seqs[k]) /\ seqs[k][s] = Entry(k, s)
    BY <1>6
  <2>4. flat[offset[k - 1] + s] = seqs[k][s]
    BY <1>7, <1>9, <2>3 DEF Places
  <2>5. flat[j].point = <<>> /\ flat[j].file = <<file.services[k].name, ServiceSuffixes[s]>>
    BY <1>4, <2>2, <2>3, <2>4 DEF Name
  <2> QED
    BY <1>1, <2>2, <2>5 DEF IsServiceFile
<1> QED
  BY <1>8, <1>10 DEF flat

\* File x is at place j of what is written for a file.
IsFile(file, offset, j, x) ==
  \/ j = 1 /\ x = ToHeader(file)
  \/ j = 2 /\ x = Append(file.name, ".pb.cc")
  \/ IsServiceFile(file, offset, j - 2, x)

LEMMA FilesAre ==
  ASSUME NEW file \in ParsedTypes
  PROVE  /\ Files(file) \in Seq(Entries) /\ 1 \in 1 .. Len(Files(file))
         /\ Files(file)[1] = Generated(ToHeader(file), Offers(file))
         /\ \E offset : \A j \in 1 .. Len(Files(file)) :
              /\ Files(file)[j].point = <<>>
              /\ IsFile(file, offset, j, Files(file)[j].file)
<1> DEFINE c == CppFiles(file)
           d == ServiceFiles(file)
           n == Len(d)
           f == Files(file)
<1>1. /\ c \in Seq(Entries) /\ Len(c) = 2
      /\ c[1] = Generated(ToHeader(file), Offers(file))
      /\ c[2] = Generated(Append(file.name, ".pb.cc"), {})
  BY CppEntries
<1>2. d \in Seq(Entries)
  BY ServiceEntries
<1>3. PICK offset : \A j \in 1 .. n : d[j].point = <<>> /\ IsServiceFile(file, offset, j, d[j].file)
  BY ServiceEntries
<1>4. f = c \o d
  BY DEF Files
<1>5. n \in Nat
  BY <1>2, LenProperties
<1> HIDE DEF c, d, f
<1>6. /\ f \in Seq(Entries) /\ Len(f) = 2 + n
      /\ \A j \in 1 .. 2 + n : f[j] = IF j <= 2 THEN c[j] ELSE d[j - 2]
  <2>1. /\ c \o d \in Seq(Entries) /\ Len(c \o d) = Len(c) + Len(d)
        /\ \A j \in 1 .. Len(c) + Len(d) :
             (c \o d)[j] = IF j <= Len(c) THEN c[j] ELSE d[j - Len(c)]
    BY <1>1, <1>2, ConcatProperties
  <2> QED
    BY <1>1, <1>4, <2>1
<1> HIDE DEF n
<1>7. f[1] = c[1] /\ f[2] = c[2] /\ 1 \in 1 .. Len(f)
  BY <1>5, <1>6
<1>8. ASSUME NEW j \in 1 .. Len(f)
      PROVE  f[j].point = <<>> /\ IsFile(file, offset, j, f[j].file)
  <2>1. CASE j = 1
    BY <1>1, <1>7, <2>1 DEF IsFile, Generated
  <2>2. CASE j = 2
    BY <1>1, <1>7, <2>2 DEF IsFile, Generated
  <2>3. CASE j > 2
    <3>1. j - 2 \in 1 .. n /\ f[j] = d[j - 2]
      BY <1>5, <1>6, <2>3
    <3> QED
      BY <1>3, <3>1 DEF IsFile
  <2> QED
    BY <1>5, <1>6, <2>1, <2>2, <2>3
<1> QED
  BY <1>1, <1>6, <1>7, <1>8 DEF f

\* Nothing written for two files has the name of the other's.
Separate(f, g) ==
  /\ \A a \in DOMAIN f.services : <<f.services[a].name>> # g.name
  /\ \A b \in DOMAIN g.services : <<g.services[b].name>> # f.name
  /\ \A a \in DOMAIN f.services, b \in DOMAIN g.services :
       f.services[a].name = g.services[b].name => f = g /\ a = b

LEMMA FilesDiffer ==
  ASSUME NEW f \in ParsedTypes, NEW g \in ParsedTypes, Separate(f, g),
         NEW o, NEW q, NEW j \in Nat, NEW l \in Nat, NEW x,
         IsFile(f, o, j, x), IsFile(g, q, l, x)
  PROVE  f.name = g.name /\ (o = q => j = l)
<1>1. f.name \in Texts /\ g.name \in Texts
  BY DEF ParsedTypes
<1>2. /\ \A a \in DOMAIN f.services : f.services[a].name \in Words
      /\ \A a \in DOMAIN g.services : g.services[a].name \in Words
  <2>1. \A h \in ParsedTypes : \A a \in DOMAIN h.services : h.services[a].name \in Words
    <3> SUFFICES ASSUME NEW h \in ParsedTypes, NEW a \in DOMAIN h.services
                 PROVE  h.services[a].name \in Words
      OBVIOUS
    <3>1. h.services \in Seq(Services)
      BY DEF ParsedTypes
    <3>2. h.services[a] \in Services
      BY <3>1, RangeOf
    <3>3. h.services[a].name \in STRING
      BY <3>2 DEF Services
    <3> QED
      BY <3>3, ServiceNamed
  <2> QED
    BY <2>1
<1>3. ASSUME NEW a \in DOMAIN f.services, NEW s \in 1 .. 6,
             x = <<f.services[a].name, ServiceSuffixes[s]>>
      PROVE  x # ToHeader(g) /\ x # Append(g.name, ".pb.cc")
  <2> DEFINE t == f.services[a].name
  <2>1. t \in Words /\ <<t>> \in Texts /\ ServiceSuffixes[s] \in Words
        /\ x = Append(<<t>>, ServiceSuffixes[s])
    BY <1>2, <1>3, ServiceNamed, SuffixesDiffer
  <2>2. <<t>> # g.name
    BY DEF Separate
  <2> HIDE DEF t
  <2> QED
    BY <1>1, <2>1, <2>2, SuffixesDiffer, AppendEqual DEF ToHeader
<1>4. ASSUME NEW a \in DOMAIN g.services, NEW s \in 1 .. 6,
             x = <<g.services[a].name, ServiceSuffixes[s]>>
      PROVE  x # ToHeader(f) /\ x # Append(f.name, ".pb.cc")
  <2> DEFINE t == g.services[a].name
  <2>1. t \in Words /\ <<t>> \in Texts /\ ServiceSuffixes[s] \in Words
        /\ x = Append(<<t>>, ServiceSuffixes[s])
    BY <1>2, <1>4, ServiceNamed, SuffixesDiffer
  <2>2. <<t>> # f.name
    BY DEF Separate
  <2> HIDE DEF t
  <2> QED
    BY <1>1, <2>1, <2>2, SuffixesDiffer, AppendEqual DEF ToHeader
<1>5. CASE x = ToHeader(f) /\ x = ToHeader(g) /\ j = 1 /\ l = 1
  <2>1. x = Append(f.name, ".pb.h") /\ x = Append(g.name, ".pb.h")
    BY <1>5 DEF ToHeader
  <2>2. f.name = g.name
    BY <1>1, <2>1, SuffixesDiffer, AppendEqual
  <2> QED
    BY <1>5, <2>2
<1>6. CASE x = Append(f.name, ".pb.cc") /\ x = Append(g.name, ".pb.cc") /\ j = 2 /\ l = 2
  <2>1. ".pb.cc" \in Words /\ Append(f.name, ".pb.cc") = Append(g.name, ".pb.cc")
    BY <1>6, SuffixesDiffer
  <2>2. f.name = g.name
    BY <1>1, <2>1, AppendEqual
  <2> QED
    BY <1>6, <2>2
<1>7. ~(x = ToHeader(f) /\ x = Append(g.name, ".pb.cc"))
      /\ ~(x = ToHeader(g) /\ x = Append(f.name, ".pb.cc"))
  <2>1. ".pb.h" \in Words /\ ".pb.cc" \in Words /\ ".pb.h" # ".pb.cc"
    BY SuffixesDiffer
  <2>2. /\ Append(f.name, ".pb.h") # Append(g.name, ".pb.cc")
        /\ Append(g.name, ".pb.h") # Append(f.name, ".pb.cc")
    BY <1>1, <2>1, AppendEqual
  <2> QED
    BY <2>2 DEF ToHeader
<1>8. CASE IsServiceFile(f, o, j - 2, x) /\ IsServiceFile(g, q, l - 2, x)
  <2>1. PICK a \in DOMAIN f.services, s \in 1 .. 6 :
          j - 2 = o[a - 1] + s /\ x = <<f.services[a].name, ServiceSuffixes[s]>>
    BY <1>8 DEF IsServiceFile
  <2>2. PICK b \in DOMAIN g.services, t \in 1 .. 6 :
          l - 2 = q[b - 1] + t /\ x = <<g.services[b].name, ServiceSuffixes[t]>>
    BY <1>8 DEF IsServiceFile
  <2>3. f.services[a].name = g.services[b].name /\ ServiceSuffixes[s] = ServiceSuffixes[t]
    BY <2>1, <2>2
  <2>4. f = g /\ a = b /\ s = t
    BY <2>3, SuffixesDiffer DEF Separate
  <2>5. o = q => j - 2 = l - 2
    BY <2>1, <2>2, <2>4
  <2> QED
    BY <2>4, <2>5
<1>9. IsServiceFile(f, o, j - 2, x) => x # ToHeader(g) /\ x # Append(g.name, ".pb.cc")
  BY <1>3 DEF IsServiceFile
<1>10. IsServiceFile(g, q, l - 2, x) => x # ToHeader(f) /\ x # Append(f.name, ".pb.cc")
  BY <1>4 DEF IsServiceFile
<1> QED
  BY <1>5, <1>6, <1>7, <1>8, <1>9, <1>10 DEF IsFile

-----------------------------------------------------------------------------
(* The parsed files.                                                           *)

\* The name and whether it ends in ".proto": what the pool knows a file by.
Distinct(f, g) == f.name # g.name \/ f.proto # g.proto

\* First come the files of the request, then _rpc files, and no two have a name.
ParsedInv ==
  pc \notin {"building", "failed"} =>
    /\ Len(request) <= Len(parsedFiles)
    /\ \A k \in 1 .. Len(request) : parsedFiles[k] = request[k]
    /\ \A k \in Len(request) + 1 .. Len(parsedFiles) : parsedFiles[k] # NULL =>
         \E p \in DOMAIN request : parsedFiles[k] = RpcFile(request[p])
    /\ \A k, l \in DOMAIN parsedFiles :
         k # l /\ parsedFiles[k] # NULL /\ parsedFiles[l] # NULL =>
           Distinct(parsedFiles[k], parsedFiles[l])

\* Appending to the parsed files NULL or the _rpc file of the file the program
\* is at keeps them in order.
LEMMA ParsedMore ==
  ASSUME FilesInv, ParsedInv, pc = "extending", i \in DOMAIN request,
         UNCHANGED <<request, pc>>,
         NEW x \in {NULL, RpcFile(request[i])}, parsedFiles' = Append(parsedFiles, x),
         \A k \in DOMAIN parsedFiles :
           x # NULL /\ parsedFiles[k] # NULL => Distinct(parsedFiles[k], x)
  PROVE  ParsedInv'
<1> DEFINE n == Len(request)
           m == Len(parsedFiles)
<1>1. n \in Nat
  BY FilesTyped DEF FilesInv
<1>2. /\ m \in Nat /\ n <= m /\ DOMAIN parsedFiles = 1 .. m
      /\ \A k \in 1 .. n : parsedFiles[k] = request[k]
      /\ \A k \in n + 1 .. m : parsedFiles[k] # NULL =>
           \E p \in DOMAIN request : parsedFiles[k] = RpcFile(request[p])
      /\ \A k, l \in DOMAIN parsedFiles :
           k # l /\ parsedFiles[k] # NULL /\ parsedFiles[l] # NULL =>
             Distinct(parsedFiles[k], parsedFiles[l])
  BY DEF FilesInv, ParsedInv
<1>3. /\ Len(parsedFiles') = m + 1 /\ parsedFiles'[m + 1] = x
      /\ \A k \in 1 .. m : parsedFiles'[k] = parsedFiles[k]
      /\ DOMAIN parsedFiles' = 1 .. m + 1
  <2>1. parsedFiles \in Seq(ParsedTypes \cup {NULL}) /\ x \in ParsedTypes \cup {NULL}
    BY FilesTyped, RpcFileParsed DEF FilesInv
  <2>2. /\ parsedFiles' \in Seq(ParsedTypes \cup {NULL}) /\ Len(parsedFiles') = m + 1
        /\ parsedFiles'[m + 1] = x
        /\ \A k \in 1 .. m : parsedFiles'[k] = parsedFiles[k]
    BY <2>1, AppendProperties
  <2> QED
    BY <2>2
<1> HIDE DEF n, m
<1>4. n <= m + 1 /\ \A k \in 1 .. n : parsedFiles'[k] = request[k]
  BY <1>1, <1>2, <1>3
<1>5. ASSUME NEW k \in n + 1 .. m + 1, parsedFiles'[k] # NULL
      PROVE  \E p \in DOMAIN request : parsedFiles'[k] = RpcFile(request[p])
  <2>1. CASE k = m + 1
    BY <1>3, <1>5, <2>1
  <2>2. CASE k # m + 1
    <3>1. k \in n + 1 .. m /\ k \in 1 .. m
      BY <1>1, <1>2, <2>2
    <3> QED
      BY <1>2, <1>3, <1>5, <3>1
  <2> QED
    BY <2>1, <2>2
<1>6. ASSUME NEW k \in 1 .. m + 1, NEW l \in 1 .. m + 1, k # l,
             parsedFiles'[k] # NULL, parsedFiles'[l] # NULL
      PROVE  Distinct(parsedFiles'[k], parsedFiles'[l])
  <2>1. \A h \in 1 .. m + 1 : h # m + 1 => h \in 1 .. m
    BY <1>2
  <2>2. \A f, g : Distinct(f, g) <=> Distinct(g, f)
    BY DEF Distinct
  <2>3. CASE k # m + 1 /\ l # m + 1
    BY <1>2, <1>3, <1>6, <2>1, <2>3
  <2>4. CASE k = m + 1
    <3>1. l \in 1 .. m /\ parsedFiles'[l] = parsedFiles[l] /\ parsedFiles'[k] = x
      BY <1>3, <1>6, <2>1, <2>4
    <3> QED
      BY <1>2, <1>6, <2>2, <3>1
  <2>5. CASE l = m + 1
    <3>1. k \in 1 .. m /\ parsedFiles'[k] = parsedFiles[k] /\ parsedFiles'[l] = x
      BY <1>3, <1>6, <2>1, <2>5
    <3> QED
      BY <1>2, <1>6, <3>1
  <2> QED
    BY <2>3, <2>4, <2>5
<1>7. Len(request') = n /\ Len(parsedFiles') = m + 1 /\ request' = request
  BY <1>3 DEF n
<1>8. /\ Len(request') <= Len(parsedFiles')
      /\ \A k \in 1 .. Len(request') : parsedFiles'[k] = request'[k]
      /\ \A k \in Len(request') + 1 .. Len(parsedFiles') : parsedFiles'[k] # NULL =>
           \E p \in DOMAIN request' : parsedFiles'[k] = RpcFile(request'[p])
      /\ \A k, l \in DOMAIN parsedFiles' :
           k # l /\ parsedFiles'[k] # NULL /\ parsedFiles'[l] # NULL =>
             Distinct(parsedFiles'[k], parsedFiles'[l])
  BY <1>3, <1>4, <1>5, <1>6, <1>7
<1> QED
  BY <1>8 DEF ParsedInv

LEMMA ParsedStep ==
  ASSUME FilesInv, ParsedInv, [Next]_vars
  PROVE  ParsedInv'
<1>1. /\ request \in Requests /\ Len(request) \in Nat /\ DOMAIN request = 1 .. Len(request)
      /\ i \in Nat \ {0} /\ (pc = "extending" => i - 1 <= Len(request))
      /\ (pc \notin {"building", "failed"} => fileDescriptors = request)
  BY FilesTyped DEF FilesInv
<1>2. CASE BuildFile \/ Fail
  BY <1>2 DEF BuildFile, Fail, ParsedInv
<1>3. CASE BuiltAll
  <2>1. fileDescriptors = request
    <3>1. /\ i \in Nat /\ i > Len(request) /\ i - 1 <= Len(request)
          /\ Len(fileDescriptors) = i - 1 /\ fileDescriptors \in Seq(FileTypes)
          /\ \A k \in 1 .. i - 1 : fileDescriptors[k] = request[k] /\ request \in Seq(FileTypes)
      BY <1>3, FilesTyped DEF FilesInv, BuiltAll
    <3>2. i - 1 = Len(request) /\ request \in Seq(FileTypes)
      BY <1>1, <3>1, FilesTyped
    <3> QED
      BY <1>1, <3>1, <3>2, SeqEqual
  <2>2. parsedFiles' = request /\ request' = request
    BY <1>3, <2>1 DEF BuiltAll
  <2>3. Len(request) + 1 .. Len(request) = {}
    BY <1>1
  <2>4. \A k, l \in DOMAIN request : k # l => Distinct(request[k], request[l])
    BY <1>1, RequestAssumption DEF RequestAssumption, Distinct
  <2> QED
    BY <1>1, <2>2, <2>3, <2>4 DEF ParsedInv
<1>4. CASE AddRpcMessageExtensions
  <2>1. /\ pc = "extending" /\ i \in DOMAIN request /\ fileDescriptors = request /\ i' = i + 1
        /\ UNCHANGED <<request, pc>>
    BY <1>1, <1>4 DEF AddRpcMessageExtensions
  <2>2. CASE parsedFiles' = parsedFiles
    BY <2>1, <2>2 DEF ParsedInv
  <2>3. CASE parsedFiles' = Append(parsedFiles, NULL)
    BY <2>1, <2>3, ParsedMore
  <2>4. CASE /\ parsedFiles' = Append(parsedFiles, RpcFile(request[i]))
             /\ ~Refused(request[i], Extensions(request[i]))
    <3>1. \A k \in DOMAIN parsedFiles : parsedFiles[k] # NULL =>
            ~(parsedFiles[k].proto /\ parsedFiles[k].name = RpcName(request[i]))
      BY <2>4 DEF Refused
    <3>2. \A k \in DOMAIN parsedFiles : parsedFiles[k] # NULL =>
            Distinct(parsedFiles[k], RpcFile(request[i]))
      <4> SUFFICES ASSUME NEW k \in DOMAIN parsedFiles, parsedFiles[k] # NULL
                   PROVE  Distinct(parsedFiles[k], RpcFile(request[i]))
        OBVIOUS
      <4>1. parsedFiles[k].proto \in BOOLEAN
        <5>1. parsedFiles[k] \in ParsedTypes
          BY RangeOf DEF FilesInv
        <5> QED
          BY <5>1 DEF ParsedTypes
      <4> QED
        BY <3>1, <4>1 DEF Distinct, RpcFile
    <3> QED
      BY <2>1, <2>4, <3>2, ParsedMore
  <2> QED
    BY <1>4, <2>1, <2>2, <2>3, <2>4 DEF AddRpcMessageExtensions
<1>5. CASE AddedAll \/ Generate \/ GenerateFails \/ Crash \/ GeneratedAll \/ Abort \/ Insert
  <2>1. UNCHANGED <<request, parsedFiles>>
    BY <1>5 DEF AddedAll, Generate, GenerateFails, Crash, GeneratedAll, Abort, Insert
  <2>2. pc \notin {"building", "failed"}
    BY <1>5 DEF AddedAll, Generate, GenerateFails, Crash, GeneratedAll, Abort, Insert
  <2> QED
    BY <2>1, <2>2 DEF ParsedInv
<1>6. CASE UNCHANGED vars
  BY <1>6 DEF vars, ParsedInv
<1> QED
  BY <1>2, <1>3, <1>4, <1>5, <1>6 DEF Next

AllProto == \A p \in DOMAIN request : request[p].proto

\* When all files are named .proto all names differ, and if services are apart
\* nothing that is written is.
LEMMA ParsedSeparate ==
  ASSUME FilesInv, ParsedInv, ServicesApart, AllProto, pc \notin {"building", "failed", "extending"},
         NEW k \in DOMAIN parsedFiles, NEW l \in DOMAIN parsedFiles,
         parsedFiles[k] # NULL, parsedFiles[l] # NULL
  PROVE  /\ parsedFiles[k] \in ParsedTypes
         /\ Separate(parsedFiles[k], parsedFiles[l])
         /\ parsedFiles[k].name = parsedFiles[l].name => k = l
<1> DEFINE n == Len(request)
           f == parsedFiles[k]
           g == parsedFiles[l]
           IsRequested(h, a) == a \in 1 .. n /\ h = request[a]
           IsRpc(h, a) == a > n /\ \E p \in 1 .. n : h = RpcFile(request[p])
<1>1. /\ n \in Nat /\ DOMAIN request = 1 .. n /\ request \in Requests
      /\ \A p \in 1 .. n : request[p] \in FileTypes /\ request[p].name \in Texts
  BY FilesTyped, FileParsed DEF FilesInv, ParsedTypes
<1>2. f \in ParsedTypes /\ g \in ParsedTypes
      /\ k \in 1 .. Len(parsedFiles) /\ l \in 1 .. Len(parsedFiles) /\ Len(parsedFiles) \in Nat
  <2>1. parsedFiles \in Seq(ParsedTypes \cup {NULL})
    BY DEF FilesInv
  <2>2. f \in ParsedTypes \cup {NULL} /\ g \in ParsedTypes \cup {NULL}
    BY <2>1, RangeOf
  <2>3. k \in 1 .. Len(parsedFiles) /\ l \in 1 .. Len(parsedFiles) /\ Len(parsedFiles) \in Nat
    BY <2>1, RangeOf
  <2> QED
    BY <2>2, <2>3
<1>3. (IsRequested(f, k) \/ IsRpc(f, k)) /\ (IsRequested(g, l) \/ IsRpc(g, l))
  <2> SUFFICES ASSUME NEW a \in 1 .. Len(parsedFiles), parsedFiles[a] # NULL
               PROVE  IsRequested(parsedFiles[a], a) \/ IsRpc(parsedFiles[a], a)
    BY <1>2
  <2>1. CASE a <= n
    BY <1>1, <1>2, <2>1 DEF ParsedInv
  <2>2. CASE a > n
    <3>1. a \in n + 1 .. Len(parsedFiles)
      BY <1>1, <1>2, <2>2
    <3> QED
      BY <1>1, <2>2, <3>1 DEF ParsedInv
  <2> QED
    BY <1>1, <1>2, <2>1, <2>2
<1>4. \A p, q \in 1 .. n : \A a \in DOMAIN request[p].services :
        /\ <<request[p].services[a].name>> # request[q].name
        /\ <<request[p].services[a].name>> # Append(request[q].name, "_rpc")
        /\ \A b \in DOMAIN request[q].services :
             request[p].services[a].name = request[q].services[b].name => p = q /\ a = b
  <2>1. DOMAIN request = 1 .. n
    BY <1>1
  <2> HIDE DEF n
  <2> SUFFICES ASSUME NEW p \in 1 .. n, NEW q \in 1 .. n, NEW a \in DOMAIN request[p].services
               PROVE  /\ <<request[p].services[a].name>> # request[q].name
                      /\ <<request[p].services[a].name>> # Append(request[q].name, "_rpc")
                      /\ \A b \in DOMAIN request[q].services :
                           request[p].services[a].name = request[q].services[b].name
                             => p = q /\ a = b
    OBVIOUS
  <2>2. /\ <<request[p].services[a].name>>
             \notin {request[q].name, Append(request[q].name, "_rpc")}
        /\ \A b \in DOMAIN request[q].services :
             request[p].services[a].name = request[q].services[b].name => p = q /\ a = b
    BY <2>1 DEF ServicesApart
  <2> QED
    BY <2>2
<1>5. \A p \in 1 .. n : /\ RpcFile(request[p]).name = Append(request[p].name, "_rpc")
                        /\ RpcFile(request[p]).services = <<>>
                        /\ DOMAIN RpcFile(request[p]).services = {}
  BY DEF RpcFile, RpcName
<1> HIDE DEF n, f, g
<1>6. Separate(f, g)
  <2>1. CASE IsRequested(f, k) /\ IsRequested(g, l)
    <3>1. f = request[k] /\ g = request[l] /\ k \in 1 .. n /\ l \in 1 .. n
      BY <2>1
    <3>2. ASSUME NEW p \in 1 .. n, NEW q \in 1 .. n, NEW a \in DOMAIN request[p].services
          PROVE  <<request[p].services[a].name>> # request[q].name
      BY <1>4
    <3>3. ASSUME NEW a \in DOMAIN request[k].services, NEW b \in DOMAIN request[l].services,
                 request[k].services[a].name = request[l].services[b].name
          PROVE  k = l /\ a = b
      BY <1>4, <3>1, <3>3
    <3>4. Separate(request[k], request[l])
      BY <3>1, <3>2, <3>3 DEF Separate
    <3> QED
      BY <3>1, <3>4
  <2>2. CASE IsRequested(f, k) /\ IsRpc(g, l)
    <3>1. PICK p \in 1 .. n : g = RpcFile(request[p])
      BY <2>2
    <3>2. f = request[k] /\ k \in 1 .. n /\ g.name = Append(request[p].name, "_rpc")
          /\ DOMAIN g.services = {}
      BY <1>5, <2>2, <3>1
    <3> QED
      BY <1>4, <3>2 DEF Separate
  <2>3. CASE IsRpc(f, k) /\ IsRequested(g, l)
    <3>1. PICK p \in 1 .. n : f = RpcFile(request[p])
      BY <2>3
    <3>2. g = request[l] /\ l \in 1 .. n /\ f.name = Append(request[p].name, "_rpc")
          /\ DOMAIN f.services = {}
      BY <1>5, <2>3, <3>1
    <3>3. \A b \in DOMAIN request[l].services :
            <<request[l].services[b].name>> # Append(request[p].name, "_rpc")
      BY <1>4, <3>2
    <3>4. \A b \in DOMAIN g.services : <<g.services[b].name>> # f.name
      BY <3>2, <3>3
    <3> QED
      BY <3>2, <3>4 DEF Separate
  <2>4. CASE IsRpc(f, k) /\ IsRpc(g, l)
    BY <1>4, <1>5, <2>4 DEF Separate
  <2> QED
    BY <1>3, <2>1, <2>2, <2>3, <2>4
<1>7. f.name = g.name => k = l
  <2>1. \A h, a : IsRequested(h, a) \/ IsRpc(h, a) => h.proto = TRUE
    <3>1. \A p \in 1 .. n : request[p].proto = TRUE
      <4> SUFFICES ASSUME NEW p \in 1 .. n PROVE request[p].proto = TRUE
        OBVIOUS
      <4>1. request[p].proto \in BOOLEAN /\ request[p].proto
        BY <1>1 DEF AllProto, FileTypes
      <4> QED
        BY <4>1
    <3>2. \A p \in 1 .. n : RpcFile(request[p]).proto = TRUE
      BY DEF RpcFile
    <3> QED
      BY <3>1, <3>2
  <2>2. f.proto = g.proto
    BY <1>3, <2>1
  <2>3. k # l => Distinct(f, g)
    BY DEF ParsedInv, f, g
  <2> QED
    BY <2>2, <2>3 DEF Distinct
<1> QED
  BY <1>2, <1>6, <1>7 DEF f, g

-----------------------------------------------------------------------------
(* The files that were written.                                                *)

\* The first n parsed files have been generated.
Written(n) ==
  /\ n \in 0 .. Len(parsedFiles)
  /\ \A p \in 1 .. n : parsedFiles[p] # NULL
  /\ response = FlattenSeq([p \in 1 .. n |-> Files(parsedFiles[p])])

\* What is generated for the first n files, if there is no NULL among them.
LEMMA FilesOf ==
  ASSUME FilesInv, NEW n \in 0 .. Len(parsedFiles), \A p \in 1 .. n : parsedFiles[p] # NULL,
         NEW seqs, seqs = [p \in 1 .. n |-> Files(parsedFiles[p])]
  PROVE  /\ n \in Nat /\ Len(parsedFiles) \in Nat
         /\ seqs \in Seq(Seq(Entries)) /\ Len(seqs) = n
         /\ \A p \in 1 .. n : /\ p \in DOMAIN parsedFiles
                              /\ parsedFiles[p] \in ParsedTypes
                              /\ seqs[p] = Files(parsedFiles[p])
<1>1. parsedFiles \in Seq(ParsedTypes \cup {NULL})
  BY DEF FilesInv
<1>2. Len(parsedFiles) \in Nat /\ DOMAIN parsedFiles = 1 .. Len(parsedFiles)
      /\ \A p \in DOMAIN parsedFiles : parsedFiles[p] \in ParsedTypes \cup {NULL}
  BY <1>1, RangeOf
<1>3. n \in Nat /\ \A p \in 1 .. n : p \in DOMAIN parsedFiles
  BY <1>2
<1>4. \A p \in 1 .. n : parsedFiles[p] \in ParsedTypes
  BY <1>2, <1>3
<1>5. \A p \in 1 .. n : seqs[p] = Files(parsedFiles[p]) /\ seqs[p] \in Seq(Entries)
  BY <1>4, FilesAre
<1>6. DOMAIN seqs = 1 .. n /\ seqs = [p \in 1 .. n |-> seqs[p]]
  OBVIOUS
<1>7. seqs \in Seq(Seq(Entries)) /\ Len(seqs) = n
  BY <1>3, <1>5, <1>6, IsSequence
<1> QED
  BY <1>2, <1>3, <1>4, <1>5, <1>7

\* A round of the generators writes the files of one more.
LEMMA GenerateWrites ==
  ASSUME FilesInv, Written(i - 1), Generate
  PROVE  Written(i - 1)'
<1> DEFINE n == i - 1
           f == parsedFiles[i]
           seqs == [p \in 1 .. n |-> Files(parsedFiles[p])]
           more == [p \in 1 .. i |-> Files(parsedFiles[p])]
<1>1. /\ n \in 0 .. Len(parsedFiles) /\ i \in 0 .. Len(parsedFiles) /\ i \in Nat \ {0}
      /\ \A p \in 1 .. i : parsedFiles[p] # NULL
      /\ i' = i + 1 /\ parsedFiles' = parsedFiles /\ i' - 1 = i
  <2>1. /\ n \in 0 .. Len(parsedFiles) /\ \A p \in 1 .. n : parsedFiles[p] # NULL
    BY DEF Written
  <2>2. i \in Nat \ {0} /\ parsedFiles \in Seq(ParsedTypes \cup {NULL})
    BY DEF FilesInv
  <2>3. i <= Len(parsedFiles) /\ parsedFiles[i] # NULL /\ i' = i + 1 /\ parsedFiles' = parsedFiles
    BY DEF Generate
  <2>4. Len(parsedFiles) \in Nat
    BY <2>2, RangeOf
  <2>5. \A p \in 1 .. i : p \in 1 .. n \/ p = i
    BY <2>2
  <2> QED
    BY <2>1, <2>2, <2>3, <2>4, <2>5
<1>2. /\ seqs \in Seq(Seq(Entries)) /\ Len(seqs) = n /\ n \in Nat
  <2>1. \A p \in 1 .. n : parsedFiles[p] # NULL
    BY <1>1
  <2> QED
    BY <1>1, <2>1, FilesOf
<1>3. f \in ParsedTypes /\ Files(f) \in Seq(Entries)
  <2>1. i \in 1 .. i
    BY <1>1
  <2>2. f \in ParsedTypes
    BY <1>1, <2>1, FilesOf
  <2> QED
    BY <2>2, FilesAre
<1>4. more = Append(seqs, Files(f))
  <2>1. more \in Seq(Seq(Entries)) /\ Len(more) = i
    BY <1>1, FilesOf
  <2>2. /\ Append(seqs, Files(f)) \in Seq(Seq(Entries)) /\ Len(Append(seqs, Files(f))) = n + 1
        /\ \A p \in 1 .. n : Append(seqs, Files(f))[p] = seqs[p]
        /\ Append(seqs, Files(f))[n + 1] = Files(f)
    BY <1>2, <1>3, AppendProperties
  <2>3. n + 1 = i /\ more[i] = Files(f) /\ \A p \in 1 .. n : p \in 1 .. i /\ more[p] = seqs[p]
    BY <1>1
  <2>4. \A p \in 1 .. i : p \in 1 .. n \/ p = i
    BY <1>1
  <2> HIDE DEF more, seqs, f
  <2>5. \A p \in 1 .. i : more[p] = Append(seqs, Files(f))[p]
    BY <2>2, <2>3, <2>4
  <2> QED
    BY <2>1, <2>2, <2>3, <2>5, SeqEqual
<1>5. FlattenSeq(more) = response \o Files(f)
  <2>1. response = FlattenSeq(seqs)
    BY DEF Written
  <2> HIDE DEF more, seqs, f
  <2> QED
    BY <1>2, <1>3, <1>4, <2>1, FlattenMore
<1>6. response' = (response \o CppFiles(f)) \o ServiceFiles(f)
  BY DEF Generate
<1>7. response' = response \o Files(f)
  <2>1. response \in Seq(Entries)
    BY <1>2, FlattenElements DEF Written
  <2>2. AreSeqs(response, CppFiles(f), ServiceFiles(f), Entries)
    BY <1>3, <2>1, CppEntries, ServiceEntries DEF AreSeqs
  <2> HIDE DEF f
  <2> QED
    BY <1>6, <2>2, Associative DEF Files
<1>8. response' = FlattenSeq([p \in 1 .. i' - 1 |-> Files(parsedFiles'[p])])
  BY <1>1, <1>5, <1>7
<1> QED
  BY <1>1, <1>8 DEF Written

\* When all have been generated, each file is written once, if services are apart,
\* the headers with what they offer.
LEMMA AllWritten ==
  ASSUME FilesInv, ParsedInv, AllProto, pc = "inserting", Written(Len(parsedFiles))
  PROVE  /\ response \in Seq(Entries)
         /\ \A k \in 1 .. Len(response) : response[k].point = <<>>
         /\ ServicesApart => \A k, l \in 1 .. Len(response) :
              response[k].file = response[l].file => k = l
         /\ \A p \in DOMAIN request : \E k \in 1 .. Len(response) :
              response[k].file = ToHeader(request[p]) /\ response[k].offers = Offers(request[p])
<1> DEFINE m == Len(parsedFiles)
           seqs == [p \in 1 .. m |-> Files(parsedFiles[p])]
<1>1. /\ m \in 0 .. m /\ \A p \in 1 .. m : parsedFiles[p] # NULL
      /\ response = FlattenSeq(seqs)
  BY DEF Written
<1>2. /\ m \in Nat /\ seqs \in Seq(Seq(Entries)) /\ Len(seqs) = m
      /\ \A p \in 1 .. m : /\ p \in DOMAIN parsedFiles /\ parsedFiles[p] \in ParsedTypes
                           /\ seqs[p] = Files(parsedFiles[p])
  BY <1>1, FilesOf
<1> HIDE DEF m, seqs
<1>3. response \in Seq(Entries)
  BY <1>1, <1>2, FlattenElements
<1>4. PICK offset : Places(offset, seqs, response)
  BY <1>1, <1>2, FlattenPlaces
<1> DEFINE At(k, p, j) == /\ k = offset[p - 1] + j
                          /\ j \in 1 .. Len(Files(parsedFiles[p])) /\ j \in Nat
                          /\ response[k] = Files(parsedFiles[p])[j]
<1>5. ASSUME NEW k \in 1 .. Len(response)
      PROVE  \E p \in 1 .. m : \E j \in Nat : At(k, p, j)
  <2>1. PICK p \in 1 .. m : \E j \in 1 .. Len(seqs[p]) : k = offset[p - 1] + j
    BY <1>2, <1>4 DEF Places
  <2>2. PICK j \in 1 .. Len(seqs[p]) : k = offset[p - 1] + j
    BY <2>1
  <2>3. response[offset[p - 1] + j] = seqs[p][j]
    BY <1>2, <1>4 DEF Places
  <2> QED
    BY <1>2, <2>2, <2>3
<1>6. ASSUME NEW k \in 1 .. Len(response) PROVE response[k].point = <<>>
  <2>1. PICK p \in 1 .. m : \E j \in Nat : At(k, p, j)
    BY <1>5
  <2>2. PICK j \in Nat : At(k, p, j)
    BY <2>1
  <2>3. parsedFiles[p] \in ParsedTypes
    BY <1>2
  <2> QED
    BY <2>2, <2>3, FilesAre
<1>7. ASSUME ServicesApart, NEW k \in 1 .. Len(response), NEW l \in 1 .. Len(response),
             response[k].file = response[l].file
      PROVE  k = l
  <2>1. PICK p \in 1 .. m : \E j \in Nat : At(k, p, j)
    BY <1>5
  <2>2. PICK j \in Nat : At(k, p, j)
    BY <2>1
  <2>3. PICK q \in 1 .. m : \E h \in Nat : At(l, q, h)
    BY <1>5
  <2>4. PICK h \in Nat : At(l, q, h)
    BY <2>3
  <2> DEFINE f == parsedFiles[p]
             g == parsedFiles[q]
             x == response[k].file
  <2>5. /\ p \in DOMAIN parsedFiles /\ q \in DOMAIN parsedFiles /\ f # NULL /\ g # NULL
        /\ f \in ParsedTypes /\ g \in ParsedTypes
    BY <1>1, <1>2
  <2>6. Separate(f, g) /\ (f.name = g.name => p = q)
    BY <1>7, <2>5, ParsedSeparate
  <2>7. PICK o : \A a \in 1 .. Len(Files(f)) : IsFile(f, o, a, Files(f)[a].file)
    BY <2>5, FilesAre
  <2>8. PICK r : \A a \in 1 .. Len(Files(g)) : IsFile(g, r, a, Files(g)[a].file)
    BY <2>5, FilesAre
  <2>9. IsFile(f, o, j, x) /\ IsFile(g, r, h, x)
    BY <1>7, <2>2, <2>4, <2>7, <2>8
  <2> HIDE DEF f, g, x
  <2>10. p = q
    BY <2>5, <2>6, <2>9, FilesDiffer
  <2>11. IsFile(g, o, h, x)
    BY <1>7, <2>4, <2>7, <2>10 DEF f, g, x
  <2>12. j = h
    BY <2>5, <2>6, <2>9, <2>11, FilesDiffer
  <2> QED
    BY <2>2, <2>4, <2>10, <2>12
<1>8. ASSUME NEW p \in DOMAIN request
      PROVE  \E k \in 1 .. Len(response) :
               response[k].file = ToHeader(request[p]) /\ response[k].offers = Offers(request[p])
  <2>1. p \in 1 .. m /\ parsedFiles[p] = request[p]
    <3>1. Len(request) \in Nat /\ DOMAIN request = 1 .. Len(request)
      BY FilesTyped DEF FilesInv
    <3>2. Len(request) <= m /\ \A k \in 1 .. Len(request) : parsedFiles[k] = request[k]
      BY DEF ParsedInv, m
    <3> QED
      BY <1>2, <3>1, <3>2
  <2>2. /\ 1 \in 1 .. Len(seqs[p])
        /\ seqs[p][1] = Generated(ToHeader(request[p]), Offers(request[p]))
    BY <1>2, <2>1, FilesAre
  <2>3. /\ offset[p - 1] + 1 \in 1 .. Len(response)
        /\ response[offset[p - 1] + 1] = seqs[p][1]
    BY <1>2, <1>4, <2>1, <2>2 DEF Places
  <2> QED
    BY <2>2, <2>3 DEF Generated
<1> QED
  BY <1>3, <1>6, <1>7, <1>8

-----------------------------------------------------------------------------
(* The insertions.                                                             *)

LEMMA MoreElements ==
  ASSUME NEW S, NEW T, S \subseteq T, NEW s \in Seq(S)
  PROVE  s \in Seq(T)
OBVIOUS

\* Insertions into the header of a file at the points it offers.
InsertsAt(p) == {e \in Entries : /\ e.file = ToHeader(request[p])
                                 /\ e.point \in Offers(request[p])}

\* Those for VTK's and external types.
HasObjects(p) == request[p].name = VtkFile \/ request[p].external
Others == {e \in Entries : \E p \in DOMAIN request : HasObjects(p) /\ e \in InsertsAt(p)}

ErrorHolder(p, a) ==
  Insertion(ToHeader(request[p]), ClassScope(MethodsOf(request[p])[a].output))

Holders == {e \in Entries : \E p \in DOMAIN request : \E a \in DOMAIN MethodsOf(request[p]) :
              MethodsOf(request[p])[a].output # "Void" /\ e = ErrorHolder(p, a)}

\* The type that is returned by a method, "Void" or not, and its holder.
LEMMA HolderTyped ==
  ASSUME request \in Requests, NEW p \in DOMAIN request,
         NEW a \in DOMAIN MethodsOf(request[p])
  PROVE  /\ MethodsOf(request[p])[a].output \in STRING
         /\ ErrorHolder(p, a) \in Entries
         /\ ErrorHolder(p, a).file = ToHeader(request[p])
         /\ ErrorHolder(p, a).point = ClassScope(MethodsOf(request[p])[a].output)
<1> DEFINE t == MethodsOf(request[p])[a].output
<1>1. t \in STRING
  BY FilesTyped, MethodsTyped DEF MethodTypes
<1>2. ClassScope(t) \in Texts
  BY <1>1, Points
<1>3. ToHeader(request[p]) \in Texts
  BY FilesTyped, FileParsed, OffersTyped
<1> HIDE DEF t
<1>4. /\ Insertion(ToHeader(request[p]), ClassScope(t)) \in Entries
      /\ Insertion(ToHeader(request[p]), ClassScope(t)).file = ToHeader(request[p])
      /\ Insertion(ToHeader(request[p]), ClassScope(t)).point = ClassScope(t)
  BY <1>2, <1>3 DEF Insertion, Entries
<1> QED
  BY <1>1, <1>4 DEF t, ErrorHolder

LEMMA InsertsForAre ==
  ASSUME request \in Requests, NEW p \in DOMAIN request
  PROVE  /\ InsertsFor(request[p], request[p].types) \in Seq(InsertsAt(p))
         /\ Insertion(ToHeader(request[p]), <<"includes">>) \in InsertsAt(p)
<1> DEFINE file == request[p]
           types == file.types
           n == Len(types)
           e == Insertion(ToHeader(file), <<"includes">>)
           f(k) == Insertion(ToHeader(file), ClassScope(types[k]))
           seqs == [k \in DOMAIN types |-> <<e, f(k)>>]
<1>1. file \in ParsedTypes /\ types \in Seq(STRING)
  BY FilesTyped, FileParsed DEF ParsedTypes
<1>2. n \in Nat /\ DOMAIN types = 1 .. n
      /\ \A k \in 1 .. n : types[k] \in STRING /\ types[k] \in Range(types)
  BY <1>1, RangeOf
<1>3. ToHeader(file) \in Texts
  BY <1>1, OffersTyped
<1>4. \A x \in Offers(file) : Insertion(ToHeader(file), x) \in InsertsAt(p)
  <2> SUFFICES ASSUME NEW x \in Offers(file) PROVE Insertion(ToHeader(file), x) \in InsertsAt(p)
    OBVIOUS
  <2>1. x \in Texts
    BY <1>1, OffersTyped
  <2> QED
    BY <1>3, <2>1 DEF Insertion, InsertsAt, Entries
<1>5. e \in InsertsAt(p) /\ \A k \in 1 .. n : f(k) \in InsertsAt(p)
  <2>1. <<"includes">> \in Offers(file) /\ \A k \in 1 .. n : ClassScope(types[k]) \in Offers(file)
    BY <1>2 DEF Offers
  <2> QED
    BY <1>4, <2>1
<1>6. InsertsFor(file, types) = FlattenSeq(seqs)
  BY DEF InsertsFor
<1>7. seqs = [k \in 1 .. n |-> <<e, f(k)>>]
  BY <1>2
<1> HIDE DEF e, f, n, seqs, types
<1>8. \A k \in 1 .. n : seqs[k] \in Seq(InsertsAt(p))
  BY <1>5, <1>7, PairIs
<1>9. DOMAIN seqs = 1 .. n /\ seqs = [k \in 1 .. n |-> seqs[k]]
  BY <1>7
<1>10. seqs \in Seq(Seq(InsertsAt(p)))
  BY <1>2, <1>8, <1>9, IsSequence
<1>11. FlattenSeq(seqs) \in Seq(InsertsAt(p))
  BY <1>10, FlattenElements
<1> QED
  BY <1>5, <1>6, <1>11 DEF e, types

LEMMA VtkInsertsAre ==
  ASSUME request \in Requests, fileDescriptors = request
  PROVE  VtkInserts \in Seq(Others)
<1> DEFINE n == Len(request)
           x(p) == <<Insertion(ToHeader(request[p]), <<"includes">>)>>
                     \o InsertsFor(request[p], request[p].types)
           seqs == [p \in DOMAIN request |-> IF request[p].name = VtkFile THEN x(p) ELSE <<>>]
<1>1. n \in Nat /\ DOMAIN request = 1 .. n
  BY FilesTyped
<1>2. ASSUME NEW p \in DOMAIN request, request[p].name = VtkFile
      PROVE  x(p) \in Seq(Others)
  <2>1. HasObjects(p)
    BY <1>2 DEF HasObjects
  <2>2. InsertsAt(p) \subseteq Others
    BY <2>1 DEF InsertsAt, Others
  <2> DEFINE e == Insertion(ToHeader(request[p]), <<"includes">>)
             s == InsertsFor(request[p], request[p].types)
  <2>3. e \in Others /\ s \in Seq(Others)
    BY <2>2, InsertsForAre, MoreElements
  <2> HIDE DEF e, s
  <2>4. <<e>> \in Seq(Others)
    BY <2>3
  <2>5. <<e>> \o s \in Seq(Others)
    BY <2>3, <2>4, ConcatProperties
  <2> QED
    BY <2>5 DEF e, s
<1>3. VtkInserts = FlattenSeq(seqs)
  BY DEF VtkInserts
<1>4. seqs = [p \in 1 .. n |-> IF request[p].name = VtkFile THEN x(p) ELSE <<>>]
  BY <1>1
<1> HIDE DEF x, seqs, n
<1>5. <<>> \in Seq(Others)
  OBVIOUS
<1>6. \A p \in 1 .. n : seqs[p] \in Seq(Others)
  BY <1>1, <1>2, <1>4, <1>5
<1>7. DOMAIN seqs = 1 .. n /\ seqs = [p \in 1 .. n |-> seqs[p]]
  BY <1>4
<1>8. seqs \in Seq(Seq(Others))
  BY <1>1, <1>6, <1>7, IsSequence
<1> QED
  BY <1>3, <1>8, FlattenElements

LEMMA ExternalInsertsAre ==
  ASSUME request \in Requests, fileDescriptors = request
  PROVE  ExternalInserts \in Seq(Others)
<1> DEFINE n == Len(request)
           x(p) == InsertsFor(request[p], request[p].types)
           seqs == [p \in DOMAIN request |-> IF request[p].external THEN x(p) ELSE <<>>]
<1>1. n \in Nat /\ DOMAIN request = 1 .. n
  BY FilesTyped
<1>2. ASSUME NEW p \in DOMAIN request, request[p].external
      PROVE  x(p) \in Seq(Others)
  <2>1. HasObjects(p)
    BY <1>2 DEF HasObjects
  <2>2. InsertsAt(p) \subseteq Others
    BY <2>1 DEF InsertsAt, Others
  <2> QED
    BY <2>2, InsertsForAre, MoreElements
<1>3. ExternalInserts = FlattenSeq(seqs)
  BY DEF ExternalInserts
<1>4. seqs = [p \in 1 .. n |-> IF request[p].external THEN x(p) ELSE <<>>]
  BY <1>1
<1> HIDE DEF x, seqs, n
<1>5. <<>> \in Seq(Others)
  OBVIOUS
<1>6. \A p \in 1 .. n : seqs[p] \in Seq(Others)
  BY <1>1, <1>2, <1>4, <1>5
<1>7. DOMAIN seqs = 1 .. n /\ seqs = [p \in 1 .. n |-> seqs[p]]
  BY <1>4
<1>8. seqs \in Seq(Seq(Others))
  BY <1>1, <1>6, <1>7, IsSequence
<1> QED
  BY <1>3, <1>8, FlattenElements

\* The holders for the response types of a file, one for each method.
LEMMA ResponseTypesAre ==
  ASSUME request \in Requests, NEW p \in DOMAIN request
  PROVE  /\ ResponseTypesIn(request[p]) \in Seq(Holders)
         /\ \A a \in DOMAIN MethodsOf(request[p]) :
              MethodsOf(request[p])[a].output # "Void" =>
                \E j \in 1 .. Len(ResponseTypesIn(request[p])) :
                  ResponseTypesIn(request[p])[j] = ErrorHolder(p, a)
<1> DEFINE methods == MethodsOf(request[p])
           n == Len(methods)
           seqs == [a \in DOMAIN methods |->
                      IF methods[a].output = "Void" THEN <<>> ELSE <<ErrorHolder(p, a)>>]
           flat == ResponseTypesIn(request[p])
<1>1. n \in Nat /\ DOMAIN methods = 1 .. n
  <2>1. methods \in Seq(MethodTypes)
    BY FilesTyped, MethodsTyped
  <2> HIDE DEF methods
  <2> QED
    BY <2>1, RangeOf
<1>2. flat = FlattenSeq(seqs)
  BY DEF ResponseTypesIn, ErrorHolder
<1>3. \A a \in 1 .. n : methods[a].output # "Void" => ErrorHolder(p, a) \in Holders
  BY <1>1, HolderTyped DEF Holders
<1>4. seqs = [a \in 1 .. n |->
                IF methods[a].output = "Void" THEN <<>> ELSE <<ErrorHolder(p, a)>>]
  BY <1>1
<1> HIDE DEF methods, n, seqs, flat
<1>5. \A x \in Holders : <<x>> \in Seq(Holders) /\ Len(<<x>>) = 1 /\ <<x>>[1] = x
  OBVIOUS
<1>6. <<>> \in Seq(Holders)
  OBVIOUS
<1>7. \A a \in 1 .. n : seqs[a] \in Seq(Holders)
  BY <1>3, <1>4, <1>5, <1>6
<1>8. DOMAIN seqs = 1 .. n /\ seqs = [a \in 1 .. n |-> seqs[a]]
  BY <1>4
<1>9. seqs \in Seq(Seq(Holders)) /\ Len(seqs) = n
  BY <1>1, <1>7, <1>8, IsSequence
<1>10. ASSUME NEW a \in DOMAIN methods, methods[a].output # "Void"
       PROVE  \E j \in 1 .. Len(flat) : flat[j] = ErrorHolder(p, a)
  <2>1. a \in 1 .. Len(seqs) /\ seqs[a] = <<ErrorHolder(p, a)>>
    BY <1>1, <1>4, <1>9, <1>10
  <2>2. 1 \in 1 .. Len(seqs[a]) /\ seqs[a][1] = ErrorHolder(p, a)
    BY <1>1, <1>3, <1>5, <1>10, <2>1
  <2> DEFINE j == 1
  <2>3. j \in 1 .. Len(seqs[a]) /\ seqs[a][j] = ErrorHolder(p, a)
    BY <2>2
  <2> HIDE DEF j
  <2>4. \E k \in 1 .. Len(FlattenSeq(seqs)) : FlattenSeq(seqs)[k] = seqs[a][j]
    BY <1>9, <2>1, <2>3, FlattenHas
  <2> QED
    BY <1>2, <2>3, <2>4
<1>11. flat \in Seq(Holders)
  BY <1>2, <1>9, FlattenElements
<1> QED
  BY <1>10, <1>11 DEF methods, flat

LEMMA AllTypesAre ==
  ASSUME request \in Requests, fileDescriptors = request
  PROVE  /\ AllResponseTypes \in Seq(Holders)
         /\ \A p \in DOMAIN request : \A a \in DOMAIN MethodsOf(request[p]) :
              MethodsOf(request[p])[a].output # "Void" =>
                \E k \in 1 .. Len(AllResponseTypes) : AllResponseTypes[k] = ErrorHolder(p, a)
<1> DEFINE n == Len(request)
           seqs == [p \in DOMAIN request |-> ResponseTypesIn(request[p])]
           flat == AllResponseTypes
<1>1. n \in Nat /\ DOMAIN request = 1 .. n
  BY FilesTyped
<1>2. flat = FlattenSeq(seqs)
  BY DEF AllResponseTypes
<1>3. DOMAIN seqs = 1 .. n /\ seqs = [p \in 1 .. n |-> seqs[p]]
      /\ \A p \in 1 .. n : seqs[p] = ResponseTypesIn(request[p])
  BY <1>1
<1> HIDE DEF n, seqs, flat
<1>4. \A p \in 1 .. n : seqs[p] \in Seq(Holders)
  BY <1>1, <1>3, ResponseTypesAre
<1>5. seqs \in Seq(Seq(Holders)) /\ Len(seqs) = n
  BY <1>1, <1>3, <1>4, IsSequence
<1>6. ASSUME NEW p \in DOMAIN request, NEW a \in DOMAIN MethodsOf(request[p]),
             MethodsOf(request[p])[a].output # "Void"
      PROVE  \E k \in 1 .. Len(flat) : flat[k] = ErrorHolder(p, a)
  <2>1. p \in 1 .. Len(seqs) /\ seqs[p] = ResponseTypesIn(request[p])
    BY <1>1, <1>3, <1>5
  <2>2. PICK j \in 1 .. Len(seqs[p]) : seqs[p][j] = ErrorHolder(p, a)
    BY <1>6, <2>1, ResponseTypesAre
  <2> QED
    BY <1>2, <1>5, <2>1, <2>2, FlattenHas
<1>7. flat \in Seq(Holders)
  BY <1>2, <1>5, FlattenElements
<1> QED
  BY <1>6, <1>7 DEF flat

\* The first insertion at each point, in the order of the insertions.
Firsts(inserts) ==
  [k \in DOMAIN inserts |->
     IF \E l \in 1 .. k - 1 : inserts[l].point = inserts[k].point THEN <<>> ELSE <<inserts[k]>>]

AreFirsts(flat, inserts) == flat = FlattenSeq(Firsts(inserts))

\* Each point is left once.
LEMMA FirstOnes ==
  ASSUME NEW S, NEW inserts \in Seq(S), NEW flat, AreFirsts(flat, inserts)
  PROVE  /\ flat \in Seq(S)
         /\ \A k, l \in 1 .. Len(flat) : flat[k].point = flat[l].point => k = l
         /\ \A l \in 1 .. Len(inserts) :
              \E k \in 1 .. Len(flat) : flat[k].point = inserts[l].point
<1> DEFINE n == Len(inserts)
           seqs == Firsts(inserts)
           Again(k) == \E l \in 1 .. k - 1 : inserts[l].point = inserts[k].point
<1>1. n \in Nat /\ DOMAIN inserts = 1 .. n /\ \A k \in 1 .. n : inserts[k] \in S
  BY RangeOf
<1>2. seqs = [k \in 1 .. n |-> IF Again(k) THEN <<>> ELSE <<inserts[k]>>]
  BY <1>1 DEF Firsts
<1> HIDE DEF n, seqs
<1>3. \A x \in S : <<x>> \in Seq(S) /\ Len(<<x>>) = 1 /\ <<x>>[1] = x
  OBVIOUS
<1>4. <<>> \in Seq(S) /\ Len(<<>>) = 0
  OBVIOUS
<1>5. ASSUME NEW k \in 1 .. n
      PROVE  /\ seqs[k] \in Seq(S)
             /\ Again(k) => Len(seqs[k]) = 0
             /\ ~Again(k) => Len(seqs[k]) = 1 /\ seqs[k][1] = inserts[k]
  BY <1>1, <1>2, <1>3, <1>4
<1>6. seqs \in Seq(Seq(S)) /\ Len(seqs) = n
  <2>1. DOMAIN seqs = 1 .. n /\ seqs = [k \in 1 .. n |-> seqs[k]]
    BY <1>2
  <2> QED
    BY <1>1, <1>5, <2>1, IsSequence
<1>7. flat \in Seq(S)
  BY <1>6, FlattenElements DEF seqs, AreFirsts
<1>8. PICK offset : Places(offset, seqs, flat)
  BY <1>6, FlattenPlaces DEF seqs, AreFirsts
<1> DEFINE From(k, a) == a \in 1 .. n /\ ~Again(a) /\ k = offset[a - 1] + 1 /\ flat[k] = inserts[a]
<1>9. ASSUME NEW k \in 1 .. Len(flat)
      PROVE  \E a \in 1 .. n : From(k, a)
  <2>1. PICK a \in 1 .. n : \E j \in 1 .. Len(seqs[a]) : k = offset[a - 1] + j
    BY <1>6, <1>8 DEF Places
  <2>2. PICK j \in 1 .. Len(seqs[a]) : k = offset[a - 1] + j
    BY <2>1
  <2>3. flat[offset[a - 1] + j] = seqs[a][j]
    BY <1>6, <1>8 DEF Places
  <2>4. ~Again(a) /\ Len(seqs[a]) = 1 /\ seqs[a][1] = inserts[a]
    <3>1. Len(seqs[a]) # 0
      BY <2>2
    <3> QED
      BY <1>5, <3>1
  <2>5. j = 1
    BY <2>4
  <2> QED
    BY <2>2, <2>3, <2>4, <2>5
<1>10. ASSUME NEW k \in 1 .. Len(flat), NEW l \in 1 .. Len(flat), flat[k].point = flat[l].point
       PROVE  k = l
  <2>1. PICK a \in 1 .. n : From(k, a)
    BY <1>9
  <2>2. PICK b \in 1 .. n : From(l, b)
    BY <1>9
  <2>3. inserts[a].point = inserts[b].point
    BY <1>10, <2>1, <2>2
  <2>4. ~(a \in 1 .. b - 1) /\ ~(b \in 1 .. a - 1)
    BY <2>1, <2>2, <2>3
  <2>5. a = b
    BY <1>1, <2>4
  <2> QED
    BY <2>1, <2>2, <2>5
<1>11. ASSUME NEW l \in 1 .. n
       PROVE  \E k \in 1 .. Len(flat) : flat[k].point = inserts[l].point
  <2> DEFINE Same == {a \in 1 .. n : inserts[a].point = inserts[l].point}
  <2>1. Same \in SUBSET Nat /\ l \in Same
    BY <1>1
  <2>2. PICK a \in Same : \A b \in Same : a <= b
    <3> HIDE DEF Same
    <3> QED
      BY <2>1, Least
  <2>3. a \in 1 .. n /\ inserts[a].point = inserts[l].point
    BY <2>2
  <2>4. ~Again(a)
    <3> SUFFICES ASSUME NEW b \in 1 .. a - 1, inserts[b].point = inserts[a].point PROVE FALSE
      OBVIOUS
    <3>1. b \in Same /\ ~(a <= b)
      BY <1>1, <2>3
    <3> QED
      BY <2>2, <3>1
  <2>5. 1 \in 1 .. Len(seqs[a]) /\ seqs[a][1] = inserts[a]
    BY <1>5, <2>3, <2>4
  <2>6. offset[a - 1] + 1 \in 1 .. Len(flat) /\ flat[offset[a - 1] + 1] = seqs[a][1]
    BY <1>6, <1>8, <2>3, <2>5 DEF Places
  <2> QED
    BY <2>3, <2>5, <2>6
<1> QED
  BY <1>7, <1>10, <1>11 DEF n

LEMMA ErrorInsertsAre ==
  ASSUME request \in Requests, fileDescriptors = request
  PROVE  /\ ResponseErrorInserts \in Seq(Holders)
         /\ \A k, l \in 1 .. Len(ResponseErrorInserts) :
              ResponseErrorInserts[k].point = ResponseErrorInserts[l].point => k = l
         /\ \A p \in DOMAIN request : \A a \in DOMAIN MethodsOf(request[p]) :
              MethodsOf(request[p])[a].output # "Void" =>
                \E k \in 1 .. Len(ResponseErrorInserts) :
                  ResponseErrorInserts[k].point = ErrorHolder(p, a).point
<1>1. AllResponseTypes \in Seq(Holders)
  BY AllTypesAre
<1>2. ResponseErrorInserts = FlattenSeq(Firsts(AllResponseTypes))
  BY DEF ResponseErrorInserts, Firsts
<1> DEFINE inserts == AllResponseTypes
           flat == ResponseErrorInserts
<1>3. /\ ResponseErrorInserts \in Seq(Holders)
      /\ \A k, l \in 1 .. Len(ResponseErrorInserts) :
           ResponseErrorInserts[k].point = ResponseErrorInserts[l].point => k = l
      /\ \A l \in 1 .. Len(AllResponseTypes) :
           \E k \in 1 .. Len(ResponseErrorInserts) :
             ResponseErrorInserts[k].point = AllResponseTypes[l].point
  <2>1. inserts \in Seq(Holders) /\ AreFirsts(flat, inserts)
    BY <1>1, <1>2 DEF AreFirsts
  <2> HIDE DEF inserts, flat
  <2>2. /\ flat \in Seq(Holders)
        /\ \A k, l \in 1 .. Len(flat) : flat[k].point = flat[l].point => k = l
        /\ \A l \in 1 .. Len(inserts) :
             \E k \in 1 .. Len(flat) : flat[k].point = inserts[l].point
    BY <2>1, FirstOnes
  <2> QED
    BY <2>2 DEF inserts, flat
<1>4. ASSUME NEW p \in DOMAIN request, NEW a \in DOMAIN MethodsOf(request[p]),
             MethodsOf(request[p])[a].output # "Void"
      PROVE  \E k \in 1 .. Len(ResponseErrorInserts) :
               ResponseErrorInserts[k].point = ErrorHolder(p, a).point
  <2>1. PICK l \in 1 .. Len(AllResponseTypes) : AllResponseTypes[l] = ErrorHolder(p, a)
    BY <1>4, AllTypesAre
  <2> QED
    BY <1>3, <2>1
<1> QED
  BY <1>3, <1>4

-----------------------------------------------------------------------------
(* The response.                                                               *)

\* A sequence is x followed by y.
IsJoined(s, x, y) == s = x \o y

LEMMA Joined ==
  ASSUME NEW S, NEW x \in Seq(S), NEW y \in Seq(S), NEW s, IsJoined(s, x, y)
  PROVE  /\ s \in Seq(S) /\ Len(x) \in Nat /\ Len(y) \in Nat /\ Len(s) = Len(x) + Len(y)
         /\ \A k \in 1 .. Len(x) : s[k] = x[k]
         /\ \A k \in 1 .. Len(y) : s[Len(x) + k] = y[k]
<1> DEFINE m == Len(x)
           n == Len(y)
<1>1. m \in Nat /\ n \in Nat
  BY LenProperties
<1>2. /\ x \o y \in Seq(S) /\ Len(x \o y) = m + n
      /\ \A k \in 1 .. m + n : (x \o y)[k] = IF k <= m THEN x[k] ELSE y[k - m]
  BY ConcatProperties
<1>3. s = x \o y
  BY DEF IsJoined
<1> HIDE DEF m, n
<1>4. \A k \in 1 .. m : k \in 1 .. m + n /\ k <= m
  BY <1>1
<1>5. \A k \in 1 .. n : m + k \in 1 .. m + n /\ ~(m + k <= m) /\ (m + k) - m = k
  BY <1>1
<1> QED
  BY <1>1, <1>2, <1>3, <1>4, <1>5 DEF m, n

LEMMA InsertProto ==
  ASSUME FilesInv, Insert
  PROVE  AllProto /\ fileDescriptors = request
BY DEF FilesInv, Insert, AllProto

LEMMA ResponseIs ==
  ASSUME FilesInv, ParsedInv, Insert, Written(Len(parsedFiles))
  PROVE  \E m, n \in Nat :
           /\ m = Len(response) /\ m <= n /\ n <= Len(response') /\ Len(response') \in Nat
           /\ DOMAIN response' = 1 .. Len(response')
           /\ \A k \in 1 .. m : response'[k] = response[k]
           /\ \A k \in m + 1 .. n : response'[k] \in Others
           /\ Len(response') = n + Len(ResponseErrorInserts)
           /\ \A k \in n + 1 .. Len(response') :
                /\ k - n \in 1 .. Len(ResponseErrorInserts)
                /\ response'[k] = ResponseErrorInserts[k - n]
           /\ \A k \in 1 .. Len(ResponseErrorInserts) :
                /\ n + k \in n + 1 .. Len(response')
                /\ response'[n + k] = ResponseErrorInserts[k]
<1> DEFINE v == VtkInserts
           x == ExternalInserts
           e == ResponseErrorInserts
           a == response \o v
           b == a \o x
<1>1. pc = "inserting" /\ response' = b \o e
  BY DEF Insert
<1>2. request \in Requests /\ fileDescriptors = request
  BY <1>1 DEF FilesInv
<1>3. v \in Seq(Others) /\ x \in Seq(Others)
  BY <1>2, VtkInsertsAre, ExternalInsertsAre
<1>4. Others \subseteq Entries /\ Holders \subseteq Entries
  BY DEF Others, Holders
<1>5. v \in Seq(Entries) /\ x \in Seq(Entries) /\ e \in Seq(Entries)
  BY <1>2, <1>3, <1>4, MoreElements, ErrorInsertsAre
<1>6. response \in Seq(Entries)
  BY <1>1, InsertProto, AllWritten
<1>7. IsJoined(a, response, v) /\ IsJoined(b, a, x) /\ IsJoined(response', b, e)
  BY <1>1 DEF IsJoined
<1>8. \A k \in 1 .. Len(v) : v[k] \in Others
  BY <1>3, RangeOf
<1>9. \A k \in 1 .. Len(x) : x[k] \in Others
  BY <1>3, RangeOf
<1> DEFINE m == Len(response)
           n == Len(b)
           r == response'
<1> HIDE DEF v, x, e, a, b
<1>10. /\ a \in Seq(Entries) /\ Len(a) = m + Len(v) /\ m \in Nat /\ Len(v) \in Nat
       /\ \A k \in 1 .. m : a[k] = response[k]
       /\ \A k \in 1 .. Len(v) : a[m + k] = v[k]
  BY <1>5, <1>6, <1>7, Joined
<1>11. /\ b \in Seq(Entries) /\ n = Len(a) + Len(x) /\ Len(x) \in Nat
       /\ \A k \in 1 .. Len(a) : b[k] = a[k]
       /\ \A k \in 1 .. Len(x) : b[Len(a) + k] = x[k]
  <2>1. a \in Seq(Entries)
    BY <1>10
  <2> HIDE DEF n, m, r
  <2>2. /\ b \in Seq(Entries) /\ Len(x) \in Nat /\ Len(b) = Len(a) + Len(x)
        /\ \A k \in 1 .. Len(a) : b[k] = a[k]
        /\ \A k \in 1 .. Len(x) : b[Len(a) + k] = x[k]
    BY <1>5, <1>7, <2>1, Joined
  <2> QED
    BY <2>2 DEF n
<1>12. /\ r \in Seq(Entries) /\ Len(r) = n + Len(e) /\ n \in Nat /\ Len(e) \in Nat
       /\ \A k \in 1 .. n : r[k] = b[k]
       /\ \A k \in 1 .. Len(e) : r[n + k] = e[k]
  <2>1. b \in Seq(Entries) /\ IsJoined(r, b, e)
    BY <1>7, <1>11
  <2> HIDE DEF n, m, r
  <2>2. /\ r \in Seq(Entries) /\ Len(b) \in Nat /\ Len(e) \in Nat /\ Len(r) = Len(b) + Len(e)
        /\ \A k \in 1 .. Len(b) : r[k] = b[k]
        /\ \A k \in 1 .. Len(e) : r[Len(b) + k] = e[k]
    BY <1>5, <2>1, Joined
  <2> QED
    BY <2>2 DEF n
<1>13. DOMAIN r = 1 .. Len(r)
  BY <1>12, RangeOf
<1> DEFINE c == Len(v)
           d == Len(x)
           h == Len(e)
<1> HIDE DEF m, n, r, c, d, h
<1>14. m \in Nat /\ n \in Nat /\ c \in Nat /\ d \in Nat /\ h \in Nat
       /\ Len(a) = m + c /\ n = (m + c) + d /\ Len(r) = n + h
  BY <1>10, <1>11, <1>12 DEF c, d, h
<1>15. ASSUME NEW k \in 1 .. m PROVE r[k] = response[k]
  <2>1. k \in 1 .. m + c /\ k \in 1 .. n
    BY <1>14
  <2> QED
    BY <1>10, <1>11, <1>12, <1>14, <2>1
<1>16. ASSUME NEW k \in m + 1 .. n PROVE r[k] \in Others
  <2>1. k \in 1 .. n /\ k \in Int
    BY <1>14
  <2>2. CASE k <= m + c
    <3>1. k - m \in 1 .. c /\ m + (k - m) = k /\ k \in 1 .. m + c
      BY <1>14, <2>2
    <3>2. r[k] = v[k - m]
      BY <1>10, <1>11, <1>12, <1>14, <2>1, <3>1 DEF c
    <3> QED
      BY <1>8, <3>1, <3>2 DEF c
  <2>3. CASE k > m + c
    <3>1. k - (m + c) \in 1 .. d /\ (m + c) + (k - (m + c)) = k
      BY <1>14, <2>3
    <3>2. r[k] = x[k - (m + c)]
      BY <1>11, <1>12, <1>14, <2>1, <3>1 DEF d
    <3> QED
      BY <1>9, <3>1, <3>2 DEF d
  <2> QED
    BY <1>14, <2>1, <2>2, <2>3
<1>17. ASSUME NEW k \in n + 1 .. Len(r) PROVE k - n \in 1 .. h /\ r[k] = e[k - n]
  <2>1. k - n \in 1 .. h /\ n + (k - n) = k
    BY <1>14
  <2> QED
    BY <1>12, <2>1 DEF h
<1>18. ASSUME NEW k \in 1 .. h PROVE n + k \in n + 1 .. Len(r) /\ r[n + k] = e[k]
  <2>1. n + k \in n + 1 .. Len(r)
    BY <1>14
  <2> QED
    BY <1>12, <2>1 DEF h
<1>19. m <= n /\ n <= Len(r) /\ Len(r) \in Nat
  BY <1>14
<1> QED
  BY <1>13, <1>14, <1>15, <1>16, <1>17, <1>18, <1>19 DEF m, r, h, e

\* protoc finds each insertion point in a file written before but for holders of
\* imported types, and each file once.
LEMMA InsertAccepted ==
  ASSUME FilesInv, ParsedInv, Insert, Written(Len(parsedFiles))
  PROVE  ResponseAccepted'
<1> DEFINE r == response'
           m == Len(response)
<1>1. pc = "inserting" /\ request \in Requests /\ fileDescriptors = request
      /\ UNCHANGED request
  BY DEF FilesInv, Insert
<1>2. /\ response \in Seq(Entries) /\ m \in Nat
      /\ \A k \in 1 .. m : response[k].point = <<>>
      /\ ServicesApart => \A k, l \in 1 .. m : response[k].file = response[l].file => k = l
      /\ \A p \in DOMAIN request : \E k \in 1 .. m :
           response[k].file = ToHeader(request[p]) /\ response[k].offers = Offers(request[p])
  BY <1>1, InsertProto, AllWritten, LenProperties
<1>3. PICK n \in Nat :
        /\ m <= n /\ n <= Len(r) /\ Len(r) \in Nat /\ DOMAIN r = 1 .. Len(r)
        /\ \A k \in 1 .. m : r[k] = response[k]
        /\ \A k \in m + 1 .. n : r[k] \in Others
        /\ \A k \in n + 1 .. Len(r) : /\ k - n \in 1 .. Len(ResponseErrorInserts)
                                      /\ r[k] = ResponseErrorInserts[k - n]
  BY ResponseIs
<1>4. ResponseErrorInserts \in Seq(Holders)
  BY <1>1, ErrorInsertsAre
<1> HIDE DEF r, m
<1>5. ASSUME NEW k \in DOMAIN r
      PROVE  \/ k \in 1 .. m
             \/ k > m /\ HolderOfImported(r[k])
             \/ \E p \in DOMAIN request :
                  /\ k > m /\ r[k].file = ToHeader(request[p])
                  /\ r[k].point \in Offers(request[p]) /\ r[k].point # <<>>
  <2>1. ASSUME NEW p \in DOMAIN request, NEW x \in Offers(request[p]) PROVE x # <<>>
    <3>1. request[p].types \in Seq(STRING)
      BY <1>1, FilesTyped DEF FileTypes
    <3>2. \A t \in Range(request[p].types) : t \in STRING
      BY <3>1, RangeOf
    <3> QED
      BY <3>2, Points DEF Offers
  <2>2. CASE k \in m + 1 .. n
    <3>1. r[k] \in Others
      BY <1>3, <2>2
    <3>2. PICK p \in DOMAIN request : r[k] \in InsertsAt(p)
      BY <3>1 DEF Others
    <3>3. k > m
      BY <1>2, <2>2
    <3> QED
      BY <2>1, <3>2, <3>3 DEF InsertsAt
  <2>3. CASE k \in n + 1 .. Len(r)
    <3>1. r[k] \in Holders
      <4>1. k - n \in 1 .. Len(ResponseErrorInserts) /\ r[k] = ResponseErrorInserts[k - n]
        BY <1>3, <2>3
      <4>2. \A l \in 1 .. Len(ResponseErrorInserts) : ResponseErrorInserts[l] \in Holders
        BY <1>4, RangeOf
      <4> QED
        BY <4>1, <4>2
    <3>2. PICK p \in DOMAIN request : \E a \in DOMAIN MethodsOf(request[p]) :
            MethodsOf(request[p])[a].output # "Void" /\ r[k] = ErrorHolder(p, a)
      BY <3>1 DEF Holders
    <3>3. PICK a \in DOMAIN MethodsOf(request[p]) :
            MethodsOf(request[p])[a].output # "Void" /\ r[k] = ErrorHolder(p, a)
      BY <3>2
    <3> DEFINE t == MethodsOf(request[p])[a].output
    <3>4. k > m
      BY <1>2, <1>3, <2>3
    <3>5. CASE t \in Range(request[p].types)
      <4>1. ClassScope(t) \in Offers(request[p])
        BY <3>5 DEF Offers
      <4>2. r[k].file = ToHeader(request[p]) /\ r[k].point = ClassScope(t)
        BY <1>1, <3>3, HolderTyped
      <4> QED
        BY <2>1, <3>4, <4>1, <4>2
    <3>6. CASE t \notin Range(request[p].types)
      <4>1. request[p] \in Range(request) /\ request[p] \in FileTypes
        BY <1>1, FilesTyped
      <4>2. MethodsOf(request[p]) \in Seq(MethodTypes)
        BY <4>1, MethodsTyped
      <4>3. MethodsOf(request[p])[a] \in Range(MethodsOf(request[p]))
        BY <4>2, RangeOf
      <4>4. /\ MethodsOf(request[p])[a].output \notin Range(request[p].types) \cup {"Void"}
            /\ r[k] = Insertion(ToHeader(request[p]), ClassScope(MethodsOf(request[p])[a].output))
        BY <3>3, <3>6 DEF ErrorHolder
      <4>5. HolderOfImported(r[k])
        BY <4>1, <4>3, <4>4 DEF HolderOfImported
      <4> QED
        BY <3>4, <4>5
    <3> QED
      BY <3>5, <3>6
  <2> QED
    BY <1>2, <1>3, <2>2, <2>3
<1>6. ASSUME ServicesApart,
             NEW k \in DOMAIN r, r[k].point = <<>>, NEW l \in 1 .. k - 1, r[l].point = <<>>
      PROVE  r[l].file # r[k].file
  <2>1. k \in 1 .. m
    <3>1. ~HolderOfImported(r[k])
      <4> SUFFICES ASSUME HolderOfImported(r[k]) PROVE FALSE
        OBVIOUS
      <4>0. PICK file \in Range(request) : \E x \in Range(MethodsOf(file)) :
              r[k] = Insertion(ToHeader(file), ClassScope(x.output))
        BY DEF HolderOfImported
      <4>1. PICK x \in Range(MethodsOf(file)) :
              r[k] = Insertion(ToHeader(file), ClassScope(x.output))
        BY <4>0
      <4>2. x.output \in STRING
        <5>1. file \in FileTypes
          BY <1>1, FilesTyped
        <5>2. x \in MethodTypes
          BY <5>1, MethodsTyped, RangeOf
        <5> QED
          BY <5>2 DEF MethodTypes
      <4>3. r[k].point = ClassScope(x.output)
        BY <4>1 DEF Insertion
      <4> QED
        BY <1>6, <4>2, <4>3, Points
    <3> QED
      BY <1>5, <1>6, <3>1
  <2>2. l \in 1 .. m /\ l # k
    BY <1>2, <2>1
  <2> QED
    BY <1>2, <1>3, <1>6, <2>1, <2>2
<1>7. ASSUME NEW k \in DOMAIN r, r[k].point # <<>>, ~HolderOfImported(r[k])
      PROVE  \E l \in 1 .. k - 1 : r[l].file = r[k].file /\ r[k].point \in r[l].offers
  <2>1. k \notin 1 .. m
    BY <1>2, <1>3, <1>7
  <2>2. PICK p \in DOMAIN request : /\ k > m /\ r[k].file = ToHeader(request[p])
                                    /\ r[k].point \in Offers(request[p])
    BY <1>5, <1>7, <2>1
  <2>3. PICK l \in 1 .. m :
          response[l].file = ToHeader(request[p]) /\ response[l].offers = Offers(request[p])
    BY <1>2
  <2>4. l \in 1 .. k - 1
    BY <1>2, <1>3, <2>2
  <2> QED
    BY <1>3, <2>2, <2>3, <2>4
<1>8. \A k \in DOMAIN r :
        IF r[k].point = <<>>
        THEN ServicesApart => \A l \in 1 .. k - 1 : r[l].point = <<>> => r[l].file # r[k].file
        ELSE \/ HolderOfImported(r[k])
             \/ \E l \in 1 .. k - 1 : r[l].file = r[k].file /\ r[k].point \in r[l].offers
  BY <1>6, <1>7
<1>9. ASSUME NEW k \in DOMAIN r, HolderOfImported(r[k]) PROVE HolderOfImported(response[k])'
  <2>1. PICK file \in Range(request) : \E x \in Range(MethodsOf(file)) :
          /\ x.output \notin Range(file.types) \cup {"Void"}
          /\ r[k] = Insertion(ToHeader(file), ClassScope(x.output))
    BY <1>9 DEF HolderOfImported
  <2>2. file \in Range(request') /\ r[k] = response'[k]
    BY <1>1 DEF r
  <2> QED
    BY <2>1, <2>2 DEF HolderOfImported
<1>10. ServicesApart' = ServicesApart
  BY <1>1 DEF ServicesApart
<1>11. ASSUME NEW k \in DOMAIN response'
       PROVE  IF response'[k].point = <<>>
              THEN ServicesApart' => \A l \in 1 .. k - 1 :
                     response'[l].point = <<>> => response'[l].file # response'[k].file
              ELSE \/ HolderOfImported(response[k])'
                   \/ \E l \in 1 .. k - 1 : /\ response'[l].file = response'[k].file
                                            /\ response'[k].point \in response'[l].offers
  <2>1. CASE r[k].point = <<>>
    BY <1>8, <1>10, <2>1 DEF r
  <2>2. CASE r[k].point # <<>> /\ HolderOfImported(r[k])
    <3>1. HolderOfImported(response[k])'
      BY <1>9, <2>2 DEF r
    <3> QED
      BY <2>2, <3>1 DEF r
  <2>3. CASE r[k].point # <<>> /\ ~HolderOfImported(r[k])
    BY <1>8, <2>3 DEF r
  <2> QED
    BY <2>1, <2>2, <2>3
<1> QED
  BY <1>11 DEF ResponseAccepted

\* Each response type gets one holder of errors.
LEMMA InsertHolders ==
  ASSUME FilesInv, ParsedInv, Insert, Written(Len(parsedFiles))
  PROVE  ErrorHoldersOnce'
<1> DEFINE r == response'
           m == Len(response)
           e == ResponseErrorInserts
<1>1. pc = "inserting" /\ request \in Requests /\ fileDescriptors = request
      /\ request' = request
  BY DEF FilesInv, Insert
<1>2. m \in Nat /\ \A k \in 1 .. m : response[k].point = <<>>
  BY <1>1, InsertProto, AllWritten, LenProperties
<1>3. PICK n \in Nat :
        /\ m <= n /\ n <= Len(r) /\ Len(r) \in Nat /\ DOMAIN r = 1 .. Len(r)
        /\ \A k \in 1 .. m : r[k] = response[k]
        /\ \A k \in m + 1 .. n : r[k] \in Others
        /\ \A k \in n + 1 .. Len(r) : k - n \in 1 .. Len(e) /\ r[k] = e[k - n]
        /\ \A k \in 1 .. Len(e) : n + k \in n + 1 .. Len(r) /\ r[n + k] = e[k]
  BY ResponseIs
<1>4. /\ \A k, l \in 1 .. Len(e) : e[k].point = e[l].point => k = l
      /\ \A p \in DOMAIN request : \A a \in DOMAIN MethodsOf(request[p]) :
           MethodsOf(request[p])[a].output # "Void" =>
             \E k \in 1 .. Len(e) : e[k].point = ErrorHolder(p, a).point
  BY <1>1, ErrorInsertsAre
<1> HIDE DEF r, m, e
<1>5. ASSUME NEW p \in DOMAIN request, NEW a \in DOMAIN MethodsOf(request[p]),
             MethodsOf(request[p])[a].output # "Void", ~HoldsObject(MethodsOf(request[p])[a].output)
      PROVE  Cardinality({k \in DOMAIN r :
               r[k].point = ClassScope(MethodsOf(request[p])[a].output)}) = 1
  <2> DEFINE t == MethodsOf(request[p])[a].output
             At == {k \in DOMAIN r : r[k].point = ClassScope(t)}
  <2>1. t \in STRING /\ ErrorHolder(p, a).point = ClassScope(t)
    BY <1>1, HolderTyped
  <2>2. PICK h \in 1 .. Len(e) : e[h].point = ClassScope(t)
    BY <1>4, <1>5, <2>1
  <2>3. n + h \in n + 1 .. Len(r) /\ n + h \in DOMAIN r /\ r[n + h].point = ClassScope(t)
    BY <1>3, <2>2
  <2>4. ~HoldsObject(t)
    BY <1>5
  <2> HIDE DEF t
  <2>5. ASSUME NEW k \in DOMAIN r, r[k].point = ClassScope(t) PROVE k = n + h
    <3>1. k \notin 1 .. m
      BY <1>2, <1>3, <2>1, <2>5, Points
    <3>2. k \notin m + 1 .. n
      <4> SUFFICES ASSUME k \in m + 1 .. n PROVE FALSE
        OBVIOUS
      <4>1. r[k] \in Others
        BY <1>3
      <4>2. PICK q \in DOMAIN request : HasObjects(q) /\ r[k] \in InsertsAt(q)
        BY <4>1 DEF Others
      <4>3. ClassScope(t) \in Offers(request[q])
        BY <2>5, <4>2 DEF InsertsAt
      <4>4. request[q].types \in Seq(STRING)
        BY <1>1, FilesTyped DEF FileTypes
      <4>5. \A u \in Range(request[q].types) : u \in STRING
        BY <4>4, RangeOf
      <4>6. t \in Range(request[q].types)
        BY <2>1, <4>3, <4>5, Points DEF Offers
      <4>7. request[q] \in Range(request)
        BY <1>1, FilesTyped
      <4> QED
        BY <2>4, <4>2, <4>6, <4>7 DEF HasObjects, HoldsObject
    <3>3. k \in n + 1 .. Len(r)
      BY <1>2, <1>3, <3>1, <3>2
    <3>4. k - n \in 1 .. Len(e) /\ e[k - n].point = ClassScope(t)
      BY <1>3, <2>5, <3>3
    <3>5. k - n = h
      BY <1>4, <2>2, <3>4
    <3>6. k \in Int /\ n \in Int
      BY <1>3
    <3> QED
      BY <3>5, <3>6
  <2>6. At = {n + h}
    BY <2>3, <2>5
  <2>7. Cardinality({n + h}) = 1
    BY FS_Singleton
  <2> QED
    BY <2>6, <2>7 DEF t
<1>6. ASSUME NEW file \in Range(request), NEW x \in Range(MethodsOf(file)),
             x.output # "Void", ~HoldsObject(x.output)
      PROVE  Cardinality({k \in DOMAIN r : r[k].point = ClassScope(x.output)}) = 1
  <2>1. PICK p \in DOMAIN request : file = request[p]
    BY <1>1, FilesTyped
  <2>2. MethodsOf(file) \in Seq(MethodTypes)
    BY <1>1, <2>1, FilesTyped, MethodsTyped
  <2>3. PICK a \in DOMAIN MethodsOf(file) : x = MethodsOf(file)[a]
    BY <2>2, RangeOf
  <2> QED
    BY <1>5, <1>6, <2>1, <2>3
<1> QED
  BY <1>1, <1>6 DEF ErrorHoldersOnce, HoldsObject, r

-----------------------------------------------------------------------------
(* The invariant of what is written.                                           *)

ResponseInv ==
  /\ pc = "extending" => response = <<>>
  /\ pc = "generating" => Written(i - 1)
  /\ pc = "inserting" /\ ~error => Written(Len(parsedFiles))
  /\ ResponseAccepted /\ ErrorHoldersOnce

LEMMA ResponseStep ==
  ASSUME FilesInv, ParsedInv, ResponseInv, [Next]_vars
  PROVE  ResponseInv'
<1>1. CASE BuildFile \/ Fail \/ BuiltAll \/ AddRpcMessageExtensions
  <2>1. pc \in {"building", "extending"} /\ response' = response
        /\ pc' \in {"building", "failed", "extending"}
    BY <1>1 DEF BuildFile, Fail, BuiltAll, AddRpcMessageExtensions
  <2>2. response = <<>>
    BY <2>1 DEF FilesInv, ResponseInv
  <2> QED
    BY <2>1, <2>2 DEF ResponseInv, ResponseAccepted, ErrorHoldersOnce, Succeeded
<1>2. CASE AddedAll
  <2>1. pc = "extending" /\ pc' = "generating" /\ i' = 1 /\ UNCHANGED <<parsedFiles, response>>
    BY <1>2 DEF AddedAll
  <2>2. response = <<>>
    BY <2>1 DEF ResponseInv
  <2>3. Written(0)
    <3> DEFINE seqs == [p \in 1 .. 0 |-> Files(parsedFiles[p])]
    <3>1. Len(parsedFiles) \in Nat
      <4>1. parsedFiles \in Seq(ParsedTypes \cup {NULL})
        BY DEF FilesInv
      <4> QED
        BY <4>1, RangeOf
    <3>2. seqs = <<>>
      OBVIOUS
    <3>3. FlattenSeq(seqs) = <<>>
      BY <3>2 DEF FlattenSeq
    <3> QED
      BY <2>2, <3>1, <3>3 DEF Written
  <2>4. Written(i - 1)'
    BY <2>1, <2>3 DEF Written
  <2> QED
    BY <2>1, <2>4 DEF ResponseInv, ResponseAccepted, ErrorHoldersOnce, Succeeded
<1>3. CASE Generate
  <2>1. pc = "generating" /\ pc' = "generating"
    BY <1>3 DEF Generate
  <2>2. Written(i - 1)'
    BY <1>3, <2>1, GenerateWrites DEF ResponseInv
  <2> QED
    BY <2>1, <2>2 DEF ResponseInv, ResponseAccepted, ErrorHoldersOnce, Succeeded
<1>4. CASE GenerateFails
  BY <1>4 DEF GenerateFails, ResponseInv, ResponseAccepted, ErrorHoldersOnce, Succeeded
<1>5. CASE Crash \/ Abort
  BY <1>5 DEF Crash, Abort, ResponseInv, ResponseAccepted, ErrorHoldersOnce, Succeeded
<1>6. CASE GeneratedAll
  <2>1. /\ pc = "generating" /\ i > Len(parsedFiles) /\ pc' = "inserting"
        /\ UNCHANGED <<parsedFiles, response>> /\ i \in Nat
    BY <1>6 DEF GeneratedAll, FilesInv
  <2>2. Written(i - 1)
    BY <2>1 DEF ResponseInv
  <2>3. i - 1 = Len(parsedFiles)
    <3>1. Len(parsedFiles) \in Nat
      <4>1. parsedFiles \in Seq(ParsedTypes \cup {NULL})
        BY DEF FilesInv
      <4> QED
        BY <4>1, RangeOf
    <3> QED
      BY <2>1, <2>2, <3>1 DEF Written
  <2>4. Written(Len(parsedFiles))'
    BY <2>1, <2>2, <2>3 DEF Written
  <2> QED
    BY <2>1, <2>4 DEF ResponseInv, ResponseAccepted, ErrorHoldersOnce, Succeeded
<1>7. CASE Insert
  <2>1. pc = "inserting" /\ pc' = "done" /\ error' = error /\ request' = request
    BY <1>7 DEF Insert
  <2>2. CASE ~error
    <3>1. Written(Len(parsedFiles))
      BY <2>1, <2>2 DEF ResponseInv
    <3>2. ResponseAccepted' /\ ErrorHoldersOnce'
      BY <1>7, <3>1, InsertAccepted, InsertHolders
    <3> QED
      BY <2>1, <3>2 DEF ResponseInv
  <2>3. CASE error
    BY <2>1, <2>3 DEF ResponseInv, ResponseAccepted, ErrorHoldersOnce, Succeeded
  <2> QED
    BY <2>2, <2>3
<1>8. CASE UNCHANGED vars
  <2>1. UNCHANGED <<request, pc, i, parsedFiles, error, response>>
    BY <1>8 DEF vars
  <2>2. ResponseAccepted' = ResponseAccepted
    BY <2>1 DEF ResponseAccepted, Succeeded, ServicesApart, HolderOfImported
  <2>3. ErrorHoldersOnce' = ErrorHoldersOnce
    BY <2>1 DEF ErrorHoldersOnce, Succeeded, HoldsObject
  <2>4. Written(i - 1)' = Written(i - 1)
    BY <2>1 DEF Written
  <2>5. Written(Len(parsedFiles))' = Written(Len(parsedFiles))
    BY <2>1 DEF Written
  <2> QED
    BY <2>1, <2>2, <2>3, <2>4, <2>5 DEF ResponseInv
<1> QED
  BY <1>1, <1>2, <1>3, <1>4, <1>5, <1>6, <1>7, <1>8 DEF Next

LEMMA ParsedAndWritten == Spec => [](ParsedInv /\ ResponseInv)
<1>1. Init => ParsedInv /\ ResponseInv
  BY DEF Init, ParsedInv, ResponseInv, ResponseAccepted, ErrorHoldersOnce, Succeeded
<1>2. FilesInv /\ ParsedInv /\ ResponseInv /\ [Next]_vars => (ParsedInv /\ ResponseInv)'
  BY ParsedStep, ResponseStep
<1>3. FilesInv /\ NamesInv => FilesInv
  OBVIOUS
<1> QED
  BY <1>1, <1>2, <1>3, FilesAndNames, PTL DEF Spec

(* protoc rejects a response without error only for the error holder of a type *)
(* of another file, or for a service with the name of a file or another: all   *)
(* other insertions have their point in a file written before, and no file is  *)
(* written twice (rpcplugin.cpp:199-244, 304-358, 465-481).                    *)
THEOREM ResponseIsAccepted == Spec => []ResponseAccepted
<1>1. ResponseInv => ResponseAccepted
  BY DEF ResponseInv
<1> QED
  BY <1>1, ParsedAndWritten, PTL

(* In a response without error each response type that is not VTK's or external *)
(* has one holder, that of errors, however many methods of however many files  *)
(* return it; types of requests only get none (rpcplugin.cpp:453-487).         *)
THEOREM EachTypeHasErrors == Spec => []ErrorHoldersOnce
<1>1. ResponseInv => ErrorHoldersOnce
  BY DEF ResponseInv
<1> QED
  BY <1>1, ParsedAndWritten, PTL

=============================================================================
