---------------------------- MODULE CodeGenProofs ----------------------------
(* Theorems about CodeGen, for services of any number of methods and messages  *)
(* of any fields: what is started is ended, objects are read in the order they *)
(* are sent, arguments are those of the signature, and local variables and     *)
(* parameters are declared where they are used, with two known exceptions.     *)

EXTENDS CodeGen, FlattenLemmas, SequenceTheorems, TLAPS

-----------------------------------------------------------------------------
(* The names that items say.                                                   *)

Ops == {"declare", "use", "send", "receive", "case", "register", "closure", "argument",
        "parameter"}
Words == {"input", "output", "done", "obj", "serializer", "deserializer", "data", "allocated",
          "tmp", "mut", "mutableRequest", "mutableResponse", "msg", "request", "response",
          "requestId", "responseType", "id", "handler", "ext", "in", "out", "info", "methodId",
          "requestMessageEnvelope", "replyChannel", "channel", "incomingResponse",
          "targetResponse", "errorCode", "errorString", "callback"}
NameSet == Seq(Words \cup Nat)
AllItems == [op : Ops, name : NameSet, scope : Seq(Nat)]

\* What each item says.
Said(items, op, scope) ==
  [k \in DOMAIN items |->
    IF items[k].op = op /\ items[k].scope = scope THEN <<items[k].name>> ELSE <<>>]

\* What each item says is a sequence of at most one name.
LEMMA SaidTyped ==
  ASSUME NEW items \in Seq(AllItems), NEW op, NEW scope
  PROVE  /\ Said(items, op, scope) \in Seq(Seq(NameSet))
         /\ Len(Said(items, op, scope)) = Len(items) /\ Len(items) \in Nat
         /\ \A k \in 1 .. Len(items) :
              /\ items[k] \in AllItems /\ items[k].name \in NameSet
              /\ Said(items, op, scope)[k] =
                  IF items[k].op = op /\ items[k].scope = scope THEN <<items[k].name>> ELSE <<>>
         /\ NamesOf(items, op, scope) = FlattenSeq(Said(items, op, scope))
         /\ NamesOf(items, op, scope) \in Seq(NameSet)
<1>1. DOMAIN items = 1 .. Len(items) /\ Len(items) \in Nat
      /\ \A k \in 1 .. Len(items) : items[k] \in AllItems
  BY LenProperties, ElementOfSeq
<1>2. \A k \in 1 .. Len(items) : items[k].name \in NameSet
  BY <1>1 DEF AllItems
<1> DEFINE said == Said(items, op, scope)
<1>3. DOMAIN said = 1 .. Len(items)
      /\ \A k \in 1 .. Len(items) : said[k] =
           IF items[k].op = op /\ items[k].scope = scope THEN <<items[k].name>> ELSE <<>>
  BY <1>1 DEF Said
<1>4. \A k \in 1 .. Len(items) : said[k] \in Seq(NameSet)
  <2> HIDE DEF said
  <2> SUFFICES ASSUME NEW k \in 1 .. Len(items) PROVE said[k] \in Seq(NameSet)
    OBVIOUS
  <2> DEFINE x == items[k].name
  <2>1. x \in NameSet
    BY <1>2
  <2>2. said[k] = <<x>> \/ said[k] = <<>>
    BY <1>3
  <2> HIDE DEF x
  <2>3. <<x>> \in Seq(NameSet) /\ <<>> \in Seq(NameSet)
    BY <2>1
  <2> QED
    BY <2>2, <2>3
<1>5. said = [k \in 1 .. Len(items) |-> said[k]]
  BY <1>1 DEF Said
<1> HIDE DEF said
<1>6. said \in Seq(Seq(NameSet)) /\ Len(said) = Len(items)
  BY <1>1, <1>4, <1>5
<1>7. NamesOf(items, op, scope) = FlattenSeq(said)
  BY DEF NamesOf, said, Said
<1>8. FlattenSeq(said) \in Seq(NameSet)
  BY <1>6, FlattenElements
<1> QED
  BY <1>1, <1>2, <1>3, <1>6, <1>7, <1>8 DEF said

\* Names are said one after the other.
LEMMA NamesConcat ==
  ASSUME NEW a \in Seq(AllItems), NEW b \in Seq(AllItems), NEW op, NEW scope
  PROVE  /\ a \o b \in Seq(AllItems)
         /\ NamesOf(a \o b, op, scope) = NamesOf(a, op, scope) \o NamesOf(b, op, scope)
<1> DEFINE c == a \o b
           x == Said(a, op, scope)
           y == Said(b, op, scope)
           z == Said(c, op, scope)
           Matches(item) == item.op = op /\ item.scope = scope
<1>1. /\ c \in Seq(AllItems) /\ Len(c) = Len(a) + Len(b)
      /\ \A k \in 1 .. Len(a) + Len(b) : c[k] = IF k <= Len(a) THEN a[k] ELSE b[k - Len(a)]
  BY ConcatProperties
<1>2. /\ x \in Seq(Seq(NameSet)) /\ Len(x) = Len(a) /\ Len(a) \in Nat
      /\ \A k \in 1 .. Len(a) : x[k] = IF Matches(a[k]) THEN <<a[k].name>> ELSE <<>>
      /\ NamesOf(a, op, scope) = FlattenSeq(x)
  BY SaidTyped
<1>3. /\ y \in Seq(Seq(NameSet)) /\ Len(y) = Len(b) /\ Len(b) \in Nat
      /\ \A k \in 1 .. Len(b) : y[k] = IF Matches(b[k]) THEN <<b[k].name>> ELSE <<>>
      /\ NamesOf(b, op, scope) = FlattenSeq(y)
  BY SaidTyped
<1> HIDE DEF c
<1>4. /\ z \in Seq(Seq(NameSet)) /\ Len(z) = Len(c)
      /\ \A k \in 1 .. Len(c) : z[k] = IF Matches(c[k]) THEN <<c[k].name>> ELSE <<>>
      /\ NamesOf(c, op, scope) = FlattenSeq(z)
  <2>1. c \in Seq(AllItems)
    BY <1>1
  <2> QED
    BY <2>1, SaidTyped
<1> DEFINE m == Len(a)
           n == Len(b)
<1> HIDE DEF x, y, z
<1>5. x \o y \in Seq(Seq(NameSet)) /\ Len(x \o y) = m + n
      /\ \A k \in 1 .. m + n : (x \o y)[k] = IF k <= m THEN x[k] ELSE y[k - m]
  <2>1. x \in Seq(Seq(NameSet)) /\ y \in Seq(Seq(NameSet)) /\ Len(x) = m /\ Len(y) = n
    BY <1>2, <1>3
  <2>2. x \o y \in Seq(Seq(NameSet)) /\ Len(x \o y) = Len(x) + Len(y)
        /\ \A k \in 1 .. Len(x) + Len(y) :
             (x \o y)[k] = IF k <= Len(x) THEN x[k] ELSE y[k - Len(x)]
    BY <2>1, ConcatProperties
  <2> HIDE DEF m, n
  <2> QED
    BY <2>1, <2>2
<1>6. m \in Nat /\ n \in Nat /\ Len(z) = m + n /\ Len(c) = m + n
  BY <1>1, <1>2, <1>3, <1>4
<1>7. \A k \in 1 .. m : z[k] = x[k]
  <2> SUFFICES ASSUME NEW k \in 1 .. m PROVE z[k] = x[k]
    OBVIOUS
  <2>1. k \in 1 .. m + n /\ k <= m
    BY <1>6
  <2>2. c[k] = a[k]
    BY <1>1, <2>1
  <2> HIDE DEF Matches
  <2> QED
    BY <1>2, <1>4, <1>6, <2>1, <2>2
<1>8. \A k \in 1 .. n : z[m + k] = y[k]
  <2> SUFFICES ASSUME NEW k \in 1 .. n PROVE z[m + k] = y[k]
    OBVIOUS
  <2>1. m + k \in 1 .. m + n /\ ~(m + k <= m) /\ (m + k) - m = k
    BY <1>6
  <2>2. c[m + k] = b[k]
    BY <1>1, <2>1
  <2> HIDE DEF Matches
  <2> QED
    BY <1>3, <1>4, <1>6, <2>1, <2>2
<1>9. \A k \in 1 .. m + n : z[k] = (x \o y)[k]
  <2> SUFFICES ASSUME NEW k \in 1 .. m + n PROVE z[k] = (x \o y)[k]
    OBVIOUS
  <2>1. CASE k <= m
    <3>1. k \in 1 .. m
      BY <1>6, <2>1
    <3> QED
      BY <1>5, <1>7, <2>1, <3>1
  <2>2. CASE ~(k <= m)
    <3>1. k - m \in 1 .. n /\ m + (k - m) = k
      BY <1>6, <2>2
    <3>2. z[m + (k - m)] = y[k - m]
      BY <1>8, <3>1
    <3> QED
      BY <1>5, <2>2, <3>1, <3>2
  <2> QED
    BY <2>1, <2>2
<1>10. z = x \o y
  BY <1>4, <1>5, <1>6, <1>9, SeqEqual
<1>11. FlattenSeq(x \o y) = FlattenSeq(x) \o FlattenSeq(y)
  BY <1>2, <1>3, FlattenConcat
<1> QED
  BY <1>1, <1>2, <1>3, <1>4, <1>10, <1>11 DEF c

\* One item says something.
LEMMA OneName ==
  ASSUME NEW items \in Seq(AllItems), NEW p \in 1 .. Len(items), NEW op, NEW scope,
         items[p].op = op, items[p].scope = scope,
         \A k \in 1 .. Len(items) : k # p => items[k].op # op
  PROVE  NamesOf(items, op, scope) = <<items[p].name>>
<1> DEFINE said == Said(items, op, scope)
<1>1. /\ said \in Seq(Seq(NameSet)) /\ Len(said) = Len(items)
      /\ \A k \in 1 .. Len(items) :
           said[k] = IF items[k].op = op /\ items[k].scope = scope THEN <<items[k].name>> ELSE <<>>
      /\ NamesOf(items, op, scope) = FlattenSeq(said)
  BY SaidTyped
<1> HIDE DEF said
<1>2. said[p] = <<items[p].name>> /\ p \in 1 .. Len(said)
      /\ \A k \in 1 .. Len(said) : k # p => said[k] = <<>>
  BY <1>1
<1>3. FlattenSeq(said) = said[p]
  BY <1>1, <1>2, FlattenOnly
<1> QED
  BY <1>1, <1>2, <1>3

\* Apart from declarations and uses, items are in one scope and of a few kinds.
Plain == {"declare", "use"}
Confined(items, scope, ops) ==
  /\ items \in Seq(AllItems)
  /\ \A k \in 1 .. Len(items) :
       items[k].op \in Plain \/ (items[k].op \in ops /\ items[k].scope = scope)

\* Other kinds, and items of other scopes, are not there.
LEMMA NoNames ==
  ASSUME NEW items, NEW scope, NEW ops, Confined(items, scope, ops),
         NEW op, op \notin Plain, NEW other, op \notin ops \/ other # scope
  PROVE  NamesOf(items, op, other) = <<>>
<1> DEFINE said == Said(items, op, other)
<1>1. items \in Seq(AllItems)
  BY DEF Confined
<1>2. /\ said \in Seq(Seq(NameSet)) /\ Len(said) = Len(items) /\ Len(items) \in Nat
      /\ \A k \in 1 .. Len(items) :
           said[k] = IF items[k].op = op /\ items[k].scope = other THEN <<items[k].name>> ELSE <<>>
      /\ NamesOf(items, op, other) = FlattenSeq(said)
  BY <1>1, SaidTyped
<1> HIDE DEF said
<1>3. \A k \in 1 .. Len(said) : said[k] = <<>>
  <2> SUFFICES ASSUME NEW k \in 1 .. Len(items), items[k].op = op, items[k].scope = other
               PROVE  FALSE
    BY <1>2
  <2> QED
    BY DEF Confined
<1>4. CASE Len(said) = 0
  <2>1. said = <<>>
    BY <1>2, <1>4
  <2> QED
    BY <1>2, <2>1 DEF FlattenSeq
<1>5. CASE Len(said) # 0
  <2>1. 1 \in 1 .. Len(said)
    BY <1>2, <1>5
  <2>2. FlattenSeq(said) = said[1]
    BY <1>2, <1>3, <2>1, FlattenOnly
  <2> QED
    BY <1>2, <1>3, <2>1, <2>2
<1> QED
  BY <1>4, <1>5

\* Confined text may be put together.
LEMMA ConfinedConcat ==
  ASSUME NEW a, NEW b, NEW scope, NEW ops, Confined(a, scope, ops), Confined(b, scope, ops)
  PROVE  Confined(a \o b, scope, ops)
<1>1. a \in Seq(AllItems) /\ b \in Seq(AllItems)
  BY DEF Confined
<1>2. a \o b \in Seq(AllItems)
  BY <1>1, NamesConcat
<1>3. \A k \in 1 .. Len(a \o b) :
        (\E l \in 1 .. Len(a) : (a \o b)[k] = a[l]) \/ (\E l \in 1 .. Len(b) : (a \o b)[k] = b[l])
  BY <1>1, ConcatElements
<1> DEFINE c == a \o b
<1> HIDE DEF c
<1>4. \A k \in 1 .. Len(c) :
        c[k].op \in Plain \/ (c[k].op \in ops /\ c[k].scope = scope)
  BY <1>3 DEF Confined, c
<1> QED
  BY <1>2, <1>4 DEF Confined, c

\* So may any number of confined texts.
LEMMA ConfinedFlatten ==
  ASSUME NEW seqs \in Seq(Seq(AllItems)), NEW scope, NEW ops,
         \A k \in 1 .. Len(seqs) : Confined(seqs[k], scope, ops)
  PROVE  Confined(FlattenSeq(seqs), scope, ops)
<1> DEFINE f == FlattenSeq(seqs)
<1>1. f \in Seq(AllItems)
      /\ \A k \in 1 .. Len(f) :
           \E i \in 1 .. Len(seqs) : \E l \in 1 .. Len(seqs[i]) : f[k] = seqs[i][l]
  BY FlattenElements
<1> HIDE DEF f
<1>2. \A k \in 1 .. Len(f) :
        f[k].op \in Plain \/ (f[k].op \in ops /\ f[k].scope = scope)
  <2> SUFFICES ASSUME NEW k \in 1 .. Len(f)
               PROVE  f[k].op \in Plain \/ (f[k].op \in ops /\ f[k].scope = scope)
    OBVIOUS
  <2>1. PICK i \in 1 .. Len(seqs) : \E l \in 1 .. Len(seqs[i]) : f[k] = seqs[i][l]
    BY <1>1
  <2>2. Confined(seqs[i], scope, ops)
    OBVIOUS
  <2> QED
    BY <2>1, <2>2 DEF Confined
<1> QED
  BY <1>1, <1>2 DEF Confined, f

\* The names that pieces of text say are those of the pieces.
LEMMA NamesFlatten ==
  ASSUME NEW seqs \in Seq(Seq(AllItems)), NEW op, NEW scope
  PROVE  NamesOf(FlattenSeq(seqs), op, scope)
           = FlattenSeq([k \in 1 .. Len(seqs) |-> NamesOf(seqs[k], op, scope)])
<1> DEFINE n == Len(seqs)
           names == [k \in 1 .. n |-> NamesOf(seqs[k], op, scope)]
<1>1. n \in Nat /\ \A k \in 1 .. n : seqs[k] \in Seq(AllItems)
  BY LenProperties, ElementOfSeq
<1>2. \A k \in 1 .. n : NamesOf(seqs[k], op, scope) \in Seq(NameSet)
  BY <1>1, SaidTyped
<1>3. names \in Seq(Seq(NameSet)) /\ Len(names) = n
  BY <1>1, <1>2
<1>4. PICK part : Partial(part, seqs, AllItems) /\ FlattenSeq(seqs) = part[n]
  BY Flatten
<1>5. /\ \A i \in 0 .. n : part[i] \in Seq(AllItems)
      /\ part[0] = <<>>
      /\ \A i \in Nat : i < n => part[i + 1] = part[i] \o seqs[i + 1]
  BY <1>4 DEF Partial
<1> DEFINE said == [i \in 0 .. n |-> NamesOf(part[i], op, scope)]
<1>6. \A i \in 0 .. n : NamesOf(part[i], op, scope) \in Seq(NameSet)
  BY <1>5, SaidTyped
<1>7. said \in [0 .. n -> Seq(NameSet)]
  BY <1>6
<1>8. said[0] = <<>>
  <2>1. NamesOf(<<>>, op, scope) = <<>>
    BY DEF NamesOf, FlattenSeq
  <2> QED
    BY <1>1, <1>5, <2>1
<1>9. ASSUME NEW i \in Nat, i < n PROVE said[i + 1] = said[i] \o names[i + 1]
  <2>1. i \in 0 .. n /\ i + 1 \in 0 .. n /\ i + 1 \in 1 .. n
    BY <1>1, <1>9
  <2>2. part[i] \in Seq(AllItems) /\ seqs[i + 1] \in Seq(AllItems)
    BY <1>1, <1>5, <2>1
  <2> DEFINE u == part[i]
             w == seqs[i + 1]
  <2>3. u \in Seq(AllItems) /\ w \in Seq(AllItems)
    BY <2>2
  <2> HIDE DEF u, w
  <2>4. NamesOf(u \o w, op, scope) = NamesOf(u, op, scope) \o NamesOf(w, op, scope)
    BY <2>3, NamesConcat
  <2> QED
    BY <1>5, <1>9, <2>1, <2>4 DEF u, w
<1> HIDE DEF said, names
<1>10. Partial(said, names, NameSet)
  BY <1>3, <1>7, <1>8, <1>9 DEF Partial
<1>11. FlattenSeq(names) = said[n]
  BY <1>3, <1>10, FlattenIs
<1> QED
  BY <1>1, <1>4, <1>11 DEF said, names

\* Text of which nothing but declarations and uses is known.
Quiet(items) ==
  /\ items \in Seq(AllItems)
  /\ \A k \in 1 .. Len(items) : items[k].op \in Plain

\* Quiet text is confined to any scope.
LEMMA QuietConfined ==
  ASSUME NEW items, Quiet(items), NEW scope, NEW ops
  PROVE  Confined(items, scope, ops)
BY DEF Quiet, Confined

\* Quiet text adds nothing.
LEMMA JoinQuiet ==
  ASSUME NEW a, NEW b, NEW scope, NEW ops, Confined(a, scope, ops), Quiet(b),
         NEW op, op \notin Plain, NEW other
  PROVE  /\ Confined(a \o b, scope, ops) /\ Confined(b \o a, scope, ops)
         /\ NamesOf(a \o b, op, other) = NamesOf(a, op, other)
         /\ NamesOf(b \o a, op, other) = NamesOf(a, op, other)
<1>1. Confined(b, scope, ops) /\ Confined(b, scope, {})
  BY QuietConfined
<1>2. a \in Seq(AllItems) /\ b \in Seq(AllItems)
  BY <1>1 DEF Confined
<1>3. Confined(a \o b, scope, ops) /\ Confined(b \o a, scope, ops)
  BY <1>1, ConfinedConcat
<1>4. /\ NamesOf(a \o b, op, other) = NamesOf(a, op, other) \o NamesOf(b, op, other)
      /\ NamesOf(b \o a, op, other) = NamesOf(b, op, other) \o NamesOf(a, op, other)
  BY <1>2, NamesConcat
<1> DEFINE x == NamesOf(a, op, other)
<1>5. NamesOf(b, op, other) = <<>>
  BY <1>1, NoNames
<1>6. x \in Seq(NameSet)
  BY <1>2, SaidTyped
<1> HIDE DEF x
<1>7. x \o <<>> = x /\ <<>> \o x = x
  BY <1>6, ConcatEmptySeq
<1> QED
  BY <1>3, <1>4, <1>5, <1>7 DEF x

\* A name that is said is that of an item.
LEMMA NameFrom ==
  ASSUME NEW items \in Seq(AllItems), NEW op, NEW scope,
         NEW k \in 1 .. Len(NamesOf(items, op, scope))
  PROVE  \E item \in Range(items) :
           item.op = op /\ item.scope = scope /\ item.name = NamesOf(items, op, scope)[k]
<1> DEFINE said == Said(items, op, scope)
           names == NamesOf(items, op, scope)
<1>1. /\ said \in Seq(Seq(NameSet)) /\ Len(said) = Len(items) /\ Len(items) \in Nat
      /\ \A i \in 1 .. Len(items) :
           said[i] = IF items[i].op = op /\ items[i].scope = scope THEN <<items[i].name>> ELSE <<>>
      /\ names = FlattenSeq(said)
  BY SaidTyped
<1>2. k \in 1 .. Len(names)
  OBVIOUS
<1> HIDE DEF said, names
<1>3. PICK i \in 1 .. Len(said) : \E l \in 1 .. Len(said[i]) : names[k] = said[i][l]
  BY <1>1, <1>2, FlattenElements
<1>4. PICK l \in 1 .. Len(said[i]) : names[k] = said[i][l]
  BY <1>3
<1>5. items[i].op = op /\ items[i].scope = scope /\ names[k] = items[i].name
  <2> DEFINE x == items[i].name
  <2>1. said[i] = IF items[i].op = op /\ items[i].scope = scope THEN <<x>> ELSE <<>>
    BY <1>1
  <2> HIDE DEF x
  <2>2. items[i].op = op /\ items[i].scope = scope
    BY <1>4, <2>1
  <2>3. said[i] = <<x>> /\ l = 1
    BY <1>4, <2>1, <2>2
  <2> QED
    BY <1>4, <2>2, <2>3 DEF x
<1>6. i \in DOMAIN items /\ items[i] \in Range(items)
  BY <1>1 DEF Range
<1> QED
  BY <1>5, <1>6 DEF names

\* The items of a list of names.
LEMMA ItemsNames ==
  ASSUME NEW op \in Ops, NEW names \in Seq(Words), NEW scope \in Seq(Nat)
  PROVE  /\ Items(op, names, scope) \in Seq(AllItems)
         /\ Confined(Items(op, names, scope), scope, {op})
         /\ op \in Plain => Quiet(Items(op, names, scope))
         /\ NamesOf(Items(op, names, scope), op, scope) = [k \in DOMAIN names |-> <<names[k]>>]
<1> DEFINE items == Items(op, names, scope)
           said == Said(items, op, scope)
           x == [k \in DOMAIN names |-> <<names[k]>>]
<1>1. DOMAIN names = 1 .. Len(names) /\ Len(names) \in Nat
      /\ \A k \in 1 .. Len(names) : names[k] \in Words
  BY LenProperties, ElementOfSeq
<1>2. \A k \in 1 .. Len(names) : <<names[k]>> \in NameSet
  BY <1>1 DEF NameSet
<1>3. x \in Seq(NameSet) /\ Len(x) = Len(names)
  BY <1>1, <1>2
<1>4. \A k \in 1 .. Len(names) : Item(op, <<names[k]>>, scope) \in AllItems
  BY <1>2 DEF Item, AllItems
<1>5. items \in Seq(AllItems) /\ Len(items) = Len(names)
  <2> DEFINE F(k) == Item(op, <<names[k]>>, scope)
  <2>1. items = [k \in 1 .. Len(names) |-> F(k)]
    BY <1>1 DEF Items
  <2>2. \A k \in 1 .. Len(names) : F(k) \in AllItems
    BY <1>4
  <2> HIDE DEF F, items
  <2> QED
    BY <1>1, <2>1, <2>2
<1>6. \A k \in 1 .. Len(names) :
        items[k].op = op /\ items[k].name = x[k] /\ items[k].scope = scope
  BY <1>1 DEF Items, Item
<1> HIDE DEF items, x
<1>7. Confined(items, scope, {op}) /\ (op \in Plain => Quiet(items))
  BY <1>5, <1>6 DEF Confined, Quiet
<1>8. /\ said \in Seq(Seq(NameSet)) /\ Len(said) = Len(items)
      /\ \A k \in 1 .. Len(items) :
           said[k] = IF items[k].op = op /\ items[k].scope = scope THEN <<items[k].name>> ELSE <<>>
      /\ NamesOf(items, op, scope) = FlattenSeq(said)
  BY <1>5, SaidTyped
<1> HIDE DEF said
<1>9. \A k \in 1 .. Len(said) : said[k] = <<x[k]>>
  BY <1>5, <1>6, <1>8
<1>10. FlattenSeq(said) = x
  BY <1>3, <1>5, <1>8, <1>9, FlattenEach
<1> QED
  BY <1>5, <1>7, <1>8, <1>10 DEF items, x

-----------------------------------------------------------------------------
(* What is written for the fields of a message.                                *)

\* The kinds of items, and the names of the variables that blocks declare.
LEMMA Vocabulary ==
  /\ "use" \in Ops /\ "declare" \in Ops /\ "send" \in Ops /\ "receive" \in Ops
  /\ "case" \in Ops /\ "register" \in Ops /\ "closure" \in Ops /\ "argument" \in Ops
  /\ "parameter" \in Ops /\ "use" \in Plain /\ "declare" \in Plain
  /\ "send" \notin Plain /\ "receive" \notin Plain /\ "case" \notin Plain
  /\ "register" \notin Plain /\ "closure" \notin Plain /\ "argument" \notin Plain
  /\ "parameter" \notin Plain
  /\ "obj" \in Words /\ "serializer" \in Words /\ "deserializer" \in Words
  /\ "data" \in Words /\ "allocated" \in Words /\ "tmp" \in Words /\ "mut" \in Words
  /\ "mutableRequest" \in Words
BY DEF Ops, Plain, Words

\* An item has the fields it is built from.
LEMMA ItemTyped ==
  ASSUME NEW op \in Ops, NEW name \in NameSet, NEW scope \in Seq(Nat)
  PROVE  /\ Item(op, name, scope) \in AllItems /\ Item(op, name, scope).op = op
         /\ Item(op, name, scope).name = name /\ Item(op, name, scope).scope = scope
BY DEF Item, AllItems

\* A pair is a sequence.
LEMMA PairTyped ==
  ASSUME NEW S, NEW a \in S, NEW b \in S
  PROVE  <<a, b>> \in Seq(S)
OBVIOUS

\* A variable of a field is an item.
LEMMA OwnTyped ==
  ASSUME NEW op \in Ops, NEW name \in Words, NEW i \in Nat, NEW scope \in Seq(Nat)
  PROVE  Own(op, name, i, scope) \in AllItems /\ Own(op, name, i, scope).op = op
<1> DEFINE T == Words \cup Nat
           x == <<name, i>>
           t == scope \o <<i>>
<1>1. x \in NameSet
  <2>1. name \in T /\ i \in T
    OBVIOUS
  <2> HIDE DEF T
  <2>2. x \in Seq(T)
    BY <2>1, PairTyped
  <2> QED
    BY <2>2 DEF NameSet, T
<1>2. t \in Seq(Nat)
  <2>1. <<i>> \in Seq(Nat)
    OBVIOUS
  <2> QED
    BY <2>1, ConcatProperties
<1>3. Own(op, name, i, scope) = Item(op, x, t)
  BY DEF Own
<1> HIDE DEF x, t
<1> QED
  BY <1>1, <1>2, <1>3, ItemTyped

\* The fields of a kind are a sequence of indices; Void has none.
LEMMA FieldsTyped ==
  ASSUME NEW type \in Messages, NEW kind
  PROVE  /\ FieldsOf(type, kind) \in Seq(Nat)
         /\ type.void => FieldsOf(type, kind) = <<>>
<1>1. type.fields \in Seq(Kinds) /\ (type.void => type.fields = <<>>)
  <2>1. CASE type = Void
    BY <2>1 DEF Void
  <2>2. CASE type \in [void : {FALSE}, fields : Seq(Kinds)]
    BY <2>2
  <2> QED
    BY <2>1, <2>2 DEF Messages
<1> DEFINE seqs == [i \in DOMAIN type.fields |->
                      IF type.fields[i] = kind THEN <<i>> ELSE <<>>]
<1>2. DOMAIN type.fields = 1 .. Len(type.fields) /\ Len(type.fields) \in Nat
  BY <1>1, LenProperties
<1>3. \A i \in 1 .. Len(type.fields) : <<i>> \in Seq(Nat) /\ <<>> \in Seq(Nat)
  BY <1>2
<1>4. seqs \in Seq(Seq(Nat))
  BY <1>2, <1>3
<1>5. FlattenSeq(seqs) \in Seq(Nat)
  BY <1>4, FlattenElements
<1>6. ASSUME type.void PROVE FlattenSeq(seqs) = <<>>
  <2>1. seqs = <<>>
    BY <1>1, <1>2, <1>6
  <2> HIDE DEF seqs
  <2> QED
    BY <2>1 DEF FlattenSeq
<1> QED
  BY <1>5, <1>6 DEF FieldsOf

\* The fields as names.
FieldNames(fields) == [k \in DOMAIN fields |-> <<fields[k]>>]

\* A block for each field, which says the field.
LEMMA Blocks ==
  ASSUME NEW fields \in Seq(Nat), NEW blocks \in Seq(Seq(AllItems)), NEW op, NEW scope,
         Len(blocks) = Len(fields),
         \A k \in 1 .. Len(fields) :
           /\ Confined(blocks[k], scope, {op})
           /\ NamesOf(blocks[k], op, scope) = <<<<fields[k]>>>>
  PROVE  /\ Confined(FlattenSeq(blocks), scope, {op})
         /\ NamesOf(FlattenSeq(blocks), op, scope) = FieldNames(fields)
<1> DEFINE names == FieldNames(fields)
           said == [k \in 1 .. Len(blocks) |-> NamesOf(blocks[k], op, scope)]
<1>1. DOMAIN fields = 1 .. Len(fields) /\ Len(fields) \in Nat
      /\ \A k \in 1 .. Len(fields) : fields[k] \in Nat
  BY LenProperties, ElementOfSeq
<1>2. \A k \in 1 .. Len(fields) : <<fields[k]>> \in NameSet
  BY <1>1 DEF NameSet
<1>3. names \in Seq(NameSet) /\ Len(names) = Len(fields)
      /\ \A k \in 1 .. Len(fields) : names[k] = <<fields[k]>>
  BY <1>1, <1>2 DEF FieldNames
<1>4. \A k \in 1 .. Len(fields) : said[k] = <<names[k]>>
  BY <1>3
<1> HIDE DEF names
<1>5. \A k \in 1 .. Len(fields) : said[k] \in Seq(NameSet)
  <2>1. \A k \in 1 .. Len(fields) : names[k] \in NameSet
    BY <1>3, ElementOfSeq
  <2>2. \A y \in NameSet : <<y>> \in Seq(NameSet)
    OBVIOUS
  <2> HIDE DEF said
  <2> QED
    BY <1>4, <2>1, <2>2
<1>6. said = [k \in 1 .. Len(fields) |-> said[k]]
  OBVIOUS
<1> HIDE DEF said
<1>7. said \in Seq(Seq(NameSet)) /\ Len(said) = Len(names) /\ Len(said) = Len(fields)
  BY <1>1, <1>3, <1>5, <1>6
<1>8. FlattenSeq(said) = names
  BY <1>3, <1>4, <1>7, FlattenEach
<1>9. NamesOf(FlattenSeq(blocks), op, scope) = FlattenSeq(said)
  BY NamesFlatten DEF said
<1>10. Confined(FlattenSeq(blocks), scope, {op})
  BY ConfinedFlatten
<1> QED
  BY <1>8, <1>9, <1>10 DEF names

SaysField(Text, op, scope) ==
  \A i \in Nat : /\ Text[i] \in Seq(AllItems) /\ Confined(Text[i], scope, {op})
                 /\ NamesOf(Text[i], op, scope) = <<<<i>>>>

IsForEach(blocks, fields, Text) == blocks = [k \in DOMAIN fields |-> Text[fields[k]]]

\* So does the text of all of them (ForFields).
LEMMA ForEachField ==
  ASSUME NEW fields \in Seq(Nat), NEW Text, NEW op, NEW scope,
         SaysField(Text, op, scope), NEW blocks, IsForEach(blocks, fields, Text)
  PROVE  /\ Confined(FlattenSeq(blocks), scope, {op})
         /\ NamesOf(FlattenSeq(blocks), op, scope) = FieldNames(fields)
<1>1. DOMAIN fields = 1 .. Len(fields) /\ Len(fields) \in Nat
      /\ \A k \in 1 .. Len(fields) : fields[k] \in Nat
  BY LenProperties, ElementOfSeq
<1>2. blocks \in Seq(Seq(AllItems)) /\ Len(blocks) = Len(fields)
      /\ \A k \in 1 .. Len(fields) : blocks[k] = Text[fields[k]]
  BY <1>1 DEF IsForEach, SaysField
<1>3. \A k \in 1 .. Len(fields) :
        /\ Confined(blocks[k], scope, {op})
        /\ NamesOf(blocks[k], op, scope) = <<<<fields[k]>>>>
  BY <1>1, <1>2 DEF SaysField
<1> QED
  BY <1>2, <1>3, Blocks

\* One of the items of a block says the field, the others declare and use.
LEMMA BlockSays ==
  ASSUME NEW block \in Seq(AllItems), NEW p \in 1 .. Len(block), NEW op, op \notin Plain,
         NEW scope, block[p].op = op, block[p].scope = scope,
         \A k \in 1 .. Len(block) : k # p => block[k].op \in Plain
  PROVE  /\ Confined(block, scope, {op})
         /\ NamesOf(block, op, scope) = <<block[p].name>>
<1>1. \A k \in 1 .. Len(block) : k # p => block[k].op # op
  OBVIOUS
<1>2. NamesOf(block, op, scope) = <<block[p].name>>
  BY <1>1, OneName
<1>3. Confined(block, scope, {op})
  BY DEF Confined
<1> QED
  BY <1>2, <1>3

\* generateSentVtkBlock sends the VTK fields in their order.
LEMMA SentVtk ==
  ASSUME NEW type \in Messages, NEW variable \in NameSet, NEW scope \in Seq(Nat)
  PROVE  /\ Confined(SentVtkBlock(variable, type, scope), scope, {"send"})
         /\ NamesOf(SentVtkBlock(variable, type, scope), "send", scope)
              = FieldNames(FieldsOf(type, "vtk"))
<1> DEFINE fields == FieldsOf(type, "vtk")
           Block(i) == <<Item("use", variable, scope), Own("declare", "obj", i, scope),
                         Own("use", "obj", i, scope), Item("send", <<i>>, scope)>>
           blocks == [k \in DOMAIN fields |-> Block(fields[k])]
<1>1. fields \in Seq(Nat)
  BY FieldsTyped
<1>2. SentVtkBlock(variable, type, scope) = FlattenSeq(blocks)
  BY DEF SentVtkBlock, ForFields
<1>3. ASSUME NEW i \in Nat
      PROVE  /\ Block(i) \in Seq(AllItems)
             /\ Confined(Block(i), scope, {"send"})
             /\ NamesOf(Block(i), "send", scope) = <<<<i>>>>
  <2> DEFINE a == Item("use", variable, scope)
             b == Own("declare", "obj", i, scope)
             c == Own("use", "obj", i, scope)
             d == Item("send", <<i>>, scope)
             block == <<a, b, c, d>>
  <2>1. <<i>> \in NameSet
    BY DEF NameSet
  <2>2. a \in AllItems /\ a.op = "use"
    BY ItemTyped, Vocabulary
  <2>3. b \in AllItems /\ b.op = "declare"
    BY Vocabulary, OwnTyped
  <2>4. c \in AllItems /\ c.op = "use"
    BY Vocabulary, OwnTyped
  <2>5. d \in AllItems /\ d.op = "send" /\ d.scope = scope /\ d.name = <<i>>
    BY <2>1, ItemTyped, Vocabulary
  <2>6. /\ a \in AllItems /\ b \in AllItems /\ c \in AllItems /\ d \in AllItems
        /\ a.op = "use" /\ b.op = "declare" /\ c.op = "use"
        /\ d.op = "send" /\ d.scope = scope /\ d.name = <<i>>
    BY <2>2, <2>3, <2>4, <2>5
  <2> HIDE DEF a, b, c, d
  <2>7. /\ block \in Seq(AllItems) /\ 4 \in 1 .. Len(block) /\ block[4] = d
        /\ \A k \in 1 .. Len(block) : k # 4 => block[k].op \in Plain
    BY <2>6 DEF Plain
  <2> HIDE DEF block
  <2>8. Confined(block, scope, {"send"}) /\ NamesOf(block, "send", scope) = <<block[4].name>>
    BY <2>6, <2>7, BlockSays DEF Plain
  <2> QED
    BY <2>6, <2>7, <2>8 DEF block, a, b, c, d
<1> HIDE DEF fields, Block
<1>4. blocks = [k \in DOMAIN fields |-> Block(fields[k])]
  OBVIOUS
<1> HIDE DEF blocks
<1> DEFINE Text == [i \in Nat |-> Block(i)]
<1>5. IsForEach(blocks, fields, Text)
  BY <1>1, <1>4, ElementOfSeq, LenProperties DEF IsForEach
<1>6. \A i \in Nat : Text[i] = Block(i)
  OBVIOUS
<1>7. SaysField(Text, "send", scope)
  <2> HIDE DEF Text
  <2> QED
    BY <1>3, <1>6 DEF SaysField
<1> HIDE DEF Text
<1>8. /\ Confined(FlattenSeq(blocks), scope, {"send"})
      /\ NamesOf(FlattenSeq(blocks), "send", scope) = FieldNames(fields)
  BY <1>1, <1>5, <1>7, ForEachField
<1> QED
  BY <1>2, <1>8 DEF fields

\* A variable is a name.
LEMMA OneWord ==
  ASSUME NEW word \in Words
  PROVE  <<word>> \in NameSet
<1> DEFINE T == Words \cup Nat
<1>1. word \in T
  OBVIOUS
<1> HIDE DEF T
<1>2. <<word>> \in Seq(T)
  BY <1>1
<1> QED
  BY <1>2 DEF NameSet, T

\* No text says nothing.
LEMMA NothingSaid ==
  ASSUME NEW scope, NEW ops
  PROVE  /\ Confined(<<>>, scope, ops) /\ Quiet(<<>>)
         /\ \A op, other : NamesOf(<<>>, op, other) = <<>>
<1>1. <<>> \in Seq(AllItems) /\ Len(<<>>) = 0
  BY EmptySeq
<1>2. \A op, other : NamesOf(<<>>, op, other) = <<>>
  BY DEF NamesOf, FlattenSeq
<1> QED
  BY <1>1, <1>2 DEF Confined, Quiet

\* What makes a message mutable says nothing.
LEMMA MutableQuiet ==
  ASSUME NEW variable \in Words, NEW mutable \in Words, NEW scope \in Seq(Nat)
  PROVE  Quiet(MutableMessage(variable, mutable, scope))
<1> DEFINE a == Declare(mutable, scope)
           b == Use(variable, scope)
           c == Declare("tmp", scope)
           d == Use(mutable, scope)
           items == <<a, b, c, d>>
<1>1. <<mutable>> \in NameSet /\ <<variable>> \in NameSet /\ <<"tmp">> \in NameSet
  BY OneWord, Vocabulary
<1>2. a \in AllItems /\ a.op \in Plain
  BY <1>1, ItemTyped, Vocabulary DEF Declare
<1>3. b \in AllItems /\ b.op \in Plain
  BY <1>1, ItemTyped, Vocabulary DEF Use
<1>4. c \in AllItems /\ c.op \in Plain
  BY <1>1, ItemTyped, Vocabulary DEF Declare
<1>5. d \in AllItems /\ d.op \in Plain
  BY <1>1, ItemTyped, Vocabulary DEF Use
<1>6. MutableMessage(variable, mutable, scope) = items
  BY DEF MutableMessage
<1> HIDE DEF a, b, c, d
<1>7. items \in Seq(AllItems) /\ \A k \in 1 .. Len(items) : items[k].op \in Plain
  BY <1>2, <1>3, <1>4, <1>5
<1> QED
  BY <1>6, <1>7 DEF Quiet

\* generateSentExternalBlock sends the external fields in their order.
LEMMA SentExternal ==
  ASSUME NEW type \in Messages, NEW variable \in NameSet, NEW scope \in Seq(Nat)
  PROVE  /\ Confined(SentExternalBlock(variable, type, scope), scope, {"send"})
         /\ NamesOf(SentExternalBlock(variable, type, scope), "send", scope)
              = FieldNames(FieldsOf(type, "external"))
<1> DEFINE fields == FieldsOf(type, "external")
           Block(i) == <<Item("use", variable, scope),
                          Own("declare", "obj", i, scope),
                          Own("declare", "serializer", i, scope),
                          Own("use", "obj", i, scope),
                          Own("declare", "data", i, scope),
                          Own("use", "serializer", i, scope),
                          Item("send", <<i>>, scope),
                          Own("use", "data", i, scope)>>
           blocks == [k \in DOMAIN fields |-> Block(fields[k])]
<1>1. fields \in Seq(Nat)
  BY FieldsTyped
<1>2. SentExternalBlock(variable, type, scope) = FlattenSeq(blocks)
  BY DEF SentExternalBlock, ForFields
<1>3. ASSUME NEW i \in Nat
      PROVE  /\ Block(i) \in Seq(AllItems)
             /\ Confined(Block(i), scope, {"send"})
             /\ NamesOf(Block(i), "send", scope) = <<<<i>>>>
  <2> DEFINE v1 == Item("use", variable, scope)
             v2 == Own("declare", "obj", i, scope)
             v3 == Own("declare", "serializer", i, scope)
             v4 == Own("use", "obj", i, scope)
             v5 == Own("declare", "data", i, scope)
             v6 == Own("use", "serializer", i, scope)
             v7 == Item("send", <<i>>, scope)
             v8 == Own("use", "data", i, scope)
             block == <<v1, v2, v3, v4, v5, v6, v7, v8>>
  <2>1. <<i>> \in NameSet
    BY DEF NameSet
  <2>2. v1 \in AllItems /\ v1.op \in Plain
    BY ItemTyped, Vocabulary
  <2>3. v2 \in AllItems /\ v2.op \in Plain
    BY OwnTyped, Vocabulary
  <2>4. v3 \in AllItems /\ v3.op \in Plain
    BY OwnTyped, Vocabulary
  <2>5. v4 \in AllItems /\ v4.op \in Plain
    BY OwnTyped, Vocabulary
  <2>6. v5 \in AllItems /\ v5.op \in Plain
    BY OwnTyped, Vocabulary
  <2>7. v6 \in AllItems /\ v6.op \in Plain
    BY OwnTyped, Vocabulary
  <2>8. v7 \in AllItems /\ v7.op = "send" /\ v7.scope = scope /\ v7.name = <<i>>
    BY <2>1, ItemTyped, Vocabulary
  <2>9. v8 \in AllItems /\ v8.op \in Plain
    BY OwnTyped, Vocabulary
  <2> HIDE DEF v1, v2, v3, v4, v5, v6, v7, v8
  <2>10. /\ block \in Seq(AllItems) /\ 7 \in 1 .. Len(block) /\ block[7] = v7
         /\ \A k \in 1 .. Len(block) : k # 7 => block[k].op \in Plain
    BY <2>2, <2>3, <2>4, <2>5, <2>6, <2>7, <2>8, <2>9
  <2> HIDE DEF block
  <2>11. Confined(block, scope, {"send"}) /\ NamesOf(block, "send", scope) = <<block[7].name>>
    BY <2>8, <2>10, BlockSays, Vocabulary
  <2> QED
    BY <2>8, <2>10, <2>11 DEF block, v1, v2, v3, v4, v5, v6, v7, v8
<1> HIDE DEF fields, Block
<1>4. blocks = [k \in DOMAIN fields |-> Block(fields[k])]
  OBVIOUS
<1> HIDE DEF blocks
<1> DEFINE Text == [i \in Nat |-> Block(i)]
<1>5. IsForEach(blocks, fields, Text)
  BY <1>1, <1>4, ElementOfSeq, LenProperties DEF IsForEach
<1>6. \A i \in Nat : Text[i] = Block(i)
  OBVIOUS
<1>7. SaysField(Text, "send", scope)
  <2> HIDE DEF Text
  <2> QED
    BY <1>3, <1>6 DEF SaysField
<1> HIDE DEF Text
<1>8. /\ Confined(FlattenSeq(blocks), scope, {"send"})
      /\ NamesOf(FlattenSeq(blocks), "send", scope) = FieldNames(fields)
  BY <1>1, <1>5, <1>7, ForEachField
<1> QED
  BY <1>2, <1>8 DEF fields

\* generateReceiveVtkBlock receives the VTK fields in their order.
LEMMA ReceiveVtk ==
  ASSUME NEW type \in Messages, NEW variable \in Words, NEW scope \in Seq(Nat)
  PROVE  /\ Confined(ReceiveVtkBlock(variable, type, scope), scope, {"receive"})
         /\ NamesOf(ReceiveVtkBlock(variable, type, scope), "receive", scope)
              = FieldNames(FieldsOf(type, "vtk"))
<1> DEFINE fields == FieldsOf(type, "vtk")
           Block(i) == <<Use("tmp", scope),
                          Own("declare", "obj", i, scope),
                          Own("declare", "allocated", i, scope),
                          Item("receive", <<i>>, scope),
                          Own("use", "obj", i, scope),
                          Own("use", "allocated", i, scope)>>
           blocks == [k \in DOMAIN fields |-> Block(fields[k])]
<1>1. fields \in Seq(Nat)
  BY FieldsTyped
<1> DEFINE head == MutableMessage(variable, "mut", scope)
<1>2. ReceiveVtkBlock(variable, type, scope)
        = IF fields = <<>> THEN <<>> ELSE head \o FlattenSeq(blocks)
  BY DEF ReceiveVtkBlock, ForFields
<1>3. <<"tmp">> \in NameSet
  BY OneWord, Vocabulary
<1>4. ASSUME NEW i \in Nat
      PROVE  /\ Block(i) \in Seq(AllItems)
             /\ Confined(Block(i), scope, {"receive"})
             /\ NamesOf(Block(i), "receive", scope) = <<<<i>>>>
  <2> DEFINE v1 == Use("tmp", scope)
             v2 == Own("declare", "obj", i, scope)
             v3 == Own("declare", "allocated", i, scope)
             v4 == Item("receive", <<i>>, scope)
             v5 == Own("use", "obj", i, scope)
             v6 == Own("use", "allocated", i, scope)
             block == <<v1, v2, v3, v4, v5, v6>>
  <2>1. <<i>> \in NameSet
    BY DEF NameSet
  <2>2. v1 \in AllItems /\ v1.op \in Plain
    BY <1>3, ItemTyped, Vocabulary DEF Use
  <2>3. v2 \in AllItems /\ v2.op \in Plain
    BY OwnTyped, Vocabulary
  <2>4. v3 \in AllItems /\ v3.op \in Plain
    BY OwnTyped, Vocabulary
  <2>5. v4 \in AllItems /\ v4.op = "receive" /\ v4.scope = scope /\ v4.name = <<i>>
    BY <2>1, ItemTyped, Vocabulary
  <2>6. v5 \in AllItems /\ v5.op \in Plain
    BY OwnTyped, Vocabulary
  <2>7. v6 \in AllItems /\ v6.op \in Plain
    BY OwnTyped, Vocabulary
  <2> HIDE DEF v1, v2, v3, v4, v5, v6
  <2>8. /\ block \in Seq(AllItems) /\ 4 \in 1 .. Len(block) /\ block[4] = v4
         /\ \A k \in 1 .. Len(block) : k # 4 => block[k].op \in Plain
    BY <2>2, <2>3, <2>4, <2>5, <2>6, <2>7
  <2> HIDE DEF block
  <2>9. Confined(block, scope, {"receive"}) /\ NamesOf(block, "receive", scope) = <<block[4].name>>
    BY <2>5, <2>8, BlockSays, Vocabulary
  <2> QED
    BY <2>5, <2>8, <2>9 DEF block, v1, v2, v3, v4, v5, v6
<1> HIDE DEF fields, Block
<1>5. blocks = [k \in DOMAIN fields |-> Block(fields[k])]
  OBVIOUS
<1> HIDE DEF blocks
<1> DEFINE Text == [i \in Nat |-> Block(i)]
<1>6. IsForEach(blocks, fields, Text)
  BY <1>1, <1>5, ElementOfSeq, LenProperties DEF IsForEach
<1>7. \A i \in Nat : Text[i] = Block(i)
  OBVIOUS
<1>8. SaysField(Text, "receive", scope)
  <2> HIDE DEF Text
  <2> QED
    BY <1>4, <1>7 DEF SaysField
<1> HIDE DEF Text
<1>9. /\ Confined(FlattenSeq(blocks), scope, {"receive"})
      /\ NamesOf(FlattenSeq(blocks), "receive", scope) = FieldNames(fields)
  BY <1>1, <1>6, <1>8, ForEachField
<1>10. Quiet(head)
  BY MutableQuiet, Vocabulary
<1> HIDE DEF head
<1> DEFINE text == FlattenSeq(blocks)
<1>11. /\ Confined(text, scope, {"receive"})
       /\ NamesOf(text, "receive", scope) = FieldNames(fields)
  BY <1>9
<1> HIDE DEF text
<1>12. /\ Confined(head \o text, scope, {"receive"})
       /\ NamesOf(head \o text, "receive", scope) = FieldNames(fields)
  BY <1>10, <1>11, JoinQuiet, Vocabulary
<1>13. FieldNames(<<>>) = <<>>
  BY DEF FieldNames
<1>14. CASE fields = <<>>
  BY <1>2, <1>14, <1>13, NothingSaid DEF fields
<1>15. CASE fields # <<>>
  BY <1>2, <1>12, <1>15 DEF fields, text
<1> QED
  BY <1>14, <1>15

\* generateReceiveExternalBlock receives the external fields in their order.
LEMMA ReceiveExternal ==
  ASSUME NEW type \in Messages, NEW variable \in Words, NEW scope \in Seq(Nat)
  PROVE  /\ Confined(ReceiveExternalBlock(variable, type, scope), scope, {"receive"})
         /\ NamesOf(ReceiveExternalBlock(variable, type, scope), "receive", scope)
              = FieldNames(FieldsOf(type, "external"))
<1> DEFINE fields == FieldsOf(type, "external")
           Block(i) == <<Use("tmp", scope),
                          Own("declare", "data", i, scope),
                          Item("receive", <<i>>, scope),
                          Own("declare", "obj", i, scope),
                          Own("declare", "allocated", i, scope),
                          Own("declare", "deserializer", i, scope),
                          Own("use", "obj", i, scope),
                          Own("use", "deserializer", i, scope),
                          Own("use", "data", i, scope),
                          Own("use", "allocated", i, scope)>>
           blocks == [k \in DOMAIN fields |-> Block(fields[k])]
<1>1. fields \in Seq(Nat)
  BY FieldsTyped
<1> DEFINE head == MutableMessage(variable, "mutableRequest", scope)
<1>2. ReceiveExternalBlock(variable, type, scope)
        = IF fields = <<>> THEN <<>> ELSE head \o FlattenSeq(blocks)
  BY DEF ReceiveExternalBlock, ForFields
<1>3. <<"tmp">> \in NameSet
  BY OneWord, Vocabulary
<1>4. ASSUME NEW i \in Nat
      PROVE  /\ Block(i) \in Seq(AllItems)
             /\ Confined(Block(i), scope, {"receive"})
             /\ NamesOf(Block(i), "receive", scope) = <<<<i>>>>
  <2> DEFINE v1 == Use("tmp", scope)
             v2 == Own("declare", "data", i, scope)
             v3 == Item("receive", <<i>>, scope)
             v4 == Own("declare", "obj", i, scope)
             v5 == Own("declare", "allocated", i, scope)
             v6 == Own("declare", "deserializer", i, scope)
             v7 == Own("use", "obj", i, scope)
             v8 == Own("use", "deserializer", i, scope)
             v9 == Own("use", "data", i, scope)
             v10 == Own("use", "allocated", i, scope)
             block == <<v1, v2, v3, v4, v5, v6, v7, v8, v9, v10>>
  <2>1. <<i>> \in NameSet
    BY DEF NameSet
  <2>2. v1 \in AllItems /\ v1.op \in Plain
    BY <1>3, ItemTyped, Vocabulary DEF Use
  <2>3. v2 \in AllItems /\ v2.op \in Plain
    BY OwnTyped, Vocabulary
  <2>4. v3 \in AllItems /\ v3.op = "receive" /\ v3.scope = scope /\ v3.name = <<i>>
    BY <2>1, ItemTyped, Vocabulary
  <2>5. v4 \in AllItems /\ v4.op \in Plain
    BY OwnTyped, Vocabulary
  <2>6. v5 \in AllItems /\ v5.op \in Plain
    BY OwnTyped, Vocabulary
  <2>7. v6 \in AllItems /\ v6.op \in Plain
    BY OwnTyped, Vocabulary
  <2>8. v7 \in AllItems /\ v7.op \in Plain
    BY OwnTyped, Vocabulary
  <2>9. v8 \in AllItems /\ v8.op \in Plain
    BY OwnTyped, Vocabulary
  <2>10. v9 \in AllItems /\ v9.op \in Plain
    BY OwnTyped, Vocabulary
  <2>11. v10 \in AllItems /\ v10.op \in Plain
    BY OwnTyped, Vocabulary
  <2> HIDE DEF v1, v2, v3, v4, v5, v6, v7, v8, v9, v10
  <2>12. /\ block \in Seq(AllItems) /\ 3 \in 1 .. Len(block) /\ block[3] = v3
         /\ \A k \in 1 .. Len(block) : k # 3 => block[k].op \in Plain
    BY <2>2, <2>3, <2>4, <2>5, <2>6, <2>7, <2>8, <2>9, <2>10, <2>11
  <2> HIDE DEF block
  <2>13. Confined(block, scope, {"receive"}) /\ NamesOf(block, "receive", scope) = <<block[3].name>>
    BY <2>4, <2>12, BlockSays, Vocabulary
  <2> QED
    BY <2>4, <2>12, <2>13 DEF block, v1, v2, v3, v4, v5, v6, v7, v8, v9, v10
<1> HIDE DEF fields, Block
<1>5. blocks = [k \in DOMAIN fields |-> Block(fields[k])]
  OBVIOUS
<1> HIDE DEF blocks
<1> DEFINE Text == [i \in Nat |-> Block(i)]
<1>6. IsForEach(blocks, fields, Text)
  BY <1>1, <1>5, ElementOfSeq, LenProperties DEF IsForEach
<1>7. \A i \in Nat : Text[i] = Block(i)
  OBVIOUS
<1>8. SaysField(Text, "receive", scope)
  <2> HIDE DEF Text
  <2> QED
    BY <1>4, <1>7 DEF SaysField
<1> HIDE DEF Text
<1>9. /\ Confined(FlattenSeq(blocks), scope, {"receive"})
      /\ NamesOf(FlattenSeq(blocks), "receive", scope) = FieldNames(fields)
  BY <1>1, <1>6, <1>8, ForEachField
<1>10. Quiet(head)
  BY MutableQuiet, Vocabulary
<1> HIDE DEF head
<1> DEFINE text == FlattenSeq(blocks)
<1>11. /\ Confined(text, scope, {"receive"})
       /\ NamesOf(text, "receive", scope) = FieldNames(fields)
  BY <1>9
<1> HIDE DEF text
<1>12. /\ Confined(head \o text, scope, {"receive"})
       /\ NamesOf(head \o text, "receive", scope) = FieldNames(fields)
  BY <1>10, <1>11, JoinQuiet, Vocabulary
<1>13. FieldNames(<<>>) = <<>>
  BY DEF FieldNames
<1>14. CASE fields = <<>>
  BY <1>2, <1>14, <1>13, NothingSaid DEF fields
<1>15. CASE fields # <<>>
  BY <1>2, <1>12, <1>15 DEF fields, text
<1> QED
  BY <1>14, <1>15

-----------------------------------------------------------------------------
(* What is written for a method.                                               *)

MethodType == [input : Messages, output : Messages]

\* Confined text that says these names.
Says(items, scope, ops, op, names) ==
  Confined(items, scope, ops) /\ NamesOf(items, op, scope) = names

\* Text that says no names of a kind.
Apart(items, scope, ops, op) == Confined(items, scope, ops) /\ NamesOf(items, op, scope) = <<>>

\* Two texts say their names one after the other,
LEMMA SaysBoth ==
  ASSUME NEW a, NEW b, NEW scope, NEW ops, NEW op, NEW x, NEW y,
         Says(a, scope, ops, op, x), Says(b, scope, ops, op, y)
  PROVE  Says(a \o b, scope, ops, op, x \o y)
<1>1. a \in Seq(AllItems) /\ b \in Seq(AllItems)
  BY DEF Says, Confined
<1>2. NamesOf(a \o b, op, scope) = NamesOf(a, op, scope) \o NamesOf(b, op, scope)
  BY <1>1, NamesConcat
<1>3. Confined(a \o b, scope, ops)
  BY ConfinedConcat DEF Says
<1> QED
  BY <1>2, <1>3 DEF Says

\* and text that is apart adds none after
LEMMA SaysBefore ==
  ASSUME NEW a, NEW b, NEW scope, NEW ops, NEW op, NEW x,
         Says(a, scope, ops, op, x), Apart(b, scope, ops, op)
  PROVE  Says(a \o b, scope, ops, op, x)
<1>1. Says(b, scope, ops, op, <<>>)
  BY DEF Says, Apart
<1>2. Says(a \o b, scope, ops, op, x \o <<>>)
  BY <1>1, SaysBoth
<1>3. x \in Seq(NameSet)
  BY SaidTyped DEF Says, Confined
<1>4. x \o <<>> = x
  BY <1>3, ConcatEmptySeq
<1> QED
  BY <1>2, <1>4

\* or before.
LEMMA SaysAfter ==
  ASSUME NEW a, NEW b, NEW scope, NEW ops, NEW op, NEW x,
         Apart(a, scope, ops, op), Says(b, scope, ops, op, x)
  PROVE  Says(a \o b, scope, ops, op, x)
<1>1. Says(a, scope, ops, op, <<>>)
  BY DEF Says, Apart
<1>2. Says(a \o b, scope, ops, op, <<>> \o x)
  BY <1>1, SaysBoth
<1>3. x \in Seq(NameSet)
  BY SaidTyped DEF Says, Confined
<1>4. <<>> \o x = x
  BY <1>3, ConcatEmptySeq
<1> QED
  BY <1>2, <1>4

\* Two texts that are apart are apart together.
LEMMA ApartBoth ==
  ASSUME NEW a, NEW b, NEW scope, NEW ops, NEW op,
         Apart(a, scope, ops, op), Apart(b, scope, ops, op)
  PROVE  Apart(a \o b, scope, ops, op)
<1>1. Says(b, scope, ops, op, <<>>)
  BY DEF Says, Apart
<1>2. Says(a \o b, scope, ops, op, <<>>)
  BY <1>1, SaysAfter
<1> QED
  BY <1>2 DEF Says, Apart

\* Text of other kinds is apart.
LEMMA OthersApart ==
  ASSUME NEW items, NEW scope, NEW few, Confined(items, scope, few),
         NEW ops, few \subseteq ops, NEW op, op \notin few, op \notin Plain
  PROVE  Apart(items, scope, ops, op)
<1>1. NamesOf(items, op, scope) = <<>>
  BY NoNames
<1> QED
  BY <1>1 DEF Apart, Confined

\* Text that says names may be put beside other kinds.
LEMMA MoreOps ==
  ASSUME NEW items, NEW scope, NEW few, NEW ops, few \subseteq ops, NEW op, NEW x,
         Says(items, scope, few, op, x)
  PROVE  Says(items, scope, ops, op, x)
BY DEF Says, Confined

\* Quiet text is apart from every kind.
LEMMA QuietApart ==
  ASSUME NEW items, Quiet(items), NEW scope, NEW ops, NEW op, op \notin Plain
  PROVE  Apart(items, scope, ops, op)
<1>1. Confined(items, scope, {})
  BY QuietConfined
<1>2. {} \subseteq ops /\ op \notin {}
  OBVIOUS
<1> QED
  BY <1>1, <1>2, OthersApart

\* Declarations and uses.
IsPlain(item) == item \in AllItems /\ item.op \in Plain

\* What Declare and Use give.
LEMMA PlainItems ==
  ASSUME NEW scope \in Seq(Nat), NEW word \in Words
  PROVE  IsPlain(Declare(word, scope)) /\ IsPlain(Use(word, scope))
<1>1. <<word>> \in NameSet
  BY OneWord
<1>2. IsPlain(Declare(word, scope))
  BY <1>1, ItemTyped, Vocabulary DEF IsPlain, Declare
<1>3. IsPlain(Use(word, scope))
  BY <1>1, ItemTyped, Vocabulary DEF IsPlain, Use
<1> QED
  BY <1>2, <1>3

\* Short lists of them are quiet.
LEMMA PlainQuiet ==
  ASSUME NEW a, IsPlain(a), NEW b, IsPlain(b), NEW c, IsPlain(c), NEW d, IsPlain(d)
  PROVE  Quiet(<<a>>) /\ Quiet(<<a, b>>) /\ Quiet(<<a, b, c>>) /\ Quiet(<<a, b, c, d>>)
<1>1. Quiet(<<a>>)
  BY DEF Quiet, IsPlain
<1>2. Quiet(<<a, b>>)
  BY DEF Quiet, IsPlain
<1>3. Quiet(<<a, b, c>>)
  BY DEF Quiet, IsPlain
<1>4. Quiet(<<a, b, c, d>>)
  BY DEF Quiet, IsPlain
<1> QED
  BY <1>1, <1>2, <1>3, <1>4

\* One item.
LEMMA ItemSays ==
  ASSUME NEW op \in Ops, op \notin Plain, NEW name \in NameSet, NEW scope \in Seq(Nat)
  PROVE  Says(<<Item(op, name, scope)>>, scope, {op}, op, <<name>>)
<1> DEFINE a == Item(op, name, scope)
           block == <<a>>
<1>1. a \in AllItems /\ a.op = op /\ a.name = name /\ a.scope = scope
  BY ItemTyped
<1> HIDE DEF a
<1>2. block \in Seq(AllItems) /\ 1 \in 1 .. Len(block) /\ block[1] = a
      /\ \A k \in 1 .. Len(block) : k # 1 => block[k].op \in Plain
  BY <1>1
<1> HIDE DEF block
<1>3. Confined(block, scope, {op}) /\ NamesOf(block, op, scope) = <<block[1].name>>
  BY <1>1, <1>2, BlockSays
<1> QED
  BY <1>1, <1>2, <1>3 DEF Says, block, a

\* The names of a list.
LEMMA ListQuiet ==
  ASSUME NEW op \in Plain, NEW names \in Seq(Words), NEW scope \in Seq(Nat)
  PROVE  Quiet(Items(op, names, scope))
<1>1. op \in Ops
  BY DEF Plain, Ops
<1> QED
  BY <1>1, ItemsNames

\* A list of another kind says its names.
LEMMA ListSays ==
  ASSUME NEW op \in Ops, NEW names \in Seq(Words), NEW scope \in Seq(Nat)
  PROVE  Says(Items(op, names, scope), scope, {op}, op, FieldNames(names))
BY ItemsNames DEF Says, FieldNames

\* The arguments of a call that dispatch() makes.
Arguments(m) ==
  (IF m.input.void THEN <<>> ELSE <<"in">>)
    \o (IF m.output.void THEN <<>> ELSE <<"out">>) \o <<"done">>

\* Parameters and arguments are names.
LEMMA ArgumentWords ==
  ASSUME NEW m
  PROVE  MethodSignature(m) \in Seq(Words) /\ Arguments(m) \in Seq(Words)
<1>1. /\ <<>> \in Seq(Words) /\ <<"input">> \in Seq(Words) /\ <<"output">> \in Seq(Words)
      /\ <<"in">> \in Seq(Words) /\ <<"out">> \in Seq(Words) /\ <<"done">> \in Seq(Words)
  <2>1. /\ "input" \in Words /\ "output" \in Words /\ "in" \in Words /\ "out" \in Words
        /\ "done" \in Words
    BY DEF Words
  <2> QED
    BY <2>1
<1> DEFINE a == IF m.input.void THEN <<>> ELSE <<"input">>
           b == IF m.output.void THEN <<>> ELSE <<"output">>
           c == IF m.input.void THEN <<>> ELSE <<"in">>
           d == IF m.output.void THEN <<>> ELSE <<"out">>
           e == <<"done">>
<1>2. /\ a \in Seq(Words) /\ b \in Seq(Words) /\ c \in Seq(Words) /\ d \in Seq(Words)
      /\ e \in Seq(Words)
  BY <1>1
<1>3. MethodSignature(m) = a \o b \o e /\ Arguments(m) = c \o d \o e
  BY DEF MethodSignature, Arguments
<1> HIDE DEF a, b, c, d, e
<1>4. a \o b \in Seq(Words) /\ c \o d \in Seq(Words)
  BY <1>2, ConcatProperties
<1>5. a \o b \o e \in Seq(Words) /\ c \o d \o e \in Seq(Words)
  BY <1>2, <1>4, ConcatProperties
<1> QED
  BY <1>3, <1>5

\* A sequence with one more element.
LEMMA AppendIs ==
  ASSUME NEW S, NEW x \in Seq(S), NEW c \in S, NEW y \in Seq(S), Len(y) = Len(x) + 1,
         y[Len(x) + 1] = c, \A k \in 1 .. Len(x) : y[k] = x[k]
  PROVE  x \o <<c>> = y
<1>1. /\ Append(x, c) \in Seq(S) /\ Len(Append(x, c)) = Len(x) + 1 /\ Len(x) \in Nat
      /\ Append(x, c)[Len(x) + 1] = c
      /\ \A k \in 1 .. Len(x) : Append(x, c)[k] = x[k]
  BY AppendProperties, LenProperties
<1>2. \A k \in 1 .. Len(x) + 1 : Append(x, c)[k] = y[k]
  <2> SUFFICES ASSUME NEW k \in 1 .. Len(x) + 1 PROVE Append(x, c)[k] = y[k]
    OBVIOUS
  <2>1. k \in 1 .. Len(x) \/ k = Len(x) + 1
    BY <1>1
  <2> QED
    BY <1>1, <2>1
<1>3. Append(x, c) = y
  BY <1>1, <1>2, SeqEqual
<1> QED
  BY <1>3, AppendIsConcat

\* Short sequences joined.
LEMMA Literals ==
  ASSUME NEW S, NEW a \in S, NEW b \in S, NEW c \in S
  PROVE  /\ <<>> \o <<a>> = <<a>> /\ <<a>> \o <<>> = <<a>>
         /\ <<a>> \o <<b>> = <<a, b>> /\ <<a, b>> \o <<c>> = <<a, b, c>>
<1> DEFINE x == <<a>>
           y == <<a, b>>
           z == <<a, b, c>>
<1>1. /\ x \in Seq(S) /\ Len(x) = 1 /\ x[1] = a
      /\ y \in Seq(S) /\ Len(y) = 2 /\ y[1] = a /\ y[2] = b
      /\ z \in Seq(S) /\ Len(z) = 3 /\ z[1] = a /\ z[2] = b /\ z[3] = c
  OBVIOUS
<1> HIDE DEF x, y, z
<1>2. <<>> \o x = x /\ x \o <<>> = x
  BY <1>1, ConcatEmptySeq
<1>3. x \o <<b>> = y
  <2>1. \A k \in 1 .. 1 : y[k] = x[k]
    BY <1>1
  <2>2. /\ Len(y) = Len(x) + 1 /\ y[Len(x) + 1] = b
        /\ \A k \in 1 .. Len(x) : y[k] = x[k]
    BY <1>1, <2>1
  <2>3. x \in Seq(S) /\ y \in Seq(S)
    BY <1>1
  <2> QED
    BY <2>2, <2>3, AppendIs
<1>4. y \o <<c>> = z
  <2>1. \A k \in 1 .. 2 : z[k] = y[k]
    <3> SUFFICES ASSUME NEW k \in 1 .. 2 PROVE z[k] = y[k]
      OBVIOUS
    <3>1. k = 1 \/ k = 2
      OBVIOUS
    <3> QED
      BY <1>1, <3>1
  <2>2. /\ Len(z) = Len(y) + 1 /\ z[Len(y) + 1] = c
        /\ \A k \in 1 .. Len(y) : z[k] = y[k]
    BY <1>1, <2>1
  <2>3. y \in Seq(S) /\ z \in Seq(S)
    BY <1>1
  <2> QED
    BY <2>2, <2>3, AppendIs
<1> QED
  BY <1>2, <1>3, <1>4 DEF x, y, z

\* An argument for each parameter.
LEMMA ArgumentsFitSignature ==
  ASSUME NEW m
  PROVE  [k \in DOMAIN FieldNames(Arguments(m)) |-> ParameterOf(FieldNames(Arguments(m))[k])]
           = FieldNames(MethodSignature(m))
<1> DEFINE Fit(args, sig) ==
             [k \in DOMAIN FieldNames(args) |-> ParameterOf(FieldNames(args)[k])]
               = FieldNames(sig)
<1>1. Fit(<<"done">>, <<"done">>)
  BY DEF FieldNames, ParameterOf
<1>2. Fit(<<"in", "done">>, <<"input", "done">>)
  BY DEF FieldNames, ParameterOf
<1>3. Fit(<<"out", "done">>, <<"output", "done">>)
  BY DEF FieldNames, ParameterOf
<1>4. Fit(<<"in", "out", "done">>, <<"input", "output", "done">>)
  BY DEF FieldNames, ParameterOf
<1> HIDE DEF Fit
<1>5. /\ "input" \in Words /\ "output" \in Words /\ "in" \in Words /\ "out" \in Words
      /\ "done" \in Words
  BY DEF Words
<1>6. CASE m.input.void /\ m.output.void
  <2>1. /\ Arguments(m) = <<>> \o <<>> \o <<"done">>
        /\ MethodSignature(m) = <<>> \o <<>> \o <<"done">>
    BY <1>6 DEF Arguments, MethodSignature
  <2>2. /\ <<>> \o <<>> \o <<"done">> = <<"done">>
        /\ <<>> \o <<>> \o <<"done">> = <<"done">>
    BY <1>5, Literals
  <2> QED
    BY <1>1, <2>1, <2>2 DEF Fit
<1>7. CASE ~m.input.void /\ m.output.void
  <2>1. /\ Arguments(m) = <<"in">> \o <<>> \o <<"done">>
        /\ MethodSignature(m) = <<"input">> \o <<>> \o <<"done">>
    BY <1>7 DEF Arguments, MethodSignature
  <2>2. /\ <<"in">> \o <<>> \o <<"done">> = <<"in", "done">>
        /\ <<"input">> \o <<>> \o <<"done">> = <<"input", "done">>
    BY <1>5, Literals
  <2> QED
    BY <1>2, <2>1, <2>2 DEF Fit
<1>8. CASE m.input.void /\ ~m.output.void
  <2>1. /\ Arguments(m) = <<>> \o <<"out">> \o <<"done">>
        /\ MethodSignature(m) = <<>> \o <<"output">> \o <<"done">>
    BY <1>8 DEF Arguments, MethodSignature
  <2>2. /\ <<>> \o <<"out">> \o <<"done">> = <<"out", "done">>
        /\ <<>> \o <<"output">> \o <<"done">> = <<"output", "done">>
    BY <1>5, Literals
  <2> QED
    BY <1>3, <2>1, <2>2 DEF Fit
<1>9. CASE ~m.input.void /\ ~m.output.void
  <2>1. /\ Arguments(m) = <<"in">> \o <<"out">> \o <<"done">>
        /\ MethodSignature(m) = <<"input">> \o <<"output">> \o <<"done">>
    BY <1>9 DEF Arguments, MethodSignature
  <2>2. <<"in">> \o <<"out">> \o <<"done">> = <<"in", "out", "done">>
    BY <1>5, Literals
  <2>3. <<"input">> \o <<"output">> \o <<"done">> = <<"input", "output", "done">>
    BY <1>5, Literals
  <2> QED
    BY <1>4, <2>1, <2>2, <2>3 DEF Fit
<1> QED
  BY <1>6, <1>7, <1>8, <1>9

\* The names of the variables of methods and cases.
LEMMA MoreWords ==
  /\ "input" \in Words /\ "output" \in Words /\ "done" \in Words /\ "id" \in Words
  /\ "handler" \in Words /\ "ext" \in Words /\ "msg" \in Words /\ "request" \in Words
  /\ "response" \in Words /\ "requestId" \in Words /\ "responseType" \in Words
  /\ "mutableResponse" \in Words /\ "in" \in Words /\ "out" \in Words /\ "info" \in Words
  /\ "methodId" \in Words /\ "requestMessageEnvelope" \in Words /\ "replyChannel" \in Words
  /\ "channel" \in Words /\ "incomingResponse" \in Words /\ "targetResponse" \in Words
  /\ "errorCode" \in Words /\ "errorString" \in Words /\ "callback" \in Words
BY DEF Words

\* The number of a method is a scope and a name.
LEMMA MethodScope ==
  ASSUME NEW j \in Nat
  PROVE  <<j>> \in Seq(Nat) /\ <<j>> \in NameSet
<1> DEFINE T == Words \cup Nat
<1>1. j \in T
  OBVIOUS
<1> HIDE DEF T
<1>2. <<j>> \in Seq(T)
  BY <1>1
<1> QED
  BY <1>2 DEF NameSet, T

\* The objects of a message, in the order in which they are sent.
Objects(type) == FieldNames(FieldsOf(type, "vtk")) \o FieldNames(FieldsOf(type, "external"))

\* The two blocks that send say the objects of the message,
LEMMA SentObjects ==
  ASSUME NEW type \in Messages, NEW variable \in NameSet, NEW scope \in Seq(Nat),
         NEW a, NEW ops, "send" \in ops, Apart(a, scope, ops, "send")
  PROVE  Says(a \o SentVtkBlock(variable, type, scope)
                \o SentExternalBlock(variable, type, scope), scope, ops, "send", Objects(type))
<1> DEFINE vtk == SentVtkBlock(variable, type, scope)
           external == SentExternalBlock(variable, type, scope)
           x == FieldNames(FieldsOf(type, "vtk"))
           y == FieldNames(FieldsOf(type, "external"))
<1>1. Says(vtk, scope, {"send"}, "send", x)
  BY SentVtk DEF Says
<1>2. Says(external, scope, {"send"}, "send", y)
  BY SentExternal DEF Says
<1> HIDE DEF vtk, external, x, y
<1>3. {"send"} \subseteq ops
  OBVIOUS
<1>4. Says(vtk, scope, ops, "send", x)
  BY <1>1, <1>3, MoreOps
<1>5. Says(external, scope, ops, "send", y)
  BY <1>2, <1>3, MoreOps
<1>6. Says(a \o vtk, scope, ops, "send", x)
  BY <1>4, SaysAfter
<1>7. Says(a \o vtk \o external, scope, ops, "send", x \o y)
  BY <1>5, <1>6, SaysBoth
<1> QED
  BY <1>7 DEF Objects, x, y, vtk, external

\* and nothing of other kinds.
LEMMA SentApart ==
  ASSUME NEW type \in Messages, NEW variable \in NameSet, NEW scope \in Seq(Nat),
         NEW a, NEW ops, "send" \in ops, NEW op, op # "send", op \notin Plain, NEW x,
         Says(a, scope, ops, op, x)
  PROVE  Says(a \o SentVtkBlock(variable, type, scope)
                \o SentExternalBlock(variable, type, scope), scope, ops, op, x)
<1> DEFINE vtk == SentVtkBlock(variable, type, scope)
           external == SentExternalBlock(variable, type, scope)
<1>1. Confined(vtk, scope, {"send"}) /\ Confined(external, scope, {"send"})
  BY SentVtk, SentExternal
<1> HIDE DEF vtk, external
<1>2. {"send"} \subseteq ops /\ op \notin {"send"}
  OBVIOUS
<1>3. Apart(vtk, scope, ops, op) /\ Apart(external, scope, ops, op)
  BY <1>1, <1>2, OthersApart
<1>4. Says(a \o vtk, scope, ops, op, x)
  BY <1>3, SaysBefore
<1>5. Says(a \o vtk \o external, scope, ops, op, x)
  BY <1>3, <1>4, SaysBefore
<1> QED
  BY <1>5 DEF vtk, external

\* A method of the proxy registers a handler if it has an answer to wait for,
\* and sends the objects of its input.
LEMMA ProxyText ==
  ASSUME NEW m \in MethodType, NEW j \in Nat
  PROVE  /\ Says(ProxyMethod(m, j), <<j>>, {"register", "send"}, "register",
                 IF m.input.void /\ m.output.void THEN <<>> ELSE <<<<j>>>>)
         /\ Says(ProxyMethod(m, j), <<j>>, {"register", "send"}, "send", Objects(m.input))
<1> DEFINE s == <<j>>
           ops == {"register", "send"}
           registers == IF m.input.void /\ m.output.void THEN <<>> ELSE <<<<j>>>>
           p1 == Items("declare", MethodSignature(m), s)
           p2 == <<Declare("msg", s), Declare("request", s), Use("msg", s)>>
           handler == <<Declare("id", s), Declare("handler", s), Item("register", <<j>>, s)>>
           uses == Items("use", <<"id", "output", "handler", "done">>, s)
           p3 == IF m.input.void /\ m.output.void THEN <<>> ELSE handler \o uses
           p4 == <<Declare("ext", s), Use("request", s)>>
           p5 == IF m.input.void THEN <<>> ELSE Items("use", <<"ext", "input">>, s)
           p6 == <<Use("msg", s)>>
           input == m.input
           variable == <<"input">>
<1>1. ProxyMethod(m, j) = p1 \o p2 \o p3 \o p4 \o p5 \o p6
                            \o SentVtkBlock(variable, input, s)
                            \o SentExternalBlock(variable, input, s)
  BY DEF ProxyMethod
<1>2. s \in Seq(Nat) /\ s \in NameSet /\ variable \in NameSet /\ input \in Messages
  BY MethodScope, OneWord, MoreWords DEF MethodType
<1> HIDE DEF s, input, variable
<1>3. /\ \A w \in Words : IsPlain(Declare(w, s)) /\ IsPlain(Use(w, s))
  BY <1>2, PlainItems
<1>4. Quiet(p2) /\ Quiet(p4) /\ Quiet(p6)
  BY <1>3, PlainQuiet, MoreWords
<1>5. /\ <<"id", "output", "handler", "done">> \in Seq(Words)
      /\ <<"ext", "input">> \in Seq(Words) /\ MethodSignature(m) \in Seq(Words)
  BY MoreWords, ArgumentWords
<1>6. Quiet(p1) /\ Quiet(p5) /\ Quiet(uses)
  <2>1. Quiet(p1)
    BY <1>2, <1>5, ListQuiet, Vocabulary
  <2>2. Quiet(uses)
    BY <1>2, <1>5, ListQuiet, Vocabulary
  <2>3. Quiet(Items("use", <<"ext", "input">>, s))
    BY <1>2, <1>5, ListQuiet, Vocabulary
  <2> QED
    BY <2>1, <2>2, <2>3, NothingSaid
<1>7. Says(p3, s, {"register"}, "register", registers)
  <2> DEFINE a == Declare("id", s)
             b == Declare("handler", s)
             c == Item("register", <<j>>, s)
  <2>1. IsPlain(a) /\ IsPlain(b)
    BY <1>3, MoreWords
  <2>2. c \in AllItems /\ c.op = "register" /\ c.scope = s /\ c.name = <<j>>
    BY <1>2, MethodScope, ItemTyped, Vocabulary
  <2>3. handler = <<a, b, c>>
    OBVIOUS
  <2> HIDE DEF a, b, c, handler
  <2>4. /\ handler \in Seq(AllItems) /\ 3 \in 1 .. Len(handler) /\ handler[3] = c
        /\ \A k \in 1 .. Len(handler) : k # 3 => handler[k].op \in Plain
    BY <2>1, <2>2, <2>3 DEF IsPlain
  <2>5. /\ Confined(handler, s, {"register"})
        /\ NamesOf(handler, "register", s) = <<handler[3].name>>
    BY <2>2, <2>4, BlockSays, Vocabulary
  <2>6. Says(handler, s, {"register"}, "register", <<<<j>>>>)
    BY <2>2, <2>4, <2>5 DEF Says
  <2>7. Apart(uses, s, {"register"}, "register")
    BY <1>6, QuietApart, Vocabulary
  <2> HIDE DEF uses
  <2>8. Says(handler \o uses, s, {"register"}, "register", <<<<j>>>>)
    BY <2>6, <2>7, SaysBefore
  <2>9. Says(<<>>, s, {"register"}, "register", <<>>)
    BY NothingSaid DEF Says
  <2> QED
    BY <2>8, <2>9
<1> HIDE DEF p1, p2, p3, p4, p5, p6, registers
<1>8. ASSUME NEW op \in {"register", "send"}
      PROVE  /\ Apart(p1, s, ops, op) /\ Apart(p2, s, ops, op) /\ Apart(p4, s, ops, op)
             /\ Apart(p5, s, ops, op) /\ Apart(p6, s, ops, op)
  BY <1>4, <1>6, QuietApart, Vocabulary
<1>9. Says(p1 \o p2 \o p3 \o p4 \o p5 \o p6, s, ops, "register", registers)
  <2>1. Says(p3, s, ops, "register", registers)
    BY <1>7, MoreOps
  <2> HIDE DEF ops
  <2>2. Apart(p1 \o p2, s, ops, "register")
    BY <1>8, ApartBoth
  <2>3. Says(p1 \o p2 \o p3, s, ops, "register", registers)
    BY <2>1, <2>2, SaysAfter
  <2> QED
    BY <1>8, <2>3, SaysBefore
<1>10. Apart(p1 \o p2 \o p3 \o p4 \o p5 \o p6, s, ops, "send")
  <2>1. Apart(p3, s, ops, "send")
    <3>1. {"register"} \subseteq ops /\ "send" \notin {"register"} /\ Confined(p3, s, {"register"})
      BY <1>7 DEF Says
    <3> QED
      BY <3>1, OthersApart, Vocabulary
  <2> HIDE DEF ops
  <2> QED
    BY <1>8, <2>1, ApartBoth
<1> DEFINE text == p1 \o p2 \o p3 \o p4 \o p5 \o p6
<1>11. Says(text, s, ops, "register", registers) /\ Apart(text, s, ops, "send")
  BY <1>9, <1>10
<1> HIDE DEF text
<1>12. /\ Says(text \o SentVtkBlock(variable, input, s) \o SentExternalBlock(variable, input, s),
               s, ops, "register", registers)
       /\ Says(text \o SentVtkBlock(variable, input, s) \o SentExternalBlock(variable, input, s),
               s, ops, "send", Objects(input))
  BY <1>2, <1>11, SentObjects, SentApart, Vocabulary
<1> QED
  BY <1>1, <1>12 DEF text, s, input, variable, registers

\* The two blocks that receive say the objects of the message,
LEMMA ReceivedObjects ==
  ASSUME NEW type \in Messages, NEW variable \in Words, NEW scope \in Seq(Nat),
         NEW a, NEW ops, "receive" \in ops, Apart(a, scope, ops, "receive")
  PROVE  Says(a \o ReceiveVtkBlock(variable, type, scope)
                \o ReceiveExternalBlock(variable, type, scope), scope, ops, "receive",
              Objects(type))
<1> DEFINE vtk == ReceiveVtkBlock(variable, type, scope)
           external == ReceiveExternalBlock(variable, type, scope)
           x == FieldNames(FieldsOf(type, "vtk"))
           y == FieldNames(FieldsOf(type, "external"))
<1>1. Says(vtk, scope, {"receive"}, "receive", x)
  BY ReceiveVtk DEF Says
<1>2. Says(external, scope, {"receive"}, "receive", y)
  BY ReceiveExternal DEF Says
<1> HIDE DEF vtk, external, x, y
<1>3. {"receive"} \subseteq ops
  OBVIOUS
<1>4. Says(vtk, scope, ops, "receive", x)
  BY <1>1, <1>3, MoreOps
<1>5. Says(external, scope, ops, "receive", y)
  BY <1>2, <1>3, MoreOps
<1>6. Says(a \o vtk, scope, ops, "receive", x)
  BY <1>4, SaysAfter
<1>7. Says(a \o vtk \o external, scope, ops, "receive", x \o y)
  BY <1>5, <1>6, SaysBoth
<1> QED
  BY <1>7 DEF Objects, x, y, vtk, external

\* and nothing of other kinds.
LEMMA ReceivedApart ==
  ASSUME NEW type \in Messages, NEW variable \in Words, NEW scope \in Seq(Nat),
         NEW a, NEW ops, "receive" \in ops, NEW op, op # "receive", op \notin Plain, NEW x,
         Says(a, scope, ops, op, x)
  PROVE  Says(a \o ReceiveVtkBlock(variable, type, scope)
                \o ReceiveExternalBlock(variable, type, scope), scope, ops, op, x)
<1> DEFINE vtk == ReceiveVtkBlock(variable, type, scope)
           external == ReceiveExternalBlock(variable, type, scope)
<1>1. Confined(vtk, scope, {"receive"}) /\ Confined(external, scope, {"receive"})
  BY ReceiveVtk, ReceiveExternal
<1> HIDE DEF vtk, external
<1>2. {"receive"} \subseteq ops /\ op \notin {"receive"}
  OBVIOUS
<1>3. Apart(vtk, scope, ops, op) /\ Apart(external, scope, ops, op)
  BY <1>1, <1>2, OthersApart
<1>4. Says(a \o vtk, scope, ops, op, x)
  BY <1>3, SaysBefore
<1>5. Says(a \o vtk \o external, scope, ops, op, x)
  BY <1>3, <1>4, SaysBefore
<1> QED
  BY <1>5 DEF vtk, external

\* Void has no objects.
LEMMA VoidObjects ==
  ASSUME NEW type \in Messages, type.void
  PROVE  Objects(type) = <<>>
<1>1. FieldsOf(type, "vtk") = <<>> /\ FieldsOf(type, "external") = <<>>
  BY FieldsTyped
<1>2. FieldNames(<<>>) = <<>>
  BY DEF FieldNames
<1>3. <<>> \o <<>> = <<>>
  BY EmptySeq, ConcatEmptySeq
<1> QED
  BY <1>1, <1>2, <1>3 DEF Objects

\* A case of handle() receives the objects of the output.
LEMMA HandlerText ==
  ASSUME NEW m \in MethodType, NEW j \in Nat
  PROVE  /\ Says(HandlerCase(m, j), <<j>>, {"case", "receive"}, "case",
                 IF m.output.void THEN <<>> ELSE <<<<j>>>>)
         /\ Says(HandlerCase(m, j), <<j>>, {"case", "receive"}, "receive", Objects(m.output))
<1> DEFINE s == <<j>>
           ops == {"case", "receive"}
           output == m.output
           variable == "targetResponse"
           p1 == <<Item("case", <<j>>, s)>>
           p2 == Items("use", <<"targetResponse", "incomingResponse">>, s)
           p3 == <<Declare("mutableResponse", s), Use("targetResponse", s),
                   Declare("responseType", s), Use("mutableResponse", s)>>
           p4 == Items("use", <<"responseType", "errorCode", "errorString">>, s)
           p5 == <<Use("callback", s)>>
           received == p1 \o p2 \o p3 \o p4 \o ReceiveVtkBlock(variable, output, s)
                         \o ReceiveExternalBlock(variable, output, s)
<1>1. HandlerCase(m, j) = IF output.void THEN <<>> ELSE received \o p5
  BY DEF HandlerCase
<1>2. s \in Seq(Nat) /\ s \in NameSet /\ variable \in Words /\ output \in Messages
  BY MethodScope, MoreWords DEF MethodType
<1>3. CASE output.void
  <2>1. Objects(output) = <<>>
    BY <1>2, <1>3, VoidObjects
  <2>2. Says(<<>>, s, ops, "case", <<>>) /\ Says(<<>>, s, ops, "receive", <<>>)
    BY NothingSaid DEF Says
  <2> QED
    BY <1>1, <1>3, <2>1, <2>2
<1>4. CASE ~output.void
  <2> HIDE DEF s, output, variable
  <2>1. \A w \in Words : IsPlain(Declare(w, s)) /\ IsPlain(Use(w, s))
    BY <1>2, PlainItems
  <2>2. Quiet(p3) /\ Quiet(p5)
    BY <2>1, PlainQuiet, MoreWords
  <2>3. /\ <<"targetResponse", "incomingResponse">> \in Seq(Words)
        /\ <<"responseType", "errorCode", "errorString">> \in Seq(Words)
    BY MoreWords
  <2>4. Quiet(p2)
    BY <1>2, <2>3, ListQuiet, Vocabulary
  <2>5. Quiet(p4)
    BY <1>2, <2>3, ListQuiet, Vocabulary
  <2>6. Says(p1, s, {"case"}, "case", <<s>>)
    BY <1>2, ItemSays, Vocabulary DEF s
  <2> HIDE DEF p1, p2, p3, p4, p5
  <2>7. ASSUME NEW op \in {"case", "receive"}
        PROVE  /\ Apart(p2, s, ops, op) /\ Apart(p3, s, ops, op) /\ Apart(p4, s, ops, op)
               /\ Apart(p5, s, ops, op)
    BY <2>2, <2>4, <2>5, QuietApart, Vocabulary
  <2>8. Says(p1, s, ops, "case", <<s>>)
    BY <2>6, MoreOps
  <2>9. Apart(p1, s, ops, "receive")
    <3>1. {"case"} \subseteq ops /\ "receive" \notin {"case"} /\ Confined(p1, s, {"case"})
      BY <2>6 DEF Says
    <3> QED
      BY <3>1, OthersApart, Vocabulary
  <2> DEFINE text == p1 \o p2 \o p3 \o p4
  <2>10. "receive" \in ops
    OBVIOUS
  <2> HIDE DEF ops
  <2>11. Says(text, s, ops, "case", <<s>>)
    BY <2>7, <2>8, SaysBefore
  <2>12. Apart(text, s, ops, "receive")
    BY <2>7, <2>9, ApartBoth
  <2> HIDE DEF text
  <2>13. Says(text \o ReceiveVtkBlock(variable, output, s)
                   \o ReceiveExternalBlock(variable, output, s), s, ops, "case", <<s>>)
    BY <1>2, <2>11, <2>10, ReceivedApart, Vocabulary
  <2>14. Says(text \o ReceiveVtkBlock(variable, output, s)
                   \o ReceiveExternalBlock(variable, output, s), s, ops, "receive",
              Objects(output))
    BY <1>2, <2>12, <2>10, ReceivedObjects
  <2>15. /\ Says(received, s, ops, "case", <<s>>)
         /\ Says(received, s, ops, "receive", Objects(output))
    BY <2>13, <2>14 DEF text
  <2> HIDE DEF received
  <2>16. /\ Says(received \o p5, s, ops, "case", <<s>>)
         /\ Says(received \o p5, s, ops, "receive", Objects(output))
    BY <2>7, <2>15, SaysBefore
  <2> QED
    BY <1>1, <1>4, <2>16 DEF s, ops, output
<1> QED
  BY <1>3, <1>4

\* A case of reply() sends the objects of the output.
LEMMA ReplyText ==
  ASSUME NEW m \in MethodType, NEW j \in Nat
  PROVE  /\ Says(ReplyCase(m, j), <<j>>, {"case", "send"}, "case",
                 IF m.output.void THEN <<>> ELSE <<<<j>>>>)
         /\ Says(ReplyCase(m, j), <<j>>, {"case", "send"}, "send", Objects(m.output))
<1> DEFINE s == <<j>>
           tmp == <<"tmp", j>>
           ops == {"case", "send"}
           output == m.output
           p1 == <<Item("case", <<j>>, s), Declare("msg", s), Use("msg", s),
                   Declare("response", s), Use("info", s), Declare("requestId", s)>>
           p2 == Items("use", <<"response", "requestId", "info">>, s)
           p3 == <<Item("declare", tmp, s), Item("use", tmp, s), Declare("request", s)>>
           p4 == Items("use", <<"request", "info", "msg">>, s)
           sent == p1 \o p2 \o p3 \o p4 \o SentVtkBlock(tmp, output, s)
                     \o SentExternalBlock(tmp, output, s)
<1>1. ReplyCase(m, j) = IF output.void THEN <<>> ELSE sent
  BY DEF ReplyCase
<1>2. s \in Seq(Nat) /\ s \in NameSet /\ output \in Messages
  BY MethodScope DEF MethodType
<1>3. tmp \in NameSet
  <2> DEFINE T == Words \cup Nat
  <2>1. "tmp" \in T /\ j \in T
    BY Vocabulary
  <2> HIDE DEF T
  <2> QED
    BY <2>1, PairTyped DEF NameSet, T
<1>4. CASE output.void
  <2>1. Objects(output) = <<>>
    BY <1>2, <1>4, VoidObjects
  <2>2. Says(<<>>, s, ops, "case", <<>>) /\ Says(<<>>, s, ops, "send", <<>>)
    BY NothingSaid DEF Says
  <2> QED
    BY <1>1, <1>4, <2>1, <2>2
<1>5. CASE ~output.void
  <2> HIDE DEF s, tmp, output
  <2>1. \A w \in Words : IsPlain(Declare(w, s)) /\ IsPlain(Use(w, s))
    BY <1>2, PlainItems
  <2>2. Quiet(p3)
    <3>1. IsPlain(Item("declare", tmp, s)) /\ IsPlain(Item("use", tmp, s))
      BY <1>2, <1>3, ItemTyped, Vocabulary DEF IsPlain
    <3> QED
      BY <2>1, <3>1, PlainQuiet, MoreWords
  <2>3. /\ <<"response", "requestId", "info">> \in Seq(Words)
        /\ <<"request", "info", "msg">> \in Seq(Words)
    BY MoreWords
  <2>4. Quiet(p2)
    BY <1>2, <2>3, ListQuiet, Vocabulary
  <2>5. Quiet(p4)
    BY <1>2, <2>3, ListQuiet, Vocabulary
  <2>6. Says(p1, s, {"case"}, "case", <<s>>)
    <3> DEFINE a == Item("case", <<j>>, s)
               b == Declare("msg", s)
               c == Use("msg", s)
               d == Declare("response", s)
               e == Use("info", s)
               f == Declare("requestId", s)
    <3>1. a \in AllItems /\ a.op = "case" /\ a.scope = s /\ a.name = <<j>>
      BY <1>2, MethodScope, ItemTyped, Vocabulary
    <3>2. a \in AllItems /\ a.op = "case" /\ a.scope = s /\ a.name = s
      BY <3>1 DEF s
    <3>3. IsPlain(b) /\ IsPlain(c) /\ IsPlain(d) /\ IsPlain(e) /\ IsPlain(f)
      BY <2>1, MoreWords
    <3>4. p1 = <<a, b, c, d, e, f>>
      OBVIOUS
    <3> HIDE DEF a, b, c, d, e, f, p1
    <3>5. /\ p1 \in Seq(AllItems) /\ 1 \in 1 .. Len(p1) /\ p1[1] = a
          /\ \A k \in 1 .. Len(p1) : k # 1 => p1[k].op \in Plain
      BY <3>2, <3>3, <3>4 DEF IsPlain
    <3>6. Confined(p1, s, {"case"}) /\ NamesOf(p1, "case", s) = <<p1[1].name>>
      BY <3>2, <3>5, BlockSays, Vocabulary
    <3> QED
      BY <3>2, <3>5, <3>6 DEF Says
  <2> HIDE DEF p1, p2, p3, p4
  <2>7. ASSUME NEW op \in {"case", "send"}
        PROVE  Apart(p2, s, ops, op) /\ Apart(p3, s, ops, op) /\ Apart(p4, s, ops, op)
    BY <2>2, <2>4, <2>5, QuietApart, Vocabulary
  <2>8. Says(p1, s, ops, "case", <<s>>)
    BY <2>6, MoreOps
  <2>9. Apart(p1, s, ops, "send")
    <3>1. {"case"} \subseteq ops /\ "send" \notin {"case"} /\ Confined(p1, s, {"case"})
      BY <2>6 DEF Says
    <3> QED
      BY <3>1, OthersApart, Vocabulary
  <2> DEFINE text == p1 \o p2 \o p3 \o p4
  <2>10. "send" \in ops
    OBVIOUS
  <2> HIDE DEF ops
  <2>11. Says(text, s, ops, "case", <<s>>)
    BY <2>7, <2>8, SaysBefore
  <2>12. Apart(text, s, ops, "send")
    BY <2>7, <2>9, ApartBoth
  <2> HIDE DEF text
  <2>13. Says(text \o SentVtkBlock(tmp, output, s) \o SentExternalBlock(tmp, output, s),
              s, ops, "case", <<s>>)
    BY <1>2, <1>3, <2>10, <2>11, SentApart, Vocabulary
  <2>14. Says(text \o SentVtkBlock(tmp, output, s) \o SentExternalBlock(tmp, output, s),
              s, ops, "send", Objects(output))
    BY <1>2, <1>3, <2>10, <2>12, SentObjects
  <2> QED
    BY <1>1, <1>5, <2>13, <2>14 DEF text, s, ops, output
<1> QED
  BY <1>4, <1>5

\* A case of dispatch() receives the objects of the input, and makes a closure
\* for an output.
LEMMA DispatchText ==
  ASSUME NEW m \in MethodType, NEW j \in Nat,
         NEW ops, ops = {"case", "receive", "closure", "argument"}
  PROVE  /\ Says(DispatchCase(m, j), <<j>>, ops, "case", <<<<j>>>>)
         /\ Says(DispatchCase(m, j), <<j>>, ops, "receive", Objects(m.input))
         /\ Says(DispatchCase(m, j), <<j>>, ops, "closure",
                 IF m.output.void THEN <<>> ELSE <<<<j>>>>)
         /\ Says(DispatchCase(m, j), <<j>>, ops, "argument", FieldNames(Arguments(m)))
<1> DEFINE s == <<j>>
           input == m.input
           variable == "request"
           arguments == Arguments(m)
           closures == IF m.output.void THEN <<>> ELSE <<<<j>>>>
           p1 == <<Item("case", <<j>>, s)>>
           message == <<Declare("in", s), Use("request", s)>>
           received == message \o ReceiveVtkBlock(variable, input, s)
                               \o ReceiveExternalBlock(variable, input, s)
           p2 == IF input.void THEN <<>> ELSE received
           outputs == <<Declare("out", s), Declare("info", s)>>
           uses == Items("use", <<"info", "requestMessageEnvelope", "out", "replyChannel">>, s)
           closure == <<Item("closure", <<j>>, s)>>
           p3 == IF m.output.void THEN <<>> ELSE outputs \o uses \o closure
           p4 == <<Declare("done", s)>>
           p5 == Items("use", arguments, s)
           p6 == Items("argument", arguments, s)
<1>1. DispatchCase(m, j) = p1 \o p2 \o p3 \o p4 \o p5 \o p6
  BY DEF DispatchCase, Arguments
<1>2. s \in Seq(Nat) /\ s \in NameSet /\ input \in Messages /\ variable \in Words
  BY MethodScope, MoreWords DEF MethodType
<1>3. /\ arguments \in Seq(Words)
      /\ <<"info", "requestMessageEnvelope", "out", "replyChannel">> \in Seq(Words)
  BY ArgumentWords, MoreWords
<1>4. <<<<j>>>> = <<s>>
  OBVIOUS
<1>5. Says(p1, s, {"case"}, "case", <<s>>) /\ Says(closure, s, {"closure"}, "closure", <<s>>)
  BY <1>2, ItemSays, Vocabulary
<1> HIDE DEF s, input, variable, arguments
<1>6. \A w \in Words : IsPlain(Declare(w, s)) /\ IsPlain(Use(w, s))
  BY <1>2, PlainItems
<1>7. Quiet(message) /\ Quiet(outputs) /\ Quiet(p4)
  BY <1>6, PlainQuiet, MoreWords
<1>8. Quiet(uses)
  BY <1>2, <1>3, ListQuiet, Vocabulary
<1>9. Quiet(p5)
  BY <1>2, <1>3, ListQuiet, Vocabulary
<1>10. Says(p6, s, {"argument"}, "argument", FieldNames(arguments))
  BY <1>2, <1>3, ListSays, Vocabulary
<1>11. Says(p2, s, {"receive"}, "receive", Objects(input))
  <2>1. CASE input.void
    <3>1. Objects(input) = <<>>
      BY <1>2, <2>1, VoidObjects
    <3> QED
      BY <2>1, <3>1, NothingSaid DEF Says
  <2>2. CASE ~input.void
    <3>1. Apart(message, s, {"receive"}, "receive")
      BY <1>7, QuietApart, Vocabulary
    <3> HIDE DEF message
    <3>2. Says(received, s, {"receive"}, "receive", Objects(input))
      BY <1>2, <3>1, ReceivedObjects
    <3> QED
      BY <2>2, <3>2
  <2> QED
    BY <2>1, <2>2
<1>12. Says(p3, s, {"closure"}, "closure", closures)
  <2>1. Says(<<>>, s, {"closure"}, "closure", <<>>)
    BY NothingSaid DEF Says
  <2>2. Apart(outputs, s, {"closure"}, "closure") /\ Apart(uses, s, {"closure"}, "closure")
    BY <1>7, <1>8, QuietApart, Vocabulary
  <2> HIDE DEF outputs, uses, closure
  <2>3. Apart(outputs \o uses, s, {"closure"}, "closure")
    BY <2>2, ApartBoth
  <2>4. Says(outputs \o uses \o closure, s, {"closure"}, "closure", <<s>>)
    BY <1>5, <2>3, SaysAfter
  <2> QED
    BY <1>4, <2>1, <2>4
<1> HIDE DEF p1, p2, p3, p4, p5, p6, closures
<1>13. ASSUME NEW op \in ops
       PROVE  /\ op \notin Plain /\ Apart(p4, s, ops, op) /\ Apart(p5, s, ops, op)
              /\ op # "case" => Apart(p1, s, ops, op)
              /\ op # "receive" => Apart(p2, s, ops, op)
              /\ op # "closure" => Apart(p3, s, ops, op)
              /\ op # "argument" => Apart(p6, s, ops, op)
  <2>1. op \notin Plain
    BY Vocabulary
  <2>2. Apart(p4, s, ops, op) /\ Apart(p5, s, ops, op)
    BY <1>7, <1>9, <2>1, QuietApart
  <2>3. /\ Confined(p1, s, {"case"}) /\ Confined(p2, s, {"receive"})
        /\ Confined(p3, s, {"closure"}) /\ Confined(p6, s, {"argument"})
    BY <1>5, <1>10, <1>11, <1>12 DEF Says
  <2>4. /\ {"case"} \subseteq ops /\ {"receive"} \subseteq ops /\ {"closure"} \subseteq ops
        /\ {"argument"} \subseteq ops
    OBVIOUS
  <2>5. ASSUME op # "case" PROVE Apart(p1, s, ops, op)
    BY <2>1, <2>3, <2>4, <2>5, OthersApart
  <2>6. ASSUME op # "receive" PROVE Apart(p2, s, ops, op)
    BY <2>1, <2>3, <2>4, <2>6, OthersApart
  <2>7. ASSUME op # "closure" PROVE Apart(p3, s, ops, op)
    BY <2>1, <2>3, <2>4, <2>7, OthersApart
  <2>8. ASSUME op # "argument" PROVE Apart(p6, s, ops, op)
    BY <2>1, <2>3, <2>4, <2>8, OthersApart
  <2> QED
    BY <2>1, <2>2, <2>5, <2>6, <2>7, <2>8
<1>14. /\ Says(p1, s, ops, "case", <<s>>) /\ Says(p2, s, ops, "receive", Objects(input))
       /\ Says(p3, s, ops, "closure", closures)
       /\ Says(p6, s, ops, "argument", FieldNames(arguments))
  <2>1. /\ {"case"} \subseteq ops /\ {"receive"} \subseteq ops /\ {"closure"} \subseteq ops
        /\ {"argument"} \subseteq ops
    OBVIOUS
  <2> QED
    BY <1>5, <1>10, <1>11, <1>12, <2>1, MoreOps
<1>15. /\ Apart(p1, s, ops, "receive") /\ Apart(p1, s, ops, "closure")
       /\ Apart(p1, s, ops, "argument") /\ Apart(p2, s, ops, "case")
       /\ Apart(p2, s, ops, "closure") /\ Apart(p2, s, ops, "argument")
       /\ Apart(p3, s, ops, "case") /\ Apart(p3, s, ops, "receive")
       /\ Apart(p3, s, ops, "argument") /\ Apart(p6, s, ops, "case")
       /\ Apart(p6, s, ops, "receive") /\ Apart(p6, s, ops, "closure")
       /\ \A op \in ops : Apart(p4, s, ops, op) /\ Apart(p5, s, ops, op)
  BY <1>13
<1>16. "case" \in ops /\ "receive" \in ops /\ "closure" \in ops /\ "argument" \in ops
  OBVIOUS
<1>17. Says(p1 \o p2 \o p3 \o p4 \o p5 \o p6, s, ops, "case", <<s>>)
  BY <1>14, <1>15, <1>16, SaysBefore
<1>18. Says(p1 \o p2 \o p3 \o p4 \o p5 \o p6, s, ops, "receive", Objects(input))
  <2>1. Says(p1 \o p2, s, ops, "receive", Objects(input))
    BY <1>14, <1>15, SaysAfter
  <2> QED
    BY <1>15, <1>16, <2>1, SaysBefore
<1>19. Says(p1 \o p2 \o p3 \o p4 \o p5 \o p6, s, ops, "closure", closures)
  <2>1. Apart(p1 \o p2, s, ops, "closure")
    BY <1>15, ApartBoth
  <2>2. Says(p1 \o p2 \o p3, s, ops, "closure", closures)
    BY <1>14, <2>1, SaysAfter
  <2> QED
    BY <1>15, <1>16, <2>2, SaysBefore
<1>20. Says(p1 \o p2 \o p3 \o p4 \o p5 \o p6, s, ops, "argument", FieldNames(arguments))
  <2>1. Apart(p1 \o p2 \o p3 \o p4 \o p5, s, ops, "argument")
    BY <1>15, <1>16, ApartBoth
  <2> QED
    BY <1>14, <2>1, SaysAfter
<1> QED
  BY <1>1, <1>17, <1>18, <1>19, <1>20 DEF s, input, arguments, closures

-----------------------------------------------------------------------------
(* What the files of a service say.                                            *)

\* Text for each method, in a scope of its own.
MethodTexts(texts, ops) ==
  /\ texts \in Seq(Seq(AllItems))
  /\ \A k \in 1 .. Len(texts) : Confined(texts[k], <<k>>, ops)

\* In the scope of a method its text alone is heard.
LEMMA MethodHeard ==
  ASSUME NEW texts, NEW ops, MethodTexts(texts, ops), NEW p \in 1 .. Len(texts),
         NEW op, op \notin Plain
  PROVE  /\ FlattenSeq(texts) \in Seq(AllItems)
         /\ NamesOf(FlattenSeq(texts), op, <<p>>) = NamesOf(texts[p], op, <<p>>)
<1> DEFINE scope == <<p>>
           Name(k) == NamesOf(texts[k], op, scope)
           names == [k \in 1 .. Len(texts) |-> Name(k)]
<1>1. texts \in Seq(Seq(AllItems)) /\ Len(texts) \in Nat
      /\ \A k \in 1 .. Len(texts) : texts[k] \in Seq(AllItems)
  BY LenProperties, ElementOfSeq DEF MethodTexts
<1>2. \A k \in 1 .. Len(texts) : Name(k) \in Seq(NameSet)
  BY <1>1, SaidTyped
<1>3. names \in Seq(Seq(NameSet)) /\ Len(names) = Len(texts)
      /\ \A k \in 1 .. Len(texts) : names[k] = Name(k)
  <2> HIDE DEF Name
  <2> QED
    BY <1>1, <1>2
<1>4. ASSUME NEW k \in 1 .. Len(texts), k # p PROVE names[k] = <<>>
  <2>1. Confined(texts[k], <<k>>, ops)
    BY DEF MethodTexts
  <2>2. scope # <<k>>
    BY <1>4 DEF scope
  <2>3. NamesOf(texts[k], op, scope) = <<>>
    BY <2>1, <2>2, NoNames
  <2> QED
    BY <1>3, <2>3
<1>5. NamesOf(FlattenSeq(texts), op, scope) = FlattenSeq(names)
  BY <1>1, NamesFlatten
<1> HIDE DEF names
<1>6. FlattenSeq(names) = names[p]
  BY <1>3, <1>4, FlattenOnly
<1>7. FlattenSeq(texts) \in Seq(AllItems)
  BY <1>1, FlattenElements
<1> QED
  BY <1>3, <1>5, <1>6, <1>7

\* Also after the parameters of the function.
LEMMA HeardAfter ==
  ASSUME NEW head, Quiet(head), NEW texts, NEW ops, MethodTexts(texts, ops),
         NEW p \in 1 .. Len(texts), NEW op, op \notin Plain
  PROVE  /\ head \o FlattenSeq(texts) \in Seq(AllItems)
         /\ NamesOf(head \o FlattenSeq(texts), op, <<p>>) = NamesOf(texts[p], op, <<p>>)
<1> DEFINE text == FlattenSeq(texts)
           x == NamesOf(text, op, <<p>>)
<1>1. text \in Seq(AllItems) /\ x = NamesOf(texts[p], op, <<p>>)
  BY MethodHeard
<1> HIDE DEF text
<1>2. head \in Seq(AllItems) /\ Confined(head, <<p>>, {})
  BY QuietConfined DEF Quiet
<1>3. /\ head \o text \in Seq(AllItems)
      /\ NamesOf(head \o text, op, <<p>>) = NamesOf(head, op, <<p>>) \o x
  BY <1>1, <1>2, NamesConcat
<1>4. NamesOf(head, op, <<p>>) = <<>>
  BY <1>2, NoNames
<1>5. x \in Seq(NameSet)
  BY <1>1, SaidTyped
<1> HIDE DEF x
<1>6. <<>> \o x = x
  BY <1>5, ConcatEmptySeq
<1> QED
  BY <1>1, <1>3, <1>4, <1>6 DEF text

\* Case j is there.
CaseAmong(items, j) == \E item \in {i \in Range(items) : i.op = "case"} : item.name = <<j>>

\* It is, if it is said.
LEMMA CaseSaid ==
  ASSUME NEW items \in Seq(AllItems), NEW scope, NEW j \in Nat,
         NEW k \in 1 .. Len(NamesOf(items, "case", scope)),
         NamesOf(items, "case", scope)[k] = <<j>>
  PROVE  CaseAmong(items, j)
<1>1. PICK item \in Range(items) :
        item.op = "case" /\ item.scope = scope /\ item.name = NamesOf(items, "case", scope)[k]
  BY NameFrom
<1> QED
  BY <1>1 DEF CaseAmong

\* The texts of the files.
HeaderTexts == [j \in DOMAIN service |-> Items("parameter", MethodSignature(service[j]), <<j>>)]
ProxyTexts == [j \in DOMAIN service |-> ProxyMethod(service[j], j)]
DispatchTexts == [j \in DOMAIN service |-> DispatchCase(service[j], j)]
ReplyTexts == [j \in DOMAIN service |-> ReplyCase(service[j], j)]
ImplementsTexts == [j \in DOMAIN service |-> <<Item("case", <<j>>, <<>>)>>]
HandlerTexts == [j \in DOMAIN service |-> HandlerCase(service[j], j)]

DispatchParameters ==
  Parameters(<<"methodId", "requestMessageEnvelope", "request", "replyChannel">>)
ReplyParameters == Parameters(<<"info">>)
HandlerParameters ==
  Parameters(<<"channel", "methodId", "incomingResponse", "targetResponse",
               "errorCode", "errorString", "callback">>)

\* Each file that has been written is that of the service.
GenInv ==
  /\ service \in Services
  /\ next \in {"header", "proxy", "dispatcher", "handler", "done"}
  /\ next # "header" => written["header"] = FlattenSeq(HeaderTexts)
  /\ next \in {"dispatcher", "handler", "done"} => written["proxy"] = FlattenSeq(ProxyTexts)
  /\ next \in {"handler", "done"} =>
       /\ written["dispatch"] = DispatchParameters \o FlattenSeq(DispatchTexts)
       /\ written["reply"] = ReplyParameters \o FlattenSeq(ReplyTexts)
       /\ written["implements"] = FlattenSeq(ImplementsTexts)
  /\ next = "done" => written["handler"] = HandlerParameters \o FlattenSeq(HandlerTexts)

\* Nothing is written at first.
LEMMA GenInit == Init => GenInv
BY DEF Init, GenInv

\* Each function writes its own files, from the service.
LEMMA GenStep ==
  ASSUME GenInv, [Next]_vars
  PROVE  GenInv'
<1>1. Files = {"header", "proxy", "dispatch", "reply", "implements", "handler"}
  BY DEF Files
<1>2. CASE GenerateServiceHeader
  <2>1. written'["header"] = FlattenSeq(HeaderTexts)
    BY <1>1, <1>2 DEF GenerateServiceHeader, Writes, ForMethods, HeaderTexts
  <2>2. next' = "proxy" /\ service' = service
    BY <1>2 DEF GenerateServiceHeader, Writes
  <2> QED
    BY <2>1, <2>2 DEF GenInv, HeaderTexts
<1>3. CASE GenerateServiceProxyCc
  <2>1. written'["proxy"] = FlattenSeq(ProxyTexts) /\ written'["header"] = written["header"]
    BY <1>1, <1>3 DEF GenerateServiceProxyCc, Writes, ForMethods, ProxyTexts
  <2>2. next = "proxy" /\ next' = "dispatcher" /\ service' = service
    BY <1>3 DEF GenerateServiceProxyCc, Writes
  <2> QED
    BY <2>1, <2>2 DEF GenInv, HeaderTexts, ProxyTexts
<1>4. CASE GenerateDispatcherCc
  <2>1. /\ written'["proxy"] = written["proxy"] /\ written'["header"] = written["header"]
        /\ written'["dispatch"] = DispatchParameters \o FlattenSeq(DispatchTexts)
        /\ written'["reply"] = ReplyParameters \o FlattenSeq(ReplyTexts)
        /\ written'["implements"] = FlattenSeq(ImplementsTexts)
    BY <1>1, <1>4 DEF GenerateDispatcherCc, Writes, ForMethods, DispatchParameters,
         ReplyParameters, DispatchTexts, ReplyTexts, ImplementsTexts
  <2>2. next = "dispatcher" /\ next' = "handler" /\ service' = service
    BY <1>4 DEF GenerateDispatcherCc, Writes
  <2> QED
    BY <2>1, <2>2 DEF GenInv, HeaderTexts, ProxyTexts, DispatchTexts, ReplyTexts,
         ImplementsTexts, DispatchParameters, ReplyParameters
<1>5. CASE GenerateResponseHandler
  <2>1. /\ written'["proxy"] = written["proxy"] /\ written'["header"] = written["header"]
        /\ written'["dispatch"] = written["dispatch"] /\ written'["reply"] = written["reply"]
        /\ written'["implements"] = written["implements"]
        /\ written'["handler"] = HandlerParameters \o FlattenSeq(HandlerTexts)
    BY <1>1, <1>5 DEF GenerateResponseHandler, Writes, ForMethods, HandlerParameters,
         HandlerTexts
  <2>2. next = "handler" /\ next' = "done" /\ service' = service
    BY <1>5 DEF GenerateResponseHandler, Writes
  <2> QED
    BY <2>1, <2>2 DEF GenInv, HeaderTexts, ProxyTexts, DispatchTexts, ReplyTexts,
         ImplementsTexts, HandlerTexts, DispatchParameters, ReplyParameters, HandlerParameters
<1>6. CASE UNCHANGED vars
  BY <1>6 DEF vars, GenInv, HeaderTexts, ProxyTexts, DispatchTexts, ReplyTexts,
       ImplementsTexts, HandlerTexts, DispatchParameters, ReplyParameters, HandlerParameters
<1> QED
  BY <1>2, <1>3, <1>4, <1>5, <1>6 DEF Next

\* Whatever Generate() has written is the text for the service
\* (rpcgenerator.cpp:269-287).
THEOREM FilesWritten == Spec => []GenInv
BY GenInit, GenStep, PTL DEF Spec

\* Texts that are each confined to the scope of their method.
LEMMA TextsTyped ==
  ASSUME NEW n \in Nat, NEW texts, NEW ops, texts = [k \in 1 .. n |-> texts[k]],
         \A k \in 1 .. n : Confined(texts[k], <<k>>, ops)
  PROVE  MethodTexts(texts, ops) /\ Len(texts) = n
<1>1. \A k \in 1 .. n : texts[k] \in Seq(AllItems)
  BY DEF Confined
<1>2. texts \in Seq(Seq(AllItems)) /\ Len(texts) = n
  BY <1>1
<1> QED
  BY <1>2 DEF MethodTexts

\* The service is a sequence of methods.
LEMMA ServiceTyped ==
  ASSUME GenInv
  PROVE  /\ DOMAIN service = 1 .. Len(service) /\ Len(service) \in Nat
         /\ \A j \in DOMAIN service : service[j] \in MethodType /\ j \in Nat
<1>1. service \in Seq(MethodType)
  BY ServiceAssumption DEF GenInv, MethodType
<1>2. DOMAIN service = 1 .. Len(service) /\ Len(service) \in Nat
      /\ \A j \in 1 .. Len(service) : service[j] \in MethodType
  BY <1>1, LenProperties, ElementOfSeq
<1> QED
  BY <1>2

\* Parameters are declarations.
LEMMA ParametersQuiet ==
  Quiet(DispatchParameters) /\ Quiet(ReplyParameters) /\ Quiet(HandlerParameters)
<1>1. <<>> \in Seq(Nat)
  BY EmptySeq
<1>2. /\ <<"methodId", "requestMessageEnvelope", "request", "replyChannel">> \in Seq(Words)
      /\ <<"info">> \in Seq(Words)
      /\ <<"channel", "methodId", "incomingResponse", "targetResponse",
           "errorCode", "errorString", "callback">> \in Seq(Words)
  BY MoreWords
<1> QED
  BY <1>1, <1>2, ListQuiet, Vocabulary
     DEF DispatchParameters, ReplyParameters, HandlerParameters, Parameters

\* What the proxy says of a method,
LEMMA ProxyFile ==
  ASSUME GenInv, next = "done", NEW j \in DOMAIN service
  PROVE  /\ Names("proxy", "register", <<j>>) =
              IF service[j].input.void /\ service[j].output.void THEN <<>> ELSE <<<<j>>>>
         /\ Names("proxy", "send", <<j>>) = Objects(service[j].input)
         /\ written["proxy"] \in Seq(AllItems)
<1> DEFINE m == service[j]
           ops == {"register", "send"}
           texts == ProxyTexts
<1>1. /\ DOMAIN service = 1 .. Len(service) /\ Len(service) \in Nat
      /\ \A i \in DOMAIN service : service[i] \in MethodType /\ i \in Nat
  BY ServiceTyped
<1>2. \A i \in 1 .. Len(service) : Confined(ProxyMethod(service[i], i), <<i>>, ops)
  BY <1>1, ProxyText DEF Says
<1>3. /\ texts = [i \in 1 .. Len(service) |-> texts[i]]
      /\ \A i \in 1 .. Len(service) : texts[i] = ProxyMethod(service[i], i)
  BY <1>1 DEF ProxyTexts
<1>4. NamesOf(ProxyMethod(m, j), "register", <<j>>) =
        IF m.input.void /\ m.output.void THEN <<>> ELSE <<<<j>>>>
  BY <1>1, ProxyText DEF Says
<1>5. NamesOf(ProxyMethod(m, j), "send", <<j>>) = Objects(m.input)
  BY <1>1, ProxyText DEF Says
<1> HIDE DEF texts, ops
<1>6. MethodTexts(texts, ops) /\ Len(texts) = Len(service)
  BY <1>1, <1>2, <1>3, TextsTyped
<1>7. j \in 1 .. Len(texts) /\ texts[j] = ProxyMethod(m, j)
  BY <1>1, <1>3, <1>6
<1>8. written["proxy"] = FlattenSeq(texts)
  BY DEF GenInv, texts
<1> HIDE DEF m
<1>9. /\ FlattenSeq(texts) \in Seq(AllItems)
      /\ \A op \in {"register", "send"} :
           NamesOf(FlattenSeq(texts), op, <<j>>) = NamesOf(texts[j], op, <<j>>)
  BY <1>6, <1>7, MethodHeard, Vocabulary
<1>10. \A op \in {"register", "send"} :
        Names("proxy", op, <<j>>)
          = NamesOf(ProxyMethod(m, j), op, <<j>>)
  BY <1>7, <1>8, <1>9 DEF Names
<1> QED
  BY <1>4, <1>5, <1>8, <1>9, <1>10 DEF m

\* what dispatch() does,
LEMMA DispatchFile ==
  ASSUME GenInv, next = "done", NEW j \in DOMAIN service
  PROVE  /\ Names("dispatch", "case", <<j>>) = <<<<j>>>>
         /\ Names("dispatch", "receive", <<j>>) = Objects(service[j].input)
         /\ Names("dispatch", "closure", <<j>>) = IF service[j].output.void THEN <<>> ELSE <<<<j>>>>
         /\ Names("dispatch", "argument", <<j>>) = FieldNames(Arguments(service[j]))
         /\ written["dispatch"] \in Seq(AllItems)
<1> DEFINE m == service[j]
           ops == {"case", "receive", "closure", "argument"}
           texts == DispatchTexts
<1>1. /\ DOMAIN service = 1 .. Len(service) /\ Len(service) \in Nat
      /\ \A i \in DOMAIN service : service[i] \in MethodType /\ i \in Nat
  BY ServiceTyped
<1>2. \A i \in 1 .. Len(service) : Confined(DispatchCase(service[i], i), <<i>>, ops)
  BY <1>1, DispatchText DEF Says
<1>3. /\ texts = [i \in 1 .. Len(service) |-> texts[i]]
      /\ \A i \in 1 .. Len(service) : texts[i] = DispatchCase(service[i], i)
  BY <1>1 DEF DispatchTexts
<1>4. NamesOf(DispatchCase(m, j), "case", <<j>>) = <<<<j>>>>
  BY <1>1, DispatchText DEF Says
<1>5. NamesOf(DispatchCase(m, j), "receive", <<j>>) = Objects(m.input)
  BY <1>1, DispatchText DEF Says
<1>6. NamesOf(DispatchCase(m, j), "closure", <<j>>) = IF m.output.void THEN <<>> ELSE <<<<j>>>>
  BY <1>1, DispatchText DEF Says
<1>7. NamesOf(DispatchCase(m, j), "argument", <<j>>) = FieldNames(Arguments(m))
  BY <1>1, DispatchText DEF Says
<1> HIDE DEF texts, ops
<1>8. MethodTexts(texts, ops) /\ Len(texts) = Len(service)
  BY <1>1, <1>2, <1>3, TextsTyped
<1>9. j \in 1 .. Len(texts) /\ texts[j] = DispatchCase(m, j)
  BY <1>1, <1>3, <1>8
<1> DEFINE head == DispatchParameters
<1>10. Quiet(head)
  BY ParametersQuiet
<1>11. written["dispatch"] = head \o FlattenSeq(texts)
  BY DEF GenInv, texts
<1> HIDE DEF head, m
<1>12. /\ head \o FlattenSeq(texts) \in Seq(AllItems)
      /\ \A op \in {"case", "receive", "closure", "argument"} :
           NamesOf(head \o FlattenSeq(texts), op, <<j>>) = NamesOf(texts[j], op, <<j>>)
  BY <1>8, <1>9, <1>10, HeardAfter, Vocabulary
<1>13. \A op \in {"case", "receive", "closure", "argument"} :
        Names("dispatch", op, <<j>>)
          = NamesOf(DispatchCase(m, j), op, <<j>>)
  BY <1>9, <1>11, <1>12 DEF Names
<1> QED
  BY <1>4, <1>5, <1>6, <1>7, <1>11, <1>12, <1>13 DEF m

\* what reply() does,
LEMMA ReplyFile ==
  ASSUME GenInv, next = "done", NEW j \in DOMAIN service
  PROVE  /\ Names("reply", "case", <<j>>) = IF service[j].output.void THEN <<>> ELSE <<<<j>>>>
         /\ Names("reply", "send", <<j>>) = Objects(service[j].output)
         /\ written["reply"] \in Seq(AllItems)
<1> DEFINE m == service[j]
           ops == {"case", "send"}
           texts == ReplyTexts
<1>1. /\ DOMAIN service = 1 .. Len(service) /\ Len(service) \in Nat
      /\ \A i \in DOMAIN service : service[i] \in MethodType /\ i \in Nat
  BY ServiceTyped
<1>2. \A i \in 1 .. Len(service) : Confined(ReplyCase(service[i], i), <<i>>, ops)
  BY <1>1, ReplyText DEF Says
<1>3. /\ texts = [i \in 1 .. Len(service) |-> texts[i]]
      /\ \A i \in 1 .. Len(service) : texts[i] = ReplyCase(service[i], i)
  BY <1>1 DEF ReplyTexts
<1>4. NamesOf(ReplyCase(m, j), "case", <<j>>) = IF m.output.void THEN <<>> ELSE <<<<j>>>>
  BY <1>1, ReplyText DEF Says
<1>5. NamesOf(ReplyCase(m, j), "send", <<j>>) = Objects(m.output)
  BY <1>1, ReplyText DEF Says
<1> HIDE DEF texts, ops
<1>6. MethodTexts(texts, ops) /\ Len(texts) = Len(service)
  BY <1>1, <1>2, <1>3, TextsTyped
<1>7. j \in 1 .. Len(texts) /\ texts[j] = ReplyCase(m, j)
  BY <1>1, <1>3, <1>6
<1> DEFINE head == ReplyParameters
<1>8. Quiet(head)
  BY ParametersQuiet
<1>9. written["reply"] = head \o FlattenSeq(texts)
  BY DEF GenInv, texts
<1> HIDE DEF head, m
<1>10. /\ head \o FlattenSeq(texts) \in Seq(AllItems)
      /\ \A op \in {"case", "send"} :
           NamesOf(head \o FlattenSeq(texts), op, <<j>>) = NamesOf(texts[j], op, <<j>>)
  BY <1>6, <1>7, <1>8, HeardAfter, Vocabulary
<1>11. \A op \in {"case", "send"} :
        Names("reply", op, <<j>>)
          = NamesOf(ReplyCase(m, j), op, <<j>>)
  BY <1>7, <1>9, <1>10 DEF Names
<1> QED
  BY <1>4, <1>5, <1>9, <1>10, <1>11 DEF m

\* what handle() does,
LEMMA HandlerFile ==
  ASSUME GenInv, next = "done", NEW j \in DOMAIN service
  PROVE  /\ Names("handler", "case", <<j>>) = IF service[j].output.void THEN <<>> ELSE <<<<j>>>>
         /\ Names("handler", "receive", <<j>>) = Objects(service[j].output)
         /\ written["handler"] \in Seq(AllItems)
<1> DEFINE m == service[j]
           ops == {"case", "receive"}
           texts == HandlerTexts
<1>1. /\ DOMAIN service = 1 .. Len(service) /\ Len(service) \in Nat
      /\ \A i \in DOMAIN service : service[i] \in MethodType /\ i \in Nat
  BY ServiceTyped
<1>2. \A i \in 1 .. Len(service) : Confined(HandlerCase(service[i], i), <<i>>, ops)
  BY <1>1, HandlerText DEF Says
<1>3. /\ texts = [i \in 1 .. Len(service) |-> texts[i]]
      /\ \A i \in 1 .. Len(service) : texts[i] = HandlerCase(service[i], i)
  BY <1>1 DEF HandlerTexts
<1>4. NamesOf(HandlerCase(m, j), "case", <<j>>) = IF m.output.void THEN <<>> ELSE <<<<j>>>>
  BY <1>1, HandlerText DEF Says
<1>5. NamesOf(HandlerCase(m, j), "receive", <<j>>) = Objects(m.output)
  BY <1>1, HandlerText DEF Says
<1> HIDE DEF texts, ops
<1>6. MethodTexts(texts, ops) /\ Len(texts) = Len(service)
  BY <1>1, <1>2, <1>3, TextsTyped
<1>7. j \in 1 .. Len(texts) /\ texts[j] = HandlerCase(m, j)
  BY <1>1, <1>3, <1>6
<1> DEFINE head == HandlerParameters
<1>8. Quiet(head)
  BY ParametersQuiet
<1>9. written["handler"] = head \o FlattenSeq(texts)
  BY DEF GenInv, texts
<1> HIDE DEF head, m
<1>10. /\ head \o FlattenSeq(texts) \in Seq(AllItems)
      /\ \A op \in {"case", "receive"} :
           NamesOf(head \o FlattenSeq(texts), op, <<j>>) = NamesOf(texts[j], op, <<j>>)
  BY <1>6, <1>7, <1>8, HeardAfter, Vocabulary
<1>11. \A op \in {"case", "receive"} :
        Names("handler", op, <<j>>)
          = NamesOf(HandlerCase(m, j), op, <<j>>)
  BY <1>7, <1>9, <1>10 DEF Names
<1> QED
  BY <1>4, <1>5, <1>9, <1>10, <1>11 DEF m

\* and the parameters in the header.
LEMMA HeaderFile ==
  ASSUME GenInv, next = "done", NEW j \in DOMAIN service
  PROVE  Names("header", "parameter", <<j>>) = FieldNames(MethodSignature(service[j]))
<1> DEFINE ops == {"parameter"}
           texts == HeaderTexts
           Text(i) == Items("parameter", MethodSignature(service[i]), <<i>>)
<1>1. /\ DOMAIN service = 1 .. Len(service) /\ Len(service) \in Nat
      /\ \A i \in DOMAIN service : service[i] \in MethodType /\ i \in Nat
  BY ServiceTyped
<1>2. ASSUME NEW i \in 1 .. Len(service)
      PROVE  Says(Text(i), <<i>>, ops, "parameter", FieldNames(MethodSignature(service[i])))
  <2>1. i \in Nat /\ MethodSignature(service[i]) \in Seq(Words)
    BY <1>1, ArgumentWords
  <2>2. <<i>> \in Seq(Nat)
    BY <2>1, MethodScope
  <2> QED
    BY <2>1, <2>2, ListSays, Vocabulary
<1>3. /\ texts = [i \in 1 .. Len(service) |-> texts[i]]
      /\ \A i \in 1 .. Len(service) : texts[i] = Text(i)
  BY <1>1 DEF HeaderTexts
<1> HIDE DEF texts, ops, Text
<1>4. \A i \in 1 .. Len(service) : Confined(texts[i], <<i>>, ops)
  BY <1>2, <1>3 DEF Says
<1>5. MethodTexts(texts, ops) /\ Len(texts) = Len(service)
  BY <1>1, <1>3, <1>4, TextsTyped
<1>6. j \in 1 .. Len(texts) /\ texts[j] = Text(j)
  BY <1>1, <1>3, <1>5
<1>7. written["header"] = FlattenSeq(texts)
  BY DEF GenInv, texts
<1>8. NamesOf(FlattenSeq(texts), "parameter", <<j>>) = NamesOf(texts[j], "parameter", <<j>>)
  BY <1>5, <1>6, MethodHeard, Vocabulary
<1>9. NamesOf(Text(j), "parameter", <<j>>) = FieldNames(MethodSignature(service[j]))
  BY <1>1, <1>2 DEF Says
<1> QED
  BY <1>6, <1>7, <1>8, <1>9 DEF Names

\* implements() has a case for every method.
LEMMA ImplementsFile ==
  ASSUME GenInv, next = "done", NEW j \in DOMAIN service
  PROVE  HasCase("implements", j)
<1> DEFINE n == Len(service)
           numbers == [k \in 1 .. n |-> k]
           texts == ImplementsTexts
<1>1. DOMAIN service = 1 .. n /\ n \in Nat
  BY ServiceTyped
<1>2. numbers \in Seq(Nat) /\ Len(numbers) = n /\ \A k \in 1 .. n : numbers[k] = k
  BY <1>1
<1>3. <<>> \in Seq(Nat)
  BY EmptySeq
<1>4. ASSUME NEW k \in 1 .. n
      PROVE  Says(texts[k], <<>>, {"case"}, "case", <<<<numbers[k]>>>>)
  <2>1. k \in Nat /\ numbers[k] = k
    BY <1>1
  <2> DEFINE name == <<k>>
  <2>2. name \in NameSet
    BY <2>1, MethodScope
  <2>3. texts[k] = <<Item("case", name, <<>>)>>
    BY <1>1 DEF ImplementsTexts
  <2> HIDE DEF name, texts
  <2>4. Says(texts[k], <<>>, {"case"}, "case", <<name>>)
    BY <1>3, <2>2, <2>3, ItemSays, Vocabulary
  <2> QED
    BY <2>1, <2>4 DEF name
<1>5. texts = [k \in 1 .. n |-> texts[k]]
  BY <1>1 DEF ImplementsTexts
<1> HIDE DEF texts, numbers
<1>6. \A k \in 1 .. n : texts[k] \in Seq(AllItems)
  BY <1>4 DEF Says, Confined
<1>7. texts \in Seq(Seq(AllItems)) /\ Len(texts) = n
  BY <1>1, <1>5, <1>6
<1>8. /\ Confined(FlattenSeq(texts), <<>>, {"case"})
      /\ NamesOf(FlattenSeq(texts), "case", <<>>) = FieldNames(numbers)
  <2>1. \A k \in 1 .. Len(numbers) :
          /\ Confined(texts[k], <<>>, {"case"})
          /\ NamesOf(texts[k], "case", <<>>) = <<<<numbers[k]>>>>
    BY <1>2, <1>4 DEF Says
  <2>2. Len(texts) = Len(numbers)
    BY <1>2, <1>7
  <2> QED
    BY <1>2, <1>7, <2>1, <2>2, Blocks
<1> DEFINE items == FlattenSeq(texts)
           names == NamesOf(items, "case", <<>>)
<1>9. written["implements"] = items
  BY DEF GenInv, texts
<1>10. items \in Seq(AllItems)
  BY <1>8 DEF Confined
<1>11. names = FieldNames(numbers)
  BY <1>8
<1>12. j \in 1 .. Len(names) /\ names[j] = <<j>> /\ j \in Nat
  <2>1. DOMAIN numbers = 1 .. n
    BY <1>2, LenProperties
  <2> HIDE DEF names
  <2> QED
    BY <1>1, <1>2, <1>11, <2>1 DEF FieldNames
<1> HIDE DEF items
<1>13. CaseAmong(items, j)
  BY <1>10, <1>12, CaseSaid
<1> QED
  BY <1>9, <1>13 DEF CaseAmong, HasCase, Cases

\* A case in the scope of a method.
LEMMA CaseIn ==
  ASSUME NEW file, written[file] \in Seq(AllItems), NEW j \in Nat,
         Names(file, "case", <<j>>) = <<<<j>>>>
  PROVE  HasCase(file, j)
<1> DEFINE items == written[file]
           scope == <<j>>
<1>1. NamesOf(items, "case", scope) = <<scope>>
  BY DEF Names
<1>2. items \in Seq(AllItems)
  OBVIOUS
<1> HIDE DEF items
<1>3. 1 \in 1 .. Len(NamesOf(items, "case", scope)) /\ NamesOf(items, "case", scope)[1] = <<j>>
  <2> DEFINE x == scope
  <2>1. 1 \in 1 .. Len(<<x>>) /\ <<x>>[1] = x
    OBVIOUS
  <2> QED
    BY <1>1, <2>1
<1>4. scope = <<j>>
  OBVIOUS
<1> HIDE DEF scope
<1>5. CaseAmong(items, j)
  <2> DEFINE k == 1
  <2>1. k \in 1 .. Len(NamesOf(items, "case", scope))
    BY <1>3, <1>4
  <2>2. NamesOf(items, "case", scope)[k] = <<j>>
    BY <1>3, <1>4
  <2> HIDE DEF k
  <2> QED
    BY <1>2, <2>1, <2>2, CaseSaid
<1> QED
  BY <1>5 DEF CaseAmong, HasCase, Cases, items

-----------------------------------------------------------------------------
(* For every service, whatever it sends or receives:                           *)

\* what one generated function starts another one ends (rpcgenerator.cpp:235,
\* 415-427, 529, 594-626 and 829): a method is dispatched where implements()
\* names it, and the handler a proxy registers has a reply to wait for.
THEOREM CallsReturn == Spec => []EveryCallReturns
<1>1. ASSUME GenInv PROVE EveryCallReturns
  <2> SUFFICES ASSUME next = "done", NEW j \in DOMAIN service, ~IsNotification(service[j])
               PROVE  /\ HasCase("dispatch", j) /\ HasCase("implements", j)
                      /\ LET registers == Names("proxy", "register", <<j>>) # <<>>
                             closure == Names("dispatch", "closure", <<j>>) # <<>>
                         IN  /\ registers => closure
                             /\ closure => HasCase("reply", j) /\ HasCase("handler", j)
                             /\ closure => registers
    BY DEF EveryCallReturns
  <2> DEFINE m == service[j]
  <2>1. j \in Nat
    BY <1>1, ServiceTyped
  <2>2. HasCase("dispatch", j)
    BY <1>1, <2>1, DispatchFile, CaseIn
  <2>3. HasCase("implements", j)
    BY <1>1, ImplementsFile
  <2>4. ~m.output.void => HasCase("reply", j) /\ HasCase("handler", j)
    BY <1>1, <2>1, ReplyFile, HandlerFile, CaseIn
  <2>5. Names("proxy", "register", <<j>>) =
        IF m.input.void /\ m.output.void THEN <<>> ELSE <<<<j>>>>
    BY <1>1, ProxyFile
  <2>6. Names("dispatch", "closure", <<j>>) = IF m.output.void THEN <<>> ELSE <<<<j>>>>
    BY <1>1, DispatchFile
  <2>7. <<<<j>>>> # <<>>
    OBVIOUS
  <2>8. ~(~m.input.void /\ m.output.void)
    BY DEF IsNotification
  <2> QED
    BY <2>2, <2>3, <2>4, <2>5, <2>6, <2>7, <2>8
<1> QED
  BY <1>1, FilesWritten, PTL

\* the objects of a request and of a response are received in the order in
\* which they are sent (rpcgenerator.cpp:249-258 and 403-411, 570-577 and
\* 846-853), so that a receiver never takes one for another.
THEOREM SameObjects == Spec => []ObjectsAgree
<1>1. ASSUME GenInv PROVE ObjectsAgree
  BY <1>1, ProxyFile, DispatchFile, ReplyFile, HandlerFile DEF ObjectsAgree
<1> QED
  BY <1>1, FilesWritten, PTL

\* dispatch() calls a method of the service with one argument for each of the
\* parameters its header declares, in that order (rpcgenerator.cpp:76-96 and
\* 429-444).
THEOREM ArgumentsFit == Spec => []ArgumentsMatch
<1>1. ASSUME GenInv PROVE ArgumentsMatch
  <2> SUFFICES ASSUME next = "done", NEW j \in DOMAIN service
               PROVE  LET arguments == Names("dispatch", "argument", <<j>>)
                      IN  [k \in DOMAIN arguments |-> ParameterOf(arguments[k])]
                            = Names("header", "parameter", <<j>>)
    BY DEF ArgumentsMatch
  <2>1. Names("dispatch", "argument", <<j>>) = FieldNames(Arguments(service[j]))
    BY <1>1, DispatchFile
  <2>2. Names("header", "parameter", <<j>>) = FieldNames(MethodSignature(service[j]))
    BY <1>1, HeaderFile
  <2> QED
    BY <2>1, <2>2, ArgumentsFitSignature
<1> QED
  BY <1>1, FilesWritten, PTL

-----------------------------------------------------------------------------
(* The wrong variables of a text, given what is declared before it.            *)

\* The declarations among the first items of a text.
Declared(items, n) == {items[i] : i \in {i \in 1 .. n : items[i].op = "declare"}}

Sees(D, item) == \E d \in D : d.name = item.name /\ IsPrefix(d.scope, item.scope)
Clashes(D, item) == \E d \in D : d.name = item.name /\ d.scope = item.scope
Rejected(item, D) ==
  \/ item.op = "use" /\ ~Sees(D, item)
  \/ item.op = "declare" /\ Clashes(D, item)

Mark(item) == <<item.name[1], item.scope>>
Faults(items, D) ==
  {Mark(items[k]) :
     k \in {k \in 1 .. Len(items) : Rejected(items[k], D \cup Declared(items, k - 1))}}

\* The text of two parts has the declarations of both, and their faults.
LEMMA FaultsConcat ==
  ASSUME NEW a \in Seq(AllItems), NEW b \in Seq(AllItems), NEW D
  PROVE  /\ a \o b \in Seq(AllItems)
         /\ Declared(a \o b, Len(a \o b)) = Declared(a, Len(a)) \cup Declared(b, Len(b))
         /\ Faults(a \o b, D) = Faults(a, D) \cup Faults(b, D \cup Declared(a, Len(a)))
<1> DEFINE c == a \o b
           m == Len(a)
           n == Len(b)
<1>1. /\ m \in Nat /\ n \in Nat /\ c \in Seq(AllItems) /\ Len(c) = m + n
      /\ \A k \in 1 .. m + n : c[k] = IF k <= m THEN a[k] ELSE b[k - m]
  BY ConcatProperties, LenProperties
<1> HIDE DEF c, m, n
<1>2. \A k \in 1 .. m : k \in 1 .. m + n /\ c[k] = a[k]
  BY <1>1
<1>3. \A k \in 1 .. n : m + k \in 1 .. m + n /\ c[m + k] = b[k]
  <2> SUFFICES ASSUME NEW k \in 1 .. n PROVE m + k \in 1 .. m + n /\ c[m + k] = b[k]
    OBVIOUS
  <2>1. m + k \in 1 .. m + n /\ ~(m + k <= m) /\ (m + k) - m = k
    BY <1>1
  <2> QED
    BY <1>1, <2>1
<1>4. \A k \in 1 .. m + n : k \in 1 .. m \/ \E l \in 1 .. n : k = m + l
  <2> SUFFICES ASSUME NEW k \in 1 .. m + n, ~(k <= m) PROVE \E l \in 1 .. n : k = m + l
    BY <1>1
  <2>1. k - m \in 1 .. n /\ k = m + (k - m)
    BY <1>1
  <2> QED
    BY <2>1
<1>5. \A k \in 1 .. m : Declared(c, k - 1) = Declared(a, k - 1)
  <2> SUFFICES ASSUME NEW k \in 1 .. m PROVE Declared(c, k - 1) = Declared(a, k - 1)
    OBVIOUS
  <2>1. \A i \in 1 .. k - 1 : c[i] = a[i]
    BY <1>1, <1>2
  <2> QED
    BY <2>1 DEF Declared
<1>6. \A k \in 1 .. n + 1 :
        Declared(c, m + k - 1) = Declared(a, m) \cup Declared(b, k - 1)
  <2> SUFFICES ASSUME NEW k \in 1 .. n + 1
               PROVE  Declared(c, m + k - 1) = Declared(a, m) \cup Declared(b, k - 1)
    OBVIOUS
  <2>1. /\ \A i \in 1 .. m : i \in 1 .. m + k - 1
        /\ \A i \in 1 .. k - 1 : m + i \in 1 .. m + k - 1 /\ i \in 1 .. n
        /\ \A i \in 1 .. m + k - 1 : i \in 1 .. m \/ (i - m \in 1 .. k - 1 /\ i = m + (i - m))
    <3>1. m \in Nat /\ n \in Nat
      BY <1>1
    <3> HIDE DEF m, n
    <3>2. \A i \in 1 .. m : i \in 1 .. m + k - 1
      BY <3>1
    <3>3. \A i \in 1 .. k - 1 : m + i \in 1 .. m + k - 1 /\ i \in 1 .. n
      BY <3>1
    <3>4. \A i \in 1 .. m + k - 1 : i \in 1 .. m \/ (i - m \in 1 .. k - 1 /\ i = m + (i - m))
      BY <3>1
    <3> QED
      BY <3>2, <3>3, <3>4
  <2>2. \A i \in 1 .. k - 1 : c[m + i] = b[i]
    BY <1>3, <2>1
  <2>3. Declared(c, m + k - 1) \subseteq Declared(a, m) \cup Declared(b, k - 1)
    <3> SUFFICES ASSUME NEW i \in 1 .. m + k - 1, c[i].op = "declare"
                 PROVE  c[i] \in Declared(a, m) \cup Declared(b, k - 1)
      BY DEF Declared
    <3>1. CASE i \in 1 .. m
      BY <1>2, <3>1 DEF Declared
    <3>2. CASE i - m \in 1 .. k - 1 /\ i = m + (i - m)
      <4>1. c[i] = b[i - m]
        BY <2>2, <3>2
      <4> QED
        BY <3>2, <4>1 DEF Declared
    <3> QED
      BY <2>1, <3>1, <3>2
  <2>4. Declared(a, m) \subseteq Declared(c, m + k - 1)
    <3> SUFFICES ASSUME NEW i \in 1 .. m, a[i].op = "declare"
                 PROVE  a[i] \in Declared(c, m + k - 1)
      BY DEF Declared
    <3> QED
      BY <1>2, <2>1 DEF Declared
  <2>5. Declared(b, k - 1) \subseteq Declared(c, m + k - 1)
    <3> SUFFICES ASSUME NEW i \in 1 .. k - 1, b[i].op = "declare"
                 PROVE  b[i] \in Declared(c, m + k - 1)
      BY DEF Declared
    <3>1. c[m + i] = b[i] /\ m + i \in 1 .. m + k - 1
      BY <2>1, <2>2
    <3> QED
      BY <3>1 DEF Declared
  <2> QED
    BY <2>3, <2>4, <2>5
<1>7. Declared(c, m + n) = Declared(a, m) \cup Declared(b, n)
  <2>1. n + 1 \in 1 .. n + 1 /\ m + (n + 1) - 1 = m + n /\ (n + 1) - 1 = n
    BY <1>1
  <2>2. Declared(c, m + (n + 1) - 1) = Declared(a, m) \cup Declared(b, (n + 1) - 1)
    BY <1>6, <2>1
  <2> QED
    BY <2>1, <2>2
<1> DEFINE X == D \cup Declared(a, m)
<1>8. \A k \in 1 .. n :
        Rejected(c[m + k], D \cup Declared(c, m + k - 1))
          <=> Rejected(b[k], X \cup Declared(b, k - 1))
  <2> SUFFICES ASSUME NEW k \in 1 .. n
               PROVE  Rejected(c[m + k], D \cup Declared(c, m + k - 1))
                        <=> Rejected(b[k], X \cup Declared(b, k - 1))
    OBVIOUS
  <2>1. k \in 1 .. n + 1
    BY <1>1
  <2>2. D \cup Declared(c, m + k - 1) = X \cup Declared(b, k - 1)
    BY <1>6, <2>1
  <2> QED
    BY <1>3, <2>2
<1>9. \A k \in 1 .. m :
        Rejected(c[k], D \cup Declared(c, k - 1)) <=> Rejected(a[k], D \cup Declared(a, k - 1))
  BY <1>2, <1>5
<1> HIDE DEF X
<1>10. Faults(c, D) \subseteq Faults(a, D) \cup Faults(b, X)
  <2> SUFFICES ASSUME NEW k \in 1 .. m + n, Rejected(c[k], D \cup Declared(c, k - 1))
               PROVE  Mark(c[k]) \in Faults(a, D) \cup Faults(b, X)
    BY <1>1 DEF Faults
  <2>1. CASE k \in 1 .. m
    <3>1. c[k] = a[k] /\ Rejected(a[k], D \cup Declared(a, k - 1))
      BY <1>2, <1>9, <2>1
    <3>2. Mark(a[k]) \in Faults(a, D)
      BY <2>1, <3>1 DEF Faults, m
    <3> QED
      BY <3>1, <3>2
  <2>2. ASSUME NEW l \in 1 .. n, k = m + l
        PROVE  Mark(c[k]) \in Faults(a, D) \cup Faults(b, X)
    <3>1. c[m + l] = b[l] /\ Rejected(c[m + l], D \cup Declared(c, m + l - 1))
      BY <1>1, <1>3, <2>2
    <3>4. Rejected(b[l], X \cup Declared(b, l - 1))
      BY <1>8, <3>1
    <3>2. Mark(b[l]) \in Faults(b, X)
      BY <3>4 DEF Faults, n
    <3> QED
      BY <2>2, <3>1, <3>2
  <2> QED
    BY <1>4, <2>1, <2>2
<1>11. Faults(a, D) \subseteq Faults(c, D)
  <2> SUFFICES ASSUME NEW k \in 1 .. m, Rejected(a[k], D \cup Declared(a, k - 1))
               PROVE  Mark(a[k]) \in Faults(c, D)
    BY DEF Faults, m
  <2>1. c[k] = a[k] /\ Rejected(c[k], D \cup Declared(c, k - 1)) /\ k \in 1 .. Len(c)
    BY <1>1, <1>2, <1>9
  <2> QED
    BY <2>1 DEF Faults
<1>12. Faults(b, X) \subseteq Faults(c, D)
  <2> SUFFICES ASSUME NEW k \in 1 .. n, Rejected(b[k], X \cup Declared(b, k - 1))
               PROVE  Mark(b[k]) \in Faults(c, D)
    BY DEF Faults, n
  <2> DEFINE i == m + k
  <2>2. Rejected(c[m + k], D \cup Declared(c, m + k - 1))
    BY <1>8
  <2>1. c[i] = b[k] /\ Rejected(c[i], D \cup Declared(c, i - 1)) /\ i \in 1 .. Len(c)
    BY <1>1, <1>3, <2>2
  <2> HIDE DEF i
  <2> QED
    BY <2>1 DEF Faults
<1> QED
  BY <1>1, <1>7, <1>10, <1>11, <1>12 DEF X, c, m, n

\* Whatever of A is declared before it, a text has these faults and leaves B.
Checks(items, A, B, faults) ==
  /\ items \in Seq(AllItems)
  /\ \A D \in A : Faults(items, D) = faults /\ D \cup Declared(items, Len(items)) \in B

\* One text after the other.
LEMMA ChecksBoth ==
  ASSUME NEW a, NEW b, NEW A, NEW B, NEW C, NEW e, NEW f, Checks(a, A, B, e), Checks(b, B, C, f)
  PROVE  Checks(a \o b, A, C, e \cup f)
<1>1. a \in Seq(AllItems) /\ b \in Seq(AllItems)
  BY DEF Checks
<1>2. a \o b \in Seq(AllItems)
  BY <1>1, FaultsConcat
<1>3. ASSUME NEW D \in A
      PROVE  /\ Faults(a \o b, D) = e \cup f
             /\ D \cup Declared(a \o b, Len(a \o b)) \in C
  <2> DEFINE X == D \cup Declared(a, Len(a))
             c == a \o b
  <2>1. Faults(a, D) = e /\ X \in B
    BY <1>3 DEF Checks
  <2> HIDE DEF X
  <2>2. Faults(b, X) = f /\ X \cup Declared(b, Len(b)) \in C
    BY <2>1 DEF Checks
  <2>3. /\ Declared(c, Len(c)) = Declared(a, Len(a)) \cup Declared(b, Len(b))
        /\ Faults(c, D) = Faults(a, D) \cup Faults(b, X)
    BY <1>1, FaultsConcat DEF X
  <2> HIDE DEF c
  <2>4. D \cup Declared(c, Len(c)) = X \cup Declared(b, Len(b))
    BY <2>3 DEF X
  <2> QED
    BY <2>1, <2>2, <2>3, <2>4 DEF c
<1> QED
  BY <1>2, <1>3 DEF Checks

\* A text without faults behind or before another one.
LEMMA ChecksThen ==
  ASSUME NEW a, NEW b, NEW A, NEW B, NEW C, NEW e
  PROVE  /\ Checks(a, A, B, e) /\ Checks(b, B, C, {}) => Checks(a \o b, A, C, e)
         /\ Checks(a, A, B, {}) /\ Checks(b, B, C, e) => Checks(a \o b, A, C, e)
<1>1. e \cup {} = e /\ {} \cup e = e
  OBVIOUS
<1> QED
  BY <1>1, ChecksBoth

\* What is left may be said with less.
LEMMA ChecksWeaker ==
  ASSUME NEW a, NEW A, NEW B, NEW e, Checks(a, A, B, e), NEW C, C \subseteq A,
         NEW E, B \subseteq E
  PROVE  Checks(a, C, E, e)
BY DEF Checks

\* The scope of field i of method j.
Inner(j, i) == <<j>> \o <<i>>

\* Scopes of methods and of their fields are different ones.
LEMMA Scopes ==
  ASSUME NEW j \in Nat
  PROVE  /\ <<>> \in Seq(Nat) /\ <<j>> \in Seq(Nat) /\ <<j>> # <<>> /\ <<j>>[1] = j
         /\ \A i \in Nat : /\ Inner(j, i) \in Seq(Nat) /\ Inner(j, i) # <<>>
                           /\ Inner(j, i) # <<j>> /\ Inner(j, i)[1] = j
         /\ \A i, l \in Nat : Inner(j, i) = Inner(j, l) => i = l
<1>1. <<>> \in Seq(Nat) /\ <<j>> \in Seq(Nat) /\ <<j>> # <<>> /\ <<j>>[1] = j /\ Len(<<j>>) = 1
  OBVIOUS
<1>2. ASSUME NEW i \in Nat
      PROVE  /\ Inner(j, i) \in Seq(Nat) /\ Len(Inner(j, i)) = 2
             /\ Inner(j, i)[1] = j /\ Inner(j, i)[2] = i
  <2> DEFINE s == <<j>>
             t == <<i>>
  <2>1. s \in Seq(Nat) /\ t \in Seq(Nat) /\ Len(s) = 1 /\ Len(t) = 1 /\ s[1] = j /\ t[1] = i
    OBVIOUS
  <2> HIDE DEF s, t
  <2>2. /\ s \o t \in Seq(Nat) /\ Len(s \o t) = Len(s) + Len(t)
        /\ \A k \in 1 .. Len(s) + Len(t) :
             (s \o t)[k] = IF k <= Len(s) THEN s[k] ELSE t[k - Len(s)]
    BY <2>1, ConcatProperties
  <2>3. Len(s \o t) = 2 /\ (s \o t)[1] = s[1] /\ (s \o t)[2] = t[1]
    BY <2>1, <2>2
  <2>4. Inner(j, i) = s \o t
    BY DEF Inner, s, t
  <2> QED
    BY <2>1, <2>2, <2>3, <2>4
<1>3. \A i \in Nat : /\ Inner(j, i) \in Seq(Nat) /\ Len(Inner(j, i)) = 2
                     /\ Inner(j, i)[1] = j /\ Inner(j, i)[2] = i
  BY <1>2
<1>4. Len(<<>>) = 0
  OBVIOUS
<1>5. \A i \in Nat : Inner(j, i) # <<>> /\ Inner(j, i) # <<j>>
  BY <1>1, <1>3, <1>4
<1> QED
  BY <1>1, <1>3, <1>5

\* A scope is seen from within itself, and from a method what is at file scope.
LEMMA EnclosingScopes ==
  ASSUME NEW j \in Nat, NEW scope \in Seq(Nat)
  PROVE  /\ IsPrefix(scope, scope)
         /\ IsPrefix(scope, <<j>>) <=> (scope = <<>> \/ scope = <<j>>)
<1> DEFINE own == <<j>>
           n == Len(scope)
<1>1. own \in Seq(Nat) /\ Len(own) = 1 /\ n \in Nat
  BY LenProperties
<1>2. IsPrefix(scope, scope)
  BY <1>1 DEF IsPrefix
<1> HIDE DEF own
<1>3. SubSeq(own, 1, 1) = own /\ SubSeq(own, 1, 0) = <<>> /\ SubSeq(scope, 1, n) = scope
  BY <1>1
<1>4. (n = 0 <=> scope = <<>>) /\ (scope = own => n = 1)
  BY <1>1
<1>5. IsPrefix(scope, own) <=> n <= 1 /\ scope = SubSeq(own, 1, n)
  BY <1>1, <1>3 DEF IsPrefix
<1> HIDE DEF n
<1>6. CASE n = 0
  <2>1. SubSeq(own, 1, n) = <<>> /\ n <= 1 /\ scope = <<>>
    BY <1>3, <1>4, <1>6
  <2> QED
    BY <1>2, <1>5, <2>1 DEF own
<1>7. CASE n = 1
  <2>1. SubSeq(own, 1, n) = own /\ n <= 1 /\ scope # <<>>
    BY <1>3, <1>4, <1>7
  <2> QED
    BY <1>2, <1>5, <2>1 DEF own
<1>8. CASE n > 1
  <2>1. ~(n <= 1) /\ scope # <<>> /\ scope # own
    BY <1>1, <1>4, <1>8
  <2> QED
    BY <1>2, <1>5, <2>1 DEF own
<1> QED
  BY <1>1, <1>6, <1>7, <1>8

\* The names that are declared in a scope.
DeclaredIn(D, scope) == {d.name : d \in {d \in D : d.scope = scope}}

\* What may be declared before a part of method j: these names around the methods
\* and in this one, its fields of F, and anything in the methods before it.
Ready(j, around, names, F) ==
  {D \in SUBSET AllItems :
     /\ DeclaredIn(D, <<>>) = around
     /\ DeclaredIn(D, <<j>>) = names
     /\ \A d \in D : \/ d.scope = <<>> \/ d.scope = <<j>> \/ d.scope[1] < j
                     \/ \E i \in F : d.scope = Inner(j, i)}

\* What is seen from a method.
LEMMA Visibility ==
  ASSUME NEW j \in Nat, NEW P, NEW W, NEW F, NEW D \in Ready(j, P, W, F),
         NEW item \in AllItems, item.scope = <<j>>
  PROVE  /\ (Sees(D, item) <=> item.name \in P \cup W)
         /\ (Clashes(D, item) <=> item.name \in W)
<1>1. D \subseteq AllItems /\ DeclaredIn(D, <<>>) = P /\ DeclaredIn(D, <<j>>) = W
  BY DEF Ready
<1>2. \A d \in D : d.scope \in Seq(Nat)
  BY <1>1 DEF AllItems
<1>3. \A d \in D : IsPrefix(d.scope, item.scope) <=> d.scope = <<>> \/ d.scope = <<j>>
  <2> SUFFICES ASSUME NEW d \in D
               PROVE  IsPrefix(d.scope, item.scope) <=> d.scope = <<>> \/ d.scope = <<j>>
    OBVIOUS
  <2> DEFINE scope == d.scope
  <2>1. scope \in Seq(Nat)
    BY <1>2
  <2> HIDE DEF scope
  <2>2. IsPrefix(scope, <<j>>) <=> (scope = <<>> \/ scope = <<j>>)
    BY <2>1, EnclosingScopes
  <2> QED
    BY <2>2 DEF scope
<1>4. item.name \in P <=> \E d \in D : d.scope = <<>> /\ d.name = item.name
  BY <1>1 DEF DeclaredIn
<1>5. item.name \in W <=> \E d \in D : d.scope = <<j>> /\ d.name = item.name
  BY <1>1 DEF DeclaredIn
<1>6. Sees(D, item) <=> item.name \in P \cup W
  BY <1>3, <1>4, <1>5 DEF Sees
<1>7. Clashes(D, item) <=> item.name \in W
  BY <1>5 DEF Clashes
<1> QED
  BY <1>6, <1>7

\* The text of one item.
LEMMA OneItem ==
  ASSUME NEW item \in AllItems, NEW D
  PROVE  /\ <<item>> \in Seq(AllItems) /\ Len(<<item>>) = 1
         /\ Faults(<<item>>, D) = IF Rejected(item, D) THEN {Mark(item)} ELSE {}
         /\ Declared(<<item>>, Len(<<item>>)) = IF item.op = "declare" THEN {item} ELSE {}
<1> DEFINE x == <<item>>
<1>1. x \in Seq(AllItems) /\ Len(x) = 1 /\ x[1] = item
  OBVIOUS
<1> HIDE DEF x
<1>2. Declared(x, 0) = {} /\ D \cup Declared(x, 0) = D
  BY DEF Declared
<1>3. Declared(x, 1) = IF item.op = "declare" THEN {item} ELSE {}
  <2>1. \A i \in 1 .. 1 : i = 1
    OBVIOUS
  <2> QED
    BY <1>1, <2>1 DEF Declared
<1>4. \A k \in 1 .. 1 : Rejected(x[k], D \cup Declared(x, k - 1)) <=> Rejected(item, D)
  <2> SUFFICES ASSUME NEW k \in 1 .. 1
               PROVE  Rejected(x[k], D \cup Declared(x, k - 1)) <=> Rejected(item, D)
    OBVIOUS
  <2>1. k = 1 /\ k - 1 = 0
    OBVIOUS
  <2>2. D \cup Declared(x, k - 1) = D /\ x[k] = item
    BY <1>1, <1>2, <2>1
  <2> QED
    BY <2>2
<1>5. \A k \in 1 .. 1 : x[k] = item
  BY <1>1
<1>6. 1 \in 1 .. 1
  OBVIOUS
<1>7. Faults(x, D) = IF Rejected(item, D) THEN {Mark(item)} ELSE {}
  BY <1>1, <1>4, <1>5, <1>6 DEF Faults
<1> QED
  BY <1>1, <1>3, <1>7 DEF x

\* A declaration in a method is rejected if the name has one.
LEMMA DeclareChecks ==
  ASSUME NEW j \in Nat, NEW P, NEW W, NEW F, NEW name \in NameSet
  PROVE  Checks(<<Item("declare", name, <<j>>)>>, Ready(j, P, W, F),
                Ready(j, P, W \cup {name}, F),
                IF name \in W THEN {<<name[1], <<j>>>>} ELSE {})
<1> DEFINE item == Item("declare", name, <<j>>)
<1>1. /\ item \in AllItems /\ item.op = "declare" /\ item.name = name /\ item.scope = <<j>>
  <2> DEFINE s == <<j>>
  <2>1. s \in Seq(Nat)
    BY MethodScope
  <2> HIDE DEF s
  <2>2. LET i == Item("declare", name, s)
        IN  i \in AllItems /\ i.op = "declare" /\ i.name = name /\ i.scope = s
    BY <2>1, ItemTyped, Vocabulary
  <2> QED
    BY <2>2 DEF s
<1>2. Mark(item) = <<name[1], <<j>>>>
  BY <1>1 DEF Mark
<1> HIDE DEF item
<1>3. <<item>> \in Seq(AllItems)
  BY <1>1
<1>4. ASSUME NEW D \in Ready(j, P, W, F)
      PROVE  /\ Faults(<<item>>, D) = IF name \in W THEN {Mark(item)} ELSE {}
             /\ D \cup Declared(<<item>>, Len(<<item>>)) \in Ready(j, P, W \cup {name}, F)
  <2>1. Rejected(item, D) <=> name \in W
    BY <1>1, Visibility DEF Rejected
  <2>2. Faults(<<item>>, D) = IF name \in W THEN {Mark(item)} ELSE {}
    BY <1>1, <2>1, OneItem
  <2> DEFINE X == D \cup {item}
  <2>3. D \cup Declared(<<item>>, Len(<<item>>)) = X
    BY <1>1, OneItem
  <2>4. /\ D \subseteq AllItems /\ DeclaredIn(D, <<>>) = P /\ DeclaredIn(D, <<j>>) = W
        /\ \A d \in D : \/ d.scope = <<>> \/ d.scope = <<j>> \/ d.scope[1] < j
                        \/ \E i \in F : d.scope = Inner(j, i)
    BY DEF Ready
  <2>5. <<j>> # <<>>
    OBVIOUS
  <2>6. DeclaredIn(X, <<>>) = P
    BY <1>1, <2>4, <2>5 DEF DeclaredIn
  <2>7. DeclaredIn(X, <<j>>) = W \cup {name}
    BY <1>1, <2>4 DEF DeclaredIn
  <2>8. \A d \in X : \/ d.scope = <<>> \/ d.scope = <<j>> \/ d.scope[1] < j
                     \/ \E i \in F : d.scope = Inner(j, i)
    BY <1>1, <2>4
  <2>9. X \in SUBSET AllItems
    BY <1>1, <2>4
  <2> HIDE DEF X
  <2> QED
    BY <2>2, <2>3, <2>6, <2>7, <2>8, <2>9 DEF Ready
<1> QED
  BY <1>2, <1>3, <1>4 DEF Checks, item

\* A use in a method is rejected if the name is not declared in it or around it.
LEMMA UseChecks ==
  ASSUME NEW j \in Nat, NEW P, NEW W, NEW F, NEW name \in NameSet
  PROVE  Checks(<<Item("use", name, <<j>>)>>, Ready(j, P, W, F), Ready(j, P, W, F),
                IF name \in P \cup W THEN {} ELSE {<<name[1], <<j>>>>})
<1> DEFINE item == Item("use", name, <<j>>)
<1>1. /\ item \in AllItems /\ item.op = "use" /\ item.name = name /\ item.scope = <<j>>
  <2> DEFINE s == <<j>>
  <2>1. s \in Seq(Nat)
    BY MethodScope
  <2> HIDE DEF s
  <2>2. LET i == Item("use", name, s)
        IN  i \in AllItems /\ i.op = "use" /\ i.name = name /\ i.scope = s
    BY <2>1, ItemTyped, Vocabulary
  <2> QED
    BY <2>2 DEF s
<1>2. Mark(item) = <<name[1], <<j>>>>
  BY <1>1 DEF Mark
<1> HIDE DEF item
<1>3. <<item>> \in Seq(AllItems)
  BY <1>1
<1>4. ASSUME NEW D \in Ready(j, P, W, F)
      PROVE  /\ Faults(<<item>>, D) = IF name \in P \cup W THEN {} ELSE {Mark(item)}
             /\ D \cup Declared(<<item>>, Len(<<item>>)) \in Ready(j, P, W, F)
  <2>1. Rejected(item, D) <=> name \notin P \cup W
    BY <1>1, Visibility DEF Rejected
  <2>2. Faults(<<item>>, D) = IF name \in P \cup W THEN {} ELSE {Mark(item)}
    BY <1>1, <2>1, OneItem
  <2>3. Declared(<<item>>, Len(<<item>>)) = {}
    BY <1>1, OneItem
  <2> QED
    BY <2>2, <2>3
<1> QED
  BY <1>2, <1>3, <1>4 DEF Checks, item

\* A block for field i that uses names and what it has declared for itself.
TidyItem(block, k, j, i, names) ==
  LET item == block[k]
      Before == {block[l] : l \in {l \in 1 .. k - 1 : block[l].op = "declare"}}
  IN  \/ item.op \notin Plain
      \/ item.op = "use" /\ item.scope = <<j>> /\ item.name \in names
      \/ item.op = "declare" /\ item.scope = Inner(j, i) /\ \A d \in Before : d.name # item.name
      \/ item.op = "use" /\ \E d \in Before : d.name = item.name /\ d.scope = item.scope

Tidy(block, j, i, names) ==
  /\ block \in Seq(AllItems)
  /\ \A k \in 1 .. Len(block) : TidyItem(block, k, j, i, names)

\* Such a block has no faults, if there was none for the field.
LEMMA TidyChecks ==
  ASSUME NEW j \in Nat, NEW i \in Nat, NEW P, NEW W, NEW F, F \subseteq Nat, i \notin F,
         NEW block, Tidy(block, j, i, P \cup W)
  PROVE  Checks(block, Ready(j, P, W, F), Ready(j, P, W, F \cup {i}), {})
<1>1. /\ block \in Seq(AllItems)
      /\ \A k \in 1 .. Len(block) : TidyItem(block, k, j, i, P \cup W)
  BY DEF Tidy
<1>2. Len(block) \in Nat /\ \A k \in 1 .. Len(block) : block[k] \in AllItems
  BY <1>1, LenProperties, ElementOfSeq
<1>3. /\ Inner(j, i) \in Seq(Nat) /\ Inner(j, i) # <<>> /\ Inner(j, i) # <<j>>
      /\ Inner(j, i)[1] = j
      /\ \A l \in F : Inner(j, i) # Inner(j, l)
  BY Scopes
<1> DEFINE inner == Inner(j, i)
<1> SUFFICES ASSUME NEW D \in Ready(j, P, W, F)
             PROVE  /\ Faults(block, D) = {}
                    /\ D \cup Declared(block, Len(block)) \in Ready(j, P, W, F \cup {i})
  BY <1>1 DEF Checks
<1>4. /\ D \subseteq AllItems /\ DeclaredIn(D, <<>>) = P /\ DeclaredIn(D, <<j>>) = W
      /\ \A d \in D : \/ d.scope = <<>> \/ d.scope = <<j>> \/ d.scope[1] < j
                      \/ \E l \in F : d.scope = Inner(j, l)
  BY DEF Ready
<1>5. \A d \in D : d.scope # inner
  <2>1. ~(j < j)
    OBVIOUS
  <2> QED
    BY <1>3, <1>4, <2>1
<1>6. ASSUME NEW k \in 1 .. Len(block), block[k].op = "declare"
      PROVE  /\ block[k].scope = inner
             /\ \A d \in Declared(block, k - 1) : d.name # block[k].name
  <2>1. TidyItem(block, k, j, i, P \cup W) /\ block[k].op \in Plain /\ block[k].op # "use"
    BY <1>1, <1>6 DEF Plain
  <2> QED
    BY <2>1 DEF TidyItem, Declared
<1>7. ASSUME NEW k \in 1 .. Len(block)
      PROVE  ~Rejected(block[k], D \cup Declared(block, k - 1))
  <2> DEFINE item == block[k]
             X == Declared(block, k - 1)
  <2>1. item \in AllItems
    BY <1>2
  <2>2. CASE item.op = "declare"
    <3>1. item.scope = inner /\ \A d \in X : d.name # item.name
      BY <1>6, <2>2
    <3> HIDE DEF X, item, inner
    <3>2. ~Clashes(D \cup X, item)
      BY <1>5, <3>1 DEF Clashes
    <3> QED
      BY <2>2, <3>2 DEF Rejected, item, X
  <2>3. CASE item.op = "use"
    <3>1. TidyItem(block, k, j, i, P \cup W) /\ item.op \in Plain /\ item.op # "declare"
      BY <1>1, <2>3 DEF Plain
    <3>2. \/ item.scope = <<j>> /\ item.name \in P \cup W
          \/ \E d \in X : d.name = item.name /\ d.scope = item.scope
      BY <3>1 DEF TidyItem, Declared
    <3>3. item.scope \in Seq(Nat)
      BY <2>1 DEF AllItems
    <3> HIDE DEF X, item
    <3>4. CASE item.scope = <<j>> /\ item.name \in P \cup W
      <4>1. Sees(D, item)
        BY <2>1, <3>4, Visibility
      <4> QED
        BY <2>3, <4>1 DEF Rejected, Sees, item, X
    <3>5. CASE \E d \in X : d.name = item.name /\ d.scope = item.scope
      <4>1. IsPrefix(item.scope, item.scope)
        <5> DEFINE scope == item.scope
        <5>1. scope \in Seq(Nat)
          BY <3>3
        <5> HIDE DEF scope
        <5>2. IsPrefix(scope, scope)
          BY <5>1, EnclosingScopes
        <5> QED
          BY <5>2 DEF scope
      <4>2. Sees(D \cup X, item)
        BY <3>5, <4>1 DEF Sees
      <4> QED
        BY <2>3, <4>2 DEF Rejected, item, X
    <3> QED
      BY <3>2, <3>4, <3>5
  <2>4. CASE item.op # "declare" /\ item.op # "use"
    BY <2>4 DEF Rejected
  <2> QED
    BY <2>2, <2>3, <2>4
<1>8. Faults(block, D) = {}
  BY <1>7 DEF Faults
<1> DEFINE X == Declared(block, Len(block))
<1>9. X \subseteq AllItems /\ \A d \in X : d.scope = inner
  BY <1>2, <1>6 DEF Declared
<1> HIDE DEF X
<1>10. DeclaredIn(D \cup X, <<>>) = P
  BY <1>3, <1>4, <1>9 DEF DeclaredIn
<1>11. DeclaredIn(D \cup X, <<j>>) = W
  BY <1>3, <1>4, <1>9 DEF DeclaredIn
<1>12. \A d \in D \cup X : \/ d.scope = <<>> \/ d.scope = <<j>> \/ d.scope[1] < j
                           \/ \E l \in F \cup {i} : d.scope = Inner(j, l)
  BY <1>4, <1>9
<1>13. D \cup X \in Ready(j, P, W, F \cup {i})
  BY <1>4, <1>9, <1>10, <1>11, <1>12 DEF Ready
<1> QED
  BY <1>8, <1>13 DEF X

\* No text at all.
LEMMA EmptyChecks ==
  ASSUME NEW A
  PROVE  Checks(<<>>, A, A, {})
<1>1. <<>> \in Seq(AllItems) /\ Len(<<>>) = 0
  BY EmptySeq
<1>2. \A D : Faults(<<>>, D) = {} /\ Declared(<<>>, Len(<<>>)) = {}
  BY <1>1 DEF Faults, Declared
<1>3. ASSUME NEW D \in A PROVE Faults(<<>>, D) = {} /\ D \cup Declared(<<>>, Len(<<>>)) \in A
  <2>1. Faults(<<>>, D) = {} /\ D \cup Declared(<<>>, Len(<<>>)) = D
    BY <1>2
  <2> QED
    BY <2>1
<1> QED
  BY <1>1, <1>3 DEF Checks

\* Texts one after the other: each leaves what the next one needs.
Chained(texts, State, faults) ==
  \A k \in 1 .. Len(texts) : Checks(texts[k], State[k - 1], State[k], faults[k])

AllFaults(faults, n) == UNION {faults[k] : k \in 1 .. n}

\* What each of a sequence of texts needs, the one before it leaves.
LEMMA ChainChecks ==
  ASSUME NEW texts \in Seq(Seq(AllItems)), NEW State, NEW faults, Chained(texts, State, faults)
  PROVE  Checks(FlattenSeq(texts), State[0], State[Len(texts)], AllFaults(faults, Len(texts)))
<1> DEFINE n == Len(texts)
           All(i) == AllFaults(faults, i)
<1>1. PICK part : Partial(part, texts, AllItems) /\ FlattenSeq(texts) = part[n]
  BY Flatten
<1>2. n \in Nat /\ part[0] = <<>>
  BY <1>1, LenProperties DEF Partial
<1>8. \A i \in Nat : i < n => part[i + 1] = part[i] \o texts[i + 1]
  BY <1>1 DEF Partial
<1>3. \A i \in Nat : i < n => Checks(texts[i + 1], State[i], State[i + 1], faults[i + 1])
  <2> SUFFICES ASSUME NEW i \in Nat, i < n
               PROVE  Checks(texts[i + 1], State[i], State[i + 1], faults[i + 1])
    OBVIOUS
  <2>1. i + 1 \in 1 .. n /\ (i + 1) - 1 = i
    BY <1>2
  <2>2. Checks(texts[i + 1], State[(i + 1) - 1], State[i + 1], faults[i + 1])
    BY <2>1 DEF Chained
  <2> QED
    BY <2>1, <2>2
<1> HIDE DEF n
<1> DEFINE Good == {i \in Nat : Checks(part[i], State[0], State[i], All(i))}
<1>4. 0 \in Good
  <2>1. All(0) = {}
    BY DEF AllFaults
  <2> HIDE DEF All
  <2>2. Checks(part[0], State[0], State[0], All(0))
    BY <1>2, <2>1, EmptyChecks
  <2> QED
    BY <2>2
<1>5. \A i \in Nat : i < n /\ i \in Good => i + 1 \in Good
  <2> SUFFICES ASSUME NEW i \in Nat, i < n, i \in Good PROVE i + 1 \in Good
    OBVIOUS
  <2>1. All(i + 1) = All(i) \cup faults[i + 1]
    <3>1. \A k : k \in 1 .. i + 1 <=> (k \in 1 .. i \/ k = i + 1)
      OBVIOUS
    <3> QED
      BY <3>1 DEF AllFaults
  <2>2. Checks(part[i], State[0], State[i], All(i))
    OBVIOUS
  <2> HIDE DEF All
  <2>3. Checks(texts[i + 1], State[i], State[i + 1], faults[i + 1])
    BY <1>3
  <2>4. Checks(part[i] \o texts[i + 1], State[0], State[i + 1], All(i) \cup faults[i + 1])
    BY <2>2, <2>3, ChecksBoth
  <2> HIDE DEF Good
  <2>5. part[i + 1] = part[i] \o texts[i + 1]
    BY <1>8
  <2>8. i + 1 \in Nat
    OBVIOUS
  <2>6. Checks(part[i + 1], State[0], State[i + 1], All(i) \cup faults[i + 1])
    BY <2>4, <2>5
  <2>7. Checks(part[i + 1], State[0], State[i + 1], All(i + 1))
    BY <2>1, <2>6
  <2> QED
    BY <2>7, <2>8 DEF Good
<1> HIDE DEF Good
<1>6. \A i \in 0 .. n : i \in Good
  BY <1>2, <1>4, <1>5, Induction
<1>7. n \in Good
  BY <1>2, <1>6
<1> QED
  BY <1>1, <1>7 DEF Good, n

Injective(fields) ==
  \A k, l \in 1 .. Len(fields) : fields[k] = fields[l] => k = l

\* Fields of a kind are listed once.
LEMMA FieldsOnce ==
  ASSUME NEW type \in Messages, NEW kind
  PROVE  /\ Injective(FieldsOf(type, kind))
         /\ \A i \in Range(FieldsOf(type, kind)) : i \in Nat /\ type.fields[i] = kind
<1> DEFINE given == type.fields
           seqs == [i \in DOMAIN given |-> IF given[i] = kind THEN <<i>> ELSE <<>>]
           f == FieldsOf(type, kind)
<1>1. given \in Seq(Kinds)
  <2>1. CASE type = Void
    BY <2>1 DEF Void
  <2>2. CASE type \in [void : {FALSE}, fields : Seq(Kinds)]
    BY <2>2
  <2> QED
    BY <2>1, <2>2 DEF Messages
<1>2. f = FlattenSeq(seqs)
  BY DEF FieldsOf
<1> HIDE DEF f, given
<1>3. DOMAIN given = 1 .. Len(given) /\ Len(given) \in Nat
  BY <1>1, LenProperties
<1>4. \A i \in 1 .. Len(given) : <<i>> \in Seq(Nat) /\ <<>> \in Seq(Nat)
  BY <1>3
<1>5. seqs \in Seq(Seq(Nat)) /\ Len(seqs) = Len(given)
  BY <1>3, <1>4
<1>6. \A i \in 1 .. Len(seqs) : \A l \in 1 .. Len(seqs[i]) :
        given[i] = kind /\ l = 1 /\ seqs[i][l] = i
  <2> SUFFICES ASSUME NEW i \in 1 .. Len(seqs), NEW l \in 1 .. Len(seqs[i])
               PROVE  given[i] = kind /\ l = 1 /\ seqs[i][l] = i
    OBVIOUS
  <2>1. i \in DOMAIN given
    BY <1>3, <1>5
  <2>2. seqs[i] = IF given[i] = kind THEN <<i>> ELSE <<>>
    BY <2>1
  <2> HIDE DEF seqs
  <2>3. given[i] = kind /\ seqs[i] = <<i>>
    BY <2>2
  <2>4. l \in 1 .. 1 /\ <<i>>[1] = i
    BY <2>3
  <2> QED
    BY <2>3, <2>4
<1> HIDE DEF seqs
<1>7. PICK offset : Places(offset, seqs, f)
  BY <1>2, <1>5, FlattenPlaces
<1>8. ASSUME NEW k \in 1 .. Len(f)
      PROVE  \E i \in 1 .. Len(seqs) : f[k] = i /\ given[i] = kind /\ k = offset[i - 1] + 1
  <2>1. PICK i \in 1 .. Len(seqs) : \E l \in 1 .. Len(seqs[i]) : k = offset[i - 1] + l
    BY <1>7 DEF Places
  <2>2. PICK l \in 1 .. Len(seqs[i]) : k = offset[i - 1] + l
    BY <2>1
  <2>3. f[offset[i - 1] + l] = seqs[i][l]
    BY <1>7 DEF Places
  <2>4. given[i] = kind /\ l = 1 /\ seqs[i][l] = i
    BY <1>6
  <2> QED
    BY <2>2, <2>3, <2>4
<1>9. Injective(f)
  BY <1>8 DEF Injective
<1>10. f \in Seq(Nat)
  BY FieldsTyped DEF f
<1>11. DOMAIN f = 1 .. Len(f)
  BY <1>10, LenProperties
<1>12. \A i \in Range(f) : i \in Nat /\ given[i] = kind
  <2> SUFFICES ASSUME NEW k \in 1 .. Len(f) PROVE f[k] \in Nat /\ given[f[k]] = kind
    BY <1>11 DEF Range
  <2> QED
    BY <1>5, <1>8, <1>3
<1> QED
  BY <1>9, <1>12 DEF f, given

\* A block for each field.
LEMMA FieldsCheck ==
  ASSUME NEW j \in Nat, NEW P, NEW W, NEW F, F \subseteq Nat,
         NEW fields \in Seq(Nat), Injective(fields), Range(fields) \cap F = {},
         NEW Text, \A i \in Nat : Tidy(Text[i], j, i, P \cup W),
         NEW blocks, IsForEach(blocks, fields, Text)
  PROVE  Checks(FlattenSeq(blocks), Ready(j, P, W, F), Ready(j, P, W, F \cup Range(fields)), {})
<1> DEFINE n == Len(fields)
           First(k) == {fields[l] : l \in 1 .. k}
           State == [k \in 0 .. n |-> Ready(j, P, W, F \cup First(k))]
           none == [k \in 1 .. n |-> {}]
<1>1. DOMAIN fields = 1 .. n /\ n \in Nat /\ \A k \in 1 .. n : fields[k] \in Nat
  BY LenProperties, ElementOfSeq
<1>2. /\ Len(blocks) = n /\ \A k \in 1 .. n : blocks[k] = Text[fields[k]]
      /\ blocks \in Seq(Seq(AllItems))
  <2>1. \A k \in 1 .. n : Text[fields[k]] \in Seq(AllItems)
    BY <1>1 DEF Tidy
  <2> QED
    BY <1>1, <2>1 DEF IsForEach
<1>3. First(0) = {} /\ First(n) = Range(fields)
  BY <1>1 DEF Range
<1>4. ASSUME NEW k \in 1 .. n
      PROVE  Checks(blocks[k], Ready(j, P, W, F \cup First(k - 1)), Ready(j, P, W, F \cup First(k)), {})
  <2> DEFINE i == fields[k]
             G == F \cup First(k - 1)
  <2>1. i \in Nat /\ Tidy(blocks[k], j, i, P \cup W)
    BY <1>1, <1>2
  <2>2. \A l \in 1 .. k - 1 : l \in 1 .. n /\ l # k
    BY <1>1
  <2>3. i \notin First(k - 1) /\ First(k - 1) \subseteq Nat
    BY <1>1, <2>2 DEF Injective
  <2>4. i \notin F
    BY <1>1 DEF Range
  <2>5. First(k) = First(k - 1) \cup {i}
    <3>1. \A l : l \in 1 .. k <=> (l \in 1 .. k - 1 \/ l = k)
      BY <1>1
    <3> QED
      BY <3>1
  <2>6. G \subseteq Nat /\ i \notin G /\ F \cup First(k) = G \cup {i}
    BY <2>3, <2>4, <2>5
  <2> HIDE DEF G, i, First
  <2>7. Checks(blocks[k], Ready(j, P, W, G), Ready(j, P, W, G \cup {i}), {})
    BY <2>1, <2>6, TidyChecks
  <2> QED
    BY <2>6, <2>7 DEF G
<1>5. /\ \A k \in 1 .. n : /\ State[k - 1] = Ready(j, P, W, F \cup First(k - 1))
                           /\ State[k] = Ready(j, P, W, F \cup First(k))
                           /\ none[k] = {}
      /\ State[0] = Ready(j, P, W, F \cup First(0)) /\ State[n] = Ready(j, P, W, F \cup First(n))
  <2> HIDE DEF First
  <2>1. \A k \in 1 .. n : k \in 0 .. n /\ k - 1 \in 0 .. n
    BY <1>1
  <2>2. 0 \in 0 .. n /\ n \in 0 .. n
    BY <1>1
  <2> QED
    BY <2>1, <2>2
<1>6. AllFaults(none, n) = {}
  BY <1>5 DEF AllFaults
<1> HIDE DEF First, State, none, n
<1>7. Chained(blocks, State, none)
  <2> SUFFICES ASSUME NEW k \in 1 .. n PROVE Checks(blocks[k], State[k - 1], State[k], none[k])
    BY <1>2 DEF Chained
  <2> QED
    BY <1>4, <1>5
<1>8. Checks(FlattenSeq(blocks), State[0], State[Len(blocks)], AllFaults(none, Len(blocks)))
  BY <1>2, <1>7, ChainChecks
<1>9. Checks(FlattenSeq(blocks), State[0], State[n], {})
  BY <1>2, <1>6, <1>8
<1>10. F \cup First(0) = F
  BY <1>3
<1> QED
  BY <1>3, <1>5, <1>9, <1>10

\* Variables of a field with other names are other variables.
LEMMA OwnNames ==
  ASSUME NEW i \in Nat, NEW v, NEW w, <<v, i>> = <<w, i>>
  PROVE  v = w
OBVIOUS

\* The scope of a method.
IsScope(s, j) == s = <<j>>

\* A variable of a field is in its scope.
LEMMA OwnSays ==
  ASSUME NEW op \in Ops, NEW name \in Words, NEW i \in Nat, NEW j \in Nat, NEW s, IsScope(s, j)
  PROVE  /\ Own(op, name, i, s) \in AllItems /\ Own(op, name, i, s).op = op
         /\ Own(op, name, i, s).name = <<name, i>>
         /\ Own(op, name, i, s).scope = Inner(j, i)
<1>1. s \in Seq(Nat)
  BY MethodScope DEF IsScope
<1>2. Own(op, name, i, s) \in AllItems /\ Own(op, name, i, s).op = op
  BY <1>1, OwnTyped
<1>3. Own(op, name, i, s).name = <<name, i>> /\ Own(op, name, i, s).scope = Inner(j, i)
  BY DEF Own, Item, Inner, IsScope
<1> QED
  BY <1>2, <1>3

\* What generateSentVtkBlock writes for a field,
LEMMA SentVtkTidy ==
  ASSUME NEW j \in Nat, NEW i \in Nat, NEW s, IsScope(s, j), NEW names,
         NEW variable \in NameSet, variable \in names
  PROVE  Tidy(<<Item("use", variable, s), Own("declare", "obj", i, s),
                Own("use", "obj", i, s), Item("send", <<i>>, s)>>, j, i, names)
<1> DEFINE v1 == Item("use", variable, s)
           v2 == Own("declare", "obj", i, s)
           v3 == Own("use", "obj", i, s)
           v4 == Item("send", <<i>>, s)
           block == <<v1, v2, v3, v4>>
           inner == Inner(j, i)
<1>0. s \in Seq(Nat) /\ <<i>> \in NameSet /\ <<"tmp">> \in NameSet
  BY MethodScope, OneWord, Vocabulary DEF IsScope
<1>1. v1 \in AllItems /\ v1.op = "use" /\ v1.scope = s /\ v1.name = variable
  BY <1>0, ItemTyped, Vocabulary
<1>2. v2 \in AllItems /\ v2.op = "declare" /\ v2.scope = inner /\ v2.name = <<"obj", i>>
  BY OwnSays, Vocabulary
<1>3. v3 \in AllItems /\ v3.op = "use" /\ v3.scope = inner /\ v3.name = <<"obj", i>>
  BY OwnSays, Vocabulary
<1>4. v4 \in AllItems /\ v4.op = "send"
  BY <1>0, ItemTyped, Vocabulary
<1> HIDE DEF v1, v2, v3, v4, inner
<1>5. block \in Seq(AllItems) /\ Len(block) = 4
  BY <1>1, <1>2, <1>3, <1>4
<1>6. block[1] = v1 /\ block[2] = v2 /\ block[3] = v3 /\ block[4] = v4
  OBVIOUS
<1> HIDE DEF block
<1>7. TidyItem(block, 1, j, i, names)
  BY <1>1, <1>6 DEF TidyItem, IsScope
<1>8. TidyItem(block, 2, j, i, names)
  <2>1. \A l \in 1 .. 2 - 1 : block[l].op = "declare" => block[l].name # v2.name
    <3>1. \A l \in 1 .. 2 - 1 : l = 1
      OBVIOUS
    <3> QED
      BY <3>1, <1>6, <1>1, <1>2, OwnNames, Vocabulary
  <2> QED
    BY <2>1, <1>2, <1>6 DEF TidyItem, inner, Inner
<1>9. TidyItem(block, 3, j, i, names)
  <2>1. 2 \in 1 .. 3 - 1 /\ block[2].op = "declare" /\ block[2].name = v3.name
        /\ block[2].scope = v3.scope
    BY <1>2, <1>3, <1>6
  <2> QED
    BY <2>1, <1>3, <1>6 DEF TidyItem
<1>10. TidyItem(block, 4, j, i, names)
  BY <1>4, <1>6, Vocabulary DEF TidyItem
<1>11. \A k \in 1 .. 4 : k = 1 \/ k = 2 \/ k = 3 \/ k = 4
  OBVIOUS
<1>12. Tidy(block, j, i, names)
  BY <1>5, <1>7, <1>8, <1>9, <1>10, <1>11 DEF Tidy
<1> QED
  BY <1>12 DEF block, v1, v2, v3, v4

\* generateSentExternalBlock,
LEMMA SentExternalTidy ==
  ASSUME NEW j \in Nat, NEW i \in Nat, NEW s, IsScope(s, j), NEW names,
         NEW variable \in NameSet, variable \in names
  PROVE  Tidy(<<Item("use", variable, s), Own("declare", "obj", i, s),
                Own("declare", "serializer", i, s), Own("use", "obj", i, s),
                Own("declare", "data", i, s), Own("use", "serializer", i, s),
                Item("send", <<i>>, s), Own("use", "data", i, s)>>, j, i, names)
<1> DEFINE v1 == Item("use", variable, s)
           v2 == Own("declare", "obj", i, s)
           v3 == Own("declare", "serializer", i, s)
           v4 == Own("use", "obj", i, s)
           v5 == Own("declare", "data", i, s)
           v6 == Own("use", "serializer", i, s)
           v7 == Item("send", <<i>>, s)
           v8 == Own("use", "data", i, s)
           block == <<v1, v2, v3, v4, v5, v6, v7, v8>>
           inner == Inner(j, i)
<1>0. s \in Seq(Nat) /\ <<i>> \in NameSet /\ <<"tmp">> \in NameSet
  BY MethodScope, OneWord, Vocabulary DEF IsScope
<1>1. v1 \in AllItems /\ v1.op = "use" /\ v1.scope = s /\ v1.name = variable
  BY <1>0, ItemTyped, Vocabulary
<1>2. v2 \in AllItems /\ v2.op = "declare" /\ v2.scope = inner /\ v2.name = <<"obj", i>>
  BY OwnSays, Vocabulary
<1>3. v3 \in AllItems /\ v3.op = "declare" /\ v3.scope = inner /\ v3.name = <<"serializer", i>>
  BY OwnSays, Vocabulary
<1>4. v4 \in AllItems /\ v4.op = "use" /\ v4.scope = inner /\ v4.name = <<"obj", i>>
  BY OwnSays, Vocabulary
<1>5. v5 \in AllItems /\ v5.op = "declare" /\ v5.scope = inner /\ v5.name = <<"data", i>>
  BY OwnSays, Vocabulary
<1>6. v6 \in AllItems /\ v6.op = "use" /\ v6.scope = inner /\ v6.name = <<"serializer", i>>
  BY OwnSays, Vocabulary
<1>7. v7 \in AllItems /\ v7.op = "send"
  BY <1>0, ItemTyped, Vocabulary
<1>8. v8 \in AllItems /\ v8.op = "use" /\ v8.scope = inner /\ v8.name = <<"data", i>>
  BY OwnSays, Vocabulary
<1> HIDE DEF v1, v2, v3, v4, v5, v6, v7, v8, inner
<1>9. block \in Seq(AllItems) /\ Len(block) = 8
  BY <1>1, <1>2, <1>3, <1>4, <1>5, <1>6, <1>7, <1>8
<1>10. block[1] = v1 /\ block[2] = v2 /\ block[3] = v3 /\ block[4] = v4
       /\ block[5] = v5 /\ block[6] = v6 /\ block[7] = v7 /\ block[8] = v8
  OBVIOUS
<1> HIDE DEF block
<1>11. TidyItem(block, 1, j, i, names)
  BY <1>1, <1>10 DEF TidyItem, IsScope
<1>12. TidyItem(block, 2, j, i, names)
  <2>1. \A l \in 1 .. 2 - 1 : block[l].op = "declare" => block[l].name # v2.name
    <3>1. \A l \in 1 .. 2 - 1 : l = 1
      OBVIOUS
    <3> QED
      BY <3>1, <1>10, <1>1, <1>2, OwnNames, Vocabulary
  <2> QED
    BY <2>1, <1>2, <1>10 DEF TidyItem, inner, Inner
<1>13. TidyItem(block, 3, j, i, names)
  <2>1. \A l \in 1 .. 3 - 1 : block[l].op = "declare" => block[l].name # v3.name
    <3>1. \A l \in 1 .. 3 - 1 : l = 1 \/ l = 2
      OBVIOUS
    <3> QED
      BY <3>1, <1>10, <1>1, <1>2, <1>3, OwnNames, Vocabulary
  <2> QED
    BY <2>1, <1>3, <1>10 DEF TidyItem, inner, Inner
<1>14. TidyItem(block, 4, j, i, names)
  <2>1. 2 \in 1 .. 4 - 1 /\ block[2].op = "declare" /\ block[2].name = v4.name
        /\ block[2].scope = v4.scope
    BY <1>2, <1>4, <1>10
  <2> QED
    BY <2>1, <1>4, <1>10 DEF TidyItem
<1>15. TidyItem(block, 5, j, i, names)
  <2>1. \A l \in 1 .. 5 - 1 : block[l].op = "declare" => block[l].name # v5.name
    <3>1. \A l \in 1 .. 5 - 1 : l = 1 \/ l = 2 \/ l = 3 \/ l = 4
      OBVIOUS
    <3> QED
      BY <3>1, <1>10, <1>1, <1>2, <1>3, <1>4, <1>5, OwnNames, Vocabulary
  <2> QED
    BY <2>1, <1>5, <1>10 DEF TidyItem, inner, Inner
<1>16. TidyItem(block, 6, j, i, names)
  <2>1. 3 \in 1 .. 6 - 1 /\ block[3].op = "declare" /\ block[3].name = v6.name
        /\ block[3].scope = v6.scope
    BY <1>3, <1>6, <1>10
  <2> QED
    BY <2>1, <1>6, <1>10 DEF TidyItem
<1>17. TidyItem(block, 7, j, i, names)
  BY <1>7, <1>10, Vocabulary DEF TidyItem
<1>18. TidyItem(block, 8, j, i, names)
  <2>1. 5 \in 1 .. 8 - 1 /\ block[5].op = "declare" /\ block[5].name = v8.name
        /\ block[5].scope = v8.scope
    BY <1>5, <1>8, <1>10
  <2> QED
    BY <2>1, <1>8, <1>10 DEF TidyItem
<1>19. \A k \in 1 .. 8 : k = 1 \/ k = 2 \/ k = 3 \/ k = 4 \/ k = 5 \/ k = 6 \/ k = 7 \/ k = 8
  OBVIOUS
<1>20. Tidy(block, j, i, names)
  BY <1>9, <1>11, <1>12, <1>13, <1>14, <1>15, <1>16, <1>17, <1>18, <1>19 DEF Tidy
<1> QED
  BY <1>20 DEF block, v1, v2, v3, v4, v5, v6, v7, v8

\* generateReceiveVtkBlock
LEMMA ReceiveVtkTidy ==
  ASSUME NEW j \in Nat, NEW i \in Nat, NEW s, IsScope(s, j), NEW names, <<"tmp">> \in names
  PROVE  Tidy(<<Use("tmp", s), Own("declare", "obj", i, s),
                Own("declare", "allocated", i, s), Item("receive", <<i>>, s),
                Own("use", "obj", i, s), Own("use", "allocated", i, s)>>, j, i, names)
<1> DEFINE v1 == Use("tmp", s)
           v2 == Own("declare", "obj", i, s)
           v3 == Own("declare", "allocated", i, s)
           v4 == Item("receive", <<i>>, s)
           v5 == Own("use", "obj", i, s)
           v6 == Own("use", "allocated", i, s)
           block == <<v1, v2, v3, v4, v5, v6>>
           inner == Inner(j, i)
<1>0. s \in Seq(Nat) /\ <<i>> \in NameSet /\ <<"tmp">> \in NameSet
  BY MethodScope, OneWord, Vocabulary DEF IsScope
<1>1. v1 \in AllItems /\ v1.op = "use" /\ v1.scope = s /\ v1.name = <<"tmp">>
  BY <1>0, ItemTyped, Vocabulary DEF Use
<1>2. v2 \in AllItems /\ v2.op = "declare" /\ v2.scope = inner /\ v2.name = <<"obj", i>>
  BY OwnSays, Vocabulary
<1>3. v3 \in AllItems /\ v3.op = "declare" /\ v3.scope = inner /\ v3.name = <<"allocated", i>>
  BY OwnSays, Vocabulary
<1>4. v4 \in AllItems /\ v4.op = "receive"
  BY <1>0, ItemTyped, Vocabulary
<1>5. v5 \in AllItems /\ v5.op = "use" /\ v5.scope = inner /\ v5.name = <<"obj", i>>
  BY OwnSays, Vocabulary
<1>6. v6 \in AllItems /\ v6.op = "use" /\ v6.scope = inner /\ v6.name = <<"allocated", i>>
  BY OwnSays, Vocabulary
<1> HIDE DEF v1, v2, v3, v4, v5, v6, inner
<1>7. block \in Seq(AllItems) /\ Len(block) = 6
  BY <1>1, <1>2, <1>3, <1>4, <1>5, <1>6
<1>8. block[1] = v1 /\ block[2] = v2 /\ block[3] = v3 /\ block[4] = v4
      /\ block[5] = v5 /\ block[6] = v6
  OBVIOUS
<1> HIDE DEF block
<1>9. TidyItem(block, 1, j, i, names)
  BY <1>1, <1>8 DEF TidyItem, IsScope
<1>10. TidyItem(block, 2, j, i, names)
  <2>1. \A l \in 1 .. 2 - 1 : block[l].op = "declare" => block[l].name # v2.name
    <3>1. \A l \in 1 .. 2 - 1 : l = 1
      OBVIOUS
    <3> QED
      BY <3>1, <1>8, <1>1, <1>2, OwnNames, Vocabulary
  <2> QED
    BY <2>1, <1>2, <1>8 DEF TidyItem, inner, Inner
<1>11. TidyItem(block, 3, j, i, names)
  <2>1. \A l \in 1 .. 3 - 1 : block[l].op = "declare" => block[l].name # v3.name
    <3>1. \A l \in 1 .. 3 - 1 : l = 1 \/ l = 2
      OBVIOUS
    <3> QED
      BY <3>1, <1>8, <1>1, <1>2, <1>3, OwnNames, Vocabulary
  <2> QED
    BY <2>1, <1>3, <1>8 DEF TidyItem, inner, Inner
<1>12. TidyItem(block, 4, j, i, names)
  BY <1>4, <1>8, Vocabulary DEF TidyItem
<1>13. TidyItem(block, 5, j, i, names)
  <2>1. 2 \in 1 .. 5 - 1 /\ block[2].op = "declare" /\ block[2].name = v5.name
        /\ block[2].scope = v5.scope
    BY <1>2, <1>5, <1>8
  <2> QED
    BY <2>1, <1>5, <1>8 DEF TidyItem
<1>14. TidyItem(block, 6, j, i, names)
  <2>1. 3 \in 1 .. 6 - 1 /\ block[3].op = "declare" /\ block[3].name = v6.name
        /\ block[3].scope = v6.scope
    BY <1>3, <1>6, <1>8
  <2> QED
    BY <2>1, <1>6, <1>8 DEF TidyItem
<1>15. \A k \in 1 .. 6 : k = 1 \/ k = 2 \/ k = 3 \/ k = 4 \/ k = 5 \/ k = 6
  OBVIOUS
<1>16. Tidy(block, j, i, names)
  BY <1>7, <1>9, <1>10, <1>11, <1>12, <1>13, <1>14, <1>15 DEF Tidy
<1> QED
  BY <1>16 DEF block, v1, v2, v3, v4, v5, v6

\* and generateReceiveExternalBlock.
LEMMA ReceiveExternalTidy ==
  ASSUME NEW j \in Nat, NEW i \in Nat, NEW s, IsScope(s, j), NEW names, <<"tmp">> \in names
  PROVE  Tidy(<<Use("tmp", s), Own("declare", "data", i, s), Item("receive", <<i>>, s),
                Own("declare", "obj", i, s), Own("declare", "allocated", i, s),
                Own("declare", "deserializer", i, s), Own("use", "obj", i, s),
                Own("use", "deserializer", i, s), Own("use", "data", i, s),
                Own("use", "allocated", i, s)>>, j, i, names)
<1> DEFINE v1 == Use("tmp", s)
           v2 == Own("declare", "data", i, s)
           v3 == Item("receive", <<i>>, s)
           v4 == Own("declare", "obj", i, s)
           v5 == Own("declare", "allocated", i, s)
           v6 == Own("declare", "deserializer", i, s)
           v7 == Own("use", "obj", i, s)
           v8 == Own("use", "deserializer", i, s)
           v9 == Own("use", "data", i, s)
           v10 == Own("use", "allocated", i, s)
           block == <<v1, v2, v3, v4, v5, v6, v7, v8, v9, v10>>
           inner == Inner(j, i)
<1>0. s \in Seq(Nat) /\ <<i>> \in NameSet /\ <<"tmp">> \in NameSet
  BY MethodScope, OneWord, Vocabulary DEF IsScope
<1>1. v1 \in AllItems /\ v1.op = "use" /\ v1.scope = s /\ v1.name = <<"tmp">>
  <2> DEFINE name == <<"tmp">>
  <2>1. name \in NameSet /\ "use" \in Ops /\ v1 = Item("use", name, s)
    BY <1>0, Vocabulary DEF Use
  <2> HIDE DEF name, v1
  <2>2. v1 \in AllItems /\ v1.op = "use" /\ v1.scope = s /\ v1.name = name
    BY <1>0, <2>1, ItemTyped
  <2> QED
    BY <2>2 DEF name
<1>2. v2 \in AllItems /\ v2.op = "declare" /\ v2.scope = inner /\ v2.name = <<"data", i>>
  BY OwnSays, Vocabulary
<1>3. v3 \in AllItems /\ v3.op = "receive"
  BY <1>0, ItemTyped, Vocabulary
<1>4. v4 \in AllItems /\ v4.op = "declare" /\ v4.scope = inner /\ v4.name = <<"obj", i>>
  BY OwnSays, Vocabulary
<1>5. v5 \in AllItems /\ v5.op = "declare" /\ v5.scope = inner /\ v5.name = <<"allocated", i>>
  BY OwnSays, Vocabulary
<1>6. v6 \in AllItems /\ v6.op = "declare" /\ v6.scope = inner /\ v6.name = <<"deserializer", i>>
  BY OwnSays, Vocabulary
<1>7. v7 \in AllItems /\ v7.op = "use" /\ v7.scope = inner /\ v7.name = <<"obj", i>>
  BY OwnSays, Vocabulary
<1>8. v8 \in AllItems /\ v8.op = "use" /\ v8.scope = inner /\ v8.name = <<"deserializer", i>>
  BY OwnSays, Vocabulary
<1>9. v9 \in AllItems /\ v9.op = "use" /\ v9.scope = inner /\ v9.name = <<"data", i>>
  BY OwnSays, Vocabulary
<1>10. v10 \in AllItems /\ v10.op = "use" /\ v10.scope = inner /\ v10.name = <<"allocated", i>>
  BY OwnSays, Vocabulary
<1> HIDE DEF v1, v2, v3, v4, v5, v6, v7, v8, v9, v10, inner
<1>11. block \in Seq(AllItems) /\ Len(block) = 10
  BY <1>1, <1>2, <1>3, <1>4, <1>5, <1>6, <1>7, <1>8, <1>9, <1>10
<1>12. block[1] = v1 /\ block[2] = v2 /\ block[3] = v3 /\ block[4] = v4
       /\ block[5] = v5 /\ block[6] = v6 /\ block[7] = v7 /\ block[8] = v8
       /\ block[9] = v9 /\ block[10] = v10
  OBVIOUS
<1> HIDE DEF block
<1>13. TidyItem(block, 1, j, i, names)
  BY <1>1, <1>12 DEF TidyItem, IsScope
<1>14. TidyItem(block, 2, j, i, names)
  <2>1. \A l \in 1 .. 2 - 1 : block[l].op = "declare" => block[l].name # v2.name
    <3>1. \A l \in 1 .. 2 - 1 : l = 1
      OBVIOUS
    <3> QED
      BY <3>1, <1>12, <1>1, <1>2, OwnNames, Vocabulary
  <2> QED
    BY <2>1, <1>2, <1>12 DEF TidyItem, inner, Inner
<1>15. TidyItem(block, 3, j, i, names)
  BY <1>3, <1>12, Vocabulary DEF TidyItem
<1>16. TidyItem(block, 4, j, i, names)
  <2>1. \A l \in 1 .. 4 - 1 : block[l].op = "declare" => block[l].name # v4.name
    <3>1. \A l \in 1 .. 4 - 1 : l = 1 \/ l = 2 \/ l = 3
      OBVIOUS
    <3> QED
      BY <3>1, <1>12, <1>1, <1>2, <1>3, <1>4, OwnNames, Vocabulary
  <2> QED
    BY <2>1, <1>4, <1>12 DEF TidyItem, inner, Inner
<1>17. TidyItem(block, 5, j, i, names)
  <2>1. \A l \in 1 .. 5 - 1 : block[l].op = "declare" => block[l].name # v5.name
    <3>1. \A l \in 1 .. 5 - 1 : l = 1 \/ l = 2 \/ l = 3 \/ l = 4
      OBVIOUS
    <3> QED
      BY <3>1, <1>12, <1>1, <1>2, <1>3, <1>4, <1>5, OwnNames, Vocabulary
  <2> QED
    BY <2>1, <1>5, <1>12 DEF TidyItem, inner, Inner
<1>18. TidyItem(block, 6, j, i, names)
  <2>1. \A l \in 1 .. 6 - 1 : block[l].op = "declare" => block[l].name # v6.name
    <3>1. \A l \in 1 .. 6 - 1 : l = 1 \/ l = 2 \/ l = 3 \/ l = 4 \/ l = 5
      OBVIOUS
    <3> QED
      BY <3>1, <1>12, <1>1, <1>2, <1>3, <1>4, <1>5, <1>6, OwnNames, Vocabulary
  <2> QED
    BY <2>1, <1>6, <1>12 DEF TidyItem, inner, Inner
<1>19. TidyItem(block, 7, j, i, names)
  <2>1. 4 \in 1 .. 7 - 1 /\ block[4].op = "declare" /\ block[4].name = v7.name
        /\ block[4].scope = v7.scope
    BY <1>4, <1>7, <1>12
  <2> QED
    BY <2>1, <1>7, <1>12 DEF TidyItem
<1>20. TidyItem(block, 8, j, i, names)
  <2>1. 6 \in 1 .. 8 - 1 /\ block[6].op = "declare" /\ block[6].name = v8.name
        /\ block[6].scope = v8.scope
    BY <1>6, <1>8, <1>12
  <2> QED
    BY <2>1, <1>8, <1>12 DEF TidyItem
<1>21. TidyItem(block, 9, j, i, names)
  <2>1. 2 \in 1 .. 9 - 1 /\ block[2].op = "declare" /\ block[2].name = v9.name
        /\ block[2].scope = v9.scope
    BY <1>2, <1>9, <1>12
  <2> QED
    BY <2>1, <1>9, <1>12 DEF TidyItem
<1>22. TidyItem(block, 10, j, i, names)
  <2>1. 5 \in 1 .. 10 - 1 /\ block[5].op = "declare" /\ block[5].name = v10.name
        /\ block[5].scope = v10.scope
    BY <1>5, <1>10, <1>12
  <2> QED
    BY <2>1, <1>10, <1>12 DEF TidyItem
<1>23. \A k \in 1 .. 10 : k = 1 \/ k = 2 \/ k = 3 \/ k = 4 \/ k = 5
                          \/ k = 6 \/ k = 7 \/ k = 8 \/ k = 9 \/ k = 10
  OBVIOUS
<1>24. Tidy(block, j, i, names)
  BY <1>11, <1>13, <1>14, <1>15, <1>16, <1>17, <1>18, <1>19, <1>20, <1>21, <1>22, <1>23 DEF Tidy
<1> QED
  BY <1>24 DEF block, v1, v2, v3, v4, v5, v6, v7, v8, v9, v10

\* Items of other kinds are not rejected.
LEMMA NeutralChecks ==
  ASSUME NEW items \in Seq(AllItems), \A k \in 1 .. Len(items) : items[k].op \notin Plain, NEW A
  PROVE  Checks(items, A, A, {})
<1>1. Len(items) \in Nat
  BY LenProperties
<1>2. \A k \in 1 .. Len(items) : items[k].op # "use" /\ items[k].op # "declare"
  BY DEF Plain
<1>3. Declared(items, Len(items)) = {}
  BY <1>2 DEF Declared
<1>4. \A D : Faults(items, D) = {}
  BY <1>2 DEF Faults, Rejected
<1>5. ASSUME NEW D \in A PROVE Faults(items, D) = {} /\ D \cup Declared(items, Len(items)) \in A
  <2>1. D \cup Declared(items, Len(items)) = D
    BY <1>3
  <2> QED
    BY <1>4, <2>1
<1> QED
  BY <1>5 DEF Checks

\* One such item.
LEMMA NeutralItem ==
  ASSUME NEW op \in Ops, op \notin Plain, NEW name \in NameSet, NEW scope \in Seq(Nat), NEW A
  PROVE  Checks(<<Item(op, name, scope)>>, A, A, {})
<1> DEFINE item == Item(op, name, scope)
           x == <<item>>
<1>1. item \in AllItems /\ item.op = op
  BY ItemTyped
<1> HIDE DEF item
<1>2. x \in Seq(AllItems) /\ \A k \in 1 .. Len(x) : x[k].op \notin Plain
  BY <1>1
<1> HIDE DEF x
<1>3. Checks(x, A, A, {})
  BY <1>2, NeutralChecks
<1> QED
  BY <1>3 DEF x, item

\* The items of a list, one by one.
Lists(items, op, names, scope) ==
  /\ items \in Seq(AllItems) /\ Len(items) = Len(names) /\ Len(names) \in Nat
  /\ \A k \in 1 .. Len(names) :
       /\ names[k] \in Words /\ items[k] \in AllItems /\ items[k].op = op
       /\ items[k].name = <<names[k]>> /\ items[k].scope = scope

\* A list has an item for each of its names.
LEMMA ListItems ==
  ASSUME NEW op \in Ops, NEW names \in Seq(Words), NEW scope \in Seq(Nat)
  PROVE  Lists(Items(op, names, scope), op, names, scope)
<1>1. DOMAIN names = 1 .. Len(names) /\ Len(names) \in Nat
      /\ \A k \in 1 .. Len(names) : names[k] \in Words
  BY LenProperties, ElementOfSeq
<1>2. Items(op, names, scope) \in Seq(AllItems)
  BY ItemsNames
<1> DEFINE items == Items(op, names, scope)
<1>3. \A k \in 1 .. Len(names) :
        items[k].op = op /\ items[k].name = <<names[k]>> /\ items[k].scope = scope
  BY <1>1 DEF Items, Item
<1>4. DOMAIN items = 1 .. Len(names)
  BY <1>1 DEF Items
<1> HIDE DEF items
<1>5. items \in Seq(AllItems)
  BY <1>2 DEF items
<1>6. Len(items) = Len(names)
  BY <1>1, <1>4, <1>5, LenProperties
<1>7. \A k \in 1 .. Len(names) : items[k] \in AllItems
  BY <1>5, <1>6, ElementOfSeq
<1> QED
  BY <1>1, <1>3, <1>5, <1>6, <1>7 DEF items, Lists

\* Uses are rejected that are not seen.
Unseen(names, seen, scope) ==
  {<<names[k], scope>> : k \in {k \in 1 .. Len(names) : <<names[k]>> \notin seen}}

\* Uses of a list of names have a fault for each name that is not seen.
LEMMA UsesCheck ==
  ASSUME NEW j \in Nat, NEW s, IsScope(s, j), NEW P, NEW W, NEW F, NEW names \in Seq(Words)
  PROVE  Checks(Items("use", names, s), Ready(j, P, W, F), Ready(j, P, W, F),
                Unseen(names, P \cup W, s))
<1> DEFINE items == Items("use", names, s)
           n == Len(names)
<1>1. s \in Seq(Nat)
  BY MethodScope DEF IsScope
<1>2. /\ items \in Seq(AllItems) /\ Len(items) = n /\ n \in Nat
      /\ \A k \in 1 .. n : /\ names[k] \in Words /\ items[k] \in AllItems
                           /\ items[k].op = "use" /\ items[k].name = <<names[k]>>
                           /\ items[k].scope = s
  <2>1. "use" \in Ops
    BY Vocabulary
  <2> QED
    BY <1>1, <2>1, ListItems DEF Lists
<1> HIDE DEF items, n
<1>3. \A k \in 0 .. n : Declared(items, k) = {}
  <2> SUFFICES ASSUME NEW k \in 0 .. n, NEW i \in 1 .. k PROVE items[i].op # "declare"
    BY DEF Declared
  <2>1. i \in 1 .. n
    BY <1>2
  <2> QED
    BY <1>2, <2>1
<1>4. \A k \in 1 .. n : Mark(items[k]) = <<names[k], s>>
  BY <1>2 DEF Mark
<1>5. ASSUME NEW D \in Ready(j, P, W, F)
      PROVE  /\ Faults(items, D) = Unseen(names, P \cup W, s)
             /\ D \cup Declared(items, Len(items)) \in Ready(j, P, W, F)
  <2>1. \A k \in 1 .. n :
          Rejected(items[k], D \cup Declared(items, k - 1)) <=> <<names[k]>> \notin P \cup W
    <3> SUFFICES ASSUME NEW k \in 1 .. n
                 PROVE  Rejected(items[k], D \cup Declared(items, k - 1))
                          <=> <<names[k]>> \notin P \cup W
      OBVIOUS
    <3> DEFINE item == items[k]
    <3>1. k - 1 \in 0 .. n
      BY <1>2
    <3>2. D \cup Declared(items, k - 1) = D
      BY <1>3, <3>1
    <3>3. item \in AllItems /\ item.scope = <<j>> /\ item.op = "use" /\ item.name = <<names[k]>>
      BY <1>2 DEF IsScope
    <3> HIDE DEF item
    <3>4. Rejected(item, D) <=> <<names[k]>> \notin P \cup W
      BY <3>3, Visibility DEF Rejected
    <3> QED
      BY <3>2, <3>4 DEF item
  <2>2. Faults(items, D) \subseteq Unseen(names, P \cup W, s)
    <3> SUFFICES ASSUME NEW k \in 1 .. n, Rejected(items[k], D \cup Declared(items, k - 1))
                 PROVE  Mark(items[k]) \in Unseen(names, P \cup W, s)
      BY <1>2 DEF Faults
    <3> QED
      BY <1>4, <2>1 DEF Unseen, n
  <2>3. Unseen(names, P \cup W, s) \subseteq Faults(items, D)
    <3> SUFFICES ASSUME NEW k \in 1 .. n, <<names[k]>> \notin P \cup W
                 PROVE  <<names[k], s>> \in Faults(items, D)
      BY DEF Unseen, n
    <3> QED
      BY <1>2, <1>4, <2>1 DEF Faults
  <2>4. D \cup Declared(items, Len(items)) = D
    <3>1. n \in 0 .. n
      BY <1>2
    <3> QED
      BY <1>2, <1>3, <3>1
  <2> QED
    BY <2>2, <2>3, <2>4
<1> QED
  BY <1>2, <1>5 DEF Checks, items

Called(words) == {<<word>> : word \in words}

\* Parameters of different names.
LEMMA DeclaresAre ==
  ASSUME NEW names \in Seq(Words), Injective(names), NEW scope \in Seq(Nat),
         NEW D, D \subseteq AllItems, \A d \in D : d.scope # scope
  PROVE  LET items == Items("declare", names, scope)
             all == D \cup Declared(items, Len(items))
         IN  /\ items \in Seq(AllItems) /\ Faults(items, D) = {} /\ all \subseteq AllItems
             /\ \A d \in all : d \in D \/ d.scope = scope
             /\ D \subseteq all /\ DeclaredIn(all, scope) = Called(Range(names))
<1> DEFINE items == Items("declare", names, scope)
           n == Len(names)
           new == Declared(items, Len(items))
           all == D \cup new
<1>1. /\ items \in Seq(AllItems) /\ Len(items) = n /\ n \in Nat
      /\ \A k \in 1 .. n : /\ names[k] \in Words /\ items[k] \in AllItems
                           /\ items[k].op = "declare" /\ items[k].name = <<names[k]>>
                           /\ items[k].scope = scope
  <2>1. "declare" \in Ops
    BY Vocabulary
  <2> QED
    BY <2>1, ListItems DEF Lists
<1>2. DOMAIN names = 1 .. n
  BY LenProperties
<1> HIDE DEF items
<1>3. Faults(items, D) = {}
  <2> SUFFICES ASSUME NEW k \in 1 .. n, Rejected(items[k], D \cup Declared(items, k - 1))
               PROVE  FALSE
    BY <1>1 DEF Faults
  <2>1. items[k].op = "declare" /\ items[k].op # "use"
    BY <1>1
  <2>2. PICK d \in D \cup Declared(items, k - 1) :
          d.name = items[k].name /\ d.scope = items[k].scope
    BY <2>1 DEF Rejected, Clashes
  <2>3. d \notin D
    BY <1>1, <2>2
  <2>4. PICK i \in 1 .. k - 1 : d = items[i]
    BY <2>2, <2>3 DEF Declared
  <2>5. i \in 1 .. n /\ i # k
    BY <1>1
  <2>6. <<names[i]>> = <<names[k]>>
    BY <1>1, <2>2, <2>4, <2>5
  <2>7. names[i] = names[k]
    BY <2>6
  <2> QED
    BY <2>5, <2>7 DEF Injective, n
<1> HIDE DEF n
<1>4. new = {items[k] : k \in 1 .. n}
  BY <1>1 DEF Declared
<1> HIDE DEF new
<1>5. all \subseteq AllItems /\ D \subseteq all /\ \A d \in all : d \in D \/ d.scope = scope
  BY <1>1, <1>4
<1>6. DeclaredIn(all, scope) = Called(Range(names))
  <2>1. \A d \in all : d.scope = scope => \E k \in 1 .. n : d.name = <<names[k]>>
    BY <1>1, <1>4
  <2>2. \A k \in 1 .. n : \E d \in all : d.scope = scope /\ d.name = <<names[k]>>
    BY <1>1, <1>4
  <2>3. Called(Range(names)) = {<<names[k]>> : k \in 1 .. n}
    BY <1>2 DEF Called, Range
  <2> HIDE DEF all
  <2>4. DeclaredIn(all, scope) \subseteq {<<names[k]>> : k \in 1 .. n}
    BY <2>1 DEF DeclaredIn
  <2>5. {<<names[k]>> : k \in 1 .. n} \subseteq DeclaredIn(all, scope)
    BY <2>2 DEF DeclaredIn
  <2> QED
    BY <2>3, <2>4, <2>5
<1> QED
  BY <1>1, <1>3, <1>5, <1>6 DEF items, new, all

\* Items in turn.
LEMMA InTurn ==
  ASSUME NEW a, NEW b, NEW c, NEW A, NEW B, NEW C, NEW D, NEW e,
         Checks(<<a>>, A, B, {}), Checks(<<b>>, B, C, {})
  PROVE  /\ Checks(<<a, b>>, A, C, {})
         /\ Checks(<<c>>, C, D, e) => Checks(<<a, b, c>>, A, D, e)
<1>1. ASSUME NEW x, NEW X, NEW Y, NEW f, Checks(<<x>>, X, Y, f) PROVE x \in AllItems
  <2>1. <<x>> \in Seq(AllItems)
    BY <1>1 DEF Checks
  <2>2. Len(<<x>>) = 1 /\ <<x>>[1] = x
    OBVIOUS
  <2> QED
    BY <2>1, <2>2, ElementOfSeq
<1>2. a \in AllItems /\ b \in AllItems
  BY <1>1
<1>3. <<a>> \o <<b>> = <<a, b>>
  BY <1>2, Literals
<1>4. Checks(<<a, b>>, A, C, {})
  BY <1>3, ChecksThen
<1>5. ASSUME Checks(<<c>>, C, D, e) PROVE Checks(<<a, b, c>>, A, D, e)
  <2>1. c \in AllItems
    BY <1>1, <1>5
  <2>2. <<a, b>> \o <<c>> = <<a, b, c>>
    BY <1>2, <2>1, Literals
  <2> QED
    BY <1>4, <1>5, <2>2, ChecksThen
<1> QED
  BY <1>4, <1>5

\* Longer lists are made of shorter ones.
LEMMA LongerLists ==
  ASSUME NEW a \in AllItems, NEW b \in AllItems, NEW c \in AllItems, NEW d \in AllItems
  PROVE  /\ <<a, b, c>> \o <<d>> = <<a, b, c, d>>
         /\ \A f, g \in AllItems : <<a, b, c>> \o <<d, f, g>> = <<a, b, c, d, f, g>>
<1> DEFINE x == <<a, b, c>>
           y == <<a, b, c, d>>
<1>1. /\ x \in Seq(AllItems) /\ Len(x) = 3 /\ x[1] = a /\ x[2] = b /\ x[3] = c
      /\ y \in Seq(AllItems) /\ Len(y) = 4 /\ y[1] = a /\ y[2] = b /\ y[3] = c /\ y[4] = d
  OBVIOUS
<1>2. x \o <<d>> = y
  <2> HIDE DEF x, y
  <2>1. \A k \in 1 .. 3 : y[k] = x[k]
    <3> SUFFICES ASSUME NEW k \in 1 .. 3 PROVE y[k] = x[k]
      OBVIOUS
    <3>1. k = 1 \/ k = 2 \/ k = 3
      OBVIOUS
    <3> QED
      BY <1>1, <3>1
  <2>2. /\ Len(y) = Len(x) + 1 /\ y[Len(x) + 1] = d
        /\ \A k \in 1 .. Len(x) : y[k] = x[k]
    BY <1>1, <2>1
  <2>3. x \in Seq(AllItems) /\ y \in Seq(AllItems)
    BY <1>1
  <2> QED
    BY <2>2, <2>3, AppendIs
<1>3. ASSUME NEW f \in AllItems, NEW g \in AllItems
      PROVE  x \o <<d, f, g>> = <<a, b, c, d, f, g>>
  <2> DEFINE u == <<d, f, g>>
             v == <<a, b, c, d, f, g>>
             w == x \o u
  <2>1. u \in Seq(AllItems) /\ Len(u) = 3 /\ u[1] = d /\ u[2] = f /\ u[3] = g
    OBVIOUS
  <2>2. /\ v \in Seq(AllItems) /\ Len(v) = 6 /\ v[1] = a /\ v[2] = b /\ v[3] = c /\ v[4] = d
        /\ v[5] = f /\ v[6] = g
    OBVIOUS
  <2> HIDE DEF x, u, v
  <2>3. x \in Seq(AllItems) /\ u \in Seq(AllItems) /\ Len(x) = 3 /\ Len(u) = 3
    BY <1>1, <2>1
  <2>4. /\ w \in Seq(AllItems) /\ Len(w) = Len(x) + Len(u)
        /\ \A k \in 1 .. Len(x) + Len(u) : w[k] = IF k <= Len(x) THEN x[k] ELSE u[k - Len(x)]
    BY <2>3, ConcatProperties
  <2> HIDE DEF w
  <2>5. /\ w \in Seq(AllItems) /\ Len(w) = 6
        /\ \A k \in 1 .. 6 : w[k] = IF k <= 3 THEN x[k] ELSE u[k - 3]
    BY <2>3, <2>4
  <2>6. w[1] = a /\ w[2] = b /\ w[3] = c /\ w[4] = d /\ w[5] = f /\ w[6] = g
    BY <1>1, <2>1, <2>5
  <2>7. \A k \in 1 .. Len(w) : w[k] = v[k]
    <3> SUFFICES ASSUME NEW k \in 1 .. 6 PROVE w[k] = v[k]
      BY <2>5
    <3>1. k = 1 \/ k = 2 \/ k = 3 \/ k = 4 \/ k = 5 \/ k = 6
      OBVIOUS
    <3> QED
      BY <2>2, <2>6, <3>1
  <2>8. w = v
    BY <2>2, <2>5, <2>7, SeqEqual
  <2> QED
    BY <2>8 DEF u, v, w, x
<1> QED
  BY <1>2, <1>3 DEF x, y

\* Declarations and uses of single words.
LEMMA WordDeclared ==
  ASSUME NEW j \in Nat, NEW s, IsScope(s, j), NEW P, NEW W, NEW F,
         NEW word \in Words
  PROVE  Checks(<<Declare(word, s)>>, Ready(j, P, W, F), Ready(j, P, W \cup {<<word>>}, F),
                IF <<word>> \in W THEN {<<word, s>>} ELSE {})
<1> DEFINE name == <<word>>
<1>1. name \in NameSet /\ name[1] = word
  BY OneWord
<1> HIDE DEF name
<1>2. Checks(<<Item("declare", name, <<j>>)>>, Ready(j, P, W, F), Ready(j, P, W \cup {name}, F),
             IF name \in W THEN {<<name[1], <<j>>>>} ELSE {})
  BY <1>1, DeclareChecks
<1>3. Declare(word, s) = Item("declare", name, <<j>>)
  BY DEF Declare, name, IsScope
<1>4. (IF name \in W THEN {<<name[1], <<j>>>>} ELSE {}) = IF name \in W THEN {<<word, s>>} ELSE {}
  BY <1>1 DEF IsScope
<1> QED
  BY <1>2, <1>3, <1>4 DEF name

\* A use of a single word that is seen.
LEMMA WordUsed ==
  ASSUME NEW j \in Nat, NEW s, IsScope(s, j), NEW P, NEW W, NEW F,
         NEW word \in Words, <<word>> \in P \cup W
  PROVE  Checks(<<Use(word, s)>>, Ready(j, P, W, F), Ready(j, P, W, F), {})
<1> DEFINE name == <<word>>
<1>1. name \in NameSet /\ name \in P \cup W
  BY OneWord
<1> HIDE DEF name
<1>2. Checks(<<Item("use", name, <<j>>)>>, Ready(j, P, W, F), Ready(j, P, W, F),
             IF name \in P \cup W THEN {} ELSE {<<name[1], <<j>>>>})
  BY <1>1, UseChecks
<1>3. Use(word, s) = Item("use", name, <<j>>)
  BY DEF Use, name, IsScope
<1>4. (IF name \in P \cup W THEN {} ELSE {<<name[1], <<j>>>>}) = {}
  BY <1>1
<1> QED
  BY <1>2, <1>3, <1>4

\* What is sent for the fields of a kind is not rejected, if the message is seen,
LEMMA SentVtkChecks ==
  ASSUME NEW type \in Messages, NEW variable \in NameSet, NEW j \in Nat, NEW s, IsScope(s, j),
         NEW P, NEW W, variable \in P \cup W, NEW F, F \subseteq Nat,
         Range(FieldsOf(type, "vtk")) \cap F = {}
  PROVE  Checks(SentVtkBlock(variable, type, s), Ready(j, P, W, F),
                Ready(j, P, W, F \cup Range(FieldsOf(type, "vtk"))), {})
<1> DEFINE fields == FieldsOf(type, "vtk")
           Block(i) == <<Item("use", variable, s), Own("declare", "obj", i, s),
                         Own("use", "obj", i, s), Item("send", <<i>>, s)>>
           blocks == [k \in DOMAIN fields |-> Block(fields[k])]
           Text == [i \in Nat |-> Block(i)]
<1>1. fields \in Seq(Nat) /\ Injective(fields) /\ Range(fields) \cap F = {}
  BY FieldsTyped, FieldsOnce
<1>2. SentVtkBlock(variable, type, s) = FlattenSeq(blocks)
  BY DEF SentVtkBlock, ForFields
<1>3. \A i \in Nat : Tidy(Block(i), j, i, P \cup W)
  BY SentVtkTidy
<1> HIDE DEF fields, Block
<1>4. \A i \in Nat : Tidy(Text[i], j, i, P \cup W)
  BY <1>3
<1>5. IsForEach(blocks, fields, Text)
  BY <1>1, ElementOfSeq, LenProperties DEF IsForEach
<1> HIDE DEF Text, blocks
<1>6. Checks(FlattenSeq(blocks), Ready(j, P, W, F), Ready(j, P, W, F \cup Range(fields)), {})
  BY <1>1, <1>4, <1>5, FieldsCheck
<1> QED
  BY <1>2, <1>6 DEF fields

\* External objects are sent by blocks without faults,
LEMMA SentExternalChecks ==
  ASSUME NEW type \in Messages, NEW variable \in NameSet, NEW j \in Nat, NEW s, IsScope(s, j),
         NEW P, NEW W, variable \in P \cup W, NEW F, F \subseteq Nat,
         Range(FieldsOf(type, "external")) \cap F = {}
  PROVE  Checks(SentExternalBlock(variable, type, s), Ready(j, P, W, F),
                Ready(j, P, W, F \cup Range(FieldsOf(type, "external"))), {})
<1> DEFINE fields == FieldsOf(type, "external")
           Block(i) == <<Item("use", variable, s), Own("declare", "obj", i, s),
                         Own("declare", "serializer", i, s), Own("use", "obj", i, s),
                         Own("declare", "data", i, s), Own("use", "serializer", i, s),
                         Item("send", <<i>>, s), Own("use", "data", i, s)>>
           blocks == [k \in DOMAIN fields |-> Block(fields[k])]
           Text == [i \in Nat |-> Block(i)]
<1>1. fields \in Seq(Nat) /\ Injective(fields) /\ Range(fields) \cap F = {}
  BY FieldsTyped, FieldsOnce
<1>2. SentExternalBlock(variable, type, s) = FlattenSeq(blocks)
  BY DEF SentExternalBlock, ForFields
<1>3. \A i \in Nat : Tidy(Block(i), j, i, P \cup W)
  BY SentExternalTidy
<1> HIDE DEF fields, Block
<1>4. \A i \in Nat : Tidy(Text[i], j, i, P \cup W)
  BY <1>3
<1>5. IsForEach(blocks, fields, Text)
  BY <1>1, ElementOfSeq, LenProperties DEF IsForEach
<1> HIDE DEF Text, blocks
<1>6. Checks(FlattenSeq(blocks), Ready(j, P, W, F), Ready(j, P, W, F \cup Range(fields)), {})
  BY <1>1, <1>4, <1>5, FieldsCheck
<1> QED
  BY <1>2, <1>6 DEF fields

\* What is received is kept in tmp, which is declared again if it was before.
MutableNames(mutable) == {<<mutable>>, <<"tmp">>}
TmpAgain(W, s) == IF <<"tmp">> \in W THEN {<<"tmp", s>>} ELSE {}

\* A message is made mutable by variables of the method, of which tmp may be there.
LEMMA MutableChecks ==
  ASSUME NEW variable \in Words, NEW mutable \in Words, mutable # "tmp",
         NEW j \in Nat, NEW s, IsScope(s, j),
         NEW P, NEW W, <<variable>> \in P \cup W, <<mutable>> \notin W, NEW F
  PROVE  Checks(MutableMessage(variable, mutable, s), Ready(j, P, W, F),
                Ready(j, P, W \cup MutableNames(mutable), F), TmpAgain(W, s))
<1> DEFINE a == Declare(mutable, s)
           b == Use(variable, s)
           c == Declare("tmp", s)
           d == Use(mutable, s)
           V == W \cup {<<mutable>>}
           X == V \cup {<<"tmp">>}
<1>1. MutableMessage(variable, mutable, s) = <<a, b, c, d>>
  BY DEF MutableMessage
<1>2. Checks(<<a>>, Ready(j, P, W, F), Ready(j, P, V, F), {})
  <2>1. Checks(<<a>>, Ready(j, P, W, F), Ready(j, P, V, F),
               IF <<mutable>> \in W THEN {<<mutable, s>>} ELSE {})
    BY WordDeclared
  <2>2. (IF <<mutable>> \in W THEN {<<mutable, s>>} ELSE {}) = {}
    OBVIOUS
  <2> QED
    BY <2>1, <2>2
<1>3. <<variable>> \in P \cup V /\ <<mutable>> \in P \cup X /\ X = W \cup MutableNames(mutable)
  BY DEF MutableNames
<1> HIDE DEF a, b, c, d
<1>4. Checks(<<b>>, Ready(j, P, V, F), Ready(j, P, V, F), {})
  <2> HIDE DEF V
  <2> QED
    BY <1>3, WordUsed DEF b
<1>5. Checks(<<c>>, Ready(j, P, V, F), Ready(j, P, X, F), TmpAgain(W, s))
  <2>1. <<"tmp">> \in V <=> <<"tmp">> \in W
    <3>1. <<"tmp">> # <<mutable>>
      OBVIOUS
    <3> QED
      BY <3>1
  <2> HIDE DEF V
  <2>2. Checks(<<c>>, Ready(j, P, V, F), Ready(j, P, X, F),
               IF <<"tmp">> \in V THEN {<<"tmp", s>>} ELSE {})
    BY WordDeclared, Vocabulary DEF c
  <2>3. TmpAgain(W, s) = IF <<"tmp">> \in V THEN {<<"tmp", s>>} ELSE {}
    BY <2>1 DEF TmpAgain
  <2> QED
    BY <2>2, <2>3
<1> HIDE DEF X
<1>6. Checks(<<d>>, Ready(j, P, X, F), Ready(j, P, X, F), {})
  BY <1>3, WordUsed DEF d
<1> HIDE DEF V
<1>7. Checks(<<a, b, c>>, Ready(j, P, W, F), Ready(j, P, X, F), TmpAgain(W, s))
  BY <1>2, <1>4, <1>5, InTurn
<1>8. <<a, b, c>> \o <<d>> = <<a, b, c, d>>
  <2>1. a \in AllItems /\ b \in AllItems /\ c \in AllItems /\ d \in AllItems
    <3>1. s \in Seq(Nat)
      BY MethodScope DEF IsScope
    <3> QED
      BY <3>1, PlainItems, Vocabulary DEF IsPlain, a, b, c, d
  <2> QED
    BY <2>1, LongerLists
<1>9. Checks(<<a, b, c>> \o <<d>>, Ready(j, P, W, F), Ready(j, P, X, F), TmpAgain(W, s))
  BY <1>6, <1>7, ChecksThen
<1> QED
  BY <1>1, <1>3, <1>8, <1>9

\* What the blocks leave that receive fields.
Kept(fields, mutable) == IF fields = <<>> THEN {} ELSE MutableNames(mutable)
Again(fields, W, s) == IF fields = <<>> THEN {} ELSE TmpAgain(W, s)

\* and what is received is not rejected but for tmp,
LEMMA ReceiveVtkChecks ==
  ASSUME NEW type \in Messages, NEW variable \in Words, NEW j \in Nat, NEW s, IsScope(s, j),
         NEW P, NEW W, <<variable>> \in P \cup W, <<"mut">> \notin W, NEW F, F \subseteq Nat,
         NEW fields, fields = FieldsOf(type, "vtk"), Range(fields) \cap F = {}
  PROVE  Checks(ReceiveVtkBlock(variable, type, s), Ready(j, P, W, F),
                Ready(j, P, W \cup Kept(fields, "mut"), F \cup Range(fields)), Again(fields, W, s))
<1> DEFINE Block(i) == <<Use("tmp", s), Own("declare", "obj", i, s),
                         Own("declare", "allocated", i, s), Item("receive", <<i>>, s),
                         Own("use", "obj", i, s), Own("use", "allocated", i, s)>>
           blocks == [k \in DOMAIN fields |-> Block(fields[k])]
           Text == [i \in Nat |-> Block(i)]
           head == MutableMessage(variable, "mut", s)
           V == W \cup MutableNames("mut")
<1>1. fields \in Seq(Nat) /\ Injective(fields)
  BY FieldsTyped, FieldsOnce
<1>2. ReceiveVtkBlock(variable, type, s)
        = IF fields = <<>> THEN <<>> ELSE head \o FlattenSeq(blocks)
  BY DEF ReceiveVtkBlock, ForFields
<1>3. <<"tmp">> \in P \cup V
  BY DEF MutableNames
<1> HIDE DEF V
<1>4. \A i \in Nat : Tidy(Block(i), j, i, P \cup V)
  BY <1>3, ReceiveVtkTidy
<1> HIDE DEF Block
<1>5. \A i \in Nat : Tidy(Text[i], j, i, P \cup V)
  BY <1>4
<1>6. IsForEach(blocks, fields, Text)
  BY <1>1, ElementOfSeq, LenProperties DEF IsForEach
<1> HIDE DEF Text, blocks
<1>7. Checks(FlattenSeq(blocks), Ready(j, P, V, F), Ready(j, P, V, F \cup Range(fields)), {})
  BY <1>1, <1>5, <1>6, FieldsCheck
<1>8. Checks(head, Ready(j, P, W, F), Ready(j, P, V, F), TmpAgain(W, s))
  BY MutableChecks, Vocabulary DEF V
<1> HIDE DEF head
<1>9. Checks(head \o FlattenSeq(blocks), Ready(j, P, W, F), Ready(j, P, V, F \cup Range(fields)),
             TmpAgain(W, s))
  BY <1>7, <1>8, ChecksThen
<1>10. CASE fields = <<>>
  <2>1. W \cup Kept(fields, "mut") = W /\ Again(fields, W, s) = {}
        /\ F \cup Range(fields) = F
    BY <1>10 DEF Kept, Again, Range
  <2> QED
    BY <1>2, <1>10, <2>1, EmptyChecks
<1>11. CASE fields # <<>>
  BY <1>2, <1>9, <1>11 DEF Kept, Again, V
<1> QED
  BY <1>10, <1>11

\* External objects are received likewise.
LEMMA ReceiveExternalChecks ==
  ASSUME NEW type \in Messages, NEW variable \in Words, NEW j \in Nat, NEW s, IsScope(s, j),
         NEW P, NEW W, <<variable>> \in P \cup W, <<"mutableRequest">> \notin W,
         NEW F, F \subseteq Nat,
         NEW fields, fields = FieldsOf(type, "external"), Range(fields) \cap F = {}
  PROVE  Checks(ReceiveExternalBlock(variable, type, s), Ready(j, P, W, F),
                Ready(j, P, W \cup Kept(fields, "mutableRequest"), F \cup Range(fields)),
                Again(fields, W, s))
<1> DEFINE Block(i) == <<Use("tmp", s), Own("declare", "data", i, s),
                         Item("receive", <<i>>, s), Own("declare", "obj", i, s),
                         Own("declare", "allocated", i, s), Own("declare", "deserializer", i, s),
                         Own("use", "obj", i, s), Own("use", "deserializer", i, s),
                         Own("use", "data", i, s), Own("use", "allocated", i, s)>>
           blocks == [k \in DOMAIN fields |-> Block(fields[k])]
           Text == [i \in Nat |-> Block(i)]
           head == MutableMessage(variable, "mutableRequest", s)
           V == W \cup MutableNames("mutableRequest")
<1>1. fields \in Seq(Nat) /\ Injective(fields)
  BY FieldsTyped, FieldsOnce
<1>2. ReceiveExternalBlock(variable, type, s)
        = IF fields = <<>> THEN <<>> ELSE head \o FlattenSeq(blocks)
  BY DEF ReceiveExternalBlock, ForFields
<1>3. <<"tmp">> \in P \cup V
  BY DEF MutableNames
<1> HIDE DEF V
<1>4. \A i \in Nat : Tidy(Block(i), j, i, P \cup V)
  BY <1>3, ReceiveExternalTidy
<1> HIDE DEF Block
<1>5. \A i \in Nat : Tidy(Text[i], j, i, P \cup V)
  BY <1>4
<1>6. IsForEach(blocks, fields, Text)
  BY <1>1, ElementOfSeq, LenProperties DEF IsForEach
<1> HIDE DEF Text, blocks
<1>7. Checks(FlattenSeq(blocks), Ready(j, P, V, F), Ready(j, P, V, F \cup Range(fields)), {})
  BY <1>1, <1>5, <1>6, FieldsCheck
<1>8. Checks(head, Ready(j, P, W, F), Ready(j, P, V, F), TmpAgain(W, s))
  BY MutableChecks, Vocabulary DEF V
<1> HIDE DEF head
<1>9. Checks(head \o FlattenSeq(blocks), Ready(j, P, W, F), Ready(j, P, V, F \cup Range(fields)),
             TmpAgain(W, s))
  BY <1>7, <1>8, ChecksThen
<1>10. CASE fields = <<>>
  <2>1. W \cup Kept(fields, "mutableRequest") = W /\ Again(fields, W, s) = {}
        /\ F \cup Range(fields) = F
    BY <1>10 DEF Kept, Again, Range
  <2> QED
    BY <1>2, <1>10, <2>1, EmptyChecks
<1>11. CASE fields # <<>>
  BY <1>2, <1>9, <1>11 DEF Kept, Again, V
<1> QED
  BY <1>10, <1>11

\* Words that are declared around the methods, and in a method.
At(j, around, words, F) == Ready(j, Called(around), Called(words), F)

\* What a set of words declares.
LEMMA CalledHas ==
  /\ \A S, word : <<word>> \in Called(S) <=> word \in S
  /\ \A S, T : Called(S \cup T) = Called(S) \cup Called(T)
  /\ \A word : Called({word}) = {<<word>>}
  /\ Called({}) = {}
<1>1. \A S, word : <<word>> \in Called(S) <=> word \in S
  <2>1. \A v, w : <<v>> = <<w>> => v = w
    OBVIOUS
  <2> QED
    BY <2>1 DEF Called
<1>2. \A S, T : Called(S \cup T) = Called(S) \cup Called(T)
  BY DEF Called
<1>3. \A word : Called({word}) = {<<word>>}
  BY DEF Called
<1>4. Called({}) = {}
  BY DEF Called
<1> QED
  BY <1>1, <1>2, <1>3, <1>4

\* A word that is not declared in the method may be.
LEMMA DeclareAt ==
  ASSUME NEW j \in Nat, NEW s, IsScope(s, j), NEW R, NEW S, NEW F, NEW word \in Words, word \notin S
  PROVE  Checks(<<Declare(word, s)>>, At(j, R, S, F), At(j, R, S \cup {word}, F), {})
<1> DEFINE P == Called(R)
           W == Called(S)
           V == W \cup {<<word>>}
<1>1. Called(S \cup {word}) = V
  <2>1. Called(S \cup {word}) = Called(S) \cup Called({word})
    BY CalledHas
  <2>2. Called({word}) = {<<word>>}
    BY CalledHas
  <2> QED
    BY <2>1, <2>2
<1>2. ~(<<word>> \in W)
  BY CalledHas
<1> HIDE DEF P, W
<1>3. Checks(<<Declare(word, s)>>, Ready(j, P, W, F), Ready(j, P, V, F),
             IF <<word>> \in W THEN {<<word, s>>} ELSE {})
  BY WordDeclared
<1>4. (IF <<word>> \in W THEN {<<word, s>>} ELSE {}) = {}
  BY <1>2
<1>5. Checks(<<Declare(word, s)>>, Ready(j, P, W, F), Ready(j, P, V, F), {})
  BY <1>3, <1>4
<1> QED
  BY <1>1, <1>5 DEF At, P, W

\* A word that is declared in the method or around it may be used.
LEMMA UseAt ==
  ASSUME NEW j \in Nat, NEW s, IsScope(s, j), NEW R, NEW S, NEW F, NEW word \in Words,
         word \in R \cup S
  PROVE  Checks(<<Use(word, s)>>, At(j, R, S, F), At(j, R, S, F), {})
<1> DEFINE P == Called(R)
           W == Called(S)
<1>1. <<word>> \in P \cup W
  BY CalledHas
<1> HIDE DEF P, W
<1>2. Checks(<<Use(word, s)>>, Ready(j, P, W, F), Ready(j, P, W, F), {})
  BY <1>1, WordUsed
<1> QED
  BY <1>2 DEF At, P, W

\* Uses of a list of words, of which one may not be seen.
LEMMA UsesAt ==
  ASSUME NEW j \in Nat, NEW s, IsScope(s, j), NEW R, NEW S, NEW F, NEW names \in Seq(Words)
  PROVE  /\ (\A k \in 1 .. Len(names) : names[k] \in R \cup S) =>
              Checks(Items("use", names, s), At(j, R, S, F), At(j, R, S, F), {})
         /\ \A l \in 1 .. Len(names) :
              (\A k \in 1 .. Len(names) : names[k] \in R \cup S <=> k # l) =>
                Checks(Items("use", names, s), At(j, R, S, F), At(j, R, S, F), {<<names[l], s>>})
<1> DEFINE P == Called(R)
           W == Called(S)
           items == Items("use", names, s)
<1>1. \A word : <<word>> \in P \cup W <=> word \in R \cup S
  BY CalledHas
<1> HIDE DEF P, W, items
<1>2. Checks(items, Ready(j, P, W, F), Ready(j, P, W, F), Unseen(names, P \cup W, s))
  BY UsesCheck DEF items
<1>3. ASSUME \A k \in 1 .. Len(names) : names[k] \in R \cup S
      PROVE  Unseen(names, P \cup W, s) = {}
  BY <1>1, <1>3 DEF Unseen
<1>4. ASSUME NEW l \in 1 .. Len(names),
             \A k \in 1 .. Len(names) : names[k] \in R \cup S <=> k # l
      PROVE  Unseen(names, P \cup W, s) = {<<names[l], s>>}
  BY <1>1, <1>4 DEF Unseen
<1> QED
  BY <1>2, <1>3, <1>4 DEF At, P, W, items

\* Texts in the scope of another method are not in that of the next one.
LEMMA NextMethod ==
  ASSUME NEW j \in Nat, NEW P, NEW W, NEW F, F \subseteq Nat
  PROVE  Ready(j, P, W, F) \subseteq Ready(j + 1, P, {}, {})
<1> SUFFICES ASSUME NEW D \in Ready(j, P, W, F) PROVE D \in Ready(j + 1, P, {}, {})
  OBVIOUS
<1>1. /\ D \in SUBSET AllItems /\ DeclaredIn(D, <<>>) = P
      /\ \A d \in D : \/ d.scope = <<>> \/ d.scope = <<j>> \/ d.scope[1] < j
                      \/ \E i \in F : d.scope = Inner(j, i)
  BY DEF Ready
<1>2. /\ <<j>>[1] = j /\ <<j + 1>>[1] = j + 1 /\ <<j + 1>> # <<>>
      /\ \A i \in F : Inner(j, i)[1] = j
  BY Scopes
<1>3. j < j + 1 /\ j # j + 1 /\ \A y \in Nat : y < j => y < j + 1
  OBVIOUS
<1>4. \A d \in D : d.scope = <<>> \/ d.scope[1] < j + 1
  <2> SUFFICES ASSUME NEW d \in D, d.scope # <<>> PROVE d.scope[1] < j + 1
    OBVIOUS
  <2>1. d.scope \in Seq(Nat)
    BY <1>1 DEF AllItems
  <2> DEFINE scope == d.scope
  <2>2. scope \in Seq(Nat) /\ scope # <<>>
    BY <2>1
  <2>3. scope = <<j>> \/ scope[1] < j \/ \E i \in F : scope = Inner(j, i)
    BY <1>1
  <2> HIDE DEF scope
  <2>4. scope[1] \in Nat
    BY <2>2
  <2>5. scope[1] < j + 1
    BY <1>2, <1>3, <2>3, <2>4
  <2> QED
    BY <2>5 DEF scope
<1>5. DeclaredIn(D, <<j + 1>>) = {}
  <2>1. \A d \in D : d.scope # <<j + 1>>
    <3>1. ~(j + 1 < j + 1)
      OBVIOUS
    <3> QED
      BY <1>2, <1>4, <3>1
  <2> QED
    BY <2>1 DEF DeclaredIn
<1> QED
  BY <1>1, <1>4, <1>5 DEF Ready

\* The fields that are objects, and what is sent and received for all of them.
ObjectFields(type) == Range(FieldsOf(type, "vtk")) \cup Range(FieldsOf(type, "external"))

\* Fields have one kind.
LEMMA KindsApart ==
  ASSUME NEW type \in Messages
  PROVE  /\ Range(FieldsOf(type, "vtk")) \subseteq Nat /\ ObjectFields(type) \subseteq Nat
         /\ Range(FieldsOf(type, "external")) \cap Range(FieldsOf(type, "vtk")) = {}
<1>1. /\ \A i \in Range(FieldsOf(type, "vtk")) : i \in Nat /\ type.fields[i] = "vtk"
      /\ \A i \in Range(FieldsOf(type, "external")) : i \in Nat /\ type.fields[i] = "external"
  BY FieldsOnce
<1> QED
  BY <1>1 DEF ObjectFields

\* What sends the objects of a message has no faults, if it sees the variable.
LEMMA SentChecks ==
  ASSUME NEW type \in Messages, NEW variable \in NameSet, NEW j \in Nat, NEW s, IsScope(s, j),
         NEW P, NEW W, type.void \/ variable \in P \cup W,
         NEW text, NEW A, NEW e, Checks(text, A, Ready(j, P, W, {}), e)
  PROVE  Checks(text \o SentVtkBlock(variable, type, s) \o SentExternalBlock(variable, type, s),
                A, Ready(j, P, W, ObjectFields(type)), e)
<1> DEFINE vtk == FieldsOf(type, "vtk")
           external == FieldsOf(type, "external")
           a == SentVtkBlock(variable, type, s)
           b == SentExternalBlock(variable, type, s)
<1>1. CASE type.void
  <2>1. vtk = <<>> /\ external = <<>>
    BY <1>1, FieldsTyped
  <2>2. a = <<>> /\ b = <<>>
    BY <2>1 DEF SentVtkBlock, SentExternalBlock, ForFields, FlattenSeq
  <2>3. ObjectFields(type) = {}
    BY <2>1 DEF ObjectFields, Range
  <2> HIDE DEF a, b
  <2> DEFINE B == Ready(j, P, W, {})
  <2>4. Checks(a, B, B, {}) /\ Checks(b, B, B, {}) /\ Checks(text, A, B, e)
    BY <2>2, EmptyChecks
  <2> HIDE DEF B
  <2>5. Checks(text \o a, A, B, e)
    BY <2>4, ChecksThen
  <2>6. Checks(text \o a \o b, A, B, e)
    BY <2>4, <2>5, ChecksThen
  <2> QED
    BY <2>3, <2>6 DEF B, a, b
<1>2. CASE variable \in P \cup W
  <2>1. Range(vtk) \subseteq Nat /\ Range(external) \cap Range(vtk) = {}
    BY KindsApart
  <2> DEFINE B == Ready(j, P, W, {})
             C == Ready(j, P, W, Range(vtk))
             E == Ready(j, P, W, Range(vtk) \cup Range(external))
  <2>2. Checks(a, B, C, {})
    <3>1. Checks(a, Ready(j, P, W, {}), Ready(j, P, W, {} \cup Range(vtk)), {})
      BY <1>2, SentVtkChecks
    <3>2. {} \cup Range(vtk) = Range(vtk)
      OBVIOUS
    <3> QED
      BY <3>1, <3>2
  <2>3. Checks(b, C, E, {})
    BY <1>2, <2>1, SentExternalChecks
  <2>4. Checks(text, A, B, e) /\ E = Ready(j, P, W, ObjectFields(type))
    BY DEF ObjectFields
  <2> HIDE DEF a, b, B, C, E
  <2>5. Checks(text \o a, A, C, e)
    BY <2>2, <2>4, ChecksThen
  <2>6. Checks(text \o a \o b, A, E, e)
    BY <2>3, <2>5, ChecksThen
  <2> QED
    BY <2>4, <2>6 DEF a, b
<1> QED
  BY <1>1, <1>2

\* A message with both kinds declares tmp twice.
Leftover(type) == (IF FieldsOf(type, "vtk") = <<>> THEN {} ELSE {"mut", "tmp"})
                    \cup (IF FieldsOf(type, "external") = <<>> THEN {} ELSE {"mutableRequest", "tmp"})
TmpTwice(type, s) == IF HasBothKinds(type) THEN {<<"tmp", s>>} ELSE {}

\* What receives them declares tmp twice, if there are both kinds.
LEMMA ReceivedChecks ==
  ASSUME NEW type \in Messages, NEW variable \in Words, NEW j \in Nat, NEW s, IsScope(s, j),
         NEW R, NEW S, variable \in R \cup S,
         "mut" \notin S, "mutableRequest" \notin S, "tmp" \notin S,
         NEW text, NEW A, Checks(text, A, At(j, R, S, {}), {})
  PROVE  Checks(text \o ReceiveVtkBlock(variable, type, s) \o ReceiveExternalBlock(variable, type, s),
                A, At(j, R, S \cup Leftover(type), ObjectFields(type)), TmpTwice(type, s))
<1> DEFINE vtk == FieldsOf(type, "vtk")
           external == FieldsOf(type, "external")
           a == ReceiveVtkBlock(variable, type, s)
           b == ReceiveExternalBlock(variable, type, s)
           P == Called(R)
           W == Called(S)
           V == W \cup Kept(vtk, "mut")
           X == V \cup Kept(external, "mutableRequest")
           B == Ready(j, P, W, {})
           C == Ready(j, P, V, Range(vtk))
           E == Ready(j, P, X, Range(vtk) \cup Range(external))
<1>1. Range(vtk) \subseteq Nat /\ Range(external) \cap Range(vtk) = {}
  BY KindsApart
<1>2. /\ <<variable>> \in P \cup W /\ ~(<<"mut">> \in W) /\ ~(<<"mutableRequest">> \in W)
      /\ ~(<<"tmp">> \in W)
  BY CalledHas
<1>3. <<"mutableRequest">> \notin V /\ (<<"tmp">> \in V <=> vtk # <<>>)
  <2>1. <<"mutableRequest">> # <<"mut">> /\ <<"mutableRequest">> # <<"tmp">>
    OBVIOUS
  <2> QED
    BY <1>2, <2>1 DEF Kept, MutableNames
<1>4. X = Called(S \cup Leftover(type))
  <2>1. \A v, w : Called({v, w}) = {<<v>>, <<w>>}
    BY DEF Called
  <2>2. Kept(vtk, "mut") = Called(IF vtk = <<>> THEN {} ELSE {"mut", "tmp"})
    BY <2>1, CalledHas DEF Kept, MutableNames
  <2>3. Kept(external, "mutableRequest")
          = Called(IF external = <<>> THEN {} ELSE {"mutableRequest", "tmp"})
    BY <2>1, CalledHas DEF Kept, MutableNames
  <2> DEFINE y == IF vtk = <<>> THEN {} ELSE {"mut", "tmp"}
             z == IF external = <<>> THEN {} ELSE {"mutableRequest", "tmp"}
  <2>4. X = Called(S) \cup Called(y) \cup Called(z) /\ Leftover(type) = y \cup z
    BY <2>2, <2>3 DEF Leftover
  <2> HIDE DEF y, z, X
  <2> DEFINE t == Leftover(type)
  <2>5. Called(t) = Called(y) \cup Called(z)
    BY <2>4, CalledHas
  <2> HIDE DEF t
  <2>6. Called(S \cup t) = Called(S) \cup Called(t)
    BY CalledHas
  <2> QED
    BY <2>4, <2>5, <2>6 DEF t
<1>5. Again(vtk, W, s) = {} /\ Again(external, V, s) = TmpTwice(type, s)
  BY <1>2, <1>3 DEF Again, TmpAgain, TmpTwice, HasBothKinds
<1> HIDE DEF P, W
<1>6. Checks(a, B, C, {})
  <2>1. Checks(a, Ready(j, P, W, {}), Ready(j, P, V, {} \cup Range(vtk)), Again(vtk, W, s))
    BY <1>2, ReceiveVtkChecks
  <2>2. {} \cup Range(vtk) = Range(vtk)
    OBVIOUS
  <2> QED
    BY <1>5, <2>1, <2>2
<1>7. Checks(b, C, E, TmpTwice(type, s))
  <2>1. <<variable>> \in P \cup V
    BY <1>2
  <2> HIDE DEF V
  <2>2. Checks(b, C, E, Again(external, V, s))
    BY <1>1, <1>3, <2>1, ReceiveExternalChecks
  <2> QED
    BY <1>5, <2>2
<1>8. Checks(text, A, B, {})
  BY DEF At, P, W
<1>9. E = At(j, R, S \cup Leftover(type), ObjectFields(type))
  BY <1>4 DEF At, ObjectFields, P
<1> HIDE DEF a, b, B, C, E
<1>10. Checks(text \o a, A, C, {})
  BY <1>6, <1>8, ChecksThen
<1>11. Checks(text \o a \o b, A, E, TmpTwice(type, s))
  BY <1>7, <1>10, ChecksThen
<1> QED
  BY <1>9, <1>11 DEF a, b

\* Parameters and arguments are different words.
Optional(names, a, b, c, p, q) ==
  names = (IF p THEN <<>> ELSE <<a>>) \o (IF q THEN <<>> ELSE <<b>>) \o <<c>>
OptionalSet(a, b, c, p, q) == (IF p THEN {} ELSE {a}) \cup (IF q THEN {} ELSE {b}) \cup {c}

\* They are different, whichever are there.
LEMMA OptionalWords ==
  ASSUME NEW a \in Words, NEW b \in Words, NEW c \in Words, a # b, a # c, b # c,
         NEW p, NEW q, NEW names, Optional(names, a, b, c, p, q)
  PROVE  Injective(names) /\ Range(names) = OptionalSet(a, b, c, p, q)
<1> DEFINE Fits(list, set) == Injective(list) /\ Range(list) = set
<1>1. Fits(<<c>>, {c}) /\ Fits(<<a, c>>, {a, c}) /\ Fits(<<b, c>>, {b, c})
  BY DEF Injective, Range
<1>2. Fits(<<a, b, c>>, {a, b, c})
  BY DEF Injective, Range
<1> HIDE DEF Fits
<1>3. CASE p /\ q
  <2>1. names = <<>> \o <<>> \o <<c>>
    BY <1>3 DEF Optional
  <2>2. <<>> \o <<>> \o <<c>> = <<c>>
    BY Literals
  <2>3. OptionalSet(a, b, c, p, q) = {c}
    BY <1>3 DEF OptionalSet
  <2> QED
    BY <1>1, <2>1, <2>2, <2>3 DEF Fits
<1>4. CASE ~p /\ q
  <2>1. names = <<a>> \o <<>> \o <<c>>
    BY <1>4 DEF Optional
  <2>2. <<a>> \o <<>> \o <<c>> = <<a, c>>
    BY Literals
  <2>3. OptionalSet(a, b, c, p, q) = {a, c}
    BY <1>4 DEF OptionalSet
  <2> QED
    BY <1>1, <2>1, <2>2, <2>3 DEF Fits
<1>5. CASE p /\ ~q
  <2>1. names = <<>> \o <<b>> \o <<c>>
    BY <1>5 DEF Optional
  <2>2. <<>> \o <<b>> \o <<c>> = <<b, c>>
    BY Literals
  <2>3. OptionalSet(a, b, c, p, q) = {b, c}
    BY <1>5 DEF OptionalSet
  <2> QED
    BY <1>1, <2>1, <2>2, <2>3 DEF Fits
<1>6. CASE ~p /\ ~q
  <2>1. names = <<a>> \o <<b>> \o <<c>>
    BY <1>6 DEF Optional
  <2>2. <<a>> \o <<b>> \o <<c>> = <<a, b, c>>
    BY Literals
  <2>3. OptionalSet(a, b, c, p, q) = {a, b, c}
    BY <1>6 DEF OptionalSet
  <2> QED
    BY <1>2, <2>1, <2>2, <2>3 DEF Fits
<1> QED
  BY <1>3, <1>4, <1>5, <1>6

SignatureWords(m) == OptionalSet("input", "output", "done", m.input.void, m.output.void)
ArgumentSet(m) == OptionalSet("in", "out", "done", m.input.void, m.output.void)

\* So they are in a signature and in the arguments of a call.
LEMMA MethodWords ==
  ASSUME NEW m
  PROVE  /\ Injective(MethodSignature(m)) /\ Range(MethodSignature(m)) = SignatureWords(m)
         /\ Injective(Arguments(m)) /\ Range(Arguments(m)) = ArgumentSet(m)
<1> DEFINE p == m.input.void
           q == m.output.void
<1> DEFINE x == MethodSignature(m)
           y == Arguments(m)
<1>1. Optional(x, "input", "output", "done", p, q) /\ Optional(y, "in", "out", "done", p, q)
  BY DEF Optional, MethodSignature, Arguments
<1>2. /\ SignatureWords(m) = OptionalSet("input", "output", "done", p, q)
      /\ ArgumentSet(m) = OptionalSet("in", "out", "done", p, q)
  BY DEF SignatureWords, ArgumentSet
<1> HIDE DEF p, q, x, y
<1>3. Injective(x) /\ Range(x) = OptionalSet("input", "output", "done", p, q)
  BY <1>1, OptionalWords, MoreWords
<1>4. Injective(y) /\ Range(y) = OptionalSet("in", "out", "done", p, q)
  BY <1>1, OptionalWords, MoreWords
<1> QED
  BY <1>2, <1>3, <1>4 DEF x, y

\* The parameters of a method are declared in it.
LEMMA ParametersAt ==
  ASSUME NEW j \in Nat, NEW s, IsScope(s, j), NEW R, NEW names \in Seq(Words), Injective(names)
  PROVE  Checks(Items("declare", names, s), At(j, R, {}, {}), At(j, R, Range(names), {}), {})
<1> DEFINE items == Items("declare", names, s)
           P == Called(R)
           W == Called(Range(names))
<1>1. s \in Seq(Nat) /\ <<>> # <<j>> /\ <<j>>[1] = j
  BY MethodScope DEF IsScope
<1>2. At(j, R, {}, {}) = Ready(j, P, {}, {}) /\ At(j, R, Range(names), {}) = Ready(j, P, W, {})
  BY CalledHas DEF At
<1>3. ASSUME NEW D \in Ready(j, P, {}, {})
      PROVE  /\ items \in Seq(AllItems) /\ Faults(items, D) = {}
             /\ D \cup Declared(items, Len(items)) \in Ready(j, P, W, {})
  <2> DEFINE all == D \cup Declared(items, Len(items))
  <2>1. /\ D \subseteq AllItems /\ DeclaredIn(D, <<>>) = P /\ DeclaredIn(D, <<j>>) = {}
        /\ \A d \in D : d.scope = <<>> \/ d.scope = <<j>> \/ d.scope[1] < j
    BY DEF Ready
  <2>2. \A d \in D : d.scope # s
    <3>1. DeclaredIn(D, s) = {}
      BY <2>1 DEF IsScope
    <3>2. \A d \in D : d.scope = s => d.name \in DeclaredIn(D, s)
      BY DEF DeclaredIn
    <3> QED
      BY <3>1, <3>2
  <2>3. /\ items \in Seq(AllItems) /\ Faults(items, D) = {} /\ all \subseteq AllItems
        /\ \A d \in all : d \in D \/ d.scope = s
        /\ D \subseteq all /\ DeclaredIn(all, s) = W
    BY <1>1, <2>1, <2>2, DeclaresAre
  <2> HIDE DEF all, items
  <2>4. \A d \in all : d \in D \/ d.scope = <<j>>
    BY <2>3 DEF IsScope
  <2>5. DeclaredIn(all, <<>>) = P
    <3> DEFINE top == <<>>
               own == <<j>>
    <3>1. \A d \in all : d \in D \/ d.scope = own
      BY <2>4
    <3>2. top # own /\ DeclaredIn(D, top) = P
      BY <1>1, <2>1
    <3> HIDE DEF top, own
    <3>3. {d \in all : d.scope = top} = {d \in D : d.scope = top}
      BY <2>3, <3>1, <3>2
    <3>4. DeclaredIn(all, top) = P
      BY <3>2, <3>3 DEF DeclaredIn
    <3> QED
      BY <3>4 DEF top
  <2>6. DeclaredIn(all, <<j>>) = W
    BY <2>3 DEF IsScope
  <2>7. \A d \in all : \/ d.scope = <<>> \/ d.scope = <<j>> \/ d.scope[1] < j
                       \/ \E i \in {} : d.scope = Inner(j, i)
    BY <2>1, <2>4
  <2>8. all \in Ready(j, P, W, {})
    BY <2>3, <2>5, <2>6, <2>7 DEF Ready
  <2> QED
    BY <2>3, <2>8 DEF all
<1>4. items \in Seq(AllItems)
  BY <1>1, ListItems, Vocabulary DEF Lists
<1> QED
  BY <1>2, <1>3, <1>4 DEF Checks

\* The proxy of a method has one fault, if the method has an input and no output.
ProxyFault(m, s) == IF IsNotification(m) THEN {<<"output", s>>} ELSE {}

\* Everything else it uses is there.
LEMMA ProxyChecks ==
  ASSUME NEW m \in MethodType, NEW j \in Nat
  PROVE  Checks(ProxyMethod(m, j), At(j, {}, {}, {}), At(j + 1, {}, {}, {}), ProxyFault(m, <<j>>))
<1> DEFINE s == <<j>>
           sig == MethodSignature(m)
           p1 == Items("declare", sig, s)
           p2 == <<Declare("msg", s), Declare("request", s), Use("msg", s)>>
           handler == <<Declare("id", s), Declare("handler", s), Item("register", <<j>>, s)>>
           passed == <<"id", "output", "handler", "done">>
           uses == Items("use", passed, s)
           none == m.input.void /\ m.output.void
           p3 == IF none THEN <<>> ELSE handler \o uses
           p4 == <<Declare("ext", s), Use("request", s)>>
           p5 == IF m.input.void THEN <<>> ELSE Items("use", <<"ext", "input">>, s)
           p6 == <<Use("msg", s)>>
           S0 == SignatureWords(m)
           S1 == S0 \cup {"msg"} \cup {"request"}
           S3 == IF none THEN S1 ELSE S1 \cup {"id"} \cup {"handler"}
           S4 == S3 \cup {"ext"}
           T(S) == At(j, {}, S, {})
           e == ProxyFault(m, s)
           input == m.input
           variable == <<"input">>
<1>1. ProxyMethod(m, j) = p1 \o p2 \o p3 \o p4 \o p5 \o p6
                            \o SentVtkBlock(variable, input, s)
                            \o SentExternalBlock(variable, input, s)
  BY DEF ProxyMethod
<1>2. /\ IsScope(s, j) /\ s \in Seq(Nat) /\ <<j>> \in NameSet /\ variable \in NameSet
      /\ input \in Messages
  BY MethodScope, OneWord, MoreWords DEF MethodType, IsScope
<1>3. /\ S0 \subseteq {"input", "output", "done"} /\ "done" \in S0
      /\ (~m.input.void => "input" \in S0) /\ ("output" \in S0 <=> ~m.output.void)
  BY DEF SignatureWords, OptionalSet
<1> HIDE DEF s, S0
<1>4. Checks(p1, T({}), T(S0), {})
  <2>1. sig \in Seq(Words) /\ Injective(sig) /\ Range(sig) = S0
    BY ArgumentWords, MethodWords DEF S0
  <2> QED
    BY <1>2, <2>1, ParametersAt
<1>5. Checks(p2, T(S0), T(S1), {})
  <2>1. Checks(<<Declare("msg", s)>>, T(S0), T(S0 \cup {"msg"}), {})
    BY <1>2, <1>3, DeclareAt, MoreWords
  <2>2. Checks(<<Declare("request", s)>>, T(S0 \cup {"msg"}), T(S1), {})
    BY <1>2, <1>3, DeclareAt, MoreWords
  <2>3. Checks(<<Use("msg", s)>>, T(S1), T(S1), {})
    BY <1>2, UseAt, MoreWords
  <2> HIDE DEF T, S1
  <2> QED
    BY <2>1, <2>2, <2>3, InTurn
<1>6. Checks(p3, T(S1), T(S3), e)
  <2>1. CASE none
    <3>1. e = {} /\ p3 = <<>> /\ S3 = S1
      BY <2>1 DEF ProxyFault, IsNotification
    <3> QED
      BY <3>1, EmptyChecks
  <2>2. CASE ~none
    <3>1. S3 = S1 \cup {"id"} \cup {"handler"} /\ p3 = handler \o uses
      BY <2>2
    <3>2. Checks(<<Declare("id", s)>>, T(S1), T(S1 \cup {"id"}), {})
      BY <1>2, <1>3, DeclareAt, MoreWords
    <3>3. Checks(<<Declare("handler", s)>>, T(S1 \cup {"id"}), T(S3), {})
      BY <1>2, <1>3, <3>1, DeclareAt, MoreWords
    <3>4. Checks(<<Item("register", <<j>>, s)>>, T(S3), T(S3), {})
      BY <1>2, NeutralItem, Vocabulary
    <3>5. /\ passed \in Seq(Words) /\ Len(passed) = 4 /\ passed[1] = "id"
          /\ passed[2] = "output" /\ passed[3] = "handler" /\ passed[4] = "done"
      BY MoreWords
    <3>6. /\ "id" \in S3 /\ "handler" \in S3 /\ "done" \in S3
          /\ ("output" \in S3 <=> ~m.output.void)
      BY <1>3, <3>1
    <3> HIDE DEF S1, S3, passed
    <3>7. \A k \in 1 .. Len(passed) : k = 1 \/ k = 2 \/ k = 3 \/ k = 4
      BY <3>5
    <3>8. Checks(uses, T(S3), T(S3), e)
      <4>1. CASE ~m.output.void
        <5>1. \A k \in 1 .. Len(passed) : passed[k] \in {} \cup S3
          BY <3>5, <3>6, <3>7, <4>1
        <5>2. e = {}
          BY <4>1 DEF ProxyFault, IsNotification
        <5> QED
          BY <1>2, <3>5, <5>1, <5>2, UsesAt
      <4>2. CASE m.output.void
        <5>1. \A k \in 1 .. Len(passed) : passed[k] \in {} \cup S3 <=> k # 2
          BY <3>5, <3>6, <3>7, <4>2
        <5>2. e = {<<"output", s>>} /\ 2 \in 1 .. Len(passed) /\ passed[2] = "output"
          BY <2>2, <3>5, <4>2 DEF ProxyFault, IsNotification
        <5>3. Checks(uses, T(S3), T(S3), {<<passed[2], s>>})
          <6>1. \A l \in 1 .. Len(passed) :
                  (\A k \in 1 .. Len(passed) : passed[k] \in {} \cup S3 <=> k # l) =>
                    Checks(uses, T(S3), T(S3), {<<passed[l], s>>})
            BY <1>2, <3>5, UsesAt
          <6> HIDE DEF T, uses, e
          <6> QED
            BY <5>1, <5>2, <6>1
        <5> QED
          BY <5>2, <5>3
      <4> QED
        BY <4>1, <4>2
    <3> HIDE DEF T, uses
    <3>9. Checks(handler, T(S1), T(S3), {})
      BY <3>2, <3>3, <3>4, InTurn
    <3> HIDE DEF handler
    <3> QED
      BY <3>1, <3>8, <3>9, ChecksThen
  <2> QED
    BY <2>1, <2>2
<1>7. S3 \subseteq {"input", "output", "done", "msg", "request", "id", "handler"}
      /\ S1 \subseteq S3
  BY <1>3
<1>8. Checks(p4, T(S3), T(S4), {})
  <2>1. "ext" \notin S3 /\ "request" \in S4
    BY <1>7
  <2> HIDE DEF S3
  <2>2. Checks(<<Declare("ext", s)>>, T(S3), T(S4), {})
    BY <1>2, <2>1, DeclareAt, MoreWords
  <2> HIDE DEF S4
  <2>3. Checks(<<Use("request", s)>>, T(S4), T(S4), {})
    BY <1>2, <2>1, UseAt, MoreWords
  <2> HIDE DEF T
  <2> QED
    BY <2>2, <2>3, InTurn
<1>9. Checks(p5, T(S4), T(S4), {})
  <2>1. CASE m.input.void
    BY <2>1, EmptyChecks
  <2>2. CASE ~m.input.void
    <3> DEFINE names == <<"ext", "input">>
    <3>1. names \in Seq(Words) /\ Len(names) = 2 /\ names[1] = "ext" /\ names[2] = "input"
      BY MoreWords
    <3>2. "ext" \in S4 /\ "input" \in S4
      BY <1>3, <1>7, <2>2
    <3> HIDE DEF S4, names
    <3>3. \A k \in 1 .. Len(names) : names[k] \in {} \cup S4
      <4>1. \A k \in 1 .. Len(names) : k = 1 \/ k = 2
        BY <3>1
      <4> QED
        BY <3>1, <3>2, <4>1
    <3>4. Checks(Items("use", names, s), T(S4), T(S4), {})
      BY <1>2, <3>1, <3>3, UsesAt
    <3> QED
      BY <2>2, <3>4 DEF names
  <2> QED
    BY <2>1, <2>2
<1>10. Checks(p6, T(S4), T(S4), {})
  <2>1. "msg" \in {} \cup S4
    BY <1>7
  <2> HIDE DEF S4
  <2> QED
    BY <1>2, <2>1, UseAt, MoreWords
<1>11. m.input.void \/ variable \in Called({}) \cup Called(S4)
  <2>1. ~m.input.void => "input" \in S4
    BY <1>3, <1>7
  <2> HIDE DEF S4
  <2> QED
    BY <2>1, CalledHas
<1> DEFINE text == p1 \o p2 \o p3 \o p4 \o p5 \o p6
           A == T({})
<1>12. Checks(text, A, T(S4), e)
  <2> HIDE DEF p1, p2, p3, p4, p5, p6, T, S1, S3, S4, e
  <2>1. Checks(p1 \o p2, A, T(S1), {})
    BY <1>4, <1>5, ChecksThen
  <2>2. Checks(p1 \o p2 \o p3, A, T(S3), e)
    BY <1>6, <2>1, ChecksThen
  <2>3. Checks(p1 \o p2 \o p3 \o p4, A, T(S4), e)
    BY <1>8, <2>2, ChecksThen
  <2>4. Checks(p1 \o p2 \o p3 \o p4 \o p5, A, T(S4), e)
    BY <1>9, <2>3, ChecksThen
  <2> QED
    BY <1>10, <2>4, ChecksThen
<1> HIDE DEF text, A, S4, e, input
<1>13. Checks(text \o SentVtkBlock(variable, input, s) \o SentExternalBlock(variable, input, s),
              A, Ready(j, Called({}), Called(S4), ObjectFields(input)), e)
  <2>1. Checks(text, A, Ready(j, Called({}), Called(S4), {}), e)
    BY <1>12 DEF At
  <2>2. input.void \/ variable \in Called({}) \cup Called(S4)
    BY <1>11 DEF input
  <2> HIDE DEF T, variable
  <2> QED
    BY <1>2, <2>1, <2>2, SentChecks
<1>14. Ready(j, Called({}), Called(S4), ObjectFields(input)) \subseteq At(j + 1, {}, {}, {})
  <2>1. Ready(j, Called({}), Called(S4), ObjectFields(input))
          \subseteq Ready(j + 1, Called({}), {}, {})
    BY <1>2, KindsApart, NextMethod
  <2> QED
    BY <2>1, CalledHas DEF At
<1> DEFINE all == text \o SentVtkBlock(variable, input, s) \o SentExternalBlock(variable, input, s)
<1>15. Checks(all, A, At(j + 1, {}, {}, {}), e)
  <2> HIDE DEF all
  <2> QED
    BY <1>13, <1>14, ChecksWeaker DEF all
<1> QED
  BY <1>1, <1>15 DEF text, A, e, input, s

\* Lists of words, and what they have.
LEMMA WordLists ==
  ASSUME NEW a \in Words, NEW b \in Words
  PROVE  /\ <<a, b>> \in Seq(Words) /\ Range(<<a, b>>) = {a, b}
         /\ \A c \in Words : <<a, b, c>> \in Seq(Words) /\ Range(<<a, b, c>>) = {a, b, c}
         /\ \A c, d \in Words :
              <<a, b, c, d>> \in Seq(Words) /\ Range(<<a, b, c, d>>) = {a, b, c, d}
<1>1. <<a, b>> \in Seq(Words) /\ Range(<<a, b>>) = {a, b}
  BY DEF Range
<1>2. \A c \in Words : <<a, b, c>> \in Seq(Words) /\ Range(<<a, b, c>>) = {a, b, c}
  BY DEF Range
<1>3. \A c, d \in Words :
        <<a, b, c, d>> \in Seq(Words) /\ Range(<<a, b, c, d>>) = {a, b, c, d}
  BY DEF Range
<1> QED
  BY <1>1, <1>2, <1>3

\* Uses of words that are all seen.
LEMMA SeenAt ==
  ASSUME NEW j \in Nat, NEW s, IsScope(s, j), NEW R, NEW S, NEW F, NEW names \in Seq(Words),
         Range(names) \subseteq R \cup S
  PROVE  Checks(Items("use", names, s), At(j, R, S, F), At(j, R, S, F), {})
<1>1. \A k \in 1 .. Len(names) : names[k] \in R \cup S
  BY LenProperties DEF Range
<1> QED
  BY <1>1, UsesAt

\* A method leaves what the next one needs.
LEMMA NextAt ==
  ASSUME NEW j \in Nat, NEW R, NEW S, NEW F, F \subseteq Nat
  PROVE  At(j, R, S, F) \subseteq At(j + 1, R, {}, {})
<1> DEFINE P == Called(R)
           W == Called(S)
<1>1. Ready(j, P, W, F) \subseteq Ready(j + 1, P, {}, {})
  BY NextMethod
<1> QED
  BY <1>1, CalledHas DEF At

\* Four items in turn.
LEMMA FourInTurn ==
  ASSUME NEW a, NEW b, NEW c, NEW d, NEW A, NEW B, NEW C, NEW D, NEW E,
         Checks(<<a>>, A, B, {}), Checks(<<b>>, B, C, {}), Checks(<<c>>, C, D, {}),
         Checks(<<d>>, D, E, {})
  PROVE  Checks(<<a, b, c, d>>, A, E, {})
<1>1. ASSUME NEW x, NEW X, NEW Y, Checks(<<x>>, X, Y, {}) PROVE x \in AllItems
  <2>1. <<x>> \in Seq(AllItems)
    BY <1>1 DEF Checks
  <2>2. Len(<<x>>) = 1 /\ <<x>>[1] = x
    OBVIOUS
  <2> QED
    BY <2>1, <2>2, ElementOfSeq
<1>2. a \in AllItems /\ b \in AllItems /\ c \in AllItems /\ d \in AllItems
  BY <1>1
<1>3. Checks(<<a, b, c>>, A, D, {})
  BY InTurn
<1>4. <<a, b, c>> \o <<d>> = <<a, b, c, d>>
  BY <1>2, LongerLists
<1> QED
  BY <1>3, <1>4, ChecksThen

\* The case of handle() has one fault, if the response has objects of both kinds.
LEMMA HandlerChecks ==
  ASSUME NEW m \in MethodType, NEW j \in Nat, NEW R,
         {"incomingResponse", "targetResponse", "errorCode", "errorString", "callback"} \subseteq R
  PROVE  Checks(HandlerCase(m, j), At(j, R, {}, {}), At(j + 1, R, {}, {}),
                TmpTwice(m.output, <<j>>))
<1> DEFINE s == <<j>>
           output == m.output
           T(S) == At(j, R, S, {})
           n1 == <<"targetResponse", "incomingResponse">>
           n2 == <<"responseType", "errorCode", "errorString">>
           p1 == <<Item("case", <<j>>, s)>>
           p2 == Items("use", n1, s)
           p3 == <<Declare("mutableResponse", s), Use("targetResponse", s),
                   Declare("responseType", s), Use("mutableResponse", s)>>
           p4 == Items("use", n2, s)
           p5 == <<Use("callback", s)>>
           S1 == {} \cup {"mutableResponse"}
           S2 == S1 \cup {"responseType"}
           e == TmpTwice(output, s)
<1>1. IsScope(s, j) /\ s \in Seq(Nat) /\ <<j>> \in NameSet /\ output \in Messages
  BY MethodScope DEF MethodType, IsScope
<1>2. CASE output.void
  <2>1. HandlerCase(m, j) = <<>>
    BY <1>2 DEF HandlerCase
  <2>2. FieldsOf(output, "vtk") = <<>>
    BY <1>1, <1>2, FieldsTyped
  <2>3. e = {}
    BY <2>2 DEF TmpTwice, HasBothKinds
  <2>4. At(j, R, {}, {}) \subseteq At(j + 1, R, {}, {})
    BY NextAt
  <2> QED
    BY <2>1, <2>3, <2>4, EmptyChecks, ChecksWeaker
<1>3. CASE ~output.void
  <2>1. HandlerCase(m, j) = p1 \o p2 \o p3 \o p4 \o ReceiveVtkBlock("targetResponse", output, s)
                              \o ReceiveExternalBlock("targetResponse", output, s) \o p5
    BY <1>3 DEF HandlerCase
  <2> HIDE DEF s
  <2>2. Checks(p1, T({}), T({}), {})
    BY <1>1, NeutralItem, Vocabulary
  <2>3. Checks(p2, T({}), T({}), {})
    <3>1. n1 \in Seq(Words) /\ Range(n1) = {"targetResponse", "incomingResponse"}
      BY MoreWords, WordLists
    <3> HIDE DEF n1
    <3>2. Range(n1) \subseteq R \cup {}
      BY <3>1
    <3> QED
      BY <1>1, <3>1, <3>2, SeenAt
  <2>4. Checks(p3, T({}), T(S2), {})
    <3>1. Checks(<<Declare("mutableResponse", s)>>, T({}), T(S1), {})
      BY <1>1, DeclareAt, MoreWords
    <3>2. Checks(<<Use("targetResponse", s)>>, T(S1), T(S1), {})
      <4>1. "targetResponse" \in R \cup S1
        OBVIOUS
      <4> HIDE DEF S1
      <4> QED
        BY <1>1, <4>1, UseAt, MoreWords
    <3>3. Checks(<<Declare("responseType", s)>>, T(S1), T(S2), {})
      BY <1>1, DeclareAt, MoreWords
    <3>4. Checks(<<Use("mutableResponse", s)>>, T(S2), T(S2), {})
      <4>1. "mutableResponse" \in R \cup S2
        OBVIOUS
      <4> HIDE DEF S2
      <4> QED
        BY <1>1, <4>1, UseAt, MoreWords
    <3> HIDE DEF T, S1, S2
    <3> QED
      BY <3>1, <3>2, <3>3, <3>4, FourInTurn
  <2>5. Checks(p4, T(S2), T(S2), {})
    <3>1. n2 \in Seq(Words) /\ Range(n2) = {"responseType", "errorCode", "errorString"}
      <4>1. "responseType" \in Words /\ "errorCode" \in Words /\ "errorString" \in Words
        BY MoreWords
      <4>2. \A c \in Words : /\ <<"responseType", "errorCode", c>> \in Seq(Words)
                             /\ Range(<<"responseType", "errorCode", c>>)
                                  = {"responseType", "errorCode", c}
        BY <4>1, WordLists
      <4> QED
        BY <4>1, <4>2
    <3> HIDE DEF n2
    <3>2. Range(n2) \subseteq R \cup S2
      BY <3>1
    <3> HIDE DEF S2
    <3> QED
      BY <1>1, <3>1, <3>2, SeenAt
  <2> DEFINE text == p1 \o p2 \o p3 \o p4
             A == T({})
             X == S2 \cup Leftover(output)
             B == At(j, R, X, ObjectFields(output))
  <2>6. Checks(text, A, T(S2), {})
    <3> HIDE DEF p1, p2, p3, p4, A, T, S2
    <3>1. Checks(p1 \o p2, A, A, {})
      BY <2>2, <2>3, ChecksThen DEF A
    <3>2. Checks(p1 \o p2 \o p3, A, T(S2), {})
      BY <2>4, <3>1, ChecksThen DEF A
    <3> QED
      BY <2>5, <3>2, ChecksThen
  <2>7. /\ "mut" \notin S2 /\ "mutableRequest" \notin S2 /\ "tmp" \notin S2
        /\ "targetResponse" \in R \cup S2
    OBVIOUS
  <2> DEFINE received == text \o ReceiveVtkBlock("targetResponse", output, s)
                              \o ReceiveExternalBlock("targetResponse", output, s)
  <2>8. Checks(received, A, B, e)
    <3> HIDE DEF text, S2, output, A
    <3>1. Checks(text, A, At(j, R, S2, {}), {})
      BY <2>6
    <3> HIDE DEF T
    <3> QED
      BY <1>1, <2>7, <3>1, ReceivedChecks, MoreWords
  <2>9. Checks(p5, B, B, {})
    <3>1. "callback" \in R \cup X
      OBVIOUS
    <3> HIDE DEF X
    <3> QED
      BY <1>1, <3>1, UseAt, MoreWords
  <2> HIDE DEF e
  <2>10. Checks(received \o p5, A, B, e)
    <3> HIDE DEF received, p5, A, B
    <3> QED
      BY <2>8, <2>9, ChecksThen
  <2>11. B \subseteq At(j + 1, R, {}, {})
    BY <1>1, KindsApart, NextAt
  <2> HIDE DEF A, B
  <2>12. Checks(received \o p5, A, At(j + 1, R, {}, {}), e)
    <3> DEFINE all == received \o p5
    <3> HIDE DEF all
    <3>1. Checks(all, A, B, e)
      BY <2>10 DEF all
    <3>2. Checks(all, A, At(j + 1, R, {}, {}), e)
      BY <2>11, <3>1, ChecksWeaker
    <3> QED
      BY <3>2 DEF all
  <2> QED
    BY <2>1, <2>12 DEF A, e, output, s, received, text
<1> QED
  BY <1>2, <1>3 DEF output

\* Six items in turn.
LEMMA SixInTurn ==
  ASSUME NEW a, NEW b, NEW c, NEW d, NEW f, NEW g,
         NEW A, NEW B, NEW C, NEW D, NEW E, NEW F, NEW G,
         Checks(<<a>>, A, B, {}), Checks(<<b>>, B, C, {}), Checks(<<c>>, C, D, {}),
         Checks(<<d>>, D, E, {}), Checks(<<f>>, E, F, {}), Checks(<<g>>, F, G, {})
  PROVE  Checks(<<a, b, c, d, f, g>>, A, G, {})
<1>1. ASSUME NEW x, NEW X, NEW Y, Checks(<<x>>, X, Y, {}) PROVE x \in AllItems
  <2>1. <<x>> \in Seq(AllItems)
    BY <1>1 DEF Checks
  <2>2. Len(<<x>>) = 1 /\ <<x>>[1] = x
    OBVIOUS
  <2> QED
    BY <2>1, <2>2, ElementOfSeq
<1>2. /\ a \in AllItems /\ b \in AllItems /\ c \in AllItems /\ d \in AllItems
      /\ f \in AllItems /\ g \in AllItems
  BY <1>1
<1>3. Checks(<<a, b, c>>, A, D, {}) /\ Checks(<<d, f, g>>, D, G, {})
  BY InTurn
<1>4. <<a, b, c>> \o <<d, f, g>> = <<a, b, c, d, f, g>>
  BY <1>2, LongerLists
<1> QED
  BY <1>3, <1>4, ChecksThen

\* The variable of a reply, which is named after the method.
Reply(j) == <<"tmp", j>>

\* No word is like it.
LEMMA ReplyVariable ==
  ASSUME NEW j \in Nat
  PROVE  /\ Reply(j) \in NameSet /\ \A word : Reply(j) # <<word>>
         /\ \A S : Reply(j) \notin Called(S)
<1> DEFINE T == Words \cup Nat
<1>1. "tmp" \in T /\ j \in T
  BY Vocabulary
<1> HIDE DEF T
<1>2. Reply(j) \in Seq(T) /\ Len(Reply(j)) = 2
  BY <1>1 DEF Reply
<1>3. \A word : Len(<<word>>) = 1
  OBVIOUS
<1>4. \A word : Reply(j) # <<word>>
  BY <1>2, <1>3
<1> QED
  BY <1>2, <1>4 DEF NameSet, T, Called

\* The case of reply() has no faults.
LEMMA ReplyChecks ==
  ASSUME NEW m \in MethodType, NEW j \in Nat, NEW R, "info" \in R
  PROVE  Checks(ReplyCase(m, j), At(j, R, {}, {}), At(j + 1, R, {}, {}), {})
<1> DEFINE s == <<j>>
           output == m.output
           tmp == Reply(j)
           T(S) == At(j, R, S, {})
           n1 == <<"response", "requestId", "info">>
           n2 == <<"request", "info", "msg">>
           p1 == <<Item("case", <<j>>, s), Declare("msg", s), Use("msg", s),
                   Declare("response", s), Use("info", s), Declare("requestId", s)>>
           p2 == Items("use", n1, s)
           p3 == <<Item("declare", tmp, s), Item("use", tmp, s), Declare("request", s)>>
           p4 == Items("use", n2, s)
           S1 == {} \cup {"msg"}
           S2 == S1 \cup {"response"}
           S3 == S2 \cup {"requestId"}
           P == Called(R)
           V(W) == Ready(j, P, W, {})
           W0 == Called(S3)
           W1 == W0 \cup {tmp}
           W2 == W1 \cup {<<"request">>}
<1>1. /\ IsScope(s, j) /\ s \in Seq(Nat) /\ <<j>> \in NameSet /\ output \in Messages
      /\ tmp \in NameSet
  BY MethodScope, ReplyVariable DEF MethodType, IsScope
<1>2. CASE output.void
  <2>1. ReplyCase(m, j) = <<>>
    BY <1>2 DEF ReplyCase
  <2>2. At(j, R, {}, {}) \subseteq At(j + 1, R, {}, {})
    BY NextAt
  <2> QED
    BY <2>1, <2>2, EmptyChecks, ChecksWeaker
<1>3. CASE ~output.void
  <2>1. ReplyCase(m, j) = p1 \o p2 \o p3 \o p4 \o SentVtkBlock(tmp, output, s)
                              \o SentExternalBlock(tmp, output, s)
    BY <1>3 DEF ReplyCase, Reply
  <2> HIDE DEF s, tmp
  <2>2. Checks(p1, T({}), T(S3), {})
    <3>1. Checks(<<Item("case", <<j>>, s)>>, T({}), T({}), {})
      BY <1>1, NeutralItem, Vocabulary
    <3>2. Checks(<<Declare("msg", s)>>, T({}), T(S1), {})
      BY <1>1, DeclareAt, MoreWords
    <3>3. Checks(<<Use("msg", s)>>, T(S1), T(S1), {})
      BY <1>1, UseAt, MoreWords
    <3>4. Checks(<<Declare("response", s)>>, T(S1), T(S2), {})
      BY <1>1, DeclareAt, MoreWords
    <3>5. Checks(<<Use("info", s)>>, T(S2), T(S2), {})
      <4>1. "info" \in R \cup S2
        OBVIOUS
      <4> HIDE DEF S2
      <4> QED
        BY <1>1, <4>1, UseAt, MoreWords
    <3>6. Checks(<<Declare("requestId", s)>>, T(S2), T(S3), {})
      BY <1>1, DeclareAt, MoreWords
    <3> HIDE DEF T, S1, S2, S3
    <3> QED
      BY <3>1, <3>2, <3>3, <3>4, <3>5, <3>6, SixInTurn
  <2>3. Checks(p2, T(S3), T(S3), {})
    <3>1. n1 \in Seq(Words) /\ Range(n1) = {"response", "requestId", "info"}
      <4>1. "response" \in Words /\ "requestId" \in Words /\ "info" \in Words
        BY MoreWords
      <4>2. \A c \in Words : /\ <<"response", "requestId", c>> \in Seq(Words)
                             /\ Range(<<"response", "requestId", c>>) = {"response", "requestId", c}
        BY <4>1, WordLists
      <4> QED
        BY <4>1, <4>2
    <3> HIDE DEF n1
    <3>2. Range(n1) \subseteq R \cup S3
      BY <3>1
    <3> HIDE DEF S3
    <3> QED
      BY <1>1, <3>1, <3>2, SeenAt
  <2>4. /\ tmp \notin W0 /\ tmp \in P \cup W1 /\ <<"request">> \notin W1
        /\ <<"request">> \in P \cup W2 /\ <<"info">> \in P \cup W2 /\ <<"msg">> \in P \cup W2
        /\ tmp \in P \cup W2
    <3>1. "request" \notin S3 /\ "msg" \in S3
      OBVIOUS
    <3> HIDE DEF S3
    <3>2. <<"request">> \notin W0 /\ <<"msg">> \in W0 /\ <<"info">> \in P
      BY <3>1, CalledHas
    <3>3. tmp \notin W0 /\ tmp # <<"request">>
      BY ReplyVariable DEF tmp
    <3> QED
      BY <3>2, <3>3
  <2>5. T(S3) = V(W0)
    BY DEF At
  <2> HIDE DEF W0, P
  <2>6. Checks(p3, V(W0), V(W2), {})
    <3> DEFINE again == IF tmp \in W0 THEN {<<tmp[1], <<j>>>>} ELSE {}
               missing == IF tmp \in P \cup W1 THEN {} ELSE {<<tmp[1], <<j>>>>}
    <3>1. again = {} /\ missing = {}
      BY <2>4
    <3>2. Checks(<<Item("declare", tmp, s)>>, V(W0), V(W1), again)
      BY <1>1, DeclareChecks DEF IsScope
    <3> HIDE DEF W1
    <3>3. Checks(<<Item("use", tmp, s)>>, V(W1), V(W1), missing)
      BY <1>1, UseChecks DEF IsScope
    <3>4. Checks(<<Declare("request", s)>>, V(W1), V(W2), {})
      <4>1. (IF <<"request">> \in W1 THEN {<<"request", s>>} ELSE {}) = {}
        BY <2>4
      <4>2. Checks(<<Declare("request", s)>>, V(W1), V(W2),
                   IF <<"request">> \in W1 THEN {<<"request", s>>} ELSE {})
        BY <1>1, WordDeclared, MoreWords
      <4> QED
        BY <4>1, <4>2
    <3> HIDE DEF V, W2, again, missing
    <3> QED
      BY <3>1, <3>2, <3>3, <3>4, InTurn
  <2> HIDE DEF W1, W2
  <2>7. Checks(p4, V(W2), V(W2), {})
    <3>1. n2 \in Seq(Words) /\ \A k \in 1 .. Len(n2) : <<n2[k]>> \in P \cup W2
      <4>1. "request" \in Words /\ "info" \in Words /\ "msg" \in Words
        BY MoreWords
      <4>2. /\ n2 \in Seq(Words) /\ Len(n2) = 3 /\ n2[1] = "request" /\ n2[2] = "info"
            /\ n2[3] = "msg"
        BY <4>1
      <4>3. \A k \in 1 .. 3 : k = 1 \/ k = 2 \/ k = 3
        OBVIOUS
      <4> HIDE DEF n2
      <4> QED
        BY <2>4, <4>2, <4>3
    <3> HIDE DEF n2
    <3>2. Unseen(n2, P \cup W2, s) = {}
      BY <3>1 DEF Unseen
    <3>3. Checks(p4, V(W2), V(W2), Unseen(n2, P \cup W2, s))
      BY <1>1, <3>1, UsesCheck
    <3> QED
      BY <3>2, <3>3
  <2> DEFINE text == p1 \o p2 \o p3 \o p4
             A == T({})
             B == Ready(j, P, W2, ObjectFields(output))
  <2>8. Checks(text, A, V(W2), {})
    <3> HIDE DEF p1, p2, p3, p4, A, T, S3, V
    <3>1. Checks(p1 \o p2, A, V(W0), {})
      BY <2>2, <2>3, <2>5, ChecksThen DEF A
    <3>2. Checks(p1 \o p2 \o p3, A, V(W2), {})
      BY <2>6, <3>1, ChecksThen
    <3> QED
      BY <2>7, <3>2, ChecksThen
  <2> DEFINE sent == text \o SentVtkBlock(tmp, output, s) \o SentExternalBlock(tmp, output, s)
  <2>9. Checks(sent, A, B, {})
    <3> HIDE DEF text, output, A
    <3>1. Checks(text, A, Ready(j, P, W2, {}), {})
      BY <2>8
    <3> QED
      BY <1>1, <2>4, <3>1, SentChecks
  <2>10. B \subseteq At(j + 1, R, {}, {})
    <3>1. B \subseteq Ready(j + 1, P, {}, {})
      BY <1>1, KindsApart, NextMethod
    <3> QED
      BY <3>1, CalledHas DEF At, P
  <2> HIDE DEF A, B, sent
  <2>11. Checks(sent, A, At(j + 1, R, {}, {}), {})
    BY <2>9, <2>10, ChecksWeaker
  <2> QED
    BY <2>1, <2>11 DEF A, sent, text
<1> QED
  BY <1>2, <1>3 DEF output

\* What is declared before the service is called.
InputWords(m) == (IF m.input.void THEN {} ELSE {"in"}) \cup Leftover(m.input)
OutputWords(m) == IF m.output.void THEN {} ELSE {"out", "info"}

\* These are the arguments of the call.
LEMMA ArgumentsSeen ==
  ASSUME NEW m \in MethodType
  PROVE  /\ InputWords(m) \subseteq {"in", "mut", "mutableRequest", "tmp"}
         /\ ArgumentSet(m) \subseteq (InputWords(m) \cup OutputWords(m)) \cup {"done"}
<1>1. InputWords(m) \subseteq {"in", "mut", "mutableRequest", "tmp"}
  BY DEF InputWords, Leftover
<1>2. ArgumentSet(m) \subseteq (InputWords(m) \cup OutputWords(m)) \cup {"done"}
  BY DEF InputWords, OutputWords, ArgumentSet, OptionalSet
<1> QED
  BY <1>1, <1>2

\* The part of a case that reads the request,
LEMMA RequestChecks ==
  ASSUME NEW m \in MethodType, NEW j \in Nat, NEW s, IsScope(s, j), NEW R, "request" \in R
  PROVE  Checks(IF m.input.void THEN <<>>
                ELSE <<Declare("in", s), Use("request", s)>>
                       \o ReceiveVtkBlock("request", m.input, s)
                       \o ReceiveExternalBlock("request", m.input, s),
                At(j, R, {}, {}), At(j, R, InputWords(m), ObjectFields(m.input)),
                TmpTwice(m.input, s))
<1> DEFINE input == m.input
<1>1. input \in Messages
  BY DEF MethodType
<1>2. CASE input.void
  <2>1. FieldsOf(input, "vtk") = <<>> /\ FieldsOf(input, "external") = <<>>
    BY <1>1, <1>2, FieldsTyped
  <2>2. /\ InputWords(m) = {} /\ ObjectFields(input) = {} /\ TmpTwice(input, s) = {}
    BY <1>2, <2>1 DEF InputWords, Leftover, ObjectFields, TmpTwice, HasBothKinds, Range
  <2> QED
    BY <1>2, <2>2, EmptyChecks
<1>3. CASE ~input.void
  <2> DEFINE S == {} \cup {"in"}
             text == <<Declare("in", s), Use("request", s)>>
             A == At(j, R, {}, {})
             B == At(j, R, S, {})
  <2>1. Checks(<<Declare("in", s)>>, A, B, {})
    BY DeclareAt, MoreWords
  <2>2. Checks(<<Use("request", s)>>, B, B, {})
    <3>1. "request" \in R \cup S
      OBVIOUS
    <3> HIDE DEF S
    <3> QED
      BY <3>1, UseAt, MoreWords
  <2>3. Checks(text, A, B, {})
    <3> HIDE DEF A, B
    <3> QED
      BY <2>1, <2>2, InTurn
  <2>4. /\ "mut" \notin S /\ "mutableRequest" \notin S /\ "tmp" \notin S
        /\ "request" \in R \cup S
    OBVIOUS
  <2>5. InputWords(m) = S \cup Leftover(input)
    BY <1>3 DEF InputWords
  <2> HIDE DEF S, A, text, input
  <2>6. Checks(text \o ReceiveVtkBlock("request", input, s)
                    \o ReceiveExternalBlock("request", input, s),
               A, At(j, R, S \cup Leftover(input), ObjectFields(input)), TmpTwice(input, s))
    <3>1. Checks(text, A, At(j, R, S, {}), {})
      BY <2>3
    <3> HIDE DEF B
    <3> QED
      BY <1>1, <2>4, <3>1, ReceivedChecks, MoreWords
  <2> QED
    BY <1>3, <2>5, <2>6 DEF A, text, input
<1> QED
  BY <1>2, <1>3

\* and the one that makes the closure.
LEMMA ClosureChecks ==
  ASSUME NEW m \in MethodType, NEW j \in Nat, NEW s, IsScope(s, j),
         NEW R, {"requestMessageEnvelope", "replyChannel"} \subseteq R,
         NEW S, "out" \notin S, "info" \notin S, NEW F
  PROVE  Checks(IF m.output.void THEN <<>>
                ELSE <<Declare("out", s), Declare("info", s)>>
                       \o Items("use", <<"info", "requestMessageEnvelope", "out",
                                         "replyChannel">>, s)
                       \o <<Item("closure", <<j>>, s)>>,
                At(j, R, S, F), At(j, R, S \cup OutputWords(m), F), {})
<1> DEFINE S1 == S \cup {"out"}
           S2 == S1 \cup {"info"}
           T(W) == At(j, R, W, F)
           n == <<"info", "requestMessageEnvelope", "out", "replyChannel">>
           p1 == <<Declare("out", s), Declare("info", s)>>
           p2 == Items("use", n, s)
           p3 == <<Item("closure", <<j>>, s)>>
<1>1. s \in Seq(Nat) /\ <<j>> \in NameSet
  BY MethodScope DEF IsScope
<1>2. CASE m.output.void
  <2>1. S \cup OutputWords(m) = S
    BY <1>2 DEF OutputWords
  <2> QED
    BY <1>2, <2>1, EmptyChecks
<1>3. CASE ~m.output.void
  <2>1. S \cup OutputWords(m) = S2
    BY <1>3 DEF OutputWords
  <2>2. Checks(<<Declare("out", s)>>, T(S), T(S1), {})
    BY DeclareAt, MoreWords
  <2>3. Checks(<<Declare("info", s)>>, T(S1), T(S2), {})
    <3>1. "info" \notin S1
      OBVIOUS
    <3> HIDE DEF S1
    <3> QED
      BY <3>1, DeclareAt, MoreWords
  <2>4. Checks(p2, T(S2), T(S2), {})
    <3>1. n \in Seq(Words) /\ Range(n) = {"info", "requestMessageEnvelope", "out", "replyChannel"}
      <4> DEFINE a == "info"
                 b == "requestMessageEnvelope"
      <4>1. a \in Words /\ b \in Words /\ "out" \in Words /\ "replyChannel" \in Words
        BY MoreWords
      <4>2. \A c, d \in Words :
              <<a, b, c, d>> \in Seq(Words) /\ Range(<<a, b, c, d>>) = {a, b, c, d}
        <5> HIDE DEF a, b
        <5> QED
          BY <4>1, WordLists
      <4> QED
        BY <4>1, <4>2
    <3> HIDE DEF n
    <3>2. Range(n) \subseteq R \cup S2
      BY <3>1
    <3> HIDE DEF S2
    <3> QED
      BY <1>1, <3>1, <3>2, SeenAt
  <2>5. Checks(p3, T(S2), T(S2), {})
    BY <1>1, NeutralItem, Vocabulary
  <2> HIDE DEF T, S1, S2, p2, p3
  <2>6. Checks(p1, T(S), T(S2), {})
    BY <2>2, <2>3, InTurn
  <2> HIDE DEF p1
  <2>7. Checks(p1 \o p2, T(S), T(S2), {})
    BY <2>4, <2>6, ChecksThen
  <2>8. Checks(p1 \o p2 \o p3, T(S), T(S2), {})
    BY <2>5, <2>7, ChecksThen
  <2> QED
    BY <1>3, <2>1, <2>8 DEF T, p1, p2, p3
<1> QED
  BY <1>2, <1>3

\* The case of dispatch() has one fault, if the request has objects of both kinds.
LEMMA DispatchChecks ==
  ASSUME NEW m \in MethodType, NEW j \in Nat, NEW R,
         {"requestMessageEnvelope", "request", "replyChannel"} \subseteq R
  PROVE  Checks(DispatchCase(m, j), At(j, R, {}, {}), At(j + 1, R, {}, {}),
                TmpTwice(m.input, <<j>>))
<1> DEFINE s == <<j>>
           names == Arguments(m)
           F == ObjectFields(m.input)
           T(S) == At(j, R, S, F)
           p1 == <<Item("case", <<j>>, s)>>
           p2 == IF m.input.void THEN <<>>
                 ELSE <<Declare("in", s), Use("request", s)>>
                        \o ReceiveVtkBlock("request", m.input, s)
                        \o ReceiveExternalBlock("request", m.input, s)
           p3 == IF m.output.void THEN <<>>
                 ELSE <<Declare("out", s), Declare("info", s)>>
                        \o Items("use", <<"info", "requestMessageEnvelope", "out",
                                          "replyChannel">>, s)
                        \o <<Item("closure", <<j>>, s)>>
           p4 == <<Declare("done", s)>>
           p5 == Items("use", names, s)
           p6 == Items("argument", names, s)
           A == At(j, R, {}, {})
           S1 == InputWords(m)
           S2 == S1 \cup OutputWords(m)
           S3 == S2 \cup {"done"}
           e == TmpTwice(m.input, s)
<1>1. DispatchCase(m, j) = p1 \o p2 \o p3 \o p4 \o p5 \o p6
  BY DEF DispatchCase, Arguments
<1>2. IsScope(s, j) /\ s \in Seq(Nat) /\ <<j>> \in NameSet /\ m.input \in Messages
  BY MethodScope DEF MethodType, IsScope
<1>3. names \in Seq(Words) /\ Range(names) = ArgumentSet(m)
  BY ArgumentWords, MethodWords
<1>4. /\ S1 \subseteq {"in", "mut", "mutableRequest", "tmp"} /\ Range(names) \subseteq S3
      /\ "done" \notin S2
  <2>1. OutputWords(m) \subseteq {"out", "info"}
    BY DEF OutputWords
  <2> QED
    BY <1>3, <2>1, ArgumentsSeen
<1> HIDE DEF s, S1, names
<1>5. Checks(p1, A, A, {})
  BY <1>2, NeutralItem, Vocabulary
<1>6. Checks(p2, A, T(S1), e)
  BY <1>2, RequestChecks DEF S1
<1>7. Checks(p3, T(S1), T(S2), {})
  <2>1. "out" \notin S1 /\ "info" \notin S1
    BY <1>4
  <2> HIDE DEF F
  <2> QED
    BY <1>2, <2>1, ClosureChecks
<1> HIDE DEF S2
<1>8. Checks(p4, T(S2), T(S3), {})
  BY <1>2, <1>4, DeclareAt, MoreWords
<1> HIDE DEF S3
<1>9. Checks(p5, T(S3), T(S3), {})
  <2>1. Range(names) \subseteq R \cup S3
    BY <1>4
  <2> QED
    BY <1>2, <1>3, <2>1, SeenAt
<1>10. Checks(p6, T(S3), T(S3), {})
  <2>1. Lists(p6, "argument", names, s)
    BY <1>2, <1>3, ListItems, Vocabulary
  <2> HIDE DEF p6
  <2>2. p6 \in Seq(AllItems) /\ \A k \in 1 .. Len(p6) : p6[k].op \notin Plain
    BY <2>1, Vocabulary DEF Lists
  <2> QED
    BY <2>2, NeutralChecks
<1>11. T(S3) \subseteq At(j + 1, R, {}, {})
  BY <1>2, KindsApart, NextAt
<1> DEFINE all == p1 \o p2 \o p3 \o p4 \o p5 \o p6
<1>12. Checks(all, A, T(S3), e)
  <2> HIDE DEF p1, p2, p3, p4, p5, p6, A, T, e
  <2>1. Checks(p1 \o p2, A, T(S1), e)
    BY <1>5, <1>6, ChecksThen
  <2>2. Checks(p1 \o p2 \o p3, A, T(S2), e)
    BY <1>7, <2>1, ChecksThen
  <2>3. Checks(p1 \o p2 \o p3 \o p4, A, T(S3), e)
    BY <1>8, <2>2, ChecksThen
  <2>4. Checks(p1 \o p2 \o p3 \o p4 \o p5, A, T(S3), e)
    BY <1>9, <2>3, ChecksThen
  <2> QED
    BY <1>10, <2>4, ChecksThen
<1> HIDE DEF all, A, T, e
<1>13. Checks(all, A, At(j + 1, R, {}, {}), e)
  BY <1>11, <1>12, ChecksWeaker
<1> QED
  BY <1>1, <1>13 DEF A, e, s, all

\* The text of all methods.
LEMMA MethodsCheck ==
  ASSUME NEW n \in Nat, NEW texts, texts = [k \in 1 .. n |-> texts[k]], NEW R, NEW faults,
         \A k \in 1 .. n :
           Checks(texts[k], At(k, R, {}, {}), At(k + 1, R, {}, {}), faults[k])
  PROVE  Checks(FlattenSeq(texts), At(1, R, {}, {}), At(n + 1, R, {}, {}), AllFaults(faults, n))
<1> DEFINE State == [k \in 0 .. n |-> At(k + 1, R, {}, {})]
<1>1. texts \in Seq(Seq(AllItems)) /\ Len(texts) = n
  <2>1. \A k \in 1 .. n : texts[k] \in Seq(AllItems)
    BY DEF Checks
  <2> QED
    BY <2>1
<1>2. \A k \in 1 .. n : State[k - 1] = At(k, R, {}, {}) /\ State[k] = At(k + 1, R, {}, {})
  <2> SUFFICES ASSUME NEW k \in 1 .. n
               PROVE  State[k - 1] = At(k, R, {}, {}) /\ State[k] = At(k + 1, R, {}, {})
    OBVIOUS
  <2>1. k - 1 \in 0 .. n /\ k \in 0 .. n /\ (k - 1) + 1 = k
    OBVIOUS
  <2> QED
    BY <2>1
<1>3. State[0] = At(1, R, {}, {}) /\ State[n] = At(n + 1, R, {}, {})
  <2>1. 0 \in 0 .. n /\ n \in 0 .. n /\ 0 + 1 = 1
    OBVIOUS
  <2> QED
    BY <2>1
<1> HIDE DEF State
<1>4. Chained(texts, State, faults)
  BY <1>1, <1>2 DEF Chained
<1> QED
  BY <1>1, <1>3, <1>4, ChainChecks

\* The parameters of a function are declared around its methods.
LEMMA ParametersCheck ==
  ASSUME NEW names \in Seq(Words), Injective(names)
  PROVE  Checks(Parameters(names), {{}}, At(1, Range(names), {}, {}), {})
<1> DEFINE top == <<>>
           items == Items("declare", names, top)
           all == {} \cup Declared(items, Len(items))
           P == Called(Range(names))
<1>1. top \in Seq(Nat) /\ top # <<1>>
  OBVIOUS
<1>2. Parameters(names) = items
  BY DEF Parameters
<1> HIDE DEF top
<1>3. /\ items \in Seq(AllItems) /\ Faults(items, {}) = {} /\ all \subseteq AllItems
      /\ \A d \in all : d \in {} \/ d.scope = top
      /\ DeclaredIn(all, top) = P
  BY <1>1, DeclaresAre
<1> HIDE DEF all, items, P
<1>4. DeclaredIn(all, <<1>>) = {}
  BY <1>1, <1>3 DEF DeclaredIn
<1>5. all \in Ready(1, P, {}, {})
  BY <1>3, <1>4 DEF Ready, top
<1>6. all \in At(1, Range(names), {}, {})
  BY <1>5, CalledHas DEF At, P
<1> QED
  BY <1>2, <1>3, <1>6 DEF Checks, all

\* Nothing is declared before a file.
LEMMA NothingDeclared == {} \in At(1, {}, {}, {})
<1>1. DeclaredIn({}, <<>>) = {} /\ DeclaredIn({}, <<1>>) = {}
  BY DEF DeclaredIn
<1>2. {} \in Ready(1, {}, {}, {})
  BY <1>1 DEF Ready
<1> QED
  BY <1>2, CalledHas DEF At

\* The faults of a file of methods, without parameters or behind them.
FileFaults(items, faults) == items \in Seq(AllItems) /\ Faults(items, {}) = faults

\* They are those of its methods.
LEMMA FileChecks ==
  ASSUME NEW text, NEW R, NEW n \in Nat, NEW faults,
         Checks(text, At(1, R, {}, {}), At(n + 1, R, {}, {}), faults)
  PROVE  /\ R = {} => FileFaults(text, faults)
         /\ \A names \in Seq(Words) :
              Injective(names) /\ R = Range(names) =>
                FileFaults(Parameters(names) \o text, faults)
<1>1. ASSUME R = {} PROVE FileFaults(text, faults)
  BY <1>1, NothingDeclared DEF Checks, FileFaults
<1>2. ASSUME NEW names \in Seq(Words), Injective(names), R = Range(names)
      PROVE  FileFaults(Parameters(names) \o text, faults)
  <2> DEFINE head == Parameters(names)
             A == {{}}
             C == At(n + 1, R, {}, {})
  <2>1. Checks(head, A, At(1, R, {}, {}), {})
    BY <1>2, ParametersCheck
  <2> HIDE DEF head, A, C
  <2>2. Checks(text, At(1, R, {}, {}), C, faults)
    BY DEF C
  <2>3. Checks(head \o text, A, C, faults)
    BY <2>1, <2>2, ChecksThen
  <2> DEFINE items == head \o text
  <2> HIDE DEF items
  <2>4. Checks(items, A, C, faults) /\ {} \in A
    BY <2>3 DEF items, A
  <2>5. FileFaults(items, faults)
    BY <2>4 DEF Checks, FileFaults
  <2> QED
    BY <2>5 DEF head, items
<1> QED
  BY <1>1, <1>2

\* The parameters of the three functions.
DispatchNames == <<"methodId", "requestMessageEnvelope", "request", "replyChannel">>
ReplyNames == <<"info">>
HandlerNames == <<"channel", "methodId", "incomingResponse", "targetResponse",
                  "errorCode", "errorString", "callback">>

\* They are different, and the cases find what they use among them.
LEMMA ParameterNames ==
  /\ DispatchNames \in Seq(Words) /\ Injective(DispatchNames)
  /\ ReplyNames \in Seq(Words) /\ Injective(ReplyNames)
  /\ HandlerNames \in Seq(Words) /\ Injective(HandlerNames)
  /\ {"requestMessageEnvelope", "request", "replyChannel"} \subseteq Range(DispatchNames)
  /\ "info" \in Range(ReplyNames)
  /\ {"incomingResponse", "targetResponse", "errorCode", "errorString", "callback"}
       \subseteq Range(HandlerNames)
<1>1. DispatchNames \in Seq(Words) /\ ReplyNames \in Seq(Words) /\ HandlerNames \in Seq(Words)
  BY MoreWords DEF DispatchNames, ReplyNames, HandlerNames
<1>2. Injective(DispatchNames) /\ Injective(ReplyNames)
  BY DEF DispatchNames, ReplyNames, Injective
<1>3. Injective(HandlerNames)
  BY DEF HandlerNames, Injective
<1>4. /\ {"requestMessageEnvelope", "request", "replyChannel"} \subseteq Range(DispatchNames)
      /\ "info" \in Range(ReplyNames)
  BY DEF DispatchNames, ReplyNames, Range
<1>5. {"incomingResponse", "targetResponse", "errorCode", "errorString", "callback"}
        \subseteq Range(HandlerNames)
  BY DEF HandlerNames, Range
<1> QED
  BY <1>1, <1>2, <1>3, <1>4, <1>5

\* What is wrong in a file is what is wrong in its text.
Reported(file, faults) == {<<file, f[1], f[2]>> : f \in faults}

\* The errors are what the files have, each without anything before it.
LEMMA ErrorsAre ==
  ASSUME \A file \in Files : written[file] \in Seq(AllItems)
  PROVE  Errors = UNION {Reported(file, Faults(written[file], {})) : file \in Files}
<1> DEFINE Wrong(file) ==
             {k \in DOMAIN written[file] :
                \/ written[file][k].op = "use" /\ ~Visible(written[file], k)
                \/ written[file][k].op = "declare" /\ Redeclared(written[file], k)}
           Found(file) ==
             {<<file, written[file][k].name[1], written[file][k].scope>> : k \in Wrong(file)}
<1>1. Errors = UNION {Found(file) : file \in Files}
  BY DEF Errors
<1>2. ASSUME NEW file \in Files PROVE Found(file) = Reported(file, Faults(written[file], {}))
  <2> DEFINE items == written[file]
             Bad(k) == Rejected(items[k], {} \cup Declared(items, k - 1))
  <2>1. DOMAIN items = 1 .. Len(items)
    BY <1>2, LenProperties
  <2> HIDE DEF items
  <2>2. ASSUME NEW k \in 1 .. Len(items)
        PROVE  /\ Visible(items, k) <=> Sees({} \cup Declared(items, k - 1), items[k])
               /\ Redeclared(items, k) <=> Clashes({} \cup Declared(items, k - 1), items[k])
    BY DEF Visible, Redeclared, Sees, Clashes, Declared
  <2>3. Wrong(file) = {k \in 1 .. Len(items) : Bad(k)}
    BY <2>1, <2>2 DEF Rejected, items
  <2> HIDE DEF Wrong
  <2>4. Faults(items, {}) = {Mark(items[k]) : k \in Wrong(file)}
    BY <2>3 DEF Faults
  <2>5. \A k : LET f == Mark(items[k])
               IN  <<file, f[1], f[2]>> = <<file, items[k].name[1], items[k].scope>>
    BY DEF Mark
  <2>6. Reported(file, Faults(items, {}))
          = {<<file, items[k].name[1], items[k].scope>> : k \in Wrong(file)}
    BY <2>4, <2>5 DEF Reported
  <2> QED
    BY <2>6 DEF items
<1> HIDE DEF Found
<1> QED
  BY <1>1, <1>2

\* Methods of which a file has a fault, and the fault.
FaultyMethods(Bad) == {i \in DOMAIN service : Bad[i]}
FaultsIn(word, Bad) == {<<word, <<j>>>> : j \in FaultyMethods(Bad)}

\* Faults that all have the same name.
LEMMA FaultsReported ==
  ASSUME NEW file, NEW word, NEW Bad
  PROVE  Reported(file, FaultsIn(word, Bad)) = {<<file, word, <<j>>>> : j \in FaultyMethods(Bad)}
<1> DEFINE faulty == FaultyMethods(Bad)
<1>1. \A j : LET f == <<word, <<j>>>> IN <<file, f[1], f[2]>> = <<file, word, <<j>>>>
  OBVIOUS
<1> HIDE DEF faulty
<1>2. {<<file, f[1], f[2]>> : f \in {<<word, <<j>>>> : j \in faulty}}
        = {<<file, word, <<j>>>> : j \in faulty}
  BY <1>1
<1> QED
  BY <1>2 DEF Reported, FaultsIn, faulty

\* The file of a service, if each method has its fault or none.
LEMMA ServiceFile ==
  ASSUME GenInv, NEW texts, texts = [k \in DOMAIN service |-> texts[k]], NEW R, NEW word, NEW Bad,
         \A k \in DOMAIN service :
           Checks(texts[k], At(k, R, {}, {}), At(k + 1, R, {}, {}),
                  IF Bad[k] THEN {<<word, <<k>>>>} ELSE {})
  PROVE  /\ R = {} => FileFaults(FlattenSeq(texts), FaultsIn(word, Bad))
         /\ \A names \in Seq(Words) :
              Injective(names) /\ R = Range(names) =>
                FileFaults(Parameters(names) \o FlattenSeq(texts), FaultsIn(word, Bad))
<1> DEFINE n == Len(service)
           faults == [k \in 1 .. n |-> IF Bad[k] THEN {<<word, <<k>>>>} ELSE {}]
           text == FlattenSeq(texts)
<1>1. DOMAIN service = 1 .. n /\ n \in Nat
  BY ServiceTyped
<1>2. AllFaults(faults, n) = FaultsIn(word, Bad)
  <2> HIDE DEF n
  <2>1. \A k \in 1 .. n : faults[k] = IF Bad[k] THEN {<<word, <<k>>>>} ELSE {}
    OBVIOUS
  <2> HIDE DEF faults
  <2>2. FaultyMethods(Bad) = {k \in 1 .. n : Bad[k]}
    BY <1>1 DEF FaultyMethods
  <2>3. \A x : x \in AllFaults(faults, n) <=> \E k \in 1 .. n : Bad[k] /\ x = <<word, <<k>>>>
    BY <2>1 DEF AllFaults
  <2>4. \A x : x \in FaultsIn(word, Bad) <=> \E k \in 1 .. n : Bad[k] /\ x = <<word, <<k>>>>
    BY <2>2 DEF FaultsIn
  <2> QED
    BY <2>3, <2>4
<1>3. \A k \in 1 .. n :
        Checks(texts[k], At(k, R, {}, {}), At(k + 1, R, {}, {}), faults[k])
  BY <1>1
<1> HIDE DEF faults, n
<1>4. texts = [k \in 1 .. n |-> texts[k]]
  BY <1>1
<1>5. Checks(text, At(1, R, {}, {}), At(n + 1, R, {}, {}), FaultsIn(word, Bad))
  BY <1>1, <1>2, <1>3, <1>4, MethodsCheck
<1> HIDE DEF text
<1> QED
  BY <1>1, <1>5, FileChecks DEF text

\* The proxies,
LEMMA ProxyFaults ==
  ASSUME GenInv, next = "done"
  PROVE  FileFaults(written["proxy"],
           FaultsIn("output", [k \in DOMAIN service |-> IsNotification(service[k])]))
<1> DEFINE texts == ProxyTexts
           Bad == [k \in DOMAIN service |-> IsNotification(service[k])]
<1>1. \A k \in DOMAIN service : service[k] \in MethodType /\ k \in Nat
  BY ServiceTyped
<1>2. \A k \in DOMAIN service : texts[k] = ProxyMethod(service[k], k)
                                /\ (Bad[k] <=> IsNotification(service[k]))
  BY DEF ProxyTexts
<1>3. texts = [k \in DOMAIN service |-> texts[k]]
  BY DEF ProxyTexts
<1>4. written["proxy"] = FlattenSeq(texts)
  BY DEF GenInv
<1> HIDE DEF texts, Bad
<1>5. ASSUME NEW k \in DOMAIN service
      PROVE  Checks(texts[k], At(k, {}, {}, {}), At(k + 1, {}, {}, {}),
                    IF Bad[k] THEN {<<"output", <<k>>>>} ELSE {})
  <2>1. ProxyFault(service[k], <<k>>) = IF Bad[k] THEN {<<"output", <<k>>>>} ELSE {}
    BY <1>2 DEF ProxyFault
  <2> QED
    BY <1>1, <1>2, <2>1, ProxyChecks
<1>6. FileFaults(FlattenSeq(texts), FaultsIn("output", Bad))
  BY <1>3, <1>5, ServiceFile
<1> QED
  BY <1>4, <1>6 DEF Bad

\* the cases of dispatch(),
LEMMA DispatchFaults ==
  ASSUME GenInv, next = "done"
  PROVE  FileFaults(written["dispatch"],
           FaultsIn("tmp", [k \in DOMAIN service |-> HasBothKinds(service[k].input)]))
<1> DEFINE texts == DispatchTexts
           Bad == [k \in DOMAIN service |-> HasBothKinds(service[k].input)]
           R == Range(DispatchNames)
<1>1. \A k \in DOMAIN service : service[k] \in MethodType /\ k \in Nat
  BY ServiceTyped
<1>2. \A k \in DOMAIN service : texts[k] = DispatchCase(service[k], k)
                                /\ (Bad[k] <=> HasBothKinds(service[k].input))
  BY DEF DispatchTexts
<1>3. texts = [k \in DOMAIN service |-> texts[k]]
  BY DEF DispatchTexts
<1>4. written["dispatch"] = Parameters(DispatchNames) \o FlattenSeq(texts)
  BY DEF GenInv, DispatchParameters, DispatchNames
<1>5. {"requestMessageEnvelope", "request", "replyChannel"} \subseteq R
  BY ParameterNames
<1> HIDE DEF texts, Bad, R
<1>6. ASSUME NEW k \in DOMAIN service
      PROVE  Checks(texts[k], At(k, R, {}, {}), At(k + 1, R, {}, {}),
                    IF Bad[k] THEN {<<"tmp", <<k>>>>} ELSE {})
  <2>1. TmpTwice(service[k].input, <<k>>) = IF Bad[k] THEN {<<"tmp", <<k>>>>} ELSE {}
    BY <1>2 DEF TmpTwice
  <2> QED
    BY <1>1, <1>2, <1>5, <2>1, DispatchChecks
<1>7. FileFaults(Parameters(DispatchNames) \o FlattenSeq(texts), FaultsIn("tmp", Bad))
  BY <1>3, <1>6, ServiceFile, ParameterNames DEF R
<1> QED
  BY <1>4, <1>7 DEF Bad

\* those of reply(),
LEMMA ReplyFaults ==
  ASSUME GenInv, next = "done"
  PROVE  FileFaults(written["reply"], {})
<1> DEFINE texts == ReplyTexts
           Bad == [k \in DOMAIN service |-> FALSE]
           R == Range(ReplyNames)
<1>1. \A k \in DOMAIN service : service[k] \in MethodType /\ k \in Nat
  BY ServiceTyped
<1>2. \A k \in DOMAIN service : texts[k] = ReplyCase(service[k], k) /\ ~Bad[k]
  BY DEF ReplyTexts
<1>3. texts = [k \in DOMAIN service |-> texts[k]]
  BY DEF ReplyTexts
<1>4. written["reply"] = Parameters(ReplyNames) \o FlattenSeq(texts)
  BY DEF GenInv, ReplyParameters, ReplyNames
<1>5. "info" \in R
  BY ParameterNames
<1>6. FaultsIn("tmp", Bad) = {}
  BY DEF FaultsIn, FaultyMethods
<1> HIDE DEF texts, Bad, R
<1>7. ASSUME NEW k \in DOMAIN service
      PROVE  Checks(texts[k], At(k, R, {}, {}), At(k + 1, R, {}, {}),
                    IF Bad[k] THEN {<<"tmp", <<k>>>>} ELSE {})
  <2>1. (IF Bad[k] THEN {<<"tmp", <<k>>>>} ELSE {}) = {}
    BY <1>2
  <2> QED
    BY <1>1, <1>2, <1>5, <2>1, ReplyChecks
<1>8. FileFaults(Parameters(ReplyNames) \o FlattenSeq(texts), FaultsIn("tmp", Bad))
  BY <1>3, <1>7, ServiceFile, ParameterNames DEF R
<1> QED
  BY <1>4, <1>6, <1>8

\* those of handle(),
LEMMA HandlerFaults ==
  ASSUME GenInv, next = "done"
  PROVE  FileFaults(written["handler"],
           FaultsIn("tmp", [k \in DOMAIN service |-> HasBothKinds(service[k].output)]))
<1> DEFINE texts == HandlerTexts
           Bad == [k \in DOMAIN service |-> HasBothKinds(service[k].output)]
           R == Range(HandlerNames)
<1>1. \A k \in DOMAIN service : service[k] \in MethodType /\ k \in Nat
  BY ServiceTyped
<1>2. \A k \in DOMAIN service : texts[k] = HandlerCase(service[k], k)
                                /\ (Bad[k] <=> HasBothKinds(service[k].output))
  BY DEF HandlerTexts
<1>3. texts = [k \in DOMAIN service |-> texts[k]]
  BY DEF HandlerTexts
<1>4. written["handler"] = Parameters(HandlerNames) \o FlattenSeq(texts)
  BY DEF GenInv, HandlerParameters, HandlerNames
<1>5. {"incomingResponse", "targetResponse", "errorCode", "errorString", "callback"} \subseteq R
  BY ParameterNames
<1> HIDE DEF texts, Bad, R
<1>6. ASSUME NEW k \in DOMAIN service
      PROVE  Checks(texts[k], At(k, R, {}, {}), At(k + 1, R, {}, {}),
                    IF Bad[k] THEN {<<"tmp", <<k>>>>} ELSE {})
  <2>1. TmpTwice(service[k].output, <<k>>) = IF Bad[k] THEN {<<"tmp", <<k>>>>} ELSE {}
    BY <1>2 DEF TmpTwice
  <2> QED
    BY <1>1, <1>2, <1>5, <2>1, HandlerChecks
<1>7. FileFaults(Parameters(HandlerNames) \o FlattenSeq(texts), FaultsIn("tmp", Bad))
  BY <1>3, <1>6, ServiceFile, ParameterNames DEF R
<1> QED
  BY <1>4, <1>7 DEF Bad

\* and the files that only list the methods.
LEMMA OtherFaults ==
  ASSUME GenInv, next = "done"
  PROVE  FileFaults(written["header"], {}) /\ FileFaults(written["implements"], {})
<1> DEFINE Bad == [k \in DOMAIN service |-> FALSE]
<1>1. \A k \in DOMAIN service : service[k] \in MethodType /\ k \in Nat
  BY ServiceTyped
<1>2. FaultsIn("tmp", Bad) = {} /\ \A k \in DOMAIN service : ~Bad[k]
  BY DEF FaultsIn, FaultyMethods
<1>3. written["header"] = FlattenSeq(HeaderTexts)
      /\ written["implements"] = FlattenSeq(ImplementsTexts)
  BY DEF GenInv
<1> HIDE DEF Bad
<1>4. ASSUME NEW k \in DOMAIN service, NEW text \in Seq(AllItems),
             \A i \in 1 .. Len(text) : text[i].op \notin Plain
      PROVE  Checks(text, At(k, {}, {}, {}), At(k + 1, {}, {}, {}),
                    IF Bad[k] THEN {<<"tmp", <<k>>>>} ELSE {})
  <2> DEFINE A == At(k, {}, {}, {})
             B == At(k + 1, {}, {}, {})
  <2>1. A \subseteq B
    BY <1>1, NextAt
  <2> HIDE DEF A, B
  <2>2. Checks(text, A, A, {})
    BY <1>4, NeutralChecks
  <2>3. Checks(text, A, B, {})
    BY <2>1, <2>2, ChecksWeaker
  <2>4. (IF Bad[k] THEN {<<"tmp", <<k>>>>} ELSE {}) = {}
    BY <1>2
  <2> QED
    BY <2>3, <2>4 DEF A, B
<1>5. ASSUME NEW k \in DOMAIN service
      PROVE  HeaderTexts[k] \in Seq(AllItems)
             /\ \A i \in 1 .. Len(HeaderTexts[k]) : HeaderTexts[k][i].op \notin Plain
  <2> DEFINE s == <<k>>
             names == MethodSignature(service[k])
             text == Items("parameter", names, s)
  <2>1. s \in Seq(Nat) /\ names \in Seq(Words) /\ HeaderTexts[k] = text
    BY <1>1, <1>5, MethodScope, ArgumentWords DEF HeaderTexts
  <2> HIDE DEF s, names
  <2>2. Lists(text, "parameter", names, s)
    BY <2>1, ListItems, Vocabulary
  <2> HIDE DEF text
  <2>3. text \in Seq(AllItems) /\ \A i \in 1 .. Len(text) : text[i].op \notin Plain
    BY <2>2, Vocabulary DEF Lists
  <2> QED
    BY <2>1, <2>3
<1>6. ASSUME NEW k \in DOMAIN service
      PROVE  ImplementsTexts[k] \in Seq(AllItems)
             /\ \A i \in 1 .. Len(ImplementsTexts[k]) : ImplementsTexts[k][i].op \notin Plain
  <2> DEFINE name == <<k>>
             top == <<>>
             item == Item("case", name, top)
  <2>1. name \in NameSet /\ top \in Seq(Nat) /\ ImplementsTexts[k] = <<item>>
    BY <1>1, <1>6, MethodScope, EmptySeq DEF ImplementsTexts
  <2> HIDE DEF name, top
  <2>2. item \in AllItems /\ item.op \notin Plain
    BY <2>1, ItemTyped, Vocabulary
  <2> HIDE DEF item
  <2>3. <<item>> \in Seq(AllItems) /\ Len(<<item>>) = 1 /\ <<item>>[1] = item
    BY <2>2
  <2> QED
    BY <2>1, <2>2, <2>3
<1>7. HeaderTexts = [k \in DOMAIN service |-> HeaderTexts[k]]
      /\ ImplementsTexts = [k \in DOMAIN service |-> ImplementsTexts[k]]
  BY DEF HeaderTexts, ImplementsTexts
<1> DEFINE x == HeaderTexts
           y == ImplementsTexts
<1>8. \A k \in DOMAIN service :
        /\ Checks(x[k], At(k, {}, {}, {}), At(k + 1, {}, {}, {}),
                  IF Bad[k] THEN {<<"tmp", <<k>>>>} ELSE {})
        /\ Checks(y[k], At(k, {}, {}, {}), At(k + 1, {}, {}, {}),
                  IF Bad[k] THEN {<<"tmp", <<k>>>>} ELSE {})
  BY <1>4, <1>5, <1>6
<1> HIDE DEF x, y
<1>9. FileFaults(FlattenSeq(x), FaultsIn("tmp", Bad))
  BY <1>7, <1>8, ServiceFile DEF x
<1>10. FileFaults(FlattenSeq(y), FaultsIn("tmp", Bad))
  BY <1>7, <1>8, ServiceFile DEF y
<1> QED
  BY <1>2, <1>3, <1>9, <1>10 DEF x, y

-----------------------------------------------------------------------------
\* Generated functions use a variable or parameter that is not declared only where
\* a proxy passes on an `output' that it is not given, and declare one twice only
\* where `tmp' is declared again (rpcgenerator.cpp:241, 730 and 1068): all other
\* variables and parameters of a proxy, dispatch(), reply() or handle() are
\* declared before their use, in a scope around it, and once in a scope.
THEOREM LocalFaultsKnown == Spec => []LocalErrorsKnown
<1>1. ASSUME GenInv PROVE LocalErrorsKnown
  <2> DEFINE F1 == FaultsIn("output", [k \in DOMAIN service |-> IsNotification(service[k])])
             F2 == FaultsIn("tmp", [k \in DOMAIN service |-> HasBothKinds(service[k].input)])
             F3 == FaultsIn("tmp", [k \in DOMAIN service |-> HasBothKinds(service[k].output)])
  <2> SUFFICES ASSUME next = "done"
               PROVE  Errors = {<<"proxy", "output", <<j>>>> : j \in {i \in DOMAIN service :
                                                      IsNotification(service[i])}}
                   \cup {<<"dispatch", "tmp", <<j>>>> : j \in {i \in DOMAIN service :
                                                      HasBothKinds(service[i].input)}}
                   \cup {<<"handler", "tmp", <<j>>>> : j \in {i \in DOMAIN service :
                                                      HasBothKinds(service[i].output)}}
    BY DEF LocalErrorsKnown
  <2>1. Reported("proxy", F1) = {<<"proxy", "output", <<j>>>> : j \in {i \in DOMAIN service :
                                                     IsNotification(service[i])}}
    <3> DEFINE Bad == [k \in DOMAIN service |-> IsNotification(service[k])]
    <3>1. FaultyMethods(Bad) = {i \in DOMAIN service : IsNotification(service[i])}
      BY DEF FaultyMethods
    <3> HIDE DEF Bad
    <3>2. Reported("proxy", FaultsIn("output", Bad))
            = {<<"proxy", "output", <<j>>>> : j \in FaultyMethods(Bad)}
      BY FaultsReported
    <3> QED
      BY <3>1, <3>2 DEF Bad
  <2>2. Reported("dispatch", F2) = {<<"dispatch", "tmp", <<j>>>> : j \in {i \in DOMAIN service :
                                                     HasBothKinds(service[i].input)}}
    <3> DEFINE Bad == [k \in DOMAIN service |-> HasBothKinds(service[k].input)]
    <3>1. FaultyMethods(Bad) = {i \in DOMAIN service : HasBothKinds(service[i].input)}
      BY DEF FaultyMethods
    <3> HIDE DEF Bad
    <3>2. Reported("dispatch", FaultsIn("tmp", Bad))
            = {<<"dispatch", "tmp", <<j>>>> : j \in FaultyMethods(Bad)}
      BY FaultsReported
    <3> QED
      BY <3>1, <3>2 DEF Bad
  <2>3. Reported("handler", F3) = {<<"handler", "tmp", <<j>>>> : j \in {i \in DOMAIN service :
                                                     HasBothKinds(service[i].output)}}
    <3> DEFINE Bad == [k \in DOMAIN service |-> HasBothKinds(service[k].output)]
    <3>1. FaultyMethods(Bad) = {i \in DOMAIN service : HasBothKinds(service[i].output)}
      BY DEF FaultyMethods
    <3> HIDE DEF Bad
    <3>2. Reported("handler", FaultsIn("tmp", Bad))
            = {<<"handler", "tmp", <<j>>>> : j \in FaultyMethods(Bad)}
      BY FaultsReported
    <3> QED
      BY <3>1, <3>2 DEF Bad
  <2>4. /\ FileFaults(written["proxy"], F1) /\ FileFaults(written["dispatch"], F2)
        /\ FileFaults(written["handler"], F3) /\ FileFaults(written["reply"], {})
        /\ FileFaults(written["header"], {}) /\ FileFaults(written["implements"], {})
    BY <1>1, ProxyFaults, DispatchFaults, HandlerFaults, ReplyFaults, OtherFaults
  <2> HIDE DEF F1, F2, F3
  <2>5. Files = {"header", "proxy", "dispatch", "reply", "implements", "handler"}
    BY DEF Files
  <2>6. \A file \in Files : written[file] \in Seq(AllItems)
    BY <2>4, <2>5 DEF FileFaults
  <2>7. Errors = UNION {Reported(file, Faults(written[file], {})) : file \in Files}
    BY <2>6, ErrorsAre
  <2>8. \A file : Reported(file, {}) = {}
    BY DEF Reported
  <2>9. Errors = Reported("proxy", F1) \cup Reported("dispatch", F2) \cup Reported("handler", F3)
    <3> DEFINE Rep(file) == Reported(file, Faults(written[file], {}))
    <3>1. /\ Rep("proxy") = Reported("proxy", F1) /\ Rep("dispatch") = Reported("dispatch", F2)
          /\ Rep("handler") = Reported("handler", F3)
          /\ Rep("reply") = {} /\ Rep("header") = {} /\ Rep("implements") = {}
      BY <2>4, <2>8 DEF FileFaults
    <3>2. UNION {Rep(file) : file \in Files}
            = Rep("header") \cup Rep("proxy") \cup Rep("dispatch") \cup Rep("reply")
                \cup Rep("implements") \cup Rep("handler")
      <4> HIDE DEF Rep
      <4> QED
        BY <2>5
    <3> QED
      BY <2>7, <3>1, <3>2
  <2> QED
    BY <2>1, <2>2, <2>3, <2>9
<1> QED
  BY <1>1, FilesWritten, PTL

=============================================================================
