----------------------------- MODULE RowsProofs -----------------------------
(***************************************************************************)
(* What the operators of Rows compute and keep, for rows of any length.    *)
(* The library's induction rules take an operator, which the provers       *)
(* cannot instantiate, so the induction over rows is proved here over sets *)
(* of rows; everything else follows from what one more item adds.          *)
(***************************************************************************)
EXTENDS Rows, NaturalsInduction, WellFoundedInduction, SequenceTheorems,
        FiniteSetTheorems, TLAPS

-----------------------------------------------------------------------------
(* Induction. *)

\* A set of numbers that is not empty has a least one.
LEMMA NatMin ==
    ASSUME NEW T \in SUBSET Nat, T # {}
    PROVE  \E m \in T : \A k \in T : m <= k
<1> DEFINE R == {x \in Nat \X Nat : x[1] < x[2]}
<1>1. IsWellFoundedOn(R, Nat)
  BY NatLessThanWellFounded DEF OpToRel
<1>2. \A k, m \in Nat : k < m => <<k, m>> \in R
  OBVIOUS
<1> HIDE DEF R
<1>3. PICK m \in T : \A k \in T : ~(<<k, m>> \in R)
  BY <1>1, WFMin
<1>4. \A k \in T : ~(k < m) /\ k \in Nat /\ m \in Nat
  BY <1>2, <1>3
<1>5. QED
  BY <1>3, <1>4

\* Induction, over a set: the form that needs no operator.
LEMMA NatInduction1 ==
    ASSUME NEW S \in SUBSET Nat, 0 \in S, \A n \in S : n + 1 \in S
    PROVE  S = Nat
<1>1. SUFFICES ASSUME Nat \ S # {} PROVE FALSE
  OBVIOUS
<1>2. PICK m \in Nat \ S : \A k \in Nat \ S : m <= k
  BY <1>1, NatMin
<1>3. m - 1 \in Nat /\ m - 1 \notin Nat \ S
  BY <1>2
<1>4. QED
  BY <1>2, <1>3

\* Induction over sequences, one entry after the other.
LEMMA AppendInduction ==
    ASSUME NEW S, NEW T \in SUBSET Seq(S), <<>> \in T,
           \A s \in T, e \in S : Append(s, e) \in T
    PROVE  T = Seq(S)
<1> DEFINE N == {n \in Nat : \A s \in Seq(S) : Len(s) = n => s \in T}
<1>1. 0 \in N
  <2>1. \A s \in Seq(S) : Len(s) = 0 => s = <<>>
    OBVIOUS
  <2>2. QED
    BY <2>1
<1>2. ASSUME NEW n \in N PROVE n + 1 \in N
  <2>0. n \in Nat /\ n + 1 \in Nat
    OBVIOUS
  <2>1. SUFFICES ASSUME NEW s \in Seq(S), Len(s) = n + 1 PROVE s \in T
    BY <2>0, Zenon
  <2>2. s # <<>>
    BY <2>0, <2>1
  <2>3. PICK t \in Seq(S), e \in S : s = Append(t, e)
    BY <2>2, SequenceEmptyOrAppend
  <2>4. Len(t) = n
    BY <2>0, <2>1, <2>3
  <2>5. QED
    BY <2>3, <2>4
<1>3. N = Nat
  <2> HIDE DEF N
  <2>1. N \in SUBSET Nat
    BY DEF N
  <2>2. QED
    BY <1>1, <1>2, <2>1, NatInduction1
<1>4. ASSUME NEW s \in Seq(S) PROVE s \in T
  <2>1. Len(s) \in N
    BY <1>3
  <2>2. QED
    BY <2>1
<1>5. QED
  BY <1>4

-----------------------------------------------------------------------------
(* What Keep and Named compute. *)

\* One more item of a row is kept, or it is not.
Grown(S, once, before, x) ==
    IF x \in S /\ (once => x \notin ToSet(before)) THEN Append(before, x) ELSE before

\* The recursive function of Keep, and with once that of Named.
IsGrowing(f, S, once, row) ==
    f = [i \in 0..Len(row) |->
             IF i = 0 THEN <<>> ELSE Grown(S, once, f[i - 1], row[i])]

\* It exists for one more item when it exists for the row before.
LEMMA GrowingGrows ==
    ASSUME NEW T, NEW row \in Seq(T), NEW g \in T, NEW S, NEW once, NEW f,
           IsGrowing(f, S, once, row)
    PROVE  \E h : /\ IsGrowing(h, S, once, Append(row, g))
                  /\ h[Len(row) + 1] = Grown(S, once, f[Len(row)], g)
<1> DEFINE n == Len(row)
           new == Append(row, g)
           h == [i \in 0..(n + 1) |-> IF i = n + 1 THEN Grown(S, once, f[n], g) ELSE f[i]]
<1>1. n \in Nat /\ Len(new) = n + 1 /\ new[n + 1] = g
      /\ \A i \in 1..n : new[i] = row[i]
  OBVIOUS
<1>2. \A i \in 0..n : f[i] = IF i = 0 THEN <<>> ELSE Grown(S, once, f[i - 1], row[i])
  BY DEF IsGrowing
<1>3. \A i \in 0..n : h[i] = f[i]
  BY <1>1
<1>4. h[n + 1] = Grown(S, once, f[n], g) /\ n + 1 \in 0..(n + 1)
  BY <1>1
<1>5. ASSUME NEW i \in 0..(n + 1)
      PROVE  h[i] = IF i = 0 THEN <<>> ELSE Grown(S, once, h[i - 1], new[i])
  <2>1. CASE i = 0
    BY <1>1, <1>2, <1>3, <2>1
  <2>2. CASE i \in 1..n
    <3>1. i - 1 \in 0..n /\ i \in 0..n /\ i # 0
      BY <2>2, <1>1
    <3>2. h[i] = Grown(S, once, f[i - 1], row[i])
      BY <3>1, <1>2, <1>3
    <3>3. QED
      BY <3>1, <3>2, <1>1, <1>3, <2>2
  <2>3. CASE i = n + 1
    <3>1. h[n] = f[n] /\ i - 1 = n /\ i # 0
      BY <1>1, <1>3, <2>3
    <3>2. QED
      BY <3>1, <1>1, <1>4, <2>3
  <2>4. i = 0 \/ i \in 1..n \/ i = n + 1
    BY <1>1
  <2>5. QED
    BY <2>1, <2>2, <2>3, <2>4
<1> HIDE DEF new
<1>6. h = [i \in 0..Len(new) |-> IF i = 0 THEN <<>> ELSE Grown(S, once, h[i - 1], new[i])]
  <2>1. 0..Len(new) = 0..(n + 1)
    BY <1>1
  <2>2. h = [i \in 0..(n + 1) |-> h[i]]
    OBVIOUS
  <2> HIDE DEF h
  <2>3. [i \in 0..(n + 1) |-> h[i]]
            = [i \in 0..(n + 1) |-> IF i = 0 THEN <<>> ELSE Grown(S, once, h[i - 1], new[i])]
    BY <1>5, Zenon
  <2>4. QED
    BY <2>1, <2>2, <2>3
<1>7. IsGrowing(h, S, once, new)
  BY <1>6 DEF IsGrowing
<1>8. QED
  BY <1>4, <1>7 DEF new

\* There is only one.
LEMMA GrowingAgrees ==
    ASSUME NEW T, NEW row \in Seq(T), NEW S, NEW once, NEW f, NEW h,
           IsGrowing(f, S, once, row), IsGrowing(h, S, once, row)
    PROVE  f = h
<1> DEFINE n == Len(row)
           Same == {i \in Nat : i <= n => f[i] = h[i]}
<1>1. n \in Nat
  OBVIOUS
<1>2. \A i \in 0..n : /\ f[i] = IF i = 0 THEN <<>> ELSE Grown(S, once, f[i - 1], row[i])
                      /\ h[i] = IF i = 0 THEN <<>> ELSE Grown(S, once, h[i - 1], row[i])
  BY DEF IsGrowing
<1>3. 0 \in Same
  BY <1>1, <1>2
<1>4. ASSUME NEW i \in Same PROVE i + 1 \in Same
  <2>1. CASE i + 1 <= n
    <3>1. i + 1 \in 0..n /\ i + 1 # 0 /\ (i + 1) - 1 = i /\ i <= n
      BY <1>1, <2>1
    <3>2. f[i] = h[i]
      BY <3>1
    <3>3. f[i + 1] = Grown(S, once, f[i], row[i + 1]) /\ h[i + 1] = Grown(S, once, h[i], row[i + 1])
      BY <3>1, <1>2
    <3>4. QED
      BY <3>2, <3>3
  <2>2. QED
    BY <2>1
<1>5. Same = Nat
  <2> HIDE DEF Same
  <2>1. Same \in SUBSET Nat
    BY DEF Same
  <2>2. QED
    BY <1>3, <1>4, <2>1, NatInduction1
<1>6. \A i \in 0..n : f[i] = h[i]
  BY <1>1, <1>5
<1>7. f = [i \in 0..n |-> f[i]] /\ h = [i \in 0..n |-> h[i]]
  BY DEF IsGrowing
<1>8. QED
  BY <1>6, <1>7

\* There is one for every row.
LEMMA GrowingExists ==
    ASSUME NEW T, NEW row \in Seq(T), NEW S, NEW once
    PROVE  \E f : IsGrowing(f, S, once, row)
<1> DEFINE R == {s \in Seq(T) : \E f : IsGrowing(f, S, once, s)}
<1>1. <<>> \in R
  <2>1. IsGrowing([i \in 0..0 |-> <<>>], S, once, <<>>)
    BY DEF IsGrowing
  <2>2. QED
    BY <2>1
<1>2. \A s \in R, e \in T : Append(s, e) \in R
  BY GrowingGrows
<1>3. R = Seq(T)
  <2> HIDE DEF R
  <2>1. R \in SUBSET Seq(T)
    BY DEF R
  <2>2. QED
    BY <1>1, <1>2, <2>1, AppendInduction
<1>4. QED
  BY <1>3

\* Keep and Named are its last value.
LEMMA KeepIsGrown ==
    ASSUME NEW T, NEW row \in Seq(T), NEW S, NEW f, IsGrowing(f, S, FALSE, row)
    PROVE  Keep(row, S) = f[Len(row)]
<1> DEFINE m == CHOOSE h : h = [i \in 0..Len(row) |->
                     IF i = 0 THEN <<>>
                     ELSE IF row[i] \in S THEN Append(h[i - 1], row[i]) ELSE h[i - 1]]
<1>1. f = [i \in 0..Len(row) |->
               IF i = 0 THEN <<>>
               ELSE IF row[i] \in S THEN Append(f[i - 1], row[i]) ELSE f[i - 1]]
  BY DEF IsGrowing, Grown
<1>2. m = [i \in 0..Len(row) |->
               IF i = 0 THEN <<>>
               ELSE IF row[i] \in S THEN Append(m[i - 1], row[i]) ELSE m[i - 1]]
  BY <1>1
<1>3. Keep(row, S) = m[Len(row)]
  BY DEF Keep
<1> HIDE DEF m
<1>4. IsGrowing(m, S, FALSE, row)
  BY <1>2 DEF IsGrowing, Grown
<1>5. m = f
  BY <1>4, GrowingAgrees
<1>6. QED
  BY <1>3, <1>5

\* The named items, one name after the other.
LEMMA NamedIsGrown ==
    ASSUME NEW T, NEW order \in Seq(T), NEW row, NEW f,
           IsGrowing(f, ToSet(row), TRUE, order)
    PROVE  Named(row, order) = f[Len(order)]
<1> DEFINE m == CHOOSE h : h = [i \in 0..Len(order) |->
                     IF i = 0 THEN <<>>
                     ELSE IF order[i] \in ToSet(row) \ ToSet(h[i - 1])
                     THEN Append(h[i - 1], order[i]) ELSE h[i - 1]]
<1>1. f = [i \in 0..Len(order) |->
               IF i = 0 THEN <<>>
               ELSE IF order[i] \in ToSet(row) \ ToSet(f[i - 1])
               THEN Append(f[i - 1], order[i]) ELSE f[i - 1]]
  BY DEF IsGrowing, Grown
<1>2. m = [i \in 0..Len(order) |->
               IF i = 0 THEN <<>>
               ELSE IF order[i] \in ToSet(row) \ ToSet(m[i - 1])
               THEN Append(m[i - 1], order[i]) ELSE m[i - 1]]
  BY <1>1
<1>3. Named(row, order) = m[Len(order)]
  BY DEF Named
<1> HIDE DEF m
<1>4. IsGrowing(m, ToSet(row), TRUE, order)
  BY <1>2 DEF IsGrowing, Grown
<1>5. m = f
  BY <1>4, GrowingAgrees
<1>6. QED
  BY <1>3, <1>5

\* Of an empty row nothing is kept.
LEMMA KeepNone == ASSUME NEW S PROVE Keep(<<>>, S) = <<>>
<1> DEFINE f == [i \in 0..0 |-> <<>>]
<1>1. IsGrowing(f, S, FALSE, <<>>) /\ f[0] = <<>> /\ Len(<<>>) = 0
  BY DEF IsGrowing
<1> HIDE DEF f
<1>2. <<>> \in Seq({})
  OBVIOUS
<1>3. QED
  BY <1>1, <1>2, KeepIsGrown

\* No name names no item.
LEMMA NamedNone == ASSUME NEW row PROVE Named(row, <<>>) = <<>>
<1> DEFINE f == [i \in 0..0 |-> <<>>]
<1>1. IsGrowing(f, ToSet(row), TRUE, <<>>) /\ f[0] = <<>> /\ Len(<<>>) = 0
  BY DEF IsGrowing
<1> HIDE DEF f
<1>2. <<>> \in Seq({})
  OBVIOUS
<1>3. QED
  BY <1>1, <1>2, NamedIsGrown

\* One more item.
LEMMA KeepMore ==
    ASSUME NEW T, NEW row \in Seq(T), NEW g \in T, NEW S
    PROVE  Keep(Append(row, g), S)
               = IF g \in S THEN Append(Keep(row, S), g) ELSE Keep(row, S)
<1>1. PICK f : IsGrowing(f, S, FALSE, row)
  BY GrowingExists
<1>2. PICK h : /\ IsGrowing(h, S, FALSE, Append(row, g))
               /\ h[Len(row) + 1] = Grown(S, FALSE, f[Len(row)], g)
  BY <1>1, GrowingGrows
<1>3. Append(row, g) \in Seq(T) /\ Len(Append(row, g)) = Len(row) + 1
  OBVIOUS
<1>4. Keep(Append(row, g), S) = h[Len(row) + 1]
  BY <1>2, <1>3, KeepIsGrown
<1>5. Keep(row, S) = f[Len(row)]
  BY <1>1, KeepIsGrown
<1>6. QED
  BY <1>2, <1>4, <1>5 DEF Grown

\* What one more name names.
LEMMA NamedMore ==
    ASSUME NEW T, NEW order \in Seq(T), NEW g \in T, NEW row
    PROVE  Named(row, Append(order, g))
               = IF g \in ToSet(row) \ ToSet(Named(row, order))
                 THEN Append(Named(row, order), g) ELSE Named(row, order)
<1>1. PICK f : IsGrowing(f, ToSet(row), TRUE, order)
  BY GrowingExists
<1>2. PICK h : /\ IsGrowing(h, ToSet(row), TRUE, Append(order, g))
               /\ h[Len(order) + 1] = Grown(ToSet(row), TRUE, f[Len(order)], g)
  BY <1>1, GrowingGrows
<1>3. Append(order, g) \in Seq(T) /\ Len(Append(order, g)) = Len(order) + 1
  OBVIOUS
<1>4. Named(row, Append(order, g)) = h[Len(order) + 1]
  BY <1>2, <1>3, NamedIsGrown
<1>5. Named(row, order) = f[Len(order)]
  BY <1>1, NamedIsGrown
<1>6. QED
  BY <1>2, <1>4, <1>5 DEF Grown

-----------------------------------------------------------------------------
(* Which item comes first. *)

LEMMA ItemsAre ==
    ASSUME NEW T, NEW a \in Seq(T), NEW b \in Seq(T), NEW x
    PROVE  /\ ToSet(<<>>) = {}
           /\ ToSet(Append(a, x)) = ToSet(a) \cup {x}
           /\ ToSet(a \o b) = ToSet(a) \cup ToSet(b)
           /\ ToSet(a) \subseteq T
<1>1. ToSet(<<>>) = {} /\ ToSet(a) \subseteq T
  BY DEF ToSet
<1>2. ToSet(Append(a, x)) = ToSet(a) \cup {x}
  <2> DEFINE c == Append(a, x)
  <2>1. DOMAIN c = DOMAIN a \cup {Len(a) + 1} /\ c[Len(a) + 1] = x
        /\ \A i \in DOMAIN a : c[i] = a[i]
    OBVIOUS
  <2> HIDE DEF c
  <2>2. ToSet(c) = ToSet(a) \cup {x}
    BY <2>1 DEF ToSet
  <2>3. QED
    BY <2>2 DEF c
<1>3. ToSet(a \o b) = ToSet(a) \cup ToSet(b)
  <2> DEFINE c == a \o b
  <2>1. DOMAIN a = 1..Len(a) /\ DOMAIN b = 1..Len(b) /\ DOMAIN c = 1..(Len(a) + Len(b))
        /\ Len(a) \in Nat /\ Len(b) \in Nat
        /\ (\A i \in 1..Len(a) : c[i] = a[i])
        /\ (\A i \in 1..Len(b) : c[Len(a) + i] = b[i])
    OBVIOUS
  <2> HIDE DEF c
  <2>2. ASSUME NEW i \in DOMAIN c PROVE c[i] \in ToSet(a) \cup ToSet(b)
    <3>1. CASE i <= Len(a)
      BY <2>1, <3>1 DEF ToSet
    <3>2. CASE ~(i <= Len(a))
      <4>1. i - Len(a) \in 1..Len(b) /\ i = Len(a) + (i - Len(a))
        BY <2>1, <3>2
      <4>2. QED
        BY <2>1, <4>1 DEF ToSet
    <3>3. QED
      BY <3>1, <3>2
  <2>3. \A i \in DOMAIN a : a[i] \in ToSet(c)
    BY <2>1 DEF ToSet
  <2>4. ASSUME NEW i \in DOMAIN b PROVE b[i] \in ToSet(c)
    <3>1. Len(a) + i \in DOMAIN c /\ c[Len(a) + i] = b[i]
      BY <2>1
    <3>2. QED
      BY <3>1 DEF ToSet
  <2>5. QED
    BY <2>2, <2>3, <2>4 DEF ToSet, c
<1>4. QED
  BY <1>1, <1>2, <1>3

\* The place of an item is the first one where it stands.
LEMMA PlaceIs ==
    ASSUME NEW T, NEW s \in Seq(T), NEW x \in ToSet(s)
    PROVE  /\ Place(s, x) \in 1..Len(s) /\ s[Place(s, x)] = x
           /\ \A j \in 1..(Place(s, x) - 1) : s[j] # x
<1> DEFINE P == {i \in Nat : i \in DOMAIN s /\ s[i] = x}
<1>1. P # {} /\ P \in SUBSET Nat
  BY DEF ToSet
<1>2. PICK m \in P : \A k \in P : m <= k
  BY <1>1, NatMin
<1>3. m \in DOMAIN s /\ s[m] = x /\ \A j \in 1..(m - 1) : s[j] # x
  BY <1>2
<1>4. Place(s, x) \in DOMAIN s /\ s[Place(s, x)] = x
      /\ \A j \in 1..(Place(s, x) - 1) : s[j] # x
  BY <1>3 DEF Place
<1>5. QED
  BY <1>4

\* The place of an item is the first at which it stands.
LEMMA PlaceOnly ==
    ASSUME NEW T, NEW s \in Seq(T), NEW i \in 1..Len(s),
           \A j \in 1..(i - 1) : s[j] # s[i]
    PROVE  Place(s, s[i]) = i
<1> DEFINE p == Place(s, s[i])
<1>1. s[i] \in ToSet(s)
  BY DEF ToSet
<1>2. p \in 1..Len(s) /\ s[p] = s[i] /\ \A j \in 1..(p - 1) : s[j] # s[i]
  BY <1>1, PlaceIs
<1> HIDE DEF p
<1>3. ~(p < i) /\ ~(i < p)
  BY <1>2
<1>4. p = i
  BY <1>2, <1>3
<1>5. QED
  BY <1>4 DEF p

\* What comes behind a row leaves its places alone.
LEMMA PlaceConcat ==
    ASSUME NEW T, NEW a \in Seq(T), NEW b \in Seq(T), NEW x \in ToSet(a)
    PROVE  Place(a \o b, x) = Place(a, x)
<1> DEFINE p == Place(a, x)
           c == a \o b
<1>1. p \in 1..Len(a) /\ a[p] = x /\ \A j \in 1..(p - 1) : a[j] # x
  BY PlaceIs
<1> HIDE DEF p
<1>2. c \in Seq(T) /\ p \in 1..Len(c) /\ c[p] = x /\ \A j \in 1..(p - 1) : c[j] # x
  <2>1. c \in Seq(T) /\ Len(c) = Len(a) + Len(b) /\ \A i \in 1..Len(a) : c[i] = a[i]
    OBVIOUS
  <2>2. Len(a) \in Nat /\ Len(b) \in Nat
    OBVIOUS
  <2> HIDE DEF c
  <2>3. p \in 1..Len(c) /\ c[p] = x
    BY <1>1, <2>1, <2>2
  <2>4. ASSUME NEW j \in 1..(p - 1) PROVE c[j] # x
    <3>1. j \in 1..Len(a)
      BY <1>1, <2>2
    <3>2. QED
      BY <1>1, <2>1, <3>1
  <2>5. QED
    BY <2>1, <2>3, <2>4
<1> HIDE DEF c
<1>3. Place(c, x) = p
  BY <1>2, PlaceOnly
<1>4. QED
  BY <1>3 DEF c, p

\* The place of an item stays when another is appended.
LEMMA PlaceAppend ==
    ASSUME NEW T, NEW a \in Seq(T), NEW y \in T, NEW x \in ToSet(a)
    PROVE  Place(Append(a, y), x) = Place(a, x)
<1>1. <<y>> \in Seq(T) /\ Append(a, y) = a \o <<y>>
  OBVIOUS
<1>2. QED
  BY <1>1, PlaceConcat

\* The place of the item that is appended.
LEMMA PlaceLast ==
    ASSUME NEW T, NEW a \in Seq(T), NEW x \in T, x \notin ToSet(a)
    PROVE  Place(Append(a, x), x) = Len(a) + 1
<1> DEFINE c == Append(a, x)
<1>1. c \in Seq(T) /\ Len(a) + 1 \in 1..Len(c) /\ c[Len(a) + 1] = x
      /\ \A i \in 1..((Len(a) + 1) - 1) : c[i] = a[i] /\ i \in DOMAIN a
  OBVIOUS
<1>2. \A i \in 1..((Len(a) + 1) - 1) : c[i] # x
  BY <1>1 DEF ToSet
<1> HIDE DEF c
<1>3. Place(c, x) = Len(a) + 1
  BY <1>1, <1>2, PlaceOnly
<1>4. QED
  BY <1>3 DEF c

\* Two rows that agree with a third agree, if it has what they have in common.
LEMMA AgreeThrough ==
    ASSUME NEW a, NEW b, NEW c, Agree(a, b), Agree(b, c),
           ToSet(a) \cap ToSet(c) \subseteq ToSet(b)
    PROVE  Agree(a, c)
BY DEF Agree

\* Two rows agree either way.
LEMMA AgreeTurned == ASSUME NEW a, NEW b, Agree(a, b) PROVE Agree(b, a)
BY DEF Agree

\* A row agrees with itself.
LEMMA AgreeSelf == ASSUME NEW a PROVE Agree(a, a)
BY DEF Agree

\* A row agrees with another when what is put behind it has no more of the other.
LEMMA AgreeConcat ==
    ASSUME NEW T, NEW a \in Seq(T), NEW b \in Seq(T), NEW c, Agree(a, c),
           ToSet(b) \cap ToSet(c) \subseteq ToSet(a)
    PROVE  Agree(a \o b, c)
<1> SUFFICES ASSUME NEW x \in ToSet(a \o b) \cap ToSet(c),
                    NEW y \in ToSet(a \o b) \cap ToSet(c)
             PROVE  Place(a \o b, x) < Place(a \o b, y) <=> Place(c, x) < Place(c, y)
  BY DEF Agree
<1>1. x \in ToSet(a) /\ y \in ToSet(a)
  BY ItemsAre
<1>2. Place(a \o b, x) = Place(a, x) /\ Place(a \o b, y) = Place(a, y)
  BY <1>1, PlaceConcat
<1>3. QED
  BY <1>1, <1>2 DEF Agree

\* Rows agree when one item is appended to both.
LEMMA AgreeAppend ==
    ASSUME NEW T, NEW a \in Seq(T), NEW x \in T, NEW c, Agree(a, c),
           x \in ToSet(c) => x \in ToSet(a)
    PROVE  Agree(Append(a, x), c)
<1>1. <<x>> \in Seq(T) /\ Append(a, x) = a \o <<x>> /\ ToSet(<<x>>) = {x}
  BY DEF ToSet
<1>2. QED
  BY <1>1, AgreeConcat

\* The same item behind two rows that agree.
LEMMA AgreeGrows ==
    ASSUME NEW T, NEW a \in Seq(T), NEW c \in Seq(T), NEW z \in T, Agree(a, c),
           z \in ToSet(c) <=> z \in ToSet(a)
    PROVE  Agree(Append(a, z), Append(c, z))
<1> DEFINE b == Append(a, z)
           d == Append(c, z)
<1> SUFFICES ASSUME NEW x \in ToSet(b) \cap ToSet(d), NEW y \in ToSet(b) \cap ToSet(d)
             PROVE  Place(b, x) < Place(b, y) <=> Place(d, x) < Place(d, y)
  BY DEF Agree
<1>1. (x \in ToSet(a) \cap ToSet(c) \/ x = z) /\ (y \in ToSet(a) \cap ToSet(c) \/ y = z)
  BY ItemsAre
<1>2. ASSUME NEW w \in ToSet(a) \cap ToSet(c)
      PROVE  /\ Place(b, w) = Place(a, w) /\ Place(d, w) = Place(c, w)
             /\ Place(a, w) \in 1..Len(a) /\ Place(c, w) \in 1..Len(c)
  BY PlaceAppend, PlaceIs
<1>3. CASE z \in ToSet(a)
  BY <1>1, <1>2, <1>3 DEF Agree
<1>4. CASE z \notin ToSet(a)
  <2>1. Place(b, z) = Len(a) + 1 /\ Place(d, z) = Len(c) + 1
    BY <1>4, PlaceLast
  <2>2. Len(a) \in Nat /\ Len(c) \in Nat
    OBVIOUS
  <2> HIDE DEF b, d
  <2>3. CASE x = z /\ y = z
    BY <2>1, <2>2, <2>3
  <2>4. CASE x = z /\ y \in ToSet(a) \cap ToSet(c)
    BY <1>2, <2>1, <2>2, <2>4
  <2>5. CASE x \in ToSet(a) \cap ToSet(c) /\ y = z
    BY <1>2, <2>1, <2>2, <2>5
  <2>6. CASE x \in ToSet(a) \cap ToSet(c) /\ y \in ToSet(a) \cap ToSet(c)
    BY <1>2, <2>6 DEF Agree
  <2>7. QED
    BY <1>1, <2>3, <2>4, <2>5, <2>6
<1>5. QED
  BY <1>3, <1>4

\* What is kept of a row keeps its order.
LEMMA KeepFacts ==
    ASSUME NEW T, NEW row \in Seq(T), NEW S
    PROVE  /\ Keep(row, S) \in Seq(T) /\ ToSet(Keep(row, S)) = ToSet(row) \cap S
           /\ Agree(Keep(row, S), row)
<1> DEFINE R == {r \in Seq(T) : /\ Keep(r, S) \in Seq(T)
                                /\ ToSet(Keep(r, S)) = ToSet(r) \cap S
                                /\ Agree(Keep(r, S), r)}
<1>1. <<>> \in R
  <2>1. <<>> \in Seq(T) /\ Keep(<<>>, S) = <<>> /\ ToSet(<<>>) = {}
    BY KeepNone, ItemsAre
  <2>2. QED
    BY <2>1, AgreeSelf
<1>2. ASSUME NEW r \in R, NEW g \in T PROVE Append(r, g) \in R
  <2> DEFINE k == Keep(r, S)
             n == Append(r, g)
  <2>1. k \in Seq(T) /\ ToSet(k) = ToSet(r) \cap S /\ Agree(k, r) /\ r \in Seq(T)
    OBVIOUS
  <2>2. n \in Seq(T) /\ ToSet(n) = ToSet(r) \cup {g}
    BY ItemsAre
  <2>3. Keep(n, S) = IF g \in S THEN Append(k, g) ELSE k
    BY KeepMore
  <2> HIDE DEF k
  <2>4. CASE g \in S
    <3>1. Keep(n, S) = Append(k, g) /\ Append(k, g) \in Seq(T)
      BY <2>1, <2>3, <2>4
    <3>2. ToSet(Append(k, g)) = ToSet(k) \cup {g}
      BY <2>1, ItemsAre
    <3>3. Agree(Append(k, g), n)
      BY <2>1, <2>4, AgreeGrows
    <3>4. QED
      BY <2>1, <2>2, <2>4, <3>1, <3>2, <3>3
  <2>5. CASE g \notin S
    <3>1. Agree(r, k)
      BY <2>1, AgreeTurned
    <3>2. Agree(n, k)
      BY <2>1, <2>5, <3>1, AgreeAppend
    <3>3. Agree(k, n)
      BY <3>2, AgreeTurned
    <3>4. QED
      BY <2>1, <2>2, <2>3, <2>5, <3>3
  <2>6. QED
    BY <2>4, <2>5
<1>3. R = Seq(T)
  <2> HIDE DEF R
  <2>1. R \in SUBSET Seq(T)
    BY DEF R
  <2>2. QED
    BY <1>1, <1>2, <2>1, AppendInduction
<1>4. row \in R
  BY <1>3
<1>5. QED
  BY <1>4

\* So does what a row has of an order.
LEMMA NamedFacts ==
    ASSUME NEW T, NEW order \in Seq(T), NEW row
    PROVE  /\ Named(row, order) \in Seq(T)
           /\ ToSet(Named(row, order)) = ToSet(order) \cap ToSet(row)
           /\ Agree(Named(row, order), order)
<1> DEFINE S == ToSet(row)
           R == {r \in Seq(T) : /\ Named(row, r) \in Seq(T)
                                /\ ToSet(Named(row, r)) = ToSet(r) \cap S
                                /\ Agree(Named(row, r), r)}
<1>1. <<>> \in R
  <2>1. <<>> \in Seq(T) /\ Named(row, <<>>) = <<>> /\ ToSet(<<>>) = {}
    BY NamedNone, ItemsAre
  <2>2. QED
    BY <2>1, AgreeSelf
<1>2. ASSUME NEW r \in R, NEW g \in T PROVE Append(r, g) \in R
  <2> DEFINE k == Named(row, r)
             n == Append(r, g)
  <2>1. k \in Seq(T) /\ ToSet(k) = ToSet(r) \cap S /\ Agree(k, r) /\ r \in Seq(T)
    OBVIOUS
  <2>2. n \in Seq(T) /\ ToSet(n) = ToSet(r) \cup {g}
    BY ItemsAre
  <2>3. Named(row, n) = IF g \in S \ ToSet(k) THEN Append(k, g) ELSE k
    BY NamedMore
  <2> HIDE DEF k, S
  <2>4. CASE g \in S \ ToSet(k)
    <3>1. Named(row, n) = Append(k, g) /\ Append(k, g) \in Seq(T)
      BY <2>1, <2>3, <2>4
    <3>2. ToSet(Append(k, g)) = ToSet(k) \cup {g}
      BY <2>1, ItemsAre
    <3>3. Agree(Append(k, g), n)
      BY <2>1, <2>4, AgreeGrows
    <3>4. QED
      BY <2>1, <2>2, <2>4, <3>1, <3>2, <3>3
  <2>5. CASE g \notin S \ ToSet(k)
    <3>1. Agree(r, k)
      BY <2>1, AgreeTurned
    <3>2. Agree(n, k)
      BY <2>1, <2>5, <3>1, AgreeAppend
    <3>3. Agree(k, n)
      BY <3>2, AgreeTurned
    <3>4. QED
      BY <2>1, <2>2, <2>3, <2>5, <3>3
  <2>6. QED
    BY <2>4, <2>5
<1>3. R = Seq(T)
  <2> HIDE DEF R
  <2>1. R \in SUBSET Seq(T)
    BY DEF R
  <2>2. QED
    BY <1>1, <1>2, <2>1, AppendInduction
<1>4. order \in R
  BY <1>3
<1>5. QED
  BY <1>4

\* What is left of a row.
LEMMA DropFacts ==
    ASSUME NEW T, NEW row \in Seq(T), NEW S
    PROVE  /\ Drop(row, S) \in Seq(T) /\ ToSet(Drop(row, S)) = ToSet(row) \ S
           /\ Agree(Drop(row, S), row)
BY KeepFacts DEF Drop

\* One row behind another.
LEMMA JoinedRows ==
    ASSUME NEW T, NEW a \in Seq(T), NEW b \in Seq(T)
    PROVE  a \o b \in Seq(T) /\ ToSet(a \o b) = ToSet(a) \cup ToSet(b)
<1>1. PICK x : x = T
  OBVIOUS
<1>2. ToSet(a \o b) = ToSet(a) \cup ToSet(b)
  BY ItemsAre
<1>3. QED
  BY <1>2

\* A row put in an order has its items, and the order.
LEMMA InOrderFacts ==
    ASSUME NEW T, NEW row \in Seq(T), NEW order \in Seq(T)
    PROVE  /\ InOrder(row, order) \in Seq(T)
           /\ ToSet(InOrder(row, order)) = ToSet(row)
           /\ Agree(InOrder(row, order), order)
<1> DEFINE a == Named(row, order)
           b == Drop(row, ToSet(order))
<1>1. a \in Seq(T) /\ ToSet(a) = ToSet(order) \cap ToSet(row) /\ Agree(a, order)
  BY NamedFacts
<1>2. b \in Seq(T) /\ ToSet(b) = ToSet(row) \ ToSet(order)
  BY DropFacts
<1>3. InOrder(row, order) = a \o b
  BY DEF InOrder
<1> HIDE DEF a, b
<1>4. a \o b \in Seq(T) /\ ToSet(a \o b) = ToSet(a) \cup ToSet(b)
  BY <1>1, <1>2, JoinedRows
<1>5. Agree(a \o b, order)
  BY <1>1, <1>2, AgreeConcat
<1>6. QED
  BY <1>1, <1>2, <1>3, <1>4, <1>5

\* Nothing comes into a row when an item moves.
LEMMA MovedIs ==
    ASSUME NEW T, NEW row \in Seq(T), NEW from \in 1..Len(row), NEW to \in 1..Len(row)
    PROVE  Moved(row, from, to) \in Seq(T)
<1> DEFINE rest == RemoveAt(row, from)
<1>1. row[from] \in T
  OBVIOUS
<1>2. /\ SubSeq(row, 1, from - 1) \in Seq(T) /\ SubSeq(row, from + 1, Len(row)) \in Seq(T)
      /\ Len(SubSeq(row, 1, from - 1)) = from - 1
      /\ Len(SubSeq(row, from + 1, Len(row))) = Len(row) - from
  OBVIOUS
<1>3. rest \in Seq(T) /\ Len(rest) = Len(row) - 1
  <2> DEFINE a == SubSeq(row, 1, from - 1)
             b == SubSeq(row, from + 1, Len(row))
  <2>1. a \in Seq(T) /\ b \in Seq(T) /\ Len(a) = from - 1 /\ Len(b) = Len(row) - from
    BY <1>2
  <2>2. rest = a \o b
    BY DEF RemoveAt
  <2> HIDE DEF a, b, rest
  <2>3. from \in Nat /\ Len(row) \in Nat /\ Len(rest) = Len(a) + Len(b)
    <3>1. Len(a \o b) = Len(a) + Len(b)
      BY <2>1, ConcatProperties
    <3>2. Len(row) \in Nat
      OBVIOUS
    <3>3. QED
      BY <2>2, <3>1, <3>2
  <2>4. Len(rest) = Len(row) - 1
    BY <2>1, <2>3
  <2>5. QED
    BY <2>1, <2>2, <2>4
<1> HIDE DEF rest
<1>4. SubSeq(rest, 1, to - 1) \in Seq(T) /\ SubSeq(rest, to, Len(rest)) \in Seq(T)
  BY <1>3
<1>5. InsertAt(rest, to, row[from]) \in Seq(T)
  BY <1>1, <1>4 DEF InsertAt
<1>6. QED
  BY <1>5 DEF Moved, rest

-----------------------------------------------------------------------------
(* Pairs of items, the earlier one first. *)

Ordered(row, R) == \A i, j \in DOMAIN row : i < j => <<row[i], row[j]>> \in R

\* Pairs of a row that is put after another.
LEMMA OrderedConcat ==
    ASSUME NEW T, NEW a \in Seq(T), NEW b \in Seq(T), NEW R
    PROVE  Ordered(a \o b, R) <=>
               /\ Ordered(a, R) /\ Ordered(b, R)
               /\ \A x \in ToSet(a), y \in ToSet(b) : <<x, y>> \in R
<1> DEFINE c == a \o b
           m == Len(a)
           n == Len(b)
<1>1. /\ m \in Nat /\ n \in Nat /\ DOMAIN a = 1..m /\ DOMAIN b = 1..n /\ DOMAIN c = 1..(m + n)
      /\ \A i \in 1..m : c[i] = a[i]
      /\ \A i \in 1..n : c[m + i] = b[i]
  OBVIOUS
<1> HIDE DEF c, m, n
<1>2. ASSUME Ordered(c, R) PROVE Ordered(a, R) /\ Ordered(b, R)
  <2>1. ASSUME NEW i \in 1..m, NEW j \in 1..m, i < j PROVE <<a[i], a[j]>> \in R
    <3>1. i \in 1..(m + n) /\ j \in 1..(m + n)
      BY <1>1
    <3>2. <<c[i], c[j]>> \in R
      BY <1>1, <1>2, <2>1, <3>1 DEF Ordered
    <3>3. QED
      BY <1>1, <3>2
  <2>2. ASSUME NEW i \in 1..n, NEW j \in 1..n, i < j PROVE <<b[i], b[j]>> \in R
    <3>1. m + i \in 1..(m + n) /\ m + j \in 1..(m + n) /\ m + i < m + j
      BY <1>1, <2>2
    <3>2. <<c[m + i], c[m + j]>> \in R
      BY <1>1, <1>2, <3>1 DEF Ordered
    <3>3. QED
      BY <1>1, <3>2
  <2>3. QED
    BY <1>1, <2>1, <2>2 DEF Ordered
<1>3. ASSUME Ordered(c, R), NEW x \in ToSet(a), NEW y \in ToSet(b) PROVE <<x, y>> \in R
  <2>1. PICK i \in 1..m : a[i] = x
    BY <1>1 DEF ToSet
  <2>2. PICK j \in 1..n : b[j] = y
    BY <1>1 DEF ToSet
  <2>3. i \in 1..(m + n) /\ m + j \in 1..(m + n) /\ i < m + j
    BY <1>1
  <2>4. <<c[i], c[m + j]>> \in R
    BY <1>1, <1>3, <2>3 DEF Ordered
  <2>5. QED
    BY <1>1, <2>1, <2>2, <2>4
<1>4. ASSUME Ordered(a, R), Ordered(b, R), \A x \in ToSet(a), y \in ToSet(b) : <<x, y>> \in R
      PROVE  Ordered(c, R)
  <2>1. SUFFICES ASSUME NEW i \in 1..(m + n), NEW j \in 1..(m + n), i < j
                 PROVE  <<c[i], c[j]>> \in R
    BY <1>1 DEF Ordered
  <2>2. CASE j <= m
    <3>1. i \in 1..m /\ j \in 1..m
      BY <1>1, <2>1, <2>2
    <3>2. QED
      BY <1>1, <1>4, <2>1, <3>1 DEF Ordered
  <2>3. CASE i <= m /\ m < j
    <3>1. i \in 1..m /\ j - m \in 1..n /\ m + (j - m) = j
      BY <1>1, <2>3
    <3>2. c[i] = a[i] /\ c[j] = b[j - m] /\ a[i] \in ToSet(a) /\ b[j - m] \in ToSet(b)
      BY <1>1, <3>1 DEF ToSet
    <3>3. QED
      BY <1>4, <3>2
  <2>4. CASE m < i
    <3>1. i - m \in 1..n /\ m + (i - m) = i /\ j - m \in 1..n /\ m + (j - m) = j /\ i - m < j - m
      BY <1>1, <2>1, <2>4
    <3>2. c[i] = b[i - m] /\ c[j] = b[j - m]
      BY <1>1, <3>1
    <3>3. QED
      BY <1>1, <1>4, <3>1, <3>2 DEF Ordered
  <2>5. QED
    BY <1>1, <2>1, <2>2, <2>3, <2>4
<1>5. QED
  BY <1>2, <1>3, <1>4 DEF c

\* Pairs with one more item.
LEMMA OrderedMore ==
    ASSUME NEW T, NEW a \in Seq(T), NEW x \in T, NEW R
    PROVE  Ordered(Append(a, x), R) <=>
               Ordered(a, R) /\ \A y \in ToSet(a) : <<y, x>> \in R
<1> DEFINE b == <<x>>
<1>1. b \in Seq(T) /\ Append(a, x) = a \o b /\ ToSet(b) = {x} /\ DOMAIN b = {1}
  BY DEF ToSet
<1> HIDE DEF b
<1>2. Ordered(b, R)
  BY <1>1 DEF Ordered
<1>3. QED
  BY <1>1, <1>2, OrderedConcat

\* What is kept of a row is as ordered as the row.
LEMMA KeepOrdered ==
    ASSUME NEW T, NEW row \in Seq(T), NEW S, NEW R, Ordered(row, R)
    PROVE  Ordered(Keep(row, S), R)
<1> DEFINE Q == {r \in Seq(T) : Ordered(r, R) => Ordered(Keep(r, S), R)}
<1>1. <<>> \in Q
  <2>1. <<>> \in Seq(T)
    OBVIOUS
  <2>2. QED
    BY <2>1, KeepNone
<1>2. ASSUME NEW r \in Q, NEW g \in T PROVE Append(r, g) \in Q
  <2> DEFINE k == Keep(r, S)
             n == Append(r, g)
  <2>1. k \in Seq(T) /\ ToSet(k) = ToSet(r) \cap S /\ r \in Seq(T) /\ n \in Seq(T)
    BY KeepFacts
  <2>2. Keep(n, S) = IF g \in S THEN Append(k, g) ELSE k
    BY KeepMore
  <2> HIDE DEF k
  <2>3. ASSUME Ordered(n, R) PROVE Ordered(Keep(n, S), R)
    <3>1. Ordered(r, R) /\ \A y \in ToSet(r) : <<y, g>> \in R
      BY <2>1, <2>3, OrderedMore
    <3>2. Ordered(k, R) /\ \A y \in ToSet(k) : <<y, g>> \in R
      BY <2>1, <3>1 DEF k
    <3>3. Ordered(Append(k, g), R)
      BY <2>1, <3>2, OrderedMore
    <3>4. QED
      BY <2>2, <3>2, <3>3
  <2>4. QED
    BY <2>1, <2>3
<1>3. Q = Seq(T)
  <2> HIDE DEF Q
  <2>1. Q \in SUBSET Seq(T)
    BY DEF Q
  <2>2. QED
    BY <1>1, <1>2, <2>1, AppendInduction
<1>4. QED
  BY <1>3

-----------------------------------------------------------------------------
(* Rows in which no item stands twice. *)

Distinct(T) == {p \in T \X T : p[1] # p[2]}

\* Items occur once when pairs differ.
LEMMA OnceIsOrdered ==
    ASSUME NEW T, NEW row \in Seq(T)
    PROVE  IsInjective(row) <=> Ordered(row, Distinct(T))
<1>1. DOMAIN row \subseteq Nat /\ \A i \in DOMAIN row : row[i] \in T
  OBVIOUS
<1>2. \A x, y \in T : <<x, y>> \in Distinct(T) <=> x # y
  BY DEF Distinct
<1>3. ASSUME IsInjective(row) PROVE Ordered(row, Distinct(T))
  BY <1>1, <1>2, <1>3 DEF IsInjective, Ordered
<1>4. ASSUME Ordered(row, Distinct(T)) PROVE IsInjective(row)
  <2>1. SUFFICES ASSUME NEW i \in DOMAIN row, NEW j \in DOMAIN row, row[i] = row[j]
                 PROVE  i = j
    BY DEF IsInjective
  <2>2. ~(i < j) /\ ~(j < i)
    BY <1>1, <1>2, <1>4, <2>1 DEF Ordered
  <2>3. QED
    BY <1>1, <2>2
<1>5. QED
  BY <1>3, <1>4

\* Items of two rows that occur once.
LEMMA OnceConcat ==
    ASSUME NEW T, NEW a \in Seq(T), NEW b \in Seq(T)
    PROVE  IsInjective(a \o b) <=>
               IsInjective(a) /\ IsInjective(b) /\ ToSet(a) \cap ToSet(b) = {}
<1> DEFINE D == Distinct(T)
           c == a \o b
<1>1. c \in Seq(T) /\ ToSet(a) \subseteq T /\ ToSet(b) \subseteq T
  BY ItemsAre
<1>2. \A x \in ToSet(a), y \in ToSet(b) : <<x, y>> \in D <=> x # y
  BY <1>1 DEF Distinct
<1> HIDE DEF D
<1>3. Ordered(c, D) <=> /\ Ordered(a, D) /\ Ordered(b, D)
                        /\ \A x \in ToSet(a), y \in ToSet(b) : <<x, y>> \in D
  BY OrderedConcat
<1> HIDE DEF c
<1>4. /\ IsInjective(a) <=> Ordered(a, D)
      /\ IsInjective(b) <=> Ordered(b, D)
      /\ IsInjective(c) <=> Ordered(c, D)
  BY <1>1, OnceIsOrdered DEF D
<1>5. (\A x \in ToSet(a), y \in ToSet(b) : <<x, y>> \in D) <=> ToSet(a) \cap ToSet(b) = {}
  BY <1>2
<1>6. QED
  BY <1>3, <1>4, <1>5 DEF c

\* One more item that occurs once.
LEMMA OnceMore ==
    ASSUME NEW T, NEW a \in Seq(T), NEW x \in T
    PROVE  IsInjective(Append(a, x)) <=> IsInjective(a) /\ x \notin ToSet(a)
<1> DEFINE b == <<x>>
<1>1. b \in Seq(T) /\ Append(a, x) = a \o b /\ ToSet(b) = {x} /\ IsInjective(b)
  BY DEF ToSet, IsInjective
<1> HIDE DEF b
<1>2. QED
  BY <1>1, OnceConcat

\* Items that are kept occur once.
LEMMA KeepOnce ==
    ASSUME NEW T, NEW row \in Seq(T), NEW S, IsInjective(row)
    PROVE  IsInjective(Keep(row, S))
BY KeepOrdered, KeepFacts, OnceIsOrdered

\* Items that are left occur once.
LEMMA DropOnce ==
    ASSUME NEW T, NEW row \in Seq(T), NEW S, IsInjective(row)
    PROVE  IsInjective(Drop(row, S))
BY KeepOnce DEF Drop

\* Items that are named occur once.
LEMMA NamedOnce ==
    ASSUME NEW T, NEW order \in Seq(T), NEW row
    PROVE  IsInjective(Named(row, order))
<1> DEFINE Q == {r \in Seq(T) : IsInjective(Named(row, r))}
<1>1. <<>> \in Q
  <2>1. <<>> \in Seq(T) /\ IsInjective(<<>>)
    BY DEF IsInjective
  <2>2. QED
    BY <2>1, NamedNone
<1>2. ASSUME NEW r \in Q, NEW g \in T PROVE Append(r, g) \in Q
  <2> DEFINE k == Named(row, r)
  <2>1. k \in Seq(T) /\ IsInjective(k) /\ Append(r, g) \in Seq(T)
    BY NamedFacts
  <2>2. Named(row, Append(r, g)) = IF g \in ToSet(row) \ ToSet(k) THEN Append(k, g) ELSE k
    BY NamedMore
  <2> HIDE DEF k
  <2>3. g \notin ToSet(k) => IsInjective(Append(k, g))
    BY <2>1, OnceMore
  <2>4. QED
    BY <2>1, <2>2, <2>3
<1>3. Q = Seq(T)
  <2> HIDE DEF Q
  <2>1. Q \in SUBSET Seq(T)
    BY DEF Q
  <2>2. QED
    BY <1>1, <1>2, <2>1, AppendInduction
<1>4. QED
  BY <1>3

\* Items in another order occur once.
LEMMA InOrderOnce ==
    ASSUME NEW T, NEW row \in Seq(T), NEW order \in Seq(T), IsInjective(row)
    PROVE  IsInjective(InOrder(row, order))
<1> DEFINE a == Named(row, order)
           b == Drop(row, ToSet(order))
<1>1. a \in Seq(T) /\ ToSet(a) = ToSet(order) \cap ToSet(row) /\ IsInjective(a)
  BY NamedFacts, NamedOnce
<1>2. b \in Seq(T) /\ ToSet(b) = ToSet(row) \ ToSet(order) /\ IsInjective(b)
  BY DropFacts, DropOnce
<1>3. InOrder(row, order) = a \o b
  BY DEF InOrder
<1> HIDE DEF a, b
<1>4. QED
  BY <1>1, <1>2, <1>3, OnceConcat

-----------------------------------------------------------------------------
(* Parts of rows. *)

\* A row is what comes up to an item and what comes behind it.
LEMMA SplitRow ==
    ASSUME NEW T, NEW row \in Seq(T), NEW k \in 0..Len(row)
    PROVE  /\ SubSeq(row, 1, k) \in Seq(T) /\ SubSeq(row, k + 1, Len(row)) \in Seq(T)
           /\ Len(SubSeq(row, 1, k)) = k /\ Len(SubSeq(row, k + 1, Len(row))) = Len(row) - k
           /\ row = SubSeq(row, 1, k) \o SubSeq(row, k + 1, Len(row))
<1> DEFINE n == Len(row)
<1>1. n \in Nat /\ k \in Nat /\ k <= n /\ k \in Int /\ n \in Int /\ 1 \in Int /\ k + 1 \in Int
      /\ \A i \in 1..n : row[i] \in T
  OBVIOUS
<1>2. /\ SubSeq(row, 1, k) \in Seq(T) /\ Len(SubSeq(row, 1, k)) = IF 1 <= k THEN k - 1 + 1 ELSE 0
  <2>1. \A i \in 1..k : row[i] \in T
    BY <1>1
  <2> HIDE DEF n
  <2>2. QED
    BY <1>1, <2>1, SubSeqProperties
<1>3. /\ SubSeq(row, k + 1, n) \in Seq(T)
      /\ Len(SubSeq(row, k + 1, n)) = IF k + 1 <= n THEN n - (k + 1) + 1 ELSE 0
  <2>1. \A i \in (k + 1)..n : row[i] \in T
    BY <1>1
  <2> HIDE DEF n
  <2>2. QED
    BY <1>1, <2>1, SubSeqProperties
<1>4. SubSeq(row, 1, k) \o SubSeq(row, k + 1, n) = SubSeq(row, 1, n)
  <2>1. 1 \in 1..(n + 1) /\ k \in (1 - 1)..n /\ n \in k..n
    BY <1>1
  <2>2. QED
    BY <2>1, ConcatAdjacentSubSeq
<1>5. SubSeq(row, 1, n) = row
  BY SubSeqFull
<1>6. Len(SubSeq(row, 1, k)) = k /\ Len(SubSeq(row, k + 1, n)) = n - k
  <2> DEFINE a == Len(SubSeq(row, 1, k))
             b == Len(SubSeq(row, k + 1, n))
  <2>1. a = (IF 1 <= k THEN k - 1 + 1 ELSE 0) /\ b = IF k + 1 <= n THEN n - (k + 1) + 1 ELSE 0
    BY <1>2, <1>3
  <2> HIDE DEF a, b, n
  <2>2. a = k /\ b = n - k
    BY <1>1, <2>1
  <2>3. QED
    BY <2>2 DEF a, b
<1>7. QED
  BY <1>2, <1>3, <1>4, <1>5, <1>6

\* An item in the middle of a row.
LEMMA SplitAround ==
    ASSUME NEW T, NEW row \in Seq(T), NEW k \in 1..Len(row)
    PROVE  /\ SubSeq(row, 1, k - 1) \in Seq(T) /\ SubSeq(row, k + 1, Len(row)) \in Seq(T)
           /\ Len(SubSeq(row, 1, k - 1)) = k - 1
           /\ Len(SubSeq(row, k + 1, Len(row))) = Len(row) - k
           /\ row = (SubSeq(row, 1, k - 1) \o <<row[k]>>) \o SubSeq(row, k + 1, Len(row))
<1>1. Len(row) \in Nat /\ k \in Nat /\ k \in 0..Len(row) /\ k - 1 \in 0..Len(row)
      /\ 1 \in 1..Len(row) /\ k \in 1..Len(row)
  OBVIOUS
<1>2. /\ SubSeq(row, k + 1, Len(row)) \in Seq(T) /\ Len(SubSeq(row, k + 1, Len(row))) = Len(row) - k
      /\ row = SubSeq(row, 1, k) \o SubSeq(row, k + 1, Len(row))
  BY <1>1, SplitRow
<1>3. SubSeq(row, 1, k - 1) \in Seq(T) /\ Len(SubSeq(row, 1, k - 1)) = k - 1
  BY <1>1, SplitRow
<1>4. SubSeq(row, 1, k) = SubSeq(row, 1, k - 1) \o <<row[k]>>
  BY <1>1, SubSeqRecursiveSecond
<1>5. QED
  BY <1>2, <1>3, <1>4

\* An item that moves leaves the others, and none stands twice that did not.
LEMMA MovedFacts ==
    ASSUME NEW T, NEW row \in Seq(T), NEW from \in 1..Len(row), NEW to \in 1..Len(row)
    PROVE  /\ Moved(row, from, to) \in Seq(T) /\ ToSet(Moved(row, from, to)) = ToSet(row)
           /\ Len(Moved(row, from, to)) = Len(row)
           /\ IsInjective(row) => IsInjective(Moved(row, from, to))
<1> DEFINE x == row[from]
           a == SubSeq(row, 1, from - 1)
           b == SubSeq(row, from + 1, Len(row))
           rest == RemoveAt(row, from)
           c == SubSeq(rest, 1, to - 1)
           d == SubSeq(rest, to, Len(rest))
           e == <<x>>
<1>1. /\ a \in Seq(T) /\ b \in Seq(T) /\ Len(a) = from - 1 /\ Len(b) = Len(row) - from
      /\ row = (a \o e) \o b
  BY SplitAround
<1>2. rest = a \o b
  BY DEF RemoveAt
<1>3. e \in Seq(T) /\ ToSet(e) = {x} /\ Len(e) = 1 /\ IsInjective(e)
  BY DEF ToSet, IsInjective
<1> HIDE DEF a, b, e
<1>4. rest \in Seq(T) /\ Len(rest) = Len(row) - 1 /\ Len(row) \in Nat
  <2> HIDE DEF rest
  <2>1. Len(a \o b) = Len(a) + Len(b) /\ a \o b \in Seq(T)
    BY <1>1, ConcatProperties
  <2>2. Len(row) \in Nat
    OBVIOUS
  <2>3. Len(a) + Len(b) = Len(row) - 1
    BY <1>1, <2>2
  <2>4. QED
    BY <1>2, <2>1, <2>2, <2>3
<1> HIDE DEF rest
<1>5. /\ c \in Seq(T) /\ d \in Seq(T) /\ Len(c) = to - 1 /\ Len(d) = Len(rest) - (to - 1)
      /\ rest = c \o d
  <2> DEFINE k == to - 1
  <2>1. k \in 0..Len(rest) /\ k + 1 = to
    BY <1>4
  <2> HIDE DEF k
  <2>2. /\ SubSeq(rest, 1, k) \in Seq(T) /\ SubSeq(rest, k + 1, Len(rest)) \in Seq(T)
        /\ Len(SubSeq(rest, 1, k)) = k /\ Len(SubSeq(rest, k + 1, Len(rest))) = Len(rest) - k
        /\ rest = SubSeq(rest, 1, k) \o SubSeq(rest, k + 1, Len(rest))
    BY <1>4, <2>1, SplitRow
  <2>3. c = SubSeq(rest, 1, k) /\ d = SubSeq(rest, k + 1, Len(rest))
    BY <2>1, Zenon DEF k
  <2> HIDE DEF c, d
  <2>4. QED
    BY <2>2, <2>3 DEF k
<1>6. Moved(row, from, to) = (c \o e) \o d
  BY DEF Moved, InsertAt, rest, e
<1> HIDE DEF c, d
<1>7. (c \o e) \in Seq(T) /\ ToSet(c \o e) = ToSet(c) \cup {x} /\ Len(c \o e) = to
  <2>1. c \o e \in Seq(T) /\ ToSet(c \o e) = ToSet(c) \cup ToSet(e) /\ Len(c \o e) = Len(c) + Len(e)
    BY <1>3, <1>5, JoinedRows, ConcatProperties
  <2>2. QED
    BY <1>3, <1>5, <2>1
<1>8. (a \o e) \in Seq(T) /\ ToSet(a \o e) = ToSet(a) \cup {x}
  BY <1>1, <1>3, JoinedRows
<1> DEFINE ce == c \o e
           ae == a \o e
<1>9. IsInjective(row) => IsInjective((c \o e) \o d)
  <2>1. SUFFICES ASSUME IsInjective(row) PROVE IsInjective((c \o e) \o d)
    OBVIOUS
  <2>2. IsInjective(ae) /\ IsInjective(b) /\ ToSet(ae) \cap ToSet(b) = {}
    BY <1>1, <1>8, <2>1, OnceConcat
  <2>3. IsInjective(a) /\ x \notin ToSet(a)
    BY <1>1, <1>3, <2>2, OnceConcat
  <2>4. IsInjective(rest) /\ x \notin ToSet(rest)
    <3>1. IsInjective(a \o b) /\ ToSet(a \o b) = ToSet(a) \cup ToSet(b)
      BY <1>1, <1>8, <2>2, <2>3, OnceConcat, JoinedRows
    <3>2. QED
      BY <1>2, <1>8, <2>2, <2>3, <3>1
  <2>5. IsInjective(c) /\ IsInjective(d) /\ ToSet(c) \cap ToSet(d) = {}
        /\ ToSet(rest) = ToSet(c) \cup ToSet(d)
    BY <1>5, <2>4, OnceConcat, JoinedRows
  <2>6. IsInjective(ce)
    BY <1>3, <1>5, <2>4, <2>5, OnceConcat
  <2>7. ToSet(ce) \cap ToSet(d) = {}
    BY <1>7, <2>4, <2>5
  <2>8. QED
    BY <1>5, <1>7, <2>5, <2>6, <2>7, OnceConcat
<1>10. (ce \o d) \in Seq(T) /\ ToSet(ce \o d) = ToSet(row) /\ Len(ce \o d) = Len(row)
  <2>0. ae \in Seq(T) /\ ce \in Seq(T) /\ ToSet(ae) = ToSet(a) \cup {x}
        /\ ToSet(ce) = ToSet(c) \cup {x} /\ Len(ce) = to /\ row = ae \o b
    BY <1>1, <1>7, <1>8
  <2> HIDE DEF ae, ce
  <2>1. ToSet(ae \o b) = ToSet(ae) \cup ToSet(b) /\ ToSet(a \o b) = ToSet(a) \cup ToSet(b)
    BY <1>1, <2>0, JoinedRows
  <2>2. ToSet(c \o d) = ToSet(c) \cup ToSet(d)
    BY <1>5, JoinedRows
  <2>3. ToSet(ce \o d) = ToSet(ce) \cup ToSet(d) /\ ce \o d \in Seq(T)
        /\ Len(ce \o d) = Len(ce) + Len(d)
    BY <1>5, <2>0, JoinedRows, ConcatProperties
  <2>4. ToSet(ce \o d) = ToSet(row)
    BY <1>2, <1>5, <2>0, <2>1, <2>2, <2>3
  <2>5. Len(ce) + Len(d) = Len(row)
    BY <1>4, <1>5, <2>0
  <2>6. QED
    BY <2>3, <2>4, <2>5
<1>11. QED
  BY <1>6, <1>9, <1>10

\* A row of fewer items.
LEMMA SeqWithin ==
    ASSUME NEW T, NEW row \in Seq(T), NEW S, ToSet(row) \subseteq S
    PROVE  row \in Seq(S)
<1>1. Len(row) \in Nat /\ row \in [1..Len(row) -> T] /\ \A i \in 1..Len(row) : row[i] \in S
  BY DEF ToSet
<1> DEFINE n == Len(row)
<1> HIDE DEF n
<1>2. n \in Nat /\ row \in [1..n -> S]
  BY <1>1 DEF n
<1>3. QED
  BY <1>2

\* A finite set as a row.
LEMMA SetInSeq ==
    ASSUME NEW S, IsFiniteSet(S)
    PROVE  /\ SetToSeq(S) \in Seq(S) /\ ToSet(SetToSeq(S)) = S /\ IsInjective(SetToSeq(S))
           /\ Len(SetToSeq(S)) = Cardinality(S)
<1> DEFINE n == Cardinality(S)
<1>1. n \in Nat /\ ExistsBijection(1..n, S)
  BY FS_CardinalityType
<1>2. PICK f \in Bijection(1..n, S) : TRUE
  BY <1>1 DEF ExistsBijection
<1>3. f \in [1..n -> S] /\ IsInjective(f)
  BY <1>2 DEF Bijection, Injection, IsInjective
<1> DEFINE g == SetToSeq(S)
<1>4. g \in [1..n -> S] /\ IsInjective(g)
  BY <1>3 DEF SetToSeq
<1> HIDE DEF g, n
<1>5. g \in Injection(1..n, S)
  BY <1>4 DEF Injection, IsInjective
<1>6. IsFiniteSet(1..n) /\ Cardinality(1..n) = n
  BY <1>1, FS_Interval
<1>7. g \in Surjection(1..n, S)
  BY <1>1, <1>5, <1>6, FS_Injection DEF n
<1>8. \A x \in S : \E i \in 1..n : g[i] = x
  BY <1>7 DEF Surjection
<1>9. g \in Seq(S) /\ Len(g) = n /\ DOMAIN g = 1..n
  BY <1>1, <1>4
<1>10. ToSet(g) = S
  BY <1>4, <1>8, <1>9 DEF ToSet
<1>11. QED
  BY <1>4, <1>9, <1>10 DEF g, n

-----------------------------------------------------------------------------
(* What is kept of parts, and of what is kept. *)

LEMMA KeepShort ==
    ASSUME NEW T, NEW row \in Seq(T), NEW S
    PROVE  Len(Keep(row, S)) <= Len(row) /\ Len(Keep(row, S)) \in Nat
<1> DEFINE Q == {r \in Seq(T) : Len(Keep(r, S)) <= Len(r)}
<1>1. <<>> \in Q
  <2>1. <<>> \in Seq(T) /\ Keep(<<>>, S) = <<>> /\ Len(<<>>) = 0
    BY KeepNone
  <2>2. QED
    BY <2>1
<1>2. ASSUME NEW r \in Q, NEW g \in T PROVE Append(r, g) \in Q
  <2> DEFINE k == Keep(r, S)
             n == Append(r, g)
  <2>1. k \in Seq(T) /\ r \in Seq(T) /\ n \in Seq(T) /\ Len(n) = Len(r) + 1 /\ Len(k) <= Len(r)
    BY KeepFacts
  <2>2. Keep(n, S) = IF g \in S THEN Append(k, g) ELSE k
    BY KeepMore
  <2> HIDE DEF k, n
  <2>3. Len(Append(k, g)) = Len(k) + 1 /\ Len(k) \in Nat /\ Len(r) \in Nat
    BY <2>1
  <2>4. Len(Keep(n, S)) <= Len(n)
    <3>1. CASE g \in S
      BY <2>1, <2>2, <2>3, <3>1
    <3>2. CASE g \notin S
      BY <2>1, <2>2, <2>3, <3>2
    <3>3. QED
      BY <3>1, <3>2
  <2>5. QED
    BY <2>1, <2>4 DEF n
<1>3. Q = Seq(T)
  <2> HIDE DEF Q
  <2>1. Q \in SUBSET Seq(T)
    BY DEF Q
  <2>2. QED
    BY <1>1, <1>2, <2>1, AppendInduction
<1>4. Keep(row, S) \in Seq(T)
  BY KeepFacts
<1>5. QED
  BY <1>3, <1>4

\* Only which items of the row are to be kept matters.
LEMMA KeepSame ==
    ASSUME NEW T, NEW row \in Seq(T), NEW A, NEW B, ToSet(row) \cap A = ToSet(row) \cap B
    PROVE  Keep(row, A) = Keep(row, B)
<1> DEFINE Q == {r \in Seq(T) : ToSet(r) \cap A = ToSet(r) \cap B => Keep(r, A) = Keep(r, B)}
<1>1. <<>> \in Q
  <2>1. <<>> \in Seq(T) /\ Keep(<<>>, A) = <<>> /\ Keep(<<>>, B) = <<>>
    BY KeepNone
  <2>2. QED
    BY <2>1
<1>2. ASSUME NEW r \in Q, NEW g \in T PROVE Append(r, g) \in Q
  <2> DEFINE n == Append(r, g)
  <2>1. r \in Seq(T) /\ n \in Seq(T) /\ ToSet(n) = ToSet(r) \cup {g}
    BY ItemsAre
  <2>2. /\ Keep(n, A) = IF g \in A THEN Append(Keep(r, A), g) ELSE Keep(r, A)
        /\ Keep(n, B) = IF g \in B THEN Append(Keep(r, B), g) ELSE Keep(r, B)
    BY KeepMore
  <2> HIDE DEF n
  <2>3. ASSUME ToSet(n) \cap A = ToSet(n) \cap B PROVE Keep(n, A) = Keep(n, B)
    <3>1. ToSet(r) \cap A = ToSet(r) \cap B /\ (g \in A <=> g \in B)
      BY <2>1, <2>3
    <3>2. Keep(r, A) = Keep(r, B)
      BY <3>1
    <3>3. QED
      BY <2>2, <3>1, <3>2
  <2>4. QED
    BY <2>1, <2>3 DEF n
<1>3. Q = Seq(T)
  <2> HIDE DEF Q
  <2>1. Q \in SUBSET Seq(T)
    BY DEF Q
  <2>2. QED
    BY <1>1, <1>2, <2>1, AppendInduction
<1>4. QED
  BY <1>3

\* All items are kept.
LEMMA KeepAll ==
    ASSUME NEW T, NEW row \in Seq(T), NEW S, ToSet(row) \subseteq S
    PROVE  Keep(row, S) = row
<1> DEFINE Q == {r \in Seq(T) : ToSet(r) \subseteq S => Keep(r, S) = r}
<1>1. <<>> \in Q
  <2>1. <<>> \in Seq(T)
    OBVIOUS
  <2>2. QED
    BY <2>1, KeepNone
<1>2. ASSUME NEW r \in Q, NEW g \in T PROVE Append(r, g) \in Q
  <2> DEFINE n == Append(r, g)
  <2>1. r \in Seq(T) /\ n \in Seq(T) /\ ToSet(n) = ToSet(r) \cup {g}
    BY ItemsAre
  <2>2. Keep(n, S) = IF g \in S THEN Append(Keep(r, S), g) ELSE Keep(r, S)
    BY KeepMore
  <2>3. QED
    BY <2>1, <2>2
<1>3. Q = Seq(T)
  <2> HIDE DEF Q
  <2>1. Q \in SUBSET Seq(T)
    BY DEF Q
  <2>2. QED
    BY <1>1, <1>2, <2>1, AppendInduction
<1>4. QED
  BY <1>3

\* No item is kept.
LEMMA KeepNothing ==
    ASSUME NEW T, NEW row \in Seq(T), NEW S, ToSet(row) \cap S = {}
    PROVE  Keep(row, S) = <<>>
<1> DEFINE k == Keep(row, S)
<1>1. k \in Seq(T) /\ ToSet(k) = {}
  BY KeepFacts
<1> HIDE DEF k
<1>2. Len(k) \in Nat /\ DOMAIN k = 1..Len(k) /\ \A i \in 1..Len(k) : k[i] \in ToSet(k)
  BY <1>1 DEF ToSet
<1> DEFINE n == Len(k)
<1>3. n \in Nat /\ \A i \in 1..n : FALSE
  BY <1>1, <1>2
<1> HIDE DEF n
<1>4. n = 0
  BY <1>3
<1>5. k = <<>>
  BY <1>1, <1>4 DEF n
<1>6. QED
  BY <1>5 DEF k

\* Keeping twice keeps what both keep.
LEMMA KeepTwice ==
    ASSUME NEW T, NEW row \in Seq(T), NEW A, NEW B
    PROVE  Keep(Keep(row, A), B) = Keep(row, A \cap B)
<1> DEFINE Q == {r \in Seq(T) : Keep(Keep(r, A), B) = Keep(r, A \cap B)}
<1>1. <<>> \in Q
  <2>1. <<>> \in Seq(T)
    OBVIOUS
  <2>2. QED
    BY <2>1, KeepNone
<1>2. ASSUME NEW r \in Q, NEW g \in T PROVE Append(r, g) \in Q
  <2> DEFINE k == Keep(r, A)
             n == Append(r, g)
  <2>1. k \in Seq(T) /\ r \in Seq(T) /\ n \in Seq(T) /\ Keep(k, B) = Keep(r, A \cap B)
    BY KeepFacts
  <2>2. /\ Keep(n, A) = IF g \in A THEN Append(k, g) ELSE k
        /\ Keep(n, A \cap B) = IF g \in A \cap B THEN Append(Keep(r, A \cap B), g)
                               ELSE Keep(r, A \cap B)
    BY KeepMore
  <2> HIDE DEF k
  <2>3. Keep(Append(k, g), B) = IF g \in B THEN Append(Keep(k, B), g) ELSE Keep(k, B)
    BY <2>1, KeepMore
  <2> DEFINE kn == Keep(n, A)
             bn == Keep(n, A \cap B)
  <2>4. Keep(kn, B) = bn
    <3>1. CASE g \in A
      <4>1. kn = Append(k, g)
        BY <2>2, <3>1
      <4> HIDE DEF kn
      <4>2. Keep(kn, B) = IF g \in B THEN Append(Keep(r, A \cap B), g) ELSE Keep(r, A \cap B)
        BY <2>1, <2>3, <4>1
      <4>3. bn = IF g \in B THEN Append(Keep(r, A \cap B), g) ELSE Keep(r, A \cap B)
        BY <2>2, <3>1
      <4>4. QED
        BY <4>2, <4>3
    <3>2. CASE g \notin A
      <4>1. kn = k /\ bn = Keep(r, A \cap B)
        BY <2>2, <3>2
      <4>2. QED
        BY <2>1, <4>1
    <3>3. QED
      BY <3>1, <3>2
  <2>5. n \in Q
    BY <2>1, <2>4
  <2>6. QED
    BY <2>5
<1>3. Q = Seq(T)
  <2> HIDE DEF Q
  <2>1. Q \in SUBSET Seq(T)
    BY DEF Q
  <2>2. QED
    BY <1>1, <1>2, <2>1, AppendInduction
<1>4. QED
  BY <1>3

\* What is kept of two rows.
LEMMA KeepConcat ==
    ASSUME NEW T, NEW row \in Seq(T), NEW b \in Seq(T), NEW S
    PROVE  Keep(row \o b, S) = Keep(row, S) \o Keep(b, S)
<1> DEFINE Q == {r \in Seq(T) : Keep(row \o r, S) = Keep(row, S) \o Keep(r, S)}
           a == Keep(row, S)
<1>0. a \in Seq(T)
  BY KeepFacts
<1>1. <<>> \in Q
  <2>1. <<>> \in Seq(T) /\ row \o <<>> = row /\ a \o <<>> = a
    BY <1>0, ConcatEmptySeq
  <2>2. QED
    BY <2>1, KeepNone
<1>2. ASSUME NEW r \in Q, NEW g \in T PROVE Append(r, g) \in Q
  <2> DEFINE k == Keep(r, S)
             n == Append(r, g)
             c == row \o r
  <2>1. k \in Seq(T) /\ r \in Seq(T) /\ n \in Seq(T) /\ Keep(c, S) = a \o k /\ c \in Seq(T)
    BY KeepFacts, JoinedRows
  <2>2. Keep(n, S) = IF g \in S THEN Append(k, g) ELSE k
    BY KeepMore
  <2>3. row \o n = Append(c, g)
    OBVIOUS
  <2> HIDE DEF k, c, a
  <2>4. Keep(Append(c, g), S) = IF g \in S THEN Append(Keep(c, S), g) ELSE Keep(c, S)
    BY <2>1, KeepMore
  <2>5. a \o Append(k, g) = Append(a \o k, g)
    BY <1>0, <2>1
  <2>6. Keep(row \o n, S) = a \o Keep(n, S)
    BY <2>1, <2>2, <2>3, <2>4, <2>5
  <2>7. QED
    BY <2>1, <2>6 DEF a
<1>3. Q = Seq(T)
  <2> HIDE DEF Q
  <2>1. Q \in SUBSET Seq(T)
    BY DEF Q
  <2>2. QED
    BY <1>1, <1>2, <2>1, AppendInduction
<1>4. QED
  BY <1>3

\* Only which items of the order the row has matters.
LEMMA NamedSame ==
    ASSUME NEW T, NEW order \in Seq(T), NEW a, NEW b,
           ToSet(order) \cap ToSet(a) = ToSet(order) \cap ToSet(b)
    PROVE  Named(a, order) = Named(b, order)
<1> DEFINE Q == {r \in Seq(T) : ToSet(r) \cap ToSet(a) = ToSet(r) \cap ToSet(b)
                                    => Named(a, r) = Named(b, r)}
<1>1. <<>> \in Q
  <2>1. <<>> \in Seq(T)
    OBVIOUS
  <2>2. QED
    BY <2>1, NamedNone
<1>2. ASSUME NEW r \in Q, NEW g \in T PROVE Append(r, g) \in Q
  <2> DEFINE n == Append(r, g)
  <2>1. r \in Seq(T) /\ n \in Seq(T) /\ ToSet(n) = ToSet(r) \cup {g}
    BY ItemsAre
  <2>2. /\ Named(a, n) = IF g \in ToSet(a) \ ToSet(Named(a, r)) THEN Append(Named(a, r), g)
                         ELSE Named(a, r)
        /\ Named(b, n) = IF g \in ToSet(b) \ ToSet(Named(b, r)) THEN Append(Named(b, r), g)
                         ELSE Named(b, r)
    BY NamedMore
  <2> HIDE DEF n
  <2>3. ASSUME ToSet(n) \cap ToSet(a) = ToSet(n) \cap ToSet(b) PROVE Named(a, n) = Named(b, n)
    <3>1. ToSet(r) \cap ToSet(a) = ToSet(r) \cap ToSet(b) /\ (g \in ToSet(a) <=> g \in ToSet(b))
      BY <2>1, <2>3
    <3>2. Named(a, r) = Named(b, r)
      BY <3>1
    <3>3. QED
      BY <2>2, <3>1, <3>2
  <2>4. QED
    BY <2>1, <2>3 DEF n
<1>3. Q = Seq(T)
  <2> HIDE DEF Q
  <2>1. Q \in SUBSET Seq(T)
    BY DEF Q
  <2>2. QED
    BY <1>1, <1>2, <2>1, AppendInduction
<1>4. QED
  BY <1>3

\* An order of items that a row has is what it has of the order.
LEMMA NamedAll ==
    ASSUME NEW T, NEW order \in Seq(T), NEW row, IsInjective(order),
           ToSet(order) \subseteq ToSet(row)
    PROVE  Named(row, order) = order
<1> DEFINE Q == {r \in Seq(T) : IsInjective(r) /\ ToSet(r) \subseteq ToSet(row)
                                    => Named(row, r) = r}
<1>1. <<>> \in Q
  <2>1. <<>> \in Seq(T)
    OBVIOUS
  <2>2. QED
    BY <2>1, NamedNone
<1>2. ASSUME NEW r \in Q, NEW g \in T PROVE Append(r, g) \in Q
  <2> DEFINE n == Append(r, g)
  <2>1. r \in Seq(T) /\ n \in Seq(T) /\ ToSet(n) = ToSet(r) \cup {g}
    BY ItemsAre
  <2>2. Named(row, n) = IF g \in ToSet(row) \ ToSet(Named(row, r)) THEN Append(Named(row, r), g)
                        ELSE Named(row, r)
    BY NamedMore
  <2>3. IsInjective(n) => IsInjective(r) /\ g \notin ToSet(r)
    BY <2>1, OnceMore
  <2> HIDE DEF n
  <2>4. ASSUME IsInjective(n), ToSet(n) \subseteq ToSet(row) PROVE Named(row, n) = n
    <3>1. Named(row, r) = r /\ g \in ToSet(row) \ ToSet(r)
      BY <2>1, <2>3, <2>4
    <3>2. QED
      BY <2>2, <3>1 DEF n
  <2>5. QED
    BY <2>1, <2>4 DEF n
<1>3. Q = Seq(T)
  <2> HIDE DEF Q
  <2>1. Q \in SUBSET Seq(T)
    BY DEF Q
  <2>2. QED
    BY <1>1, <1>2, <2>1, AppendInduction
<1>4. QED
  BY <1>3

\* So a row with the items of an order takes the order.
LEMMA InOrderAll ==
    ASSUME NEW T, NEW row \in Seq(T), NEW order \in Seq(T), IsInjective(order),
           ToSet(order) = ToSet(row)
    PROVE  InOrder(row, order) = order
<1>1. Named(row, order) = order
  BY NamedAll
<1>2. Drop(row, ToSet(order)) = <<>>
  BY KeepNothing DEF Drop
<1>3. QED
  BY <1>1, <1>2, ConcatEmptySeq DEF InOrder

\* Two rows of one item are one row.
LEMMA FewAreEqual ==
    ASSUME NEW T, NEW a \in Seq(T), NEW b \in Seq(T), IsInjective(a), IsInjective(b),
           ToSet(a) = ToSet(b), \A x, y \in ToSet(a) : x = y
    PROVE  a = b
<1>1. ASSUME NEW s \in Seq(T), IsInjective(s), \A x, y \in ToSet(s) : x = y
      PROVE  /\ s = <<>> \/ \E x \in ToSet(s) : s = <<x>>
             /\ s = <<>> <=> ToSet(s) = {}
  <2> DEFINE n == Len(s)
  <2>1. n \in Nat /\ DOMAIN s = 1..n /\ \A i \in 1..n : s[i] \in ToSet(s)
    BY DEF ToSet
  <2>2. \A i, j \in 1..n : i = j
    <3>1. \A i, j \in 1..n : s[i] = s[j]
      BY <1>1, <2>1
    <3>2. QED
      BY <1>1, <2>1, <3>1 DEF IsInjective
  <2>3. n = 0 => s = <<>> /\ ToSet(s) = {}
    BY <1>1, ItemsAre
  <2>4. n = 1 => s = <<s[1]>> /\ s[1] \in ToSet(s)
    BY <1>1, <2>1
  <2> HIDE DEF n
  <2>5. n \in {0, 1}
    <3>1. ASSUME n > 1 PROVE FALSE
      <4>1. 1 \in 1..n /\ 2 \in 1..n
        BY <2>1, <3>1
      <4>2. 1 = 2
        BY <2>2, <4>1
      <4>3. QED
        BY <4>2
    <3>2. QED
      BY <2>1, <3>1
  <2>6. QED
    BY <2>3, <2>4, <2>5
<1>2. /\ a = <<>> \/ \E x \in ToSet(a) : a = <<x>>
      /\ a = <<>> <=> ToSet(a) = {}
  BY <1>1
<1>3. /\ b = <<>> \/ \E x \in ToSet(b) : b = <<x>>
      /\ b = <<>> <=> ToSet(b) = {}
  BY <1>1
<1>4. QED
  BY <1>2, <1>3

\* An order that lacks at most one item of a row puts every row of its items into
\* the same order.
LEMMA InOrderAgain ==
    ASSUME NEW T, NEW a \in Seq(T), NEW b \in Seq(T), NEW order \in Seq(T),
           IsInjective(a), IsInjective(b), ToSet(a) = ToSet(b),
           \A x, y \in ToSet(a) \ ToSet(order) : x = y
    PROVE  InOrder(a, order) = InOrder(b, order)
<1>1. Named(a, order) = Named(b, order)
  BY NamedSame
<1> DEFINE c == Drop(a, ToSet(order))
           d == Drop(b, ToSet(order))
<1>2. c \in Seq(T) /\ ToSet(c) = ToSet(a) \ ToSet(order) /\ IsInjective(c)
  BY DropFacts, DropOnce
<1>3. d \in Seq(T) /\ ToSet(d) = ToSet(b) \ ToSet(order) /\ IsInjective(d)
  BY DropFacts, DropOnce
<1> HIDE DEF c, d
<1>4. c = d
  BY <1>2, <1>3, FewAreEqual
<1>5. QED
  BY <1>1, <1>4 DEF InOrder, c, d

\* An item that an order does not know comes last.
LEMMA InOrderMore ==
    ASSUME NEW T, NEW row \in Seq(T), NEW g \in T, NEW order \in Seq(T),
           g \notin ToSet(row), ToSet(order) \subseteq ToSet(row)
    PROVE  InOrder(Append(row, g), order) = Append(InOrder(row, order), g)
<1> DEFINE n == Append(row, g)
           O == ToSet(order)
           a == Named(row, order)
           d == Drop(row, O)
<1>1. n \in Seq(T) /\ ToSet(n) = ToSet(row) \cup {g} /\ g \notin O
  BY ItemsAre
<1>2. Named(n, order) = a
  BY <1>1, NamedSame
<1>3. Keep(n, ToSet(n) \ O) = Append(Keep(row, ToSet(n) \ O), g)
  <2> DEFINE S == ToSet(n) \ O
  <2>1. g \in S
    BY <1>1
  <2> HIDE DEF S
  <2>2. Keep(Append(row, g), S) = Append(Keep(row, S), g)
    BY <2>1, KeepMore
  <2>3. QED
    BY <2>2 DEF S
<1>4. Keep(row, ToSet(n) \ O) = Keep(row, ToSet(row) \ O)
  <2> DEFINE S == ToSet(n) \ O
             R == ToSet(row) \ O
  <2>1. ToSet(row) \cap S = ToSet(row) \cap R
    BY <1>1
  <2> HIDE DEF S, R
  <2>2. Keep(row, S) = Keep(row, R)
    BY <2>1, KeepSame
  <2>3. QED
    BY <2>2 DEF S, R
<1>5. Drop(n, O) = Append(d, g)
  BY <1>3, <1>4 DEF Drop
<1>6. a \in Seq(T) /\ d \in Seq(T)
  BY NamedFacts, DropFacts
<1>7. InOrder(n, order) = a \o Append(d, g) /\ InOrder(row, order) = a \o d
  BY <1>2, <1>5 DEF InOrder
<1> HIDE DEF a, d, n
<1>8. a \o Append(d, g) = Append(a \o d, g)
  BY <1>6
<1>9. QED
  BY <1>7, <1>8 DEF n

-----------------------------------------------------------------------------
(* The places of some items of a row, filled with others. *)

Upto(f, S, i) == {j \in 1..i : f[j] \in S}
Filled(f, S, p) == [i \in DOMAIN f |-> IF f[i] \in S THEN p[Cardinality(Upto(f, S, i))] ELSE f[i]]

\* No item is filled in.
LEMMA FilledNone ==
    ASSUME NEW S, NEW p
    PROVE  Filled(<<>>, S, p) = <<>> /\ Cardinality(Upto(<<>>, S, 0)) = 0
<1>1. DOMAIN <<>> = {} /\ Upto(<<>>, S, 0) = {}
  BY DEF Upto
<1>2. Filled(<<>>, S, p) = <<>>
  BY <1>1 DEF Filled
<1>3. QED
  BY <1>1, <1>2, FS_EmptySet

\* One more place up to which items are counted.
LEMMA UptoMore ==
    ASSUME NEW T, NEW r \in Seq(T), NEW g \in T, NEW S
    PROVE  /\ \A i \in 1..Len(r) : Upto(Append(r, g), S, i) = Upto(r, S, i)
           /\ Cardinality(Upto(Append(r, g), S, Len(r) + 1))
                  = Cardinality(Upto(r, S, Len(r))) + IF g \in S THEN 1 ELSE 0
           /\ Cardinality(Upto(r, S, Len(r))) \in Nat
<1> DEFINE m == Len(r)
           n == Append(r, g)
           U == Upto(r, S, m)
<1>1. m \in Nat /\ n[m + 1] = g /\ \A j \in 1..m : n[j] = r[j]
  OBVIOUS
<1> HIDE DEF m, n
<1>2. ASSUME NEW i \in 0..m PROVE Upto(n, S, i) = Upto(r, S, i)
  <2>1. \A j \in 1..i : n[j] = r[j]
    BY <1>1, <1>2
  <2>2. QED
    BY <2>1 DEF Upto
<1>3. IsFiniteSet(U) /\ Cardinality(U) \in Nat /\ m + 1 \notin U
  <2>1. U \subseteq 1..m /\ IsFiniteSet(1..m)
    BY <1>1, FS_Interval DEF Upto
  <2>2. QED
    BY <1>1, <2>1, FS_Subset, FS_CardinalityType
<1>4. Upto(n, S, m) = U
  BY <1>1, <1>2
<1>5. Upto(n, S, m + 1) = IF g \in S THEN U \cup {m + 1} ELSE U
  <2>1. 1..(m + 1) = (1..m) \cup {m + 1}
    BY <1>1
  <2>2. QED
    BY <1>1, <1>4, <2>1 DEF Upto
<1> HIDE DEF U
<1>6. Cardinality(Upto(n, S, m + 1)) = Cardinality(U) + IF g \in S THEN 1 ELSE 0
  <2>1. CASE g \in S
    BY <1>3, <1>5, <2>1, FS_AddElement
  <2>2. CASE g \notin S
    BY <1>3, <1>5, <2>2
  <2>3. QED
    BY <2>1, <2>2
<1>7. \A i \in 1..m : Upto(n, S, i) = Upto(r, S, i)
  BY <1>1, <1>2
<1>8. QED
  BY <1>3, <1>6, <1>7 DEF U, m, n

\* What one more item fills in.
LEMMA FilledMore ==
    ASSUME NEW T, NEW r \in Seq(T), NEW g \in T, NEW S, NEW p, NEW F \in Seq(T),
           F = Filled(r, S, p),
           NEW h \in T, h = IF g \in S THEN p[Cardinality(Upto(r, S, Len(r))) + 1] ELSE g
    PROVE  Filled(Append(r, g), S, p) = Append(F, h)
<1> DEFINE m == Len(r)
           n == Append(r, g)
           c == Cardinality(Upto(r, S, m))
           all == Filled(n, S, p)
<1>1. m \in Nat /\ DOMAIN n = 1..(m + 1) /\ n[m + 1] = g /\ DOMAIN r = 1..m
      /\ \A j \in 1..m : n[j] = r[j]
  OBVIOUS
<1>2. /\ \A i \in 1..m : Upto(n, S, i) = Upto(r, S, i)
      /\ Cardinality(Upto(n, S, m + 1)) = c + IF g \in S THEN 1 ELSE 0
  BY UptoMore
<1>3. DOMAIN F = 1..m
  BY <1>1 DEF Filled
<1>4. Len(F) = m
  BY <1>1, <1>3
<1>5. DOMAIN Append(F, h) = 1..(m + 1) /\ Append(F, h)[m + 1] = h
      /\ \A j \in 1..m : Append(F, h)[j] = F[j]
  BY <1>4
<1>6. h = IF g \in S THEN p[c + 1] ELSE g
  OBVIOUS
<1> HIDE DEF m, n, c
<1>7. all = [i \in 1..(m + 1) |-> IF n[i] \in S THEN p[Cardinality(Upto(n, S, i))] ELSE n[i]]
  BY <1>1 DEF Filled
<1>8. F = [i \in 1..m |-> IF r[i] \in S THEN p[Cardinality(Upto(r, S, i))] ELSE r[i]]
  BY <1>1 DEF Filled
<1>9. \A i \in 1..m : all[i] = Append(F, h)[i]
  BY <1>1, <1>2, <1>5, <1>7, <1>8
<1>10. all[m + 1] = h
  <2>1. m + 1 \in 1..(m + 1)
    BY <1>1
  <2>2. all[m + 1] = IF g \in S THEN p[Cardinality(Upto(n, S, m + 1))] ELSE g
    BY <1>1, <1>7, <2>1
  <2>3. QED
    BY <1>2, <1>6, <2>2
<1>11. \A i \in 1..(m + 1) : all[i] = Append(F, h)[i]
  BY <1>1, <1>5, <1>9, <1>10
<1> DEFINE af == Append(F, h)
<1>12. af \in Seq(T) /\ DOMAIN af = 1..(m + 1)
  BY <1>5
<1> HIDE DEF af
<1>13. af = [i \in 1..(m + 1) |-> af[i]] /\ \A i \in 1..(m + 1) : all[i] = af[i]
  <2>1. \A i \in 1..(m + 1) : all[i] = af[i]
    BY <1>11 DEF af
  <2>2. af = [i \in DOMAIN af |-> af[i]]
    <3>1. af \in [1..Len(af) -> T]
      BY <1>12
    <3>2. QED
      BY <3>1
  <2>3. QED
    BY <1>12, <2>1, <2>2
<1>14. all = af
  BY <1>7, <1>13
<1>15. QED
  BY <1>14 DEF af, n

\* The others come into the row in their order, and the rest of it stays.
LEMMA FilledFacts ==
    ASSUME NEW T, NEW f \in Seq(T), NEW S, NEW p \in Seq(T), ToSet(p) \subseteq S,
           NEW S2, S \cap S2 = {}, Len(Keep(f, S)) <= Len(p)
    PROVE  /\ Filled(f, S, p) \in Seq(T)
           /\ ToSet(Filled(f, S, p)) \subseteq ToSet(f) \cup ToSet(p)
           /\ Keep(Filled(f, S, p), S) = SubSeq(p, 1, Len(Keep(f, S)))
           /\ Keep(Filled(f, S, p), S2) = Keep(f, S2)
<1> DEFINE Good(r, F, k) ==
               /\ F \in Seq(T) /\ ToSet(F) \subseteq ToSet(r) \cup ToSet(p)
               /\ Keep(F, S) = SubSeq(p, 1, k)
               /\ Keep(F, S2) = Keep(r, S2)
           Q == {r \in Seq(T) : /\ Cardinality(Upto(r, S, Len(r))) = Len(Keep(r, S))
                                /\ Len(Keep(r, S)) <= Len(p) =>
                                       Good(r, Filled(r, S, p), Len(Keep(r, S)))}
<1>1. <<>> \in Q
  <2>1. <<>> \in Seq(T) /\ Len(<<>>) = 0 /\ SubSeq(p, 1, 0) = <<>>
    OBVIOUS
  <2>2. Keep(<<>>, S) = <<>> /\ Keep(<<>>, S2) = <<>> /\ ToSet(<<>>) = {}
    BY <2>1, KeepNone, ItemsAre
  <2>3. Filled(<<>>, S, p) = <<>> /\ Cardinality(Upto(<<>>, S, 0)) = 0
    BY FilledNone
  <2>4. Good(<<>>, <<>>, 0)
    BY <2>1, <2>2
  <2> HIDE DEF Good
  <2>5. QED
    BY <2>1, <2>2, <2>3, <2>4
<1>2. ASSUME NEW r \in Q, NEW g \in T PROVE Append(r, g) \in Q
  <2> DEFINE n == Append(r, g)
             F == Filled(r, S, p)
             k == Len(Keep(r, S))
             kn == Len(Keep(n, S))
             h == IF g \in S THEN p[k + 1] ELSE g
             af == Append(F, h)
  <2>1. r \in Seq(T) /\ n \in Seq(T) /\ Cardinality(Upto(r, S, Len(r))) = k
        /\ (k <= Len(p) => Good(r, F, k)) /\ Len(n) = Len(r) + 1
        /\ ToSet(n) = ToSet(r) \cup {g}
    BY ItemsAre
  <2>2. k \in Nat /\ kn = IF g \in S THEN k + 1 ELSE k
    <3> DEFINE a == Keep(r, S)
    <3>1. a \in Seq(T) /\ Keep(n, S) = IF g \in S THEN Append(a, g) ELSE a
      BY <2>1, KeepFacts, KeepMore
    <3>2. Len(a) \in Nat /\ Len(Append(a, g)) = Len(a) + 1
      BY <3>1
    <3> HIDE DEF a, n
    <3>3. QED
      BY <3>1, <3>2 DEF a
  <2>3. Cardinality(Upto(n, S, Len(n))) = kn
    <3>1. Cardinality(Upto(n, S, Len(r) + 1))
              = Cardinality(Upto(r, S, Len(r))) + IF g \in S THEN 1 ELSE 0
      BY <2>1, UptoMore
    <3> HIDE DEF n, k, kn
    <3>2. QED
      BY <2>1, <2>2, <3>1
  <2>4. ASSUME kn <= Len(p) PROVE Good(n, Filled(n, S, p), kn)
    <3>1. k <= Len(p) /\ (g \in S => k + 1 \in 1..Len(p)) /\ Len(p) \in Nat
      <4>1. Len(p) \in Nat
        OBVIOUS
      <4> HIDE DEF k, kn
      <4>2. QED
        BY <2>2, <2>4, <4>1
    <3>2. F \in Seq(T) /\ ToSet(F) \subseteq ToSet(r) \cup ToSet(p)
          /\ Keep(F, S) = SubSeq(p, 1, k) /\ Keep(F, S2) = Keep(r, S2)
      BY <2>1, <3>1
    <3>3. h \in T /\ (g \in S => h \in ToSet(p) /\ h = p[k + 1]) /\ (g \notin S => h = g)
      <4> HIDE DEF k
      <4>1. QED
        BY <3>1 DEF ToSet
    <3> HIDE DEF h
    <3>4. Filled(n, S, p) = af
      <4>1. h = IF g \in S THEN p[Cardinality(Upto(r, S, Len(r))) + 1] ELSE g
        BY <2>1 DEF h
      <4>2. QED
        BY <2>1, <3>2, <3>3, <4>1, FilledMore
    <3> HIDE DEF F
    <3>5. af \in Seq(T) /\ ToSet(af) = ToSet(F) \cup {h}
      BY <3>2, <3>3, ItemsAre
    <3>6. /\ Keep(af, S) = IF h \in S THEN Append(Keep(F, S), h) ELSE Keep(F, S)
          /\ Keep(af, S2) = IF h \in S2 THEN Append(Keep(F, S2), h) ELSE Keep(F, S2)
          /\ Keep(n, S2) = IF g \in S2 THEN Append(Keep(r, S2), g) ELSE Keep(r, S2)
      <4>1. F \in Seq(T) /\ h \in T /\ r \in Seq(T)
        BY <2>1, <3>2, <3>3
      <4>2. Keep(af, S) = IF h \in S THEN Append(Keep(F, S), h) ELSE Keep(F, S)
        BY <4>1, KeepMore
      <4>3. Keep(af, S2) = IF h \in S2 THEN Append(Keep(F, S2), h) ELSE Keep(F, S2)
        BY <4>1, KeepMore
      <4>4. Keep(n, S2) = IF g \in S2 THEN Append(Keep(r, S2), g) ELSE Keep(r, S2)
        BY <4>1, KeepMore
      <4>5. QED
        BY <4>2, <4>3, <4>4
    <3> HIDE DEF af, n, k, kn
    <3>7. CASE g \in S
      <4>1. h \in S /\ h \notin S2 /\ g \notin S2 /\ kn = k + 1 /\ k + 1 \in 1..Len(p) /\ h = p[k + 1]
        BY <2>2, <3>1, <3>3, <3>7
      <4>2. SubSeq(p, 1, k + 1) = Append(SubSeq(p, 1, k), h)
        <5> DEFINE q == SubSeq(p, 1, k)
        <5>1. q \in Seq(T)
          BY <2>2, <3>1, SplitRow
        <5>2. SubSeq(p, 1, k + 1) = q \o <<p[k + 1]>>
          <6> DEFINE kk == k + 1
          <6>1. 1 \in 1..Len(p) /\ kk \in 1..Len(p) /\ kk - 1 = k
            BY <2>2, <3>1, <4>1
          <6> HIDE DEF kk
          <6>2. SubSeq(p, 1, kk) = SubSeq(p, 1, kk - 1) \o <<p[kk]>>
            BY <6>1, SubSeqRecursiveSecond
          <6>3. QED
            BY <6>1, <6>2 DEF kk
        <5> HIDE DEF q
        <5>3. Append(q, h) = q \o <<h>>
          BY <5>1
        <5>4. SubSeq(p, 1, k + 1) = Append(q, h)
          BY <4>1, <5>2, <5>3
        <5>5. QED
          BY <5>4 DEF q
      <4>3. Keep(af, S) = SubSeq(p, 1, kn) /\ Keep(af, S2) = Keep(n, S2)
        BY <3>2, <3>6, <4>1, <4>2
      <4>4. ToSet(af) \subseteq ToSet(n) \cup ToSet(p)
        BY <2>1, <3>2, <3>3, <3>5, <3>7
      <4>5. QED
        BY <3>4, <3>5, <4>3, <4>4
    <3>8. CASE g \notin S
      <4>1. h = g /\ h \notin S /\ kn = k
        BY <2>2, <3>3, <3>8
      <4>2. Keep(af, S) = SubSeq(p, 1, kn) /\ Keep(af, S2) = Keep(n, S2)
        BY <3>2, <3>6, <4>1
      <4>3. ToSet(af) \subseteq ToSet(n) \cup ToSet(p)
        BY <2>1, <3>2, <3>5, <4>1
      <4>4. QED
        BY <3>4, <3>5, <4>2, <4>3
    <3>9. QED
      BY <3>7, <3>8
  <2> HIDE DEF Good, n
  <2>5. n \in Q
    BY <2>1, <2>3, <2>4
  <2>6. QED
    BY <2>5 DEF n
<1>3. Q = Seq(T)
  <2> HIDE DEF Q
  <2>1. Q \in SUBSET Seq(T)
    BY DEF Q
  <2>2. QED
    BY <1>1, <1>2, <2>1, AppendInduction
<1>4. QED
  BY <1>3

-----------------------------------------------------------------------------
\* reorderItemsByIDs loses no item of a row, adds none, repeats none and follows the
\* order it is given, for rows of any length.
THEOREM InOrderKeeps ==
    ASSUME NEW T, NEW row \in Seq(T), NEW order \in Seq(T)
    PROVE  /\ InOrder(row, order) \in Seq(T) /\ ToSet(InOrder(row, order)) = ToSet(row)
           /\ Agree(InOrder(row, order), order)
           /\ IsInjective(row) => IsInjective(InOrder(row, order))
BY InOrderFacts, InOrderOnce

=============================================================================
