------------------------------ MODULE CoreProofs ------------------------------
(***************************************************************************)
(* What the methods of gostui-core do, for any number of cards, windows,   *)
(* outputs and tiles: the operations of Vec they are made of, those of the *)
(* card strip, those of the window model.  The lemmas are about operators, *)
(* so that every specification whose handlers call them can cite them.     *)
(***************************************************************************)
EXTENDS TabOps, WindowOps, SequenceTheorems, WellFoundedInduction, TLAPS

----------------------------------------------------------------------------
(* Products and quotients                                                  *)

\* A number by the multiple of b below it and what is left.
LEMMA Division ==
  ASSUME NEW a \in Nat, NEW b \in Nat \ {0}
  PROVE  /\ a \div b \in Nat /\ a % b \in 0..(b - 1)
         /\ a = b * (a \div b) + (a % b)
         /\ b * (a \div b) \in Nat /\ b * (a \div b) <= a
<1> DEFINE q == a \div b
<1> DEFINE r == a % b
<1>1. q \in Nat /\ r \in 0..(b - 1) /\ a = b * q + r
  OBVIOUS
<1> HIDE DEF q, r
<1>2. b * q \in Nat
  BY <1>1
<1>3. b * q <= a
  BY <1>1, <1>2
<1> QED BY <1>1, <1>2, <1>3 DEF q, r

\* What a factor more or less adds to a product.
LEMMA ProductGrows ==
  ASSUME NEW p \in Nat, NEW a \in Nat, NEW b \in Nat
  PROVE  /\ p * a \in Nat /\ p * b \in Nat
         /\ a <= b => p * a <= p * b
         /\ a < b => p * a + p <= p * b
<1>1. p * a \in Nat /\ p * b \in Nat
  OBVIOUS
<1>2. a <= b => p * a <= p * b
  <2> SUFFICES ASSUME a <= b PROVE p * a <= p * b
    OBVIOUS
  <2>1. PICK d \in Nat : b = a + d
    OBVIOUS
  <2>2. p * (a + d) = p * a + p * d /\ p * d \in Nat
    OBVIOUS
  <2> QED BY <1>1, <2>1, <2>2
<1>3. a < b => p * a + p <= p * b
  <2> SUFFICES ASSUME a < b PROVE p * a + p <= p * b
    OBVIOUS
  <2>1. PICK d \in Nat : b = a + 1 + d
    OBVIOUS
  <2>2. p * (a + 1 + d) = p * a + p + p * d /\ p * d \in Nat
    OBVIOUS
  <2> QED BY <1>1, <2>1, <2>2
<1> QED BY <1>1, <1>2, <1>3

----------------------------------------------------------------------------
(* Vec                                                                     *)

\* Induction over the naturals with the property given as a set, which is
\* the form that can be cited by name.
LEMMA SetInduction ==
  ASSUME NEW T, 0 \in T, \A n \in Nat : n \in T => n + 1 \in T
  PROVE  Nat \subseteq T
<1> DEFINE R == {p \in Nat \X Nat : p[1] < p[2]}
<1> DEFINE D == Nat \ T
<1>1. IsWellFoundedOn(R, Nat)
  BY NatLessThanWellFounded DEF OpToRel
<1> SUFFICES ASSUME D # {} PROVE FALSE
  OBVIOUS
<1> HIDE DEF R
<1>2. PICK x \in D : \A y \in D : <<y, x>> \notin R
  BY <1>1, WFMin, D \subseteq Nat
<1>3. x # 0
  OBVIOUS
<1>4. x - 1 \in Nat /\ <<x - 1, x>> \in R
  BY <1>3 DEF R
<1>5. x - 1 \in T
  BY <1>2, <1>4
<1> QED
  BY <1>4, <1>5

\* The function FlattenSeq is written with exists.
LEMMA FlattenStep ==
  ASSUME NEW n \in Nat \ {0}, NEW f, Len(f) = n
  PROVE  \E g : /\ g[1] = f[1] /\ \A i \in 1..n : i # 1 => g[i] = g[i - 1] \o f[i]
                /\ FlattenSeq(f) = g[n]
<1> DEFINE Rec(g, i) == IF i = 1 THEN f[i] ELSE g[i - 1] \o f[i]
<1> DEFINE Fine(g, m) == g = [i \in 1..m |-> Rec(g, i)]
<1> DEFINE T == {m \in Nat : \E g : Fine(g, m)}
<1>1. 0 \in T
  <2>1. Fine([i \in 1..0 |-> << >>], 0)
    OBVIOUS
  <2> QED BY <2>1
<1>2. ASSUME NEW m \in Nat, m \in T PROVE m + 1 \in T
  <2>1. PICK g : Fine(g, m)
    BY <1>2
  <2>2. DOMAIN g = 1..m /\ \A i \in 1..m : g[i] = Rec(g, i)
    BY <2>1
  <2> DEFINE e == Rec(g, m + 1)
  <2> DEFINE k == [i \in 1..(m + 1) |-> IF i = m + 1 THEN e ELSE g[i]]
  <2> HIDE DEF e
  <2>3. k[m + 1] = e /\ \A i \in 1..m : k[i] = g[i]
    OBVIOUS
  <2>4. k = [i \in 1..(m + 1) |-> k[i]]
    OBVIOUS
  <2> HIDE DEF k
  <2>5. ASSUME NEW i \in 1..(m + 1) PROVE k[i] = Rec(k, i)
    <3>1. CASE i = m + 1
      <4>1. i # 1 => i - 1 \in 1..m
        BY <3>1
      <4>2. i # 1 => k[i - 1] = g[i - 1]
        BY <4>1, <2>3
      <4> QED BY <3>1, <4>2, <2>3 DEF e
    <3>2. CASE i # m + 1
      <4>1. i \in 1..m /\ (i # 1 => i - 1 \in 1..m)
        BY <3>2
      <4>2. g[i] = Rec(g, i)
        BY <2>2, <4>1
      <4> QED BY <4>1, <4>2, <2>3
    <3> QED BY <3>1, <3>2
  <2>6. Fine(k, m + 1)
    BY <2>4, <2>5, Zenon
  <2>7. m + 1 \in Nat
    OBVIOUS
  <2> HIDE DEF Fine, k
  <2> QED BY <2>6, <2>7
<1>3. Nat \subseteq T
  <2> HIDE DEF T
  <2> QED BY <1>1, <1>2, SetInduction
<1>4. \E g : Fine(g, n)
  BY <1>3
<1> DEFINE flat == CHOOSE g : Fine(g, n)
<1>5. Fine(flat, n)
  BY <1>4
<1>6. FlattenSeq(f) = flat[n]
  BY DEF FlattenSeq
<1>7. \A i \in 1..n : flat[i] = Rec(flat, i)
  BY <1>5
<1> HIDE DEF flat
<1>8. 1 \in 1..n
  OBVIOUS
<1> QED BY <1>6, <1>7, <1>8

\* The function Retain is written with exists: on every prefix of s there is
\* one function that obeys the recursion.
LEMMA RetainStep ==
  ASSUME NEW X, NEW s \in Seq(X), NEW S
  PROVE  \E f : /\ f[0] = << >>
                /\ \A n \in 1..Len(s) :
                     f[n] = IF s[n] \in S THEN Append(f[n - 1], s[n])
                                          ELSE f[n - 1]
                /\ Retain(s, S) = f[Len(s)]
<1> DEFINE Rec(f, n) == IF n = 0 THEN << >>
                        ELSE IF s[n] \in S THEN Append(f[n - 1], s[n])
                        ELSE f[n - 1]
<1> DEFINE Good(f, m) == f = [n \in 0..m |-> Rec(f, n)]
<1> DEFINE T == {m \in Nat : \E f : Good(f, m)}
<1>1. 0 \in T
  <2>1. Good([n \in 0..0 |-> << >>], 0)
    OBVIOUS
  <2> QED BY <2>1
<1>2. ASSUME NEW m \in Nat, m \in T PROVE m + 1 \in T
  <2>1. PICK f : Good(f, m)
    BY <1>2
  <2>2. DOMAIN f = 0..m /\ \A n \in 0..m : f[n] = Rec(f, n)
    BY <2>1
  <2> DEFINE e == Rec(f, m + 1)
  <2> DEFINE g == [n \in 0..(m + 1) |-> IF n = m + 1 THEN e ELSE f[n]]
  <2> HIDE DEF e
  <2>3. g[m + 1] = e /\ \A n \in 0..m : g[n] = f[n]
    OBVIOUS
  <2>4. DOMAIN g = 0..(m + 1) /\ g = [n \in 0..(m + 1) |-> g[n]]
    OBVIOUS
  <2> HIDE DEF g
  <2>5. ASSUME NEW n \in 0..(m + 1) PROVE g[n] = Rec(g, n)
    <3>1. CASE n = m + 1
      BY <3>1, <2>3, m \in 0..m DEF e
    <3>2. CASE n # m + 1
      <4>1. n \in 0..m /\ (n # 0 => n - 1 \in 0..m)
        BY <3>2
      <4>2. f[n] = Rec(f, n)
        BY <2>2, <4>1
      <4> QED BY <4>1, <4>2, <2>3
    <3> QED BY <3>1, <3>2
  <2>6. Good(g, m + 1)
    BY <2>4, <2>5, Zenon
  <2>7. m + 1 \in Nat
    OBVIOUS
  <2> HIDE DEF Good, g
  <2> QED BY <2>6, <2>7
<1>3. Nat \subseteq T
  <2> HIDE DEF T
  <2> QED BY <1>1, <1>2, SetInduction
<1>4. \E f : Good(f, Len(s))
  BY <1>3, Len(s) \in Nat
<1> DEFINE h == CHOOSE f : Good(f, Len(s))
<1>5. Good(h, Len(s))
  BY <1>4
<1>6. Retain(s, S) = h[Len(s)]
  BY DEF Retain
<1>7. DOMAIN h = 0..Len(s) /\ \A n \in 0..Len(s) : h[n] = Rec(h, n)
  BY <1>5
<1> HIDE DEF h
<1>8. h[0] = << >> /\ \A n \in 1..Len(s) : n \in 0..Len(s) /\ n # 0
  BY <1>7, Len(s) \in Nat
<1> QED BY <1>6, <1>7, <1>8

LEMMA AppendFacts ==
  ASSUME NEW X, NEW s \in Seq(X), NEW x \in X
  PROVE  /\ Append(s, x) \in Seq(X)
         /\ Len(Append(s, x)) = Len(s) + 1
         /\ Elements(Append(s, x)) = Elements(s) \cup {x}
         /\ NoDuplicates(s) /\ x \notin Elements(s) => NoDuplicates(Append(s, x))
<1>1. /\ Append(s, x) \in Seq(X)
      /\ Len(Append(s, x)) = Len(s) + 1
      /\ Append(s, x)[Len(s) + 1] = x
      /\ \A i \in 1..Len(s) : Append(s, x)[i] = s[i]
  OBVIOUS
<1>2. 1..(Len(s) + 1) = 1..Len(s) \cup {Len(s) + 1}
  BY Len(s) \in Nat
<1> QED BY <1>1, <1>2 DEF Elements, NoDuplicates

\* Retain keeps exactly the members of S, each as often as it was there.
LEMMA RetainFacts ==
  ASSUME NEW X, NEW s \in Seq(X), NEW S
  PROVE  /\ Retain(s, S) \in Seq(X)
         /\ Len(Retain(s, S)) <= Len(s)
         /\ Elements(Retain(s, S)) = Elements(s) \cap S
         /\ NoDuplicates(s) => NoDuplicates(Retain(s, S))
<1>1. PICK f : /\ f[0] = << >>
               /\ \A n \in 1..Len(s) :
                     f[n] = IF s[n] \in S THEN Append(f[n - 1], s[n])
                                          ELSE f[n - 1]
               /\ Retain(s, S) = f[Len(s)]
  BY RetainStep
<1> DEFINE Upto(n) == {s[i] : i \in 1..n} \cap S
<1> DEFINE Good(n) == /\ f[n] \in Seq(X)
                      /\ Len(f[n]) <= n
                      /\ Elements(f[n]) = Upto(n)
                      /\ NoDuplicates(s) => NoDuplicates(f[n])
<1> DEFINE T == {n \in Nat : n <= Len(s) => Good(n)}
<1>0. Len(s) \in Nat /\ \A i \in 1..Len(s) : s[i] \in X
  OBVIOUS
<1>2. 0 \in T
  <2>1. f[0] \in Seq(X) /\ Len(f[0]) = 0 /\ 1..0 = {}
    BY <1>1
  <2>2. Elements(f[0]) = {} /\ NoDuplicates(f[0])
    BY <2>1 DEF Elements, NoDuplicates
  <2>3. Upto(0) = {}
    BY <2>1
  <2>4. Good(0)
    BY <2>1, <2>2, <2>3
  <2> QED BY <2>4
<1>3. ASSUME NEW n \in Nat, n \in T PROVE n + 1 \in T
  <2> SUFFICES ASSUME n + 1 <= Len(s) PROVE Good(n + 1)
    OBVIOUS
  <2>1. n <= Len(s) /\ n + 1 \in 1..Len(s) /\ (n + 1) - 1 = n
    BY <1>0
  <2>2. Good(n)
    BY <1>3, <2>1
  <2>3. f[n + 1] = IF s[n + 1] \in S THEN Append(f[n], s[n + 1]) ELSE f[n]
    BY <1>1, <2>1
  <2>4. 1..(n + 1) = 1..n \cup {n + 1}
    OBVIOUS
  <2>5. s[n + 1] \in X
    BY <1>0, <2>1
  <2>6. CASE s[n + 1] \in S
    <3>1. f[n + 1] = Append(f[n], s[n + 1])
      BY <2>3, <2>6
    <3>2. NoDuplicates(s) => s[n + 1] \notin Elements(f[n])
      BY <2>1, <2>2 DEF NoDuplicates
    <3>3. Upto(n + 1) = Upto(n) \cup {s[n + 1]}
      BY <2>4, <2>6
    <3>4. /\ f[n + 1] \in Seq(X)
          /\ Len(f[n + 1]) = Len(f[n]) + 1
          /\ Elements(f[n + 1]) = Elements(f[n]) \cup {s[n + 1]}
          /\ NoDuplicates(f[n]) /\ s[n + 1] \notin Elements(f[n])
                => NoDuplicates(f[n + 1])
      <4> DEFINE t == f[n]
      <4>1. t \in Seq(X)
        BY <2>2
      <4> HIDE DEF t
      <4>2. /\ Append(t, s[n + 1]) \in Seq(X)
            /\ Len(Append(t, s[n + 1])) = Len(t) + 1
            /\ Elements(Append(t, s[n + 1])) = Elements(t) \cup {s[n + 1]}
            /\ NoDuplicates(t) /\ s[n + 1] \notin Elements(t)
                  => NoDuplicates(Append(t, s[n + 1]))
        BY <4>1, <2>5, AppendFacts
      <4> QED BY <4>2, <3>1, Zenon DEF t
    <3>5. Len(f[n]) \in Nat /\ Len(f[n]) <= n
      BY <2>2
    <3>6. Len(f[n + 1]) <= n + 1
      BY <3>4, <3>5
    <3>7. Elements(f[n + 1]) = Upto(n + 1)
      BY <3>4, <3>3, <2>2, Zenon
    <3>8. NoDuplicates(s) => NoDuplicates(f[n + 1])
      BY <3>2, <3>4, <2>2, Zenon
    <3> QED BY <3>4, <3>6, <3>7, <3>8
  <2>7. CASE s[n + 1] \notin S
    <3>1. f[n + 1] = f[n]
      BY <2>3, <2>7
    <3>2. Upto(n + 1) = Upto(n)
      BY <2>4, <2>7
    <3>3. Len(f[n]) \in Nat /\ Len(f[n]) <= n
      BY <2>2
    <3>4. Elements(f[n + 1]) = Upto(n + 1) /\ Len(f[n + 1]) <= n + 1
      BY <3>1, <3>2, <3>3, <2>2
    <3> QED BY <3>1, <3>4, <2>2
  <2> QED BY <2>6, <2>7
<1>4. Nat \subseteq T
  <2> HIDE DEF T
  <2> QED BY <1>2, <1>3, SetInduction
<1>5. Good(Len(s))
  <2>1. Len(s) \in T
    <3> HIDE DEF T
    <3> QED BY <1>4, <1>0
  <2> QED BY <2>1, <1>0
<1> QED BY <1>5, <1>1 DEF Elements

\* Vec::retain with nothing to drop.
LEMMA RetainAll ==
  ASSUME NEW X, NEW s \in Seq(X), NEW S, Elements(s) \subseteq S
  PROVE  Retain(s, S) = s
<1>1. PICK f : /\ f[0] = << >>
               /\ \A n \in 1..Len(s) :
                     f[n] = IF s[n] \in S THEN Append(f[n - 1], s[n])
                                          ELSE f[n - 1]
               /\ Retain(s, S) = f[Len(s)]
  BY RetainStep
<1> DEFINE Same(n) == f[n] \in Seq(X) /\ Len(f[n]) = n /\ \A i \in 1..n : f[n][i] = s[i]
<1> DEFINE T == {n \in Nat : n <= Len(s) => Same(n)}
<1>2. Len(s) \in Nat /\ \A i \in 1..Len(s) : s[i] \in X /\ s[i] \in S
  BY DEF Elements
<1>3. 0 \in T
  <2>1. f[0] \in Seq(X) /\ Len(f[0]) = 0 /\ 1..0 = {}
    BY <1>1
  <2> QED BY <2>1
<1>4. ASSUME NEW n \in Nat, n \in T PROVE n + 1 \in T
  <2> SUFFICES ASSUME n + 1 <= Len(s) PROVE Same(n + 1)
    OBVIOUS
  <2>1. n <= Len(s) /\ n + 1 \in 1..Len(s) /\ (n + 1) - 1 = n
    BY <1>2
  <2>2. Same(n)
    BY <1>4, <2>1
  <2>3. f[n + 1] = Append(f[n], s[n + 1]) /\ s[n + 1] \in X
    BY <1>1, <1>2, <2>1
  <2> QED BY <2>2, <2>3
<1>5. Nat \subseteq T
  <2> HIDE DEF T
  <2> QED BY <1>3, <1>4, SetInduction
<1>6. Same(Len(s))
  <2>1. Len(s) \in T
    <3> HIDE DEF T
    <3> QED BY <1>5, <1>2
  <2> QED BY <2>1, <1>2
<1> QED BY <1>1, <1>6, SeqEqual

LEMMA PositionFacts ==
  ASSUME NEW X, NEW s \in Seq(X), NEW x \in Elements(s)
  PROVE  Position(s, x) \in 1..Len(s) /\ s[Position(s, x)] = x
BY DEF Position, Elements

\* Vec::remove: the elements after the removed one move up.
LEMMA RemoveAtFacts ==
  ASSUME NEW X, NEW s \in Seq(X), NEW i \in 1..Len(s)
  PROVE  /\ RemoveAt(s, i) \in Seq(X)
         /\ Len(RemoveAt(s, i)) = Len(s) - 1
         /\ \A j \in 1..(Len(s) - 1) :
              RemoveAt(s, i)[j] = IF j < i THEN s[j] ELSE s[j + 1]
         /\ NoDuplicates(s) =>
              /\ NoDuplicates(RemoveAt(s, i))
              /\ Elements(RemoveAt(s, i)) = Elements(s) \ {s[i]}
<1> DEFINE n == Len(s)
<1> DEFINE a == SubSeq(s, 1, i - 1)
<1> DEFINE b == SubSeq(s, i + 1, n)
<1> DEFINE r == RemoveAt(s, i)
<1>0. n \in Nat /\ i \in Int /\ i - 1 \in Int /\ i + 1 \in Int /\ \A j \in 1..n : s[j] \in X
  OBVIOUS
<1>1. a \in Seq(X) /\ Len(a) = i - 1 /\ \A j \in 1..(i - 1) : a[j] = s[j]
  <2>1. \A j \in 1..(i - 1) : s[j] \in X
    BY <1>0
  <2>2. /\ a \in Seq(X) /\ Len(a) = IF 1 <= i - 1 THEN (i - 1) - 1 + 1 ELSE 0
        /\ \A j \in 1..((i - 1) - 1 + 1) : a[j] = s[1 + j - 1]
    BY <1>0, <2>1, SubSeqProperties
  <2> QED BY <2>2, <1>0
<1>2. b \in Seq(X) /\ Len(b) = n - i /\ \A j \in 1..(n - i) : b[j] = s[i + j]
  <2>1. \A j \in (i + 1)..n : s[j] \in X
    BY <1>0
  <2>2. /\ b \in Seq(X) /\ Len(b) = IF i + 1 <= n THEN n - (i + 1) + 1 ELSE 0
        /\ \A j \in 1..(n - (i + 1) + 1) : b[j] = s[(i + 1) + j - 1]
    BY <1>0, <2>1, SubSeqProperties
  <2> QED BY <2>2, <1>0
<1>3. r = a \o b
  BY DEF RemoveAt
<1> HIDE DEF a, b, r
<1>4. /\ r \in Seq(X) /\ Len(r) = Len(a) + Len(b)
      /\ \A j \in 1..(Len(a) + Len(b)) :
           r[j] = IF j <= Len(a) THEN a[j] ELSE b[j - Len(a)]
  <2>1. /\ a \o b \in Seq(X) /\ Len(a \o b) = Len(a) + Len(b)
        /\ \A j \in 1..(Len(a) + Len(b)) :
             (a \o b)[j] = IF j <= Len(a) THEN a[j] ELSE b[j - Len(a)]
    BY <1>1, <1>2, ConcatProperties, Zenon
  <2> QED BY <2>1, <1>3, Zenon
<1>5. Len(r) = n - 1 /\ \A j \in 1..(n - 1) : r[j] = IF j < i THEN s[j] ELSE s[j + 1]
  <2>1. Len(r) = n - 1
    BY <1>0, <1>1, <1>2, <1>4
  <2>2. ASSUME NEW j \in 1..(n - 1) PROVE r[j] = IF j < i THEN s[j] ELSE s[j + 1]
    <3>0. j \in 1..(Len(a) + Len(b)) /\ r[j] = IF j <= i - 1 THEN a[j] ELSE b[j - (i - 1)]
      <4>1. Len(a) + Len(b) = n - 1 /\ Len(a) = i - 1
        BY <1>0, <1>1, <1>2
      <4> QED BY <4>1, <1>4
    <3>1. CASE j < i
      <4>1. j <= i - 1 /\ j \in 1..(i - 1)
        BY <3>1, <1>0
      <4> QED BY <4>1, <3>1, <3>0, <1>1
    <3>2. CASE ~(j < i)
      <4>1. r[j] = b[j - (i - 1)] /\ j - (i - 1) \in 1..(n - i)
        BY <3>2, <3>0, <1>0
      <4>2. b[j - (i - 1)] = s[i + (j - (i - 1))] /\ i + (j - (i - 1)) = j + 1
        BY <4>1, <1>2, <1>0
      <4> QED BY <4>1, <4>2, <3>2
    <3> QED BY <3>1, <3>2
  <2> QED BY <2>1, <2>2
<1>6. ASSUME NoDuplicates(s) PROVE NoDuplicates(r) /\ Elements(r) = Elements(s) \ {s[i]}
  <2>1. NoDuplicates(r)
    <3> SUFFICES ASSUME NEW j \in 1..(n - 1), NEW k \in 1..(n - 1), r[j] = r[k]
                 PROVE  j = k
      BY <1>5 DEF NoDuplicates
    <3> QED BY <1>0, <1>5, <1>6 DEF NoDuplicates
  <2>2. ASSUME NEW j \in 1..(n - 1) PROVE r[j] \in Elements(s) \ {s[i]}
    BY <1>0, <1>5, <1>6 DEF NoDuplicates, Elements
  <2>3. ASSUME NEW k \in 1..n, s[k] # s[i] PROVE \E j \in 1..(n - 1) : r[j] = s[k]
    <3>1. CASE k < i
      <4>1. k \in 1..(n - 1)
        BY <3>1, <1>0
      <4> QED BY <4>1, <3>1, <1>5
    <3>2. CASE k > i
      <4>1. k - 1 \in 1..(n - 1) /\ ~(k - 1 < i) /\ (k - 1) + 1 = k
        BY <3>2, <1>0
      <4> QED BY <4>1, <1>5
    <3> QED BY <3>1, <3>2, <2>3, <1>0
  <2>4. Elements(r) \subseteq Elements(s) \ {s[i]}
    BY <2>2, <1>5 DEF Elements
  <2>5. Elements(s) \ {s[i]} \subseteq Elements(r)
    BY <2>3, <1>5 DEF Elements
  <2> QED BY <2>1, <2>4, <2>5
<1> QED BY <1>4, <1>5, <1>6 DEF r

\* Vec::insert: the elements from i on move down.
LEMMA InsertAtFacts ==
  ASSUME NEW X, NEW s \in Seq(X), NEW i \in 1..(Len(s) + 1), NEW x \in X
  PROVE  /\ InsertAt(s, i, x) \in Seq(X)
         /\ Len(InsertAt(s, i, x)) = Len(s) + 1
         /\ Elements(InsertAt(s, i, x)) = Elements(s) \cup {x}
         /\ NoDuplicates(s) /\ x \notin Elements(s) => NoDuplicates(InsertAt(s, i, x))
<1> DEFINE n == Len(s)
<1> DEFINE a == SubSeq(s, 1, i - 1)
<1> DEFINE b == SubSeq(s, i, n)
<1> DEFINE c == <<x>>
<1> DEFINE ac == a \o c
<1> DEFINE r == InsertAt(s, i, x)
<1>0. n \in Nat /\ i \in Int /\ i - 1 \in Int /\ \A j \in 1..n : s[j] \in X
  OBVIOUS
<1>1. a \in Seq(X) /\ Len(a) = i - 1 /\ \A j \in 1..(i - 1) : a[j] = s[j]
  <2>1. \A j \in 1..(i - 1) : s[j] \in X
    BY <1>0
  <2>2. /\ a \in Seq(X) /\ Len(a) = IF 1 <= i - 1 THEN (i - 1) - 1 + 1 ELSE 0
        /\ \A j \in 1..((i - 1) - 1 + 1) : a[j] = s[1 + j - 1]
    BY <1>0, <2>1, SubSeqProperties
  <2> QED BY <2>2, <1>0
<1>2. b \in Seq(X) /\ Len(b) = n + 1 - i /\ \A j \in 1..(n + 1 - i) : b[j] = s[i + j - 1]
  <2>1. \A j \in i..n : s[j] \in X
    BY <1>0
  <2>2. /\ b \in Seq(X) /\ Len(b) = IF i <= n THEN n - i + 1 ELSE 0
        /\ \A j \in 1..(n - i + 1) : b[j] = s[i + j - 1]
    BY <1>0, <2>1, SubSeqProperties
  <2> QED BY <2>2, <1>0
<1>c. c \in Seq(X) /\ Len(c) = 1 /\ c[1] = x
  OBVIOUS
<1>3. r = ac \o b
  BY DEF InsertAt
<1> HIDE DEF a, b, c
<1>4. /\ ac \in Seq(X) /\ Len(ac) = Len(a) + Len(c)
      /\ \A j \in 1..(Len(a) + Len(c)) :
           ac[j] = IF j <= Len(a) THEN a[j] ELSE c[j - Len(a)]
  BY <1>1, <1>c, ConcatProperties
<1> HIDE DEF ac, r
<1>5. /\ r \in Seq(X) /\ Len(r) = Len(ac) + Len(b)
      /\ \A j \in 1..(Len(ac) + Len(b)) :
           r[j] = IF j <= Len(ac) THEN ac[j] ELSE b[j - Len(ac)]
  <2>1. /\ ac \o b \in Seq(X) /\ Len(ac \o b) = Len(ac) + Len(b)
        /\ \A j \in 1..(Len(ac) + Len(b)) :
             (ac \o b)[j] = IF j <= Len(ac) THEN ac[j] ELSE b[j - Len(ac)]
    <3>1. ac \in Seq(X) /\ b \in Seq(X)
      BY <1>4, <1>2
    <3> QED BY <3>1, ConcatProperties, Zenon
  <2> QED BY <2>1, <1>3, Zenon
<1>6. Len(r) = n + 1
  <2>1. Len(a) = i - 1 /\ Len(b) = n + 1 - i /\ Len(c) = 1
    BY <1>1, <1>2, <1>c
  <2>2. Len(r) = Len(a) + Len(c) + Len(b)
    BY <1>4, <1>5
  <2>3. i - 1 + 1 + (n + 1 - i) = n + 1
    BY <1>0
  <2> QED BY <2>1, <2>2, <2>3
<1>7. ASSUME NEW j \in 1..(n + 1)
      PROVE  r[j] = IF j < i THEN s[j] ELSE IF j = i THEN x ELSE s[j - 1]
  <2>1. CASE j < i
    <3>1. j \in 1..(i - 1) /\ j \in 1..(Len(a) + Len(c)) /\ j <= Len(a) /\ Len(ac) = i
      BY <2>1, <1>0, <1>1, <1>c, <1>4
    <3>2. ac[j] = a[j] /\ a[j] = s[j]
      BY <3>1, <1>1, <1>4
    <3>3. j \in 1..(Len(ac) + Len(b)) /\ j <= Len(ac)
      BY <3>1, <1>0, <1>2, <2>1
    <3>4. r[j] = ac[j]
      BY <3>3, <1>5
    <3> QED BY <2>1, <3>2, <3>4
  <2>2. CASE j = i
    <3>1. /\ j \in 1..(Len(a) + Len(c)) /\ ~(j <= Len(a)) /\ Len(ac) = i
          /\ j - Len(a) = 1
      BY <2>2, <1>0, <1>1, <1>c, <1>4
    <3>2. ac[j] = c[1]
      BY <3>1, <1>4
    <3>3. j \in 1..(Len(ac) + Len(b)) /\ j <= Len(ac)
      BY <3>1, <1>0, <1>2, <2>2
    <3>4. r[j] = ac[j]
      BY <3>3, <1>5
    <3>5. ~(j < i) /\ c[1] = x
      BY <2>2, <1>0, <1>c
    <3> QED BY <2>2, <3>2, <3>4, <3>5
  <2>3. CASE j > i
    <3>1. r[j] = b[j - i] /\ j - i \in 1..(n + 1 - i)
      BY <2>3, <1>0, <1>1, <1>2, <1>c, <1>4, <1>5
    <3>2. b[j - i] = s[i + (j - i) - 1] /\ i + (j - i) - 1 = j - 1
      BY <3>1, <1>0, <1>2
    <3> QED BY <3>1, <3>2, <2>3
  <2> QED BY <2>1, <2>2, <2>3
<1>8. Elements(r) = Elements(s) \cup {x}
  <2>1. ASSUME NEW j \in 1..(n + 1) PROVE r[j] \in Elements(s) \cup {x}
    BY <1>0, <1>7 DEF Elements
  <2>2. ASSUME NEW k \in 1..n PROVE \E j \in 1..(n + 1) : r[j] = s[k]
    <3>1. CASE k < i
      <4>1. k \in 1..(n + 1)
        BY <1>0
      <4> QED BY <4>1, <3>1, <1>7
    <3>2. CASE ~(k < i)
      <4>1. k + 1 \in 1..(n + 1) /\ ~(k + 1 < i) /\ k + 1 # i /\ (k + 1) - 1 = k
        BY <3>2, <1>0
      <4> QED BY <4>1, <1>7
    <3> QED BY <3>1, <3>2
  <2>3. r[i] = x
    BY <1>7, <1>0
  <2> QED BY <2>1, <2>2, <2>3, <1>0, <1>6, SMTT(60) DEF Elements
<1>9. ASSUME NoDuplicates(s), x \notin Elements(s) PROVE NoDuplicates(r)
  <2> SUFFICES ASSUME NEW j \in 1..(n + 1), NEW k \in 1..(n + 1), r[j] = r[k]
               PROVE  j = k
    BY <1>6 DEF NoDuplicates
  <2> QED BY <1>0, <1>7, <1>9 DEF NoDuplicates, Elements
<1> QED BY <1>5, <1>6, <1>8, <1>9 DEF r

\* Vec::extend, of what is not there yet.
LEMMA ConcatFacts ==
  ASSUME NEW X, NEW s \in Seq(X), NEW t \in Seq(X)
  PROVE  /\ s \o t \in Seq(X)
         /\ Len(s \o t) = Len(s) + Len(t)
         /\ Elements(s \o t) = Elements(s) \cup Elements(t)
         /\ NoDuplicates(s) /\ NoDuplicates(t) /\ Elements(s) \cap Elements(t) = {}
              => NoDuplicates(s \o t)
<1> DEFINE r == s \o t
<1>1. /\ r \in Seq(X) /\ Len(r) = Len(s) + Len(t)
      /\ \A i \in 1..(Len(s) + Len(t)) : r[i] = IF i <= Len(s) THEN s[i] ELSE t[i - Len(s)]
  BY ConcatProperties
<1> HIDE DEF r
<1>2. Len(s) \in Nat /\ Len(t) \in Nat
  OBVIOUS
<1>3. Elements(r) = Elements(s) \cup Elements(t)
  <2>1. ASSUME NEW i \in 1..Len(r) PROVE r[i] \in Elements(s) \cup Elements(t)
    <3>1. CASE i <= Len(s)
      BY <3>1, <1>1, <1>2 DEF Elements
    <3>2. CASE ~(i <= Len(s))
      <4>1. i - Len(s) \in 1..Len(t) /\ r[i] = t[i - Len(s)]
        BY <3>2, <1>1, <1>2
      <4> QED BY <4>1 DEF Elements
    <3> QED BY <3>1, <3>2
  <2>2. ASSUME NEW i \in 1..Len(s) PROVE i \in 1..Len(r) /\ r[i] = s[i]
    BY <1>1, <1>2
  <2>3. ASSUME NEW i \in 1..Len(t) PROVE i + Len(s) \in 1..Len(r) /\ r[i + Len(s)] = t[i]
    <3>1. i + Len(s) \in 1..Len(r) /\ ~(i + Len(s) <= Len(s)) /\ (i + Len(s)) - Len(s) = i
      BY <1>1, <1>2
    <3> QED BY <3>1, <1>1
  <2>4. Elements(r) \subseteq Elements(s) \cup Elements(t)
    BY <2>1 DEF Elements
  <2>5. Elements(s) \subseteq Elements(r) /\ Elements(t) \subseteq Elements(r)
    BY <2>2, <2>3 DEF Elements
  <2> QED BY <2>4, <2>5
<1>4. ASSUME NoDuplicates(s), NoDuplicates(t), Elements(s) \cap Elements(t) = {}
      PROVE  NoDuplicates(r)
  <2> SUFFICES ASSUME NEW i \in 1..Len(r), NEW j \in 1..Len(r), r[i] = r[j], i < j
               PROVE  FALSE
    <3>1. \A i, j \in 1..Len(r) : i < j \/ i = j \/ j < i
      BY <1>1, <1>2
    <3> QED BY <3>1 DEF NoDuplicates
  <2>1. CASE j <= Len(s)
    BY <2>1, <1>1, <1>2, <1>4 DEF NoDuplicates
  <2>2. CASE i <= Len(s) /\ ~(j <= Len(s))
    <3>1. r[i] = s[i] /\ i \in 1..Len(s) /\ r[j] = t[j - Len(s)] /\ j - Len(s) \in 1..Len(t)
      BY <2>2, <1>1, <1>2
    <3> QED BY <3>1, <1>4 DEF Elements
  <2>3. CASE ~(i <= Len(s))
    <3>1. /\ r[i] = t[i - Len(s)] /\ i - Len(s) \in 1..Len(t)
          /\ r[j] = t[j - Len(s)] /\ j - Len(s) \in 1..Len(t)
          /\ i - Len(s) # j - Len(s)
      BY <2>3, <1>1, <1>2
    <3> QED BY <3>1, <1>4 DEF NoDuplicates
  <2> QED BY <2>1, <2>2, <2>3, <1>1, <1>2
<1> QED BY <1>1, <1>3, <1>4 DEF r

\* Vec::truncate and Iterator::take.
LEMMA TakeFacts ==
  ASSUME NEW X, NEW s \in Seq(X), NEW n \in Nat
  PROVE  /\ Take(s, n) \in Seq(X)
         /\ Len(Take(s, n)) = IF n < Len(s) THEN n ELSE Len(s)
         /\ \A i \in 1..Len(Take(s, n)) : Take(s, n)[i] = s[i]
         /\ Elements(Take(s, n)) \subseteq Elements(s)
         /\ Len(s) <= n => Elements(Take(s, n)) = Elements(s)
         /\ NoDuplicates(s) => NoDuplicates(Take(s, n))
<1> DEFINE m == IF n < Len(s) THEN n ELSE Len(s)
<1> DEFINE r == Take(s, n)
<1>0. m \in Nat /\ m <= Len(s) /\ Len(s) \in Nat /\ \A i \in 1..Len(s) : s[i] \in X
  OBVIOUS
<1>1. r = SubSeq(s, 1, m)
  BY DEF Take
<1>2. Len(s) <= n => m = Len(s)
  BY <1>0
<1>m. m = IF n < Len(s) THEN n ELSE Len(s)
  OBVIOUS
<1> HIDE DEF m
<1>3. /\ r \in Seq(X) /\ Len(r) = m /\ \A i \in 1..m : r[i] = s[i]
  <2>1. \A i \in 1..m : s[i] \in X
    BY <1>0
  <2>2. /\ r \in Seq(X) /\ Len(r) = IF 1 <= m THEN m - 1 + 1 ELSE 0
        /\ \A i \in 1..(m - 1 + 1) : r[i] = s[1 + i - 1]
    BY <1>0, <1>1, <2>1, SubSeqProperties, m \in Int
  <2> QED BY <2>2, <1>0
<1> HIDE DEF r
<1>4. Elements(r) \subseteq Elements(s) /\ (m = Len(s) => Elements(r) = Elements(s))
  BY <1>0, <1>3 DEF Elements
<1>5. NoDuplicates(s) => NoDuplicates(r)
  BY <1>0, <1>3 DEF NoDuplicates
<1> QED BY <1>m, <1>2, <1>3, <1>4, <1>5 DEF r

\* slot.tiled[i] = x, for an x that is not there.
LEMMA ReplaceFacts ==
  ASSUME NEW X, NEW s \in Seq(X), NEW i \in 1..Len(s), NEW x \in X
  PROVE  LET r == [s EXCEPT ![i] = x] IN
         /\ r \in Seq(X) /\ Len(r) = Len(s)
         /\ Elements(r) \subseteq Elements(s) \cup {x}
         /\ NoDuplicates(s) => Elements(r) = (Elements(s) \ {s[i]}) \cup {x} \/ x \in Elements(s)
         /\ NoDuplicates(s) /\ x \notin Elements(s) => NoDuplicates(r)
<1> DEFINE r == [s EXCEPT ![i] = x]
<1>1. /\ r \in Seq(X) /\ Len(r) = Len(s)
      /\ \A j \in 1..Len(s) : r[j] = IF j = i THEN x ELSE s[j]
  BY ExceptSeq
<1> HIDE DEF r
<1>2. Elements(r) \subseteq Elements(s) \cup {x}
  BY <1>1 DEF Elements
<1>3. ASSUME NoDuplicates(s), x \notin Elements(s)
      PROVE  Elements(r) = (Elements(s) \ {s[i]}) \cup {x} /\ NoDuplicates(r)
  BY <1>1, <1>3 DEF Elements, NoDuplicates
<1> QED BY <1>1, <1>2, <1>3 DEF r
----------------------------------------------------------------------------
(* What keeps its place                                                    *)

\* Without duplicates, an element is found where it stands.
LEMMA PositionOf ==
  ASSUME NEW s, NoDuplicates(s), NEW i \in 1..Len(s)
  PROVE  Position(s, s[i]) = i
BY DEF Position, NoDuplicates

\* Growing a Vec at its end moves nothing that is on it.
LEMMA PrefixKeepsPlace ==
  ASSUME NEW X, NEW s \in Seq(X), NEW r \in Seq(X), NoDuplicates(r), Len(s) <= Len(r),
         \A i \in 1..Len(s) : r[i] = s[i], NEW x \in Elements(s)
  PROVE  Position(r, x) = Position(s, x)
<1>1. Position(s, x) \in 1..Len(s) /\ s[Position(s, x)] = x
  BY PositionFacts
<1>2. Position(s, x) \in 1..Len(r) /\ r[Position(s, x)] = x
  BY <1>1
<1> QED BY <1>2, PositionOf

\* Vec::retain keeps the order of what stays.
LEMMA RetainKeepsOrder ==
  ASSUME NEW X, NEW s \in Seq(X), NoDuplicates(s), NEW S,
         NEW a \in Elements(s) \cap S, NEW b \in Elements(s) \cap S,
         Position(s, a) < Position(s, b)
  PROVE  Position(Retain(s, S), a) < Position(Retain(s, S), b)
<1>1. PICK f : /\ f[0] = << >>
               /\ \A n \in 1..Len(s) :
                     f[n] = IF s[n] \in S THEN Append(f[n - 1], s[n])
                                          ELSE f[n - 1]
               /\ Retain(s, S) = f[Len(s)]
  BY RetainStep
<1> DEFINE Kept(n) ==
      /\ f[n] \in Seq(X)
      /\ \A j \in 1..n : s[j] \in S => \E l \in 1..Len(f[n]) : f[n][l] = s[j]
      /\ \A i, j \in 1..n : i < j /\ s[i] \in S /\ s[j] \in S =>
           \E k, l \in 1..Len(f[n]) : k < l /\ f[n][k] = s[i] /\ f[n][l] = s[j]
<1> DEFINE T == {n \in Nat : n <= Len(s) => Kept(n)}
<1>2. Len(s) \in Nat /\ \A i \in 1..Len(s) : s[i] \in X
  OBVIOUS
<1>3. 0 \in T
  <2>1. f[0] \in Seq(X) /\ 1..0 = {}
    BY <1>1
  <2> QED BY <2>1
<1>4. ASSUME NEW n \in Nat, n \in T PROVE n + 1 \in T
  <2> SUFFICES ASSUME n + 1 <= Len(s) PROVE Kept(n + 1)
    OBVIOUS
  <2>1. n <= Len(s) /\ n + 1 \in 1..Len(s) /\ (n + 1) - 1 = n /\ 1..(n + 1) = 1..n \cup {n + 1}
    BY <1>2
  <2>2. Kept(n)
    BY <1>4, <2>1
  <2>3. CASE s[n + 1] \notin S
    <3>1. f[n + 1] = f[n]
      BY <1>1, <2>1, <2>3
    <3> QED BY <2>1, <2>2, <2>3, <3>1
  <2>4. CASE s[n + 1] \in S
    <3> DEFINE g == f[n]
    <3> DEFINE h == f[n + 1]
    <3>1. g \in Seq(X) /\ s[n + 1] \in X /\ h = Append(g, s[n + 1])
      BY <1>1, <1>2, <2>1, <2>2, <2>4
    <3>2. /\ h \in Seq(X) /\ Len(h) = Len(g) + 1 /\ h[Len(g) + 1] = s[n + 1]
          /\ \A i \in 1..Len(g) : h[i] = g[i]
      BY <3>1
    <3>3. Len(g) \in Nat /\ 1..Len(h) = 1..Len(g) \cup {Len(g) + 1}
      BY <3>1, <3>2
    <3>4. \A j \in 1..n : s[j] \in S => \E l \in 1..Len(g) : g[l] = s[j]
      BY <2>2
    <3>5. \A i, j \in 1..n : i < j /\ s[i] \in S /\ s[j] \in S =>
            \E k, l \in 1..Len(g) : k < l /\ g[k] = s[i] /\ g[l] = s[j]
      BY <2>2
    <3> HIDE DEF g, h
    <3>6. ASSUME NEW j \in 1..(n + 1), s[j] \in S
          PROVE  \E l \in 1..Len(h) : h[l] = s[j]
      <4>1. CASE j \in 1..n
        <5>1. PICK l \in 1..Len(g) : g[l] = s[j]
          BY <3>4, <3>6, <4>1
        <5> QED BY <3>2, <3>3, <5>1
      <4>2. CASE j = n + 1
        BY <3>2, <3>3, <4>2
      <4> QED BY <2>1, <4>1, <4>2
    <3>7. ASSUME NEW i \in 1..(n + 1), NEW j \in 1..(n + 1), i < j, s[i] \in S, s[j] \in S
          PROVE  \E k, l \in 1..Len(h) : k < l /\ h[k] = s[i] /\ h[l] = s[j]
      <4>1. i \in 1..n
        BY <3>7
      <4>2. CASE j \in 1..n
        <5>1. PICK k \in 1..Len(g), l \in 1..Len(g) : k < l /\ g[k] = s[i] /\ g[l] = s[j]
          BY <3>5, <3>7, <4>1, <4>2
        <5> QED BY <3>2, <3>3, <5>1
      <4>3. CASE j = n + 1
        <5>1. PICK k \in 1..Len(g) : g[k] = s[i]
          BY <3>4, <3>7, <4>1
        <5>2. k < Len(g) + 1 /\ h[k] = s[i] /\ h[Len(g) + 1] = s[j]
          BY <3>2, <3>3, <4>3, <5>1
        <5> QED BY <3>3, <5>1, <5>2
      <4> QED BY <2>1, <4>2, <4>3
    <3> QED BY <3>2, <3>6, <3>7 DEF h
  <2> QED BY <2>3, <2>4
<1>5. Nat \subseteq T
  <2> HIDE DEF T
  <2> QED BY <1>3, <1>4, SetInduction
<1>6. Kept(Len(s))
  <2>1. Len(s) \in T
    <3> HIDE DEF T
    <3> QED BY <1>5, <1>2
  <2> QED BY <2>1, <1>2
<1> DEFINE r == Retain(s, S)
<1>7. /\ Position(s, a) \in 1..Len(s) /\ s[Position(s, a)] = a
      /\ Position(s, b) \in 1..Len(s) /\ s[Position(s, b)] = b
  BY PositionFacts
<1>8. r \in Seq(X) /\ NoDuplicates(r)
  BY RetainFacts
<1>9. PICK k \in 1..Len(r), l \in 1..Len(r) : k < l /\ r[k] = a /\ r[l] = b
  <2> DEFINE i == Position(s, a)
  <2> DEFINE j == Position(s, b)
  <2>1. i \in 1..Len(s) /\ j \in 1..Len(s) /\ i < j /\ s[i] \in S /\ s[j] \in S
    BY <1>7
  <2>2. \A p, q \in 1..Len(s) : p < q /\ s[p] \in S /\ s[q] \in S =>
          \E k, l \in 1..Len(r) : k < l /\ r[k] = s[p] /\ r[l] = s[q]
    BY <1>1, <1>6
  <2> HIDE DEF r, i, j
  <2>3. \E k, l \in 1..Len(r) : k < l /\ r[k] = s[i] /\ r[l] = s[j]
    BY <2>1, <2>2
  <2> QED BY <1>7, <2>3 DEF i, j
<1> HIDE DEF r
<1>10. Position(r, a) = k /\ Position(r, b) = l
  BY <1>8, <1>9, PositionOf
<1> QED BY <1>9, <1>10 DEF r

\* Two Vecs that begin alike are alike when cut there.
LEMMA TakeSame ==
  ASSUME NEW X, NEW s \in Seq(X), NEW t \in Seq(X), NEW n \in Nat,
         n <= Len(s), n <= Len(t), \A i \in 1..n : s[i] = t[i]
  PROVE  Take(s, n) = Take(t, n)
<1>1. /\ Take(s, n) \in Seq(X) /\ Len(Take(s, n)) = IF n < Len(s) THEN n ELSE Len(s)
      /\ \A i \in 1..Len(Take(s, n)) : Take(s, n)[i] = s[i]
  BY TakeFacts
<1>2. /\ Take(t, n) \in Seq(X) /\ Len(Take(t, n)) = IF n < Len(t) THEN n ELSE Len(t)
      /\ \A i \in 1..Len(Take(t, n)) : Take(t, n)[i] = t[i]
  BY TakeFacts
<1>3. Len(Take(s, n)) = n /\ Len(Take(t, n)) = n
  BY <1>1, <1>2
<1> QED BY <1>1, <1>2, <1>3, SeqEqual

----------------------------------------------------------------------------
(* The card strip                                                          *)

StripOK(s) == s \in Strips /\ HandlesDistinct(s)

LEMMA ActiveMoves ==
  ASSUME NEW s, StripOK(s), NEW a \in Nat
  PROVE  /\ StripOK([s EXCEPT !.active = a])
         /\ [s EXCEPT !.active = a].tabs = s.tabs /\ [s EXCEPT !.active = a].active = a
<1> DEFINE n == [s EXCEPT !.active = a]
<1>1. n \in Strips /\ n.tabs = s.tabs /\ n.next_id = s.next_id /\ n.active = a
  BY DEF StripOK, Strips
<1> QED BY <1>1 DEF StripOK, HandlesDistinct

LEMMA SlideKeeps ==
  ASSUME NEW s, StripOK(s), NEW forward \in BOOLEAN, CanSlide(s, forward)
  PROVE  StripOK(Slide(s, forward)) /\ Slide(s, forward).tabs = s.tabs
<1> DEFINE a == IF forward THEN s.active + 1 ELSE s.active - 1
<1>1. s \in Strips /\ s.active \in Nat /\ a \in Nat
  BY DEF StripOK, Strips, CanSlide
<1>2. Slide(s, forward) = [s EXCEPT !.active = a]
  BY <1>1 DEF Slide
<1> HIDE DEF a
<1> QED BY <1>1, <1>2, ActiveMoves

LEMMA SetActiveKeeps ==
  ASSUME NEW s, StripOK(s), NEW id \in Elements(s.tabs)
  PROVE  /\ StripOK(SetActive(s, id)) /\ SetActive(s, id).tabs = s.tabs
         /\ ActiveTab(SetActive(s, id)) = id
<1> DEFINE a == Position(s.tabs, id) - 1
<1>1. s.tabs \in Seq(Nat)
  BY DEF StripOK, Strips
<1>2. Position(s.tabs, id) \in 1..Len(s.tabs) /\ s.tabs[Position(s.tabs, id)] = id
  BY <1>1, PositionFacts
<1>3. a \in Nat /\ a < Len(s.tabs) /\ s.tabs[a + 1] = id
  BY <1>1, <1>2
<1>4. SetActive(s, id) = [s EXCEPT !.active = a]
  BY DEF SetActive, IndexOf
<1> HIDE DEF a
<1> QED BY <1>3, <1>4, ActiveMoves DEF ActiveTab

LEMMA AddKeeps ==
  ASSUME NEW s, StripOK(s)
  PROVE  /\ StripOK(Add(s))
         /\ Elements(Add(s).tabs) = Elements(s.tabs) \cup {s.next_id}
         /\ Add(s).active = s.active
<1> DEFINE t == s.tabs
<1> DEFINE u == Append(t, s.next_id)
<1>1. /\ t \in Seq(Nat) /\ s.active \in Nat /\ s.next_id \in Nat
      /\ s.pinned \in Nat \cup {NoTab} /\ s \in Strips
  BY DEF StripOK, Strips
<1>2. Add(s) = [tabs |-> u, active |-> s.active, pinned |-> s.pinned, next_id |-> s.next_id + 1]
  <2> SUFFICES ASSUME NEW n, n = Add(s)
               PROVE  n = [tabs |-> u, active |-> s.active, pinned |-> s.pinned,
                           next_id |-> s.next_id + 1]
    OBVIOUS
  <2> QED BY <1>1 DEF Add, Strips
<1>3. NoDuplicates(t) /\ \A id \in Elements(t) : id < s.next_id
  BY DEF StripOK, HandlesDistinct
<1>4. s.next_id \notin Elements(t)
  BY <1>1, <1>3
<1>5. u \in Seq(Nat) /\ Elements(u) = Elements(t) \cup {s.next_id} /\ NoDuplicates(u)
  BY <1>1, <1>3, <1>4, AppendFacts
<1> HIDE DEF u
<1>6. Add(s) \in Strips /\ Add(s).tabs = u /\ Add(s).next_id = s.next_id + 1
      /\ Add(s).active = s.active
  BY <1>1, <1>2, <1>5 DEF Strips
<1>7. \A id \in Elements(u) : id < s.next_id + 1
  <2>1. Elements(t) \subseteq Nat
    BY <1>1 DEF Elements
  <2> TAKE id \in Elements(u)
  <2>2. id \in Nat /\ (id < s.next_id \/ id = s.next_id)
    BY <1>1, <1>3, <1>5, <2>1, Zenon
  <2> QED BY <2>2, <1>1
<1> QED BY <1>5, <1>6, <1>7 DEF StripOK, HandlesDistinct

----------------------------------------------------------------------------
(* The window model                                                        *)

GoodSlot(s) == s \in Slots /\ TilesOK(s) /\ NoHole(s)

Good(m) == ModelTypeOK(m) /\ SlotsOK(m) /\ BarsOK(m) /\ HandlesOK(m)

USE NoWindowAssumption

----------------------------------------------------------------------------
(* One output                                                              *)

LEMMA NewSlotGood == NewSlot \in Slots /\ TilesOK(NewSlot) /\ NoHole(NewSlot)
BY DEF NewSlot, Slots, TilesOK, NoHole, NoDuplicates, Elements

LEMMA SlotWithTiles ==
  ASSUME NEW s \in Slots, NEW t
  PROVE  [s EXCEPT !.tiled = t] = [order |-> s.order, tiled |-> t, capacity |-> s.capacity]
BY DEF Slots

LEMMA SlotWithCapacity ==
  ASSUME NEW s \in Slots, NEW t \in Seq(Nat), NEW c \in Nat
  PROVE  [s EXCEPT !.capacity = c, !.tiled = t] = [order |-> s.order, tiled |-> t, capacity |-> c]
<1> DEFINE r == [s EXCEPT !.capacity = c, !.tiled = t]
<1>1. r \in Slots /\ r.order = s.order /\ r.tiled = t /\ r.capacity = c
  BY DEF Slots
<1> HIDE DEF r
<1>2. r = [order |-> r.order, tiled |-> r.tiled, capacity |-> r.capacity]
  BY <1>1 DEF Slots
<1> QED BY <1>1, <1>2, Zenon DEF r

LEMMA SlotWithBar ==
  ASSUME NEW s \in Slots, NEW b \in Seq(Nat), NEW t \in Seq(Nat)
  PROVE  [s EXCEPT !.order = b, !.tiled = t] = [order |-> b, tiled |-> t, capacity |-> s.capacity]
<1> DEFINE r == [s EXCEPT !.order = b, !.tiled = t]
<1>1. r \in Slots /\ r.order = b /\ r.tiled = t /\ r.capacity = s.capacity
  BY DEF Slots
<1> HIDE DEF r
<1>2. r = [order |-> r.order, tiled |-> r.tiled, capacity |-> r.capacity]
  BY <1>1 DEF Slots
<1> QED BY <1>1, <1>2, Zenon DEF r

\* The queue of the bar: what is on it and not on a tile.
LEMMA WaitingFacts ==
  ASSUME NEW s \in Slots, NoDuplicates(s.order)
  PROVE  /\ WaitingOf(s) \in Seq(Nat)
         /\ Elements(WaitingOf(s)) = Elements(s.order) \ Elements(s.tiled)
         /\ NoDuplicates(WaitingOf(s))
<1> DEFINE rest == Elements(s.order) \ Elements(s.tiled)
<1>1. s.order \in Seq(Nat)
  BY DEF Slots
<1>2. /\ Retain(s.order, rest) \in Seq(Nat)
      /\ Elements(Retain(s.order, rest)) = Elements(s.order) \cap rest
      /\ NoDuplicates(Retain(s.order, rest))
  BY <1>1, RetainFacts
<1> QED BY <1>2 DEF WaitingOf

\* fill_free_tiles leaves no hole, keeps the tiles that are held and the bar.
LEMMA FillFacts ==
  ASSUME NEW s \in Slots, TilesOK(s)
  PROVE  /\ GoodSlot(FillFreeTiles(s))
         /\ FillFreeTiles(s).order = s.order
         /\ FillFreeTiles(s).capacity = s.capacity
         /\ Elements(s.tiled) \subseteq Elements(FillFreeTiles(s).tiled)
<1> DEFINE w == WaitingOf(s)
<1> DEFINE n == s.capacity - Len(s.tiled)
<1> DEFINE k == Take(w, n)
<1> DEFINE t == s.tiled \o k
<1>1. /\ s.order \in Seq(Nat) /\ s.tiled \in Seq(Nat) /\ s.capacity \in Nat
      /\ NoDuplicates(s.order) /\ NoDuplicates(s.tiled)
      /\ Elements(s.tiled) \subseteq Elements(s.order)
      /\ Len(s.tiled) \in Nat /\ Len(s.tiled) <= s.capacity
  BY DEF TilesOK, Slots
<1>2. /\ w \in Seq(Nat) /\ NoDuplicates(w)
      /\ Elements(w) = Elements(s.order) \ Elements(s.tiled)
  BY <1>1, WaitingFacts
<1> HIDE DEF w
<1>3. n \in Nat
  BY <1>1
<1>4. /\ k \in Seq(Nat)
      /\ Len(k) = IF n < Len(w) THEN n ELSE Len(w)
      /\ Elements(k) \subseteq Elements(w)
      /\ Len(w) <= n => Elements(k) = Elements(w)
      /\ NoDuplicates(k)
  BY <1>2, <1>3, TakeFacts
<1>n. n = s.capacity - Len(s.tiled)
  OBVIOUS
<1> HIDE DEF n, k
<1>5. /\ t \in Seq(Nat) /\ Len(t) = Len(s.tiled) + Len(k)
      /\ Elements(t) = Elements(s.tiled) \cup Elements(k) /\ NoDuplicates(t)
  <2>1. Elements(s.tiled) \cap Elements(k) = {}
    BY <1>2, <1>4
  <2>2. s.tiled \in Seq(Nat) /\ k \in Seq(Nat)
    BY <1>1, <1>4
  <2>3. /\ t \in Seq(Nat) /\ Len(t) = Len(s.tiled) + Len(k)
        /\ Elements(t) = Elements(s.tiled) \cup Elements(k)
        /\ NoDuplicates(s.tiled) /\ NoDuplicates(k) /\ Elements(s.tiled) \cap Elements(k) = {}
             => NoDuplicates(t)
    BY <2>2, ConcatFacts, ZenonT(60)
  <2> QED BY <2>1, <2>3, <1>1, <1>4
<1>6. FillFreeTiles(s) = [order |-> s.order, tiled |-> t, capacity |-> s.capacity]
  <2>1. FillFreeTiles(s) = [s EXCEPT !.tiled = t]
    BY DEF FillFreeTiles, k, w, n
  <2> HIDE DEF t
  <2> QED BY <2>1, SlotWithTiles
<1> HIDE DEF t
<1>7. Len(t) <= s.capacity /\ (Len(t) < s.capacity => Elements(k) = Elements(w))
  <2>1. Len(k) \in Nat /\ Len(w) \in Nat
    BY <1>2, <1>4
  <2>2. CASE n < Len(w)
    BY <2>1, <2>2, <1>1, <1>3, <1>4, <1>5, <1>n
  <2>3. CASE ~(n < Len(w))
    BY <2>1, <2>3, <1>1, <1>3, <1>4, <1>5, <1>n
  <2> QED BY <2>2, <2>3
<1>8. Elements(t) \subseteq Elements(s.order)
  BY <1>1, <1>2, <1>4, <1>5
<1>9. Len(t) < s.capacity => Elements(s.order) \subseteq Elements(t)
  BY <1>2, <1>5, <1>7
<1> QED BY <1>1, <1>5, <1>6, <1>7, <1>8, <1>9 DEF GoodSlot, Slots, TilesOK, NoHole

\* A tile for a window of the bar that has none: at most one other loses its
\* own, and no hole opens.
LEMMA TakeTileFacts ==
  ASSUME NEW s \in Slots, TilesOK(s), NEW id \in Elements(s.order) \ Elements(s.tiled),
         Len(s.tiled) < s.capacity => Elements(s.order) \subseteq Elements(s.tiled) \cup {id},
         NEW focus, NEW fallback \in {1, Len(s.tiled)}
  PROVE  GoodSlot([s EXCEPT !.tiled = TakeTile(s, id, focus, fallback)])
<1> DEFINE t == TakeTile(s, id, focus, fallback)
<1>1. /\ s.order \in Seq(Nat) /\ s.tiled \in Seq(Nat) /\ s.capacity \in Nat
      /\ NoDuplicates(s.order) /\ NoDuplicates(s.tiled)
      /\ Elements(s.tiled) \subseteq Elements(s.order)
      /\ Len(s.tiled) \in Nat /\ Len(s.tiled) <= s.capacity /\ id \in Nat
  <2>1. s.order \in Seq(Nat)
    BY DEF Slots
  <2>2. id \in Nat
    BY <2>1 DEF Elements
  <2> QED BY <2>1, <2>2 DEF TilesOK, Slots
<1>2. /\ t \in Seq(Nat) /\ NoDuplicates(t) /\ Elements(t) \subseteq Elements(s.tiled) \cup {id}
      /\ Len(t) <= s.capacity
      /\ Len(t) < s.capacity => Elements(s.tiled) \cup {id} \subseteq Elements(t)
      /\ Len(t) < s.capacity => Len(s.tiled) < s.capacity
  <2>1. CASE Len(s.tiled) < s.capacity
    <3>1. t = Append(s.tiled, id)
      BY <2>1 DEF TakeTile
    <3>2. /\ Append(s.tiled, id) \in Seq(Nat) /\ Len(Append(s.tiled, id)) = Len(s.tiled) + 1
          /\ Elements(Append(s.tiled, id)) = Elements(s.tiled) \cup {id}
          /\ NoDuplicates(Append(s.tiled, id))
      BY <1>1, AppendFacts
    <3> HIDE DEF t
    <3> QED BY <3>1, <3>2, <2>1, <1>1
  <2>2. CASE s.capacity = 0
    <3>1. t = s.tiled /\ Len(s.tiled) = 0
      BY <1>1, <2>2 DEF TakeTile
    <3> HIDE DEF t
    <3> QED BY <3>1, <1>1, <2>2
  <2>3. CASE ~(Len(s.tiled) < s.capacity) /\ s.capacity # 0
    <3>1. Len(s.tiled) = s.capacity /\ Len(s.tiled) >= 1
      BY <2>3, <1>1
    <3>2. PICK i \in 1..Len(s.tiled) : t = [s.tiled EXCEPT ![i] = id]
      <4>1. CASE focus \in Elements(s.tiled)
        <5>1. Position(s.tiled, focus) \in 1..Len(s.tiled)
          BY <1>1, <4>1, PositionFacts
        <5> QED BY <5>1, <4>1, <2>3 DEF TakeTile, Swap
      <4>2. CASE focus \notin Elements(s.tiled)
        <5>1. fallback \in 1..Len(s.tiled)
          BY <3>1, <1>1
        <5> QED BY <5>1, <4>2, <2>3 DEF TakeTile
      <4> QED BY <4>1, <4>2
    <3> HIDE DEF t
    <3>3. /\ t \in Seq(Nat) /\ Len(t) = Len(s.tiled) /\ NoDuplicates(t)
          /\ Elements(t) \subseteq Elements(s.tiled) \cup {id}
      <4> DEFINE a == s.tiled
      <4>1. a \in Seq(Nat) /\ i \in 1..Len(a) /\ NoDuplicates(a) /\ id \notin Elements(a)
            /\ id \in Nat /\ t = [a EXCEPT ![i] = id]
        BY <1>1, <3>2
      <4> HIDE DEF a
      <4> DEFINE r == [a EXCEPT ![i] = id]
      <4>2. /\ r \in Seq(Nat) /\ Len(r) = Len(a) /\ NoDuplicates(r)
            /\ Elements(r) \subseteq Elements(a) \cup {id}
        BY <4>1, ReplaceFacts, ZenonT(60)
      <4> HIDE DEF r
      <4>3. t = r
        BY <4>1 DEF r
      <4> QED BY <4>2, <4>3 DEF a
    <3> QED BY <3>1, <3>3, <1>1
  <2> QED BY <2>1, <2>2, <2>3
<1> HIDE DEF t
<1>3. [s EXCEPT !.tiled = t] = [order |-> s.order, tiled |-> t, capacity |-> s.capacity]
  BY SlotWithTiles
<1>4. Elements(t) \subseteq Elements(s.order)
  BY <1>1, <1>2
<1>5. Len(t) < s.capacity => Elements(s.order) \subseteq Elements(t)
  BY <1>2
<1> QED BY <1>1, <1>2, <1>3, <1>4, <1>5 DEF GoodSlot, Slots, TilesOK, NoHole, t

----------------------------------------------------------------------------
(* The parts of a model                                                    *)

LEMMA ModelParts ==
  ASSUME NEW m, ModelTypeOK(m)
  PROVE  /\ m = [windows |-> m.windows, created |-> m.created, slots |-> m.slots,
                 focus |-> m.focus, next_id |-> m.next_id]
         /\ m.windows \in [Live(m) -> Windows] /\ Live(m) = DOMAIN m.windows
         /\ Live(m) \subseteq Nat
         /\ m.slots \in [DOMAIN m.slots -> Slots] /\ DOMAIN m.slots \subseteq Outputs
         /\ m.created \in Seq(Outputs) /\ Elements(m.created) = DOMAIN m.slots
         /\ m.focus \in Nat \cup {NoWindow} /\ m.next_id \in Nat
BY DEF ModelTypeOK, Live

LEMMA MakeModel ==
  ASSUME NEW windows, NEW created, NEW slots, NEW focus, NEW next_id,
         DOMAIN windows \subseteq Nat, windows \in [DOMAIN windows -> Windows],
         DOMAIN slots \subseteq Outputs, slots \in [DOMAIN slots -> Slots],
         created \in Seq(Outputs), Elements(created) = DOMAIN slots,
         focus \in Nat \cup {NoWindow}, next_id \in Nat
  PROVE  ModelTypeOK([windows |-> windows, created |-> created, slots |-> slots,
                      focus |-> focus, next_id |-> next_id])
BY DEF ModelTypeOK, Live

\* The model every session begins with.
LEMMA EmptyIsGood == Good(EmptyModel)
<1> DEFINE w == EmptyModel.windows
<1>1. /\ EmptyModel.windows = << >> /\ EmptyModel.created = << >>
      /\ EmptyModel.slots = << >> /\ EmptyModel.focus = NoWindow
      /\ EmptyModel.next_id = 0
  BY DEF EmptyModel
<1>2. /\ Live(EmptyModel) = {} /\ DOMAIN EmptyModel.slots = {}
      /\ Elements(EmptyModel.created) = {}
  BY <1>1 DEF Live, Elements
<1>3. ModelTypeOK(EmptyModel)
  <2>1. /\ << >> \in [{} -> Windows] /\ << >> \in [{} -> Slots]
        /\ << >> \in Seq(Outputs) /\ DOMAIN << >> = {} /\ Elements(<< >>) = {}
    BY DEF Elements
  <2>2. ModelTypeOK([windows |-> << >>, created |-> << >>, slots |-> << >>,
                     focus |-> NoWindow, next_id |-> 0])
    BY <2>1, MakeModel
  <2> QED BY <2>2 DEF EmptyModel
<1> QED BY <1>1, <1>2, <1>3 DEF Good, SlotsOK, BarsOK, HandlesOK

\* slot_mut and what is written through it.
LEMMA WithSlotFacts ==
  ASSUME NEW m, ModelTypeOK(m), NEW o \in Outputs, NEW s \in Slots
  PROVE  /\ ModelTypeOK(WithSlot(m, o, s))
         /\ WithSlot(m, o, s).windows = m.windows
         /\ WithSlot(m, o, s).focus = m.focus
         /\ WithSlot(m, o, s).next_id = m.next_id
         /\ DOMAIN WithSlot(m, o, s).slots = DOMAIN m.slots \cup {o}
         /\ WithSlot(m, o, s).slots[o] = s
         /\ \A x \in DOMAIN m.slots \ {o} : WithSlot(m, o, s).slots[x] = m.slots[x]
<1> DEFINE slots == [x \in DOMAIN m.slots \cup {o} |-> IF x = o THEN s ELSE m.slots[x]]
<1> DEFINE created == IF o \in DOMAIN m.slots THEN m.created ELSE Append(m.created, o)
<1>1. /\ m = [windows |-> m.windows, created |-> m.created, slots |-> m.slots,
              focus |-> m.focus, next_id |-> m.next_id]
      /\ m.windows \in [DOMAIN m.windows -> Windows] /\ DOMAIN m.windows \subseteq Nat
      /\ m.slots \in [DOMAIN m.slots -> Slots] /\ DOMAIN m.slots \subseteq Outputs
      /\ m.created \in Seq(Outputs) /\ Elements(m.created) = DOMAIN m.slots
      /\ m.focus \in Nat \cup {NoWindow} /\ m.next_id \in Nat
  BY ModelParts DEF Live
<1>2. WithSlot(m, o, s) = [windows |-> m.windows, created |-> created, slots |-> slots,
                           focus |-> m.focus, next_id |-> m.next_id]
  <2>1. WithSlot(m, o, s) = [m EXCEPT !.slots = slots, !.created = created]
    BY DEF WithSlot
  <2> HIDE DEF slots, created
  <2> QED BY <1>1, <2>1
<1>3. /\ DOMAIN slots = DOMAIN m.slots \cup {o} /\ slots \in [DOMAIN slots -> Slots]
      /\ slots[o] = s /\ \A x \in DOMAIN m.slots \ {o} : slots[x] = m.slots[x]
  BY <1>1
<1>4. created \in Seq(Outputs) /\ Elements(created) = DOMAIN m.slots \cup {o}
  <2>1. /\ Append(m.created, o) \in Seq(Outputs)
        /\ Elements(Append(m.created, o)) = Elements(m.created) \cup {o}
    BY <1>1, AppendFacts
  <2> QED BY <1>1, <2>1
<1> HIDE DEF slots, created
<1>5. ModelTypeOK(WithSlot(m, o, s))
  <2>1. DOMAIN slots \subseteq Outputs /\ Elements(created) = DOMAIN slots
    BY <1>1, <1>3, <1>4
  <2>2. ModelTypeOK([windows |-> m.windows, created |-> created, slots |-> slots,
                     focus |-> m.focus, next_id |-> m.next_id])
    BY <1>1, <1>3, <1>4, <2>1, MakeModel
  <2> QED BY <1>2, <2>2, Zenon
<1> QED BY <1>2, <1>3, <1>5

LEMMA SlotMutFacts ==
  ASSUME NEW m, ModelTypeOK(m), NEW o \in Outputs
  PROVE  /\ SlotMut(m, o) \in Slots
         /\ SlotsOK(m) => TilesOK(SlotMut(m, o)) /\ NoHole(SlotMut(m, o))
<1>1. m.slots \in [DOMAIN m.slots -> Slots]
  BY ModelParts
<1>2. CASE o \in DOMAIN m.slots
  BY <1>1, <1>2 DEF SlotMut, SlotsOK
<1>3. CASE o \notin DOMAIN m.slots
  BY <1>3, NewSlotGood DEF SlotMut
<1> QED BY <1>2, <1>3

\* Writing back a good slot with the same windows on its bar changes nothing
\* that matters elsewhere.
LEMMA WithSlotGood ==
  ASSUME NEW m, Good(m), NEW o \in Outputs, NEW s, GoodSlot(s), s.order = SlotMut(m, o).order
  PROVE  Good(WithSlot(m, o, s))
<1> DEFINE n == WithSlot(m, o, s)
<1>1. /\ ModelTypeOK(m) /\ SlotsOK(m) /\ BarsOK(m) /\ HandlesOK(m) /\ s \in Slots
  BY DEF Good, GoodSlot
<1>2. /\ ModelTypeOK(n)
      /\ n.windows = m.windows /\ n.focus = m.focus /\ n.next_id = m.next_id
      /\ DOMAIN n.slots = DOMAIN m.slots \cup {o}
      /\ n.slots[o] = s
      /\ \A x \in DOMAIN m.slots \ {o} : n.slots[x] = m.slots[x]
  BY <1>1, WithSlotFacts
<1> HIDE DEF n
<1>3. SlotsOK(n)
  BY <1>1, <1>2 DEF SlotsOK, GoodSlot
<1>4. BarsOK(n)
  <2>1. Live(n) = Live(m) /\ \A w : IsToplevel(n, w) = IsToplevel(m, w)
    BY <1>2 DEF Live, IsToplevel
  <2>2. CASE o \in DOMAIN m.slots
    BY <1>1, <1>2, <2>1, <2>2 DEF BarsOK, SlotMut
  <2>3. CASE o \notin DOMAIN m.slots
    <3>1. Elements(s.order) = {}
      BY <2>3 DEF SlotMut, NewSlot, Elements
    <3>2. {w \in Live(m) : IsToplevel(m, w) /\ m.windows[w].output = o} = {}
      BY <1>1, <2>3 DEF BarsOK
    <3> QED BY <1>1, <1>2, <2>1, <3>1, <3>2 DEF BarsOK
  <2> QED BY <2>2, <2>3
<1>5. HandlesOK(n)
  BY <1>1, <1>2 DEF HandlesOK, Live
<1> QED BY <1>2, <1>3, <1>4, <1>5 DEF Good, n

\* Moving focus to a window that exists, or away.
LEMMA FocusGood ==
  ASSUME NEW m, Good(m), NEW f \in Live(m) \cup {NoWindow}
  PROVE  Good([m EXCEPT !.focus = f])
<1> DEFINE n == [m EXCEPT !.focus = f]
<1>1. /\ m = [windows |-> m.windows, created |-> m.created, slots |-> m.slots,
              focus |-> m.focus, next_id |-> m.next_id]
      /\ m.windows \in [DOMAIN m.windows -> Windows] /\ DOMAIN m.windows \subseteq Nat
      /\ m.slots \in [DOMAIN m.slots -> Slots] /\ DOMAIN m.slots \subseteq Outputs
      /\ m.created \in Seq(Outputs) /\ Elements(m.created) = DOMAIN m.slots
      /\ m.next_id \in Nat /\ f \in Nat \cup {NoWindow}
  BY ModelParts DEF Good, Live
<1>2. n = [windows |-> m.windows, created |-> m.created, slots |-> m.slots,
           focus |-> f, next_id |-> m.next_id]
  BY ModelParts DEF Good
<1> HIDE DEF n
<1>3. ModelTypeOK(n)
  <2>1. ModelTypeOK([windows |-> m.windows, created |-> m.created, slots |-> m.slots,
                     focus |-> f, next_id |-> m.next_id])
    BY <1>1, MakeModel
  <2> QED BY <1>2, <2>1, Zenon
<1>4. n.windows = m.windows /\ n.slots = m.slots /\ n.focus = f /\ n.next_id = m.next_id
  BY <1>2
<1>5. SlotsOK(n) /\ BarsOK(n) /\ HandlesOK(n)
  BY <1>4 DEF Good, SlotsOK, BarsOK, HandlesOK, Live, IsToplevel
<1> QED BY <1>3, <1>5 DEF Good, n

----------------------------------------------------------------------------
(* The methods                                                             *)

LEMMA SetCapacityGood ==
  ASSUME NEW m, Good(m), NEW o \in Outputs, NEW c \in Nat
  PROVE  Good(SetCapacity(m, o, c))
<1> DEFINE s == SlotMut(m, o)
<1> DEFINE t == Take(s.tiled, c)
<1> DEFINE b == [order |-> s.order, tiled |-> t, capacity |-> c]
<1>1. s \in Slots /\ TilesOK(s)
  BY SlotMutFacts DEF Good
<1> HIDE DEF s
<1>3. s.order \in Seq(Nat) /\ s.tiled \in Seq(Nat) /\ NoDuplicates(s.order)
      /\ NoDuplicates(s.tiled) /\ Elements(s.tiled) \subseteq Elements(s.order)
  BY <1>1 DEF Slots, TilesOK
<1>4. /\ t \in Seq(Nat) /\ NoDuplicates(t) /\ Elements(t) \subseteq Elements(s.tiled)
      /\ Len(t) = IF c < Len(s.tiled) THEN c ELSE Len(s.tiled)
  BY <1>3, TakeFacts
<1>2. [s EXCEPT !.capacity = c, !.tiled = Take(@, c)] = b
  BY <1>1, <1>4, SlotWithCapacity
<1> HIDE DEF t
<1>5. Len(t) <= c
  BY <1>3, <1>4
<1>6. b \in Slots /\ TilesOK(b)
  BY <1>3, <1>4, <1>5 DEF Slots, TilesOK
<1>7. b.order = s.order
  OBVIOUS
<1> HIDE DEF b
<1>8. GoodSlot(FillFreeTiles(b)) /\ FillFreeTiles(b).order = s.order
  BY <1>6, <1>7, FillFacts
<1>9. SetCapacity(m, o, c) = WithSlot(m, o, FillFreeTiles(b))
  BY <1>2, Zenon DEF SetCapacity, s
<1>10. Good(WithSlot(m, o, FillFreeTiles(b)))
  BY <1>8, WithSlotGood DEF s
<1> QED BY <1>9, <1>10, Zenon

LEMMA PushWindowFacts ==
  ASSUME NEW m, ModelTypeOK(m), HandlesOK(m), NEW w \in Windows
  PROVE  LET n == PushWindow(m, w) IN
         /\ ModelTypeOK(n)
         /\ m.next_id \notin Live(m) /\ Live(n) = Live(m) \cup {m.next_id}
         /\ n.windows[m.next_id] = w
         /\ \A x \in Live(m) : n.windows[x] = m.windows[x]
         /\ n.slots = m.slots /\ n.created = m.created /\ n.focus = m.focus
         /\ n.next_id = m.next_id + 1
<1> DEFINE n == PushWindow(m, w)
<1> DEFINE id == m.next_id
<1> DEFINE windows == [x \in DOMAIN m.windows \cup {id} |-> IF x = id THEN w ELSE m.windows[x]]
<1>1. /\ m.windows \in [DOMAIN m.windows -> Windows] /\ DOMAIN m.windows \subseteq Nat
      /\ m.slots \in [DOMAIN m.slots -> Slots] /\ DOMAIN m.slots \subseteq Outputs
      /\ m.created \in Seq(Outputs) /\ Elements(m.created) = DOMAIN m.slots
      /\ m.focus \in Nat \cup {NoWindow} /\ id \in Nat /\ id + 1 \in Nat
  BY ModelParts DEF Live
<1>2. id \notin DOMAIN m.windows
  BY <1>1 DEF HandlesOK, Live
<1>3. n = [windows |-> windows, created |-> m.created, slots |-> m.slots,
           focus |-> m.focus, next_id |-> id + 1]
  <2>1. n = [m EXCEPT !.windows = windows, !.next_id = id + 1]
    BY DEF PushWindow
  <2>2. m = [windows |-> m.windows, created |-> m.created, slots |-> m.slots,
             focus |-> m.focus, next_id |-> m.next_id]
    BY ModelParts
  <2> HIDE DEF windows, n
  <2> QED BY <2>1, <2>2
<1>4. /\ DOMAIN windows = DOMAIN m.windows \cup {id} /\ windows \in [DOMAIN windows -> Windows]
      /\ windows[id] = w /\ \A x \in DOMAIN m.windows : windows[x] = m.windows[x]
  BY <1>1, <1>2
<1> HIDE DEF windows, n
<1>5. ModelTypeOK(n)
  <2>1. DOMAIN windows \subseteq Nat
    BY <1>1, <1>4
  <2>2. ModelTypeOK([windows |-> windows, created |-> m.created, slots |-> m.slots,
                     focus |-> m.focus, next_id |-> id + 1])
    BY <1>1, <1>4, <2>1, MakeModel
  <2> QED BY <1>3, <2>2, Zenon
<1>6. /\ n.windows = windows /\ n.slots = m.slots /\ n.created = m.created
      /\ n.focus = m.focus /\ n.next_id = m.next_id + 1
  BY <1>3
<1> QED BY <1>2, <1>4, <1>5, <1>6 DEF Live, n

LEMMA OpenChildGood ==
  ASSUME NEW m, Good(m), NEW parent \in Live(m), NEW role \in {"dialog", "popup"}
  PROVE  Good(OpenChild(m, parent, role))
<1> DEFINE w == [role |-> role, parent |-> parent, output |-> m.windows[parent].output]
<1> DEFINE n == PushWindow(m, w)
<1> DEFINE f == IF role = "dialog" THEN m.next_id ELSE n.focus
<1>1. /\ ModelTypeOK(m) /\ SlotsOK(m) /\ BarsOK(m) /\ HandlesOK(m)
      /\ Live(m) \subseteq Nat /\ m.next_id \in Nat /\ m.windows \in [Live(m) -> Windows]
  BY ModelParts DEF Good
<1>2. w \in Windows
  BY <1>1 DEF Windows, Roles
<1>r. w.role # "toplevel"
  OBVIOUS
<1> HIDE DEF w
<1>3. /\ ModelTypeOK(n)
      /\ m.next_id \notin Live(m) /\ Live(n) = Live(m) \cup {m.next_id}
      /\ n.windows[m.next_id] = w
      /\ \A x \in Live(m) : n.windows[x] = m.windows[x]
      /\ n.slots = m.slots /\ n.created = m.created /\ n.focus = m.focus
      /\ n.next_id = m.next_id + 1
  BY <1>1, <1>2, PushWindowFacts
<1> HIDE DEF n
<1>4. SlotsOK(n)
  BY <1>1, <1>3 DEF SlotsOK
<1>5. BarsOK(n)
  BY <1>1, <1>3, <1>r DEF BarsOK, IsToplevel
<1>6. HandlesOK(n)
  <2>1. \A x \in Live(m) : x < m.next_id + 1
    BY <1>1 DEF HandlesOK
  <2> QED BY <1>1, <1>3, <2>1 DEF HandlesOK
<1>7. f \in Live(n) \cup {NoWindow}
  BY <1>3, <1>6 DEF HandlesOK
<1>8. OpenChild(m, parent, role) = [n EXCEPT !.focus = f]
  BY DEF OpenChild, w, n
<1> HIDE DEF f
<1>9. Good([n EXCEPT !.focus = f])
  BY <1>3, <1>4, <1>5, <1>6, <1>7, FocusGood DEF Good
<1> QED BY <1>8, <1>9, Zenon

LEMMA OpenToplevelGood ==
  ASSUME NEW m, Good(m), NEW o \in Outputs
  PROVE  /\ Good(OpenToplevel(m, o))
         /\ o \in DOMAIN OpenToplevel(m, o).slots
         /\ OpenToplevel(m, o).slots[o].capacity = SlotMut(m, o).capacity
<1> DEFINE id == m.next_id
<1> DEFINE w == [role |-> "toplevel", parent |-> NoWindow, output |-> o]
<1> DEFINE p == PushWindow(m, w)
<1> DEFINE s == SlotMut(m, o)
<1> DEFINE order == Append(s.order, id)
<1> DEFINE tiled == TakeTile(s, id, m.focus, Len(s.tiled))
<1> DEFINE b == [order |-> order, tiled |-> tiled, capacity |-> s.capacity]
<1> DEFINE n == WithSlot(p, o, b)
<1>1. /\ ModelTypeOK(m) /\ SlotsOK(m) /\ BarsOK(m) /\ HandlesOK(m)
      /\ Live(m) \subseteq Nat /\ id \in Nat /\ m.windows \in [Live(m) -> Windows]
  BY ModelParts DEF Good
<1>2. w \in Windows
  BY DEF Windows, Roles
<1>3. /\ ModelTypeOK(p)
      /\ id \notin Live(m) /\ Live(p) = Live(m) \cup {id}
      /\ p.windows[id] = w
      /\ \A x \in Live(m) : p.windows[x] = m.windows[x]
      /\ p.slots = m.slots /\ p.focus = m.focus
      /\ p.next_id = id + 1
  BY <1>1, <1>2, PushWindowFacts
<1>c. b.capacity = s.capacity
  OBVIOUS
<1>w. w.role = "toplevel" /\ w.output = o
  OBVIOUS
<1> HIDE DEF w
<1>4. s \in Slots /\ TilesOK(s) /\ NoHole(s)
  BY <1>1, SlotMutFacts
<1>5. Elements(s.order) = {x \in Live(m) : IsToplevel(m, x) /\ m.windows[x].output = o}
  <2>1. CASE o \in DOMAIN m.slots
    BY <1>1, <2>1 DEF BarsOK, SlotMut
  <2>2. CASE o \notin DOMAIN m.slots
    BY <1>1, <2>2 DEF BarsOK, SlotMut, NewSlot, Elements
  <2> QED BY <2>1, <2>2
<1> HIDE DEF s
<1>7. GoodSlot(b)
  <2> DEFINE a == [order |-> order, tiled |-> s.tiled, capacity |-> s.capacity]
  <2>1. s.order \in Seq(Nat) /\ s.tiled \in Seq(Nat) /\ s.capacity \in Nat
        /\ NoDuplicates(s.order) /\ id \notin Elements(s.order) /\ NoDuplicates(s.tiled)
        /\ Elements(s.tiled) \subseteq Elements(s.order) /\ Len(s.tiled) <= s.capacity
    BY <1>3, <1>4, <1>5 DEF Slots, TilesOK
  <2>2. /\ order \in Seq(Nat) /\ Elements(order) = Elements(s.order) \cup {id}
        /\ NoDuplicates(order)
    BY <1>1, <2>1, AppendFacts
  <2> HIDE DEF order
  <2>3. a \in Slots /\ TilesOK(a)
    BY <2>1, <2>2 DEF Slots, TilesOK
  <2>4. id \in Elements(a.order) \ Elements(a.tiled)
        /\ (Len(a.tiled) < a.capacity => Elements(a.order) \subseteq Elements(a.tiled) \cup {id})
    BY <1>4, <2>1, <2>2 DEF NoHole
  <2>5. GoodSlot([a EXCEPT !.tiled = TakeTile(a, id, m.focus, Len(s.tiled))])
    <3>1. Len(s.tiled) \in {1, Len(a.tiled)}
      OBVIOUS
    <3> HIDE DEF a
    <3> QED BY <2>3, <2>4, <3>1, TakeTileFacts
  <2>6. TakeTile(a, id, m.focus, Len(s.tiled)) = tiled
    BY DEF TakeTile
  <2> HIDE DEF tiled
  <2>7. [a EXCEPT !.tiled = tiled] = b
    OBVIOUS
  <2> HIDE DEF a, b
  <2> QED BY <2>5, <2>6, <2>7, Zenon
<1>6. OpenToplevel(m, o) = [n EXCEPT !.focus = id]
  <2>1. order \in Seq(Nat) /\ tiled \in Seq(Nat)
    BY <1>7 DEF GoodSlot, Slots
  <2>2. [s EXCEPT !.order = order, !.tiled = tiled] = b
    <3> HIDE DEF order, tiled
    <3> QED BY <1>4, <2>1, SlotWithBar
  <2> HIDE DEF b
  <2> QED BY <2>2, Zenon DEF OpenToplevel, s, n, p, w
<1>8. Elements(b.order) = Elements(s.order) \cup {id}
  <2>1. s.order \in Seq(Nat)
    BY <1>4 DEF Slots
  <2> QED BY <1>1, <2>1, AppendFacts
<1> HIDE DEF b, p
<1>9. /\ ModelTypeOK(n)
      /\ n.windows = p.windows /\ n.focus = p.focus /\ n.next_id = p.next_id
      /\ DOMAIN n.slots = DOMAIN p.slots \cup {o}
      /\ n.slots[o] = b
      /\ \A x \in DOMAIN p.slots \ {o} : n.slots[x] = p.slots[x]
  BY <1>3, <1>7, WithSlotFacts DEF GoodSlot
<1> HIDE DEF n
<1>10. SlotsOK(n)
  BY <1>1, <1>3, <1>7, <1>9 DEF SlotsOK, GoodSlot
<1>11. Live(n) = Live(m) \cup {id} /\ n.windows[id] = w
       /\ \A x \in Live(m) : n.windows[x] = m.windows[x]
  BY <1>3, <1>9 DEF Live
<1>12. BarsOK(n)
  <2>1. Elements(n.slots[o].order) = {x \in Live(n) : IsToplevel(n, x) /\ n.windows[x].output = o}
    BY <1>3, <1>5, <1>8, <1>9, <1>11, <1>w DEF IsToplevel
  <2>2. ASSUME NEW x \in DOMAIN m.slots \ {o}
        PROVE  Elements(n.slots[x].order) =
                 {v \in Live(n) : IsToplevel(n, v) /\ n.windows[v].output = x}
    BY <1>1, <1>3, <1>9, <1>11, <1>w DEF BarsOK, IsToplevel
  <2>3. \A v \in Live(n) : IsToplevel(n, v) => n.windows[v].output \in DOMAIN n.slots
    BY <1>1, <1>3, <1>9, <1>11, <1>w DEF BarsOK, IsToplevel
  <2> QED BY <1>3, <1>9, <2>1, <2>2, <2>3 DEF BarsOK
<1>13. HandlesOK(n)
  <2>1. \A x \in Live(m) : x < id + 1
    BY <1>1 DEF HandlesOK
  <2> QED BY <1>1, <1>3, <1>9, <1>11, <2>1 DEF HandlesOK
<1>14. Good([n EXCEPT !.focus = id])
  BY <1>9, <1>10, <1>11, <1>12, <1>13, FocusGood DEF Good
<1>15. [n EXCEPT !.focus = id].slots = n.slots
  BY <1>9, ModelParts
<1> QED BY <1>6, <1>9, <1>14, <1>15, <1>c DEF s

\* Dropping windows from the bars and refilling what that freed.
LEMMA WithoutWindowsFacts ==
  ASSUME NEW slots, slots \in [DOMAIN slots -> Slots], \A o \in DOMAIN slots : TilesOK(slots[o]),
         NEW gone
  PROVE  /\ WithoutWindows(slots, gone) \in [DOMAIN slots -> Slots]
         /\ \A o \in DOMAIN slots :
              /\ GoodSlot(WithoutWindows(slots, gone)[o])
              /\ Elements(WithoutWindows(slots, gone)[o].order) = Elements(slots[o].order) \ gone
<1> SUFFICES ASSUME NEW o \in DOMAIN slots
             PROVE  /\ GoodSlot(WithoutWindows(slots, gone)[o])
                    /\ Elements(WithoutWindows(slots, gone)[o].order) =
                         Elements(slots[o].order) \ gone
  BY DEF GoodSlot, WithoutWindows
<1> DEFINE s == slots[o]
<1> DEFINE order == Retain(s.order, Elements(s.order) \ gone)
<1> DEFINE tiled == Retain(s.tiled, Elements(s.tiled) \ gone)
<1> DEFINE b == [order |-> order, tiled |-> tiled, capacity |-> s.capacity]
<1>1. s \in Slots /\ TilesOK(s)
  OBVIOUS
<1>2. /\ s.order \in Seq(Nat) /\ s.tiled \in Seq(Nat) /\ s.capacity \in Nat
      /\ NoDuplicates(s.order) /\ NoDuplicates(s.tiled)
      /\ Elements(s.tiled) \subseteq Elements(s.order)
      /\ Len(s.tiled) \in Nat /\ Len(s.tiled) <= s.capacity
  BY <1>1 DEF Slots, TilesOK
<1>3. WithoutWindows(slots, gone)[o] =
        FillFreeTiles([s EXCEPT !.order = order, !.tiled = tiled])
  BY DEF WithoutWindows
<1> HIDE DEF s
<1>4. /\ order \in Seq(Nat) /\ NoDuplicates(order)
      /\ Elements(order) = Elements(s.order) \cap (Elements(s.order) \ gone)
  BY <1>2, RetainFacts
<1>5. /\ tiled \in Seq(Nat) /\ NoDuplicates(tiled) /\ Len(tiled) <= Len(s.tiled)
      /\ Elements(tiled) = Elements(s.tiled) \cap (Elements(s.tiled) \ gone)
  BY <1>2, RetainFacts
<1> HIDE DEF order, tiled
<1>6. [s EXCEPT !.order = order, !.tiled = tiled] = b
  BY <1>1, <1>4, <1>5, SlotWithBar
<1>7. Len(tiled) <= s.capacity
  <2>1. Len(tiled) \in Nat
    BY <1>5
  <2> QED BY <2>1, <1>2, <1>5
<1>8. b \in Slots /\ TilesOK(b) /\ b.order = order
  BY <1>2, <1>4, <1>5, <1>7 DEF Slots, TilesOK
<1> HIDE DEF b
<1>9. GoodSlot(FillFreeTiles(b)) /\ FillFreeTiles(b).order = order
  BY <1>8, FillFacts
<1>10. WithoutWindows(slots, gone)[o] = FillFreeTiles(b)
  BY <1>3, <1>6, Zenon
<1>11. Elements(order) = Elements(s.order) \ gone
  BY <1>4
<1> QED BY <1>9, <1>10, <1>11 DEF s

\* A slot with no hole has nothing to fill.
LEMMA FillFull ==
  ASSUME NEW s, GoodSlot(s)
  PROVE  FillFreeTiles(s) = s
<1> DEFINE w == WaitingOf(s)
<1> DEFINE n == s.capacity - Len(s.tiled)
<1> DEFINE k == Take(w, n)
<1>1. /\ s \in Slots /\ s.tiled \in Seq(Nat) /\ s.capacity \in Nat /\ NoDuplicates(s.order)
      /\ Len(s.tiled) \in Nat /\ Len(s.tiled) <= s.capacity
      /\ Len(s.tiled) < s.capacity => Elements(s.order) \subseteq Elements(s.tiled)
  BY DEF GoodSlot, TilesOK, NoHole, Slots
<1>2. /\ w \in Seq(Nat) /\ Elements(w) = Elements(s.order) \ Elements(s.tiled)
  BY <1>1, WaitingFacts
<1>3. FillFreeTiles(s) = [s EXCEPT !.tiled = s.tiled \o k]
  BY DEF FillFreeTiles
<1> HIDE DEF w
<1>4. n \in Nat /\ (n = 0 \/ Elements(w) = {})
  BY <1>1, <1>2
<1> HIDE DEF n
<1>5. k \in Seq(Nat) /\ Len(k) = IF n < Len(w) THEN n ELSE Len(w)
  BY <1>2, <1>4, TakeFacts
<1>6. Elements(w) = {} => Len(w) = 0
  <2> SUFFICES ASSUME Len(w) # 0 PROVE w[1] \in Elements(w)
    OBVIOUS
  <2> QED BY <1>2 DEF Elements
<1>7. k = << >>
  BY <1>2, <1>4, <1>5, <1>6
<1> HIDE DEF k
<1>8. s.tiled \o k = s.tiled
  BY <1>1, <1>7
<1>9. [s EXCEPT !.tiled = s.tiled] = s
  BY <1>1 DEF Slots
<1> QED BY <1>3, <1>8, <1>9

\* Dropping nothing of what is on the bars moves no tile.
LEMMA WithoutNone ==
  ASSUME NEW m, Good(m), NEW gone,
         \A o \in DOMAIN m.slots : Elements(m.slots[o].order) \cap gone = {}
  PROVE  WithoutWindows(m.slots, gone) = m.slots
<1>1. m.slots \in [DOMAIN m.slots -> Slots]
  BY ModelParts DEF Good
<1>2. ASSUME NEW o \in DOMAIN m.slots
      PROVE  FillFreeTiles([m.slots[o] EXCEPT
               !.order = Retain(@, Elements(@) \ gone),
               !.tiled = Retain(@, Elements(@) \ gone)]) = m.slots[o]
  <2> DEFINE s == m.slots[o]
  <2>1. GoodSlot(s) /\ s.order \in Seq(Nat) /\ s.tiled \in Seq(Nat) /\ s \in Slots
    BY <1>1 DEF Good, SlotsOK, GoodSlot, Slots
  <2>2. Elements(s.tiled) \subseteq Elements(s.order) /\ Elements(s.order) \cap gone = {}
    BY <2>1 DEF GoodSlot, TilesOK
  <2> HIDE DEF s
  <2>3. /\ Retain(s.order, Elements(s.order) \ gone) = s.order
        /\ Retain(s.tiled, Elements(s.tiled) \ gone) = s.tiled
    BY <2>1, <2>2, RetainAll
  <2>4. [s EXCEPT !.order = s.order, !.tiled = s.tiled] = s
    BY <2>1 DEF Slots
  <2>5. [s EXCEPT !.order = Retain(s.order, Elements(s.order) \ gone),
                  !.tiled = Retain(s.tiled, Elements(s.tiled) \ gone)] = s
    BY <2>3, <2>4
  <2>6. FillFreeTiles(s) = s
    BY <2>1, FillFull
  <2> QED BY <2>5, <2>6 DEF s
<1> QED BY <1>1, <1>2 DEF WithoutWindows

\* Any change of the windows and the slots that leaves each bar with the
\* toplevels of its output.
LEMMA Rebuilt ==
  ASSUME NEW m, Good(m), NEW windows, NEW slots, NEW f,
         DOMAIN windows \subseteq Live(m), windows \in [DOMAIN windows -> Windows],
         slots \in [DOMAIN m.slots -> Slots],
         \A o \in DOMAIN m.slots :
           /\ GoodSlot(slots[o])
           /\ Elements(slots[o].order) =
                {w \in DOMAIN windows : windows[w].role = "toplevel" /\ windows[w].output = o},
         \A w \in DOMAIN windows :
           windows[w].role = "toplevel" => windows[w].output \in DOMAIN m.slots,
         f \in DOMAIN windows \cup {NoWindow}
  PROVE  Good([windows |-> windows, created |-> m.created, slots |-> slots,
               focus |-> f, next_id |-> m.next_id])
<1> DEFINE n == [windows |-> windows, created |-> m.created, slots |-> slots,
                 focus |-> f, next_id |-> m.next_id]
<1>1. /\ Live(m) \subseteq Nat /\ DOMAIN m.slots \subseteq Outputs
      /\ m.created \in Seq(Outputs) /\ Elements(m.created) = DOMAIN m.slots
      /\ m.next_id \in Nat /\ \A w \in Live(m) : w < m.next_id
  BY ModelParts DEF Good, HandlesOK
<1>2. ModelTypeOK(n)
  <2>1. /\ DOMAIN windows \subseteq Nat /\ DOMAIN slots = DOMAIN m.slots
        /\ f \in Nat \cup {NoWindow}
    BY <1>1
  <2> QED BY <1>1, <2>1, MakeModel
<1>3. /\ n.windows = windows /\ n.slots = slots /\ n.focus = f /\ n.next_id = m.next_id
      /\ DOMAIN slots = DOMAIN m.slots
  OBVIOUS
<1> HIDE DEF n
<1>4. SlotsOK(n) /\ BarsOK(n) /\ HandlesOK(n)
  BY <1>1, <1>3 DEF SlotsOK, GoodSlot, BarsOK, HandlesOK, Live, IsToplevel
<1> QED BY <1>2, <1>4 DEF Good, n

LEMMA AdoptGood ==
  ASSUME NEW m, Good(m), NEW id, NEW parent
  PROVE  Good(AdoptAsDialog(m, id, parent))
<1> SUFFICES ASSUME CanAdopt(m, id, parent) PROVE Good(AdoptAsDialog(m, id, parent))
  BY DEF AdoptAsDialog
<1>1. /\ ModelTypeOK(m) /\ SlotsOK(m) /\ BarsOK(m) /\ HandlesOK(m)
      /\ m.windows \in [Live(m) -> Windows] /\ Live(m) = DOMAIN m.windows
      /\ Live(m) \subseteq Nat /\ m.slots \in [DOMAIN m.slots -> Slots]
      /\ id \in Live(m) /\ parent \in Live(m) /\ IsToplevel(m, id)
  BY ModelParts DEF Good, CanAdopt
<1> DEFINE o == m.windows[parent].output
<1> DEFINE d == [role |-> "dialog", parent |-> parent, output |-> o]
<1> DEFINE windows == [m.windows EXCEPT ![id] = d]
<1> DEFINE slots == WithoutWindows(m.slots, {id})
<1> DEFINE n == [windows |-> windows, created |-> m.created, slots |-> slots,
                 focus |-> id, next_id |-> m.next_id]
<1>2. AdoptAsDialog(m, id, parent) = n
  <2>1. [m.windows[id] EXCEPT !.role = "dialog", !.parent = parent, !.output = o] = d
    <3>1. m.windows[id] \in Windows /\ o \in Outputs /\ parent \in Nat
      BY <1>1 DEF Windows
    <3> DEFINE v == m.windows[id]
    <3> DEFINE r == [v EXCEPT !.role = "dialog", !.parent = parent, !.output = o]
    <3> HIDE DEF o, v
    <3>2. /\ r.role = "dialog" /\ r.parent = parent /\ r.output = o
          /\ r = [role |-> r.role, parent |-> r.parent, output |-> r.output]
      <4>1. v \in [role : Roles, parent : Nat \cup {NoWindow}, output : Outputs]
        BY <3>1 DEF Windows, v
      <4>2. r \in [role : Roles, parent : Nat \cup {NoWindow}, output : Outputs]
            /\ r.role = "dialog" /\ r.parent = parent /\ r.output = o
        BY <4>1, <3>1 DEF Roles
      <4> HIDE DEF r
      <4> QED BY <4>2
    <3> QED BY <3>2, Zenon DEF v
  <2>2. AdoptAsDialog(m, id, parent) =
          [m EXCEPT !.windows = [@ EXCEPT ![id] =
                       [m.windows[id] EXCEPT !.role = "dialog", !.parent = parent, !.output = o]],
                    !.slots = slots, !.focus = id]
    BY <1>1, ZenonT(60) DEF AdoptAsDialog
  <2>3. AdoptAsDialog(m, id, parent) = [m EXCEPT !.windows = windows, !.slots = slots, !.focus = id]
    BY <2>1, <2>2
  <2>4. m = [windows |-> m.windows, created |-> m.created, slots |-> m.slots,
             focus |-> m.focus, next_id |-> m.next_id]
    BY <1>1, ModelParts
  <2> HIDE DEF windows, slots
  <2> QED BY <2>3, <2>4
<1>3. /\ d \in Windows /\ d.role = "dialog"
  BY <1>1 DEF Windows, Roles
<1> HIDE DEF d
<1>4. /\ DOMAIN windows = Live(m) /\ windows \in [DOMAIN windows -> Windows]
      /\ windows[id] = d /\ \A w \in Live(m) \ {id} : windows[w] = m.windows[w]
  BY <1>1, <1>3
<1>5. /\ slots \in [DOMAIN m.slots -> Slots]
      /\ \A x \in DOMAIN m.slots :
           GoodSlot(slots[x]) /\ Elements(slots[x].order) = Elements(m.slots[x].order) \ {id}
  BY <1>1, WithoutWindowsFacts DEF SlotsOK
<1> HIDE DEF windows, slots
<1>6. ASSUME NEW x \in DOMAIN m.slots
      PROVE  Elements(slots[x].order) =
               {w \in DOMAIN windows : windows[w].role = "toplevel" /\ windows[w].output = x}
  <2>1. Elements(slots[x].order) =
          {w \in Live(m) : m.windows[w].role = "toplevel" /\ m.windows[w].output = x} \ {id}
    BY <1>1, <1>5 DEF BarsOK, IsToplevel
  <2>2. ASSUME NEW w \in Live(m)
        PROVE  w # id /\ m.windows[w].role = "toplevel" /\ m.windows[w].output = x
                 <=> windows[w].role = "toplevel" /\ windows[w].output = x
    BY <1>3, <1>4
  <2> QED BY <1>4, <2>1, <2>2
<1>7. \A w \in DOMAIN windows :
        windows[w].role = "toplevel" => windows[w].output \in DOMAIN m.slots
  BY <1>1, <1>3, <1>4 DEF BarsOK, IsToplevel
<1>8. Good(n)
  BY <1>1, <1>4, <1>5, <1>6, <1>7, Rebuilt
<1> QED BY <1>2, <1>8, Zenon

\* Every set of naturals has a smallest member.
LEMMA SmallestNat ==
  ASSUME NEW T, T \subseteq Nat, T # {}
  PROVE  \E k \in T : \A j \in T : k <= j
<1> DEFINE R == {p \in Nat \X Nat : p[1] < p[2]}
<1>1. IsWellFoundedOn(R, Nat)
  BY NatLessThanWellFounded DEF OpToRel
<1> HIDE DEF R
<1>2. PICK k \in T : \A j \in T : <<j, k>> \notin R
  BY <1>1, WFMin
<1>3. ASSUME NEW j \in T PROVE k <= j
  <2>1. j < k => <<j, k>> \in R
    BY DEF R
  <2> QED BY <1>2, <2>1
<1> QED BY <1>3

\* The window focus falls back to is on a tile; there is none only when every
\* tile is empty.
LEMMA FirstTiledFacts ==
  ASSUME NEW m, ModelTypeOK(m)
  PROVE  \/ \E o \in DOMAIN m.slots : FirstTiled(m) \in Elements(m.slots[o].tiled)
         \/ /\ FirstTiled(m) = NoWindow
            /\ \A o \in DOMAIN m.slots : m.slots[o].tiled = << >>
<1> DEFINE shows(k) == m.slots[m.created[k]].tiled # << >>
<1> DEFINE first == CHOOSE k \in 1..Len(m.created) : shows(k) /\ \A j \in 1..(k - 1) : ~shows(j)
<1>1. /\ m.slots \in [DOMAIN m.slots -> Slots] /\ Elements(m.created) = DOMAIN m.slots
      /\ Len(m.created) \in Nat
  BY ModelParts
<1>2. CASE ~\E k \in 1..Len(m.created) : shows(k)
  <2>1. FirstTiled(m) = NoWindow
    BY <1>2, Zenon DEF FirstTiled
  <2> QED BY <1>1, <1>2, <2>1 DEF Elements
<1>3. CASE \E k \in 1..Len(m.created) : shows(k)
  <2>1. \E k \in 1..Len(m.created) : shows(k) /\ \A j \in 1..(k - 1) : ~shows(j)
    <3> DEFINE T == {k \in 1..Len(m.created) : shows(k)}
    <3>1. T # {} /\ T \subseteq Nat
      BY <1>1, <1>3
    <3>2. PICK k \in T : \A j \in T : k <= j
      <4> HIDE DEF T
      <4> QED BY <3>1, SmallestNat
    <3>3. k \in 1..Len(m.created) /\ shows(k)
      BY <3>2
    <3>4. ASSUME NEW j \in 1..(k - 1) PROVE ~shows(j)
      <4>1. j \in 1..Len(m.created) /\ ~(k <= j)
        BY <1>1, <3>3
      <4>2. j \notin T
        BY <3>2, <4>1
      <4> QED BY <4>1, <4>2
    <3> HIDE DEF T
    <3> QED BY <3>3, <3>4, Zenon
  <2>2. first \in 1..Len(m.created) /\ shows(first)
    <3> HIDE DEF shows
    <3> QED BY <2>1
  <2>3. FirstTiled(m) = m.slots[m.created[first]].tiled[1]
    BY <1>3, Zenon DEF FirstTiled
  <2> DEFINE o == m.created[first]
  <2>4. o \in DOMAIN m.slots
    BY <1>1, <2>2 DEF Elements
  <2>5. m.slots[o].tiled # << >>
    BY <2>2
  <2> HIDE DEF first, o
  <2>6. m.slots[o].tiled \in Seq(Nat)
    BY <1>1, <2>4 DEF Slots
  <2>7. m.slots[o].tiled[1] \in Elements(m.slots[o].tiled)
    BY <2>5, <2>6, EmptySeq DEF Elements
  <2> QED BY <2>3, <2>4, <2>7 DEF o
<1> QED BY <1>2, <1>3

\* The window focus falls back to is there.
LEMMA FirstTiledLive ==
  ASSUME NEW m, ModelTypeOK(m), SlotsOK(m), BarsOK(m)
  PROVE  FirstTiled(m) \in Live(m) \cup {NoWindow}
BY FirstTiledFacts DEF SlotsOK, TilesOK, BarsOK

\* What is first depends on the outputs and their slots alone.
LEMMA FirstTiledSame ==
  ASSUME NEW m, NEW n, m.slots = n.slots, m.created = n.created
  PROVE  FirstTiled(m) = FirstTiled(n)
<1> DEFINE of(slots, created) ==
      LET shows(k) == slots[created[k]].tiled # << >>
          first    == CHOOSE k \in 1..Len(created) :
                        shows(k) /\ \A j \in 1..(k - 1) : ~shows(j)
      IN  IF \E k \in 1..Len(created) : shows(k)
          THEN slots[created[first]].tiled[1]
          ELSE NoWindow
<1>1. FirstTiled(m) = of(m.slots, m.created)
  BY Zenon DEF FirstTiled
<1>2. FirstTiled(n) = of(n.slots, n.created)
  BY Zenon DEF FirstTiled
<1> HIDE DEF of
<1> QED BY <1>1, <1>2, Zenon

LEMMA CloseGood ==
  ASSUME NEW m, Good(m), NEW id
  PROVE  Good(Close(m, id))
<1> DEFINE doomed == Family(m, id)
<1> DEFINE windows == [w \in DOMAIN m.windows \ doomed |-> m.windows[w]]
<1> DEFINE slots == WithoutWindows(m.slots, doomed)
<1> DEFINE left == [m EXCEPT !.windows = windows, !.slots = slots]
<1> DEFINE rebuilt(f) == [windows |-> windows, created |-> m.created, slots |-> slots,
                          focus |-> f, next_id |-> m.next_id]
<1>1. /\ ModelTypeOK(m) /\ SlotsOK(m) /\ BarsOK(m) /\ HandlesOK(m)
      /\ m.windows \in [Live(m) -> Windows] /\ Live(m) = DOMAIN m.windows
      /\ m.slots \in [DOMAIN m.slots -> Slots]
  BY ModelParts DEF Good
<1>2. Close(m, id) = [left EXCEPT !.focus = IF @ \in doomed THEN FirstTiled(left) ELSE @]
  BY DEF Close
<1> HIDE DEF doomed
<1>3. /\ DOMAIN windows = Live(m) \ doomed /\ windows \in [DOMAIN windows -> Windows]
      /\ \A w \in DOMAIN windows : windows[w] = m.windows[w]
  BY <1>1
<1>4. /\ slots \in [DOMAIN m.slots -> Slots]
      /\ \A x \in DOMAIN m.slots :
           GoodSlot(slots[x]) /\ Elements(slots[x].order) = Elements(m.slots[x].order) \ doomed
  BY <1>1, WithoutWindowsFacts DEF SlotsOK
<1>5. left = rebuilt(m.focus)
  <2>1. m = [windows |-> m.windows, created |-> m.created, slots |-> m.slots,
             focus |-> m.focus, next_id |-> m.next_id]
    BY <1>1, ModelParts
  <2>2. left = [m EXCEPT !.windows = windows, !.slots = slots]
    OBVIOUS
  <2> HIDE DEF windows, slots, left
  <2>3. left = [windows |-> windows, created |-> m.created, slots |-> slots,
                focus |-> m.focus, next_id |-> m.next_id]
    BY <2>1, <2>2
  <2> QED BY <2>3, Zenon
<1> HIDE DEF windows, slots, left
<1>6. ASSUME NEW x \in DOMAIN m.slots
      PROVE  Elements(slots[x].order) =
               {w \in DOMAIN windows : windows[w].role = "toplevel" /\ windows[w].output = x}
  <2>1. Elements(slots[x].order) =
          {w \in Live(m) : m.windows[w].role = "toplevel" /\ m.windows[w].output = x} \ doomed
    BY <1>1, <1>4 DEF BarsOK, IsToplevel
  <2> QED BY <1>3, <2>1
<1>7. \A w \in DOMAIN windows :
        windows[w].role = "toplevel" => windows[w].output \in DOMAIN m.slots
  BY <1>1, <1>3 DEF BarsOK, IsToplevel
<1>8. ASSUME NEW f \in DOMAIN windows \cup {NoWindow} PROVE Good(rebuilt(f))
  <2>1. DOMAIN windows \subseteq Live(m)
    BY <1>3
  <2> QED BY <1>1, <1>3, <1>4, <1>6, <1>7, <2>1, Rebuilt
<1>9. FirstTiled(left) \in DOMAIN windows \cup {NoWindow}
  <2> DEFINE n == rebuilt(NoWindow)
  <2>1. FirstTiled(left) = FirstTiled(n)
    <3>1. left.slots = n.slots /\ left.created = n.created
      BY <1>5
    <3> HIDE DEF n
    <3> QED BY <3>1, FirstTiledSame
  <2>2. Good(n)
    BY <1>8
  <2>3. FirstTiled(n) \in Live(n) \cup {NoWindow}
    <3> HIDE DEF n
    <3> QED BY <2>2, FirstTiledLive DEF Good
  <2>4. Live(n) = DOMAIN windows
    BY DEF Live
  <2> QED BY <2>1, <2>3, <2>4, Zenon
<1> DEFINE f == IF m.focus \in doomed THEN FirstTiled(left) ELSE m.focus
<1>10. f \in DOMAIN windows \cup {NoWindow}
  BY <1>1, <1>3, <1>9 DEF HandlesOK
<1>11. Close(m, id) = rebuilt(f)
  <2>1. left.focus = m.focus
    BY <1>5
  <2>2. Close(m, id) = [left EXCEPT !.focus = f]
    BY <1>2, <2>1
  <2> HIDE DEF f
  <2> QED BY <2>2, <1>5
<1> HIDE DEF f
<1> QED BY <1>8, <1>10, <1>11

LEMMA ActivateGood ==
  ASSUME NEW m, Good(m), NEW id \in Live(m)
  PROVE  Good(Activate(m, id))
<1> DEFINE o == m.windows[id].output
<1> DEFINE s == SlotMut(m, o)
<1> DEFINE t == IF id \in Elements(s.tiled) THEN s.tiled ELSE TakeTile(s, id, m.focus, 1)
<1> DEFINE b == [s EXCEPT !.tiled = t]
<1> DEFINE n == IF ~IsToplevel(m, id) THEN m ELSE WithSlot(m, o, b)
<1>1. /\ ModelTypeOK(m) /\ SlotsOK(m) /\ BarsOK(m) /\ HandlesOK(m)
      /\ m.windows \in [Live(m) -> Windows]
      /\ m.slots \in [DOMAIN m.slots -> Slots] /\ DOMAIN m.slots \subseteq Outputs
  BY ModelParts DEF Good
<1>2. Activate(m, id) = [n EXCEPT !.focus = id]
  BY Zenon DEF Activate
<1>3. CASE ~IsToplevel(m, id)
  <2>1. n = m
    BY <1>3
  <2>2. Good([m EXCEPT !.focus = id])
    BY FocusGood
  <2> HIDE DEF n
  <2>3. Activate(m, id) = [m EXCEPT !.focus = id]
    BY <1>2, <2>1, Zenon
  <2> QED BY <2>2, <2>3, Zenon
<1>4. CASE IsToplevel(m, id)
  <2>1. o \in DOMAIN m.slots /\ o \in Outputs /\ id \in Elements(m.slots[o].order)
    BY <1>1, <1>4 DEF BarsOK
  <2>2. /\ s = m.slots[o] /\ s \in Slots /\ TilesOK(s) /\ NoHole(s)
        /\ id \in Elements(s.order)
    BY <1>1, <2>1 DEF SlotMut, SlotsOK
  <2>3. n = WithSlot(m, o, b)
    BY <1>4
  <2> HIDE DEF o, s, n
  <2>4. GoodSlot(b) /\ b.order = s.order
    <3>1. CASE id \in Elements(s.tiled)
      <4>1. t = s.tiled
        BY <3>1
      <4> HIDE DEF t
      <4>2. b = s
        BY <2>2, <4>1 DEF Slots
      <4> HIDE DEF b
      <4> QED BY <2>2, <4>2 DEF GoodSlot
    <3>2. CASE id \notin Elements(s.tiled)
      <4>1. t = TakeTile(s, id, m.focus, 1)
        BY <3>2
      <4>2. GoodSlot([s EXCEPT !.tiled = TakeTile(s, id, m.focus, 1)])
        BY <2>2, <3>2, TakeTileFacts DEF NoHole
      <4>3. b.order = s.order
        <5> HIDE DEF t
        <5> QED BY <2>2 DEF Slots
      <4> HIDE DEF t
      <4> QED BY <4>1, <4>2, <4>3, Zenon
    <3> QED BY <3>1, <3>2
  <2> HIDE DEF b
  <2>5. Good(WithSlot(m, o, b))
    BY <2>1, <2>4, WithSlotGood DEF s
  <2>6. Live(WithSlot(m, o, b)) = Live(m)
    BY <1>1, <2>1, <2>4, WithSlotFacts DEF Live, GoodSlot
  <2>7. Good([WithSlot(m, o, b) EXCEPT !.focus = id])
    BY <2>5, <2>6, FocusGood
  <2> QED BY <1>2, <2>3, <2>7, Zenon
<1> QED BY <1>3, <1>4

\* Alt-Tab goes to a window of the bar.
LEMMA CycleTargetOnBar ==
  ASSUME NEW bar \in Seq(Nat), bar # << >>, NEW focus, NEW forward \in BOOLEAN
  PROVE  CycleTarget(bar, focus, forward) \in Elements(bar)
<1> DEFINE at == Position(bar, focus)
<1>1. Len(bar) \in Nat /\ Len(bar) >= 1
  BY EmptySeq
<1>2. CASE focus \in Elements(bar)
  <2>1. at \in 1..Len(bar)
    BY <1>2, PositionFacts
  <2>2. (at % Len(bar)) + 1 \in 1..Len(bar)
        /\ ((at + Len(bar) - 2) % Len(bar)) + 1 \in 1..Len(bar)
    <3> HIDE DEF at
    <3>1. at \in Int /\ at + Len(bar) - 2 \in Int
      BY <2>1, <1>1
    <3>2. \A x \in Int : x % Len(bar) \in 0..(Len(bar) - 1)
      BY <1>1
    <3> DEFINE l == Len(bar)
    <3>3. \A y \in 0..(l - 1) : y + 1 \in 1..l
      BY <1>1
    <3> QED BY <3>1, <3>2, <3>3
  <2> QED BY <1>2, <2>2 DEF CycleTarget, Elements
<1>3. CASE focus \notin Elements(bar)
  <2>1. 1 \in 1..Len(bar) /\ Len(bar) \in 1..Len(bar)
    BY <1>1
  <2> QED BY <1>3, <2>1 DEF CycleTarget, Elements
<1> QED BY <1>2, <1>3

LEMMA CycleGood ==
  ASSUME NEW m, Good(m), NEW o, NEW forward \in BOOLEAN
  PROVE  Good(CycleFocus(m, o, forward))
<1> DEFINE bar == Bar(m, o)
<1> SUFFICES ASSUME bar # << >> PROVE Good(CycleFocus(m, o, forward))
  BY DEF CycleFocus
<1>1. m.slots \in [DOMAIN m.slots -> Slots] /\ BarsOK(m)
  BY ModelParts DEF Good
<1>2. o \in DOMAIN m.slots /\ bar = m.slots[o].order
  BY DEF Bar
<1>3. bar \in Seq(Nat) /\ Elements(bar) \subseteq Live(m)
  BY <1>1, <1>2 DEF Slots, BarsOK
<1>4. CycleFocus(m, o, forward) = Activate(m, CycleTarget(bar, m.focus, forward))
  BY DEF CycleFocus
<1> HIDE DEF bar
<1>5. CycleTarget(bar, m.focus, forward) \in Elements(bar)
  BY <1>3, CycleTargetOnBar
<1> QED BY <1>3, <1>4, <1>5, ActivateGood

LEMMA MigrateGood ==
  ASSUME NEW m, Good(m), NEW from, NEW to \in Outputs
  PROVE  Good(Migrate(m, from, to))
<1> SUFFICES ASSUME from # to, from \in DOMAIN m.slots PROVE Good(Migrate(m, from, to))
  BY DEF Migrate
<1> DEFINE windows == [w \in DOMAIN m.windows |->
                        IF m.windows[w].output = from THEN [m.windows[w] EXCEPT !.output = to]
                        ELSE m.windows[w]]
<1> DEFINE moved == [m EXCEPT !.windows = windows]
<1> DEFINE e == [m.slots[from] EXCEPT !.order = << >>, !.tiled = << >>]
<1> DEFINE emptied == WithSlot(moved, from, e)
<1> DEFINE s == SlotMut(emptied, to)
<1> DEFINE bar == m.slots[from].order
<1> DEFINE b == [s EXCEPT !.order = @ \o bar]
<1> DEFINE f == FillFreeTiles(b)
<1> DEFINE n == WithSlot(emptied, to, f)
<1>1. /\ ModelTypeOK(m) /\ SlotsOK(m) /\ BarsOK(m) /\ HandlesOK(m)
      /\ m.windows \in [Live(m) -> Windows] /\ Live(m) = DOMAIN m.windows
      /\ Live(m) \subseteq Nat /\ m.slots \in [DOMAIN m.slots -> Slots]
      /\ DOMAIN m.slots \subseteq Outputs /\ from \in Outputs
  BY ModelParts DEF Good
<1>2. Migrate(m, from, to) = n
  BY DEF Migrate
<1>3. /\ DOMAIN windows = Live(m) /\ windows \in [Live(m) -> Windows]
      /\ \A w \in Live(m) :
           /\ windows[w].role = m.windows[w].role
           /\ windows[w].output = IF m.windows[w].output = from THEN to ELSE m.windows[w].output
  <2>1. ASSUME NEW v \in Windows
        PROVE  /\ [v EXCEPT !.output = to] \in Windows
               /\ [v EXCEPT !.output = to].role = v.role
               /\ [v EXCEPT !.output = to].output = to
    BY DEF Windows
  <2> QED BY <1>1, <2>1
<1>4. /\ ModelTypeOK(moved) /\ moved.windows = windows /\ moved.slots = m.slots
      /\ moved.focus = m.focus /\ moved.next_id = m.next_id
  <2>1. m = [windows |-> m.windows, created |-> m.created, slots |-> m.slots,
             focus |-> m.focus, next_id |-> m.next_id]
    BY <1>1, ModelParts
  <2> HIDE DEF windows
  <2>2. moved = [windows |-> windows, created |-> m.created, slots |-> m.slots,
                 focus |-> m.focus, next_id |-> m.next_id]
    BY <2>1
  <2> HIDE DEF moved
  <2>3. ModelTypeOK([windows |-> windows, created |-> m.created, slots |-> m.slots,
                     focus |-> m.focus, next_id |-> m.next_id])
    BY <1>1, <1>3, MakeModel, ModelParts
  <2> QED BY <2>2, <2>3
<1> HIDE DEF windows, moved
<1>5. m.slots[from] \in Slots /\ bar \in Seq(Nat) /\ NoDuplicates(bar)
  BY <1>1 DEF Slots, SlotsOK, TilesOK
<1>6. GoodSlot(e) /\ e.order = << >>
  <2> DEFINE v == m.slots[from]
  <2>1. v \in Slots
    BY <1>5
  <2> HIDE DEF v
  <2>2. [v EXCEPT !.order = << >>, !.tiled = << >>] =
          [order |-> << >>, tiled |-> << >>, capacity |-> v.capacity]
    <3>1. << >> \in Seq(Nat)
      OBVIOUS
    <3> QED BY <2>1, <3>1, SlotWithBar, Zenon
  <2>3. v.capacity \in Nat
    BY <2>1 DEF Slots
  <2>4. LET r == [order |-> << >>, tiled |-> << >>, capacity |-> v.capacity]
        IN  GoodSlot(r) /\ r.order = << >>
    BY <2>3 DEF GoodSlot, Slots, TilesOK, NoHole, NoDuplicates, Elements
  <2> QED BY <2>2, <2>4, Zenon DEF v
<1> HIDE DEF e
<1>7. /\ ModelTypeOK(emptied) /\ emptied.windows = windows
      /\ emptied.focus = m.focus /\ emptied.next_id = m.next_id
      /\ DOMAIN emptied.slots = DOMAIN m.slots /\ emptied.slots[from] = e
      /\ \A x \in DOMAIN m.slots \ {from} : emptied.slots[x] = m.slots[x]
  <2>1. e \in Slots
    BY <1>6 DEF GoodSlot
  <2>2. /\ ModelTypeOK(emptied)
        /\ emptied.windows = moved.windows
        /\ emptied.focus = moved.focus
        /\ emptied.next_id = moved.next_id
        /\ DOMAIN emptied.slots = DOMAIN moved.slots \cup {from}
        /\ emptied.slots[from] = e
        /\ \A x \in DOMAIN moved.slots \ {from} : emptied.slots[x] = moved.slots[x]
    <3>1. from \in Outputs /\ ModelTypeOK(moved)
      BY <1>1, <1>4
    <3> QED BY <2>1, <3>1, WithSlotFacts
  <2> HIDE DEF emptied
  <2> QED BY <1>4, <2>2
<1> HIDE DEF emptied
<1>8. s = SlotMut(m, to)
  BY <1>7 DEF SlotMut
<1> HIDE DEF s
<1>9. s \in Slots /\ TilesOK(s) /\ s.order \in Seq(Nat)
  BY <1>1, <1>8, SlotMutFacts DEF Slots
<1>10. Elements(s.order) = {w \in Live(m) : IsToplevel(m, w) /\ m.windows[w].output = to}
  <2>1. CASE to \in DOMAIN m.slots
    BY <1>1, <1>8, <2>1 DEF BarsOK, SlotMut
  <2>2. CASE to \notin DOMAIN m.slots
    <3>1. Elements(s.order) = {}
      BY <1>8, <2>2 DEF SlotMut, NewSlot, Elements
    <3> QED BY <1>1, <2>2, <3>1 DEF BarsOK
  <2> QED BY <2>1, <2>2
<1>11. Elements(bar) = {w \in Live(m) : IsToplevel(m, w) /\ m.windows[w].output = from}
  BY <1>1 DEF BarsOK
<1> HIDE DEF bar
<1>12. /\ s.order \o bar \in Seq(Nat) /\ NoDuplicates(s.order \o bar)
       /\ Elements(s.order \o bar) = Elements(s.order) \cup Elements(bar)
  <2>1. Elements(s.order) \cap Elements(bar) = {}
    BY <1>10, <1>11
  <2>2. NoDuplicates(s.order)
    BY <1>9 DEF TilesOK
  <2> QED BY <1>5, <1>9, <2>1, <2>2, ConcatFacts
<1>13. b \in Slots /\ TilesOK(b) /\ b.order = s.order \o bar
  <2> DEFINE order == s.order \o bar
  <2>1. /\ order \in Seq(Nat) /\ NoDuplicates(order)
        /\ Elements(s.order) \subseteq Elements(order)
    BY <1>12
  <2>2. b = [s EXCEPT !.order = order]
    OBVIOUS
  <2> HIDE DEF order, b
  <2>3. b \in Slots /\ b.order = order /\ b.tiled = s.tiled /\ b.capacity = s.capacity
    BY <1>9, <2>1, <2>2 DEF Slots
  <2>4. TilesOK(b)
    BY <1>9, <2>1, <2>3 DEF TilesOK
  <2> QED BY <2>3, <2>4 DEF order
<1> HIDE DEF b
<1>14. GoodSlot(f) /\ f.order = s.order \o bar
  BY <1>13, FillFacts
<1> HIDE DEF f
<1>15. /\ ModelTypeOK(n) /\ n.windows = windows
       /\ n.focus = m.focus /\ n.next_id = m.next_id
       /\ DOMAIN n.slots = DOMAIN m.slots \cup {to} /\ n.slots[to] = f
       /\ \A x \in DOMAIN m.slots \ {to} : n.slots[x] = emptied.slots[x]
  BY <1>7, <1>14, WithSlotFacts DEF GoodSlot
<1> HIDE DEF n
<1>16. Live(n) = Live(m)
  BY <1>3, <1>15 DEF Live
<1>17. HandlesOK(n)
  BY <1>1, <1>15, <1>16 DEF HandlesOK
<1>18. SlotsOK(n)
  BY <1>1, <1>6, <1>7, <1>14, <1>15 DEF SlotsOK, GoodSlot
<1>19. BarsOK(n)
  <2>1. ASSUME NEW x \in DOMAIN n.slots
        PROVE  Elements(n.slots[x].order) =
                 {w \in Live(m) : windows[w].role = "toplevel" /\ windows[w].output = x}
    <3>1. CASE x = to
      BY <1>3, <1>10, <1>11, <1>12, <1>14, <1>15, <3>1, ZenonT(60) DEF IsToplevel
    <3>2. CASE x = from
      <4>1. Elements(n.slots[x].order) = {}
        BY <1>6, <1>7, <1>15, <3>2 DEF Elements
      <4> QED BY <1>3, <3>2, <4>1
    <3>3. CASE x # to /\ x # from
      <4>1. x \in DOMAIN m.slots /\ n.slots[x] = m.slots[x]
        BY <1>7, <1>15, <3>3
      <4>2. Elements(n.slots[x].order) =
              {w \in Live(m) : m.windows[w].role = "toplevel" /\ m.windows[w].output = x}
        BY <1>1, <4>1 DEF BarsOK, IsToplevel
      <4> QED BY <1>3, <3>3, <4>2
    <3> QED BY <3>1, <3>2, <3>3
  <2>2. ASSUME NEW w \in Live(m), windows[w].role = "toplevel"
        PROVE  windows[w].output \in DOMAIN n.slots
    BY <1>1, <1>3, <1>15, <2>2 DEF BarsOK, IsToplevel
  <2> QED BY <1>15, <1>16, <2>1, <2>2 DEF BarsOK, IsToplevel
<1> QED BY <1>2, <1>15, <1>17, <1>18, <1>19 DEF Good

----------------------------------------------------------------------------
(* What a method does to the windows, and to what is placed                *)

\* Writing a slot and the focus leaves the windows and the next handle.
LEMMA SlotWritten ==
  ASSUME NEW m, ModelTypeOK(m), NEW o, NEW s
  PROVE  /\ WithSlot(m, o, s).windows = m.windows /\ WithSlot(m, o, s).next_id = m.next_id
         /\ \A f : /\ [m EXCEPT !.focus = f].windows = m.windows
                   /\ [m EXCEPT !.focus = f].next_id = m.next_id
                   /\ [m EXCEPT !.focus = f].slots = m.slots
                   /\ [m EXCEPT !.focus = f].focus = f
                   /\ [WithSlot(m, o, s) EXCEPT !.focus = f].windows = m.windows
                   /\ [WithSlot(m, o, s) EXCEPT !.focus = f].next_id = m.next_id
<1>1. m = [windows |-> m.windows, created |-> m.created, slots |-> m.slots,
           focus |-> m.focus, next_id |-> m.next_id]
  BY ModelParts
<1> DEFINE slots == [x \in DOMAIN m.slots \cup {o} |-> IF x = o THEN s ELSE m.slots[x]]
<1> DEFINE created == IF o \in DOMAIN m.slots THEN m.created ELSE Append(m.created, o)
<1>2. WithSlot(m, o, s) = [m EXCEPT !.slots = slots, !.created = created]
  BY DEF WithSlot
<1> HIDE DEF slots, created
<1>3. WithSlot(m, o, s) = [windows |-> m.windows, created |-> created, slots |-> slots,
                           focus |-> m.focus, next_id |-> m.next_id]
  BY <1>1, <1>2
<1> QED BY <1>1, <1>3

LEMMA FocusWritten ==
  ASSUME NEW m, ModelTypeOK(m), NEW n,
         \E f, o, s : \/ n = m \/ n = WithSlot(m, o, s) \/ n = [m EXCEPT !.focus = f]
                      \/ n = [WithSlot(m, o, s) EXCEPT !.focus = f]
  PROVE  n.windows = m.windows /\ n.next_id = m.next_id
<1>1. PICK f, o, s : \/ n = m \/ n = WithSlot(m, o, s) \/ n = [m EXCEPT !.focus = f]
                     \/ n = [WithSlot(m, o, s) EXCEPT !.focus = f]
  OBVIOUS
<1>2. /\ WithSlot(m, o, s).windows = m.windows
      /\ WithSlot(m, o, s).next_id = m.next_id
      /\ [m EXCEPT !.focus = f].windows = m.windows
      /\ [m EXCEPT !.focus = f].next_id = m.next_id
      /\ [WithSlot(m, o, s) EXCEPT !.focus = f].windows = m.windows
      /\ [WithSlot(m, o, s) EXCEPT !.focus = f].next_id = m.next_id
  BY SlotWritten
<1> QED BY <1>1, <1>2, Zenon

\* The same windows, on other tiles or with another focus.
Rearranged(m, n) == n.windows = m.windows /\ n.next_id = m.next_id

\* The methods that write no window.
LEMMA Rearranging ==
  ASSUME NEW m, ModelTypeOK(m)
  PROVE  /\ \A o, c : Rearranged(m, SetCapacity(m, o, c))
         /\ \A f : Rearranged(m, Focus(m, f))
         /\ \A id : Rearranged(m, Activate(m, id))
         /\ \A o, forward : Rearranged(m, CycleFocus(m, o, forward))
<1>1. ASSUME NEW o, NEW c PROVE Rearranged(m, SetCapacity(m, o, c))
  <2>1. \E s : SetCapacity(m, o, c) = WithSlot(m, o, s)
    BY Zenon DEF SetCapacity
  <2> QED BY <2>1, FocusWritten DEF Rearranged
<1>2. ASSUME NEW f PROVE Rearranged(m, Focus(m, f))
  BY SlotWritten DEF Rearranged, Focus
<1>3. ASSUME NEW id PROVE Rearranged(m, Activate(m, id))
  <2>1. \E o, s : \/ Activate(m, id) = [m EXCEPT !.focus = id]
                  \/ Activate(m, id) = [WithSlot(m, o, s) EXCEPT !.focus = id]
    BY Zenon DEF Activate
  <2> QED BY <2>1, FocusWritten DEF Rearranged
<1>4. ASSUME NEW o, NEW forward PROVE Rearranged(m, CycleFocus(m, o, forward))
  BY <1>3 DEF CycleFocus, Rearranged
<1> QED BY <1>1, <1>2, <1>3, <1>4

\* A new toplevel has a handle that no window has or had.
LEMMA OpenToplevelAdds ==
  ASSUME NEW m, Good(m), NEW o \in Outputs
  PROVE  LET n == OpenToplevel(m, o)
             id == m.next_id
         IN  /\ id \in Nat /\ id \notin Live(m) /\ n.next_id = id + 1
             /\ Live(n) = Live(m) \cup {id}
             /\ n.windows[id] = [role |-> "toplevel", parent |-> NoWindow, output |-> o]
             /\ \A x \in Live(m) : n.windows[x] = m.windows[x]
<1> DEFINE w == [role |-> "toplevel", parent |-> NoWindow, output |-> o]
<1> DEFINE p == PushWindow(m, w)
<1> DEFINE n == OpenToplevel(m, o)
<1> DEFINE id == m.next_id
<1>1. ModelTypeOK(m) /\ HandlesOK(m) /\ id \in Nat
  BY ModelParts DEF Good
<1>2. w \in Windows
  BY DEF Windows, Roles
<1>3. \E s : n = [WithSlot(p, o, s) EXCEPT !.focus = id]
  BY Zenon DEF OpenToplevel
<1> HIDE DEF w
<1>4. /\ ModelTypeOK(p) /\ id \notin Live(m) /\ Live(p) = Live(m) \cup {id}
      /\ p.windows[id] = w /\ p.next_id = m.next_id + 1
      /\ \A x \in Live(m) : p.windows[x] = m.windows[x]
  BY <1>1, <1>2, PushWindowFacts
<1> HIDE DEF p, n
<1>5. n.windows = p.windows /\ n.next_id = p.next_id
  <2> HIDE DEF id
  <2> QED BY <1>3, <1>4, FocusWritten
<1>6. Live(n) = Live(m) \cup {id}
  BY <1>4, <1>5 DEF Live
<1> QED BY <1>1, <1>4, <1>5, <1>6 DEF n, w

\* A dialog or popup is added below its parent and takes no tile.
LEMMA OpenChildAdds ==
  ASSUME NEW m, Good(m), NEW parent \in Live(m), NEW role \in {"dialog", "popup"}
  PROVE  LET n == OpenChild(m, parent, role)
             id == m.next_id
         IN  /\ id \in Nat /\ id \notin Live(m) /\ n.next_id = id + 1
             /\ Live(n) = Live(m) \cup {id}
             /\ n.windows[id].role = role /\ n.windows[id].parent = parent
             /\ \A x \in Live(m) : n.windows[x] = m.windows[x]
             /\ n.slots = m.slots
             /\ role = "popup" => n.focus = m.focus
<1> DEFINE w == [role |-> role, parent |-> parent, output |-> m.windows[parent].output]
<1> DEFINE p == PushWindow(m, w)
<1> DEFINE n == OpenChild(m, parent, role)
<1> DEFINE id == m.next_id
<1>1. /\ ModelTypeOK(m) /\ HandlesOK(m) /\ Live(m) \subseteq Nat /\ m.windows \in [Live(m) -> Windows] /\ id \in Nat
  BY ModelParts DEF Good
<1>2. w \in Windows
  BY <1>1 DEF Windows, Roles
<1>3. w.role = role /\ w.parent = parent
  OBVIOUS
<1>4. n = [p EXCEPT !.focus = IF role = "dialog" THEN m.next_id ELSE p.focus]
  BY Zenon DEF OpenChild
<1> HIDE DEF w
<1>5. /\ ModelTypeOK(p) /\ id \notin Live(m) /\ Live(p) = Live(m) \cup {id}
      /\ p.windows[id] = w /\ p.next_id = m.next_id + 1 /\ p.slots = m.slots
      /\ p.focus = m.focus
      /\ \A x \in Live(m) : p.windows[x] = m.windows[x]
  BY <1>1, <1>2, PushWindowFacts
<1> HIDE DEF p, n
<1>6. /\ n.windows = p.windows /\ n.next_id = p.next_id /\ n.slots = p.slots
      /\ n.focus = IF role = "dialog" THEN m.next_id ELSE p.focus
  BY <1>4, <1>5, SlotWritten
<1>7. Live(n) = Live(m) \cup {id}
  BY <1>5, <1>6 DEF Live
<1> QED BY <1>1, <1>3, <1>5, <1>6, <1>7 DEF n

\* A window that closes takes its family with it and nothing else.
LEMMA CloseRemoves ==
  ASSUME NEW m, Good(m), NEW id
  PROVE  LET n == Close(m, id)
         IN  /\ Live(n) = Live(m) \ Family(m, id) /\ n.next_id = m.next_id
             /\ \A w \in Live(n) : n.windows[w] = m.windows[w]
             /\ n.slots = WithoutWindows(m.slots, Family(m, id))
             /\ m.focus \notin Family(m, id) => n.focus = m.focus
<1> DEFINE windows == [w \in DOMAIN m.windows \ Family(m, id) |-> m.windows[w]]
<1> DEFINE slots == WithoutWindows(m.slots, Family(m, id))
<1> DEFINE left == [m EXCEPT !.windows = windows, !.slots = slots]
<1> DEFINE f == IF left.focus \in Family(m, id) THEN FirstTiled(left) ELSE left.focus
<1> DEFINE n == Close(m, id)
<1>1. n = [left EXCEPT !.focus = f]
  BY DEF Close
<1>2. m = [windows |-> m.windows, created |-> m.created, slots |-> m.slots,
           focus |-> m.focus, next_id |-> m.next_id]
  BY ModelParts DEF Good
<1>3. left = [m EXCEPT !.windows = windows, !.slots = slots]
  OBVIOUS
<1>4. DOMAIN windows = Live(m) \ Family(m, id) /\ \A w \in DOMAIN windows : windows[w] = m.windows[w]
  BY DEF Live
<1>5. left.focus \notin Family(m, id) => f = left.focus
  OBVIOUS
<1> HIDE DEF f, n, left, windows, slots
<1>6. left = [windows |-> windows, created |-> m.created, slots |-> slots,
              focus |-> m.focus, next_id |-> m.next_id]
  BY <1>2, <1>3
<1>7. n.windows = windows /\ n.slots = slots /\ n.next_id = m.next_id /\ n.focus = f
  BY <1>1, <1>6
<1> QED BY <1>4, <1>5, <1>6, <1>7 DEF Live, n, slots

\* An adopted toplevel becomes a dialog below its parent; it has focus, and
\* the other windows are what they were.
LEMMA AdoptChanges ==
  ASSUME NEW m, Good(m), NEW id, NEW parent, CanAdopt(m, id, parent)
  PROVE  LET n == AdoptAsDialog(m, id, parent)
         IN  /\ Live(n) = Live(m) /\ n.next_id = m.next_id
             /\ n.windows[id].role = "dialog" /\ n.windows[id].parent = parent
             /\ \A w \in Live(m) \ {id} : n.windows[w] = m.windows[w]
<1>1. /\ id \in Live(m) /\ parent \in Live(m)
      /\ m.windows \in [Live(m) -> Windows] /\ Live(m) = DOMAIN m.windows
  BY ModelParts DEF CanAdopt, Good
<1> DEFINE d == [m.windows[id] EXCEPT !.role = "dialog", !.parent = parent,
                                      !.output = m.windows[parent].output]
<1> DEFINE windows == [m.windows EXCEPT ![id] = d]
<1> DEFINE slots == WithoutWindows(m.slots, {id})
<1> DEFINE n == AdoptAsDialog(m, id, parent)
<1>2. n = [m EXCEPT !.windows = windows, !.slots = slots, !.focus = id]
  BY <1>1, ZenonT(60) DEF AdoptAsDialog
<1>3. m = [windows |-> m.windows, created |-> m.created, slots |-> m.slots,
           focus |-> m.focus, next_id |-> m.next_id]
  BY ModelParts DEF Good
<1>4. d.role = "dialog" /\ d.parent = parent
  <2> DEFINE v == m.windows[id]
  <2>1. v \in Windows
    BY <1>1
  <2>2. d = [v EXCEPT !.role = "dialog", !.parent = parent, !.output = m.windows[parent].output]
    OBVIOUS
  <2> HIDE DEF v, d
  <2> QED BY <2>1, <2>2 DEF Windows
<1> HIDE DEF d
<1>5. /\ DOMAIN windows = Live(m) /\ windows[id] = d
      /\ \A w \in Live(m) \ {id} : windows[w] = m.windows[w]
  BY <1>1
<1> HIDE DEF windows, slots, n
<1>6. n.windows = windows /\ n.next_id = m.next_id
  BY <1>2, <1>3
<1> QED BY <1>4, <1>5, <1>6 DEF Live, n

\* What is on an output, and what waits for a tile of it, is alive.
LEMMA PlacedAreLive ==
  ASSUME NEW m, Good(m), NEW o
  PROVE  /\ Placed(m, o) \subseteq Live(m)
         /\ NoWindow \notin Live(m)
         /\ Elements(Tiled(m, o)) \subseteq Live(m)
         /\ Elements(Bar(m, o)) \subseteq Live(m)
         /\ Tiled(m, o) \in Seq(Nat) /\ Bar(m, o) \in Seq(Nat)
<1>1. /\ SlotsOK(m) /\ BarsOK(m) /\ Live(m) \subseteq Nat
      /\ m.slots \in [DOMAIN m.slots -> Slots]
  BY ModelParts DEF Good, Live
<1>2. CASE o \in DOMAIN m.slots
  <2>1. /\ TilesOK(m.slots[o]) /\ m.slots[o] \in Slots
        /\ Elements(m.slots[o].order) \subseteq Live(m)
    BY <1>1, <1>2 DEF SlotsOK, BarsOK
  <2> QED BY <1>1, <1>2, <2>1 DEF TilesOK, Placed, Tiled, Bar, Slots
<1>3. CASE o \notin DOMAIN m.slots
  <2>1. Elements(<< >>) = {} /\ << >> \in Seq(Nat)
    BY DEF Elements
  <2> QED BY <1>1, <1>3, <2>1 DEF Placed, Tiled, Bar
<1> QED BY <1>2, <1>3

----------------------------------------------------------------------------
(* Families.  The parent chains stay a forest: for each method, a set that *)
(* holds the new family of a window and not its parent.                    *)

\* Closed under children, as a family is.
Closed(m, S) == \A x \in Live(m) : m.windows[x].parent \in S => x \in S

LEMMA FamilyFacts ==
  ASSUME NEW m, NEW id
  PROVE  /\ Family(m, id) \subseteq Live(m)
         /\ id \in Live(m) => id \in Family(m, id)
         /\ Closed(m, Family(m, id))
         /\ \A S \in SUBSET Live(m) : id \in S /\ Closed(m, S) => Family(m, id) \subseteq S
<1>1. Closed(m, Family(m, id))
  <2> SUFFICES ASSUME NEW x \in Live(m), m.windows[x].parent \in Family(m, id)
               PROVE  x \in Family(m, id)
    BY DEF Closed
  <2> SUFFICES ASSUME NEW S \in SUBSET Live(m), id \in S,
                      \A y \in Live(m) : m.windows[y].parent \in S => y \in S
               PROVE  x \in S
    BY Zenon DEF Family
  <2>1. m.windows[x].parent \in S
    BY Zenon DEF Family
  <2> QED BY <2>1
<1> QED BY <1>1, Zenon DEF Family, Closed

\* The same windows with the same parents, elsewhere on the screen.
LEMMA SameFamilies ==
  ASSUME NEW m, NEW n, FamiliesOK(m), Live(n) = Live(m),
         \A w \in Live(m) : /\ n.windows[w].role = m.windows[w].role
                            /\ n.windows[w].parent = m.windows[w].parent
  PROVE  FamiliesOK(n)
<1>1. ASSUME NEW w \in Live(n) PROVE Family(n, w) \subseteq Family(m, w)
  <2>1. Closed(n, Family(m, w))
    BY FamilyFacts DEF Closed
  <2>2. w \in Family(m, w) /\ Family(m, w) \in SUBSET Live(n)
    BY FamilyFacts
  <2> QED BY <2>1, <2>2, FamilyFacts
<1> QED BY <1>1 DEF FamiliesOK, IsToplevel

\* A new window, a child of one that is there or of none.
LEMMA NewFamily ==
  ASSUME NEW m, NEW n, FamiliesOK(m), NEW id, id \notin Live(m), id # NoWindow,
         Live(n) = Live(m) \cup {id},
         \A w \in Live(m) : n.windows[w] = m.windows[w],
         IF IsToplevel(n, id) THEN n.windows[id].parent = NoWindow
                              ELSE n.windows[id].parent \in Live(m),
         NoWindow \notin Live(m)
  PROVE  FamiliesOK(n)
<1> SUFFICES ASSUME NEW w \in Live(n)
             PROVE  /\ IsToplevel(n, w) <=> n.windows[w].parent = NoWindow
                    /\ ~IsToplevel(n, w) => /\ n.windows[w].parent \in Live(n)
                                            /\ n.windows[w].parent \notin Family(n, w)
  BY DEF FamiliesOK
<1>1. \A x \in Live(m) : m.windows[x].parent \in Live(m) \cup {NoWindow}
  BY DEF FamiliesOK
<1>2. \A x \in Live(n) : n.windows[x].parent # id
  BY <1>1 DEF IsToplevel
<1>3. CASE w = id
  <2>1. Family(n, w) \subseteq {id}
    <3>1. Closed(n, {id})
      BY <1>2 DEF Closed
    <3> QED BY <1>3, <3>1, FamilyFacts
  <2> QED BY <1>2, <1>3, <2>1
<1>4. CASE w \in Live(m)
  <2>1. Family(n, w) \subseteq Family(m, w) \cup {id}
    <3>1. Closed(n, Family(m, w) \cup {id})
      <4>1. Closed(m, Family(m, w))
        BY FamilyFacts
      <4> QED BY <1>2, <4>1 DEF Closed
    <3>2. w \in Family(m, w) /\ Family(m, w) \cup {id} \in SUBSET Live(n)
      BY <1>4, FamilyFacts
    <3> QED BY <3>1, <3>2, FamilyFacts
  <2>2. /\ IsToplevel(m, w) <=> m.windows[w].parent = NoWindow
        /\ ~IsToplevel(m, w) => /\ m.windows[w].parent \in Live(m)
                                /\ m.windows[w].parent \notin Family(m, w)
    BY <1>4 DEF FamiliesOK
  <2> QED BY <1>4, <2>1, <2>2 DEF IsToplevel
<1> QED BY <1>3, <1>4

\* A family closed with everything below it.
LEMMA FamilyGone ==
  ASSUME NEW m, NEW n, FamiliesOK(m), NEW id,
         Live(n) = Live(m) \ Family(m, id),
         \A w \in Live(n) : n.windows[w] = m.windows[w]
  PROVE  FamiliesOK(n)
<1> SUFFICES ASSUME NEW w \in Live(n)
             PROVE  /\ IsToplevel(n, w) <=> n.windows[w].parent = NoWindow
                    /\ ~IsToplevel(n, w) => /\ n.windows[w].parent \in Live(n)
                                            /\ n.windows[w].parent \notin Family(n, w)
  BY DEF FamiliesOK
<1>1. /\ IsToplevel(m, w) <=> m.windows[w].parent = NoWindow
      /\ ~IsToplevel(m, w) => /\ m.windows[w].parent \in Live(m)
                              /\ m.windows[w].parent \notin Family(m, w)
  BY DEF FamiliesOK
<1>2. m.windows[w].parent \notin Family(m, id)
  BY FamilyFacts DEF Closed
<1>3. Family(n, w) \subseteq Family(m, w)
  <2> DEFINE S == Family(m, w) \cap Live(n)
  <2>1. Closed(n, S)
    BY FamilyFacts DEF Closed
  <2>2. w \in S
    BY FamilyFacts
  <2>3. S \in SUBSET Live(n)
    OBVIOUS
  <2> HIDE DEF S
  <2>4. Family(n, w) \subseteq S
    BY <2>1, <2>2, <2>3, FamilyFacts
  <2> QED BY <2>4 DEF S
<1> QED BY <1>1, <1>2, <1>3 DEF IsToplevel

\* A toplevel hung below a window that is not below it: the new family of a
\* window above the parent grows by id's, and no other changes.
LEMMA FamilyAdopted ==
  ASSUME NEW m, NEW n, FamiliesOK(m), NEW id \in Live(m), NEW parent \in Live(m),
         parent \notin Family(m, id), NoWindow \notin Live(m),
         Live(n) = Live(m),
         \A w \in Live(m) \ {id} : n.windows[w] = m.windows[w],
         ~IsToplevel(n, id), n.windows[id].parent = parent
  PROVE  FamiliesOK(n)
<1> SUFFICES ASSUME NEW w \in Live(n)
             PROVE  /\ IsToplevel(n, w) <=> n.windows[w].parent = NoWindow
                    /\ ~IsToplevel(n, w) => /\ n.windows[w].parent \in Live(n)
                                            /\ n.windows[w].parent \notin Family(n, w)
  BY DEF FamiliesOK
<1>1. /\ Family(m, id) \subseteq Live(m) /\ id \in Family(m, id) /\ Closed(m, Family(m, id))
      /\ Family(m, w) \subseteq Live(m) /\ w \in Family(m, w) /\ Closed(m, Family(m, w))
  BY FamilyFacts
<1>2. CASE w = id
  <2>1. Closed(n, Family(m, id))
    BY <1>1 DEF Closed
  <2>2. Family(n, w) \subseteq Family(m, id)
    <3>1. Family(m, id) \in SUBSET Live(n)
      BY <1>1
    <3> QED BY <1>1, <1>2, <2>1, <3>1, FamilyFacts
  <2> QED BY <1>2, <2>2
<1>3. CASE w # id
  <2>1. /\ IsToplevel(m, w) <=> m.windows[w].parent = NoWindow
        /\ ~IsToplevel(m, w) => /\ m.windows[w].parent \in Live(m)
                                /\ m.windows[w].parent \notin Family(m, w)
    BY DEF FamiliesOK
  <2>2. n.windows[w] = m.windows[w]
    BY <1>3
  <2>3. CASE parent \notin Family(m, w)
    <3>1. Closed(n, Family(m, w))
      BY <1>1, <2>3 DEF Closed
    <3>2. Family(m, w) \in SUBSET Live(n)
      BY <1>1
    <3>3. Family(n, w) \subseteq Family(m, w)
      BY <1>1, <3>1, <3>2, FamilyFacts
    <3> QED BY <2>1, <2>2, <3>3 DEF IsToplevel
  <2>4. CASE parent \in Family(m, w)
    <3> DEFINE S == Family(m, w) \cup Family(m, id)
    <3>1. Closed(n, S)
      BY <1>1 DEF Closed
    <3>2. S \in SUBSET Live(n) /\ w \in S
      BY <1>1
    <3>3. Family(n, w) \subseteq S
      <4> HIDE DEF S
      <4> QED BY <3>1, <3>2, FamilyFacts
    <3>4. w \notin Family(m, id)
      <4> SUFFICES ASSUME w \in Family(m, id) PROVE FALSE
        OBVIOUS
      <4>1. Family(m, id) \in SUBSET Live(m)
        BY <1>1
      <4>2. Family(m, w) \subseteq Family(m, id)
        BY <1>1, <4>1, FamilyFacts
      <4> QED BY <2>4, <4>2
    <3>5. m.windows[w].parent \notin Family(m, id)
      BY <1>1, <3>4 DEF Closed
    <3> QED BY <2>1, <2>2, <3>3, <3>5 DEF IsToplevel
  <2> QED BY <2>3, <2>4
<1> QED BY <1>2, <1>3

LEMMA SlotsChangeNoFamily ==
  ASSUME NEW m, Good(m), FamiliesOK(m)
  PROVE  /\ \A o, c : FamiliesOK(SetCapacity(m, o, c))
         /\ \A f : FamiliesOK(Focus(m, f))
         /\ \A id : FamiliesOK(Activate(m, id))
         /\ \A o, forward : FamiliesOK(CycleFocus(m, o, forward))
<1>1. ModelTypeOK(m)
  BY DEF Good
<1>2. ASSUME NEW n, Rearranged(m, n) PROVE FamiliesOK(n)
  <2>1. n.windows = m.windows /\ Live(n) = Live(m)
    BY <1>2 DEF Live, Rearranged
  <2> QED BY <2>1, SameFamilies
<1> QED BY <1>1, <1>2, Rearranging

LEMMA OpenChildFamilies ==
  ASSUME NEW m, Good(m), FamiliesOK(m), NEW parent \in Live(m), NEW role \in {"dialog", "popup"}
  PROVE  FamiliesOK(OpenChild(m, parent, role))
<1> DEFINE n == OpenChild(m, parent, role)
<1>1. Live(m) \subseteq Nat
  BY ModelParts DEF Good
<1>2. /\ m.next_id \in Nat /\ m.next_id \notin Live(m)
      /\ Live(n) = Live(m) \cup {m.next_id}
      /\ ~IsToplevel(n, m.next_id) /\ n.windows[m.next_id].parent \in Live(m)
      /\ \A x \in Live(m) : n.windows[x] = m.windows[x]
  BY OpenChildAdds DEF IsToplevel
<1> HIDE DEF n
<1>3. FamiliesOK(n)
  BY <1>1, <1>2, NewFamily
<1> QED BY <1>3 DEF n

LEMMA OpenToplevelFamilies ==
  ASSUME NEW m, Good(m), FamiliesOK(m), NEW o \in Outputs
  PROVE  FamiliesOK(OpenToplevel(m, o))
<1> DEFINE n == OpenToplevel(m, o)
<1>1. Live(m) \subseteq Nat
  BY ModelParts DEF Good
<1>2. /\ m.next_id \in Nat /\ m.next_id \notin Live(m)
      /\ Live(n) = Live(m) \cup {m.next_id}
      /\ n.windows[m.next_id] = [role |-> "toplevel", parent |-> NoWindow, output |-> o]
      /\ \A x \in Live(m) : n.windows[x] = m.windows[x]
  BY OpenToplevelAdds
<1> HIDE DEF n
<1>3. IsToplevel(n, m.next_id) /\ n.windows[m.next_id].parent = NoWindow
  BY <1>2 DEF IsToplevel
<1>4. FamiliesOK(n)
  BY <1>1, <1>2, <1>3, NewFamily
<1> QED BY <1>4 DEF n

LEMMA CloseFamilies ==
  ASSUME NEW m, Good(m), FamiliesOK(m), NEW id
  PROVE  FamiliesOK(Close(m, id))
BY CloseRemoves, FamilyGone

LEMMA AdoptFamilies ==
  ASSUME NEW m, Good(m), FamiliesOK(m), NEW id, NEW parent
  PROVE  FamiliesOK(AdoptAsDialog(m, id, parent))
<1> SUFFICES ASSUME CanAdopt(m, id, parent) PROVE FamiliesOK(AdoptAsDialog(m, id, parent))
  BY DEF AdoptAsDialog
<1> DEFINE n == AdoptAsDialog(m, id, parent)
<1>1. /\ id \in Live(m) /\ parent \in Live(m) /\ parent \notin Family(m, id)
      /\ Live(m) \subseteq Nat /\ NoWindow \notin Live(m)
  BY ModelParts DEF CanAdopt, Good
<1>2. /\ Live(n) = Live(m) /\ ~IsToplevel(n, id) /\ n.windows[id].parent = parent
      /\ \A w \in Live(m) \ {id} : n.windows[w] = m.windows[w]
  BY AdoptChanges DEF IsToplevel
<1> HIDE DEF n
<1>3. FamiliesOK(n)
  BY <1>1, <1>2, FamilyAdopted
<1> QED BY <1>3 DEF n

\* A dialog or a menu that closes takes no toplevel with it: every tile stays
\* where it is, and what is placed or waits is what it was.
LEMMA CloseChild ==
  ASSUME NEW m, Good(m), FamiliesOK(m), NEW id \in Live(m), ~IsToplevel(m, id), NEW o
  PROVE  LET n == Close(m, id)
         IN  /\ n.slots = m.slots
             /\ Placed(n, o) = Placed(m, o) \cap Live(n)
             /\ Waiting(n, o) = Waiting(m, o)
<1> DEFINE n == Close(m, id)
<1> DEFINE gone == Family(m, id)
<1>1. \A w \in gone : w \in Live(m) /\ ~IsToplevel(m, w)
  <2> DEFINE S == {w \in Live(m) : ~IsToplevel(m, w)}
  <2>1. Closed(m, S)
    <3> SUFFICES ASSUME NEW x \in Live(m), m.windows[x].parent \in S PROVE x \in S
      BY DEF Closed
    <3>1. m.windows[x].parent # NoWindow
      BY ModelParts DEF Good
    <3> QED BY <3>1 DEF FamiliesOK
  <2>2. S \in SUBSET Live(m) /\ id \in S
    OBVIOUS
  <2> HIDE DEF S
  <2>3. gone \subseteq S
    BY <2>1, <2>2, FamilyFacts
  <2> QED BY <2>3 DEF S
<1>2. /\ Live(n) = Live(m) \ gone
      /\ \A w \in Live(n) : n.windows[w] = m.windows[w]
      /\ n.slots = WithoutWindows(m.slots, gone)
  BY CloseRemoves
<1> HIDE DEF n, gone
<1>3. \A x \in DOMAIN m.slots : Elements(m.slots[x].order) \cap gone = {}
  BY <1>1 DEF Good, BarsOK
<1>4. n.slots = m.slots
  BY <1>2, <1>3, WithoutNone
<1>5. Elements(Tiled(m, o)) \cap gone = {} /\ Tiled(n, o) = Tiled(m, o)
  <2>1. CASE o \in DOMAIN m.slots
    BY <1>3, <1>4, <2>1 DEF Tiled, Good, SlotsOK, TilesOK
  <2>2. CASE o \notin DOMAIN m.slots
    BY <1>4, <2>2 DEF Tiled, Elements
  <2> QED BY <2>1, <2>2
<1>6. Elements(Tiled(m, o)) \subseteq Live(n)
  BY <1>2, <1>5, PlacedAreLive
<1>7. Placed(n, o) = Placed(m, o) \cap Live(n)
  <2>1. \A w \in Live(n) : IsToplevel(n, w) <=> IsToplevel(m, w)
    BY <1>2 DEF IsToplevel
  <2> QED BY <1>2, <1>4, <1>5, <1>6, <2>1 DEF Placed
<1>8. Waiting(n, o) = Waiting(m, o)
  BY <1>4 DEF Waiting
<1> QED BY <1>4, <1>7, <1>8 DEF n

LEMMA MigrateFamilies ==
  ASSUME NEW m, Good(m), FamiliesOK(m), NEW from, NEW to \in Outputs
  PROVE  FamiliesOK(Migrate(m, from, to))
<1> SUFFICES ASSUME from # to, from \in DOMAIN m.slots PROVE FamiliesOK(Migrate(m, from, to))
  BY DEF Migrate
<1> DEFINE windows == [w \in DOMAIN m.windows |->
                        IF m.windows[w].output = from THEN [m.windows[w] EXCEPT !.output = to]
                        ELSE m.windows[w]]
<1> DEFINE moved == [m EXCEPT !.windows = windows]
<1> DEFINE e == [m.slots[from] EXCEPT !.order = << >>, !.tiled = << >>]
<1> DEFINE emptied == WithSlot(moved, from, e)
<1> DEFINE n == Migrate(m, from, to)
<1>1. /\ m.windows \in [Live(m) -> Windows] /\ Live(m) = DOMAIN m.windows
      /\ DOMAIN m.slots \subseteq Outputs /\ m.slots \in [DOMAIN m.slots -> Slots]
  BY ModelParts DEF Good
<1>2. \E s : n = WithSlot(emptied, to, s)
  BY DEF Migrate
<1>3. /\ DOMAIN windows = Live(m) /\ windows \in [Live(m) -> Windows]
      /\ \A w \in Live(m) : /\ windows[w].role = m.windows[w].role
                            /\ windows[w].parent = m.windows[w].parent
  <2>1. ASSUME NEW v \in Windows
        PROVE  /\ [v EXCEPT !.output = to] \in Windows
               /\ [v EXCEPT !.output = to].role = v.role
               /\ [v EXCEPT !.output = to].parent = v.parent
    BY DEF Windows
  <2> QED BY <1>1, <2>1
<1>4. ModelTypeOK(moved) /\ moved.windows = windows
  <2>1. m = [windows |-> m.windows, created |-> m.created, slots |-> m.slots,
             focus |-> m.focus, next_id |-> m.next_id]
    BY ModelParts DEF Good
  <2> HIDE DEF windows
  <2>2. moved = [windows |-> windows, created |-> m.created, slots |-> m.slots,
                 focus |-> m.focus, next_id |-> m.next_id]
    BY <2>1
  <2> HIDE DEF moved
  <2>3. ModelTypeOK([windows |-> windows, created |-> m.created, slots |-> m.slots,
                     focus |-> m.focus, next_id |-> m.next_id])
    BY <1>1, <1>3, MakeModel, ModelParts DEF Good
  <2> QED BY <2>2, <2>3
<1> HIDE DEF windows, moved
<1>5. e \in Slots
  <2> DEFINE v == m.slots[from]
  <2>1. v \in Slots /\ << >> \in Seq(Nat)
    BY <1>1
  <2> HIDE DEF v
  <2>2. [v EXCEPT !.order = << >>, !.tiled = << >>] =
          [order |-> << >>, tiled |-> << >>, capacity |-> v.capacity]
    BY <2>1, SlotWithBar, Zenon
  <2>3. [order |-> << >>, tiled |-> << >>, capacity |-> v.capacity] \in Slots
    BY <2>1 DEF Slots
  <2> QED BY <2>2, <2>3, Zenon DEF v
<1> HIDE DEF e
<1>6. ModelTypeOK(emptied) /\ emptied.windows = windows
  <2>1. from \in Outputs
    BY <1>1
  <2> QED BY <1>4, <1>5, <2>1, WithSlotFacts
<1> HIDE DEF emptied, n
<1>7. n.windows = windows
  BY <1>2, <1>6, SlotWritten
<1>8. FamiliesOK(n)
  BY <1>3, <1>7, SameFamilies DEF Live
<1> QED BY <1>8 DEF n
==============================================================================
