--------------------------- MODULE Ordering_proofs ---------------------------
(***************************************************************************)
(* What the proofs of several components share about order: induction over *)
(* the natural numbers as a fact about sets, what Only(q, S) returns,      *)
(* lists without repetition, ranks in a set of integers, and the numbering *)
(* of outputs that TurnOutput promises.                                    *)
(***************************************************************************)
EXTENDS SequenceFilter, FiniteSetTheorems, NaturalsInduction, WellFoundedInduction, TLAPS

(***************************************************************************)
(* Every set of natural numbers that is not empty has a least element.     *)
(***************************************************************************)
LEMMA LeastNatural ==
  ASSUME NEW T \in SUBSET Nat, T # {}
  PROVE  \E n \in T : \A m \in T : n <= m
<1> DEFINE R == {ss \in Nat \X Nat : ss[1] < ss[2]}
<1>1. IsWellFoundedOn(R, Nat)
  BY NatLessThanWellFounded DEF OpToRel
<1>2. PICK n \in T : \A m \in T : ~ (<<m, n>> \in R)
  BY <1>1, WFMin, Zenon
<1>3. \A m \in T : ~(m < n)
  BY <1>2
<1> QED
  BY <1>3

(***************************************************************************)
(* A set that has 0, and n + 1 with every n, has all natural numbers.      *)
(***************************************************************************)
LEMMA SetInduction ==
  ASSUME NEW S, 0 \in S, \A n \in Nat : n \in S => n + 1 \in S
  PROVE  Nat \subseteq S
<1> SUFFICES ASSUME Nat \ S # {} PROVE FALSE
  OBVIOUS
<1>1. PICK n \in Nat \ S : \A m \in Nat \ S : n <= m
  BY LeastNatural
<1> QED
  BY <1>1

-----------------------------------------------------------------------------
\* kept is the function that Only(q, S) computes, up to n.
Filters(kept, n, q, S) ==
  kept = [i \in 0..n |->
            IF i = 0 THEN << >>
            ELSE IF q[i] \in S THEN Append(kept[i - 1], q[i]) ELSE kept[i - 1]]

LEMMA FiltersAt ==
  ASSUME NEW n \in Nat, NEW q, NEW S, NEW kept, Filters(kept, n, q, S)
  PROVE  /\ kept[0] = << >>
         /\ \A i \in 1..n : kept[i] = IF q[i] \in S THEN Append(kept[i - 1], q[i])
                                      ELSE kept[i - 1]
<1> DEFINE value(i) == IF i = 0 THEN << >>
                       ELSE IF q[i] \in S THEN Append(kept[i - 1], q[i]) ELSE kept[i - 1]
<1>1. kept = [i \in 0..n |-> value(i)]
  BY DEF Filters
<1>2. \A i \in 0..n : kept[i] = value(i)
  <2> HIDE DEF value
  <2> QED
    BY <1>1
<1> QED
  BY <1>2

LEMMA FiltersNext ==
  ASSUME NEW n \in Nat, NEW q, NEW S, NEW kept, Filters(kept, n + 1, q, S)
  PROVE  /\ q[n + 1] \in S => kept[n + 1] = Append(kept[n], q[n + 1])
         /\ q[n + 1] \notin S => kept[n + 1] = kept[n]
<1> DEFINE value(i) == IF i = 0 THEN << >>
                       ELSE IF q[i] \in S THEN Append(kept[i - 1], q[i]) ELSE kept[i - 1]
           last == n + 1
<1>1. kept = [i \in 0..last |-> value(i)]
  BY DEF Filters
<1>2. last \in 0..last /\ last - 1 = n /\ last # 0
  OBVIOUS
<1> HIDE DEF last
<1>3. kept[last] = value(last)
  <2> HIDE DEF value
  <2> QED
    BY <1>1, <1>2
<1>4. /\ q[last] \in S => kept[last] = Append(kept[n], q[last])
      /\ q[last] \notin S => kept[last] = kept[n]
  BY <1>2, <1>3
<1> QED
  BY <1>4 DEF last

LEMMA FilterExists ==
  ASSUME NEW n \in Nat, NEW q, NEW S
  PROVE  \E kept : Filters(kept, n, q, S)
<1> DEFINE T == {m \in Nat : \E kept : Filters(kept, m, q, S)}
<1>1. 0 \in T
  <2>1. Filters([i \in 0..0 |-> << >>], 0, q, S)
    BY DEF Filters
  <2> QED
    BY <2>1
<1>2. ASSUME NEW m \in Nat, m \in T PROVE m + 1 \in T
  <2>1. PICK kept : Filters(kept, m, q, S)
    BY <1>2
  <2> DEFINE last == IF q[m + 1] \in S THEN Append(kept[m], q[m + 1]) ELSE kept[m]
             longer == [i \in 0..(m + 1) |-> IF i = m + 1 THEN last ELSE kept[i]]
             value(i) == IF i = 0 THEN << >>
                         ELSE IF q[i] \in S THEN Append(longer[i - 1], q[i]) ELSE longer[i - 1]
  <2>2. /\ kept[0] = << >>
        /\ \A i \in 1..m : kept[i] = IF q[i] \in S THEN Append(kept[i - 1], q[i])
                                     ELSE kept[i - 1]
    BY <2>1, FiltersAt
  <2>3. ASSUME NEW i \in 0..(m + 1) PROVE (IF i = m + 1 THEN last ELSE kept[i]) = value(i)
    <3>1. CASE i = 0
      BY <2>2, <3>1
    <3>2. CASE i \in 1..m
      <4>1. i - 1 \in 0..(m + 1) /\ i - 1 # m + 1 /\ i # m + 1 /\ i # 0
        BY <3>2
      <4>2. longer[i - 1] = kept[i - 1]
        BY <4>1
      <4> QED
        BY <2>2, <3>2, <4>1, <4>2
    <3>3. CASE i = m + 1
      <4>1. i - 1 = m /\ m \in 0..(m + 1) /\ m # m + 1 /\ i # 0
        BY <3>3
      <4>2. longer[m] = kept[m]
        BY <4>1
      <4> QED
        BY <3>3, <4>1, <4>2
    <3> QED
      BY <3>1, <3>2, <3>3
  <2>4. longer = [i \in 0..(m + 1) |-> value(i)]
    BY <2>3
  <2>5. Filters(longer, m + 1, q, S)
    BY <2>4 DEF Filters
  <2> QED
    BY <2>5
<1>3. n \in T
  <2> HIDE DEF T
  <2> QED
    BY <1>1, <1>2, SetInduction
<1> QED
  BY <1>3

\* Two such functions agree where both are defined and the sequences do.
LEMMA FilterUnique ==
  ASSUME NEW n \in Nat, NEW m \in Nat, n <= m, NEW q, NEW r, NEW S, NEW f, NEW g,
         Filters(f, n, q, S), Filters(g, m, r, S), \A i \in 1..n : q[i] = r[i]
  PROVE  f[n] = g[n]
<1> DEFINE T == {i \in Nat : i <= n => f[i] = g[i]}
<1>1. 0 \in T
  BY FiltersAt
<1>2. ASSUME NEW i \in Nat, i \in T PROVE i + 1 \in T
  <2>1. CASE i + 1 <= n
    <3>1. i + 1 \in 1..n /\ i + 1 \in 1..m /\ i + 1 - 1 = i /\ f[i] = g[i] /\ q[i + 1] = r[i + 1]
      BY <1>2, <2>1
    <3> QED
      BY <3>1, FiltersAt
  <2>2. CASE ~(i + 1 <= n)
    BY <2>2
  <2> QED
    BY <2>1, <2>2
<1>3. n \in T
  <2> HIDE DEF T
  <2> QED
    BY <1>1, <1>2, SetInduction
<1> QED
  BY <1>3

LEMMA OnlyIs ==
  ASSUME NEW q, NEW S, Len(q) \in Nat
  PROVE  \E kept : Filters(kept, Len(q), q, S) /\ Only(q, S) = kept[Len(q)]
<1> DEFINE kept == CHOOSE f : Filters(f, Len(q), q, S)
<1>1. Only(q, S) = kept[Len(q)]
  BY Zenon DEF Only, Filters
<1>2. Filters(kept, Len(q), q, S)
  BY FilterExists, Zenon
<1> QED
  BY <1>1, <1>2

-----------------------------------------------------------------------------
(***************************************************************************)
(* Only(q, S) element by element.                                          *)
(***************************************************************************)
LEMMA OnlyOfEmpty ==
  ASSUME NEW S
  PROVE  Only(<< >>, S) = << >>
<1>1. Len(<< >>) = 0
  OBVIOUS
<1> QED
  BY <1>1, OnlyIs, FiltersAt

\* q is p and one more element.
Extends(q, p) == Len(q) = Len(p) + 1 /\ \A i \in 1..Len(p) : q[i] = p[i]

LEMMA OnlyOfNext ==
  ASSUME NEW T, NEW p \in Seq(T), NEW q \in Seq(T), Extends(q, p), NEW S
  PROVE  /\ q[Len(q)] \in S => Only(q, S) = Append(Only(p, S), q[Len(q)])
         /\ q[Len(q)] \notin S => Only(q, S) = Only(p, S)
<1> DEFINE n == Len(p)
<1>1. n \in Nat /\ Len(q) = n + 1 /\ \A i \in 1..n : p[i] = q[i]
  BY DEF Extends
<1> HIDE DEF n
<1>2. PICK f : Filters(f, n, p, S) /\ Only(p, S) = f[n]
  BY <1>1, OnlyIs DEF n
<1>3. PICK g : Filters(g, n + 1, q, S) /\ Only(q, S) = g[n + 1]
  BY <1>1, OnlyIs
<1>4. f[n] = g[n]
  BY <1>1, <1>2, <1>3, FilterUnique
<1>5. /\ q[n + 1] \in S => g[n + 1] = Append(g[n], q[n + 1])
      /\ q[n + 1] \notin S => g[n + 1] = g[n]
  BY <1>1, <1>3, FiltersNext
<1> QED
  BY <1>1, <1>2, <1>3, <1>4, <1>5, Zenon

LEMMA OnlyOfAppend ==
  ASSUME NEW T, NEW p \in Seq(T), NEW x \in T, NEW S
  PROVE  Only(Append(p, x), S) = IF x \in S THEN Append(Only(p, S), x) ELSE Only(p, S)
<1> DEFINE q == Append(p, x)
<1>1. q \in Seq(T) /\ q[Len(q)] = x /\ Extends(q, p)
  BY DEF Extends
<1> HIDE DEF q
<1>2. Only(q, S) = IF x \in S THEN Append(Only(p, S), x) ELSE Only(p, S)
  BY <1>1, OnlyOfNext, Zenon
<1> QED
  BY <1>2 DEF q

\* A sequence that is not empty is a shorter one and its last element.
ButLast(q) == [i \in 1..(Len(q) - 1) |-> q[i]]

LEMMA ButLastOf ==
  ASSUME NEW T, NEW q \in Seq(T), NEW n \in Nat, Len(q) = n + 1
  PROVE  /\ ButLast(q) \in Seq(T) /\ Len(ButLast(q)) = n /\ q[Len(q)] \in T
         /\ q[Len(q)] = q[n + 1] /\ Extends(q, ButLast(q))
         /\ \A i \in 1..n : q[i] = ButLast(q)[i]
BY DEF ButLast, Extends

LEMMA OnlyOfButLast ==
  ASSUME NEW T, NEW q \in Seq(T), NEW n \in Nat, Len(q) = n + 1, NEW S
  PROVE  /\ q[Len(q)] \in S => Only(q, S) = Append(Only(ButLast(q), S), q[Len(q)])
         /\ q[Len(q)] \notin S => Only(q, S) = Only(ButLast(q), S)
<1>1. ButLast(q) \in Seq(T) /\ Extends(q, ButLast(q))
  BY ButLastOf, Zenon
<1> QED
  BY <1>1, OnlyOfNext, Zenon

LEMMA OnlyOfLonger ==
  ASSUME NEW T, NEW q \in Seq(T), NEW n \in Nat, Len(q) = n + 1, NEW S,
         NEW o \in Seq(T), o = Only(ButLast(q), S), NEW w, w = Only(q, S)
  PROVE  /\ q[Len(q)] \notin S => w = o
         /\ q[Len(q)] \in S =>
              /\ w \in Seq(T) /\ Len(w) = Len(o) + 1 /\ w[Len(o) + 1] = q[Len(q)]
              /\ \A i \in 1..Len(o) : w[i] = o[i]
<1> DEFINE x == q[Len(q)]
<1>1. x \in T
  BY ButLastOf, Zenon
<1>2. /\ x \in S => Only(q, S) = Append(Only(ButLast(q), S), x)
      /\ x \notin S => Only(q, S) = Only(ButLast(q), S)
  BY OnlyOfButLast, Zenon
<1> HIDE DEF x
<1>3. Append(o, x) \in Seq(T) /\ Len(Append(o, x)) = Len(o) + 1 /\ Append(o, x)[Len(o) + 1] = x
      /\ \A i \in 1..Len(o) : Append(o, x)[i] = o[i]
  BY <1>1
<1>4. x \in S => /\ w \in Seq(T) /\ Len(w) = Len(o) + 1 /\ w[Len(o) + 1] = x
                 /\ \A i \in 1..Len(o) : w[i] = o[i]
  BY <1>2, <1>3, Zenon
<1> QED
  BY <1>2, <1>4, Zenon DEF x

\* o has the elements of r in S, and no other.
HasOnly(o, r, S) ==
  /\ \A i \in 1..Len(o) : o[i] \in S /\ \E j \in 1..Len(r) : r[j] = o[i]
  /\ \A j \in 1..Len(r) : r[j] \in S => \E i \in 1..Len(o) : r[j] = o[i]

\* They are in the order of r.
InOrderOf(o, r) ==
  \A i, j \in 1..Len(o) :
    i < j => \E k, l \in 1..Len(r) : k < l /\ r[k] = o[i] /\ r[l] = o[j]

(***************************************************************************)
(* What Only(q, S) has are elements of q in S, and it has all of them.     *)
(***************************************************************************)
LEMMA OnlyElements ==
  ASSUME NEW T, NEW q \in Seq(T), NEW S
  PROVE  Only(q, S) \in Seq(T) /\ HasOnly(Only(q, S), q, S)
<1> DEFINE
    L == {n \in Nat : \A r \in Seq(T) :
            Len(r) = n => Only(r, S) \in Seq(T) /\ HasOnly(Only(r, S), r, S)}
<1>1. 0 \in L
  <2> SUFFICES ASSUME NEW r \in Seq(T), Len(r) = 0 PROVE Only(r, S) \in Seq(T) /\ HasOnly(Only(r, S), r, S)
    OBVIOUS
  <2>1. r = << >>
    OBVIOUS
  <2>2. Only(r, S) = << >>
    BY <2>1, OnlyOfEmpty, Zenon
  <2>3. << >> \in Seq(T) /\ HasOnly(<< >>, r, S)
    BY <2>1 DEF HasOnly
  <2> QED
    BY <2>2, <2>3, Zenon
<1>2. ASSUME NEW n \in Nat, n \in L PROVE n + 1 \in L
  <2> SUFFICES ASSUME NEW r \in Seq(T), Len(r) = n + 1 PROVE Only(r, S) \in Seq(T) /\ HasOnly(Only(r, S), r, S)
    OBVIOUS
  <2> DEFINE p == ButLast(r)
             o == Only(p, S)
             w == Only(r, S)
             x == r[Len(r)]
  <2>1. p \in Seq(T) /\ Len(p) = n /\ (\A j \in 1..n : r[j] = p[j]) /\ x = r[n + 1]
    BY ButLastOf, Zenon
  <2>2. o \in Seq(T) /\ HasOnly(o, p, S)
    BY <1>2, <2>1
  <2>3. /\ x \notin S => w = o
        /\ x \in S => /\ w \in Seq(T) /\ Len(w) = Len(o) + 1 /\ w[Len(o) + 1] = x
                      /\ \A i \in 1..Len(o) : w[i] = o[i]
    BY <2>2, OnlyOfLonger
  <2> HIDE DEF p, o, w, x
  <2>4. CASE x \in S
    <3>1. ASSUME NEW i \in 1..Len(w) PROVE w[i] \in S /\ \E j \in 1..Len(r) : r[j] = w[i]
      <4>1. CASE i = Len(o) + 1
        BY <2>1, <2>3, <2>4, <4>1
      <4>2. CASE i \in 1..Len(o)
        BY <2>1, <2>2, <2>3, <2>4, <4>2 DEF HasOnly
      <4> QED
        BY <2>2, <2>3, <2>4, <4>1, <4>2
    <3>2. ASSUME NEW j \in 1..Len(r), r[j] \in S PROVE \E i \in 1..Len(w) : r[j] = w[i]
      <4>1. CASE j = n + 1
        BY <2>1, <2>2, <2>3, <2>4, <4>1
      <4>2. CASE j \in 1..n
        <5>1. PICK i \in 1..Len(o) : r[j] = o[i]
          BY <2>1, <2>2, <3>2, <4>2 DEF HasOnly
        <5>2. i \in 1..Len(w) /\ w[i] = o[i]
          BY <2>2, <2>3, <2>4
        <5> QED
          BY <5>1, <5>2
      <4> QED
        BY <4>1, <4>2
    <3>3. w \in Seq(T) /\ HasOnly(w, r, S)
      BY <2>3, <2>4, <3>1, <3>2 DEF HasOnly
    <3> QED
      BY <3>3 DEF w
  <2>5. CASE x \notin S
    <3>1. 1..n \subseteq 1..Len(r) /\ \A j \in 1..Len(r) : r[j] \in S => j \in 1..n
      BY <2>1, <2>5
    <3>2. o \in Seq(T) /\ HasOnly(o, r, S)
      BY <2>1, <2>2, <3>1 DEF HasOnly
    <3> QED
      BY <2>3, <2>5, <3>2 DEF w
  <2> QED
    BY <2>4, <2>5
<1>3. Len(q) \in L
  <2> HIDE DEF L
  <2> QED
    BY <1>1, <1>2, SetInduction
<1>4. Only(q, S) \in Seq(T) /\ HasOnly(Only(q, S), q, S)
  BY <1>3
<1> QED
  BY <1>4

(***************************************************************************)
(* They are in the order of q.                                             *)
(***************************************************************************)
LEMMA OnlyOrder ==
  ASSUME NEW T, NEW q \in Seq(T), NEW S
  PROVE  InOrderOf(Only(q, S), q)
<1> DEFINE
    L == {n \in Nat : \A r \in Seq(T) : Len(r) = n => InOrderOf(Only(r, S), r)}
<1>1. 0 \in L
  <2> SUFFICES ASSUME NEW r \in Seq(T), Len(r) = 0 PROVE InOrderOf(Only(r, S), r)
    OBVIOUS
  <2>1. r = << >>
    OBVIOUS
  <2>2. Only(r, S) = << >>
    BY <2>1, OnlyOfEmpty, Zenon
  <2>3. InOrderOf(<< >>, r)
    BY DEF InOrderOf
  <2> QED
    BY <2>2, <2>3, Zenon
<1>2. ASSUME NEW n \in Nat, n \in L PROVE n + 1 \in L
  <2> SUFFICES ASSUME NEW r \in Seq(T), Len(r) = n + 1 PROVE InOrderOf(Only(r, S), r)
    OBVIOUS
  <2> DEFINE p == ButLast(r)
             o == Only(p, S)
             w == Only(r, S)
             x == r[Len(r)]
  <2>1. p \in Seq(T) /\ Len(p) = n /\ (\A j \in 1..n : r[j] = p[j]) /\ x = r[n + 1]
    BY ButLastOf, Zenon
  <2>2. InOrderOf(o, p)
    BY <1>2, <2>1
  <2>3. o \in Seq(T) /\ \A i \in 1..Len(o) : \E k \in 1..n : p[k] = o[i]
    BY <2>1, OnlyElements DEF HasOnly
  <2>4. /\ x \notin S => w = o
        /\ x \in S => /\ Len(w) = Len(o) + 1 /\ w[Len(o) + 1] = x
                      /\ \A i \in 1..Len(o) : w[i] = o[i]
    BY <2>3, OnlyOfLonger
  <2>5. 1..n \subseteq 1..Len(r) /\ n + 1 \in 1..Len(r)
    OBVIOUS
  <2> HIDE DEF p, o, w, x
  <2>6. InOrderOf(o, r)
    <3> SUFFICES ASSUME NEW i \in 1..Len(o), NEW j \in 1..Len(o), i < j
                 PROVE  \E k, l \in 1..Len(r) : k < l /\ r[k] = o[i] /\ r[l] = o[j]
      BY DEF InOrderOf
    <3>1. PICK k \in 1..n, l \in 1..n : k < l /\ p[k] = o[i] /\ p[l] = o[j]
      BY <2>1, <2>2 DEF InOrderOf
    <3> QED
      BY <2>1, <2>5, <3>1
  <2>7. CASE x \in S
    <3>1. ASSUME NEW i \in 1..Len(w), NEW j \in 1..Len(w), i < j
          PROVE  \E k, l \in 1..Len(r) : k < l /\ r[k] = w[i] /\ r[l] = w[j]
      <4>1. CASE j = Len(o) + 1
        <5>1. i \in 1..Len(o)
          BY <2>3, <2>4, <2>7, <3>1, <4>1
        <5>2. PICK k \in 1..n : p[k] = o[i]
          BY <2>3, <5>1
        <5>3. r[k] = w[i] /\ r[n + 1] = w[j]
          BY <2>1, <2>4, <2>7, <4>1, <5>1, <5>2
        <5>4. k \in 1..Len(r) /\ n + 1 \in 1..Len(r) /\ k < n + 1
          BY <2>5
        <5> QED
          BY <5>3, <5>4
      <4>2. CASE j \in 1..Len(o)
        <5>1. i \in 1..Len(o)
          BY <2>3, <3>1, <4>2
        <5> QED
          BY <2>4, <2>6, <2>7, <3>1, <4>2, <5>1 DEF InOrderOf
      <4> QED
        BY <2>3, <2>4, <2>7, <4>1, <4>2
    <3>2. InOrderOf(w, r)
      BY <3>1 DEF InOrderOf
    <3> QED
      BY <3>2 DEF w
  <2> QED
    BY <2>4, <2>6, <2>7 DEF w
<1>3. Len(q) \in L
  <2> HIDE DEF L
  <2> QED
    BY <1>1, <1>2, SetInduction
<1>4. InOrderOf(Only(q, S), q)
  BY <1>3
<1> QED
  BY <1>4

(***************************************************************************)
(* Sets that agree on the elements of q select the same of it.             *)
(***************************************************************************)
LEMMA OnlyAgrees ==
  ASSUME NEW T, NEW q \in Seq(T), NEW R, NEW S,
         \A i \in 1..Len(q) : q[i] \in R <=> q[i] \in S
  PROVE  Only(q, R) = Only(q, S)
<1> DEFINE L == {n \in Nat : \A r \in Seq(T) :
                   Len(r) = n /\ (\A i \in 1..n : r[i] \in R <=> r[i] \in S)
                     => Only(r, R) = Only(r, S)}
<1>1. 0 \in L
  <2> SUFFICES ASSUME NEW r \in Seq(T), Len(r) = 0 PROVE Only(r, R) = Only(r, S)
    OBVIOUS
  <2>1. r = << >>
    OBVIOUS
  <2> QED
    BY <2>1, OnlyOfEmpty, Zenon
<1>2. ASSUME NEW n \in Nat, n \in L PROVE n + 1 \in L
  <2> SUFFICES ASSUME NEW r \in Seq(T), Len(r) = n + 1,
                      \A i \in 1..(n + 1) : r[i] \in R <=> r[i] \in S
               PROVE  Only(r, R) = Only(r, S)
    OBVIOUS
  <2> DEFINE p == ButLast(r)
             x == r[Len(r)]
  <2>1. /\ p \in Seq(T) /\ Len(p) = n /\ (\A j \in 1..n : r[j] = p[j])
        /\ x \in T /\ x = r[n + 1]
    BY ButLastOf, Zenon
  <2>2. \A i \in 1..n : p[i] \in R <=> p[i] \in S
    BY <2>1
  <2>3. Only(p, R) = Only(p, S)
    BY <1>2, <2>1, <2>2
  <2>4. x \in R <=> x \in S
    BY <2>1
  <2>6. /\ x \in R => Only(r, R) = Append(Only(p, R), x)
        /\ x \notin R => Only(r, R) = Only(p, R)
    BY OnlyOfButLast, Zenon
  <2>7. /\ x \in S => Only(r, S) = Append(Only(p, S), x)
        /\ x \notin S => Only(r, S) = Only(p, S)
    BY OnlyOfButLast, Zenon
  <2> QED
    BY <2>3, <2>4, <2>6, <2>7, Zenon
<1>3. Len(q) \in L
  <2> HIDE DEF L
  <2> QED
    BY <1>1, <1>2, SetInduction
<1> QED
  BY <1>3

-----------------------------------------------------------------------------
(* Lists whose elements are in them once, as rotations are. *)

IsIn(x, q) == \E i \in 1..Len(q) : q[i] = x
Once(q) == \A i, j \in 1..Len(q) : q[i] = q[j] => i = j
Before(x, y, q) == \E i, j \in 1..Len(q) : i < j /\ q[i] = x /\ q[j] = y

(***************************************************************************)
(* An element put at the end of a list.                                    *)
(***************************************************************************)
LEMMA ListAppend ==
  ASSUME NEW T, NEW q \in Seq(T), NEW x \in T
  PROVE  /\ Append(q, x) \in Seq(T) /\ Append(q, x) # << >>
         /\ \A y : IsIn(y, Append(q, x)) <=> IsIn(y, q) \/ y = x
         /\ Once(q) /\ ~IsIn(x, q) => Once(Append(q, x))
         /\ \A y, z : Before(y, z, Append(q, x)) => Before(y, z, q) \/ z = x
<1> DEFINE w == Append(q, x)
           n == Len(q)
<1>1. n \in Nat /\ w \in Seq(T) /\ Len(w) = n + 1 /\ w[n + 1] = x /\ \A i \in 1..n : w[i] = q[i]
  OBVIOUS
<1> HIDE DEF w, n
<1>2. w # << >>
  <2>1. Len(w) # 0
    BY <1>1
  <2> QED
    BY <2>1
<1>3. ASSUME NEW y PROVE IsIn(y, w) <=> IsIn(y, q) \/ y = x
  <2>1. \A i \in 1..(n + 1) : i \in 1..n \/ i = n + 1
    BY <1>1
  <2>2. 1..n \subseteq 1..(n + 1) /\ n + 1 \in 1..(n + 1)
    BY <1>1
  <2> QED
    BY <1>1, <2>1, <2>2 DEF IsIn, n
<1>4. ASSUME Once(q), ~IsIn(x, q) PROVE Once(w)
  <2> SUFFICES ASSUME NEW i \in 1..(n + 1), NEW j \in 1..(n + 1), w[i] = w[j] PROVE i = j
    BY <1>1 DEF Once
  <2>1. \A k \in 1..n : w[k] # x
    BY <1>1, <1>4 DEF IsIn, n
  <2>2. (i \in 1..n \/ i = n + 1) /\ (j \in 1..n \/ j = n + 1)
    BY <1>1
  <2> QED
    BY <1>1, <1>4, <2>1, <2>2 DEF Once, n
<1>5. ASSUME NEW y, NEW z, Before(y, z, w), z # x PROVE Before(y, z, q)
  <2>1. PICK i \in 1..(n + 1), j \in 1..(n + 1) : i < j /\ w[i] = y /\ w[j] = z
    BY <1>1, <1>5 DEF Before
  <2>2. i \in 1..n /\ j \in 1..n
    BY <1>1, <1>5, <2>1
  <2> QED
    BY <1>1, <2>1, <2>2 DEF Before, n
<1> QED
  BY <1>1, <1>2, <1>3, <1>4, <1>5 DEF w

(***************************************************************************)
(* The first element taken from a list.                                    *)
(***************************************************************************)
LEMMA ListTail ==
  ASSUME NEW T, NEW q \in Seq(T), q # << >>
  PROVE  /\ Head(q) \in T /\ Tail(q) \in Seq(T) /\ IsIn(Head(q), q)
         /\ \A y : IsIn(y, Tail(q)) => IsIn(y, q)
         /\ \A y : IsIn(y, q) /\ y # Head(q) => IsIn(y, Tail(q)) /\ Before(Head(q), y, q)
         /\ Once(q) => Once(Tail(q)) /\ ~IsIn(Head(q), Tail(q))
         /\ \A y, z : Before(y, z, Tail(q)) => Before(y, z, q)
<1> DEFINE w == Tail(q)
           h == Head(q)
           n == Len(q)
<1>1. /\ n \in Nat \ {0} /\ w \in Seq(T) /\ Len(w) = n - 1 /\ h = q[1] /\ h \in T
      /\ \A i \in 1..(n - 1) : w[i] = q[i + 1]
  OBVIOUS
<1> HIDE DEF w, h, n
<1>2. 1 \in 1..n /\ \A i \in 1..(n - 1) : i + 1 \in 1..n /\ i + 1 # 1
  BY <1>1
<1>3. \A i \in 1..n : i = 1 \/ (i - 1 \in 1..(n - 1) /\ q[i] = w[i - 1] /\ 1 < i)
  BY <1>1
<1>4. IsIn(h, q) /\ \A y : IsIn(y, w) => IsIn(y, q)
  BY <1>1, <1>2 DEF IsIn, n
<1>5. ASSUME NEW y, IsIn(y, q), y # h PROVE IsIn(y, w) /\ Before(h, y, q)
  <2>1. PICK i \in 1..n : q[i] = y
    BY <1>5 DEF IsIn, n
  <2>2. i - 1 \in 1..(n - 1) /\ w[i - 1] = y /\ 1 < i
    BY <1>1, <1>3, <1>5, <2>1
  <2> QED
    BY <1>1, <1>2, <2>1, <2>2 DEF IsIn, Before, n
<1>6. ASSUME Once(q) PROVE Once(w) /\ ~IsIn(h, w)
  <2>1. \A i, j \in 1..(n - 1) : w[i] = w[j] => i + 1 = j + 1
    BY <1>1, <1>2, <1>6 DEF Once, n
  <2>2. \A i, j \in 1..(n - 1) : w[i] = w[j] => i = j
    BY <1>1, <2>1
  <2>3. \A i \in 1..(n - 1) : w[i] # h
    BY <1>1, <1>2, <1>6 DEF Once, n
  <2> QED
    BY <1>1, <2>2, <2>3 DEF Once, IsIn
<1>7. ASSUME NEW y, NEW z, Before(y, z, w) PROVE Before(y, z, q)
  <2>1. PICK i \in 1..(n - 1), j \in 1..(n - 1) : i < j /\ w[i] = y /\ w[j] = z
    BY <1>1, <1>7 DEF Before
  <2>2. i + 1 \in 1..n /\ j + 1 \in 1..n /\ i + 1 < j + 1 /\ q[i + 1] = y /\ q[j + 1] = z
    BY <1>1, <2>1
  <2> QED
    BY <2>2 DEF Before, n
<1> QED
  BY <1>1, <1>4, <1>5, <1>6, <1>7 DEF w, h

(***************************************************************************)
(* A list filtered.                                                        *)
(***************************************************************************)
LEMMA ListOnly ==
  ASSUME NEW T, NEW q \in Seq(T), NEW S
  PROVE  /\ Only(q, S) \in Seq(T)
         /\ \A y : IsIn(y, Only(q, S)) <=> IsIn(y, q) /\ y \in S
         /\ Once(q) => Once(Only(q, S))
         /\ \A y, z : Before(y, z, Only(q, S)) => Before(y, z, q)
<1> DEFINE w == Only(q, S)
<1>1. w \in Seq(T) /\ HasOnly(w, q, S) /\ InOrderOf(w, q)
  BY OnlyElements, OnlyOrder
<1> HIDE DEF w
<1>2. \A y : IsIn(y, w) <=> IsIn(y, q) /\ y \in S
  BY <1>1 DEF HasOnly, IsIn
<1>3. \A y, z : Before(y, z, w) => Before(y, z, q)
  BY <1>1 DEF InOrderOf, Before
<1>4. ASSUME Once(q) PROVE Once(w)
  <2> SUFFICES ASSUME NEW i \in 1..Len(w), NEW j \in 1..Len(w), w[i] = w[j], i < j PROVE FALSE
    BY <1>1 DEF Once
  <2>1. PICK k \in 1..Len(q), l \in 1..Len(q) : k < l /\ q[k] = w[i] /\ q[l] = w[j]
    BY <1>1 DEF InOrderOf
  <2> QED
    BY <1>4, <2>1 DEF Once
<1> QED
  BY <1>1, <1>2, <1>3, <1>4 DEF w

LEMMA ListedIs ==
  ASSUME NEW T, NEW q \in Seq(T)
  PROVE  /\ q # << >> <=> \E y : IsIn(y, q)
         /\ \A y : IsIn(y, q) => y \in T
BY DEF IsIn

LEMMA BeforeIsIn ==
  ASSUME NEW q, NEW x, NEW y, Before(x, y, q)
  PROVE  IsIn(x, q) /\ IsIn(y, q)
BY DEF Before, IsIn

(***************************************************************************)
(* The first element taken from a list, and put at its end when it has     *)
(* more to do: nobody who stays is behind it that was not.                 *)
(***************************************************************************)
LEMMA ListRotated ==
  ASSUME NEW T, NEW q \in Seq(T), q # << >>, Once(q), NEW more \in BOOLEAN,
         NEW w, w = Tail(q) \o (IF more THEN <<Head(q)>> ELSE << >>)
  PROVE  /\ w \in Seq(T) /\ Once(w)
         /\ \A y : IsIn(y, w) <=> IsIn(y, q) /\ (more \/ y # Head(q))
         /\ \A y, z : Before(y, z, w) => (Before(y, z, q) /\ y # Head(q)) \/ z = Head(q)
<1> DEFINE h == Head(q)
           t == Tail(q)
<1>1. /\ h \in T /\ t \in Seq(T) /\ IsIn(h, q)
      /\ \A y : IsIn(y, t) => IsIn(y, q)
      /\ \A y : IsIn(y, q) /\ y # h => IsIn(y, t) /\ Before(h, y, q)
      /\ Once(t) /\ ~IsIn(h, t)
      /\ \A y, z : Before(y, z, t) => Before(y, z, q)
  BY ListTail
<1>2. \A y, z : Before(y, z, t) => y # h
  BY <1>1, BeforeIsIn
<1> HIDE DEF h, t
<1>3. CASE more
  <2>1. w = t \o <<h>>
    BY <1>3 DEF t, h
  <2>2. t \o <<h>> = Append(t, h)
    BY <1>1
  <2>3. /\ w \in Seq(T)
        /\ \A y : IsIn(y, w) <=> IsIn(y, t) \/ y = h
        /\ Once(w)
        /\ \A y, z : Before(y, z, w) => Before(y, z, t) \/ z = h
    <3>1. w = Append(t, h)
      BY <2>1, <2>2
    <3> DEFINE a == Append(t, h)
    <3>2. /\ a \in Seq(T)
          /\ \A y : IsIn(y, a) <=> IsIn(y, t) \/ y = h
          /\ Once(a)
          /\ \A y, z : Before(y, z, a) => Before(y, z, t) \/ z = h
      BY <1>1, ListAppend
    <3> HIDE DEF a
    <3>3. w = a
      BY <3>1 DEF a
    <3> QED
      BY <3>2, <3>3
  <2> QED
    BY <1>1, <1>2, <1>3, <2>3 DEF h
<1>4. CASE ~more
  <2>1. w = t
    <3>1. w = t \o << >>
      BY <1>4 DEF t
    <3> QED
      BY <1>1, <3>1
  <2> QED
    BY <1>1, <1>2, <1>4, <2>1 DEF h
<1> QED
  BY <1>3, <1>4
-----------------------------------------------------------------------------
Rank(S, t) == Cardinality({u \in S : u < t})

(***************************************************************************)
(* Ranks number a finite set of integers 0, 1, ... in their order: this is *)
(* how the sequence numbers of a batch of finals are assigned.             *)
(***************************************************************************)
LEMMA RankOrder ==
  ASSUME NEW S \in SUBSET Int, IsFiniteSet(S)
  PROVE  /\ \A t \in S : Rank(S, t) \in 0..(Cardinality(S) - 1)
         /\ \A t, u \in S : t < u => Rank(S, t) < Rank(S, u)
<1> DEFINE Below(t) == {u \in S : u < t}
<1>1. \A t \in S : IsFiniteSet(Below(t)) /\ Cardinality(Below(t)) \in Nat
  BY FS_Subset, FS_CardinalityType
<1>2. ASSUME NEW t \in S PROVE Cardinality(Below(t)) < Cardinality(S)
  <2>1. Below(t) \in SUBSET S /\ t \notin Below(t)
    OBVIOUS
  <2>2. Cardinality(Below(t)) <= Cardinality(S) /\ Cardinality(Below(t)) # Cardinality(S)
    BY <2>1, FS_Subset
  <2> QED BY <2>2, <1>1, FS_CardinalityType
<1>3. ASSUME NEW t \in S, NEW u \in S, t < u
      PROVE  Cardinality(Below(t)) < Cardinality(Below(u))
  <2>1. Below(t) \in SUBSET Below(u) /\ t \in Below(u) /\ t \notin Below(t)
    <3>1. \A v \in S : v < t => v < u
      BY <1>3
    <3>2. ~(t < t) /\ t \in Int
      OBVIOUS
    <3> QED BY <3>1, <3>2, <1>3
  <2>2. /\ Cardinality(Below(t)) <= Cardinality(Below(u))
        /\ Cardinality(Below(t)) # Cardinality(Below(u))
    BY <2>1, <1>1, FS_Subset
  <2> QED BY <2>2, <1>1
<1> QED BY <1>1, <1>2, <1>3, FS_CardinalityType DEF Rank

LEMMA RankOnto ==
  ASSUME NEW S \in SUBSET Int, IsFiniteSet(S)
  PROVE  {Rank(S, t) : t \in S} = 0..(Cardinality(S) - 1)
<1> DEFINE R == {Rank(S, t) : t \in S}
           f == [t \in S |-> Rank(S, t)]
<1>1. Cardinality(S) \in Nat
  BY FS_CardinalityType
<1>2. R \in SUBSET (0..(Cardinality(S) - 1))
  BY RankOrder
<1>3. \A t, u \in S : Rank(S, t) = Rank(S, u) => t = u
  BY RankOrder
<1>4. IsFiniteSet(0..(Cardinality(S) - 1)) /\ Cardinality(0..(Cardinality(S) - 1)) = Cardinality(S)
  BY <1>1, FS_Interval
<1>5. f \in Bijection(S, R)
  <2>1. f \in [S -> R] /\ \A t \in S : f[t] = Rank(S, t)
    OBVIOUS
  <2>2. f \in Injection(S, R)
    BY <2>1, <1>3 DEF Injection, IsInjective
  <2>3. f \in Surjection(S, R)
    BY <2>1 DEF Surjection
  <2> QED BY <2>2, <2>3 DEF Bijection
<1>6. Cardinality(R) = Cardinality(S)
  BY <1>5, FS_Bijection DEF ExistsBijection
<1> QED BY <1>2, <1>4, <1>6, FS_Subset

-----------------------------------------------------------------------------
(***************************************************************************)
(* What TurnOutput promises, as a relation between the turns begun, those  *)
(* closed, the number of the next output, and the outputs sent: a final    *)
(* closes its turn, nothing of a turn follows its final, every number      *)
(* below the next was used once, and finals come in the order of turns.    *)
(***************************************************************************)
SentOutput == [seq : Nat \ {0}, turn : Nat \ {0}, final : BOOLEAN]

PromiseTypes(n, c, s, l) ==
  /\ n \in Nat
  /\ c \in SUBSET (1..n)
  /\ s \in Nat \ {0}
  /\ l \in SUBSET SentOutput

FinalsClose(c, l) == \A o \in l : o.final => o.turn \in c

NothingAfterFinal(l) ==
  \A o, p \in l : o.final /\ p.turn = o.turn /\ p # o => p.seq < o.seq

NumbersUsedOnce(s, l) ==
  /\ {o.seq : o \in l} = 1..(s - 1)
  /\ \A o, p \in l : o.seq = p.seq => o = p

FinalsAscend(l) ==
  \A o, p \in l : o.final /\ p.final /\ o.turn < p.turn => o.seq < p.seq

Promised(n, c, s, l) ==
  /\ PromiseTypes(n, c, s, l)
  /\ FinalsClose(c, l)
  /\ NothingAfterFinal(l)
  /\ NumbersUsedOnce(s, l)
  /\ FinalsAscend(l)

LEMMA NothingPromised == Promised(0, {}, 1, {})
  BY DEF Promised, PromiseTypes, FinalsClose, NothingAfterFinal, NumbersUsedOnce, FinalsAscend

LEMMA PromisedBegin ==
  ASSUME NEW n, NEW c, NEW s, NEW l, Promised(n, c, s, l)
  PROVE  Promised(n + 1, c, s, l)
BY DEF Promised, PromiseTypes

\* The text so far of a turn that is not closed.
LEMMA PromisedPartial ==
  ASSUME NEW n, NEW c, NEW s, NEW l, Promised(n, c, s, l),
         NEW t \in 1..(n + 1), t \notin c,
         NEW n2, n2 = IF t > n THEN t ELSE n, NEW c2, c2 = c, NEW s2, s2 = s + 1,
         NEW l2, l2 = l \union {[seq |-> s, turn |-> t, final |-> FALSE]}
  PROVE  Promised(n2, c2, s2, l2)
<1>0. n \in Nat /\ s \in Nat \ {0} /\ l \in SUBSET SentOutput /\ c \in SUBSET (1..n)
  BY DEF Promised, PromiseTypes
<1>1. PICK new : new = [seq |-> s, turn |-> t, final |-> FALSE]
  OBVIOUS
<1>2. /\ new \in SentOutput /\ new.seq = s /\ new.turn = t /\ new.final = FALSE
      /\ l2 = l \union {new} /\ s2 = s + 1 /\ c2 = c
      /\ t \notin c /\ n2 \in Nat /\ n <= n2
  BY <1>0, <1>1 DEF SentOutput
<1>3. \A o \in l : o.seq \in 1..(s - 1)
  BY DEF Promised, NumbersUsedOnce
<1>4. \A o \in l : o.final => o.turn # t
  BY <1>2 DEF Promised, FinalsClose
<1>5. PromiseTypes(n2, c2, s2, l2)
  BY <1>0, <1>2 DEF PromiseTypes
<1>6. FinalsClose(c2, l2)
  BY <1>2 DEF Promised, FinalsClose
<1>7. NothingAfterFinal(l2)
  <2> SUFFICES ASSUME NEW o \in l2, NEW p \in l2, o.final, p.turn = o.turn, p # o
               PROVE  p.seq < o.seq
    BY DEF NothingAfterFinal
  <2>1. o \in l /\ p \in l
    BY <1>2, <1>4
  <2> QED BY <2>1 DEF Promised, NothingAfterFinal
<1>8. NumbersUsedOnce(s2, l2)
  <2>1. {o.seq : o \in l2} = {o.seq : o \in l} \union {s}
    BY <1>2
  <2>2. {o.seq : o \in l2} = 1..(s2 - 1)
    <3>1. {o.seq : o \in l} = 1..(s - 1)
      BY DEF Promised, NumbersUsedOnce
    <3>2. (1..(s - 1)) \union {s} = 1..((s + 1) - 1)
      BY <1>0
    <3> QED BY <2>1, <3>1, <3>2, <1>2, Zenon
  <2>3. ASSUME NEW o \in l2, NEW p \in l2, o.seq = p.seq PROVE o = p
    <3>1. CASE o \in l /\ p \in l
      BY <3>1, <2>3 DEF Promised, NumbersUsedOnce
    <3>2. CASE o = new \/ p = new
      BY <3>2, <2>3, <1>0, <1>2, <1>3
    <3> QED BY <3>1, <3>2, <1>2
  <2> QED BY <2>2, <2>3 DEF NumbersUsedOnce
<1>9. FinalsAscend(l2)
  BY <1>2 DEF Promised, FinalsAscend
<1> QED BY <1>5, <1>6, <1>7, <1>8, <1>9 DEF Promised

\* A batch of finals of turns that are newer than those already closed.
Batch(turns, s) == {[seq |-> s + Rank(turns, t), turn |-> t, final |-> TRUE] : t \in turns}

LEMMA PromisedFinals ==
  ASSUME NEW n, NEW c, NEW s, NEW l, Promised(n, c, s, l),
         NEW turns \in SUBSET (1..(n + 1)), \A t \in turns, u \in c : u < t,
         NEW n2, n2 = IF n + 1 \in turns THEN n + 1 ELSE n, NEW c2, c2 = c \union turns,
         NEW s2, s2 = s + Cardinality(turns),
         NEW l2, l2 = l \union Batch(turns, s)
  PROVE  Promised(n2, c2, s2, l2)
<1>0. n \in Nat /\ s \in Nat \ {0} /\ l \in SUBSET SentOutput /\ c \in SUBSET (1..n)
  BY DEF Promised, PromiseTypes
<1>1. turns \in SUBSET Nat /\ turns \in SUBSET Int /\ IsFiniteSet(turns)
  <2>1. IsFiniteSet(1..(n + 1))
    BY <1>0, FS_Interval
  <2>2. IsFiniteSet(turns)
    BY <2>1, FS_Subset
  <2>3. turns \in SUBSET Nat /\ turns \in SUBSET Int
    BY <1>0
  <2> QED BY <2>2, <2>3
<1>2. PICK size \in Nat : size = Cardinality(turns)
  BY <1>1, FS_CardinalityType
<1>3. PICK sq : sq = [t \in turns |-> s + Rank(turns, t)]
  OBVIOUS
<1>4. \A t \in turns : sq[t] \in s..(s + size - 1)
  BY <1>0, <1>1, <1>2, <1>3, RankOrder
<1>5. \A t, u \in turns : t < u => sq[t] < sq[u]
  <2>1. \A t \in turns : Rank(turns, t) \in Int
    BY <1>1, RankOrder
  <2>2. \A t, u \in turns : t < u => Rank(turns, t) < Rank(turns, u)
    BY <1>1, RankOrder
  <2> QED BY <1>0, <1>3, <2>1, <2>2
<1>6. {sq[t] : t \in turns} = s..(s + size - 1)
  <2>1. {Rank(turns, t) : t \in turns} = 0..(size - 1)
    BY <1>1, <1>2, RankOnto
  <2>2. ASSUME NEW k \in s..(s + size - 1) PROVE \E t \in turns : k = sq[t]
    <3>1. PICK t \in turns : k - s = Rank(turns, t)
      <4>1. k - s \in 0..(size - 1)
        BY <1>0, <1>2
      <4> QED BY <4>1, <2>1
    <3> QED BY <3>1, <1>0, <1>3
  <2> QED BY <2>2, <1>4
<1>7. PICK out : out = [t \in turns |-> [seq |-> sq[t], turn |-> t, final |-> TRUE]]
  OBVIOUS
<1>8. \A t \in turns : /\ out[t].seq = sq[t] /\ out[t].turn = t /\ out[t].final = TRUE
                       /\ out[t] \in SentOutput
  <2> SUFFICES ASSUME NEW t \in turns
               PROVE  /\ out[t].seq = sq[t] /\ out[t].turn = t /\ out[t].final = TRUE
                      /\ out[t] \in SentOutput
    OBVIOUS
  <2>1. out[t] = [seq |-> sq[t], turn |-> t, final |-> TRUE]
    BY <1>7
  <2>2. sq[t] \in Nat \ {0} /\ t \in Nat \ {0}
    BY <1>0, <1>2, <1>4
  <2> QED BY <2>1, <2>2 DEF SentOutput
<1>9. PICK New : New = {out[t] : t \in turns}
  OBVIOUS
<1>10. \A o \in New : o.final = TRUE /\ o.turn \in turns /\ o.seq = sq[o.turn] /\ o = out[o.turn]
  BY <1>8, <1>9
<1>11. {o.seq : o \in New} = {sq[t] : t \in turns}
  <2>1. \A o \in New : o.seq \in {sq[t] : t \in turns}
    BY <1>10
  <2>2. ASSUME NEW t \in turns PROVE \E o \in New : sq[t] = o.seq
    BY <1>8, <1>9
  <2> QED BY <2>1, <2>2
<1>12. /\ l2 = l \union New /\ s2 = s + size /\ c2 = c \union turns
       /\ \A t \in turns, u \in c : u < t
       /\ n2 = IF n + 1 \in turns THEN n + 1 ELSE n
  <2>1. {[seq |-> sq[t], turn |-> t, final |-> TRUE] : t \in turns} = New
    BY <1>7, <1>9
  <2>2. \A t \in turns : sq[t] = s + Rank(turns, t)
    BY <1>3
  <2>3. Batch(turns, s) = New
    BY <2>1, <2>2 DEF Batch
  <2> QED BY <1>2, <2>3
<1>13. \A o \in l : o.seq \in 1..(s - 1)
  BY DEF Promised, NumbersUsedOnce
<1>14. \A o \in l, p \in New : o.seq < p.seq
  <2> SUFFICES ASSUME NEW o \in l, NEW p \in New PROVE o.seq < p.seq
    OBVIOUS
  <2>1. o.seq \in 1..(s - 1) /\ p.seq \in s..(s + size - 1)
    BY <1>4, <1>10, <1>13
  <2> QED BY <2>1, <1>0
<1>15. \A o \in l, p \in New : o.final => o.turn < p.turn
  BY <1>10, <1>12 DEF Promised, FinalsClose
<1>16. PromiseTypes(n2, c2, s2, l2)
  <2>1. n2 \in Nat /\ c2 \in SUBSET (1..n2)
    BY <1>0, <1>12
  <2>2. New \in SUBSET SentOutput
    BY <1>8, <1>9
  <2>3. s2 \in Nat \ {0}
    BY <1>0, <1>12
  <2> QED BY <2>1, <2>2, <2>3, <1>0, <1>12 DEF PromiseTypes
<1>17. FinalsClose(c2, l2)
  BY <1>10, <1>12 DEF Promised, FinalsClose
<1>18. NothingAfterFinal(l2)
  <2> SUFFICES ASSUME NEW o \in l2, NEW p \in l2, o.final, p.turn = o.turn, p # o
               PROVE  p.seq < o.seq
    BY DEF NothingAfterFinal
  <2>1. CASE o \in l /\ p \in l
    BY <2>1 DEF Promised, NothingAfterFinal
  <2>2. CASE o \in l /\ p \in New
    <3>1. o.turn < p.turn /\ o.turn \in Nat
      BY <2>2, <1>0, <1>15 DEF SentOutput
    <3> QED BY <3>1
  <2>3. CASE o \in New /\ p \in l
    BY <2>3, <1>14
  <2>4. CASE o \in New /\ p \in New
    BY <2>4, <1>10
  <2> QED BY <2>1, <2>2, <2>3, <2>4, <1>12
<1>19. NumbersUsedOnce(s2, l2)
  <2>1. {o.seq : o \in l2} = {o.seq : o \in l} \union {o.seq : o \in New}
    BY <1>12
  <2>2. {o.seq : o \in l} = 1..(s - 1)
    BY DEF Promised, NumbersUsedOnce
  <2>3. {o.seq : o \in l2} = 1..(s2 - 1)
    <3>1. {o.seq : o \in l2} = (1..(s - 1)) \union (s..(s + size - 1))
      BY <2>1, <2>2, <1>6, <1>11, Zenon
    <3>2. (1..(s - 1)) \union (s..(s + size - 1)) = 1..((s + size) - 1)
      BY <1>0, <1>2
    <3> QED BY <3>1, <3>2, <1>12, Zenon
  <2>4. ASSUME NEW o \in New, NEW p \in New, o.seq = p.seq PROVE o.turn = p.turn
    <3>1. PICK t \in turns, u \in turns : t = o.turn /\ u = p.turn /\ sq[t] = sq[u]
      <4>1. sq[o.turn] = sq[p.turn] /\ o.turn \in turns /\ p.turn \in turns
        BY <2>4, <1>10
      <4> QED BY <4>1
    <3>2. sq[t] \in Int
      BY <1>0, <1>2, <1>4
    <3>3. ~(t < u) /\ ~(u < t)
      BY <3>1, <3>2, <1>5
    <3>4. t \in Int /\ u \in Int
      BY <1>1
    <3> QED BY <3>1, <3>3, <3>4
  <2>5. ASSUME NEW o \in l2, NEW p \in l2, o.seq = p.seq PROVE o = p
    <3>1. CASE o \in l /\ p \in l
      BY <2>5, <3>1 DEF Promised, NumbersUsedOnce
    <3>2. CASE o \in New /\ p \in New
      BY <2>5, <3>2, <2>4, <1>10
    <3>3. CASE (o \in l /\ p \in New) \/ (o \in New /\ p \in l)
      <4>1. o.seq < p.seq \/ p.seq < o.seq
        BY <3>3, <1>14
      <4>2. CASE o \in l
        BY <4>2, <4>1, <2>5, <1>0, <1>13
      <4>3. CASE p \in l
        BY <4>3, <4>1, <2>5, <1>0, <1>13
      <4> QED BY <3>3, <4>2, <4>3
    <3> QED BY <3>1, <3>2, <3>3, <1>12
  <2> QED BY <2>3, <2>5 DEF NumbersUsedOnce
<1>20. FinalsAscend(l2)
  <2> SUFFICES ASSUME NEW o \in l2, NEW p \in l2, o.final, p.final, o.turn < p.turn
               PROVE  o.seq < p.seq
    BY DEF FinalsAscend
  <2>1. CASE o \in l /\ p \in l
    BY <2>1 DEF Promised, FinalsAscend
  <2>2. CASE o \in l /\ p \in New
    BY <2>2, <1>14
  <2>3. CASE o \in New /\ p \in l
    <3>1. p.turn < o.turn /\ p.turn \in Nat /\ o.turn \in Nat
      BY <2>3, <1>0, <1>1, <1>10, <1>15 DEF SentOutput
    <3> QED BY <3>1
  <2>4. CASE o \in New /\ p \in New
    BY <2>4, <1>5, <1>10
  <2> QED BY <2>1, <2>2, <2>3, <2>4, <1>12
<1> QED BY <1>16, <1>17, <1>18, <1>19, <1>20 DEF Promised
=============================================================================
