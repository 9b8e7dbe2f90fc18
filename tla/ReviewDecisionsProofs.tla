------------------------ MODULE ReviewDecisionsProofs ------------------------
(***************************************************************************)
(* The masking of a document, proved for every document, pattern, list and *)
(* decision, every alphabet and every length limit.                        *)
(*                                                                         *)
(* Everything rests on what a good edit list is (Good): its edits in order *)
(* and apart, inside the unit, and written in placeholder halves only.     *)
(* Then the offset maps are exact (GoodMapsBack).  Each pass leaves a good *)
(* list good, and what was under an edit stays under one (Grown): forcing, *)
(* detection, the table passes, the propagation of spellings.  Last, each  *)
(* decision keeps the stored decisions sound, and with them ReviewInv.     *)
(***************************************************************************)
EXTENDS ReviewDecisions, FiniteSetTheorems, SequenceTheorems, WellFoundedInduction, TLAPS

-----------------------------------------------------------------------------
(* Sets, orders and sequences.                                             *)

(* A part of a finite set.                                                 *)
LEMMA Fewer ==
  ASSUME NEW S, IsFiniteSet(S), NEW T \in SUBSET S
  PROVE  IsFiniteSet(T) /\ Cardinality(T) \in Nat /\ Cardinality(S) \in Nat /\ Cardinality(T) <= Cardinality(S)
BY FS_Subset, FS_CardinalityType

(* Who gives everyone in a finite set a rank of his own up to its size     *)
(* gives every rank.                                                       *)
LEMMA RankOnto ==
  ASSUME NEW S, IsFiniteSet(S), NEW r \in [S -> 1 .. Cardinality(S)],
         \A a, b \in S : r[a] = r[b] => a = b
  PROVE  \A k \in 1 .. Cardinality(S) : \E a \in S : r[a] = k
<1> DEFINE n == Cardinality(S)
<1>1. n \in Nat
  BY FS_CardinalityType
<1>2. IsFiniteSet(1 .. n) /\ Cardinality(1 .. n) = n
  BY <1>1, FS_Interval
<1>3. r \in Injection(S, 1 .. n)
  BY DEF Injection, IsInjective
<1>4. r \in Surjection(S, 1 .. n)
  BY <1>2, <1>3, FS_Injection
<1> QED BY <1>4 DEF Surjection

(* The rank in a strict total order L: how many come before, and oneself.  *)
Standing(S, L, a) == Cardinality({b \in S : <<b, a>> \in L}) + 1

(* The ranks are the numbers up to the size of the set, and tell the       *)
(* order.                                                                  *)
LEMMA Ranks ==
  ASSUME NEW S, IsFiniteSet(S), NEW L,
         \A a \in S : <<a, a>> \notin L,
         \A a, b, c \in S : <<a, b>> \in L /\ <<b, c>> \in L => <<a, c>> \in L,
         \A a, b \in S : a = b \/ <<a, b>> \in L \/ <<b, a>> \in L
  PROVE  /\ \A a \in S : Standing(S, L, a) \in 1 .. Cardinality(S)
         /\ \A a, b \in S : <<a, b>> \in L <=> Standing(S, L, a) < Standing(S, L, b)
         /\ \A k \in 1 .. Cardinality(S) : \E a \in S : Standing(S, L, a) = k
<1> DEFINE Before(a) == {b \in S : <<b, a>> \in L}
           n == Cardinality(S)
<1>1. n \in Nat /\ \A a \in S : IsFiniteSet(Before(a)) /\ Cardinality(Before(a)) \in Nat
  BY FS_CardinalityType, FS_Subset
<1>2. \A a \in S : Standing(S, L, a) \in 1 .. n
  <2> TAKE a \in S
  <2>1. Before(a) \subseteq S \ {a}
    OBVIOUS
  <2>2. IsFiniteSet(S \ {a}) /\ Cardinality(S \ {a}) = n - 1
    BY FS_RemoveElement
  <2> DEFINE c == Cardinality(Before(a))
  <2>3. c <= n - 1 /\ c \in Nat
    <3> DEFINE B == Before(a)
               M == S \ {a}
    <3>1. B \subseteq M /\ IsFiniteSet(M) /\ Cardinality(M) = n - 1 /\ Cardinality(B) = c
      BY <2>1, <2>2
    <3> HIDE DEF B, M, c, n
    <3> QED BY <3>1, Fewer
  <2>4. Standing(S, L, a) = c + 1
    BY DEF Standing
  <2> HIDE DEF c, n
  <2> QED BY <1>1, <2>3, <2>4
<1>3. ASSUME NEW a \in S, NEW b \in S, <<a, b>> \in L  PROVE Standing(S, L, a) < Standing(S, L, b)
  <2>1. a \notin Before(a) /\ Before(a) \cup {a} \subseteq Before(b)
    BY <1>3
  <2>2. IsFiniteSet(Before(a) \cup {a}) /\ Cardinality(Before(a) \cup {a}) = Cardinality(Before(a)) + 1
    BY <1>1, <2>1, FS_AddElement
  <2> DEFINE c == Cardinality(Before(a))
             d == Cardinality(Before(b))
             Both == Before(a) \cup {a}
  <2>3. IsFiniteSet(Before(b)) /\ Both \subseteq Before(b) /\ Cardinality(Both) = c + 1
    BY <1>1, <2>1, <2>2
  <2>4. c + 1 <= d
    <3> DEFINE B == Before(b)
    <3>1. Both \subseteq B /\ IsFiniteSet(B) /\ Cardinality(Both) = c + 1 /\ Cardinality(B) = d
      BY <2>3
    <3> HIDE DEF B, Both, c, d
    <3> QED BY <3>1, Fewer
  <2>5. Standing(S, L, a) = c + 1 /\ Standing(S, L, b) = d + 1 /\ c \in Nat /\ d \in Nat
    BY <1>1 DEF Standing
  <2> HIDE DEF c, d
  <2> QED BY <2>4, <2>5
<1>4. \A a, b \in S : <<a, b>> \in L <=> Standing(S, L, a) < Standing(S, L, b)
  <2> TAKE a, b \in S
  <2> DEFINE k == Standing(S, L, a)
             l == Standing(S, L, b)
  <2>1. k \in 1 .. n /\ l \in 1 .. n
    BY <1>2
  <2>2. (<<a, b>> \in L => k < l) /\ (<<b, a>> \in L => l < k)
    BY <1>3
  <2>3. a = b \/ <<a, b>> \in L \/ <<b, a>> \in L
    OBVIOUS
  <2>4. a = b => k = l
    OBVIOUS
  <2> HIDE DEF k, l, n
  <2>5. <<a, b>> \in L <=> k < l
    BY <1>1, <2>1, <2>2, <2>3, <2>4
  <2> QED BY <2>5 DEF k, l
<1>5. \A k \in 1 .. n : \E a \in S : Standing(S, L, a) = k
  <2> DEFINE r == [a \in S |-> Standing(S, L, a)]
  <2>1. r \in [S -> 1 .. n]
    BY <1>2
  <2>2. \A a, b \in S : r[a] = r[b] => a = b
    <3> SUFFICES ASSUME NEW a \in S, NEW b \in S, Standing(S, L, a) = Standing(S, L, b)  PROVE a = b
      OBVIOUS
    <3>1. Standing(S, L, a) \in Int
      BY <1>1, <1>2
    <3> QED BY <1>4, <3>1
  <2> HIDE DEF r
  <2>3. \A k \in 1 .. n : \E a \in S : r[a] = k
    BY <2>1, <2>2, RankOnto
  <2> QED BY <2>3 DEF r
<1> QED BY <1>2, <1>4, <1>5
(* A set of numbers that holds 0, and with every number the next, holds    *)
(* them all.                                                               *)
LEMMA Upwards ==
  ASSUME NEW T, 0 \in T, \A n \in Nat : n \in T => n + 1 \in T
  PROVE  Nat \subseteq T
<1> DEFINE R == OpToRel(<, Nat)
<1>0. SUFFICES ASSUME Nat \ T # {}  PROVE FALSE
  OBVIOUS
<1>1. PICK x \in Nat \ T : \A y \in Nat \ T : ~(<<y, x>> \in R)
  <2>1. IsWellFoundedOn(R, Nat)
    BY NatLessThanWellFounded
  <2> HIDE DEF R
  <2> QED BY <1>0, <2>1, WFMin
<1>2. x # 0 /\ x - 1 \in Nat
  OBVIOUS
<1>3. <<x - 1, x>> \in R
  BY <1>2 DEF OpToRel
<1>4. x - 1 \in T
  BY <1>1, <1>2, <1>3
<1> QED  BY <1>2, <1>4
(* A set in a strict total order: the members, each once, in this order.   *)
Total(S, L) ==
  /\ \A a \in S : <<a, a>> \notin L
  /\ \A a, b, c \in S : <<a, b>> \in L /\ <<b, c>> \in L => <<a, c>> \in L
  /\ \A a, b \in S : a = b \/ <<a, b>> \in L \/ <<b, a>> \in L
LEMMA OrderedIs ==
  ASSUME NEW S, IsFiniteSet(S), NEW L, Total(S, L)
  PROVE  /\ Cardinality(S) \in Nat
         /\ Ordered(S, L) \in [1 .. Cardinality(S) -> S]
         /\ Ordered(S, L) \in Seq(S) /\ Len(Ordered(S, L)) = Cardinality(S)
         /\ DOMAIN Ordered(S, L) = 1 .. Cardinality(S)
         /\ \A a \in S : \E k \in 1 .. Cardinality(S) : Ordered(S, L)[k] = a
         /\ \A i, j \in 1 .. Cardinality(S) : i < j => <<Ordered(S, L)[i], Ordered(S, L)[j]>> \in L
<1> DEFINE n == Cardinality(S)
           s == [k \in 1 .. n |-> CHOOSE x \in S : Cardinality({y \in S : <<y, x>> \in L}) = k - 1]
<1>1. /\ \A a \in S : Standing(S, L, a) \in 1 .. n
      /\ \A a, b \in S : <<a, b>> \in L <=> Standing(S, L, a) < Standing(S, L, b)
      /\ \A k \in 1 .. n : \E a \in S : Standing(S, L, a) = k
  BY Ranks DEF Total
<1>2. n \in Nat /\ \A a \in S : Cardinality({y \in S : <<y, a>> \in L}) \in Nat
  BY FS_CardinalityType, FS_Subset
<1>3. \A k \in 1 .. n : s[k] \in S /\ Standing(S, L, s[k]) = k
  <2> TAKE k \in 1 .. n
  <2>1. \E a \in S : Cardinality({y \in S : <<y, a>> \in L}) = k - 1
    <3>1. PICK a \in S : Standing(S, L, a) = k
      BY <1>1
    <3>2. Cardinality({b \in S : <<b, a>> \in L}) + 1 = k
      BY <3>1 DEF Standing
    <3>3. Cardinality({y \in S : <<y, a>> \in L}) \in Nat
      BY <1>2
    <3>4. Cardinality({y \in S : <<y, a>> \in L}) = k - 1
      BY <1>2, <3>2, <3>3
    <3> QED BY <3>4
  <2>2. s[k] \in S /\ Cardinality({y \in S : <<y, s[k]>> \in L}) = k - 1
    BY <2>1
  <2> HIDE DEF s
  <2> QED BY <1>2, <2>2 DEF Standing
<1>4. Ordered(S, L) = s
  BY DEF Ordered
<1>5. DOMAIN s = 1 .. n /\ s \in [1 .. n -> S]
  BY <1>3
<1> HIDE DEF s, n
<1>6. s \in Seq(S) /\ Len(s) = n
  BY <1>2, <1>5
<1>7. ASSUME NEW a \in S  PROVE \E k \in 1 .. n : s[k] = a
  <2>1. Standing(S, L, a) \in 1 .. n
    BY <1>1
  <2> DEFINE k == Standing(S, L, a)
  <2>2. s[k] \in S /\ Standing(S, L, s[k]) = k /\ k \in Int
    BY <1>3, <2>1
  <2>3. ~(<<a, s[k]>> \in L) /\ ~(<<s[k], a>> \in L)
    BY <1>1, <2>2
  <2> QED BY <2>1, <2>2, <2>3 DEF Total
<1>8. ASSUME NEW i \in 1 .. n, NEW j \in 1 .. n, i < j  PROVE <<s[i], s[j]>> \in L
  BY <1>1, <1>3, <1>8
<1> QED BY <1>2, <1>4, <1>5, <1>6, <1>7, <1>8 DEF n

(* Numbers in order.                                                       *)
LEMMA AscendingIs ==
  ASSUME NEW S, IsFiniteSet(S), S \subseteq Int
  PROVE  /\ Cardinality(S) \in Nat
         /\ Ascending(S) \in [1 .. Cardinality(S) -> S]
         /\ Ascending(S) \in Seq(S) /\ Len(Ascending(S)) = Cardinality(S)
         /\ DOMAIN Ascending(S) = 1 .. Cardinality(S)
         /\ \A a \in S : \E k \in 1 .. Cardinality(S) : Ascending(S)[k] = a
         /\ \A i, j \in 1 .. Cardinality(S) : i < j => Ascending(S)[i] < Ascending(S)[j]
<1> DEFINE L == {p \in S \X S : p[1] < p[2]}
<1>1. \A a, b \in S : <<a, b>> \in L <=> a < b
  OBVIOUS
<1>2. Ascending(S) = Ordered(S, L)
  BY DEF Ascending
<1> HIDE DEF L
<1>3. Total(S, L)
  BY <1>1 DEF Total
<1> DEFINE s == Ordered(S, L)
           n == Cardinality(S)
<1>4. /\ n \in Nat
      /\ s \in [1 .. n -> S]
      /\ s \in Seq(S) /\ Len(s) = n
      /\ DOMAIN s = 1 .. n
      /\ \A a \in S : \E k \in 1 .. n : s[k] = a
      /\ \A i, j \in 1 .. n : i < j => <<s[i], s[j]>> \in L
  BY <1>3, OrderedIs
<1>5. Ascending(S) = s
  BY <1>2
<1> HIDE DEF s, n
<1>6. \A i, j \in 1 .. n : i < j => s[i] < s[j]
  BY <1>1, <1>4
<1> QED BY <1>4, <1>5, <1>6 DEF n

(* The least and the greatest number of a set.                             *)
LEMMA MinMax ==
  ASSUME NEW S, IsFiniteSet(S), S \subseteq Int, S # {}
  PROVE  /\ Min(S) \in S /\ \A x \in S : Min(S) <= x
         /\ Max(S) \in S /\ \A x \in S : x <= Max(S)
<1> DEFINE n == Cardinality(S)
           s == Ascending(S)
<1>1. /\ n \in Nat
      /\ s \in [1 .. n -> S]
      /\ \A a \in S : \E k \in 1 .. n : s[k] = a
      /\ \A i, j \in 1 .. n : i < j => s[i] < s[j]
  BY AscendingIs
<1> HIDE DEF n, s
<1>2. 1 \in 1 .. n /\ n \in 1 .. n
  <2>1. PICK a : a \in S
    OBVIOUS
  <2>2. \E k \in 1 .. n : s[k] = a
    BY <1>1, <2>1
  <2> QED BY <1>1, <2>2
<1>3. \A x \in S : s[1] <= x /\ x <= s[n]
  <2> TAKE x \in S
  <2>1. PICK k \in 1 .. n : s[k] = x
    BY <1>1
  <2>2. s[1] \in Int /\ s[n] \in Int /\ x \in Int
    BY <1>1, <1>2
  <2>3. (k = 1 \/ s[1] < s[k]) /\ (k = n \/ s[k] < s[n])
    BY <1>1, <1>2
  <2> QED BY <2>1, <2>2, <2>3
<1>4. s[1] \in S /\ s[n] \in S
  BY <1>1, <1>2
<1>5. \E x \in S : \A y \in S : x =< y
  BY <1>3, <1>4
<1>6. \E x \in S : \A y \in S : x >= y
  <2>1. \A y \in S : s[n] >= y
    BY <1>3, <1>4
  <2> QED BY <1>4, <2>1
<1>7. Min(S) \in S /\ \A y \in S : Min(S) =< y
  BY <1>5 DEF Min
<1>8. Max(S) \in S /\ \A y \in S : Max(S) >= y
  BY <1>6 DEF Max
<1> QED BY <1>7, <1>8

(* The places of a set, in order, show what stands at them.                *)
LEMMA PickedIs ==
  ASSUME NEW X, NEW q \in Seq(X), NEW S \in SUBSET (DOMAIN q)
  PROVE  /\ Picked(q, S) \in Seq(X)
         /\ \A k \in DOMAIN Picked(q, S) : \E i \in S : Picked(q, S)[k] = q[i]
         /\ \A i \in S : \E k \in DOMAIN Picked(q, S) : Picked(q, S)[k] = q[i]
         /\ Len(Picked(q, S)) = Cardinality(S)
<1> DEFINE n == Cardinality(S)
           at == Ascending(S)
           p == [k \in DOMAIN at |-> q[at[k]]]
<1>1. IsFiniteSet(S) /\ S \subseteq Int
  <2>1. DOMAIN q = 1 .. Len(q) /\ Len(q) \in Nat
    OBVIOUS
  <2>2. IsFiniteSet(1 .. Len(q))
    BY <2>1, FS_Interval
  <2> QED BY <2>1, <2>2, FS_Subset
<1>2. /\ n \in Nat
      /\ at \in [1 .. n -> S]
      /\ DOMAIN at = 1 .. n
      /\ \A a \in S : \E k \in 1 .. n : at[k] = a
  BY <1>1, AscendingIs
<1>3. Picked(q, S) = p
  BY DEF Picked
<1> HIDE DEF n, at
<1>4. p \in [1 .. n -> X] /\ DOMAIN p = 1 .. n
  BY <1>2
<1>5. \A k \in 1 .. n : p[k] = q[at[k]]
  BY <1>2
<1> HIDE DEF p
<1>6. p \in Seq(X) /\ Len(p) = n
  BY <1>2, <1>4
<1>7. \A k \in 1 .. n : \E i \in S : p[k] = q[i]
  BY <1>2, <1>5
<1>8. \A i \in S : \E k \in 1 .. n : p[k] = q[i]
  BY <1>2, <1>5
<1> QED BY <1>3, <1>4, <1>6, <1>7, <1>8 DEF n

(* A function on the first numbers is a sequence.                          *)
LEMMA IsSeq ==
  ASSUME NEW n \in Nat, NEW X, NEW f \in [1 .. n -> X]
  PROVE  f \in Seq(X) /\ Len(f) = n /\ DOMAIN f = 1 .. n
OBVIOUS

(* What a function on a finite set takes is finite, and so is what stands  *)
(* in a sequence.                                                          *)
LEMMA FiniteImage ==
  ASSUME NEW D, IsFiniteSet(D), NEW f, DOMAIN f = D
  PROVE  IsFiniteSet({f[x] : x \in D})
<1> DEFINE T == {f[x] : x \in D}
           g == [x \in D |-> f[x]]
<1>1. g \in [D -> T] /\ \A t \in T : \E x \in D : g[x] = t
  OBVIOUS
<1> HIDE DEF g, T
<1>2. g \in Surjection(D, T)
  BY <1>1 DEF Surjection
<1> QED BY <1>2, FS_Surjection DEF T

LEMMA ToSetFinite ==
  ASSUME NEW X, NEW s \in Seq(X)
  PROVE  IsFiniteSet(ToSet(s)) /\ ToSet(s) \subseteq X
<1>1. Len(s) \in Nat /\ DOMAIN s = 1 .. Len(s) /\ \A i \in 1 .. Len(s) : s[i] \in X
  OBVIOUS
<1>2. IsFiniteSet(DOMAIN s)
  BY <1>1, FS_Interval
<1>3. IsFiniteSet(ToSet(s))
  BY <1>2, FiniteImage DEF ToSet
<1> QED BY <1>1, <1>3 DEF ToSet
(* A flattened sequence is built by adding one sequence after the other.   *)
Grows(f, ss) ==
  /\ f[0] = <<>>
  /\ \A k \in 1 .. Len(ss) : f[k] = f[k - 1] \o ss[k]
LEMMA FlatIs ==
  ASSUME NEW X, NEW ss \in Seq(Seq(X))
  PROVE  \E f : Grows(f, ss) /\ f[Len(ss)] = FlattenSeq(ss) /\ \A k \in 0 .. Len(ss) : f[k] \in Seq(X)
<1> DEFINE n == Len(ss)
           Solves(g, k) == g = [i \in 1 .. k |-> IF i = 1 THEN ss[i] ELSE g[i - 1] \o ss[i]]
           T == {k \in Nat : \E g : Solves(g, k)}
<1>0. n \in Nat /\ DOMAIN ss = 1 .. n /\ \A i \in 1 .. n : ss[i] \in Seq(X)
  OBVIOUS
<1>1. 0 \in T
  <2>1. Solves([i \in 1 .. 0 |-> <<>>], 0)
    OBVIOUS
  <2> QED BY <2>1
<1>2. ASSUME NEW k \in Nat, k \in T  PROVE k + 1 \in T
  <2>1. PICK g : Solves(g, k)
    BY <1>2
  <2> DEFINE h == [i \in 1 .. k + 1 |-> IF i = k + 1 THEN (IF i = 1 THEN ss[i] ELSE g[i - 1] \o ss[i]) ELSE g[i]]
  <2>2. \A i \in 1 .. k + 1 : h[i] = IF i = 1 THEN ss[i] ELSE h[i - 1] \o ss[i]
    <3> TAKE i \in 1 .. k + 1
    <3>1. CASE i = k + 1
      <4>1. h[i] = IF i = 1 THEN ss[i] ELSE g[i - 1] \o ss[i]
        BY <3>1
      <4>2. i # 1 => h[i - 1] = g[i - 1]
        BY <3>1
      <4> QED BY <4>1, <4>2
    <3>2. CASE i \in 1 .. k /\ i # k + 1
      <4>1. g[i] = IF i = 1 THEN ss[i] ELSE g[i - 1] \o ss[i]
        BY <2>1, <3>2
      <4>2. h[i] = g[i] /\ (i # 1 => h[i - 1] = g[i - 1])
        BY <3>2
      <4> QED BY <4>1, <4>2
    <3> QED BY <3>1, <3>2
  <2>3. Solves(h, k + 1)
    BY <2>2
  <2> HIDE DEF h, Solves
  <2>4. k + 1 \in Nat
    OBVIOUS
  <2> QED BY <2>3, <2>4
<1>3. \E g : Solves(g, n)
  <2>1. n \in T
    <3> HIDE DEF T
    <3> QED BY <1>0, <1>1, <1>2, Upwards
  <2> QED BY <2>1
<1> DEFINE f == CHOOSE g : Solves(g, n)
<1>4. Solves(f, n)
  BY <1>3
<1>5. FlattenSeq(ss) = IF n = 0 THEN ss ELSE f[n]
  BY DEF FlattenSeq
<1> HIDE DEF f
<1>6. \A i \in 1 .. n : f[i] = IF i = 1 THEN ss[i] ELSE f[i - 1] \o ss[i]
  BY <1>4
<1> DEFINE h == [k \in 0 .. n |-> IF k = 0 THEN <<>> ELSE f[k]]
           U == {k \in Nat : k <= n => h[k] \in Seq(X)}
<1>7. h[0] = <<>> /\ \A k \in 1 .. n : h[k] = f[k]
  BY <1>0
<1>8. \A k \in 1 .. n : h[k] = h[k - 1] \o ss[k]
  <2> TAKE k \in 1 .. n
  <2>1. ss[k] \in Seq(X)
    BY <1>0
  <2>2. <<>> \o ss[k] = ss[k]
    BY <2>1, ConcatEmptySeq
  <2>3. CASE k = 1
    <3>1. h[k] = ss[k] /\ h[k - 1] = <<>>
      BY <1>6, <1>7, <2>3
    <3> QED BY <2>2, <3>1
  <2>4. CASE k # 1
    <3>1. k - 1 \in 1 .. n
      BY <1>0, <2>4
    <3> QED BY <1>6, <1>7, <2>4, <3>1
  <2> QED BY <2>3, <2>4
<1>9. \A k \in 0 .. n : h[k] \in Seq(X)
  <2> HIDE DEF h, n
  <2>1. 0 \in U
    <3>1. <<>> \in Seq(X)
      OBVIOUS
    <3> QED BY <1>7, <3>1
  <2>2. ASSUME NEW k \in Nat, k \in U  PROVE k + 1 \in U
    <3> SUFFICES ASSUME k + 1 <= n  PROVE h[k + 1] \in Seq(X)
      OBVIOUS
    <3>1. h[k] \in Seq(X) /\ k + 1 \in 1 .. n /\ ss[k + 1] \in Seq(X)
      BY <1>0, <2>2
    <3>2. h[k + 1] = h[k] \o ss[k + 1]
      <4> DEFINE j == k + 1
      <4>1. j \in 1 .. n /\ j - 1 = k
        BY <3>1
      <4> HIDE DEF j
      <4>2. h[j] = h[k] \o ss[j]
        BY <1>8, <4>1
      <4> QED BY <4>2 DEF j
    <3> QED BY <3>1, <3>2
  <2>3. Nat \subseteq U
    <3> HIDE DEF U
    <3> QED BY <2>1, <2>2, Upwards
  <2> QED BY <1>0, <2>3
<1>10. h[n] = FlattenSeq(ss)
  <2>1. CASE n = 0
    <3>1. ss = <<>>
      BY <2>1, EmptySeq
    <3> QED BY <1>5, <1>7, <2>1, <3>1
  <2>2. CASE n # 0
    BY <1>0, <1>5, <1>7, <2>2
  <2> QED BY <2>1, <2>2
<1> HIDE DEF h
<1>11. Grows(h, ss)
  BY <1>7, <1>8 DEF Grows, n
<1> QED BY <1>9, <1>10, <1>11 DEF n

-----------------------------------------------------------------------------
(* What the recursive functions of the passes are: each goes from nothing  *)
(* done to all done, one step at a time.                                   *)

KeepsFirst(r, before) == IF \E q \in before : Meets(q, r) THEN before ELSE before \cup {r}
Opened(call, cells, row) ==
  [call EXCEPT !.mapper = row.mapper, !.ok = @ /\ \A n \in DOMAIN cells : Fits(row.edits[n])]

LEMMA FindsIs ==
  ASSUME NEW seq, Len(seq) \in Nat
  PROVE  /\ Finds(seq)[0] = {}
         /\ \A n \in 1 .. Len(seq) : Finds(seq)[n] = KeepsFirst(seq[n], Finds(seq)[n - 1])
<1> DEFINE Step(n, x) == KeepsFirst(seq[n], x)
           To(k, g) == g = [n \in 0 .. k |-> IF n = 0 THEN {} ELSE Step(n, g[n - 1])]
           T == {k \in Nat : \E g : To(k, g)}
<1>1. \E g : To(Len(seq), g)
  <2> HIDE DEF Step
  <2>1. 0 \in T
    <3>1. To(0, [n \in 0 .. 0 |-> {}])
      OBVIOUS
    <3> QED BY <3>1
  <2>2. ASSUME NEW k \in Nat, k \in T  PROVE k + 1 \in T
    <3>1. PICK g : To(k, g)
      BY <2>2
    <3> DEFINE h == [n \in 0 .. k + 1 |-> IF n = k + 1 THEN Step(n, g[k]) ELSE g[n]]
    <3>2. \A n \in 0 .. k : g[n] = IF n = 0 THEN {} ELSE Step(n, g[n - 1])
      BY <3>1
    <3>3. \A n \in 0 .. k + 1 : h[n] = IF n = 0 THEN {} ELSE Step(n, h[n - 1])
      BY <3>2
    <3>4. To(k + 1, h)
      BY <3>3
    <3> HIDE DEF h, To
    <3> QED BY <3>4
  <2> HIDE DEF To
  <2>3. Nat \subseteq T
    <3> HIDE DEF T
    <3> QED BY <2>1, <2>2, Upwards
  <2> QED BY <2>3
<1> DEFINE f == CHOOSE g : To(Len(seq), g)
<1>2. To(Len(seq), f)
  BY <1>1
<1>3. Finds(seq) = f
  BY DEF Finds, KeepsFirst
<1> HIDE DEF Step, f
<1>4. \A n \in 0 .. Len(seq) : f[n] = IF n = 0 THEN {} ELSE Step(n, f[n - 1])
  BY <1>2
<1> HIDE DEF To
<1>5. f[0] = {} /\ \A n \in 1 .. Len(seq) : f[n] = Step(n, f[n - 1])
  BY <1>4
<1> QED BY <1>3, <1>5 DEF Step

LEMMA PartsIs ==
  ASSUME NEW o, NEW es, Len(es) \in Nat
  PROVE  /\ Parts(o, es)[0] = <<>>
         /\ \A n \in 1 .. Len(es) : Parts(o, es)[n] = Parts(o, es)[n - 1] \o Written(o, es, n)
<1> DEFINE Step(n, x) == x \o Written(o, es, n)
           To(k, g) == g = [n \in 0 .. k |-> IF n = 0 THEN <<>> ELSE Step(n, g[n - 1])]
           T == {k \in Nat : \E g : To(k, g)}
<1>1. \E g : To(Len(es), g)
  <2> HIDE DEF Step
  <2>1. 0 \in T
    <3>1. To(0, [n \in 0 .. 0 |-> <<>>])
      OBVIOUS
    <3> QED BY <3>1
  <2>2. ASSUME NEW k \in Nat, k \in T  PROVE k + 1 \in T
    <3>1. PICK g : To(k, g)
      BY <2>2
    <3> DEFINE h == [n \in 0 .. k + 1 |-> IF n = k + 1 THEN Step(n, g[k]) ELSE g[n]]
    <3>2. \A n \in 0 .. k : g[n] = IF n = 0 THEN <<>> ELSE Step(n, g[n - 1])
      BY <3>1
    <3>3. \A n \in 0 .. k + 1 : h[n] = IF n = 0 THEN <<>> ELSE Step(n, h[n - 1])
      BY <3>2
    <3>4. To(k + 1, h)
      BY <3>3
    <3> HIDE DEF h, To
    <3> QED BY <3>4
  <2> HIDE DEF To
  <2>3. Nat \subseteq T
    <3> HIDE DEF T
    <3> QED BY <2>1, <2>2, Upwards
  <2> QED BY <2>3
<1> DEFINE f == CHOOSE g : To(Len(es), g)
<1>2. To(Len(es), f)
  BY <1>1
<1>3. Parts(o, es) = f
  BY DEF Parts
<1> HIDE DEF Step, f
<1>4. \A n \in 0 .. Len(es) : f[n] = IF n = 0 THEN <<>> ELSE Step(n, f[n - 1])
  BY <1>2
<1> HIDE DEF To
<1>5. f[0] = <<>> /\ \A n \in 1 .. Len(es) : f[n] = Step(n, f[n - 1])
  BY <1>4
<1> QED BY <1>3, <1>5 DEF Step

LEMMA EndsIs ==
  ASSUME NEW es, Len(es) \in Nat
  PROVE  /\ Ends(es)[0] = 0
         /\ \A n \in 1 .. Len(es) :
              Ends(es)[n] =
                Ends(es)[n - 1] + es[n].start - Behind(es, n - 1) + Len(es[n].text)
<1> DEFINE Step(n, x) == x + es[n].start - Behind(es, n - 1) + Len(es[n].text)
           To(k, g) == g = [n \in 0 .. k |-> IF n = 0 THEN 0 ELSE Step(n, g[n - 1])]
           T == {k \in Nat : \E g : To(k, g)}
<1>1. \E g : To(Len(es), g)
  <2> HIDE DEF Step
  <2>1. 0 \in T
    <3>1. To(0, [n \in 0 .. 0 |-> 0])
      OBVIOUS
    <3> QED BY <3>1
  <2>2. ASSUME NEW k \in Nat, k \in T  PROVE k + 1 \in T
    <3>1. PICK g : To(k, g)
      BY <2>2
    <3> DEFINE h == [n \in 0 .. k + 1 |-> IF n = k + 1 THEN Step(n, g[k]) ELSE g[n]]
    <3>2. \A n \in 0 .. k : g[n] = IF n = 0 THEN 0 ELSE Step(n, g[n - 1])
      BY <3>1
    <3>3. \A n \in 0 .. k + 1 : h[n] = IF n = 0 THEN 0 ELSE Step(n, h[n - 1])
      BY <3>2
    <3>4. To(k + 1, h)
      BY <3>3
    <3> HIDE DEF h, To
    <3> QED BY <3>4
  <2> HIDE DEF To
  <2>3. Nat \subseteq T
    <3> HIDE DEF T
    <3> QED BY <2>1, <2>2, Upwards
  <2> QED BY <2>3
<1> DEFINE f == CHOOSE g : To(Len(es), g)
<1>2. To(Len(es), f)
  BY <1>1
<1>3. Ends(es) = f
  BY DEF Ends
<1> HIDE DEF Step, f
<1>4. \A n \in 0 .. Len(es) : f[n] = IF n = 0 THEN 0 ELSE Step(n, f[n - 1])
  BY <1>2
<1> HIDE DEF To
<1>5. f[0] = 0 /\ \A n \in 1 .. Len(es) : f[n] = Step(n, f[n - 1])
  BY <1>4
<1> QED BY <1>3, <1>5 DEF Step

LEMMA AcceptedIs ==
  ASSUME NEW ordered, Len(ordered) \in Nat
  PROVE  /\ AcceptedUpTo(ordered)[0] = <<>>
         /\ \A n \in 1 .. Len(ordered) :
              AcceptedUpTo(ordered)[n] =
                Accept(AcceptedUpTo(ordered)[n - 1], ordered[n])
<1> DEFINE Step(n, x) == Accept(x, ordered[n])
           To(k, g) == g = [n \in 0 .. k |-> IF n = 0 THEN <<>> ELSE Step(n, g[n - 1])]
           T == {k \in Nat : \E g : To(k, g)}
<1>1. \E g : To(Len(ordered), g)
  <2> HIDE DEF Step
  <2>1. 0 \in T
    <3>1. To(0, [n \in 0 .. 0 |-> <<>>])
      OBVIOUS
    <3> QED BY <3>1
  <2>2. ASSUME NEW k \in Nat, k \in T  PROVE k + 1 \in T
    <3>1. PICK g : To(k, g)
      BY <2>2
    <3> DEFINE h == [n \in 0 .. k + 1 |-> IF n = k + 1 THEN Step(n, g[k]) ELSE g[n]]
    <3>2. \A n \in 0 .. k : g[n] = IF n = 0 THEN <<>> ELSE Step(n, g[n - 1])
      BY <3>1
    <3>3. \A n \in 0 .. k + 1 : h[n] = IF n = 0 THEN <<>> ELSE Step(n, h[n - 1])
      BY <3>2
    <3>4. To(k + 1, h)
      BY <3>3
    <3> HIDE DEF h, To
    <3> QED BY <3>4
  <2> HIDE DEF To
  <2>3. Nat \subseteq T
    <3> HIDE DEF T
    <3> QED BY <2>1, <2>2, Upwards
  <2> QED BY <2>3
<1> DEFINE f == CHOOSE g : To(Len(ordered), g)
<1>2. To(Len(ordered), f)
  BY <1>1
<1>3. AcceptedUpTo(ordered) = f
  BY DEF AcceptedUpTo
<1> HIDE DEF Step, f
<1>4. \A n \in 0 .. Len(ordered) : f[n] = IF n = 0 THEN <<>> ELSE Step(n, f[n - 1])
  BY <1>2
<1> HIDE DEF To
<1>5. f[0] = <<>> /\ \A n \in 1 .. Len(ordered) : f[n] = Step(n, f[n - 1])
  BY <1>4
<1> QED BY <1>3, <1>5 DEF Step

LEMMA ForcedIs ==
  ASSUME NEW o, NEW unit, NEW merged, Len(merged) \in Nat
  PROVE  /\ ForcedUpTo(o, unit, merged)[0] = unit
         /\ \A n \in 1 .. Len(merged) :
              ForcedUpTo(o, unit, merged)[n] =
                Forced(o, ForcedUpTo(o, unit, merged)[n - 1], merged[n])
<1> DEFINE Step(n, x) == Forced(o, x, merged[n])
           To(k, g) == g = [n \in 0 .. k |-> IF n = 0 THEN unit ELSE Step(n, g[n - 1])]
           T == {k \in Nat : \E g : To(k, g)}
<1>1. \E g : To(Len(merged), g)
  <2> HIDE DEF Step
  <2>1. 0 \in T
    <3>1. To(0, [n \in 0 .. 0 |-> unit])
      OBVIOUS
    <3> QED BY <3>1
  <2>2. ASSUME NEW k \in Nat, k \in T  PROVE k + 1 \in T
    <3>1. PICK g : To(k, g)
      BY <2>2
    <3> DEFINE h == [n \in 0 .. k + 1 |-> IF n = k + 1 THEN Step(n, g[k]) ELSE g[n]]
    <3>2. \A n \in 0 .. k : g[n] = IF n = 0 THEN unit ELSE Step(n, g[n - 1])
      BY <3>1
    <3>3. \A n \in 0 .. k + 1 : h[n] = IF n = 0 THEN unit ELSE Step(n, h[n - 1])
      BY <3>2
    <3>4. To(k + 1, h)
      BY <3>3
    <3> HIDE DEF h, To
    <3> QED BY <3>4
  <2> HIDE DEF To
  <2>3. Nat \subseteq T
    <3> HIDE DEF T
    <3> QED BY <2>1, <2>2, Upwards
  <2> QED BY <2>3
<1> DEFINE f == CHOOSE g : To(Len(merged), g)
<1>2. To(Len(merged), f)
  BY <1>1
<1>3. ForcedUpTo(o, unit, merged) = f
  BY DEF ForcedUpTo
<1> HIDE DEF Step, f
<1>4. \A n \in 0 .. Len(merged) : f[n] = IF n = 0 THEN unit ELSE Step(n, f[n - 1])
  BY <1>2
<1> HIDE DEF To
<1>5. f[0] = unit /\ \A n \in 1 .. Len(merged) : f[n] = Step(n, f[n - 1])
  BY <1>4
<1> QED BY <1>3, <1>5 DEF Step

LEMMA OffsetsIs ==
  ASSUME NEW parts, Len(parts) \in Nat
  PROVE  /\ Offsets(parts)[0] = 0
         /\ \A n \in 1 .. Len(parts) : Offsets(parts)[n] = Offsets(parts)[n - 1] + Len(parts[n])
<1> DEFINE Step(n, x) == x + Len(parts[n])
           To(k, g) == g = [n \in 0 .. k |-> IF n = 0 THEN 0 ELSE Step(n, g[n - 1])]
           T == {k \in Nat : \E g : To(k, g)}
<1>1. \E g : To(Len(parts), g)
  <2> HIDE DEF Step
  <2>1. 0 \in T
    <3>1. To(0, [n \in 0 .. 0 |-> 0])
      OBVIOUS
    <3> QED BY <3>1
  <2>2. ASSUME NEW k \in Nat, k \in T  PROVE k + 1 \in T
    <3>1. PICK g : To(k, g)
      BY <2>2
    <3> DEFINE h == [n \in 0 .. k + 1 |-> IF n = k + 1 THEN Step(n, g[k]) ELSE g[n]]
    <3>2. \A n \in 0 .. k : g[n] = IF n = 0 THEN 0 ELSE Step(n, g[n - 1])
      BY <3>1
    <3>3. \A n \in 0 .. k + 1 : h[n] = IF n = 0 THEN 0 ELSE Step(n, h[n - 1])
      BY <3>2
    <3>4. To(k + 1, h)
      BY <3>3
    <3> HIDE DEF h, To
    <3> QED BY <3>4
  <2> HIDE DEF To
  <2>3. Nat \subseteq T
    <3> HIDE DEF T
    <3> QED BY <2>1, <2>2, Upwards
  <2> QED BY <2>3
<1> DEFINE f == CHOOSE g : To(Len(parts), g)
<1>2. To(Len(parts), f)
  BY <1>1
<1>3. Offsets(parts) = f
  BY DEF Offsets
<1> HIDE DEF Step, f
<1>4. \A n \in 0 .. Len(parts) : f[n] = IF n = 0 THEN 0 ELSE Step(n, f[n - 1])
  BY <1>2
<1> HIDE DEF To
<1>5. f[0] = 0 /\ \A n \in 1 .. Len(parts) : f[n] = Step(n, f[n - 1])
  BY <1>4
<1> QED BY <1>3, <1>5 DEF Step

LEMMA MergedIs ==
  ASSUME NEW row, NEW cells, NEW run, NEW keep, NEW joined, NEW spans, Len(spans) \in Nat
  PROVE  /\ MergedUpTo(row, cells, run, keep, joined, spans)[0] = row
         /\ \A n \in 1 .. Len(spans) :
              MergedUpTo(row, cells, run, keep, joined, spans)[n] =
                Merge(MergedUpTo(row, cells, run, keep, joined, spans)[n - 1],
                  Surface(joined, spans[n]), spans[n], Fragments(cells, run, spans[n]), keep)
<1> DEFINE Step(n, x) == Merge(x, Surface(joined, spans[n]), spans[n], Fragments(cells, run, spans[n]), keep)
           To(k, g) == g = [n \in 0 .. k |-> IF n = 0 THEN row ELSE Step(n, g[n - 1])]
           T == {k \in Nat : \E g : To(k, g)}
<1>1. \E g : To(Len(spans), g)
  <2> HIDE DEF Step
  <2>1. 0 \in T
    <3>1. To(0, [n \in 0 .. 0 |-> row])
      OBVIOUS
    <3> QED BY <3>1
  <2>2. ASSUME NEW k \in Nat, k \in T  PROVE k + 1 \in T
    <3>1. PICK g : To(k, g)
      BY <2>2
    <3> DEFINE h == [n \in 0 .. k + 1 |-> IF n = k + 1 THEN Step(n, g[k]) ELSE g[n]]
    <3>2. \A n \in 0 .. k : g[n] = IF n = 0 THEN row ELSE Step(n, g[n - 1])
      BY <3>1
    <3>3. \A n \in 0 .. k + 1 : h[n] = IF n = 0 THEN row ELSE Step(n, h[n - 1])
      BY <3>2
    <3>4. To(k + 1, h)
      BY <3>3
    <3> HIDE DEF h, To
    <3> QED BY <3>4
  <2> HIDE DEF To
  <2>3. Nat \subseteq T
    <3> HIDE DEF T
    <3> QED BY <2>1, <2>2, Upwards
  <2> QED BY <2>3
<1> DEFINE f == CHOOSE g : To(Len(spans), g)
<1>2. To(Len(spans), f)
  BY <1>1
<1>3. MergedUpTo(row, cells, run, keep, joined, spans) = f
  BY DEF MergedUpTo
<1> HIDE DEF Step, f
<1>4. \A n \in 0 .. Len(spans) : f[n] = IF n = 0 THEN row ELSE Step(n, f[n - 1])
  BY <1>2
<1> HIDE DEF To
<1>5. f[0] = row /\ \A n \in 1 .. Len(spans) : f[n] = Step(n, f[n - 1])
  BY <1>4
<1> QED BY <1>3, <1>5 DEF Step

LEMMA RunsIs ==
  ASSUME NEW row, NEW cells, NEW runs, NEW keep, NEW ps, NEW lists, Len(runs) \in Nat
  PROVE  /\ RunsUpTo(row, cells, runs, keep, ps, lists)[0] = row
         /\ \A n \in 1 .. Len(runs) :
              RunsUpTo(row, cells, runs, keep, ps, lists)[n] =
                MergeRun(RunsUpTo(row, cells, runs, keep, ps, lists)[n - 1], cells, runs[n], keep, ps, lists)
<1> DEFINE Step(n, x) == MergeRun(x, cells, runs[n], keep, ps, lists)
           To(k, g) == g = [n \in 0 .. k |-> IF n = 0 THEN row ELSE Step(n, g[n - 1])]
           T == {k \in Nat : \E g : To(k, g)}
<1>1. \E g : To(Len(runs), g)
  <2> HIDE DEF Step
  <2>1. 0 \in T
    <3>1. To(0, [n \in 0 .. 0 |-> row])
      OBVIOUS
    <3> QED BY <3>1
  <2>2. ASSUME NEW k \in Nat, k \in T  PROVE k + 1 \in T
    <3>1. PICK g : To(k, g)
      BY <2>2
    <3> DEFINE h == [n \in 0 .. k + 1 |-> IF n = k + 1 THEN Step(n, g[k]) ELSE g[n]]
    <3>2. \A n \in 0 .. k : g[n] = IF n = 0 THEN row ELSE Step(n, g[n - 1])
      BY <3>1
    <3>3. \A n \in 0 .. k + 1 : h[n] = IF n = 0 THEN row ELSE Step(n, h[n - 1])
      BY <3>2
    <3>4. To(k + 1, h)
      BY <3>3
    <3> HIDE DEF h, To
    <3> QED BY <3>4
  <2> HIDE DEF To
  <2>3. Nat \subseteq T
    <3> HIDE DEF T
    <3> QED BY <2>1, <2>2, Upwards
  <2> QED BY <2>3
<1> DEFINE f == CHOOSE g : To(Len(runs), g)
<1>2. To(Len(runs), f)
  BY <1>1
<1>3. RunsUpTo(row, cells, runs, keep, ps, lists) = f
  BY DEF RunsUpTo
<1> HIDE DEF Step, f
<1>4. \A n \in 0 .. Len(runs) : f[n] = IF n = 0 THEN row ELSE Step(n, f[n - 1])
  BY <1>2
<1> HIDE DEF To
<1>5. f[0] = row /\ \A n \in 1 .. Len(runs) : f[n] = Step(n, f[n - 1])
  BY <1>4
<1> QED BY <1>3, <1>5 DEF Step

LEMMA EdgesIs ==
  ASSUME NEW row, NEW cells, NEW clean, NEW keep, NEW ps, NEW lists, Len(cells) - 1 \in Nat
  PROVE  /\ EdgesUpTo(row, cells, clean, keep, ps, lists)[0] = row
         /\ \A n \in 1 .. Len(cells) - 1 :
              EdgesUpTo(row, cells, clean, keep, ps, lists)[n] =
                (IF Extends(EdgesUpTo(row, cells, clean, keep, ps, lists)[n - 1], n, clean)
                   THEN ExtendEdge(EdgesUpTo(row, cells, clean, keep, ps, lists)[n - 1], cells, n, keep, ps, lists)
                   ELSE EdgesUpTo(row, cells, clean, keep, ps, lists)[n - 1])
<1> DEFINE Step(n, x) == (IF Extends(x, n, clean) THEN ExtendEdge(x, cells, n, keep, ps, lists) ELSE x)
           To(k, g) == g = [n \in 0 .. k |-> IF n = 0 THEN row ELSE Step(n, g[n - 1])]
           T == {k \in Nat : \E g : To(k, g)}
<1>1. \E g : To(Len(cells) - 1, g)
  <2> HIDE DEF Step
  <2>1. 0 \in T
    <3>1. To(0, [n \in 0 .. 0 |-> row])
      OBVIOUS
    <3> QED BY <3>1
  <2>2. ASSUME NEW k \in Nat, k \in T  PROVE k + 1 \in T
    <3>1. PICK g : To(k, g)
      BY <2>2
    <3> DEFINE h == [n \in 0 .. k + 1 |-> IF n = k + 1 THEN Step(n, g[k]) ELSE g[n]]
    <3>2. \A n \in 0 .. k : g[n] = IF n = 0 THEN row ELSE Step(n, g[n - 1])
      BY <3>1
    <3>3. \A n \in 0 .. k + 1 : h[n] = IF n = 0 THEN row ELSE Step(n, h[n - 1])
      BY <3>2
    <3>4. To(k + 1, h)
      BY <3>3
    <3> HIDE DEF h, To
    <3> QED BY <3>4
  <2> HIDE DEF To
  <2>3. Nat \subseteq T
    <3> HIDE DEF T
    <3> QED BY <2>1, <2>2, Upwards
  <2> QED BY <2>3
<1> DEFINE f == CHOOSE g : To(Len(cells) - 1, g)
<1>2. To(Len(cells) - 1, f)
  BY <1>1
<1>3. EdgesUpTo(row, cells, clean, keep, ps, lists) = f
  BY DEF EdgesUpTo, ExtendAt
<1> HIDE DEF Step, f
<1>4. \A n \in 0 .. Len(cells) - 1 : f[n] = IF n = 0 THEN row ELSE Step(n, f[n - 1])
  BY <1>2
<1> HIDE DEF To
<1>5. f[0] = row /\ \A n \in 1 .. Len(cells) - 1 : f[n] = Step(n, f[n - 1])
  BY <1>4
<1> QED BY <1>3, <1>5 DEF Step

LEMMA PutsAre ==
  ASSUME NEW o, NEW unit, NEW spans, Len(spans) \in Nat
  PROVE  /\ PutUpTo(o, unit, spans)[0] = unit
         /\ \A n \in 1 .. Len(spans) :
              PutUpTo(o, unit, spans)[n] =
                Put(o, Text(o, unit.edits), PutUpTo(o, unit, spans)[n - 1], spans[FromRight(spans)[n]])
<1> DEFINE Step(n, x) == Put(o, Text(o, unit.edits), x, spans[FromRight(spans)[n]])
           To(k, g) == g = [n \in 0 .. k |-> IF n = 0 THEN unit ELSE Step(n, g[n - 1])]
           T == {k \in Nat : \E g : To(k, g)}
<1>1. \E g : To(Len(spans), g)
  <2> HIDE DEF Step
  <2>1. 0 \in T
    <3>1. To(0, [n \in 0 .. 0 |-> unit])
      OBVIOUS
    <3> QED BY <3>1
  <2>2. ASSUME NEW k \in Nat, k \in T  PROVE k + 1 \in T
    <3>1. PICK g : To(k, g)
      BY <2>2
    <3> DEFINE h == [n \in 0 .. k + 1 |-> IF n = k + 1 THEN Step(n, g[k]) ELSE g[n]]
    <3>2. \A n \in 0 .. k : g[n] = IF n = 0 THEN unit ELSE Step(n, g[n - 1])
      BY <3>1
    <3>3. \A n \in 0 .. k + 1 : h[n] = IF n = 0 THEN unit ELSE Step(n, h[n - 1])
      BY <3>2
    <3>4. To(k + 1, h)
      BY <3>3
    <3> HIDE DEF h, To
    <3> QED BY <3>4
  <2> HIDE DEF To
  <2>3. Nat \subseteq T
    <3> HIDE DEF T
    <3> QED BY <2>1, <2>2, Upwards
  <2> QED BY <2>3
<1> DEFINE f == CHOOSE g : To(Len(spans), g)
<1>2. To(Len(spans), f)
  BY <1>1
<1>3. PutUpTo(o, unit, spans) = f
  BY DEF PutUpTo
<1> HIDE DEF Step, f
<1>4. \A n \in 0 .. Len(spans) : f[n] = IF n = 0 THEN unit ELSE Step(n, f[n - 1])
  BY <1>2
<1> HIDE DEF To
<1>5. f[0] = unit /\ \A n \in 1 .. Len(spans) : f[n] = Step(n, f[n - 1])
  BY <1>4
<1> QED BY <1>3, <1>5 DEF Step

LEMMA CellsAre ==
  ASSUME NEW call, NEW cells, NEW row, NEW ov, NEW ps, NEW lists, Len(cells) \in Nat
  PROVE  /\ CellsUpTo(call, cells, row, ov, ps, lists)[0] = Opened(call, cells, row)
         /\ \A n \in 1 .. Len(cells) :
              CellsUpTo(call, cells, row, ov, ps, lists)[n] =
                MaskUnit(CellsUpTo(call, cells, row, ov, ps, lists)[n - 1], cells[n], row.edits[n], ov, ps, lists)
<1> DEFINE Step(n, x) == MaskUnit(x, cells[n], row.edits[n], ov, ps, lists)
           To(k, g) == g = [n \in 0 .. k |-> IF n = 0 THEN Opened(call, cells, row) ELSE Step(n, g[n - 1])]
           T == {k \in Nat : \E g : To(k, g)}
<1>1. \E g : To(Len(cells), g)
  <2> HIDE DEF Step
  <2>1. 0 \in T
    <3>1. To(0, [n \in 0 .. 0 |-> Opened(call, cells, row)])
      OBVIOUS
    <3> QED BY <3>1
  <2>2. ASSUME NEW k \in Nat, k \in T  PROVE k + 1 \in T
    <3>1. PICK g : To(k, g)
      BY <2>2
    <3> DEFINE h == [n \in 0 .. k + 1 |-> IF n = k + 1 THEN Step(n, g[k]) ELSE g[n]]
    <3>2. \A n \in 0 .. k : g[n] = IF n = 0 THEN Opened(call, cells, row) ELSE Step(n, g[n - 1])
      BY <3>1
    <3>3. \A n \in 0 .. k + 1 : h[n] = IF n = 0 THEN Opened(call, cells, row) ELSE Step(n, h[n - 1])
      BY <3>2
    <3>4. To(k + 1, h)
      BY <3>3
    <3> HIDE DEF h, To
    <3> QED BY <3>4
  <2> HIDE DEF To
  <2>3. Nat \subseteq T
    <3> HIDE DEF T
    <3> QED BY <2>1, <2>2, Upwards
  <2> QED BY <2>3
<1> DEFINE f == CHOOSE g : To(Len(cells), g)
<1>2. To(Len(cells), f)
  BY <1>1
<1>3. CellsUpTo(call, cells, row, ov, ps, lists) = f
  BY DEF CellsUpTo, Opened
<1> HIDE DEF Step, f
<1>4. \A n \in 0 .. Len(cells) : f[n] = IF n = 0 THEN Opened(call, cells, row) ELSE Step(n, f[n - 1])
  BY <1>2
<1> HIDE DEF To
<1>5. f[0] = Opened(call, cells, row) /\ \A n \in 1 .. Len(cells) : f[n] = Step(n, f[n - 1])
  BY <1>4
<1> QED BY <1>3, <1>5 DEF Step

LEMMA RespelledIs ==
  ASSUME NEW call, NEW units, NEW ov, Len(units) \in Nat
  PROVE  /\ RespelledUpTo(call, units, ov)[0] = call
         /\ \A n \in 1 .. Len(units) :
              RespelledUpTo(call, units, ov)[n] =
                Respell(RespelledUpTo(call, units, ov)[n - 1], units[n], n, ov)
<1> DEFINE Step(n, x) == Respell(x, units[n], n, ov)
           To(k, g) == g = [n \in 0 .. k |-> IF n = 0 THEN call ELSE Step(n, g[n - 1])]
           T == {k \in Nat : \E g : To(k, g)}
<1>1. \E g : To(Len(units), g)
  <2> HIDE DEF Step
  <2>1. 0 \in T
    <3>1. To(0, [n \in 0 .. 0 |-> call])
      OBVIOUS
    <3> QED BY <3>1
  <2>2. ASSUME NEW k \in Nat, k \in T  PROVE k + 1 \in T
    <3>1. PICK g : To(k, g)
      BY <2>2
    <3> DEFINE h == [n \in 0 .. k + 1 |-> IF n = k + 1 THEN Step(n, g[k]) ELSE g[n]]
    <3>2. \A n \in 0 .. k : g[n] = IF n = 0 THEN call ELSE Step(n, g[n - 1])
      BY <3>1
    <3>3. \A n \in 0 .. k + 1 : h[n] = IF n = 0 THEN call ELSE Step(n, h[n - 1])
      BY <3>2
    <3>4. To(k + 1, h)
      BY <3>3
    <3> HIDE DEF h, To
    <3> QED BY <3>4
  <2> HIDE DEF To
  <2>3. Nat \subseteq T
    <3> HIDE DEF T
    <3> QED BY <2>1, <2>2, Upwards
  <2> QED BY <2>3
<1> DEFINE f == CHOOSE g : To(Len(units), g)
<1>2. To(Len(units), f)
  BY <1>1
<1>3. RespelledUpTo(call, units, ov) = f
  BY DEF RespelledUpTo
<1> HIDE DEF Step, f
<1>4. \A n \in 0 .. Len(units) : f[n] = IF n = 0 THEN call ELSE Step(n, f[n - 1])
  BY <1>2
<1> HIDE DEF To
<1>5. f[0] = call /\ \A n \in 1 .. Len(units) : f[n] = Step(n, f[n - 1])
  BY <1>4
<1> QED BY <1>3, <1>5 DEF Step

LEMMA BlocksAre ==
  ASSUME NEW d, NEW ps, NEW lists, NEW ov, Len(d) \in Nat
  PROVE  /\ BlocksUpTo(d, ps, lists, ov)[0] = Start
         /\ \A n \in 1 .. Len(d) :
              BlocksUpTo(d, ps, lists, ov)[n] =
                MaskBlock(BlocksUpTo(d, ps, lists, ov)[n - 1], d[n], ov, ps, lists)
<1> DEFINE Step(n, x) == MaskBlock(x, d[n], ov, ps, lists)
           To(k, g) == g = [n \in 0 .. k |-> IF n = 0 THEN Start ELSE Step(n, g[n - 1])]
           T == {k \in Nat : \E g : To(k, g)}
<1>1. \E g : To(Len(d), g)
  <2> HIDE DEF Step
  <2>1. 0 \in T
    <3>1. To(0, [n \in 0 .. 0 |-> Start])
      OBVIOUS
    <3> QED BY <3>1
  <2>2. ASSUME NEW k \in Nat, k \in T  PROVE k + 1 \in T
    <3>1. PICK g : To(k, g)
      BY <2>2
    <3> DEFINE h == [n \in 0 .. k + 1 |-> IF n = k + 1 THEN Step(n, g[k]) ELSE g[n]]
    <3>2. \A n \in 0 .. k : g[n] = IF n = 0 THEN Start ELSE Step(n, g[n - 1])
      BY <3>1
    <3>3. \A n \in 0 .. k + 1 : h[n] = IF n = 0 THEN Start ELSE Step(n, h[n - 1])
      BY <3>2
    <3>4. To(k + 1, h)
      BY <3>3
    <3> HIDE DEF h, To
    <3> QED BY <3>4
  <2> HIDE DEF To
  <2>3. Nat \subseteq T
    <3> HIDE DEF T
    <3> QED BY <2>1, <2>2, Upwards
  <2> QED BY <2>3
<1> DEFINE f == CHOOSE g : To(Len(d), g)
<1>2. To(Len(d), f)
  BY <1>1
<1>3. BlocksUpTo(d, ps, lists, ov) = f
  BY DEF BlocksUpTo
<1> HIDE DEF Step, f
<1>4. \A n \in 0 .. Len(d) : f[n] = IF n = 0 THEN Start ELSE Step(n, f[n - 1])
  BY <1>2
<1> HIDE DEF To
<1>5. f[0] = Start /\ \A n \in 1 .. Len(d) : f[n] = Step(n, f[n - 1])
  BY <1>4
<1> QED BY <1>3, <1>5 DEF Step

-----------------------------------------------------------------------------
(* A list of edits and the text it leads to.                               *)

Listing(t) == t \in Seq(ToSet(t))
LEMMA ListingIs ==
  ASSUME NEW C, NEW t \in Seq(C)
  PROVE  Listing(t) /\ Len(t) \in Nat /\ DOMAIN t = 1 .. Len(t) /\ \A i \in 1 .. Len(t) : t[i] \in C
BY DEF Listing, ToSet
LEMMA ListingHas ==
  ASSUME NEW t, Listing(t)
  PROVE  /\ Len(t) \in Nat /\ DOMAIN t = 1 .. Len(t)
         /\ \A C : (\A i \in 1 .. Len(t) : t[i] \in C) => t \in Seq(C)
BY DEF Listing

(* A replacement in a text of n symbols puts marks, of three parts, in the *)
(* place of some of them.  A good list has its edits in order and apart.   *)
Marks(t) == Listing(t) /\ \A i \in DOMAIN t : Len(t[i]) = 3
EditOK(e, n) == e.start \in 0 .. n /\ e.end \in 0 .. n /\ e.start < e.end /\ Marks(e.text)
Good(es, n) ==
  /\ Listing(es)
  /\ \A i \in DOMAIN es : EditOK(es[i], n)
  /\ \A i, j \in DOMAIN es : i < j => es[i].end <= es[j].start

(* Where the edits end, in the original and in the current text.           *)
LEMMA EndsHold ==
  ASSUME NEW n \in Nat, NEW es, Good(es, n)
  PROVE  /\ Len(es) \in Nat /\ DOMAIN es = 1 .. Len(es)
         /\ MaskedEnd(es, 0) = 0 /\ Behind(es, 0) = 0
         /\ \A i \in 0 .. Len(es) : MaskedEnd(es, i) \in Nat /\ Behind(es, i) \in 0 .. n
         /\ \A i \in 1 .. Len(es) :
              /\ MaskedStart(es, i) \in Nat /\ Len(es[i].text) \in Nat
              /\ MaskedStart(es, i) = MaskedEnd(es, i - 1) + es[i].start - Behind(es, i - 1)
              /\ MaskedEnd(es, i) = MaskedStart(es, i) + Len(es[i].text)
              /\ MaskedEnd(es, i - 1) <= MaskedStart(es, i) /\ MaskedStart(es, i) <= MaskedEnd(es, i)
              /\ Behind(es, i - 1) <= es[i].start /\ Behind(es, i) = es[i].end
<1> DEFINE l == Len(es)
<1>1. l \in Nat /\ DOMAIN es = 1 .. l
  BY ListingHas DEF Good
<1>2. \A i \in 1 .. l : EditOK(es[i], n) /\ Len(es[i].text) \in Nat
  BY <1>1, ListingHas DEF Good, EditOK, Marks
<1>3. \A i \in 0 .. l : Behind(es, i) \in 0 .. n
  BY <1>2 DEF Behind, EditOK
<1>4. \A i \in 1 .. l : Behind(es, i - 1) <= es[i].start /\ Behind(es, i) = es[i].end
  <2> TAKE i \in 1 .. l
  <2>1. es[i].start \in 0 .. n
    BY <1>2 DEF EditOK
  <2>2. i # 1 => i - 1 \in 1 .. l /\ es[i - 1].end <= es[i].start
    BY <1>1 DEF Good
  <2> QED BY <1>1, <2>1, <2>2 DEF Behind
<1> DEFINE f == Ends(es)
<1>5. f[0] = 0 /\ \A i \in 1 .. l : f[i] = f[i - 1] + es[i].start - Behind(es, i - 1) + Len(es[i].text)
  BY <1>1, EndsIs
<1>6. \A i : MaskedEnd(es, i) = f[i]
  BY DEF MaskedEnd
<1> HIDE DEF f, l
<1> DEFINE T == {k \in Nat : k <= l => f[k] \in Nat}
<1>7. 0 \in T
  BY <1>5
<1>8. ASSUME NEW k \in Nat, k \in T  PROVE k + 1 \in T
  <2> SUFFICES ASSUME k + 1 <= l  PROVE f[k + 1] \in Nat
    OBVIOUS
  <2> DEFINE i == k + 1
  <2>1. i \in 1 .. l /\ i - 1 = k /\ f[k] \in Nat
    BY <1>1, <1>8
  <2> HIDE DEF i
  <2>2. es[i].start \in Nat /\ Behind(es, i - 1) \in Nat /\ Behind(es, i - 1) <= es[i].start /\ Len(es[i].text) \in Nat
    BY <1>1, <1>2, <1>3, <1>4, <2>1 DEF EditOK
  <2>3. f[i] = f[k] + es[i].start - Behind(es, i - 1) + Len(es[i].text)
    BY <1>5, <2>1
  <2>4. f[i] \in Nat
    BY <2>1, <2>2, <2>3
  <2> QED BY <2>4 DEF i
<1>9. \A k \in 0 .. l : f[k] \in Nat
  <2>1. Nat \subseteq T
    <3> HIDE DEF T
    <3> QED BY <1>7, <1>8, Upwards
  <2> QED BY <1>1, <2>1
<1>10. \A i \in 1 .. l :
         /\ MaskedStart(es, i) \in Nat
         /\ MaskedStart(es, i) = MaskedEnd(es, i - 1) + es[i].start - Behind(es, i - 1)
         /\ MaskedEnd(es, i) = MaskedStart(es, i) + Len(es[i].text)
         /\ MaskedEnd(es, i - 1) <= MaskedStart(es, i) /\ MaskedStart(es, i) <= MaskedEnd(es, i)
  <2> TAKE i \in 1 .. l
  <2>1. i - 1 \in 0 .. l /\ i \in 0 .. l
    BY <1>1
  <2>2. f[i] \in Nat /\ f[i - 1] \in Nat
    BY <1>9, <2>1
  <2>3. es[i].start \in Nat /\ Behind(es, i - 1) \in Nat /\ Behind(es, i - 1) <= es[i].start /\ Len(es[i].text) \in Nat
    BY <1>2, <1>3, <1>4, <2>1 DEF EditOK
  <2>4. MaskedStart(es, i) = f[i] - Len(es[i].text) /\ MaskedEnd(es, i - 1) = f[i - 1] /\ MaskedEnd(es, i) = f[i]
    BY <1>6 DEF MaskedStart
  <2>5. f[i] = f[i - 1] + es[i].start - Behind(es, i - 1) + Len(es[i].text)
    BY <1>5
  <2> QED BY <2>2, <2>3, <2>4, <2>5
<1>11. Behind(es, 0) = 0
  BY DEF Behind
<1> QED BY <1>1, <1>2, <1>3, <1>4, <1>5, <1>6, <1>9, <1>10, <1>11 DEF l

(* So they are in order there too.                                         *)
LEMMA EndsGrow ==
  ASSUME NEW n \in Nat, NEW es, Good(es, n)
  PROVE  /\ \A i, j \in 0 .. Len(es) : i <= j => MaskedEnd(es, i) <= MaskedEnd(es, j)
         /\ \A i, j \in 0 .. Len(es) : i < j => Behind(es, i) <= es[j].start /\ MaskedEnd(es, i) <= MaskedStart(es, j)
<1> DEFINE l == Len(es)
           T == {k \in Nat : k <= l => \A i \in 0 .. k : MaskedEnd(es, i) <= MaskedEnd(es, k)}
<1>1. /\ l \in Nat /\ DOMAIN es = 1 .. l
      /\ \A i \in 0 .. l : MaskedEnd(es, i) \in Nat /\ Behind(es, i) \in 0 .. n
      /\ \A i \in 1 .. l : /\ MaskedStart(es, i) \in Nat /\ Len(es[i].text) \in Nat
                           /\ MaskedStart(es, i) = MaskedEnd(es, i - 1) + es[i].start - Behind(es, i - 1)
                           /\ MaskedEnd(es, i) = MaskedStart(es, i) + Len(es[i].text)
                           /\ Behind(es, i - 1) <= es[i].start /\ Behind(es, i) = es[i].end
  BY EndsHold
<1>2. \A i \in 1 .. l : es[i].start \in Nat /\ es[i].end \in Nat
  BY <1>1 DEF Good, EditOK
<1> HIDE DEF l
<1>3. \A k \in 1 .. l : MaskedEnd(es, k - 1) <= MaskedStart(es, k) /\ MaskedStart(es, k) <= MaskedEnd(es, k)
  <2> TAKE k \in 1 .. l
  <2> DEFINE j == k - 1
  <2>1. j \in 0 .. l /\ l \in Nat
    BY <1>1
  <2>2. /\ MaskedStart(es, k) \in Nat /\ Len(es[k].text) \in Nat
        /\ MaskedStart(es, k) = MaskedEnd(es, j) + es[k].start - Behind(es, j)
        /\ MaskedEnd(es, k) = MaskedStart(es, k) + Len(es[k].text)
        /\ Behind(es, j) <= es[k].start
    BY <1>1
  <2>3. MaskedEnd(es, j) \in Nat /\ Behind(es, j) \in 0 .. n
    <3> HIDE DEF j
    <3> QED BY <1>1, <2>1
  <2>4. es[k].start \in Nat
    BY <1>2
  <2> HIDE DEF j
  <2>5. MaskedEnd(es, j) <= MaskedStart(es, k) /\ MaskedStart(es, k) <= MaskedEnd(es, k)
    BY <2>2, <2>3, <2>4
  <2> QED BY <2>5 DEF j
<1>4. 0 \in T
  BY <1>1
<1>5. ASSUME NEW k \in Nat, k \in T  PROVE k + 1 \in T
  <2> SUFFICES ASSUME k + 1 <= l, NEW i \in 0 .. k + 1  PROVE MaskedEnd(es, i) <= MaskedEnd(es, k + 1)
    OBVIOUS
  <2> DEFINE m == k + 1
  <2>1. m \in 1 .. l /\ k = m - 1 /\ m - 1 \in 0 .. l /\ m \in 0 .. l
    BY <1>1
  <2>2. i \in 0 .. k => MaskedEnd(es, i) <= MaskedEnd(es, k)
    BY <1>1, <1>5
  <2> HIDE DEF m
  <2>3. MaskedEnd(es, k) <= MaskedEnd(es, m)
    BY <1>1, <1>3, <2>1
  <2>4. i \in 0 .. l /\ (i \in 0 .. k \/ i = m)
    BY <1>1, <2>1
  <2>5. MaskedEnd(es, i) \in Nat /\ MaskedEnd(es, k) \in Nat /\ MaskedEnd(es, m) \in Nat
    BY <1>1, <2>1, <2>4
  <2>6. MaskedEnd(es, i) <= MaskedEnd(es, m)
    BY <2>2, <2>3, <2>4, <2>5
  <2> QED BY <2>6 DEF m
<1>6. Nat \subseteq T
  <2> HIDE DEF T
  <2> QED BY <1>4, <1>5, Upwards
<1>7. \A i, j \in 0 .. l : i <= j => MaskedEnd(es, i) <= MaskedEnd(es, j)
  BY <1>1, <1>6
<1>8. ASSUME NEW i \in 0 .. l, NEW j \in 0 .. l, i < j
      PROVE  Behind(es, i) <= es[j].start /\ MaskedEnd(es, i) <= MaskedStart(es, j)
  <2>1. j \in 1 .. l /\ j - 1 \in 0 .. l /\ i <= j - 1
    BY <1>1, <1>8
  <2>2. MaskedEnd(es, i) <= MaskedEnd(es, j - 1) /\ MaskedEnd(es, j - 1) <= MaskedStart(es, j)
    BY <1>3, <1>7, <2>1
  <2>3. MaskedEnd(es, i) <= MaskedStart(es, j)
    BY <1>1, <2>1, <2>2
  <2>4. i # 0 => Behind(es, i) = es[i].end /\ es[i].end <= es[j].start
    <3> SUFFICES ASSUME i # 0  PROVE Behind(es, i) = es[i].end /\ es[i].end <= es[j].start
      OBVIOUS
    <3>1. i \in DOMAIN es /\ j \in DOMAIN es /\ i \in 1 .. l
      BY <1>1, <2>1
    <3> QED BY <1>1, <1>8, <3>1 DEF Good
  <2>5. i = 0 => Behind(es, i) = 0
    BY DEF Behind
  <2> QED BY <1>2, <2>1, <2>3, <2>4, <2>5
<1> QED BY <1>7, <1>8 DEF l

(* Two lists after one another.                                            *)
LEMMA Concatenated ==
  ASSUME NEW s, Listing(s), NEW t, Listing(t)
  PROVE  /\ Listing(s \o t) /\ Len(s \o t) = Len(s) + Len(t)
         /\ \A i \in 1 .. Len(s) : (s \o t)[i] = s[i]
         /\ \A i \in Len(s) + 1 .. Len(s) + Len(t) : (s \o t)[i] = t[i - Len(s)]
<1> DEFINE C == ToSet(s) \cup ToSet(t)
<1>1. s \in Seq(C) /\ t \in Seq(C)
  BY DEF Listing
<1> HIDE DEF C
<1>2. s \o t \in Seq(C) /\ Len(s \o t) = Len(s) + Len(t)
  BY <1>1
<1>3. Listing(s \o t)
  BY <1>2, ListingIs
<1>4. \A i \in 1 .. Len(s) + Len(t) : (s \o t)[i] = IF i <= Len(s) THEN s[i] ELSE t[i - Len(s)]
  BY <1>1
<1>5. Len(s) \in Nat /\ Len(t) \in Nat
  BY <1>1
<1> QED BY <1>2, <1>3, <1>4, <1>5

(* A list given by what stands at each place.                              *)
LEMMA Listed ==
  ASSUME NEW n \in Nat, NEW f, DOMAIN f = 1 .. n, f = [i \in 1 .. n |-> f[i]]
  PROVE  Listing(f) /\ Len(f) = n
<1> DEFINE X == {f[i] : i \in 1 .. n}
<1>1. f \in [1 .. n -> X]
  OBVIOUS
<1> HIDE DEF X
<1>2. f \in Seq(X) /\ Len(f) = n
  BY <1>1, IsSeq
<1> QED BY <1>2, ListingIs

LEMMA LiteralIs ==
  ASSUME NEW o, NEW a \in Nat, NEW b \in Nat, a <= b
  PROVE  /\ Listing(Literal(o, <<a, b>>)) /\ Len(Literal(o, <<a, b>>)) = b - a
         /\ \A i \in 1 .. b - a : Literal(o, <<a, b>>)[i] = <<o[a + i], a + i - 1>>
<1> DEFINE f == [i \in 1 .. b - a |-> <<o[a + i], a + i - 1>>]
<1>1. Literal(o, <<a, b>>) = f
  BY DEF Literal
<1>2. DOMAIN f = 1 .. b - a /\ \A i \in 1 .. b - a : f[i] = <<o[a + i], a + i - 1>>
  OBVIOUS
<1>3. f = [i \in 1 .. b - a |-> f[i]] /\ b - a \in Nat
  OBVIOUS
<1> HIDE DEF f
<1> QED BY <1>1, <1>2, <1>3, Listed

LEMMA InsertedIs ==
  ASSUME NEW e, Marks(e.text)
  PROVE  /\ Listing(Inserted(e)) /\ Len(Inserted(e)) = Len(e.text)
         /\ \A i \in 1 .. Len(e.text) : Inserted(e)[i] = <<e.text[i], NoOrigin>>
<1> DEFINE n == Len(e.text)
           f == [i \in 1 .. n |-> <<e.text[i], NoOrigin>>]
<1>1. n \in Nat /\ DOMAIN e.text = 1 .. n
  BY ListingHas DEF Marks
<1>2. Inserted(e) = f
  BY <1>1 DEF Inserted
<1>3. DOMAIN f = 1 .. n /\ \A i \in 1 .. n : f[i] = <<e.text[i], NoOrigin>>
  OBVIOUS
<1>4. f = [i \in 1 .. n |-> f[i]]
  OBVIOUS
<1> HIDE DEF f
<1> QED BY <1>1, <1>2, <1>3, <1>4, Listed

(* What stands at place p of the current text, after the j-th edit and     *)
(* before the next one, and in the j-th edit.                              *)
Open(o, es, j, p) ==
  <<o[p - MaskedEnd(es, j) + Behind(es, j)], p - 1 - MaskedEnd(es, j) + Behind(es, j)>>
Closed(es, j, p) == <<es[j].text[p - MaskedStart(es, j)], NoOrigin>>
Laid(o, es, k, seq) ==
  /\ \A j \in 1 .. k : \A p \in MaskedEnd(es, j - 1) + 1 .. MaskedStart(es, j) : seq[p] = Open(o, es, j - 1, p)
  /\ \A j \in 1 .. k : \A p \in MaskedStart(es, j) + 1 .. MaskedEnd(es, j) : seq[p] = Closed(es, j, p)

LEMMA WrittenIs ==
  ASSUME NEW o, Len(o) \in Nat, NEW es, Good(es, Len(o)), NEW i \in 1 .. Len(es)
  PROVE  LET w == Written(o, es, i)
             d == MaskedEnd(es, i - 1)
         IN /\ Listing(w) /\ Len(w) = MaskedEnd(es, i) - d
            /\ \A p \in d + 1 .. MaskedStart(es, i) : w[p - d] = Open(o, es, i - 1, p)
            /\ \A p \in MaskedStart(es, i) + 1 .. MaskedEnd(es, i) : w[p - d] = Closed(es, i, p)
<1> DEFINE w == Written(o, es, i)
           d == MaskedEnd(es, i - 1)
           b == Behind(es, i - 1)
           s == es[i].start
           m == MaskedStart(es, i)
           e == MaskedEnd(es, i)
           l == Len(es[i].text)
           lit == Literal(o, <<b, s>>)
           ins == Inserted(es[i])
<1>1. d \in Nat /\ b \in Nat /\ s \in Nat /\ m \in Nat /\ e \in Nat /\ l \in Nat /\ b <= s /\ m = d + s - b /\ e = m + l
  <2>1. i - 1 \in 0 .. Len(es) /\ i \in 0 .. Len(es) /\ i \in DOMAIN es
    BY EndsHold
  <2>2. s \in Nat
    BY <2>1 DEF Good, EditOK
  <2> QED BY <2>1, <2>2, EndsHold
<1>2. Marks(es[i].text)
  BY EndsHold DEF Good, EditOK
<1>3. Listing(lit) /\ Len(lit) = s - b /\ \A k \in 1 .. s - b : lit[k] = <<o[b + k], b + k - 1>>
  BY <1>1, LiteralIs
<1>4. Listing(ins) /\ Len(ins) = l /\ \A k \in 1 .. l : ins[k] = <<es[i].text[k], NoOrigin>>
  BY <1>2, InsertedIs
<1>5. w = lit \o ins
  BY DEF Written
<1> HIDE DEF w, lit, ins
<1>6. /\ Listing(w) /\ Len(w) = Len(lit) + Len(ins)
      /\ \A k \in 1 .. Len(lit) : w[k] = lit[k]
      /\ \A k \in Len(lit) + 1 .. Len(lit) + Len(ins) : w[k] = ins[k - Len(lit)]
  BY <1>3, <1>4, <1>5, Concatenated
<1> HIDE DEF d, b, s, m, e, l
<1>7. \A p \in d + 1 .. m : w[p - d] = Open(o, es, i - 1, p)
  <2> TAKE p \in d + 1 .. m
  <2>1. Open(o, es, i - 1, p) = <<o[p - d + b], p - 1 - d + b>>
    BY DEF Open, d, b
  <2> DEFINE k == p - d
  <2>2. k \in 1 .. s - b /\ p - d + b = b + k /\ p - 1 - d + b = b + k - 1
    BY <1>1
  <2> HIDE DEF k
  <2>3. w[k] = <<o[b + k], b + k - 1>>
    BY <1>3, <1>6, <2>2
  <2> QED BY <2>1, <2>2, <2>3 DEF k
<1>8. \A p \in m + 1 .. e : w[p - d] = Closed(es, i, p)
  <2> TAKE p \in m + 1 .. e
  <2>1. Closed(es, i, p) = <<es[i].text[p - m], NoOrigin>>
    BY DEF Closed, m
  <2> DEFINE k == p - d
  <2>2. k \in (s - b) + 1 .. (s - b) + l /\ p - m = k - (s - b)
    BY <1>1
  <2>3. k - (s - b) \in 1 .. l
    BY <1>1, <2>2
  <2> HIDE DEF k
  <2>4. w[k] = <<es[i].text[k - (s - b)], NoOrigin>>
    BY <1>3, <1>4, <1>6, <2>2, <2>3
  <2> QED BY <2>1, <2>2, <2>4 DEF k
<1>9. Len(w) = e - d
  <2> DEFINE x == Len(lit)
             y == Len(ins)
             z == Len(w)
  <2>1. x = s - b /\ y = l /\ z = x + y
    BY <1>3, <1>4, <1>6
  <2> HIDE DEF x, y, z
  <2>2. z = e - d
    BY <1>1, <2>1
  <2> QED BY <2>2 DEF z
<1> QED BY <1>6, <1>7, <1>8, <1>9 DEF w, d, m, e

LEMMA PartsHold ==
  ASSUME NEW o, Len(o) \in Nat, NEW es, Good(es, Len(o)), NEW k \in 0 .. Len(es)
  PROVE  LET part == Parts(o, es)[k]
         IN Listing(part) /\ Len(part) = MaskedEnd(es, k) /\ Laid(o, es, k, part)
<1> DEFINE l == Len(es)
           f == Parts(o, es)
           Holds(i) == Listing(f[i]) /\ Len(f[i]) = MaskedEnd(es, i) /\ Laid(o, es, i, f[i])
           T == {i \in Nat : i <= l => Holds(i)}
<1>1. /\ l \in Nat /\ MaskedEnd(es, 0) = 0
      /\ \A i \in 0 .. l : MaskedEnd(es, i) \in Nat
      /\ \A i \in 1 .. l : MaskedStart(es, i) \in Nat
      /\ \A i, j \in 0 .. l : i <= j => MaskedEnd(es, i) <= MaskedEnd(es, j)
      /\ \A i, j \in 0 .. l : i < j => MaskedEnd(es, i) <= MaskedStart(es, j)
  BY EndsHold, EndsGrow
<1>2. f[0] = <<>> /\ \A i \in 1 .. l : f[i] = f[i - 1] \o Written(o, es, i)
  BY <1>1, PartsIs
<1>3. \A i \in 1 .. l : MaskedStart(es, i) <= MaskedEnd(es, i)
  BY EndsHold
<1> HIDE DEF l, f
<1>4. 0 \in T
  <2>1. Listing(<<>>) /\ Len(<<>>) = 0
    BY DEF Listing, ToSet
  <2>2. Laid(o, es, 0, f[0])
    BY DEF Laid
  <2> QED BY <1>1, <1>2, <2>1, <2>2
<1>5. ASSUME NEW i \in 1 .. l, Holds(i - 1)  PROVE Holds(i)
  <2> DEFINE s == f[i - 1]
             w == Written(o, es, i)
             d == MaskedEnd(es, i - 1)
             m == MaskedStart(es, i)
             e == MaskedEnd(es, i)
  <2>1. /\ Listing(w) /\ Len(w) = e - d
        /\ \A p \in d + 1 .. m : w[p - d] = Open(o, es, i - 1, p)
        /\ \A p \in m + 1 .. e : w[p - d] = Closed(es, i, p)
    BY <1>1, WrittenIs DEF l
  <2>2. Listing(s) /\ Len(s) = d /\ Laid(o, es, i - 1, s)
    BY <1>5
  <2>3. f[i] = s \o w
    BY <1>2
  <2>4. d \in Nat /\ m \in Nat /\ e \in Nat /\ d <= m /\ m <= e
    BY <1>1, <1>3
  <2> HIDE DEF s, w
  <2>5. /\ Listing(f[i]) /\ Len(f[i]) = Len(s) + Len(w)
        /\ \A p \in 1 .. Len(s) : f[i][p] = s[p]
        /\ \A p \in Len(s) + 1 .. Len(s) + Len(w) : f[i][p] = w[p - Len(s)]
    <3> DEFINE c == f[i]
    <3>1. c = s \o w
      BY <2>3
    <3> HIDE DEF c
    <3>2. /\ Listing(c) /\ Len(c) = Len(s) + Len(w)
          /\ \A p \in 1 .. Len(s) : c[p] = s[p]
          /\ \A p \in Len(s) + 1 .. Len(s) + Len(w) : c[p] = w[p - Len(s)]
      BY <2>1, <2>2, <3>1, Concatenated
    <3> QED BY <3>2 DEF c
  <2>6. ASSUME NEW j \in 1 .. i, NEW p \in MaskedEnd(es, j - 1) + 1 .. MaskedStart(es, j)
        PROVE  f[i][p] = Open(o, es, j - 1, p)
    <3>1. CASE j = i
      <4>1. p \in Len(s) + 1 .. Len(s) + Len(w) /\ p \in d + 1 .. m
        BY <2>1, <2>2, <2>4, <3>1
      <4> QED BY <2>1, <2>2, <2>5, <3>1, <4>1
    <3>2. CASE j # i
      <4>1. j \in 1 .. i - 1 /\ j \in 0 .. l /\ j - 1 \in 0 .. l /\ i - 1 \in 0 .. l /\ j <= i - 1 /\ j \in 1 .. l
        BY <1>1, <3>2
      <4>2. MaskedEnd(es, j) <= d /\ MaskedStart(es, j) <= MaskedEnd(es, j) /\ MaskedEnd(es, j - 1) \in Nat
        BY <1>1, <1>3, <4>1
      <4>3. MaskedEnd(es, j) \in Nat /\ MaskedStart(es, j) \in Nat
        BY <1>1, <4>1
      <4>4. p \in 1 .. Len(s)
        <5> HIDE DEF d, m, e
        <5> QED BY <2>2, <2>4, <4>2, <4>3
      <4>5. s[p] = Open(o, es, j - 1, p)
        BY <2>2, <4>1 DEF Laid
      <4> QED BY <2>5, <4>4, <4>5
    <3> QED BY <3>1, <3>2
  <2>7. ASSUME NEW j \in 1 .. i, NEW p \in MaskedStart(es, j) + 1 .. MaskedEnd(es, j)
        PROVE  f[i][p] = Closed(es, j, p)
    <3>1. CASE j = i
      <4>1. p \in Len(s) + 1 .. Len(s) + Len(w) /\ p \in m + 1 .. e
        BY <2>1, <2>2, <2>4, <3>1
      <4> QED BY <2>1, <2>2, <2>5, <3>1, <4>1
    <3>2. CASE j # i
      <4>1. j \in 1 .. i - 1 /\ j \in 0 .. l /\ i - 1 \in 0 .. l /\ j <= i - 1 /\ j \in 1 .. l
        BY <1>1, <3>2
      <4>2. MaskedEnd(es, j) <= d /\ MaskedEnd(es, j) \in Nat /\ MaskedStart(es, j) \in Nat
        BY <1>1, <4>1
      <4>3. p \in 1 .. Len(s)
        <5> HIDE DEF d, m, e
        <5> QED BY <2>2, <2>4, <4>2
      <4>4. s[p] = Closed(es, j, p)
        BY <2>2, <4>1 DEF Laid
      <4> QED BY <2>5, <4>3, <4>4
    <3> QED BY <3>1, <3>2
  <2>8. Laid(o, es, i, f[i])
    BY <2>6, <2>7 DEF Laid
  <2>9. Len(f[i]) = e
    <3> HIDE DEF d, m, e
    <3> QED BY <2>1, <2>2, <2>4, <2>5
  <2> QED BY <2>5, <2>8, <2>9
<1> HIDE DEF Holds
<1>6. ASSUME NEW i \in Nat, i \in T  PROVE i + 1 \in T
  <2> SUFFICES ASSUME i + 1 <= l  PROVE Holds(i + 1)
    OBVIOUS
  <2> DEFINE j == i + 1
  <2>1. j \in 1 .. l /\ j - 1 = i /\ Holds(i)
    BY <1>1, <1>6
  <2> HIDE DEF j
  <2>2. Holds(j)
    BY <1>5, <2>1
  <2> QED BY <2>2 DEF j
<1>7. Nat \subseteq T
  <2> HIDE DEF T
  <2> QED BY <1>4, <1>6, Upwards
<1>8. Holds(k)
  BY <1>1, <1>7 DEF l
<1> QED BY <1>8 DEF Holds, f

(* The whole of it: what is behind the last edit follows.                  *)
LEMMA RenderedIs ==
  ASSUME NEW o, Len(o) \in Nat, NEW es, Good(es, Len(o))
  PROVE  LET now == Rendered(o, es)
             l == Len(es)
         IN /\ Listing(now) /\ Len(now) = MaskedEnd(es, l) + Len(o) - Behind(es, l)
            /\ Laid(o, es, l, now)
            /\ \A p \in MaskedEnd(es, l) + 1 .. Len(now) : now[p] = Open(o, es, l, p)
<1> DEFINE l == Len(es)
           now == Rendered(o, es)
           s == Parts(o, es)[l]
           d == MaskedEnd(es, l)
           b == Behind(es, l)
           w == Literal(o, <<b, Len(o)>>)
<1>1. /\ l \in Nat /\ l \in 0 .. l
      /\ \A i \in 0 .. l : MaskedEnd(es, i) \in Nat /\ Behind(es, i) \in 0 .. Len(o)
      /\ \A i \in 1 .. l : MaskedStart(es, i) \in Nat /\ MaskedStart(es, i) <= MaskedEnd(es, i)
      /\ \A i, j \in 0 .. l : i <= j => MaskedEnd(es, i) <= MaskedEnd(es, j)
  BY EndsHold, EndsGrow
<1>2. Listing(s) /\ Len(s) = d /\ Laid(o, es, l, s)
  BY <1>1, PartsHold
<1>3. d \in Nat /\ b \in Nat /\ b <= Len(o)
  BY <1>1
<1>4. Listing(w) /\ Len(w) = Len(o) - b /\ \A i \in 1 .. Len(o) - b : w[i] = <<o[b + i], b + i - 1>>
  BY <1>3, LiteralIs
<1>5. now = s \o w
  BY DEF Rendered
<1> HIDE DEF s, w, now
<1>6. /\ Listing(now) /\ Len(now) = Len(s) + Len(w)
      /\ \A p \in 1 .. Len(s) : now[p] = s[p]
      /\ \A p \in Len(s) + 1 .. Len(s) + Len(w) : now[p] = w[p - Len(s)]
  BY <1>2, <1>4, <1>5, Concatenated
<1>7. ASSUME NEW p \in d + 1 .. Len(now)  PROVE now[p] = Open(o, es, l, p)
  <2> DEFINE k == p - d
  <2>1. Open(o, es, l, p) = <<o[p - d + b], p - 1 - d + b>>
    BY DEF Open
  <2> HIDE DEF d, b
  <2>2. k \in 1 .. Len(o) - b /\ p - d + b = b + k /\ p - 1 - d + b = b + k - 1 /\ p \in Len(s) + 1 .. Len(s) + Len(w)
    BY <1>2, <1>3, <1>4, <1>6
  <2> HIDE DEF k
  <2>3. now[p] = <<o[b + k], b + k - 1>>
    BY <1>2, <1>4, <1>6, <2>2 DEF k
  <2> QED BY <2>1, <2>2, <2>3
<1>8. Laid(o, es, l, now)
  <2>1. ASSUME NEW j \in 1 .. l, NEW p \in Int, 1 <= p, p <= MaskedEnd(es, j)  PROVE now[p] = s[p]
    <3>1. MaskedEnd(es, j) <= d /\ MaskedEnd(es, j) \in Nat
      BY <1>1
    <3>2. p \in 1 .. Len(s)
      <4> HIDE DEF d
      <4> QED BY <1>2, <1>3, <2>1, <3>1
    <3> QED BY <1>6, <3>2
  <2>2. \A j \in 1 .. l : \A p \in MaskedEnd(es, j - 1) + 1 .. MaskedStart(es, j) : now[p] = Open(o, es, j - 1, p)
    <3> TAKE j \in 1 .. l
    <3> TAKE p \in MaskedEnd(es, j - 1) + 1 .. MaskedStart(es, j)
    <3>1. j - 1 \in 0 .. l /\ j \in 0 .. l
      BY <1>1
    <3>2. p \in Int /\ 1 <= p /\ p <= MaskedEnd(es, j)
      BY <1>1, <3>1
    <3>3. s[p] = Open(o, es, j - 1, p)
      BY <1>2 DEF Laid
    <3> QED BY <2>1, <3>2, <3>3
  <2>3. \A j \in 1 .. l : \A p \in MaskedStart(es, j) + 1 .. MaskedEnd(es, j) : now[p] = Closed(es, j, p)
    <3> TAKE j \in 1 .. l
    <3> TAKE p \in MaskedStart(es, j) + 1 .. MaskedEnd(es, j)
    <3>1. j \in 0 .. l
      BY <1>1
    <3>2. p \in Int /\ 1 <= p /\ p <= MaskedEnd(es, j)
      BY <1>1, <3>1
    <3>3. s[p] = Closed(es, j, p)
      BY <1>2 DEF Laid
    <3> QED BY <2>1, <3>2, <3>3
  <2> QED BY <2>2, <2>3 DEF Laid
<1> HIDE DEF d, b
<1>9. Len(now) = d + Len(o) - b
  BY <1>2, <1>3, <1>4, <1>6
<1> QED BY <1>6, <1>7, <1>8, <1>9 DEF now, d, b

-----------------------------------------------------------------------------
(* Where a place of the current text lies: after the edits up to the j-th, *)
(* before the next one or in it.                                           *)
LEMMA LastOf ==
  ASSUME NEW j \in Nat, j # 0
  PROVE  Max(1 .. j) = j /\ 1 .. j # {}
<1>1. IsFiniteSet(1 .. j) /\ 1 .. j \subseteq Int /\ 1 .. j # {} /\ j \in 1 .. j
  <2>1. 1 \in Int /\ j \in Int
    OBVIOUS
  <2>2. IsFiniteSet(1 .. j)
    BY <2>1, FS_Interval
  <2> QED BY <2>2
<1>2. Max(1 .. j) \in 1 .. j /\ \A x \in 1 .. j : x <= Max(1 .. j)
  BY <1>1, MinMax
<1>3. j <= Max(1 .. j)
  BY <1>1, <1>2
<1> QED BY <1>1, <1>2, <1>3

Past(es, p, j) == j \in 0 .. Len(es) /\ \A i \in 1 .. Len(es) : MaskedEnd(es, i) < p <=> i <= j
LEMMA WhichEdit ==
  ASSUME NEW n \in Nat, NEW es, Good(es, n), NEW p \in Nat, p # 0
  PROVE  \E j \in 0 .. Len(es) : Past(es, p, j) /\ MaskedEnd(es, j) < p /\ (j < Len(es) => p <= MaskedEnd(es, j + 1))
<1> DEFINE l == Len(es)
           S == {i \in 0 .. l : MaskedEnd(es, i) < p}
           j == Max(S)
<1>1. /\ l \in Nat /\ MaskedEnd(es, 0) = 0
      /\ \A i \in 0 .. l : MaskedEnd(es, i) \in Nat
      /\ \A i, k \in 0 .. l : i <= k => MaskedEnd(es, i) <= MaskedEnd(es, k)
  BY EndsHold, EndsGrow
<1>2. IsFiniteSet(S) /\ S \subseteq Int /\ 0 \in S
  <2>1. IsFiniteSet(0 .. l)
    BY <1>1, FS_Interval
  <2> QED BY <1>1, <2>1, FS_Subset
<1>3. j \in S /\ \A x \in S : x <= j
  <2> HIDE DEF S
  <2> QED BY <1>2, MinMax
<1> HIDE DEF j, l
<1>4. ASSUME NEW i \in 1 .. l  PROVE MaskedEnd(es, i) < p <=> i <= j
  <2>1. i \in 0 .. l /\ j \in 0 .. l /\ MaskedEnd(es, j) < p
    BY <1>1, <1>3
  <2>2. MaskedEnd(es, i) < p => i <= j
    BY <1>3, <2>1
  <2>3. i <= j => MaskedEnd(es, i) <= MaskedEnd(es, j)
    BY <1>1, <2>1
  <2>4. MaskedEnd(es, i) \in Nat /\ MaskedEnd(es, j) \in Nat
    BY <1>1, <2>1
  <2> QED BY <2>1, <2>2, <2>3, <2>4
<1>5. Past(es, p, j)
  BY <1>3, <1>4 DEF Past, l
<1>6. j < l => p <= MaskedEnd(es, j + 1)
  <2> SUFFICES ASSUME j < l  PROVE p <= MaskedEnd(es, j + 1)
    OBVIOUS
  <2> DEFINE k == j + 1
  <2>1. k \in 1 .. l /\ k \in 0 .. l /\ ~(k <= j)
    BY <1>1, <1>3
  <2> HIDE DEF k
  <2>2. ~(MaskedEnd(es, k) < p) /\ MaskedEnd(es, k) \in Nat
    BY <1>1, <1>4, <2>1
  <2> QED BY <2>2 DEF k
<1> QED BY <1>3, <1>5, <1>6 DEF l

Lies(o, es, now, p, j) ==
  \/ now[p] = Open(o, es, j, p) /\ (j < Len(es) => p <= MaskedStart(es, j + 1))
  \/ /\ j < Len(es) /\ now[p] = Closed(es, j + 1, p)
     /\ MaskedStart(es, j + 1) < p /\ p <= MaskedEnd(es, j + 1)
LEMMA PlaceIs ==
  ASSUME NEW o, Len(o) \in Nat, NEW es, Good(es, Len(o)), NEW p \in 1 .. Len(Rendered(o, es))
  PROVE  \E j \in 0 .. Len(es) : /\ Past(es, p, j) /\ MaskedEnd(es, j) < p
                                 /\ Lies(o, es, Rendered(o, es), p, j)
<1> DEFINE l == Len(es)
           now == Rendered(o, es)
<1>1. PICK j \in 0 .. l : Past(es, p, j) /\ MaskedEnd(es, j) < p /\ (j < l => p <= MaskedEnd(es, j + 1))
  <2>1. p \in Nat /\ p # 0
    BY RenderedIs DEF Listing
  <2> QED BY <2>1, WhichEdit
<1>2. /\ Laid(o, es, l, now) /\ Len(now) \in Nat
      /\ \A q \in MaskedEnd(es, l) + 1 .. Len(now) : now[q] = Open(o, es, l, q)
  BY RenderedIs, ListingHas
<1>3. l \in Nat /\ MaskedEnd(es, j) \in Nat
  BY <1>1, EndsHold
<1>4. CASE j = l
  <2>1. now[p] = Open(o, es, l, p)
    <3>1. p \in MaskedEnd(es, l) + 1 .. Len(now)
      BY <1>1, <1>2, <1>3, <1>4
    <3> QED BY <1>2, <3>1
  <2>2. ~(j < l)
    BY <1>3, <1>4
  <2> QED BY <1>1, <1>4, <2>1, <2>2 DEF Lies
<1>5. CASE j # l
  <2> DEFINE k == j + 1
  <2>1. k \in 1 .. l /\ j = k - 1 /\ j < l
    BY <1>1, <1>3, <1>5
  <2>2. MaskedStart(es, k) \in Nat /\ MaskedEnd(es, k) \in Nat /\ p <= MaskedEnd(es, k)
    <3>1. k \in 0 .. l
      BY <1>3, <2>1
    <3> QED BY <1>1, <2>1, <3>1, EndsHold
  <2>3. p \in Nat
    BY <1>2
  <2>4. CASE p <= MaskedStart(es, k)
    <3>1. p \in MaskedEnd(es, k - 1) + 1 .. MaskedStart(es, k)
      BY <1>1, <1>3, <2>1, <2>2, <2>3, <2>4
    <3>2. now[p] = Open(o, es, k - 1, p)
      BY <1>2, <2>1, <3>1 DEF Laid
    <3>3. Lies(o, es, now, p, j)
      BY <2>1, <2>4, <3>2 DEF Lies
    <3> QED BY <1>1, <3>3
  <2>5. CASE ~(p <= MaskedStart(es, k))
    <3>1. p \in MaskedStart(es, k) + 1 .. MaskedEnd(es, k)
      BY <2>2, <2>3, <2>5
    <3>2. now[p] = Closed(es, k, p)
      BY <1>2, <2>1, <3>1 DEF Laid
    <3>3. Lies(o, es, now, p, j)
      <4>1. MaskedStart(es, k) < p
        BY <2>2, <2>3, <2>5
      <4> QED BY <2>1, <2>2, <3>2, <4>1 DEF Lies
    <3> QED BY <1>1, <3>3
  <2> QED BY <2>4, <2>5
<1> QED BY <1>4, <1>5

-----------------------------------------------------------------------------
(* The two offset maps undo each other on what is not replaced.            *)
LEMMA ToOriginalIs ==
  ASSUME NEW n \in Nat, NEW es, Good(es, n), NEW p \in Nat, p # 0, NEW j, Past(es, p, j)
  PROVE  ToOriginal(es, p - 1) = p - 1 - MaskedEnd(es, j) + Behind(es, j)
<1> DEFINE S == {i \in DOMAIN es : MaskedEnd(es, i) <= p - 1}
<1>1. Len(es) \in Nat /\ DOMAIN es = 1 .. Len(es) /\ j \in 0 .. Len(es)
  BY EndsHold DEF Past
<1>2. \A i \in 1 .. Len(es) : MaskedEnd(es, i) \in Nat
  <2> TAKE i \in 1 .. Len(es)
  <2>1. i \in 0 .. Len(es)
    BY <1>1
  <2> QED BY <2>1, EndsHold
<1>3. S = 1 .. j
  <2>1. \A i \in 1 .. Len(es) : MaskedEnd(es, i) <= p - 1 <=> MaskedEnd(es, i) < p
    BY <1>2
  <2>2. \A i \in 1 .. Len(es) : MaskedEnd(es, i) < p <=> i <= j
    BY DEF Past
  <2> QED BY <1>1, <2>1, <2>2
<1>4. ToOriginal(es, p - 1) = IF S = {} THEN p - 1 ELSE p - 1 + (es[Max(S)].end - MaskedEnd(es, Max(S)))
  BY DEF ToOriginal, Shifted
<1>5. MaskedEnd(es, 0) = 0 /\ Behind(es, 0) = 0 /\ MaskedEnd(es, j) \in Nat /\ Behind(es, j) \in Nat
  BY <1>1, EndsHold
<1> HIDE DEF S
<1>6. CASE j = 0
  BY <1>3, <1>4, <1>5, <1>6
<1>7. CASE j # 0
  <2>1. Max(S) = j /\ S # {}
    BY <1>1, <1>3, <1>7, LastOf
  <2>2. es[j].end = Behind(es, j)
    BY <1>7 DEF Behind
  <2> QED BY <1>4, <1>5, <2>1, <2>2
<1> QED BY <1>6, <1>7

LEMMA ToMaskedIs ==
  ASSUME NEW n \in Nat, NEW es, Good(es, n), NEW x \in Nat, NEW j \in 0 .. Len(es),
         Behind(es, j) <= x, j < Len(es) => x < es[j + 1].start
  PROVE  ToMasked(es, x) = x + MaskedEnd(es, j) - Behind(es, j)
<1> DEFINE S == {i \in DOMAIN es : es[i].end <= x}
<1>1. Len(es) \in Nat /\ DOMAIN es = 1 .. Len(es)
  BY EndsHold
<1>2. \A i \in 1 .. Len(es) : es[i].end \in Nat /\ es[i].start \in Nat /\ es[i].start < es[i].end
  BY <1>1 DEF Good, EditOK
<1>3. MaskedEnd(es, 0) = 0 /\ Behind(es, 0) = 0 /\ MaskedEnd(es, j) \in Nat /\ Behind(es, j) \in Nat
  BY <1>1, EndsHold
<1>4. ASSUME NEW i \in 1 .. Len(es)  PROVE es[i].end <= x <=> i <= j
  <2>1. CASE i <= j
    <3>1. j \in 1 .. Len(es) /\ j # 0
      BY <1>1, <2>1
    <3>2. es[i].end <= es[j].end
      <4>1. CASE i = j
        BY <1>2, <4>1
      <4>2. CASE i # j
        <5>1. es[i].end <= es[j].start
          BY <1>1, <2>1, <3>1, <4>2 DEF Good
        <5> QED BY <1>2, <3>1, <5>1
      <4> QED BY <4>1, <4>2
    <3>3. es[j].end = Behind(es, j)
      BY <3>1 DEF Behind
    <3> QED BY <1>2, <1>3, <2>1, <3>1, <3>2, <3>3
  <2>2. CASE ~(i <= j)
    <3> DEFINE k == j + 1
    <3>1. k \in 1 .. Len(es) /\ j < Len(es) /\ k <= i
      BY <1>1, <2>2
    <3>2. x < es[k].start
      BY <3>1
    <3> HIDE DEF k
    <3>3. es[k].start <= es[i].start
      <4>1. CASE i = k
        BY <1>2, <4>1
      <4>2. CASE i # k
        <5>1. es[k].end <= es[i].start
          BY <1>1, <3>1, <4>2 DEF Good
        <5> QED BY <1>2, <3>1, <5>1
      <4> QED BY <4>1, <4>2
    <3>4. x < es[i].end
      BY <1>2, <3>1, <3>2, <3>3
    <3> QED BY <1>2, <2>2, <3>4
  <2> QED BY <2>1, <2>2
<1>5. S = 1 .. j
  BY <1>1, <1>4
<1>6. ToMasked(es, x) = IF S = {} THEN x ELSE x + (MaskedEnd(es, Max(S)) - es[Max(S)].end)
  BY DEF ToMasked, Shifted
<1> HIDE DEF S
<1>7. CASE j = 0
  BY <1>3, <1>5, <1>6, <1>7
<1>8. CASE j # 0
  <2>1. Max(S) = j /\ S # {}
    BY <1>5, <1>8, LastOf
  <2>2. es[j].end = Behind(es, j)
    BY <1>8 DEF Behind
  <2> QED BY <1>3, <1>6, <2>1, <2>2
<1> QED BY <1>7, <1>8

-----------------------------------------------------------------------------
(* The current text and the origins of its symbols.                        *)
LEMMA TextIs ==
  ASSUME NEW o, Len(o) \in Nat, NEW es, Good(es, Len(o))
  PROVE  LET n == Len(Rendered(o, es))
         IN /\ n \in Nat /\ Listing(Text(o, es)) /\ Len(Text(o, es)) = n /\ DOMAIN Text(o, es) = 1 .. n
            /\ DOMAIN Origins(o, es) = 1 .. n
            /\ \A p \in 1 .. n : /\ Text(o, es)[p] = Rendered(o, es)[p][1]
                                 /\ Origins(o, es)[p] = Rendered(o, es)[p][2]
<1> DEFINE now == Rendered(o, es)
           n == Len(now)
           f == [i \in 1 .. n |-> now[i][1]]
<1>1. n \in Nat /\ DOMAIN now = 1 .. n
  BY RenderedIs, ListingHas
<1>2. Text(o, es) = f /\ Origins(o, es) = [i \in 1 .. n |-> now[i][2]]
  <2> HIDE DEF n
  <2> QED BY <1>1 DEF Text, Origins
<1>3. DOMAIN f = 1 .. n /\ f = [i \in 1 .. n |-> f[i]] /\ \A p \in 1 .. n : f[p] = now[p][1]
  OBVIOUS
<1> HIDE DEF f
<1>4. Listing(f) /\ Len(f) = n
  BY <1>1, <1>3, Listed
<1> QED BY <1>1, <1>2, <1>3, <1>4

(* Each place of the current text is literal, and both maps know where it  *)
(* comes from, or it is a part of a placeholder.                           *)
Original(o, es, p) ==
  LET x == ToOriginal(es, p - 1)
  IN /\ x \in Nat /\ x < Len(o) /\ Text(o, es)[p] = o[x + 1] /\ Origins(o, es)[p] = x
     /\ ToMasked(es, x) = p - 1
Marked(o, es, p) ==
  /\ Origins(o, es)[p] = NoOrigin /\ Len(Text(o, es)[p]) = 3
  /\ \E i \in 1 .. Len(es) : MaskedStart(es, i) < p /\ p <= MaskedEnd(es, i)

LEMMA OpenIs ==
  ASSUME NEW o, Len(o) \in Nat, NEW es, Good(es, Len(o)), NEW p \in 1 .. Len(Text(o, es)),
         NEW j \in 0 .. Len(es), Past(es, p, j), MaskedEnd(es, j) < p,
         Rendered(o, es)[p] = Open(o, es, j, p), j < Len(es) => p <= MaskedStart(es, j + 1)
  PROVE  /\ Original(o, es, p) /\ ToOriginal(es, p - 1) = p - 1 - MaskedEnd(es, j) + Behind(es, j)
         /\ Behind(es, j) <= ToOriginal(es, p - 1)
         /\ j < Len(es) => ToOriginal(es, p - 1) < es[j + 1].start
<1> DEFINE l == Len(es)
           d == MaskedEnd(es, j)
           b == Behind(es, j)
           x == p - 1 - d + b
           n == Len(o)
<1>1. /\ Len(Text(o, es)) = Len(Rendered(o, es)) /\ Len(Text(o, es)) \in Nat
      /\ Text(o, es)[p] = Rendered(o, es)[p][1] /\ Origins(o, es)[p] = Rendered(o, es)[p][2]
  BY TextIs
<1>2. Len(Rendered(o, es)) = MaskedEnd(es, l) + n - Behind(es, l)
  BY RenderedIs
<1>3. l \in Nat /\ d \in Nat /\ b \in Nat /\ p \in Nat /\ p # 0
  BY <1>1, EndsHold
<1>4. j < l => /\ es[j + 1].start \in Nat /\ es[j + 1].start < n
               /\ MaskedStart(es, j + 1) = d + es[j + 1].start - b
  <2> SUFFICES ASSUME j < l  PROVE /\ es[j + 1].start \in Nat /\ es[j + 1].start < n
                                   /\ MaskedStart(es, j + 1) = d + es[j + 1].start - b
    OBVIOUS
  <2> DEFINE k == j + 1
  <2>1. k \in 1 .. l /\ j = k - 1
    BY <1>3
  <2>2. EditOK(es[k], n)
    BY <2>1, EndsHold DEF Good
  <2>3. MaskedStart(es, k) = MaskedEnd(es, k - 1) + es[k].start - Behind(es, k - 1)
    BY <2>1, EndsHold
  <2>4. es[k].start \in Nat /\ es[k].start < n
    BY <2>2 DEF EditOK
  <2> QED BY <2>1, <2>3, <2>4
<1>5. p <= Len(Rendered(o, es))
  BY <1>1, <1>3
<1> HIDE DEF d, b, n, l
<1>6. x \in Nat /\ b <= x /\ (j < l => x < es[j + 1].start) /\ x < n
  <2>1. x \in Nat /\ b <= x
    BY <1>3 DEF d
  <2>2. CASE j < l
    <3>1. MaskedStart(es, j + 1) = d + es[j + 1].start - b /\ p <= MaskedStart(es, j + 1)
      BY <1>4, <2>2 DEF l
    <3>2. es[j + 1].start \in Nat /\ es[j + 1].start < n
      BY <1>4, <2>2
    <3>3. x < es[j + 1].start /\ x < n
      BY <1>3, <2>1, <3>1, <3>2 DEF n
    <3> QED BY <2>1, <3>3
  <2>3. CASE ~(j < l)
    <3>1. j = l
      BY <1>3, <2>3 DEF l
    <3>2. Len(Rendered(o, es)) = d + n - b
      BY <1>2, <3>1 DEF d, b
    <3>3. x < n
      BY <1>3, <1>5, <3>2 DEF n
    <3> QED BY <2>1, <2>3, <3>3
  <2> QED BY <2>2, <2>3
<1>7. ToOriginal(es, p - 1) = x
  BY <1>3, ToOriginalIs DEF d, b
<1>8. ToMasked(es, x) = p - 1
  <2>1. ToMasked(es, x) = x + d - b
    <3> HIDE DEF x
    <3> QED BY <1>6, ToMaskedIs DEF d, b, l
  <2> QED BY <1>3, <2>1
<1>9. Text(o, es)[p] = o[x + 1] /\ Origins(o, es)[p] = x
  <2>1. Open(o, es, j, p) = <<o[p - d + b], x>>
    BY DEF Open, d, b
  <2>2. p - d + b = x + 1
    BY <1>3
  <2> QED BY <1>1, <2>1, <2>2
<1> HIDE DEF x
<1>10. Original(o, es, p)
  BY <1>6, <1>7, <1>8, <1>9 DEF Original, n
<1> QED BY <1>6, <1>7, <1>10 DEF x, d, b, l

LEMMA ClosedIs ==
  ASSUME NEW o, Len(o) \in Nat, NEW es, Good(es, Len(o)), NEW i \in 1 .. Len(es), NEW p \in Nat,
         MaskedStart(es, i) < p, p <= MaskedEnd(es, i)
  PROVE  /\ p \in 1 .. Len(Text(o, es)) /\ Text(o, es)[p] = es[i].text[p - MaskedStart(es, i)]
         /\ Marked(o, es, p)
<1> DEFINE l == Len(es)
           now == Rendered(o, es)
<1>1. l \in Nat /\ MaskedStart(es, i) \in Nat /\ MaskedEnd(es, i) \in Nat /\ MaskedEnd(es, i) <= MaskedEnd(es, l)
  <2>1. l \in Nat /\ i \in 0 .. l /\ l \in 0 .. l /\ i <= l
    BY EndsHold
  <2> QED BY <2>1, EndsHold, EndsGrow
<1>2. /\ Laid(o, es, l, now) /\ Len(now) = MaskedEnd(es, l) + Len(o) - Behind(es, l)
      /\ MaskedEnd(es, l) \in Nat /\ Behind(es, l) \in 0 .. Len(o)
  <2>1. l \in 0 .. l
    BY <1>1
  <2> QED BY <2>1, RenderedIs, EndsHold
<1>3. p \in 1 .. Len(now)
  <2> HIDE DEF l, now
  <2> QED BY <1>1, <1>2
<1>4. now[p] = Closed(es, i, p)
  <2>1. p \in MaskedStart(es, i) + 1 .. MaskedEnd(es, i)
    BY <1>1
  <2> QED BY <1>2, <2>1 DEF Laid
<1>5. Len(Text(o, es)) = Len(now) /\ Text(o, es)[p] = now[p][1] /\ Origins(o, es)[p] = now[p][2]
  BY <1>3, TextIs
<1>6. p - MaskedStart(es, i) \in DOMAIN es[i].text
  <2>1. MaskedEnd(es, i) = MaskedStart(es, i) + Len(es[i].text) /\ Len(es[i].text) \in Nat
    BY EndsHold
  <2>2. DOMAIN es[i].text = 1 .. Len(es[i].text)
    BY EndsHold, ListingHas DEF Good, EditOK, Marks
  <2> QED BY <1>1, <2>1, <2>2
<1>7. Len(es[i].text[p - MaskedStart(es, i)]) = 3
  BY <1>6, EndsHold DEF Good, EditOK, Marks
<1> QED BY <1>3, <1>4, <1>5, <1>7 DEF Closed, Marked

LEMMA TextAt ==
  ASSUME NEW o, Len(o) \in Nat, NEW es, Good(es, Len(o)), NEW p \in 1 .. Len(Text(o, es))
  PROVE  Original(o, es, p) \/ Marked(o, es, p)
<1>1. p \in 1 .. Len(Rendered(o, es)) /\ p \in Nat
  BY TextIs
<1>2. PICK j \in 0 .. Len(es) : /\ Past(es, p, j) /\ MaskedEnd(es, j) < p
                                /\ Lies(o, es, Rendered(o, es), p, j)
  BY <1>1, PlaceIs
<1>3. CASE Rendered(o, es)[p] = Open(o, es, j, p) /\ (j < Len(es) => p <= MaskedStart(es, j + 1))
  BY <1>2, <1>3, OpenIs
<1>4. CASE j < Len(es) /\ MaskedStart(es, j + 1) < p /\ p <= MaskedEnd(es, j + 1)
  <2>1. j + 1 \in 1 .. Len(es)
    BY <1>4, EndsHold
  <2> QED BY <1>1, <1>4, <2>1, ClosedIs
<1> QED BY <1>2, <1>3, <1>4 DEF Lies

-----------------------------------------------------------------------------
(* A piece of a list.                                                      *)
LEMMA PieceIs ==
  ASSUME NEW t, Listing(t), NEW a \in Nat, NEW b \in Nat, a < b => b <= Len(t)
  PROVE  /\ Listing(Piece(t, <<a, b>>)) /\ Len(Piece(t, <<a, b>>)) = IF a < b THEN b - a ELSE 0
         /\ \A i \in 1 .. Len(Piece(t, <<a, b>>)) : Piece(t, <<a, b>>)[i] = t[a + i]
<1> DEFINE s == SubSeq(t, a + 1, b)
<1>1. Piece(t, <<a, b>>) = s
  BY DEF Piece
<1>2. Len(t) \in Nat /\ DOMAIN t = 1 .. Len(t)
  BY ListingHas
<1>3. \A i \in a + 1 .. b : t[i] \in ToSet(t)
  <2> TAKE i \in a + 1 .. b
  <2>1. i \in DOMAIN t
    BY <1>2
  <2> QED BY <2>1 DEF ToSet
<1>4. /\ s \in Seq(ToSet(t)) /\ Len(s) = (IF a + 1 <= b THEN b - (a + 1) + 1 ELSE 0)
      /\ \A i \in 1 .. b - (a + 1) + 1 : s[i] = t[a + 1 + i - 1]
  <2>1. a + 1 \in Int /\ b \in Int
    OBVIOUS
  <2> QED BY <1>3, <2>1, SubSeqProperties
<1> HIDE DEF s
<1>5. Listing(s)
  BY <1>4, ListingIs
<1>6. ASSUME NEW i \in 1 .. Len(s)  PROVE s[i] = t[a + i]
  <2>1. a + 1 <= b /\ i \in 1 .. b - (a + 1) + 1 /\ a + 1 + i - 1 = a + i
    BY <1>4
  <2> QED BY <1>4, <2>1
<1>7. Len(s) = IF a < b THEN b - a ELSE 0
  BY <1>4
<1> QED BY <1>1, <1>5, <1>6, <1>7

LEMMA Same ==
  ASSUME NEW s, Listing(s), NEW t, Listing(t), Len(s) = Len(t), \A i \in 1 .. Len(s) : s[i] = t[i]
  PROVE  s = t
<1> DEFINE C == ToSet(s) \cup ToSet(t)
<1>1. s \in Seq(C) /\ t \in Seq(C)
  BY DEF Listing
<1> HIDE DEF C
<1> QED BY <1>1, SeqEqual

(* Where the i-th edit says it is, its text stands.                        *)
LEMMA EditStands ==
  ASSUME NEW o, Len(o) \in Nat, NEW es, Good(es, Len(o)), NEW i \in 1 .. Len(es)
  PROVE  Piece(Text(o, es), <<MaskedStart(es, i), MaskedEnd(es, i)>>) = es[i].text
<1> DEFINE a == MaskedStart(es, i)
           b == MaskedEnd(es, i)
           t == Text(o, es)
           s == Piece(t, <<a, b>>)
<1>1. /\ a \in Nat /\ b \in Nat /\ a <= b /\ b = a + Len(es[i].text) /\ Len(es[i].text) \in Nat
      /\ Listing(es[i].text)
  <2>1. i \in 0 .. Len(es) /\ i \in DOMAIN es
    BY EndsHold
  <2> QED BY <2>1, EndsHold DEF Good, EditOK, Marks
<1>2. \A p \in Nat : a < p /\ p <= b => p \in 1 .. Len(t) /\ t[p] = es[i].text[p - a]
  BY ClosedIs
<1>3. Listing(t)
  BY TextIs
<1> HIDE DEF a, b, t
<1>4. a < b => b <= Len(t)
  BY <1>1, <1>2
<1>5. /\ Listing(s) /\ Len(s) = (IF a < b THEN b - a ELSE 0)
      /\ \A k \in 1 .. Len(s) : s[k] = t[a + k]
  BY <1>1, <1>3, <1>4, PieceIs
<1> HIDE DEF s
<1>6. Len(s) = Len(es[i].text)
  BY <1>1, <1>5
<1>7. \A k \in 1 .. Len(s) : s[k] = es[i].text[k]
  <2> TAKE k \in 1 .. Len(s)
  <2> DEFINE q == a + k
  <2>1. q \in Nat /\ a < q /\ q <= b /\ q - a = k
    BY <1>1, <1>6
  <2>2. s[k] = t[q]
    BY <1>5
  <2> HIDE DEF q
  <2>3. t[q] = es[i].text[q - a]
    BY <1>2, <2>1
  <2> QED BY <2>1, <2>2, <2>3
<1>8. s = es[i].text
  BY <1>1, <1>5, <1>6, <1>7, Same
<1> QED BY <1>8 DEF s, a, b, t

(* What is not replaced keeps its order.                                   *)
LEMMA OriginsGrow ==
  ASSUME NEW o, Len(o) \in Nat, NEW es, Good(es, Len(o)),
         NEW p \in 1 .. Len(Text(o, es)), NEW q \in 1 .. Len(Text(o, es)), p <= q,
         Original(o, es, p), Original(o, es, q)
  PROVE  ToOriginal(es, p - 1) <= ToOriginal(es, q - 1)
<1> DEFINE x == ToOriginal(es, p - 1)
           y == ToOriginal(es, q - 1)
           l == Len(es)
<1>1. p \in 1 .. Len(Rendered(o, es)) /\ q \in 1 .. Len(Rendered(o, es)) /\ p \in Nat /\ q \in Nat
  BY TextIs
<1>2. ASSUME NEW m \in 1 .. Len(Text(o, es)), Original(o, es, m)
      PROVE  \E j \in 0 .. l : /\ Past(es, m, j) /\ MaskedEnd(es, j) < m
                               /\ Behind(es, j) <= ToOriginal(es, m - 1)
                               /\ ToOriginal(es, m - 1) = m - 1 - MaskedEnd(es, j) + Behind(es, j)
                               /\ j < l => ToOriginal(es, m - 1) < es[j + 1].start
  <2>1. m \in 1 .. Len(Rendered(o, es)) /\ m \in Nat
    BY TextIs
  <2>2. PICK j \in 0 .. l : Past(es, m, j) /\ MaskedEnd(es, j) < m /\ Lies(o, es, Rendered(o, es), m, j)
    BY <2>1, PlaceIs
  <2>3. CASE j < l /\ MaskedStart(es, j + 1) < m /\ m <= MaskedEnd(es, j + 1)
    <3>1. j + 1 \in 1 .. l
      BY <2>3, EndsHold
    <3>2. Marked(o, es, m)
      BY <2>1, <2>3, <3>1, ClosedIs
    <3> QED BY <1>2, <3>2 DEF Marked, Original, NoOrigin
  <2>4. CASE Rendered(o, es)[m] = Open(o, es, j, m) /\ (j < l => m <= MaskedStart(es, j + 1))
    BY <2>2, <2>4, OpenIs
  <2> QED BY <2>2, <2>3, <2>4 DEF Lies
<1>3. PICK j \in 0 .. l : /\ Past(es, p, j) /\ MaskedEnd(es, j) < p /\ Behind(es, j) <= x
                          /\ x = p - 1 - MaskedEnd(es, j) + Behind(es, j)
                          /\ j < l => x < es[j + 1].start
  BY <1>2
<1>4. PICK k \in 0 .. l : /\ Past(es, q, k) /\ MaskedEnd(es, k) < q /\ Behind(es, k) <= y
                          /\ y = q - 1 - MaskedEnd(es, k) + Behind(es, k)
  BY <1>2
<1>5. l \in Nat /\ DOMAIN es = 1 .. l /\ \A i \in 0 .. l : MaskedEnd(es, i) \in Nat /\ Behind(es, i) \in Nat
  BY EndsHold
<1> SUFFICES x <= y
  OBVIOUS
<1> HIDE DEF x, y, l
<1>6. x \in Nat /\ y \in Nat
  BY DEF Original, x, y
<1>7. CASE j = k
  <2>1. /\ MaskedEnd(es, j) \in Nat /\ Behind(es, j) \in Nat
        /\ x = p - 1 - MaskedEnd(es, j) + Behind(es, j)
        /\ y = q - 1 - MaskedEnd(es, j) + Behind(es, j)
    BY <1>3, <1>4, <1>5, <1>7
  <2> QED BY <1>1, <2>1
<1>8. CASE k < j
  <2>1. j \in 1 .. l /\ j \in 0 .. l
    BY <1>5, <1>8
  <2>2. MaskedEnd(es, j) < q
    BY <1>1, <1>3, <1>5, <2>1
  <2> QED BY <1>4, <1>5, <1>8, <2>1, <2>2 DEF Past, l
<1>9. CASE j < k
  <2> DEFINE i == j + 1
  <2>1. i \in 1 .. l /\ k \in 1 .. l /\ j < l /\ i <= k
    BY <1>5, <1>9
  <2>2. x < es[i].start
    BY <1>3, <2>1
  <2> HIDE DEF i
  <2>3. /\ es[i].start \in Nat /\ es[i].end \in Nat /\ es[i].start < es[i].end
        /\ es[k].start \in Nat /\ es[k].end \in Nat /\ es[k].start < es[k].end /\ Behind(es, k) = es[k].end
    <3>1. EditOK(es[i], Len(o)) /\ EditOK(es[k], Len(o))
      BY <1>5, <2>1 DEF Good
    <3>2. k # 0
      BY <2>1
    <3> QED BY <3>1, <3>2 DEF EditOK, Behind
  <2>4. es[i].start <= es[k].start
    <3>1. CASE i = k
      BY <2>3, <3>1
    <3>2. CASE i # k
      <4>1. es[i].end <= es[k].start
        <5>1. i \in DOMAIN es /\ k \in DOMAIN es /\ i < k
          BY <1>5, <2>1, <3>2
        <5> QED BY <5>1 DEF Good
      <4> QED BY <2>3, <4>1
    <3> QED BY <3>1, <3>2
  <2>5. es[k].end <= y
    BY <1>4, <2>3
  <2> QED BY <1>6, <2>2, <2>3, <2>4, <2>5
<1>10. j = k \/ j < k \/ k < j
  BY <1>5
<1> QED BY <1>7, <1>8, <1>9, <1>10

(* So a good list of edits maps back: the state invariant of a unit.       *)
MapsBack(o, es) ==
  /\ \A i, j \in DOMAIN es : i < j => es[i].end <= es[j].start
  /\ \A i \in DOMAIN es : /\ 0 <= es[i].start /\ es[i].end <= Len(o)
                          /\ Piece(Text(o, es), <<MaskedStart(es, i), MaskedEnd(es, i)>>) = es[i].text
  /\ \A p \in 0 .. Len(Text(o, es)) - 1 :
       LET x == Origins(o, es)[p + 1]
       IN x # NoOrigin => ToOriginal(es, p) = x /\ ToMasked(es, x) = p
LEMMA GoodMapsBack ==
  ASSUME NEW o, Len(o) \in Nat, NEW es, Good(es, Len(o))
  PROVE  MapsBack(o, es)
<1>1. \A i \in DOMAIN es : 0 <= es[i].start /\ es[i].end <= Len(o)
  BY DEF Good, EditOK
<1>2. \A i \in DOMAIN es : Piece(Text(o, es), <<MaskedStart(es, i), MaskedEnd(es, i)>>) = es[i].text
  BY EditStands, EndsHold
<1>3. ASSUME NEW p \in 0 .. Len(Text(o, es)) - 1, Origins(o, es)[p + 1] # NoOrigin
      PROVE  LET x == Origins(o, es)[p + 1]
             IN ToOriginal(es, p) = x /\ ToMasked(es, x) = p
  <2> DEFINE q == p + 1
  <2>1. q \in 1 .. Len(Text(o, es)) /\ q - 1 = p
    BY TextIs
  <2> HIDE DEF q
  <2>2. Original(o, es, q)
    BY <1>3, <2>1, TextAt DEF Marked, q
  <2> QED BY <2>1, <2>2 DEF Original, q
<1> QED BY <1>1, <1>2, <1>3 DEF MapsBack, Good

-----------------------------------------------------------------------------
(* Lists of edits from sets of edits that do not meet.                     *)
Apart(S, n) ==
  /\ IsFiniteSet(S) /\ \A e \in S : EditOK(e, n)
  /\ \A e, f \in S : e = f \/ ~Meets(Extent(e), Extent(f))

LEMMA EditsMeet ==
  ASSUME NEW n \in Nat, NEW e, EditOK(e, n), NEW f, EditOK(f, n)
  PROVE  /\ Meets(Extent(e), Extent(f)) <=> (e.start < f.end /\ f.start < e.end)
         /\ e.start \in Nat /\ e.end \in Nat /\ e.start < e.end /\ e.end <= n
         /\ f.start \in Nat /\ f.end \in Nat /\ f.start < f.end /\ f.end <= n
BY DEF Meets, Extent, EditOK

LEMMA GoodApart ==
  ASSUME NEW n \in Nat, NEW es, Good(es, n)
  PROVE  Apart(ToSet(es), n)
<1>1. Len(es) \in Nat /\ DOMAIN es = 1 .. Len(es) /\ es \in Seq(ToSet(es))
  BY EndsHold DEF Good, Listing
<1>2. IsFiniteSet(ToSet(es))
  BY <1>1, ToSetFinite
<1>3. \A e \in ToSet(es) : EditOK(e, n)
  BY DEF Good, ToSet
<1>4. ASSUME NEW e \in ToSet(es), NEW f \in ToSet(es), e # f  PROVE ~Meets(Extent(e), Extent(f))
  <2>1. PICK i \in DOMAIN es : e = es[i]
    BY DEF ToSet
  <2>2. PICK j \in DOMAIN es : f = es[j]
    BY DEF ToSet
  <2>3. i < j \/ j < i
    BY <1>1, <1>4, <2>1, <2>2
  <2>4. e.end <= f.start \/ f.end <= e.start
    BY <2>1, <2>2, <2>3 DEF Good
  <2>5. /\ Meets(Extent(e), Extent(f)) <=> (e.start < f.end /\ f.start < e.end)
        /\ e.start \in Nat /\ e.end \in Nat /\ f.start \in Nat /\ f.end \in Nat
    BY <1>3, EditsMeet
  <2> QED BY <2>4, <2>5
<1> QED BY <1>2, <1>3, <1>4 DEF Apart

LEMMA SortedGood ==
  ASSUME NEW n \in Nat, NEW S, Apart(S, n)
  PROVE  Good(Sorted(S), n) /\ ToSet(Sorted(S)) = S
<1> DEFINE L == {p \in S \X S : p[1].start < p[2].start}
           s == Ordered(S, L)
           c == Cardinality(S)
<1>1. IsFiniteSet(S) /\ \A e \in S : EditOK(e, n)
  BY DEF Apart
<1>2. \A e \in S : e.start \in Nat /\ e.end \in Nat /\ e.start < e.end
  BY <1>1 DEF EditOK
<1>3. \A e, f \in S : <<e, f>> \in L <=> e.start < f.start
  OBVIOUS
<1>4. ASSUME NEW e \in S, NEW f \in S, e # f  PROVE e.end <= f.start \/ f.end <= e.start
  <2>1. ~Meets(Extent(e), Extent(f))
    BY <1>4 DEF Apart
  <2>2. /\ Meets(Extent(e), Extent(f)) <=> (e.start < f.end /\ f.start < e.end)
        /\ e.start \in Nat /\ e.end \in Nat /\ f.start \in Nat /\ f.end \in Nat
    BY <1>1, EditsMeet
  <2> QED BY <2>1, <2>2
<1> HIDE DEF L
<1>5. Total(S, L)
  <2>1. \A e \in S : <<e, e>> \notin L
    BY <1>2, <1>3
  <2>2. \A a, b, d \in S : <<a, b>> \in L /\ <<b, d>> \in L => <<a, d>> \in L
    <3> TAKE a, b, d \in S
    <3>1. a.start \in Nat /\ b.start \in Nat /\ d.start \in Nat
      BY <1>2
    <3> QED BY <1>3, <3>1
  <2>3. \A a, b \in S : a = b \/ <<a, b>> \in L \/ <<b, a>> \in L
    <3> TAKE a, b \in S
    <3>1. /\ a.start \in Nat /\ b.start \in Nat /\ a.start < a.end /\ b.start < b.end
          /\ a.end \in Nat /\ b.end \in Nat
      BY <1>2
    <3>2. a = b \/ a.end <= b.start \/ b.end <= a.start
      BY <1>4
    <3>3. a = b \/ a.start < b.start \/ b.start < a.start
      BY <3>1, <3>2
    <3> QED BY <1>3, <3>3
  <2> QED BY <2>1, <2>2, <2>3 DEF Total
<1>6. /\ c \in Nat /\ s \in Seq(S) /\ Len(s) = c /\ DOMAIN s = 1 .. c
      /\ \A a \in S : \E k \in 1 .. c : s[k] = a
      /\ \A i, j \in 1 .. c : i < j => <<s[i], s[j]>> \in L
      /\ s \in [1 .. c -> S]
  BY <1>1, <1>5, OrderedIs
<1>7. Sorted(S) = s
  BY DEF Sorted, L
<1> HIDE DEF s, c
<1>8. ToSet(s) = S
  BY <1>6 DEF ToSet
<1>9. Listing(s)
  BY <1>6, ListingIs
<1>10. \A i \in DOMAIN s : EditOK(s[i], n)
  BY <1>1, <1>6
<1>11. ASSUME NEW i \in DOMAIN s, NEW j \in DOMAIN s, i < j  PROVE s[i].end <= s[j].start
  <2>1. s[i] \in S /\ s[j] \in S /\ s[i].start < s[j].start
    BY <1>3, <1>6, <1>11
  <2>2. s[i] # s[j]
    BY <1>2, <2>1
  <2>3. s[i].end <= s[j].start \/ s[j].end <= s[i].start
    BY <1>4, <2>1, <2>2
  <2>4. /\ s[i].start \in Nat /\ s[i].end \in Nat /\ s[j].start \in Nat /\ s[j].end \in Nat
        /\ s[j].start < s[j].end
    BY <1>2, <2>1
  <2> QED BY <2>1, <2>3, <2>4
<1> QED BY <1>7, <1>8, <1>9, <1>10, <1>11 DEF Good

-----------------------------------------------------------------------------
(* The hull of a range and of finitely many numbers beside it.             *)
FromImage(S, X, f) == \A x \in S : x \in X \/ \E d \in DOMAIN f : x = f[d]
LEMMA Hull ==
  ASSUME NEW f, IsFiniteSet(DOMAIN f), NEW X, IsFiniteSet(X), NEW S, FromImage(S, X, f)
  PROVE  IsFiniteSet(S)
<1> DEFINE D == DOMAIN f
<1>1. IsFiniteSet({f[d] : d \in D})
  BY FiniteImage
<1>2. IsFiniteSet(X \cup {f[d] : d \in D})
  BY <1>1, FS_Union
<1>3. S \subseteq X \cup {f[d] : d \in D}
  BY DEF FromImage
<1> QED BY <1>2, <1>3, FS_Subset

LEMMA Single ==
  ASSUME NEW a \in Int
  PROVE  IsFiniteSet({a}) /\ {a} \subseteq Int
BY FS_Singleton

(* Union: the range with the edits it meets.                               *)
LEMMA UnionIs ==
  ASSUME NEW n \in Nat, NEW es, Good(es, n), NEW r, r[1] \in 0 .. n, r[2] \in 0 .. n, r[1] < r[2]
  PROVE  LET u == Union(es, r)
         IN /\ u = <<u[1], u[2]>> /\ u[1] \in 0 .. n /\ u[2] \in 0 .. n /\ u[1] <= r[1] /\ r[2] <= u[2]
            /\ u[1] < u[2]
            /\ \A e \in ToSet(es) : IF Meets(Extent(e), r) THEN Within(Extent(e), u) ELSE ~Meets(Extent(e), u)
<1> DEFINE hit == {e \in ToSet(es) : Meets(Extent(e), r)}
           a == Min({r[1]} \cup {e.start : e \in hit})
           b == Max({r[2]} \cup {e.end : e \in hit})
           u == Union(es, r)
<1>1. u = <<a, b>>
  BY DEF Union
<1>2. Apart(ToSet(es), n)
  BY GoodApart
<1>3. IsFiniteSet(hit)
  BY <1>2, FS_Subset DEF Apart
<1>4. \A e \in ToSet(es) : e.start \in 0 .. n /\ e.end \in 0 .. n /\ e.start < e.end
  BY <1>2 DEF Apart, EditOK
<1>5. \A e \in ToSet(es) : Meets(Extent(e), r) <=> (e.start < r[2] /\ r[1] < e.end)
  BY DEF Meets, Extent
<1>6. \A e \in hit : e \in ToSet(es) /\ Meets(Extent(e), r)
  OBVIOUS
<1>7. \A e \in ToSet(es) : Meets(Extent(e), r) => e \in hit
  OBVIOUS
<1> HIDE DEF hit
<1>8. /\ a \in {r[1]} \cup {e.start : e \in hit} /\ a \in Int
      /\ \A x \in {r[1]} \cup {e.start : e \in hit} : a <= x
  <2> DEFINE f == [e \in hit |-> e.start]
  <2>1. DOMAIN f = hit /\ \A e \in hit : f[e] = e.start /\ f[e] \in Int
    BY <1>4, <1>6
  <2> DEFINE S == {r[1]} \cup {e.start : e \in hit}
             X == {r[1]}
  <2>2. FromImage(S, X, f)
    BY <2>1 DEF FromImage
  <2>3. r[1] \in Int /\ S # {}
    OBVIOUS
  <2>4. IsFiniteSet(X) /\ X \subseteq Int
    BY <2>3, Single
  <2> HIDE DEF f, S, X
  <2>5. Min(S) \in S /\ Min(S) \in Int /\ \A x \in S : Min(S) <= x /\ x <= Max(S)
    <3>1. IsFiniteSet(DOMAIN f)
      BY <1>3, <2>1
    <3>2. IsFiniteSet(X)
      BY <2>4
    <3>3. IsFiniteSet(S)
      BY <2>2, <3>1, <3>2, Hull
    <3>4. S \subseteq Int
      BY <2>1, <2>2, <2>4 DEF FromImage
    <3> QED BY <2>3, <3>3, <3>4, MinMax
  <2> QED BY <2>5 DEF S, a
<1>9. /\ b \in {r[2]} \cup {e.end : e \in hit} /\ b \in Int
      /\ \A x \in {r[2]} \cup {e.end : e \in hit} : x <= b
  <2> DEFINE f == [e \in hit |-> e.end]
  <2>1. DOMAIN f = hit /\ \A e \in hit : f[e] = e.end /\ f[e] \in Int
    BY <1>4, <1>6
  <2> DEFINE S == {r[2]} \cup {e.end : e \in hit}
             X == {r[2]}
  <2>2. FromImage(S, X, f)
    BY <2>1 DEF FromImage
  <2>3. r[2] \in Int /\ S # {}
    OBVIOUS
  <2>4. IsFiniteSet(X) /\ X \subseteq Int
    BY <2>3, Single
  <2> HIDE DEF f, S, X
  <2>5. Max(S) \in S /\ Max(S) \in Int /\ \A x \in S : Min(S) <= x /\ x <= Max(S)
    <3>1. IsFiniteSet(DOMAIN f)
      BY <1>3, <2>1
    <3>2. IsFiniteSet(X)
      BY <2>4
    <3>3. IsFiniteSet(S)
      BY <2>2, <3>1, <3>2, Hull
    <3>4. S \subseteq Int
      BY <2>1, <2>2, <2>4 DEF FromImage
    <3> QED BY <2>3, <3>3, <3>4, MinMax
  <2> QED BY <2>5 DEF S, b
<1> HIDE DEF a, b
<1>10. a \in 0 .. n /\ b \in 0 .. n /\ a <= r[1] /\ r[2] <= b /\ a < b
  <2>1. a \in 0 .. n
    BY <1>4, <1>6, <1>8
  <2>2. b \in 0 .. n
    BY <1>4, <1>6, <1>9
  <2>3. a <= r[1] /\ r[2] <= b
    BY <1>8, <1>9
  <2> QED BY <2>1, <2>2, <2>3
<1>11. ASSUME NEW e \in ToSet(es), ~Meets(Extent(e), r)  PROVE ~(e.start < b /\ a < e.end)
  <2>1. e.start \in Nat /\ e.end \in Nat /\ e.start < e.end
    BY <1>4
  <2>2. r[2] <= e.start \/ e.end <= r[1]
    BY <1>5, <1>11, <2>1
  <2>3. CASE e.end <= r[1]
    <3>1. e.end <= a
      <4>1. CASE a = r[1]
        BY <2>3, <4>1
      <4>2. CASE a # r[1]
        <5>1. PICK f \in hit : a = f.start
          BY <1>8, <4>2
        <5>2. f \in ToSet(es) /\ f # e /\ f.start < r[2] /\ r[1] < f.end
          BY <1>5, <1>6, <1>11
        <5>3. ~(e.start < f.end /\ f.start < e.end)
          <6>1. ~Meets(Extent(e), Extent(f))
            BY <1>2, <5>2 DEF Apart
          <6> QED BY <6>1 DEF Meets, Extent
        <5>4. f.start \in Nat /\ f.end \in Nat
          BY <1>4, <5>2
        <5> QED BY <2>1, <2>3, <5>1, <5>2, <5>3, <5>4
      <4> QED BY <4>1, <4>2
    <3> QED BY <1>8, <2>1, <3>1
  <2>4. CASE r[2] <= e.start
    <3>1. b <= e.start
      <4>1. CASE b = r[2]
        BY <2>4, <4>1
      <4>2. CASE b # r[2]
        <5>1. PICK f \in hit : b = f.end
          BY <1>9, <4>2
        <5>2. f \in ToSet(es) /\ f # e /\ f.start < r[2] /\ r[1] < f.end
          BY <1>5, <1>6, <1>11
        <5>3. ~(e.start < f.end /\ f.start < e.end)
          <6>1. ~Meets(Extent(e), Extent(f))
            BY <1>2, <5>2 DEF Apart
          <6> QED BY <6>1 DEF Meets, Extent
        <5>4. f.start \in Nat /\ f.end \in Nat
          BY <1>4, <5>2
        <5> QED BY <2>1, <2>4, <5>1, <5>2, <5>3, <5>4
      <4> QED BY <4>1, <4>2
    <3> QED BY <1>9, <2>1, <3>1
  <2> QED BY <2>2, <2>3, <2>4
<1>12. u[1] = a /\ u[2] = b /\ u = <<u[1], u[2]>>
  BY <1>1
<1>13. ASSUME NEW e \in ToSet(es)
       PROVE  IF Meets(Extent(e), r) THEN Within(Extent(e), u) ELSE ~Meets(Extent(e), u)
  <2>1. Meets(Extent(e), r) => a <= e.start /\ e.end <= b
    BY <1>7, <1>8, <1>9
  <2> HIDE DEF u
  <2>2. Within(Extent(e), u) <=> (a <= e.start /\ e.end <= b)
    BY <1>12 DEF Within, Extent
  <2>3. Meets(Extent(e), u) <=> (e.start < b /\ a < e.end)
    BY <1>12 DEF Meets, Extent
  <2> QED BY <1>11, <2>1, <2>2, <2>3 DEF u
<1> HIDE DEF u
<1> QED BY <1>10, <1>12, <1>13 DEF u

-----------------------------------------------------------------------------
(* Placeholders are marks, and what is joined of marks.                    *)
LEMMA PlaceholderMarks ==
  ASSUME NEW family, NEW k
  PROVE  Marks(Placeholder(family, k))
<1> DEFINE a == <<family, k, 1>>
           b == <<family, k, 2>>
<1>1. Len(a) = 3 /\ Len(b) = 3
  OBVIOUS
<1> HIDE DEF a, b
<1>2. <<a, b>> \in Seq({a, b}) /\ DOMAIN <<a, b>> = 1 .. 2 /\ <<a, b>>[1] = a /\ <<a, b>>[2] = b
  OBVIOUS
<1>3. Listing(<<a, b>>)
  BY <1>2, ListingIs
<1>4. Marks(<<a, b>>)
  BY <1>1, <1>2, <1>3 DEF Marks
<1> QED BY <1>4 DEF Placeholder, a, b

LEMMA LostMarks == Marks(<<>>)
BY DEF Marks, Listing, ToSet

LEMMA MarksJoined ==
  ASSUME NEW s, Marks(s), NEW t, Marks(t)
  PROVE  Marks(s \o t)
<1> DEFINE c == s \o t
<1>1. Listing(s) /\ Listing(t)
  BY DEF Marks
<1>2. /\ Len(s) \in Nat /\ Len(t) \in Nat /\ DOMAIN s = 1 .. Len(s) /\ DOMAIN t = 1 .. Len(t)
      /\ \A i \in 1 .. Len(s) : Len(s[i]) = 3
      /\ \A i \in 1 .. Len(t) : Len(t[i]) = 3
  BY <1>1, ListingHas DEF Marks
<1>3. /\ Listing(c) /\ Len(c) = Len(s) + Len(t)
      /\ \A i \in 1 .. Len(s) : c[i] = s[i]
      /\ \A i \in Len(s) + 1 .. Len(s) + Len(t) : c[i] = t[i - Len(s)]
  BY <1>1, Concatenated
<1> HIDE DEF c
<1>4. DOMAIN c = 1 .. Len(c)
  BY <1>3, ListingHas
<1>5. ASSUME NEW i \in DOMAIN c  PROVE Len(c[i]) = 3
  <2>1. CASE i \in 1 .. Len(s)
    BY <1>2, <1>3, <2>1
  <2>2. CASE i \notin 1 .. Len(s)
    <3>1. i \in Len(s) + 1 .. Len(s) + Len(t) /\ i - Len(s) \in 1 .. Len(t)
      BY <1>2, <1>3, <1>4, <2>2
    <3> QED BY <1>2, <1>3, <3>1
  <2> QED BY <2>1, <2>2
<1>6. Marks(c)
  BY <1>3, <1>5 DEF Marks
<1> QED BY <1>6 DEF c

-----------------------------------------------------------------------------
(* A forced mask leaves the list good.                                     *)
LEMMA ApartWith ==
  ASSUME NEW n \in Nat, NEW S, Apart(S, n), NEW T \in SUBSET S, NEW e, EditOK(e, n),
         \A f \in T : ~Meets(Extent(f), Extent(e))
  PROVE  Apart(T \cup {e}, n)
<1>1. IsFiniteSet(T \cup {e})
  BY FS_Subset, FS_AddElement DEF Apart
<1>2. \A f \in T \cup {e} : EditOK(f, n)
  BY DEF Apart
<1>3. \A f \in T : ~Meets(Extent(e), Extent(f))
  BY DEF Meets
<1>4. \A f, g \in T \cup {e} : f = g \/ ~Meets(Extent(f), Extent(g))
  BY <1>3 DEF Apart
<1> QED BY <1>1, <1>2, <1>4 DEF Apart

Grown(es, fs) == \A e \in ToSet(es) : \E f \in ToSet(fs) : Within(Extent(e), Extent(f))
LEMMA ForceGood ==
  ASSUME NEW n \in Nat, NEW es, Good(es, n), NEW r, r[1] \in 0 .. n, r[2] \in 0 .. n, r[1] < r[2],
         NEW text, Marks(text), NEW type, NEW source
  PROVE  /\ Good(ForceOriginal(es, r, text, type, source), n)
         /\ Grown(es, ForceOriginal(es, r, text, type, source))
         /\ \E e \in ToSet(ForceOriginal(es, r, text, type, source)) : Within(r, Extent(e))
<1> DEFINE u == Union(es, r)
           e == EditOf(u, text, type, source)
           T == {f \in ToSet(es) : ~Meets(Extent(f), r)}
<1>1. /\ u = <<u[1], u[2]>> /\ u[1] \in 0 .. n /\ u[2] \in 0 .. n /\ u[1] < u[2]
      /\ \A f \in ToSet(es) : IF Meets(Extent(f), r) THEN Within(Extent(f), u) ELSE ~Meets(Extent(f), u)
  BY UnionIs
<1> HIDE DEF u
<1>2. e.start = u[1] /\ e.end = u[2] /\ e.text = text
  BY DEF EditOf
<1> HIDE DEF e
<1>3. EditOK(e, n) /\ Extent(e) = u
  BY <1>1, <1>2 DEF EditOK, Extent
<1>4. Apart(ToSet(es), n)
  BY GoodApart
<1>5. T \in SUBSET ToSet(es) /\ \A f \in T : ~Meets(Extent(f), Extent(e))
  BY <1>1, <1>3
<1> HIDE DEF T
<1>6. Apart(T \cup {e}, n)
  BY <1>3, <1>4, <1>5, ApartWith
<1>7. Good(Sorted(T \cup {e}), n) /\ ToSet(Sorted(T \cup {e})) = T \cup {e}
  BY <1>6, SortedGood
<1> DEFINE fs == ForceOriginal(es, r, text, type, source)
<1>8. fs = Sorted(T \cup {e})
  BY DEF ForceOriginal, T, e, u
<1> HIDE DEF fs
<1>9. ASSUME NEW f \in ToSet(es)  PROVE \E g \in ToSet(fs) : Within(Extent(f), Extent(g))
  <2>1. CASE Meets(Extent(f), r)
    BY <1>1, <1>3, <1>7, <1>8, <2>1
  <2>2. CASE ~Meets(Extent(f), r)
    <3>1. f \in ToSet(fs)
      BY <1>7, <1>8, <2>2 DEF T
    <3>2. Within(Extent(f), Extent(f))
      <4>1. f.start \in Nat /\ f.end \in Nat
        BY <1>4 DEF Apart, EditOK
      <4> QED BY <4>1 DEF Within, Extent
    <3> QED BY <3>1, <3>2
  <2> QED BY <2>1, <2>2
<1>10. Within(r, u)
  BY UnionIs DEF Within, u
<1> QED BY <1>3, <1>7, <1>8, <1>9, <1>10 DEF Grown, fs

-----------------------------------------------------------------------------
(* A replacement in the current text leaves the list good, or raises.      *)
LEMMA HitsAre ==
  ASSUME NEW n \in Nat, NEW es, Good(es, n), NEW r, r[1] \in Nat, r[2] \in Nat, r[1] < r[2]
  PROVE  /\ HitEdits(es, r) \subseteq 1 .. Len(es) /\ IsFiniteSet(HitEdits(es, r))
         /\ \A i \in HitEdits(es, r) :
              /\ MaskedStart(es, i) \in Nat /\ MaskedEnd(es, i) \in Nat
              /\ MaskedStart(es, i) < r[1] => r[1] < MaskedEnd(es, i)
              /\ r[2] < MaskedEnd(es, i) => MaskedStart(es, i) < r[2]
         /\ \A i \in 1 .. Len(es), p \in Nat :
              (r[1] < p /\ p <= r[2] /\ MaskedStart(es, i) < p /\ p <= MaskedEnd(es, i))
                => i \in HitEdits(es, r)
<1> DEFINE H == HitEdits(es, r)
           l == Len(es)
<1>1. l \in Nat /\ DOMAIN es = 1 .. l
  BY EndsHold
<1>2. \A i \in 1 .. l : MaskedStart(es, i) \in Nat /\ MaskedEnd(es, i) \in Nat /\ MaskedStart(es, i) <= MaskedEnd(es, i)
  <2> TAKE i \in 1 .. l
  <2>1. i \in 0 .. l
    BY <1>1
  <2> QED BY <2>1, EndsHold
<1>3. \A i : i \in H <=> /\ i \in 1 .. l
                         /\ IF MaskedStart(es, i) = MaskedEnd(es, i)
                            THEN r[1] < MaskedStart(es, i) /\ MaskedStart(es, i) < r[2]
                            ELSE MaskedStart(es, i) < r[2] /\ r[1] < MaskedEnd(es, i)
  BY <1>1 DEF HitEdits, Touches, Meets
<1>4. H \subseteq 1 .. l
  BY <1>3
<1>5. IsFiniteSet(H)
  <2>1. 1 \in Int /\ l \in Int
    BY <1>1
  <2>2. IsFiniteSet(1 .. l)
    BY <2>1, FS_Interval
  <2> QED BY <1>4, <2>2, FS_Subset
<1> HIDE DEF H, l
<1>6. ASSUME NEW i \in H
      PROVE  /\ MaskedStart(es, i) \in Nat /\ MaskedEnd(es, i) \in Nat
             /\ MaskedStart(es, i) < r[1] => r[1] < MaskedEnd(es, i)
             /\ r[2] < MaskedEnd(es, i) => MaskedStart(es, i) < r[2]
  <2>1. /\ MaskedStart(es, i) \in Nat /\ MaskedEnd(es, i) \in Nat /\ MaskedStart(es, i) <= MaskedEnd(es, i)
    BY <1>2, <1>3
  <2> QED BY <1>3, <2>1
<1>7. ASSUME NEW i \in 1 .. l, NEW p \in Nat,
             r[1] < p /\ p <= r[2] /\ MaskedStart(es, i) < p /\ p <= MaskedEnd(es, i)
      PROVE  i \in H
  <2>1. /\ MaskedStart(es, i) \in Nat /\ MaskedEnd(es, i) \in Nat
    BY <1>2
  <2>2. MaskedStart(es, i) # MaskedEnd(es, i) /\ MaskedStart(es, i) < r[2] /\ r[1] < MaskedEnd(es, i)
    BY <1>7, <2>1
  <2> QED BY <1>3, <2>2
<1> QED BY <1>4, <1>5, <1>6, <1>7 DEF H, l

LEMMA WholeIs ==
  ASSUME NEW o, Len(o) \in Nat, NEW es, Good(es, Len(o)), NEW r, r[1] \in Nat, r[2] \in Nat, r[1] < r[2],
         HitEdits(es, r) # {} \/ r[2] <= Len(Text(o, es))
  PROVE  LET w == Whole(es, r, HitEdits(es, r), Origins(o, es))
         IN /\ w[1] \in 0 .. Len(o) /\ w[2] \in 0 .. Len(o) /\ w[1] < w[2]
            /\ \A i \in HitEdits(es, r) : w[1] <= es[i].start /\ es[i].end <= w[2]
<1> DEFINE n == Len(o)
           t == Text(o, es)
           org == Origins(o, es)
           H == HitEdits(es, r)
           At(i) == {org[k] : k \in {i} \cap DOMAIN org} \ {NoOrigin}
           S == {es[i].start : i \in H} \cup At(r[1] + 1)
           E == {es[i].end : i \in H} \cup {x + 1 : x \in At(r[2])}
           w == Whole(es, r, H, org)
<1>1. w = <<Min(S), Max(E)>>
  BY DEF Whole
<1>2. Len(t) \in Nat /\ DOMAIN org = 1 .. Len(t)
  BY TextIs
<1>3. \A p \in 1 .. Len(t) : Original(o, es, p) \/ Marked(o, es, p)
  BY TextAt
<1>4. /\ H \subseteq 1 .. Len(es)
      /\ \A i \in 1 .. Len(es), p \in Nat :
           (r[1] < p /\ p <= r[2] /\ MaskedStart(es, i) < p /\ p <= MaskedEnd(es, i)) => i \in H
  BY HitsAre
<1>5. \A i \in H : es[i].start \in 0 .. n /\ es[i].end \in 0 .. n /\ es[i].start < es[i].end
  BY <1>4, EndsHold DEF Good, EditOK
<1>6. ASSUME NEW i, NEW x \in At(i)  PROVE x \in 0 .. n - 1
  <2>1. i \in 1 .. Len(t) /\ x = org[i] /\ x # NoOrigin
    BY <1>2
  <2>2. Original(o, es, i)
    BY <1>3, <2>1 DEF Marked
  <2> QED BY <2>1, <2>2 DEF Original
<1>7. \A p \in 1 .. Len(t) : Original(o, es, p) => ToOriginal(es, p - 1) \in At(p) /\ ToOriginal(es, p - 1) \in Nat
  BY <1>2 DEF Original, NoOrigin
<1> HIDE DEF At
<1>8. S \subseteq 0 .. n
  BY <1>5, <1>6
<1>9. E \subseteq 0 .. n
  BY <1>5, <1>6
<1>10. \E x \in S, y \in E : x < y
  <2>1. CASE H # {}
    BY <1>5, <2>1
  <2>2. CASE H = {}
    <3> DEFINE p == r[1] + 1
               q == r[2]
    <3>1. p \in 1 .. Len(t) /\ q \in 1 .. Len(t) /\ p <= q /\ p \in Nat /\ q \in Nat /\ r[1] < p /\ r[1] < q
      BY <1>2, <2>2
    <3>2. Original(o, es, p) /\ Original(o, es, q)
      BY <1>3, <1>4, <2>2, <3>1 DEF Marked
    <3>3. ToOriginal(es, p - 1) <= ToOriginal(es, q - 1)
      <4> HIDE DEF p, q
      <4> QED BY <3>1, <3>2, OriginsGrow
    <3>4. /\ ToOriginal(es, p - 1) \in At(p) /\ ToOriginal(es, p - 1) \in Nat
          /\ ToOriginal(es, q - 1) \in At(q) /\ ToOriginal(es, q - 1) \in Nat
      BY <1>7, <3>1, <3>2
    <3> HIDE DEF p, q
    <3>5. ToOriginal(es, p - 1) < ToOriginal(es, q - 1) + 1
      BY <3>3, <3>4
    <3>6. ToOriginal(es, p - 1) \in S /\ ToOriginal(es, q - 1) + 1 \in E
      BY <3>4 DEF p, q
    <3> QED BY <3>5, <3>6
  <2> QED BY <2>1, <2>2
<1> HIDE DEF S, E
<1>18. \A i \in H : es[i].start \in S /\ es[i].end \in E
  BY DEF S, E
<1>11. IsFiniteSet(S) /\ IsFiniteSet(E)
  <2>1. 0 \in Int /\ n \in Int
    OBVIOUS
  <2>2. IsFiniteSet(0 .. n)
    BY <2>1, FS_Interval
  <2> QED BY <1>8, <1>9, <2>2, FS_Subset
<1>12. S \subseteq Int /\ E \subseteq Int
  BY <1>8, <1>9
<1>13. PICK x \in S, y \in E : x < y
  BY <1>10
<1>14. Min(S) \in S /\ Min(S) <= x
  BY <1>11, <1>12, <1>13, MinMax
<1>15. Max(E) \in E /\ y <= Max(E)
  BY <1>11, <1>12, <1>13, MinMax
<1>16. Min(S) < Max(E)
  <2> DEFINE a == Min(S)
             b == Max(E)
  <2>1. a \in Int /\ b \in Int /\ x \in Int /\ y \in Int
    BY <1>12, <1>13, <1>14, <1>15
  <2>2. a <= x /\ y <= b
    BY <1>14, <1>15
  <2> HIDE DEF a, b
  <2>3. a < b
    BY <1>13, <2>1, <2>2
  <2> QED BY <2>3 DEF a, b
<1>17. w[1] \in 0 .. n /\ w[2] \in 0 .. n /\ w[1] < w[2]
  <2>1. w[1] = Min(S) /\ w[2] = Max(E)
    BY <1>1
  <2>2. Min(S) \in 0 .. n /\ Max(E) \in 0 .. n
    BY <1>8, <1>9, <1>14, <1>15
  <2> HIDE DEF w
  <2> QED BY <1>16, <2>1, <2>2
<1>19. ASSUME NEW i \in H  PROVE w[1] <= es[i].start /\ es[i].end <= w[2]
  <2>1. Min(S) <= es[i].start /\ es[i].end <= Max(E)
    BY <1>11, <1>12, <1>18, MinMax
  <2>2. w[1] = Min(S) /\ w[2] = Max(E)
    BY <1>1
  <2> HIDE DEF w
  <2> QED BY <2>1, <2>2
<1> QED BY <1>17, <1>19

-----------------------------------------------------------------------------
(* What is left of the placeholders a replacement cuts is marks.           *)
LEMMA CutMarks ==
  ASSUME NEW o, Len(o) \in Nat, NEW es, Good(es, Len(o)), NEW a \in Nat, NEW b \in Nat,
         a < b => \E i \in 1 .. Len(es) : MaskedStart(es, i) <= a /\ b <= MaskedEnd(es, i)
  PROVE  Marks(Piece(Text(o, es), <<a, b>>))
<1> DEFINE t == Text(o, es)
           s == Piece(t, <<a, b>>)
<1>1. ASSUME NEW p \in Nat, a < p, p <= b  PROVE p \in 1 .. Len(t) /\ Len(t[p]) = 3
  <2>1. a < b
    BY <1>1
  <2>2. PICK i \in 1 .. Len(es) : MaskedStart(es, i) <= a /\ b <= MaskedEnd(es, i)
    BY <2>1
  <2>3. MaskedStart(es, i) \in Nat /\ MaskedEnd(es, i) \in Nat
    <3>1. i \in 0 .. Len(es)
      BY EndsHold
    <3> QED BY <3>1, EndsHold
  <2>4. MaskedStart(es, i) < p /\ p <= MaskedEnd(es, i)
    BY <1>1, <2>2, <2>3
  <2> QED BY <2>4, ClosedIs DEF Marked
<1>2. Listing(t) /\ Len(t) \in Nat
  BY TextIs
<1> HIDE DEF t
<1>3. a < b => b <= Len(t)
  BY <1>1, <1>2
<1>4. /\ Listing(s) /\ Len(s) = (IF a < b THEN b - a ELSE 0)
      /\ \A k \in 1 .. Len(s) : s[k] = t[a + k]
  BY <1>2, <1>3, PieceIs
<1> HIDE DEF s
<1>5. ASSUME NEW k \in DOMAIN s  PROVE Len(s[k]) = 3
  <2>1. k \in 1 .. Len(s)
    BY <1>4, ListingHas
  <2> DEFINE p == a + k
  <2>2. p \in Nat /\ a < p /\ p <= b
    BY <1>4, <2>1
  <2>3. s[k] = t[p]
    BY <1>4, <2>1
  <2> HIDE DEF p
  <2> QED BY <1>1, <2>2, <2>3
<1>6. Marks(s)
  BY <1>4, <1>5 DEF Marks
<1> QED BY <1>6 DEF s, t

LEMMA SplicedMarks ==
  ASSUME NEW o, Len(o) \in Nat, NEW es, Good(es, Len(o)), NEW r, r[1] \in Nat, r[2] \in Nat, r[1] < r[2],
         NEW new, Marks(new)
  PROVE  Marks(Spliced(Text(o, es), es, r, HitEdits(es, r), new))
<1> DEFINE H == HitEdits(es, r)
           S == {r[1]} \cup {MaskedStart(es, i) : i \in H}
           E == {r[2]} \cup {MaskedEnd(es, i) : i \in H}
           a == Min(S)
           b == Max(E)
           t == Text(o, es)
<1>1. /\ H \subseteq 1 .. Len(es) /\ IsFiniteSet(H)
      /\ \A i \in H : /\ MaskedStart(es, i) \in Nat /\ MaskedEnd(es, i) \in Nat
                      /\ MaskedStart(es, i) < r[1] => r[1] < MaskedEnd(es, i)
                      /\ r[2] < MaskedEnd(es, i) => MaskedStart(es, i) < r[2]
  BY HitsAre
<1> HIDE DEF H
<1>2. S \subseteq Nat /\ E \subseteq Nat
  BY <1>1
<1>3. IsFiniteSet(S)
  <2> DEFINE f == [i \in H |-> MaskedStart(es, i)]
             X == {r[1]}
  <2>1. FromImage(S, X, f)
    BY DEF FromImage
  <2>2. IsFiniteSet(DOMAIN f)
    BY <1>1
  <2>3. IsFiniteSet(X)
    BY Single
  <2> HIDE DEF f, X, S
  <2> QED BY <2>1, <2>2, <2>3, Hull
<1>4. IsFiniteSet(E)
  <2> DEFINE f == [i \in H |-> MaskedEnd(es, i)]
             X == {r[2]}
  <2>1. FromImage(E, X, f)
    BY DEF FromImage
  <2>2. IsFiniteSet(DOMAIN f)
    BY <1>1
  <2>3. IsFiniteSet(X)
    BY Single
  <2> HIDE DEF f, X, E
  <2> QED BY <2>1, <2>2, <2>3, Hull
<1>5. r[1] \in S /\ r[2] \in E /\ S \subseteq Int /\ E \subseteq Int
  BY <1>2
<1>6. /\ \A x \in S : x = r[1] \/ \E i \in H : x = MaskedStart(es, i)
      /\ \A x \in E : x = r[2] \/ \E i \in H : x = MaskedEnd(es, i)
  OBVIOUS
<1>7. Spliced(t, es, r, H, new) = (Piece(t, <<a, r[1]>>) \o new) \o Piece(t, <<r[2], b>>)
  BY DEF Spliced
<1> HIDE DEF S, E
<1>8. a \in S /\ b \in E /\ a \in Nat /\ b \in Nat
  BY <1>2, <1>3, <1>4, <1>5, MinMax
<1> HIDE DEF a, b, t
<1>9. a < r[1] => \E i \in 1 .. Len(es) : MaskedStart(es, i) <= a /\ r[1] <= MaskedEnd(es, i)
  <2> SUFFICES ASSUME a < r[1]  PROVE \E i \in 1 .. Len(es) : MaskedStart(es, i) <= a /\ r[1] <= MaskedEnd(es, i)
    OBVIOUS
  <2>1. PICK i \in H : a = MaskedStart(es, i)
    BY <1>6, <1>8
  <2>2. r[1] < MaskedEnd(es, i) /\ MaskedEnd(es, i) \in Nat /\ i \in 1 .. Len(es)
    BY <1>1, <2>1
  <2>3. MaskedStart(es, i) <= a /\ r[1] <= MaskedEnd(es, i)
    BY <1>8, <2>1, <2>2
  <2> QED BY <2>2, <2>3
<1>10. r[2] < b => \E i \in 1 .. Len(es) : MaskedStart(es, i) <= r[2] /\ b <= MaskedEnd(es, i)
  <2> SUFFICES ASSUME r[2] < b  PROVE \E i \in 1 .. Len(es) : MaskedStart(es, i) <= r[2] /\ b <= MaskedEnd(es, i)
    OBVIOUS
  <2>1. PICK i \in H : b = MaskedEnd(es, i)
    BY <1>6, <1>8
  <2>2. MaskedStart(es, i) < r[2] /\ MaskedStart(es, i) \in Nat /\ i \in 1 .. Len(es)
    BY <1>1, <2>1
  <2>3. MaskedStart(es, i) <= r[2] /\ b <= MaskedEnd(es, i)
    BY <1>8, <2>1, <2>2
  <2> QED BY <2>2, <2>3
<1>11. Marks(Piece(t, <<a, r[1]>>))
  BY <1>8, <1>9, CutMarks DEF t
<1>12. Marks(Piece(t, <<r[2], b>>))
  BY <1>8, <1>10, CutMarks DEF t
<1>13. Marks(Spliced(t, es, r, H, new))
  BY <1>7, <1>11, <1>12, MarksJoined
<1> QED BY <1>13 DEF t, H

-----------------------------------------------------------------------------
(* Put leaves the list of a unit good, or the unit not ok.                 *)
LEMMA GrownFurther ==
  ASSUME NEW n \in Nat, NEW a, NEW b, NEW c, Good(a, n), Good(b, n), Good(c, n), Grown(a, b), Grown(b, c)
  PROVE  Grown(a, c)
<1> SUFFICES ASSUME NEW e \in ToSet(a)  PROVE \E g \in ToSet(c) : Within(Extent(e), Extent(g))
  BY DEF Grown
<1>1. PICK f \in ToSet(b) : Within(Extent(e), Extent(f))
  BY DEF Grown
<1>2. PICK g \in ToSet(c) : Within(Extent(f), Extent(g))
  BY DEF Grown
<1>3. /\ e.start \in Nat /\ e.end \in Nat /\ f.start \in Nat /\ f.end \in Nat
      /\ g.start \in Nat /\ g.end \in Nat
  BY GoodApart DEF Apart, EditOK
<1>4. Within(Extent(e), Extent(g))
  BY <1>1, <1>2, <1>3 DEF Within, Extent
<1> QED BY <1>4

IsUnit(u) == u = [edits |-> u.edits, mapper |-> u.mapper, ok |-> u.ok]
SpanOK(s) == s.start \in Nat /\ s.end \in Nat /\ s.start < s.end
Fine(o, u) == IsUnit(u) /\ (u.ok => Good(u.edits, Len(o)))

LEMMA PutGood ==
  ASSUME NEW o, Len(o) \in Nat, NEW u, Fine(o, u), NEW text, NEW s, SpanOK(s)
  PROVE  /\ Fine(o, Put(o, text, u, s)) /\ (Put(o, text, u, s).ok => u.ok)
         /\ Put(o, text, u, s).ok => Grown(u.edits, Put(o, text, u, s).edits)
<1> DEFINE es == u.edits
           r == Extent(s)
           n == Len(o)
           H == HitEdits(es, r)
           left == Untouched(es, r)
           mark == PlaceholderFor(u.mapper, Family(s.type), Surface(text, s))
           edit == Absorbing(o, es, r, mark, s.type, s.source)
           loose == H = {} /\ s.end > Len(Text(o, es))
           stop == ~u.ok \/ loose \/ \E e \in left : Meets(Extent(e), Extent(edit))
           v == Put(o, text, u, s)
<1>1. v = IF stop THEN [u EXCEPT !.ok = FALSE]
          ELSE [edits |-> Sorted(left \cup {edit}), ok |-> TRUE,
                mapper |-> Assigned(u.mapper, Family(s.type), Surface(text, s))]
  BY DEF Put
<1>2. CASE stop
  <2>1. v = [edits |-> u.edits, mapper |-> u.mapper, ok |-> FALSE]
    <3> HIDE DEF v, stop
    <3> QED BY <1>1, <1>2 DEF Fine, IsUnit
  <2> HIDE DEF v, stop, es
  <2>2. IsUnit(v) /\ ~v.ok
    BY <2>1 DEF IsUnit
  <2> QED BY <2>2 DEF Fine, v
<1>3. CASE ~stop
  <2>1. v = [edits |-> Sorted(left \cup {edit}), ok |-> TRUE,
             mapper |-> Assigned(u.mapper, Family(s.type), Surface(text, s))]
    <3> HIDE DEF v, stop, left, edit
    <3> QED BY <1>1, <1>3
  <2>2. u.ok /\ Good(es, n)
    BY <1>3 DEF Fine
  <2>3. ~loose /\ \A e \in left : ~Meets(Extent(e), Extent(edit))
    BY <1>3
  <2>4. r[1] \in Nat /\ r[2] \in Nat /\ r[1] < r[2] /\ r[1] = s.start /\ r[2] = s.end
    BY DEF SpanOK, Extent
  <2> DEFINE w == Whole(es, r, H, Origins(o, es))
             x == Spliced(Text(o, es), es, r, H, mark)
  <2>5. edit = EditOf(w, x, s.type, s.source)
    BY DEF Absorbing
  <2>6. Len(Text(o, es)) \in Nat
    BY <2>2, TextIs
  <2>7. H # {} \/ r[2] <= Len(Text(o, es))
    BY <2>3, <2>4, <2>6
  <2> HIDE DEF es, edit, left, v, mark, r
  <2>8. /\ w[1] \in 0 .. n /\ w[2] \in 0 .. n /\ w[1] < w[2]
        /\ \A i \in H : w[1] <= es[i].start /\ es[i].end <= w[2]
    BY <2>2, <2>4, <2>7, WholeIs
  <2>9. Marks(mark)
    BY PlaceholderMarks DEF mark, PlaceholderFor
  <2>10. Marks(x)
    BY <2>2, <2>4, <2>9, SplicedMarks
  <2> HIDE DEF w, x
  <2>11. EditOK(edit, n)
    BY <2>5, <2>8, <2>10 DEF EditOK, EditOf
  <2>12. Apart(ToSet(es), n)
    BY <2>2, GoodApart
  <2>13. left \in SUBSET ToSet(es)
    BY DEF left, Untouched, ToSet
  <2>14. Apart(left \cup {edit}, n)
    BY <2>3, <2>11, <2>12, <2>13, ApartWith
  <2>15. Good(Sorted(left \cup {edit}), n) /\ ToSet(Sorted(left \cup {edit})) = left \cup {edit}
    BY <2>14, SortedGood
  <2>16. IsUnit(v) /\ v.edits = Sorted(left \cup {edit})
    BY <2>1 DEF IsUnit
  <2>17. Fine(o, v)
    BY <2>15, <2>16 DEF Fine
  <2>18. ASSUME NEW e \in ToSet(es)  PROVE \E f \in ToSet(v.edits) : Within(Extent(e), Extent(f))
    <3>1. PICK i \in DOMAIN es : e = es[i]
      BY DEF ToSet
    <3>2. CASE i \in H
      <4>1. w[1] <= e.start /\ e.end <= w[2] /\ edit.start = w[1] /\ edit.end = w[2]
        BY <2>5, <2>8, <3>1, <3>2 DEF EditOf
      <4>2. Within(Extent(e), Extent(edit))
        BY <4>1 DEF Within, Extent
      <4> QED BY <2>15, <2>16, <4>2
    <3>3. CASE i \notin H
      <4>1. e \in left
        BY <3>1, <3>3 DEF left, Untouched
      <4>2. Within(Extent(e), Extent(e))
        <5>1. e.start \in Nat /\ e.end \in Nat
          BY <2>12 DEF Apart, EditOK
        <5> QED BY <5>1 DEF Within, Extent
      <4> QED BY <2>15, <2>16, <4>1, <4>2
    <3> QED BY <3>2, <3>3
  <2> QED BY <2>2, <2>17, <2>18 DEF v, es, Grown
<1> QED BY <1>2, <1>3

(* So does a pass over the spans of a unit, from right to left.            *)
LEMMA RightIs ==
  ASSUME NEW spans, Listing(spans), \A k \in DOMAIN spans : SpanOK(spans[k])
  PROVE  \A k \in 1 .. Len(spans) : FromRight(spans)[k] \in DOMAIN spans
<1> DEFINE D == DOMAIN spans
           L == {p \in D \X D : \/ spans[p[1]].start > spans[p[2]].start
                                \/ (spans[p[1]].start = spans[p[2]].start /\ p[1] < p[2])}
<1>1. Len(spans) \in Nat /\ D = 1 .. Len(spans)
  BY ListingHas
<1>2. IsFiniteSet(D) /\ Cardinality(D) = Len(spans)
  BY <1>1, FS_Interval
<1>3. \A i, j \in D : <<i, j>> \in L <=> \/ spans[i].start > spans[j].start
                                         \/ (spans[i].start = spans[j].start /\ i < j)
  OBVIOUS
<1>4. \A i \in D : spans[i].start \in Nat /\ i \in Nat
  BY <1>1 DEF SpanOK
<1>5. FromRight(spans) = Ordered(D, L)
  BY DEF FromRight
<1> HIDE DEF D, L
<1>6. Total(D, L)
  BY <1>3, <1>4 DEF Total
<1>7. Ordered(D, L) \in [1 .. Cardinality(D) -> D]
  BY <1>2, <1>6, OrderedIs
<1>8. \A k \in 1 .. Len(spans) : FromRight(spans)[k] \in D
  BY <1>2, <1>5, <1>7
<1> QED BY <1>8 DEF D

LEMMA ApplyGood ==
  ASSUME NEW o, Len(o) \in Nat, NEW u, Fine(o, u),
         NEW spans, Listing(spans), \A k \in DOMAIN spans : SpanOK(spans[k])
  PROVE  /\ Fine(o, ApplyAll(o, u, spans)) /\ (ApplyAll(o, u, spans).ok => u.ok)
         /\ ApplyAll(o, u, spans).ok => Grown(u.edits, ApplyAll(o, u, spans).edits)
<1> DEFINE l == Len(spans)
           f == PutUpTo(o, u, spans)
           Holds(k) == Fine(o, f[k]) /\ (f[k].ok => u.ok /\ Grown(u.edits, f[k].edits))
           T == {k \in Nat : k <= l => Holds(k)}
<1>1. l \in Nat /\ DOMAIN spans = 1 .. l
  BY ListingHas
<1>2. /\ f[0] = u
      /\ \A k \in 1 .. l : f[k] = Put(o, Text(o, u.edits), f[k - 1], spans[FromRight(spans)[k]])
  BY <1>1, PutsAre
<1>3. \A k \in 1 .. l : SpanOK(spans[FromRight(spans)[k]])
  BY RightIs
<1> HIDE DEF f, l
<1>4. 0 \in T
  <2>1. u.ok => Grown(u.edits, u.edits)
    <3> SUFFICES ASSUME u.ok, NEW e \in ToSet(u.edits)  PROVE Within(Extent(e), Extent(e))
      BY DEF Grown
    <3>1. Apart(ToSet(u.edits), Len(o))
      BY GoodApart DEF Fine
    <3>2. e.start \in Nat /\ e.end \in Nat
      BY <3>1 DEF Apart, EditOK
    <3> QED BY <3>2 DEF Within, Extent
  <2> QED BY <1>2, <2>1
<1>5. ASSUME NEW k \in 1 .. l, Holds(k - 1)  PROVE Holds(k)
  <2>1. /\ Fine(o, f[k]) /\ (f[k].ok => f[k - 1].ok)
        /\ f[k].ok => Grown(f[k - 1].edits, f[k].edits)
    BY <1>2, <1>3, <1>5, PutGood
  <2>2. f[k].ok => Grown(u.edits, f[k].edits)
    <3> SUFFICES ASSUME f[k].ok  PROVE Grown(u.edits, f[k].edits)
      OBVIOUS
    <3>1. /\ Grown(u.edits, f[k - 1].edits) /\ Grown(f[k - 1].edits, f[k].edits) /\ u.ok
          /\ f[k - 1].ok
      BY <1>5, <2>1
    <3>2. Good(u.edits, Len(o)) /\ Good(f[k - 1].edits, Len(o)) /\ Good(f[k].edits, Len(o))
      BY <1>5, <2>1, <3>1 DEF Fine
    <3> QED BY <3>1, <3>2, GrownFurther
  <2> QED BY <1>5, <2>1, <2>2
<1> HIDE DEF Holds
<1>6. ASSUME NEW k \in Nat, k \in T  PROVE k + 1 \in T
  <2> SUFFICES ASSUME k + 1 <= l  PROVE Holds(k + 1)
    OBVIOUS
  <2> DEFINE j == k + 1
  <2>1. j \in 1 .. l /\ j - 1 = k /\ Holds(k)
    BY <1>1, <1>6
  <2> HIDE DEF j
  <2>2. Holds(j)
    BY <1>5, <2>1
  <2> QED BY <2>2 DEF j
<1>7. Nat \subseteq T
  <2> HIDE DEF T
  <2> QED BY <1>4, <1>6, Upwards
<1>8. Holds(l)
  BY <1>1, <1>7
<1> QED BY <1>8 DEF Holds, f, l, ApplyAll

-----------------------------------------------------------------------------
(* The occurrences of a term are ranges of the text, with solid ends.      *)
LEMMA FindsSome ==
  ASSUME NEW X, NEW seq \in Seq(X), NEW k \in 0 .. Len(seq)
  PROVE  Finds(seq)[k] \subseteq X
<1> DEFINE l == Len(seq)
           f == Finds(seq)
           T == {i \in Nat : i <= l => f[i] \subseteq X}
<1>1. l \in Nat /\ \A i \in 1 .. l : seq[i] \in X
  OBVIOUS
<1>2. f[0] = {} /\ \A i \in 1 .. l : f[i] = KeepsFirst(seq[i], f[i - 1])
  BY <1>1, FindsIs
<1> HIDE DEF f, l
<1>3. 0 \in T
  BY <1>2
<1>4. ASSUME NEW i \in Nat, i \in T  PROVE i + 1 \in T
  <2> SUFFICES ASSUME i + 1 <= l  PROVE f[i + 1] \subseteq X
    OBVIOUS
  <2> DEFINE j == i + 1
  <2>1. j \in 1 .. l /\ j - 1 = i /\ f[i] \subseteq X
    BY <1>1, <1>4
  <2> HIDE DEF j
  <2>2. f[j] \subseteq X
    <3>1. f[j] = KeepsFirst(seq[j], f[i]) /\ seq[j] \in X
      BY <1>1, <1>2, <2>1
    <3>2. KeepsFirst(seq[j], f[i]) \subseteq f[i] \cup {seq[j]}
      BY DEF KeepsFirst
    <3> QED BY <2>1, <3>1, <3>2
  <2> QED BY <2>2 DEF j
<1>5. Nat \subseteq T
  <2> HIDE DEF T
  <2> QED BY <1>3, <1>4, Upwards
<1> QED BY <1>1, <1>5 DEF f, l

(* Ranges in the order of their starts.                                    *)
LEMMA StartingIs ==
  ASSUME NEW n \in Nat, NEW found, found \subseteq (0 .. n) \X (0 .. n)
  PROVE  LET s == Ordered(found, Starting(found))
         IN /\ IsFiniteSet(found) /\ Cardinality(found) \in Nat
            /\ s \in Seq(found) /\ Len(s) = Cardinality(found)
<1> DEFINE L == Starting(found)
           s == Ordered(found, L)
<1>1. IsFiniteSet(found)
  <2>1. 0 \in Int /\ n \in Int
    OBVIOUS
  <2>2. IsFiniteSet(0 .. n)
    BY <2>1, FS_Interval
  <2>3. IsFiniteSet((0 .. n) \X (0 .. n))
    BY <2>2, FS_Product
  <2> QED BY <2>3, FS_Subset
<1>2. \A r \in found : r[1] \in Int /\ r[2] \in Int /\ r = <<r[1], r[2]>>
  OBVIOUS
<1>3. \A q, r \in found : <<q, r>> \in L <=> q[1] < r[1] \/ (q[1] = r[1] /\ q[2] < r[2])
  BY DEF Starting
<1> HIDE DEF L
<1>4. Total(found, L)
  <2>1. \A q \in found : <<q, q>> \notin L
    BY <1>2, <1>3
  <2>2. \A a, b, c \in found : <<a, b>> \in L /\ <<b, c>> \in L => <<a, c>> \in L
    <3> TAKE a, b, c \in found
    <3>1. a[1] \in Int /\ b[1] \in Int /\ c[1] \in Int /\ a[2] \in Int /\ b[2] \in Int /\ c[2] \in Int
      BY <1>2
    <3> QED BY <1>3, <3>1
  <2>3. \A a, b \in found : a = b \/ <<a, b>> \in L \/ <<b, a>> \in L
    <3> TAKE a, b \in found
    <3>1. a[1] \in Int /\ b[1] \in Int /\ a[2] \in Int /\ b[2] \in Int
      BY <1>2
    <3>2. a[1] = b[1] /\ a[2] = b[2] => a = b
      BY <1>2
    <3> QED BY <1>3, <3>1, <3>2
  <2> QED BY <2>1, <2>2, <2>3 DEF Total
<1>5. s \in Seq(found) /\ Len(s) = Cardinality(found) /\ Cardinality(found) \in Nat
  BY <1>1, <1>4, OrderedIs
<1> QED BY <1>1, <1>5 DEF L

LEMMA FinditerIs ==
  ASSUME NEW n \in Nat, NEW found, found \subseteq (0 .. n) \X (0 .. n)
  PROVE  Finditer(found) \subseteq found /\ IsFiniteSet(found)
<1> DEFINE s == Ordered(found, Starting(found))
<1>1. /\ IsFiniteSet(found) /\ s \in Seq(found)
      /\ Len(s) = Cardinality(found) /\ Cardinality(found) \in Nat
  BY StartingIs
<1>2. Finditer(found) = Finds(s)[Len(s)]
  BY <1>1 DEF Finditer
<1> HIDE DEF s
<1>3. Len(s) \in 0 .. Len(s)
  BY <1>1
<1> QED BY <1>1, <1>2, <1>3, FindsSome

LEMMA TermRangesAre ==
  ASSUME NEW text, Len(text) \in Nat, NEW term
  PROVE  /\ IsFiniteSet(TermRanges(text, term))
         /\ TermRanges(text, term) \subseteq (0 .. Len(text)) \X (0 .. Len(text))
         /\ \A r \in TermRanges(text, term) :
              /\ r = <<r[1], r[2]>> /\ r[1] \in 0 .. Len(text) /\ r[2] \in 0 .. Len(text) /\ r[1] < r[2]
              /\ ~IsSpace(text[r[1] + 1]) /\ ~IsSpace(text[r[2]]) /\ Key(Piece(text, r)) = term
<1> DEFINE n == Len(text)
           found == {r \in (0 .. n) \X (0 .. n) :
                       /\ r[1] < r[2] /\ ~IsSpace(text[r[1] + 1]) /\ ~IsSpace(text[r[2]])
                       /\ Key(Piece(text, r)) = term}
<1>1. TermRanges(text, term) \in {{}, Finditer(found)}
  BY DEF TermRanges
<1>2. found \subseteq (0 .. n) \X (0 .. n)
  OBVIOUS
<1>3. \A r \in found : /\ r = <<r[1], r[2]>> /\ r[1] \in 0 .. n /\ r[2] \in 0 .. n /\ r[1] < r[2]
                       /\ ~IsSpace(text[r[1] + 1]) /\ ~IsSpace(text[r[2]]) /\ Key(Piece(text, r)) = term
  OBVIOUS
<1> HIDE DEF found
<1>4. Finditer(found) \subseteq found /\ IsFiniteSet(found)
  BY <1>2, FinditerIs
<1>5. TermRanges(text, term) \subseteq found
  BY <1>1, <1>4
<1>6. IsFiniteSet(TermRanges(text, term))
  BY <1>4, <1>5, FS_Subset
<1> QED BY <1>2, <1>3, <1>5, <1>6

-----------------------------------------------------------------------------
(* The masks of a unit: ranges of it, numbered, the number naming the      *)
(* family.                                                                 *)
WantedOK(W, n, N, F) ==
  \A w \in W : /\ w[1] \in 0 .. n /\ w[2] \in 0 .. n /\ w[1] < w[2] /\ w[4] \in 1 .. N
               /\ w = <<w[1], w[2], F[w[4]], w[4]>>
LEMMA WantedFinite ==
  ASSUME NEW n \in Nat, NEW N \in Nat, NEW F, NEW W, WantedOK(W, n, N, F)
  PROVE  IsFiniteSet(W)
<1> DEFINE D == ((0 .. n) \X (0 .. n)) \X (1 .. N)
           g == [x \in D |-> <<x[1][1], x[1][2], F[x[2]], x[2]>>]
<1>1. IsFiniteSet(D)
  <2>1. 0 \in Int /\ 1 \in Int /\ n \in Int /\ N \in Int
    OBVIOUS
  <2>2. IsFiniteSet(0 .. n) /\ IsFiniteSet(1 .. N)
    BY <2>1, FS_Interval
  <2>3. IsFiniteSet((0 .. n) \X (0 .. n))
    BY <2>2, FS_Product
  <2> QED BY <2>2, <2>3, FS_Product
<1>2. FromImage(W, {}, g)
  <2> SUFFICES ASSUME NEW w \in W  PROVE \E d \in DOMAIN g : w = g[d]
    BY DEF FromImage
  <2>1. <<<<w[1], w[2]>>, w[4]>> \in D
    BY DEF WantedOK
  <2>2. g[<<<<w[1], w[2]>>, w[4]>>] = <<w[1], w[2], F[w[4]], w[4]>>
    BY <2>1
  <2>3. g[<<<<w[1], w[2]>>, w[4]>>] = w
    BY <2>2 DEF WantedOK
  <2>4. DOMAIN g = D
    OBVIOUS
  <2> QED BY <2>1, <2>3, <2>4
<1>3. IsFiniteSet(DOMAIN g)
  BY <1>1
<1> HIDE DEF g
<1>4. IsFiniteSet({})
  BY FS_EmptySet
<1> QED BY <1>2, <1>3, <1>4, Hull

LEMMA FromLeftIs ==
  ASSUME NEW n \in Nat, NEW N \in Nat, NEW F, NEW W, WantedOK(W, n, N, F)
  PROVE  LET s == FromLeft(W)
         IN /\ s \in Seq(W) /\ Len(s) \in Nat /\ DOMAIN s = 1 .. Len(s)
            /\ \A i \in 1 .. Len(s) : s[i] \in W
            /\ \A w \in W : \E i \in 1 .. Len(s) : s[i] = w
            /\ \A i, j \in 1 .. Len(s) : i <= j => s[i][1] <= s[j][1]
<1> DEFINE L == {p \in W \X W : \/ p[1][1] < p[2][1] \/ (p[1][1] = p[2][1] /\ p[1][2] > p[2][2])
                                \/ (p[1][1] = p[2][1] /\ p[1][2] = p[2][2] /\ p[1][4] < p[2][4])}
           s == FromLeft(W)
<1>1. s = Ordered(W, L)
  BY DEF FromLeft
<1>2. \A v, w \in W : <<v, w>> \in L <=> \/ v[1] < w[1] \/ (v[1] = w[1] /\ v[2] > w[2])
                                        \/ (v[1] = w[1] /\ v[2] = w[2] /\ v[4] < w[4])
  OBVIOUS
<1>3. \A w \in W : w[1] \in Int /\ w[2] \in Int /\ w[4] \in Int
  BY DEF WantedOK
<1> HIDE DEF L, s
<1>4. Total(W, L)
  <2>1. \A a \in W : <<a, a>> \notin L
    BY <1>2, <1>3
  <2>2. \A a, b, c \in W : <<a, b>> \in L /\ <<b, c>> \in L => <<a, c>> \in L
    <3> TAKE a, b, c \in W
    <3>1. /\ a[1] \in Int /\ b[1] \in Int /\ c[1] \in Int /\ a[2] \in Int /\ b[2] \in Int /\ c[2] \in Int
          /\ a[4] \in Int /\ b[4] \in Int /\ c[4] \in Int
      BY <1>3
    <3> QED BY <1>2, <3>1
  <2>3. \A a, b \in W : a = b \/ <<a, b>> \in L \/ <<b, a>> \in L
    <3> TAKE a, b \in W
    <3>1. /\ a[1] \in Int /\ b[1] \in Int /\ a[2] \in Int /\ b[2] \in Int /\ a[4] \in Int /\ b[4] \in Int
      BY <1>3
    <3>2. a[1] = b[1] /\ a[2] = b[2] /\ a[4] = b[4] => a = b
      BY DEF WantedOK
    <3> QED BY <1>2, <3>1, <3>2
  <2> QED BY <2>1, <2>2, <2>3 DEF Total
<1>5. IsFiniteSet(W)
  BY WantedFinite
<1>6. /\ s \in Seq(W) /\ Len(s) = Cardinality(W) /\ Cardinality(W) \in Nat /\ DOMAIN s = 1 .. Len(s)
      /\ \A a \in W : \E k \in 1 .. Len(s) : s[k] = a
      /\ \A i, j \in 1 .. Len(s) : i < j => <<s[i], s[j]>> \in L
      /\ \A i \in 1 .. Len(s) : s[i] \in W
  BY <1>1, <1>4, <1>5, OrderedIs
<1>7. ASSUME NEW i \in 1 .. Len(s), NEW j \in 1 .. Len(s), i <= j  PROVE s[i][1] <= s[j][1]
  <2>1. s[i] \in W /\ s[j] \in W /\ s[i][1] \in Int /\ s[j][1] \in Int
    BY <1>3, <1>6
  <2>2. CASE i = j
    BY <2>1, <2>2
  <2>3. CASE i # j
    <3>1. i < j
      BY <1>6, <1>7, <2>3
    <3>2. <<s[i], s[j]>> \in L
      BY <1>6, <3>1
    <3> QED BY <1>2, <2>1, <3>2
  <2> QED BY <2>2, <2>3
<1> QED BY <1>6, <1>7 DEF s

-----------------------------------------------------------------------------
(* Masks that meet become one: each is inside one of the joint ones.       *)
LEMMA PickedFirst ==
  ASSUME NEW X, NEW q \in Seq(X), NEW S \in SUBSET (DOMAIN q), S # {}
  PROVE  \E i \in S : (\A j \in S : i <= j) /\ Picked(q, S)[1] = q[i] /\ 1 \in DOMAIN Picked(q, S)
<1> DEFINE at == Ascending(S)
           n == Cardinality(S)
<1>1. IsFiniteSet(S) /\ S \subseteq Int
  <2>1. Len(q) \in Nat /\ DOMAIN q = 1 .. Len(q)
    OBVIOUS
  <2>2. IsFiniteSet(1 .. Len(q))
    BY <2>1, FS_Interval
  <2>3. 1 .. Len(q) \subseteq Int
    BY <2>1
  <2> QED BY <2>1, <2>2, <2>3, FS_Subset
<1>2. /\ n \in Nat /\ at \in [1 .. n -> S] /\ DOMAIN at = 1 .. n
      /\ \A a \in S : \E k \in 1 .. n : at[k] = a
      /\ \A i, j \in 1 .. n : i < j => at[i] < at[j]
  BY <1>1, AscendingIs
<1>3. Picked(q, S) = [k \in DOMAIN at |-> q[at[k]]]
  BY DEF Picked
<1> HIDE DEF at, n
<1>4. 1 \in 1 .. n
  <2>1. PICK k \in 1 .. n : TRUE
    BY <1>2
  <2> QED BY <1>2, <2>1
<1>5. \A j \in S : at[1] <= j
  <2> TAKE j \in S
  <2>1. PICK k \in 1 .. n : at[k] = j
    BY <1>2
  <2>2. at[1] \in Int /\ at[k] \in Int
    BY <1>1, <1>2, <1>4
  <2>3. k = 1 \/ 1 < k
    BY <2>1
  <2>4. 1 < k => at[1] < at[k]
    BY <1>2, <1>4
  <2> QED BY <2>1, <2>2, <2>3, <2>4
<1> QED BY <1>2, <1>3, <1>4, <1>5

JointOK(m, n) == m[1] \in 0 .. n /\ m[2] \in 0 .. n /\ m[1] < m[2]
LEMMA JointIs ==
  ASSUME NEW n \in Nat, NEW W, \A w \in W : w[1] \in 0 .. n /\ w[2] \in 0 .. n /\ w[1] < w[2],
         NEW g \in Seq(W), 1 \in DOMAIN g, NEW i
  PROVE  /\ JointOK(Joint(g, i), n) /\ Joint(g, i)[1] = g[1][1]
         /\ \A k \in DOMAIN g : g[k][2] <= Joint(g, i)[2]
<1> DEFINE E == {g[k][2] : k \in DOMAIN g}
           m == Joint(g, i)
<1>1. m[1] = g[1][1] /\ m[2] = Max(E)
  BY DEF Joint
<1>2. \A k \in DOMAIN g : g[k] \in W
  OBVIOUS
<1>3. E \subseteq 0 .. n /\ g[1][2] \in E /\ \A k \in DOMAIN g : g[k][2] \in E
  BY <1>2
<1> HIDE DEF E, m
<1>4. IsFiniteSet(E) /\ E \subseteq Int
  <2>1. 0 \in Int /\ n \in Int
    OBVIOUS
  <2>2. IsFiniteSet(0 .. n) /\ 0 .. n \subseteq Int
    BY <2>1, FS_Interval
  <2> QED BY <1>3, <2>2, FS_Subset
<1>5. Max(E) \in E /\ \A x \in E : x <= Max(E)
  BY <1>3, <1>4, MinMax
<1>6. g[1][1] \in 0 .. n /\ g[1][2] \in 0 .. n /\ g[1][1] < g[1][2]
  BY <1>2
<1>7. Max(E) \in 0 .. n /\ g[1][2] <= Max(E)
  BY <1>3, <1>5
<1>8. g[1][1] < Max(E)
  <2> DEFINE x == Max(E)
             y == g[1][2]
             z == g[1][1]
  <2>1. x \in 0 .. n /\ y \in 0 .. n /\ z \in 0 .. n /\ y <= x /\ z < y
    BY <1>6, <1>7
  <2> HIDE DEF x, y, z
  <2>2. z < x
    BY <2>1
  <2> QED BY <2>2 DEF x, z
<1>9. JointOK(m, n)
  BY <1>1, <1>6, <1>7, <1>8 DEF JointOK
<1> QED BY <1>1, <1>3, <1>5, <1>9 DEF m

LEMMA JointsAre ==
  ASSUME NEW n \in Nat, NEW N \in Nat, NEW F, NEW W, WantedOK(W, n, N, F)
  PROVE  LET js == Merged(W)
         IN /\ Len(js) \in Nat /\ DOMAIN js = 1 .. Len(js)
            /\ \A i \in DOMAIN js : JointOK(js[i], n)
            /\ \A w \in W : \E i \in DOMAIN js : Within(w, js[i])
<1> DEFINE s == FromLeft(W)
           opens == {k \in DOMAIN s : \A j \in 1 .. k - 1 : s[j][2] <= s[k][1]}
           first == Ascending(opens)
           At(m) == {k \in DOMAIN s : m <= k /\ opens \cap (m + 1) .. k = {}}
           Group(m) == Picked(s, At(m))
           js == Merged(W)
<1>1. /\ s \in Seq(W) /\ Len(s) \in Nat /\ DOMAIN s = 1 .. Len(s)
      /\ \A i \in 1 .. Len(s) : s[i] \in W
      /\ \A w \in W : \E i \in 1 .. Len(s) : s[i] = w
      /\ \A i, j \in 1 .. Len(s) : i <= j => s[i][1] <= s[j][1]
  BY FromLeftIs
<1>2. js = [i \in DOMAIN first |-> Joint(Group(first[i]), i)]
  BY DEF Merged
<1>3. opens \subseteq 1 .. Len(s)
  BY <1>1
<1>4. 1 .. Len(s) # {} => 1 \in opens
  BY <1>1
<1>5. \A w \in W : w[1] \in 0 .. n /\ w[2] \in 0 .. n /\ w[1] < w[2]
  BY DEF WantedOK
<1>6. \A m : At(m) \in SUBSET (DOMAIN s) /\ \A k : k \in At(m) <=> /\ k \in DOMAIN s /\ m <= k
                                                                 /\ opens \cap (m + 1) .. k = {}
  OBVIOUS
<1> HIDE DEF s, opens, At
<1>7. IsFiniteSet(opens) /\ opens \subseteq Int
  <2>1. 1 \in Int /\ Len(s) \in Int
    BY <1>1
  <2>2. IsFiniteSet(1 .. Len(s)) /\ 1 .. Len(s) \subseteq Int
    BY <2>1, FS_Interval
  <2> QED BY <1>3, <2>2, FS_Subset
<1>8. /\ first \in Seq(opens) /\ Len(first) \in Nat /\ DOMAIN first = 1 .. Len(first)
      /\ \A i \in DOMAIN first : first[i] \in opens
      /\ \A m \in opens : \E i \in DOMAIN first : first[i] = m
  BY <1>7, AscendingIs
<1> HIDE DEF first
<1>9. \A m \in opens : m \in At(m)
  <2> TAKE m \in opens
  <2>1. m \in Int /\ m \in DOMAIN s /\ (m + 1) .. m = {}
    BY <1>1, <1>3, <1>7
  <2>2. m <= m
    BY <2>1
  <2> QED BY <1>6, <2>1, <2>2
<1>10. ASSUME NEW m \in opens
       PROVE  /\ Group(m) \in Seq(W) /\ 1 \in DOMAIN Group(m)
              /\ \A k \in At(m) : /\ Group(m)[1][1] <= s[k][1]
                                  /\ \E j \in DOMAIN Group(m) : Group(m)[j] = s[k]
  <2> DEFINE S == At(m)
             g == Picked(s, S)
  <2>1. S \in SUBSET (DOMAIN s) /\ S # {}
    BY <1>6, <1>9
  <2> HIDE DEF S
  <2>2. g \in Seq(W) /\ \A i \in S : \E k \in DOMAIN g : g[k] = s[i]
    BY <1>1, <2>1, PickedIs
  <2>3. PICK i \in S : (\A j \in S : i <= j) /\ g[1] = s[i] /\ 1 \in DOMAIN g
    BY <1>1, <2>1, PickedFirst
  <2> HIDE DEF g
  <2>4. \A k \in S : g[1][1] <= s[k][1]
    BY <1>1, <2>1, <2>3
  <2> QED BY <2>2, <2>3, <2>4 DEF g, S
<1> HIDE DEF Group
<1>11. ASSUME NEW i \in DOMAIN first
       PROVE  /\ JointOK(Joint(Group(first[i]), i), n)
              /\ Joint(Group(first[i]), i)[1] = Group(first[i])[1][1]
              /\ \A k \in DOMAIN Group(first[i]) : Group(first[i])[k][2] <= Joint(Group(first[i]), i)[2]
  <2> DEFINE g == Group(first[i])
  <2>1. g \in Seq(W) /\ 1 \in DOMAIN g
    BY <1>8, <1>10
  <2> HIDE DEF g
  <2>2. JointOK(Joint(g, i), n) /\ Joint(g, i)[1] = g[1][1] /\ \A k \in DOMAIN g : g[k][2] <= Joint(g, i)[2]
    BY <1>5, <2>1, JointIs
  <2> QED BY <2>2 DEF g
<1>12. DOMAIN js = DOMAIN first /\ \A i \in DOMAIN first : js[i] = Joint(Group(first[i]), i)
  BY <1>2
<1> HIDE DEF js
<1>13. Len(js) \in Nat /\ DOMAIN js = 1 .. Len(js)
  <2> DEFINE d == Len(first)
             X == {js[i] : i \in 1 .. d}
  <2>1. d \in Nat /\ DOMAIN js = 1 .. d
    BY <1>8, <1>12
  <2>2. js = [i \in 1 .. d |-> js[i]]
    BY <1>2, <2>1 DEF js
  <2> HIDE DEF d
  <2>3. Listing(js) /\ Len(js) = d
    BY <2>1, <2>2, Listed
  <2> QED BY <2>1, <2>3
<1>14. ASSUME NEW w \in W  PROVE \E i \in DOMAIN js : Within(w, js[i])
  <2>1. PICK k \in 1 .. Len(s) : s[k] = w
    BY <1>1
  <2> DEFINE S == {x \in opens : x <= k}
             m == Max(S)
  <2>2. IsFiniteSet(S) /\ S \subseteq Int
    BY <1>7, FS_Subset
  <2>3. 1 \in S
    BY <1>1, <1>4, <2>1
  <2>4. m \in S /\ \A x \in S : x <= m
    <3> HIDE DEF S
    <3> QED BY <2>2, <2>3, MinMax
  <2>5. m \in opens /\ m <= k /\ \A x \in opens : x <= k => x <= m
    BY <2>4
  <2> HIDE DEF S, m
  <2>6. k \in At(m)
    <3>1. opens \cap (m + 1) .. k = {}
      <4> SUFFICES ASSUME NEW x \in opens, x \in (m + 1) .. k  PROVE FALSE
        OBVIOUS
      <4>1. x <= m /\ m \in Int /\ x \in Int /\ m + 1 <= x
        BY <1>7, <2>5
      <4> QED BY <4>1
    <3> QED BY <1>1, <1>6, <2>5, <3>1
  <2>7. PICK i \in DOMAIN first : first[i] = m
    BY <1>8, <2>5
  <2>8. Group(m)[1][1] <= w[1] /\ \E j \in DOMAIN Group(m) : Group(m)[j] = w
    BY <1>10, <2>1, <2>5, <2>6
  <2>9. js[i] = Joint(Group(m), i) /\ i \in DOMAIN js
    BY <1>12, <2>7
  <2>10. js[i][1] <= w[1] /\ w[2] <= js[i][2]
    BY <1>11, <2>7, <2>8, <2>9
  <2> QED BY <2>9, <2>10 DEF Within
<1>15. \A i \in DOMAIN js : JointOK(js[i], n)
  BY <1>11, <1>12
<1> QED BY <1>13, <1>14, <1>15 DEF js

-----------------------------------------------------------------------------
(* The reviewer's masks in a unit: none is lost, and the list stays good.  *)
Under(r, es) == \E e \in ToSet(es) : Within(r, Extent(e))

LEMMA UnderGrown ==
  ASSUME NEW n \in Nat, NEW es, NEW fs, Good(es, n), Good(fs, n), Grown(es, fs),
         NEW r, r[1] \in Int, r[2] \in Int, Under(r, es)
  PROVE  Under(r, fs)
<1>1. PICK e \in ToSet(es) : Within(r, Extent(e))
  BY DEF Under
<1>2. PICK f \in ToSet(fs) : Within(Extent(e), Extent(f))
  BY DEF Grown
<1>3. e.start \in Nat /\ e.end \in Nat /\ f.start \in Nat /\ f.end \in Nat
  BY GoodApart DEF Apart, EditOK
<1>4. Within(r, Extent(f))
  BY <1>1, <1>2, <1>3 DEF Within, Extent
<1> QED BY <1>4 DEF Under

LEMMA GrownSame ==
  ASSUME NEW n \in Nat, NEW es, Good(es, n)
  PROVE  Grown(es, es)
<1> SUFFICES ASSUME NEW e \in ToSet(es)  PROVE Within(Extent(e), Extent(e))
  BY DEF Grown
<1>1. e.start \in Nat /\ e.end \in Nat
  BY GoodApart DEF Apart, EditOK
<1> QED BY <1>1 DEF Within, Extent

LEMMA ForcedGood ==
  ASSUME NEW o, Len(o) \in Nat, NEW u, Fine(o, u), NEW w, JointOK(w, Len(o))
  PROVE  LET v == Forced(o, u, w)
         IN /\ Fine(o, v) /\ v.ok = u.ok
            /\ u.ok => Grown(u.edits, v.edits) /\ Under(w, v.edits)
<1> DEFINE n == Len(o)
           es == u.edits
           x == <<w[1], w[2]>>
           r == Union(es, x)
           mark == PlaceholderFor(u.mapper, w[3], Piece(o, r))
           fs == ForceOriginal(es, r, mark, UserType(w[3]), "user")
           v == Forced(o, u, w)
<1>1. v = [edits |-> fs, mapper |-> Assigned(u.mapper, w[3], Piece(o, r)), ok |-> u.ok]
  <2> DEFINE mp == Assigned(u.mapper, w[3], Piece(o, r))
  <2>1. v = [u EXCEPT !.edits = fs, !.mapper = mp]
    BY DEF Forced
  <2>2. u = [edits |-> u.edits, mapper |-> u.mapper, ok |-> u.ok]
    BY DEF Fine, IsUnit
  <2> HIDE DEF fs, mp, v
  <2>3. v = [edits |-> fs, mapper |-> mp, ok |-> u.ok]
    BY <2>1, <2>2
  <2> QED BY <2>3 DEF mp
<1>2. IsUnit(v) /\ v.edits = fs /\ v.ok = u.ok
  BY <1>1 DEF IsUnit
<1> HIDE DEF v
<1>3. ASSUME u.ok  PROVE Good(fs, n) /\ Grown(es, fs) /\ Under(w, fs)
  <2>1. Good(es, n)
    BY <1>3 DEF Fine
  <2>2. x[1] \in 0 .. n /\ x[2] \in 0 .. n /\ x[1] < x[2] /\ x[1] = w[1] /\ x[2] = w[2]
    BY DEF JointOK
  <2> HIDE DEF x, es
  <2>3. r[1] \in 0 .. n /\ r[2] \in 0 .. n /\ r[1] <= x[1] /\ x[2] <= r[2] /\ r[1] < r[2]
    BY <2>1, <2>2, UnionIs
  <2>4. Marks(mark)
    BY PlaceholderMarks DEF PlaceholderFor
  <2> HIDE DEF r, mark
  <2>5. Good(fs, n) /\ Grown(es, fs) /\ \E e \in ToSet(fs) : Within(r, Extent(e))
    BY <2>1, <2>3, <2>4, ForceGood
  <2> HIDE DEF fs
  <2>6. PICK e \in ToSet(fs) : Within(r, Extent(e))
    BY <2>5
  <2>7. e.start \in Nat /\ e.end \in Nat
    BY <2>5, GoodApart DEF Apart, EditOK
  <2>8. Within(w, Extent(e))
    BY <2>2, <2>3, <2>6, <2>7 DEF Within, Extent
  <2> QED BY <2>5, <2>8 DEF Under
<1>4. Fine(o, v)
  BY <1>2, <1>3 DEF Fine
<1> QED BY <1>2, <1>3, <1>4 DEF v

(* All of them: the joint masks one after another.                         *)
LEMMA ForcedAll ==
  ASSUME NEW o, Len(o) \in Nat, NEW u, Fine(o, u), NEW js, Len(js) \in Nat, DOMAIN js = 1 .. Len(js),
         \A i \in DOMAIN js : JointOK(js[i], Len(o))
  PROVE  LET v == ForcedUpTo(o, u, js)[Len(js)]
         IN /\ Fine(o, v) /\ v.ok = u.ok
            /\ u.ok => Grown(u.edits, v.edits) /\ \A i \in DOMAIN js : Under(js[i], v.edits)
<1> DEFINE n == Len(o)
           l == Len(js)
           f == ForcedUpTo(o, u, js)
           Holds(k) == /\ Fine(o, f[k]) /\ f[k].ok = u.ok
                       /\ u.ok => Grown(u.edits, f[k].edits) /\ \A i \in 1 .. k : Under(js[i], f[k].edits)
           T == {k \in Nat : k <= l => Holds(k)}
<1>1. f[0] = u /\ \A k \in 1 .. l : f[k] = Forced(o, f[k - 1], js[k])
  BY ForcedIs
<1> HIDE DEF f, l
<1>2. 0 \in T
  <2>1. u.ok => Grown(u.edits, u.edits)
    BY GrownSame DEF Fine
  <2> QED BY <1>1, <2>1
<1>3. ASSUME NEW k \in 1 .. l, Holds(k - 1)  PROVE Holds(k)
  <2>1. l \in Nat /\ JointOK(js[k], n)
    BY DEF l
  <2> DEFINE a == f[k - 1]
             b == f[k]
  <2>2. Fine(o, a) /\ a.ok = u.ok /\ b = Forced(o, a, js[k])
    BY <1>1, <1>3
  <2>3. u.ok => Grown(u.edits, a.edits) /\ \A i \in 1 .. k - 1 : Under(js[i], a.edits)
    BY <1>3
  <2> HIDE DEF a, b
  <2>4. Fine(o, b) /\ b.ok = a.ok /\ (a.ok => Grown(a.edits, b.edits) /\ Under(js[k], b.edits))
    BY <2>1, <2>2, ForcedGood
  <2>5. ASSUME u.ok  PROVE Grown(u.edits, b.edits) /\ \A i \in 1 .. k : Under(js[i], b.edits)
    <3>1. Good(u.edits, n) /\ Good(a.edits, n) /\ Good(b.edits, n)
      BY <2>2, <2>4, <2>5 DEF Fine
    <3>2. Grown(u.edits, b.edits)
      BY <2>2, <2>3, <2>4, <2>5, <3>1, GrownFurther
    <3>3. ASSUME NEW i \in 1 .. k  PROVE Under(js[i], b.edits)
      <4>1. CASE i = k
        BY <2>2, <2>4, <2>5, <4>1
      <4>2. CASE i # k
        <5>1. i \in 1 .. k - 1 /\ i \in DOMAIN js
          BY <2>1, <4>2 DEF l
        <5>2. Under(js[i], a.edits) /\ js[i][1] \in Int /\ js[i][2] \in Int
          BY <2>3, <2>5, <5>1 DEF JointOK
        <5>3. Grown(a.edits, b.edits)
          BY <2>2, <2>4, <2>5
        <5> QED BY <3>1, <5>2, <5>3, UnderGrown
      <4> QED BY <4>1, <4>2
    <3> QED BY <3>2, <3>3
  <2> QED BY <2>2, <2>4, <2>5 DEF b
<1> HIDE DEF Holds
<1>4. ASSUME NEW k \in Nat, k \in T  PROVE k + 1 \in T
  <2> SUFFICES ASSUME k + 1 <= l  PROVE Holds(k + 1)
    OBVIOUS
  <2> DEFINE j == k + 1
  <2>1. j \in 1 .. l /\ j - 1 = k /\ Holds(k)
    BY <1>4 DEF l
  <2> HIDE DEF j
  <2>2. Holds(j)
    BY <1>3, <2>1
  <2> QED BY <2>2 DEF j
<1>5. Nat \subseteq T
  <2> HIDE DEF T
  <2> QED BY <1>2, <1>4, Upwards
<1>6. l \in Nat /\ l <= l
  BY DEF l
<1>7. Holds(l)
  BY <1>5, <1>6
<1> QED BY <1>7 DEF Holds, f, l

(* What the decisions want in a unit.                                      *)
MasksOK(masks) == Listing(masks) /\ \A k \in DOMAIN masks : masks[k][1] \in Int /\ masks[k][2] \in Int
LEMMA WantedIs ==
  ASSUME NEW o, Len(o) \in Nat, NEW masks, MasksOK(masks), NEW terms, Listing(terms), NEW keep
  PROVE  /\ \E N \in Nat : \E F : WantedOK(Wanted(o, masks, terms, keep), Len(o), N, F)
         /\ \A k \in DOMAIN masks :
              JointOK(masks[k], Len(o)) =>
                \E w \in Wanted(o, masks, terms, keep) : w[1] = masks[k][1] /\ w[2] = masks[k][2]
         /\ \A k \in DOMAIN terms : \A r \in TermRanges(o, terms[k][1]) :
              Contained(r, keep)
                \/ \E w \in Wanted(o, masks, terms, keep) : w[1] = r[1] /\ w[2] = r[2]
<1> DEFINE n == Len(o)
           m == Len(masks)
           l == Len(terms)
           N == m + l
           F == [k \in 1 .. N |-> IF k <= m THEN masks[k][3] ELSE terms[k - m][2]]
           A == {<<masks[k][1], masks[k][2], masks[k][3], k>> :
                   k \in {i \in DOMAIN masks : /\ 0 <= masks[i][1] /\ masks[i][1] < masks[i][2]
                                               /\ masks[i][2] <= n}}
           Of(k) == {<<r[1], r[2], terms[k][2], m + k>> :
                       r \in {q \in TermRanges(o, terms[k][1]) : ~Contained(q, keep)}}
           B == UNION {Of(k) : k \in DOMAIN terms}
           W == Wanted(o, masks, terms, keep)
<1>1. W = A \cup B
  BY DEF Wanted
<1>2. m \in Nat /\ DOMAIN masks = 1 .. m /\ l \in Nat /\ DOMAIN terms = 1 .. l /\ N \in Nat
  BY ListingHas DEF MasksOK
<1> HIDE DEF W, m, l
<1>3. ASSUME NEW w \in A
      PROVE  /\ w[1] \in 0 .. n /\ w[2] \in 0 .. n /\ w[1] < w[2] /\ w[4] \in 1 .. N
             /\ w = <<w[1], w[2], F[w[4]], w[4]>>
  <2>1. PICK k \in DOMAIN masks : /\ w = <<masks[k][1], masks[k][2], masks[k][3], k>>
                                  /\ 0 <= masks[k][1] /\ masks[k][1] < masks[k][2] /\ masks[k][2] <= n
    OBVIOUS
  <2>2. masks[k][1] \in Int /\ masks[k][2] \in Int
    BY DEF MasksOK
  <2>3. k \in 1 .. N /\ k <= m
    BY <1>2
  <2>4. F[k] = masks[k][3]
    BY <2>3
  <2> HIDE DEF F, N
  <2>5. w[1] = masks[k][1] /\ w[2] = masks[k][2] /\ w[4] = k
    BY <2>1
  <2> QED BY <2>1, <2>2, <2>3, <2>4, <2>5
<1>4. ASSUME NEW w \in B
      PROVE  /\ w[1] \in 0 .. n /\ w[2] \in 0 .. n /\ w[1] < w[2] /\ w[4] \in 1 .. N
             /\ w = <<w[1], w[2], F[w[4]], w[4]>>
  <2>0. PICK k \in DOMAIN terms : w \in Of(k)
    OBVIOUS
  <2>1. PICK r \in TermRanges(o, terms[k][1]) : w = <<r[1], r[2], terms[k][2], m + k>>
    BY <2>0
  <2>2. r[1] \in 0 .. n /\ r[2] \in 0 .. n /\ r[1] < r[2]
    BY TermRangesAre
  <2>3. m + k \in 1 .. N /\ ~(m + k <= m) /\ m + k - m = k
    BY <1>2
  <2>4. F[m + k] = terms[k][2]
    <3>0. PICK x \in 1 .. N : x = m + k
      BY <2>3
    <3>1. ~(x <= m) /\ x - m = k
      BY <1>2, <3>0
    <3>2. F[x] = terms[x - m][2]
      BY <3>1
    <3> QED BY <3>0, <3>1, <3>2
  <2> HIDE DEF F, N
  <2>5. w[1] = r[1] /\ w[2] = r[2] /\ w[4] = m + k
    BY <2>1
  <2> QED BY <2>1, <2>2, <2>3, <2>4, <2>5
<1>5. WantedOK(W, n, N, F)
  <2> HIDE DEF A, B, F, N
  <2> QED BY <1>1, <1>3, <1>4 DEF WantedOK
<1>6. ASSUME NEW k \in DOMAIN masks, JointOK(masks[k], n)
      PROVE  \E w \in W : w[1] = masks[k][1] /\ w[2] = masks[k][2]
  <2> DEFINE w == <<masks[k][1], masks[k][2], masks[k][3], k>>
  <2>1. w \in A
    BY <1>6 DEF JointOK
  <2>2. w[1] = masks[k][1] /\ w[2] = masks[k][2]
    OBVIOUS
  <2> HIDE DEF w, A
  <2> QED BY <1>1, <2>1, <2>2
<1>7. ASSUME NEW k \in DOMAIN terms, NEW r \in TermRanges(o, terms[k][1]), ~Contained(r, keep)
      PROVE  \E w \in W : w[1] = r[1] /\ w[2] = r[2]
  <2> DEFINE w == <<r[1], r[2], terms[k][2], m + k>>
  <2>1. w \in Of(k)
    BY <1>7
  <2>2. w \in B
    BY <2>1
  <2>3. w[1] = r[1] /\ w[2] = r[2]
    OBVIOUS
  <2> HIDE DEF w, A, B
  <2> QED BY <1>1, <2>2, <2>3
<1> HIDE DEF F, N
<1> QED BY <1>2, <1>5, <1>6, <1>7 DEF W

LEMMA ApplyForcedGood ==
  ASSUME NEW o, Len(o) \in Nat, NEW u, Fine(o, u), NEW masks, MasksOK(masks),
         NEW terms, Listing(terms), NEW keep
  PROVE  LET v == ApplyForced(o, u, masks, terms, keep)
         IN /\ Fine(o, v) /\ v.ok = u.ok
            /\ u.ok => /\ Grown(u.edits, v.edits)
                       /\ \A k \in DOMAIN masks : JointOK(masks[k], Len(o)) => Under(masks[k], v.edits)
                       /\ \A k \in DOMAIN terms : \A r \in TermRanges(o, terms[k][1]) :
                            Contained(r, keep) \/ Under(r, v.edits)
<1> DEFINE n == Len(o)
           W == Wanted(o, masks, terms, keep)
           js == Merged(W)
           v == ApplyForced(o, u, masks, terms, keep)
<1>1. PICK N \in Nat : \E F : WantedOK(W, n, N, F)
  BY WantedIs
<1>2. PICK F : WantedOK(W, n, N, F)
  BY <1>1
<1>3. /\ \A k \in DOMAIN masks :
           JointOK(masks[k], n) => \E w \in W : w[1] = masks[k][1] /\ w[2] = masks[k][2]
      /\ \A k \in DOMAIN terms : \A r \in TermRanges(o, terms[k][1]) :
           Contained(r, keep) \/ \E w \in W : w[1] = r[1] /\ w[2] = r[2]
  BY WantedIs
<1>4. v = ForcedUpTo(o, u, js)[Len(js)]
  BY DEF ApplyForced
<1> HIDE DEF W, v
<1>5. /\ Len(js) \in Nat /\ DOMAIN js = 1 .. Len(js)
      /\ \A i \in DOMAIN js : JointOK(js[i], n)
      /\ \A w \in W : \E i \in DOMAIN js : Within(w, js[i])
  BY <1>2, JointsAre
<1> HIDE DEF js
<1>6. /\ Fine(o, v) /\ v.ok = u.ok
      /\ u.ok => Grown(u.edits, v.edits) /\ \A i \in DOMAIN js : Under(js[i], v.edits)
  BY <1>4, <1>5, ForcedAll
<1>7. ASSUME u.ok, NEW r, r[1] \in Int, r[2] \in Int, NEW w \in W, w[1] = r[1], w[2] = r[2]
      PROVE  Under(r, v.edits)
  <2>1. PICK i \in DOMAIN js : Within(w, js[i])
    BY <1>5
  <2>2. PICK e \in ToSet(v.edits) : Within(js[i], Extent(e))
    BY <1>6, <1>7 DEF Under
  <2>3. Good(v.edits, n)
    BY <1>6, <1>7 DEF Fine
  <2>4. e.start \in Nat /\ e.end \in Nat /\ js[i][1] \in Int /\ js[i][2] \in Int
    BY <1>5, <2>3, GoodApart DEF Apart, EditOK, JointOK
  <2>5. Within(r, Extent(e))
    BY <1>7, <2>1, <2>2, <2>4 DEF Within, Extent
  <2> QED BY <2>5 DEF Under
<1>8. ASSUME u.ok, NEW k \in DOMAIN masks, JointOK(masks[k], n)  PROVE Under(masks[k], v.edits)
  <2>1. PICK w \in W : w[1] = masks[k][1] /\ w[2] = masks[k][2]
    BY <1>3, <1>8
  <2>2. masks[k][1] \in Int /\ masks[k][2] \in Int
    BY DEF MasksOK
  <2> QED BY <1>7, <1>8, <2>1, <2>2
<1>9. ASSUME u.ok, NEW k \in DOMAIN terms, NEW r \in TermRanges(o, terms[k][1]), ~Contained(r, keep)
      PROVE  Under(r, v.edits)
  <2>1. PICK w \in W : w[1] = r[1] /\ w[2] = r[2]
    BY <1>3, <1>9
  <2>2. r[1] \in Int /\ r[2] \in Int
    BY TermRangesAre
  <2> QED BY <1>7, <1>9, <2>1, <2>2
<1> QED BY <1>6, <1>8, <1>9 DEF v

-----------------------------------------------------------------------------
(* Detection: the order of priority is total on what is detected.          *)
Ranked(p) == \A i \in 1 .. 6 : p[i] \in Int
Under6(p, q) == p[6] < q[6]
Under5(p, q) == p[5] < q[5] \/ (p[5] = q[5] /\ Under6(p, q))
Under4(p, q) == p[4] < q[4] \/ (p[4] = q[4] /\ Under5(p, q))
Under3(p, q) == p[3] < q[3] \/ (p[3] = q[3] /\ Under4(p, q))
Under2(p, q) == p[2] < q[2] \/ (p[2] = q[2] /\ Under3(p, q))
Under1(p, q) == p[1] < q[1] \/ (p[1] = q[1] /\ Under2(p, q))
LEMMA LessIs ==
  ASSUME NEW p, NEW q
  PROVE  Less(p, q) <=> Under1(p, q)
<1> DEFINE Upto(i) == p[i] < q[i] /\ \A j \in 1 .. i - 1 : p[j] = q[j]
<1>1. 1 .. 6 = {1, 2, 3, 4, 5, 6}
  OBVIOUS
<1>2. Less(p, q) <=> \E i \in {1, 2, 3, 4, 5, 6} : Upto(i)
  BY <1>1 DEF Less
<1>3. /\ 1 .. 1 - 1 = {} /\ 1 .. 2 - 1 = {1} /\ 1 .. 3 - 1 = {1, 2} /\ 1 .. 4 - 1 = {1, 2, 3}
      /\ 1 .. 5 - 1 = {1, 2, 3, 4} /\ 1 .. 6 - 1 = {1, 2, 3, 4, 5}
  OBVIOUS
<1>4. /\ Upto(1) <=> p[1] < q[1]
      /\ Upto(2) <=> p[1] = q[1] /\ p[2] < q[2]
      /\ Upto(3) <=> p[1] = q[1] /\ p[2] = q[2] /\ p[3] < q[3]
      /\ Upto(4) <=> p[1] = q[1] /\ p[2] = q[2] /\ p[3] = q[3] /\ p[4] < q[4]
      /\ Upto(5) <=> p[1] = q[1] /\ p[2] = q[2] /\ p[3] = q[3] /\ p[4] = q[4] /\ p[5] < q[5]
      /\ Upto(6) <=> /\ p[1] = q[1] /\ p[2] = q[2] /\ p[3] = q[3] /\ p[4] = q[4] /\ p[5] = q[5]
                     /\ p[6] < q[6]
  BY <1>3
<1>5. Less(p, q) <=> Upto(1) \/ Upto(2) \/ Upto(3) \/ Upto(4) \/ Upto(5) \/ Upto(6)
  BY <1>2
<1> HIDE DEF Upto
<1> QED BY <1>4, <1>5, Zenon DEF Under1, Under2, Under3, Under4, Under5, Under6

LEMMA LevelBelow ==
  ASSUME NEW a \in Int, NEW b \in Int, NEW c \in Int
  PROVE  /\ ~(a < a)
         /\ a < b /\ b < c => a < c
         /\ a < b /\ b = c => a < c
         /\ a = b /\ b < c => a < c
         /\ a < b \/ b < a \/ a = b
OBVIOUS

LEMMA LessTotal ==
  /\ \A p : Ranked(p) => ~Less(p, p)
  /\ \A p, q, r : Ranked(p) /\ Ranked(q) /\ Ranked(r) /\ Less(p, q) /\ Less(q, r) => Less(p, r)
  /\ \A p, q : Ranked(p) /\ Ranked(q) => \/ Less(p, q) \/ Less(q, p)
                                         \/ \A i \in {1, 2, 3, 4, 5, 6} : p[i] = q[i]
<1>1. ASSUME NEW p, Ranked(p)
      PROVE  \A i \in {1, 2, 3, 4, 5, 6} : p[i] \in Int
  BY <1>1 DEF Ranked
<1>2. ASSUME NEW p, Ranked(p)  PROVE ~Less(p, p)
  <2>1. /\ ~(p[1] < p[1]) /\ ~(p[2] < p[2]) /\ ~(p[3] < p[3]) /\ ~(p[4] < p[4]) /\ ~(p[5] < p[5]) /\ ~(p[6] < p[6])
    BY <1>1, <1>2, LevelBelow
  <2> QED BY <2>1, LessIs, Zenon DEF Under1, Under2, Under3, Under4, Under5, Under6
<1>3. ASSUME NEW p, NEW q, NEW r, Ranked(p), Ranked(q), Ranked(r), Less(p, q), Less(q, r)
      PROVE  Less(p, r)
  <2>1. /\ \A i \in {1, 2, 3, 4, 5, 6} : p[i] \in Int
        /\ \A i \in {1, 2, 3, 4, 5, 6} : q[i] \in Int
        /\ \A i \in {1, 2, 3, 4, 5, 6} : r[i] \in Int
    BY <1>1, <1>3
  <2>2. Under6(p, q) /\ Under6(q, r) => Under6(p, r)
    BY <2>1, LevelBelow DEF Under6
  <2>3. Under5(p, q) /\ Under5(q, r) => Under5(p, r)
    <3>1. p[5] \in Int /\ q[5] \in Int /\ r[5] \in Int
      BY <2>1
    <3> QED BY <3>1, <2>2, LevelBelow DEF Under5
  <2>4. Under4(p, q) /\ Under4(q, r) => Under4(p, r)
    <3>1. p[4] \in Int /\ q[4] \in Int /\ r[4] \in Int
      BY <2>1
    <3> QED BY <3>1, <2>3, LevelBelow DEF Under4
  <2>5. Under3(p, q) /\ Under3(q, r) => Under3(p, r)
    <3>1. p[3] \in Int /\ q[3] \in Int /\ r[3] \in Int
      BY <2>1
    <3> QED BY <3>1, <2>4, LevelBelow DEF Under3
  <2>6. Under2(p, q) /\ Under2(q, r) => Under2(p, r)
    <3>1. p[2] \in Int /\ q[2] \in Int /\ r[2] \in Int
      BY <2>1
    <3> QED BY <3>1, <2>5, LevelBelow DEF Under2
  <2>7. Under1(p, q) /\ Under1(q, r) => Under1(p, r)
    <3>1. p[1] \in Int /\ q[1] \in Int /\ r[1] \in Int
      BY <2>1
    <3> QED BY <3>1, <2>6, LevelBelow DEF Under1
  <2> QED BY <1>3, <2>7, LessIs
<1>4. ASSUME NEW p, NEW q, Ranked(p), Ranked(q), ~Less(p, q), ~Less(q, p)
      PROVE  \A i \in {1, 2, 3, 4, 5, 6} : p[i] = q[i]
  <2>1. /\ \A i \in {1, 2, 3, 4, 5, 6} : p[i] \in Int
        /\ \A i \in {1, 2, 3, 4, 5, 6} : q[i] \in Int
    BY <1>1, <1>4
  <2>2. ~Under1(p, q) /\ ~Under1(q, p)
    BY <1>4, LessIs
  <2>3. p[1] = q[1] /\ ~Under2(p, q) /\ ~Under2(q, p)
    <3>1. p[1] \in Int /\ q[1] \in Int
      BY <2>1
    <3> QED BY <3>1, <2>2, LevelBelow DEF Under1
  <2>4. p[2] = q[2] /\ ~Under3(p, q) /\ ~Under3(q, p)
    <3>1. p[2] \in Int /\ q[2] \in Int
      BY <2>1
    <3> QED BY <3>1, <2>3, LevelBelow DEF Under2
  <2>5. p[3] = q[3] /\ ~Under4(p, q) /\ ~Under4(q, p)
    <3>1. p[3] \in Int /\ q[3] \in Int
      BY <2>1
    <3> QED BY <3>1, <2>4, LevelBelow DEF Under3
  <2>6. p[4] = q[4] /\ ~Under5(p, q) /\ ~Under5(q, p)
    <3>1. p[4] \in Int /\ q[4] \in Int
      BY <2>1
    <3> QED BY <3>1, <2>5, LevelBelow DEF Under4
  <2>7. p[5] = q[5] /\ ~Under6(p, q) /\ ~Under6(q, p)
    <3>1. p[5] \in Int /\ q[5] \in Int
      BY <2>1
    <3> QED BY <3>1, <2>6, LevelBelow DEF Under5
  <2>8. p[6] = q[6]
    BY <2>1, <2>7, LevelBelow DEF Under6
  <2> QED BY <2>3, <2>4, <2>5, <2>6, <2>7, <2>8
<1> QED BY <1>2, <1>3, <1>4

(* A span of a text of n symbols, and one that is detected in it.          *)
SpanIn(s, n) ==
  /\ s = [start |-> s.start, end |-> s.end, type |-> s.type, score |-> s.score, source |-> s.source]
  /\ s.start \in 0 .. n /\ s.end \in 0 .. n /\ s.start < s.end
Typed(s, text, lists) ==
  /\ s.score \in Int
  /\ \/ s.source \in Languages /\ s.type \in {<<m>> : m \in DOMAIN TYPES}
     \/ s.source = "deny" /\ s.type = DenyType(Key(Piece(text, Extent(s))), lists)
Detected(s, text, lists) == SpanIn(s, Len(text)) /\ Typed(s, text, lists)

TypeSet == {"DATE_TIME", "LOCATION", "PERSON", "PHONE_NUMBER", "SENSITIVE",
            "TR_ACCOUNT", "TR_ADDRESS", "TR_COMPANY", "TR_IBAN", "TR_PERSON_CTX"}
LEMMA TypesAre ==
  /\ DOMAIN TYPES = TypeSet
  /\ \A m \in TypeSet : TYPES[m].tier \in {0, 1, 2} /\ m # "USER"
<1>1. DOMAIN TYPES = TypeSet
  BY DEF TYPES, TypeSet
<1>2. ASSUME NEW m \in TypeSet  PROVE TYPES[m].tier \in {0, 1, 2} /\ m # "USER"
  BY DEF TYPES, TypeSet, Pattern, Ner, TypeInfo
<1> QED BY <1>1, <1>2

LEMMA TypeIndex ==
  ASSUME NEW m, m \in TypeSet \/ m = "USER"
  PROVE  \E i \in DOMAIN TypeNames : TypeNames[i] = m
<1>1. DOMAIN TypeNames = 1 .. 11
  BY DEF TypeNames
<1>2. /\ TypeNames[1] = "DATE_TIME" /\ TypeNames[2] = "LOCATION" /\ TypeNames[3] = "PERSON"
      /\ TypeNames[4] = "PHONE_NUMBER" /\ TypeNames[5] = "SENSITIVE" /\ TypeNames[6] = "TR_ACCOUNT"
      /\ TypeNames[7] = "TR_ADDRESS" /\ TypeNames[8] = "TR_COMPANY" /\ TypeNames[9] = "TR_IBAN"
      /\ TypeNames[10] = "TR_PERSON_CTX" /\ TypeNames[11] = "USER"
  BY DEF TypeNames
<1>3. \A i \in {1, 2, 3, 4, 5, 6, 7, 8, 9, 10, 11} : i \in DOMAIN TypeNames
  BY <1>1
<1> QED BY <1>2, <1>3 DEF TypeSet

LEMMA SourceIndex ==
  ASSUME NEW m, m \in Languages \/ m = "deny"
  PROVE  \E i \in DOMAIN SourceNames : SourceNames[i] = m
<1>1. /\ DOMAIN SourceNames = 1 .. 3
      /\ SourceNames[1] = "en" /\ SourceNames[2] = "tr" /\ SourceNames[3] = "deny"
  BY DEF SourceNames
<1> QED BY <1>1 DEF Languages

-----------------------------------------------------------------------------
(* What the analyzer reports, and the lists: finitely many spans of the    *)
(* text.                                                                   *)
PatternsOK(ps) == IsFiniteSet(ps) /\ \A p \in ps : PatternOK(p)
Reported(s, n) ==
  /\ SpanIn(s, n) /\ s.score \in Int /\ s.source \in Languages /\ s.type \in {<<m>> : m \in DOMAIN TYPES}

LEMMA SpanOf ==
  ASSUME NEW r, NEW type, NEW score, NEW source, NEW n \in Nat,
         r[1] \in 0 .. n, r[2] \in 0 .. n, r[1] < r[2]
  PROVE  LET s == Span(r, type, score, source)
         IN SpanIn(s, n) /\ s.score = score /\ s.source = source /\ s.type = type /\ s.start = r[1] /\ s.end = r[2]
BY DEF Span, SpanIn

LEMMA Moved ==
  ASSUME NEW h, NEW n, SpanIn(h, n), NEW x, NEW y
  PROVE  [h EXCEPT !.start = x, !.end = y]
           = [start |-> x, end |-> y, type |-> h.type, score |-> h.score, source |-> h.source]
<1> DEFINE a == h.start
           b == h.end
           t == h.type
           c == h.score
           d == h.source
<1>1. h = [start |-> a, end |-> b, type |-> t, score |-> c, source |-> d]
  BY DEF SpanIn
<1> HIDE DEF a, b, t, c, d
<1>2. [h EXCEPT !.start = x, !.end = y] = [start |-> x, end |-> y, type |-> t, score |-> c, source |-> d]
  <2> DEFINE g == [h EXCEPT !.start = x, !.end = y]
  <2>1. DOMAIN h = {"start", "end", "type", "score", "source"}
    BY <1>1
  <2>2. h.type = t /\ h.score = c /\ h.source = d
    BY <1>1
  <2>3. g = [k \in {"start", "end", "type", "score", "source"} |->
               IF k = "end" THEN y ELSE IF k = "start" THEN x ELSE h[k]]
    BY <2>1
  <2> HIDE DEF g
  <2>4. /\ g.start = x /\ g.end = y /\ g.type = t /\ g.score = c /\ g.source = d
        /\ g = [k \in {"start", "end", "type", "score", "source"} |-> g[k]]
    BY <2>2, <2>3
  <2>5. g = [start |-> x, end |-> y, type |-> t, score |-> c, source |-> d]
    BY <2>4
  <2> QED BY <2>5 DEF g
<1> QED BY <1>2 DEF t, c, d

LEMMA Square ==
  ASSUME NEW n \in Nat
  PROVE  IsFiniteSet((0 .. n) \X (0 .. n))
<1>1. 0 \in Int /\ n \in Int
  OBVIOUS
<1>2. IsFiniteSet(0 .. n)
  BY <1>1, FS_Interval
<1> QED BY <1>2, FS_Product

(* A set whose members are made from the ranges of a text is finite.       *)
MadeFrom(S, D, f) == DOMAIN f = D /\ \A x \in S : \E d \in D : x = f[d]
LEMMA FromRanges ==
  ASSUME NEW D, IsFiniteSet(D), NEW f, NEW S, MadeFrom(S, D, f)
  PROVE  IsFiniteSet(S)
<1>1. FromImage(S, {}, f)
  BY DEF FromImage, MadeFrom
<1>2. IsFiniteSet({}) /\ IsFiniteSet(DOMAIN f)
  BY FS_EmptySet DEF MadeFrom
<1> QED BY <1>1, <1>2, Hull

LEMMA AnalyzeIs ==
  ASSUME NEW ps, PatternsOK(ps), NEW text, Len(text) \in Nat
  PROVE  IsFiniteSet(Analyze(ps, text)) /\ \A s \in Analyze(ps, text) : Reported(s, Len(text))
<1> DEFINE n == Len(text)
           D == ((0 .. n) \X (0 .. n)) \X ps
           f == [d \in D |-> Span(d[1], d[2].type, d[2].score, d[2].source)]
           At(p) == {q \in (0 .. n) \X (0 .. n) : q[1] < q[2] /\ Piece(text, q) = p.text}
           Of(p) == {Span(r, p.type, p.score, p.source) : r \in At(p)}
<1>1. Analyze(ps, text) = UNION {Of(p) : p \in ps}
  BY DEF Analyze
<1>2. ASSUME NEW s \in Analyze(ps, text)
      PROVE  \E p \in ps : \E r \in (0 .. n) \X (0 .. n) : r[1] < r[2] /\ s = Span(r, p.type, p.score, p.source)
  <2>1. PICK p \in ps : s \in Of(p)
    BY <1>1
  <2>2. PICK r \in At(p) : s = Span(r, p.type, p.score, p.source)
    BY <2>1
  <2>3. r \in (0 .. n) \X (0 .. n) /\ r[1] < r[2]
    BY <2>2
  <2> QED BY <2>2, <2>3
<1> HIDE DEF At, Of
<1>3. ASSUME NEW s \in Analyze(ps, text)  PROVE Reported(s, n)
  <2>1. PICK p \in ps : \E r \in (0 .. n) \X (0 .. n) : r[1] < r[2] /\ s = Span(r, p.type, p.score, p.source)
    BY <1>2
  <2>2. PICK r \in (0 .. n) \X (0 .. n) : r[1] < r[2] /\ s = Span(r, p.type, p.score, p.source)
    BY <2>1
  <2>3. r[1] \in 0 .. n /\ r[2] \in 0 .. n /\ n \in Nat
    BY <2>2
  <2>4. PatternOK(p)
    BY DEF PatternsOK
  <2>5. SpanIn(s, n) /\ s.score = p.score /\ s.source = p.source /\ s.type = p.type
    BY <2>2, <2>3, SpanOf
  <2> QED BY <2>4, <2>5 DEF Reported, PatternOK
<1>4. IsFiniteSet(D)
  <2>1. IsFiniteSet((0 .. n) \X (0 .. n))
    BY Square
  <2> QED BY <2>1, FS_Product DEF PatternsOK
<1>5. MadeFrom(Analyze(ps, text), D, f)
  <2> SUFFICES ASSUME NEW s \in Analyze(ps, text)  PROVE \E d \in D : s = f[d]
    BY DEF MadeFrom
  <2>1. PICK p \in ps : \E r \in (0 .. n) \X (0 .. n) : r[1] < r[2] /\ s = Span(r, p.type, p.score, p.source)
    BY <1>2
  <2>2. PICK r \in (0 .. n) \X (0 .. n) : r[1] < r[2] /\ s = Span(r, p.type, p.score, p.source)
    BY <2>1
  <2>3. <<r, p>> \in D /\ f[<<r, p>>] = Span(r, p.type, p.score, p.source)
    BY <2>1, <2>2
  <2> QED BY <2>2, <2>3
<1> HIDE DEF D, f
<1>6. IsFiniteSet(Analyze(ps, text))
  BY <1>4, <1>5, FromRanges
<1> QED BY <1>3, <1>6

(* The spans of the text without its breaks, taken back into the text.     *)
LEMMA LinewrapIs ==
  ASSUME NEW ps, PatternsOK(ps), NEW text, Listing(text)
  PROVE  IsFiniteSet(Linewrap(ps, text)) /\ \A s \in Linewrap(ps, text) : Reported(s, Len(text))
<1> DEFINE n == Len(text)
           K == {i \in DOMAIN text : text[i] # Break}
           kept == Ascending(K)
           flat == [i \in DOMAIN kept |-> text[kept[i]]]
           Back(s) == [s EXCEPT !.start = kept[s.start + 1] - 1, !.end = kept[s.end]]
           A == Analyze(ps, flat)
           f == [s \in A |-> Back(s)]
<1>1. n \in Nat /\ DOMAIN text = 1 .. n
  BY ListingHas
<1>2. IsFiniteSet(K) /\ K \subseteq Int /\ K \subseteq 1 .. n
  <2>1. IsFiniteSet(1 .. n)
    BY <1>1, FS_Interval
  <2>2. K \subseteq 1 .. n
    BY <1>1
  <2> QED BY <1>1, <2>1, <2>2, FS_Subset
<1> HIDE DEF K
<1>3. /\ Cardinality(K) \in Nat /\ Len(kept) = Cardinality(K) /\ DOMAIN kept = 1 .. Cardinality(K)
      /\ kept \in [1 .. Cardinality(K) -> K]
      /\ \A i, j \in 1 .. Cardinality(K) : i < j => kept[i] < kept[j]
  BY <1>2, AscendingIs
<1> DEFINE m == Cardinality(K)
<1>4. \A i \in 1 .. m : kept[i] \in 1 .. n
  BY <1>2, <1>3
<1>5. \A s \in Linewrap(ps, text) : \E h \in A : s = Back(h)
  BY DEF Linewrap, K
<1> HIDE DEF kept
<1>6. Len(flat) = m
  <2>1. m \in Nat /\ DOMAIN flat = 1 .. m /\ flat = [i \in 1 .. m |-> flat[i]]
    BY <1>3
  <2> HIDE DEF flat, m
  <2> QED BY <2>1, Listed
<1> HIDE DEF flat
<1>7. IsFiniteSet(A) /\ \A s \in A : Reported(s, m)
  <2>1. Len(flat) \in Nat
    BY <1>3, <1>6
  <2> QED BY <1>6, <2>1, AnalyzeIs
<1> HIDE DEF A, m
<1>8. ASSUME NEW h \in A  PROVE Reported(Back(h), n)
  <2> DEFINE a == h.start
             b == h.end
             c == a + 1
             b1 == Back(h)
  <2>1. /\ h = [start |-> h.start, end |-> h.end, type |-> h.type, score |-> h.score, source |-> h.source]
        /\ a \in 0 .. m /\ b \in 0 .. m /\ a < b
        /\ h.score \in Int /\ h.source \in Languages /\ h.type \in {<<x>> : x \in DOMAIN TYPES}
    BY <1>7 DEF Reported, SpanIn
  <2>2. b1 = [start |-> kept[c] - 1, end |-> kept[b], type |-> h.type, score |-> h.score, source |-> h.source]
    <3>1. SpanIn(h, m)
      BY <1>7 DEF Reported
    <3> QED BY <3>1, Moved
  <2> HIDE DEF a, b, b1
  <2>3. c \in 1 .. m /\ b \in 1 .. m /\ c <= b
    BY <1>3, <2>1 DEF m
  <2> HIDE DEF c
  <2>4. kept[c] \in 1 .. n /\ kept[b] \in 1 .. n /\ kept[c] <= kept[b]
    <3>1. kept[c] \in 1 .. n /\ kept[b] \in 1 .. n
      BY <1>4, <2>3 DEF m
    <3>2. c = b \/ kept[c] < kept[b]
      <4>1. c \in Int /\ b \in Int
        BY <2>3
      <4> QED BY <1>3, <2>3, <4>1 DEF m
    <3> QED BY <3>1, <3>2
  <2>5. SpanIn(b1, n)
    <3> DEFINE x == kept[c]
               y == kept[b]
    <3>1. x \in 1 .. n /\ y \in 1 .. n /\ x <= y /\ b1.start = x - 1 /\ b1.end = y
      BY <2>2, <2>4
    <3> HIDE DEF x, y
    <3>2. b1.start \in 0 .. n /\ b1.end \in 0 .. n /\ b1.start < b1.end
      BY <1>1, <3>1
    <3> QED BY <2>2, <3>2 DEF SpanIn
  <2>6. b1.score = h.score /\ b1.source = h.source /\ b1.type = h.type
    BY <2>2
  <2>7. Reported(b1, n)
    BY <2>1, <2>5, <2>6 DEF Reported
  <2> QED BY <2>7 DEF b1
<1>9. MadeFrom(Linewrap(ps, text), A, f)
  BY <1>5 DEF MadeFrom
<1> HIDE DEF f
<1>10. IsFiniteSet(Linewrap(ps, text))
  BY <1>7, <1>9, FromRanges
<1> QED BY <1>5, <1>8, <1>10

LEMMA DenyIs ==
  ASSUME NEW text, Len(text) \in Nat, NEW lists
  PROVE  /\ IsFiniteSet(DenySpans(text, lists))
         /\ \A s \in DenySpans(text, lists) :
              /\ SpanIn(s, Len(text)) /\ s.score \in Int /\ s.source = "deny"
              /\ s.type = DenyType(Key(Piece(text, Extent(s))), lists)
<1> DEFINE n == Len(text)
           R == TermsRanges(text, lists.deny)
           Of(r) == Span(r, DenyType(Key(Piece(text, r)), lists), 10, "deny")
           f == [r \in R |-> Of(r)]
<1>1. \A r \in R : r \in (0 .. n) \X (0 .. n) /\ r = <<r[1], r[2]>> /\ r[1] \in 0 .. n /\ r[2] \in 0 .. n /\ r[1] < r[2]
  <2> TAKE r \in R
  <2>1. PICK t \in lists.deny : r \in TermRanges(text, t)
    BY DEF TermsRanges
  <2> QED BY <2>1, TermRangesAre
<1>2. IsFiniteSet(R)
  <2>1. IsFiniteSet((0 .. n) \X (0 .. n))
    BY Square
  <2>2. R \subseteq (0 .. n) \X (0 .. n)
    BY <1>1
  <2> QED BY <2>1, <2>2, FS_Subset
<1>3. \A s \in DenySpans(text, lists) : \E r \in R : s = Of(r)
  BY DEF DenySpans
<1>4. MadeFrom(DenySpans(text, lists), R, f)
  BY <1>3 DEF MadeFrom
<1> HIDE DEF f
<1>5. IsFiniteSet(DenySpans(text, lists))
  BY <1>2, <1>4, FromRanges
<1>6. ASSUME NEW r \in R
      PROVE  /\ SpanIn(Of(r), n) /\ Of(r).score \in Int /\ Of(r).source = "deny"
             /\ Of(r).type = DenyType(Key(Piece(text, Extent(Of(r)))), lists)
  <2>1. r[1] \in 0 .. n /\ r[2] \in 0 .. n /\ r[1] < r[2] /\ n \in Nat /\ r = <<r[1], r[2]>>
    BY <1>1
  <2>2. /\ SpanIn(Of(r), n) /\ Of(r).score = 10 /\ Of(r).source = "deny"
        /\ Of(r).type = DenyType(Key(Piece(text, r)), lists) /\ Of(r).start = r[1] /\ Of(r).end = r[2]
    <3> DEFINE type == DenyType(Key(Piece(text, r)), lists)
    <3>1. Of(r) = Span(r, type, 10, "deny")
      OBVIOUS
    <3> HIDE DEF type, R, Of
    <3>2. /\ SpanIn(Span(r, type, 10, "deny"), n) /\ Span(r, type, 10, "deny").score = 10
          /\ Span(r, type, 10, "deny").source = "deny" /\ Span(r, type, 10, "deny").type = type
          /\ Span(r, type, 10, "deny").start = r[1] /\ Span(r, type, 10, "deny").end = r[2]
      BY <2>1 DEF Span, SpanIn
    <3> QED BY <3>1, <3>2 DEF type
  <2>3. Extent(Of(r)) = r
    BY <2>1, <2>2 DEF Extent
  <2> QED BY <2>2, <2>3
<1> QED BY <1>3, <1>5, <1>6

-----------------------------------------------------------------------------
(* The candidates, and their order of priority.                            *)
LEMMA CandidatesAre ==
  ASSUME NEW ps, PatternsOK(ps), NEW lists, NEW text, Listing(text)
  PROVE  /\ IsFiniteSet(Candidates(ps, lists, text))
         /\ \A s \in Candidates(ps, lists, text) : Detected(s, text, lists)
<1> DEFINE S == Analyze(ps, text) \cup Linewrap(ps, text) \cup DenySpans(text, lists)
<1>1. Len(text) \in Nat
  BY ListingHas
<1>2. /\ IsFiniteSet(Analyze(ps, text)) /\ IsFiniteSet(Linewrap(ps, text)) /\ IsFiniteSet(DenySpans(text, lists))
      /\ \A s \in Analyze(ps, text) : Reported(s, Len(text))
      /\ \A s \in Linewrap(ps, text) : Reported(s, Len(text))
      /\ \A s \in DenySpans(text, lists) :
              /\ SpanIn(s, Len(text)) /\ s.score \in Int /\ s.source = "deny"
              /\ s.type = DenyType(Key(Piece(text, Extent(s))), lists)
  BY <1>1, AnalyzeIs, LinewrapIs, DenyIs
<1>3. IsFiniteSet(S)
  BY <1>2, FS_Union
<1>4. \A s \in S : Detected(s, text, lists)
  BY <1>2 DEF Detected, Typed, Reported
<1>5. Candidates(ps, lists, text) \subseteq S
  BY DEF Candidates
<1> HIDE DEF S
<1> QED BY <1>3, <1>4, <1>5, FS_Subset

(* What a type of a detection is.                                          *)
LEMMA DetectedType ==
  ASSUME NEW s, NEW text, NEW lists, Typed(s, text, lists)
  PROVE  /\ s.type[1] \in TypeSet \/ s.type[1] = "USER"
         /\ Info(s.type).tier \in Int
         /\ s.source \in Languages => s.type = <<s.type[1]>>
         /\ s.source \in Languages \/ (s.source = "deny" /\ s.source \notin Languages)
<1>1. "deny" \notin Languages
  BY DEF Languages
<1>2. CASE s.source \in Languages /\ s.type \in {<<m>> : m \in DOMAIN TYPES}
  <2>1. PICK m \in DOMAIN TYPES : s.type = <<m>>
    BY <1>2
  <2>2. s.type[1] = m /\ m \in TypeSet /\ m # "USER" /\ TYPES[m].tier \in {0, 1, 2}
    BY <2>1, TypesAre
  <2>3. Info(s.type) = TYPES[m]
    BY <2>2 DEF Info
  <2> QED BY <1>2, <2>1, <2>2, <2>3
<1>3. CASE s.source = "deny" /\ s.type = DenyType(Key(Piece(text, Extent(s))), lists)
  <2>1. CASE \E f : s.type = UserType(f)
    <3>1. PICK f : s.type = <<"USER", f>>
      BY <2>1 DEF UserType
    <3>2. s.type[1] = "USER" /\ Info(s.type) = TypeInfo(s.type[2], 0, FALSE, FALSE, FALSE)
      BY <3>1 DEF Info
    <3>3. Info(s.type).tier = 0
      BY <3>2 DEF TypeInfo
    <3>4. Info(s.type).tier \in Int
      BY <3>3
    <3>5. s.source = "deny" /\ s.source \notin Languages
      BY <1>1, <1>3
    <3>6. s.type[1] = "USER"
      BY <3>2
    <3> HIDE <3>1, <3>2, <3>3
    <3> QED BY <3>4, <3>5, <3>6
  <2>2. CASE s.type = <<"SENSITIVE">>
    <3>1. s.type[1] = "SENSITIVE" /\ "SENSITIVE" \in TypeSet
      BY <2>2 DEF TypeSet
    <3>2. TYPES["SENSITIVE"].tier \in {0, 1, 2} /\ "SENSITIVE" # "USER"
      BY <3>1, TypesAre
    <3>3. Info(s.type) = TYPES["SENSITIVE"]
      BY <3>1, <3>2 DEF Info
    <3> QED BY <1>1, <1>3, <3>1, <3>2, <3>3
  <2> QED BY <1>3, <2>1, <2>2 DEF DenyType
<1> QED BY <1>2, <1>3 DEF Typed

LEMMA RankIs ==
  ASSUME NEW s, NEW text, NEW lists, NEW n \in Nat, SpanIn(s, n), Typed(s, text, lists)
  PROVE  /\ Ranked(Rank(s))
         /\ Rank(s)[2] = -s.score /\ Rank(s)[3] = s.start - s.end /\ Rank(s)[4] = s.start
         /\ Rank(s)[5] \in DOMAIN TypeNames /\ TypeNames[Rank(s)[5]] = s.type[1]
         /\ Rank(s)[6] \in DOMAIN SourceNames /\ SourceNames[Rank(s)[6]] = s.source
         /\ s.score \in Int /\ s.start \in Int /\ s.end \in Int
<1> DEFINE a == Info(s.type).tier
           b == -s.score
           c == s.start - s.end
           d == s.start
           e == CHOOSE i \in DOMAIN TypeNames : TypeNames[i] = s.type[1]
           f == CHOOSE i \in DOMAIN SourceNames : SourceNames[i] = s.source
           r == Rank(s)
<1>1. e \in DOMAIN TypeNames /\ TypeNames[e] = s.type[1]
  BY DetectedType, TypeIndex
<1>2. f \in DOMAIN SourceNames /\ SourceNames[f] = s.source
  BY DetectedType, SourceIndex
<1>3. DOMAIN TypeNames = 1 .. 11 /\ DOMAIN SourceNames = 1 .. 3
  BY DEF TypeNames, SourceNames
<1>4. s.score \in Int /\ s.start \in Int /\ s.end \in Int
  BY DEF Typed, SpanIn
<1>5. a \in Int /\ b \in Int /\ c \in Int /\ d \in Int /\ e \in Int /\ f \in Int
  <2>1. a \in Int
    BY DetectedType
  <2>2. e \in Int /\ f \in Int
    <3> HIDE DEF e, f
    <3> QED BY <1>1, <1>2, <1>3
  <2>3. b \in Int /\ c \in Int /\ d \in Int
    BY <1>4
  <2> QED BY <2>1, <2>2, <2>3
<1>6. r = <<a, b, c, d, e, f>>
  BY DEF Rank
<1> HIDE DEF a, b, c, d, e, f, r
<1>7. r[1] = a /\ r[2] = b /\ r[3] = c /\ r[4] = d /\ r[5] = e /\ r[6] = f
  BY <1>6
<1>8. 1 .. 6 = {1, 2, 3, 4, 5, 6}
  OBVIOUS
<1>9. Ranked(r)
  BY <1>5, <1>7, <1>8 DEF Ranked
<1> QED BY <1>1, <1>2, <1>4, <1>7, <1>9 DEF b, c, d, r

LEMMA RankTells ==
  ASSUME NEW text, NEW lists, NEW n \in Nat, NEW s, SpanIn(s, n), Typed(s, text, lists),
         NEW t, SpanIn(t, n), Typed(t, text, lists),
         \A i \in {1, 2, 3, 4, 5, 6} : Rank(s)[i] = Rank(t)[i]
  PROVE  s = t
<1>1. /\ Rank(s)[2] = -s.score /\ Rank(s)[3] = s.start - s.end /\ Rank(s)[4] = s.start
      /\ TypeNames[Rank(s)[5]] = s.type[1] /\ SourceNames[Rank(s)[6]] = s.source
      /\ s.score \in Int /\ s.start \in Int /\ s.end \in Int
  BY RankIs
<1>2. /\ Rank(t)[2] = -t.score /\ Rank(t)[3] = t.start - t.end /\ Rank(t)[4] = t.start
      /\ TypeNames[Rank(t)[5]] = t.type[1] /\ SourceNames[Rank(t)[6]] = t.source
      /\ t.score \in Int /\ t.start \in Int /\ t.end \in Int
  BY RankIs
<1>3. /\ Rank(s)[2] = Rank(t)[2] /\ Rank(s)[3] = Rank(t)[3] /\ Rank(s)[4] = Rank(t)[4]
      /\ Rank(s)[5] = Rank(t)[5] /\ Rank(s)[6] = Rank(t)[6]
  OBVIOUS
<1>4. s.start = t.start /\ s.type[1] = t.type[1] /\ s.source = t.source
  BY <1>1, <1>2, <1>3
<1>5. s.end = t.end /\ s.score = t.score
  <2>1. -s.score = -t.score /\ s.start - s.end = t.start - t.end
    BY <1>1, <1>2, <1>3
  <2> QED BY <1>1, <1>2, <1>4, <2>1
<1>6. s.type = t.type
  <2>1. CASE s.source \in Languages
    BY <1>4, <2>1, DetectedType
  <2>2. CASE s.source \notin Languages
    <3>1. s.type = DenyType(Key(Piece(text, Extent(s))), lists) /\ t.type = DenyType(Key(Piece(text, Extent(t))), lists)
      BY <1>4, <2>2 DEF Typed
    <3>2. Extent(s) = Extent(t)
      BY <1>4, <1>5 DEF Extent
    <3> QED BY <3>1, <3>2
  <2> QED BY <2>1, <2>2
<1> QED BY <1>4, <1>5, <1>6 DEF SpanIn

LEMMA PriorityIs ==
  ASSUME NEW text, Listing(text), NEW lists, NEW S, IsFiniteSet(S), \A s \in S : Detected(s, text, lists)
  PROVE  /\ Cardinality(S) \in Nat /\ Len(ByPriority(S)) = Cardinality(S)
         /\ \A i \in 1 .. Cardinality(S) : ByPriority(S)[i] \in S
<1> DEFINE L == {p \in S \X S : Precedes(p[1], p[2])}
           n == Len(text)
<1>1. \A s, t \in S : <<s, t>> \in L <=> Less(Rank(s), Rank(t))
  BY DEF Precedes
<1>2. \A s \in S : Ranked(Rank(s))
  <2>1. n \in Nat
    BY ListingHas
  <2> QED BY <2>1, RankIs DEF Detected
<1>3. ByPriority(S) = Ordered(S, L)
  BY DEF ByPriority
<1> HIDE DEF L
<1>4. Total(S, L)
  <2>1. \A s \in S : <<s, s>> \notin L
    BY <1>1, <1>2, LessTotal
  <2>2. \A a, b, c \in S : <<a, b>> \in L /\ <<b, c>> \in L => <<a, c>> \in L
    <3> TAKE a, b, c \in S
    <3>1. Ranked(Rank(a)) /\ Ranked(Rank(b)) /\ Ranked(Rank(c))
      BY <1>2
    <3>2. Less(Rank(a), Rank(b)) /\ Less(Rank(b), Rank(c)) => Less(Rank(a), Rank(c))
      BY <3>1, LessTotal
    <3> QED BY <1>1, <3>2
  <2>3. \A a, b \in S : a = b \/ <<a, b>> \in L \/ <<b, a>> \in L
    <3> TAKE a, b \in S
    <3>1. Ranked(Rank(a)) /\ Ranked(Rank(b)) /\ Detected(a, text, lists) /\ Detected(b, text, lists) /\ n \in Nat
      BY <1>2, ListingHas
    <3>2. \/ Less(Rank(a), Rank(b)) \/ Less(Rank(b), Rank(a))
          \/ \A i \in {1, 2, 3, 4, 5, 6} : Rank(a)[i] = Rank(b)[i]
      BY <3>1, LessTotal
    <3>3. (\A i \in {1, 2, 3, 4, 5, 6} : Rank(a)[i] = Rank(b)[i]) => a = b
      BY <3>1, RankTells DEF Detected
    <3> QED BY <1>1, <3>2, <3>3
  <2> QED BY <2>1, <2>2, <2>3 DEF Total
<1>5. /\ Cardinality(S) \in Nat /\ Ordered(S, L) \in [1 .. Cardinality(S) -> S] /\ Len(Ordered(S, L)) = Cardinality(S)
  BY <1>4, OrderedIs
<1> QED BY <1>3, <1>5

-----------------------------------------------------------------------------
(* Resolution: what is accepted, and all that is detected, lies in the     *)
(* text.                                                                   *)
SpansIn(q, n) == Listing(q) /\ \A k \in DOMAIN q : SpanIn(q[k], n)

LEMMA Appended ==
  ASSUME NEW s, Listing(s), NEW x
  PROVE  /\ Listing(Append(s, x)) /\ Len(Append(s, x)) = Len(s) + 1 /\ Len(s) \in Nat
         /\ DOMAIN Append(s, x) = 1 .. Len(s) + 1
         /\ \A i \in 1 .. Len(s) : Append(s, x)[i] = s[i]
         /\ Append(s, x)[Len(s) + 1] = x
<1> DEFINE X == ToSet(s) \cup {x}
<1>1. s \in Seq(X)
  <2>1. s \in Seq(ToSet(s))
    BY DEF Listing
  <2> HIDE DEF X
  <2>2. \A i \in 1 .. Len(s) : s[i] \in X
    BY <2>1 DEF X
  <2> QED BY <2>2, ListingHas
<1>2. x \in X
  OBVIOUS
<1> HIDE DEF X
<1>3. /\ Append(s, x) \in Seq(X) /\ Len(Append(s, x)) = Len(s) + 1 /\ Len(s) \in Nat
      /\ \A i \in 1 .. Len(s) : Append(s, x)[i] = s[i]
      /\ Append(s, x)[Len(s) + 1] = x
  BY <1>1, <1>2
<1> QED BY <1>3, ListingIs

LEMMA AcceptIs ==
  ASSUME NEW n \in Nat, NEW q, SpansIn(q, n), NEW s, SpanIn(s, n)
  PROVE  SpansIn(Accept(q, s), n)
<1> DEFINE l == Len(q)
           Wide(i) == IF Within(Extent(q[i]), Extent(s)) THEN [q[i] EXCEPT !.start = s.start, !.end = s.end]
                      ELSE q[i]
           w == [i \in DOMAIN q |-> Wide(i)]
<1>1. l \in Nat /\ DOMAIN q = 1 .. l /\ \A i \in 1 .. l : SpanIn(q[i], n)
  BY ListingHas DEF SpansIn
<1>2. Accept(q, s) = w \/ Accept(q, s) = Append(q, s)
  BY DEF Accept
<1>3. SpansIn(w, n)
  <2>1. DOMAIN w = 1 .. l /\ w = [i \in 1 .. l |-> w[i]] /\ \A i \in 1 .. l : w[i] = Wide(i)
    BY <1>1
  <2>2. ASSUME NEW i \in 1 .. l  PROVE SpanIn(Wide(i), n)
    <3>1. [q[i] EXCEPT !.start = s.start, !.end = s.end]
            = [start |-> s.start, end |-> s.end, type |-> q[i].type, score |-> q[i].score, source |-> q[i].source]
      BY <1>1, Moved
    <3>2. SpanIn([q[i] EXCEPT !.start = s.start, !.end = s.end], n)
      BY <3>1 DEF SpanIn
    <3> QED BY <1>1, <3>2
  <2> HIDE DEF w, l, Wide
  <2>3. Listing(w)
    BY <1>1, <2>1, Listed
  <2> QED BY <2>1, <2>2, <2>3 DEF SpansIn
<1>4. SpansIn(Append(q, s), n)
  <2>1. Listing(q)
    BY DEF SpansIn
  <2>2. /\ Listing(Append(q, s)) /\ DOMAIN Append(q, s) = 1 .. l + 1
        /\ \A i \in 1 .. l : Append(q, s)[i] = q[i]
        /\ Append(q, s)[l + 1] = s
    BY <2>1, Appended
  <2>3. ASSUME NEW i \in 1 .. l + 1  PROVE SpanIn(Append(q, s)[i], n)
    <3>1. i \in 1 .. l \/ i = l + 1
      BY <1>1
    <3> QED BY <1>1, <2>2, <3>1
  <2> QED BY <2>2, <2>3 DEF SpansIn
<1> QED BY <1>2, <1>3, <1>4

LEMMA AcceptedAre ==
  ASSUME NEW n \in Nat, NEW q, Len(q) \in Nat, \A i \in 1 .. Len(q) : SpanIn(q[i], n)
  PROVE  SpansIn(AcceptedUpTo(q)[Len(q)], n)
<1> DEFINE l == Len(q)
           f == AcceptedUpTo(q)
           T == {i \in Nat : i <= l => SpansIn(f[i], n)}
<1>1. f[0] = <<>> /\ \A i \in 1 .. l : f[i] = Accept(f[i - 1], q[i])
  BY AcceptedIs
<1> HIDE DEF f
<1>2. 0 \in T
  <2>1. Listing(<<>>) /\ DOMAIN <<>> = {}
    BY DEF Listing
  <2> QED BY <1>1, <2>1 DEF SpansIn
<1>3. ASSUME NEW i \in Nat, i \in T  PROVE i + 1 \in T
  <2> SUFFICES ASSUME i + 1 <= l  PROVE SpansIn(f[i + 1], n)
    OBVIOUS
  <2> DEFINE j == i + 1
  <2>1. j \in 1 .. l /\ j - 1 = i /\ SpansIn(f[i], n)
    BY <1>3
  <2> HIDE DEF j
  <2>2. f[j] = Accept(f[i], q[j]) /\ SpanIn(q[j], n)
    BY <1>1, <2>1
  <2>3. SpansIn(f[j], n)
    BY <2>1, <2>2, AcceptIs
  <2> QED BY <2>3 DEF j
<1>4. Nat \subseteq T
  <2> HIDE DEF T
  <2> QED BY <1>2, <1>3, Upwards
<1> QED BY <1>4 DEF f

LEMMA FirstNumbers ==
  ASSUME NEW n \in Nat
  PROVE  IsFiniteSet(1 .. n) /\ Cardinality(1 .. n) = n
<1>1. 1 \in Int /\ n \in Int
  OBVIOUS
<1>2. IsFiniteSet(1 .. n) /\ Cardinality(1 .. n) = IF 1 > n THEN 0 ELSE n - 1 + 1
  BY <1>1, FS_Interval
<1> QED BY <1>2

LEMMA ByStartIs ==
  ASSUME NEW n \in Nat, NEW q, SpansIn(q, n)
  PROVE  SpansIn(ByStart(q), n)
<1> DEFINE D == DOMAIN q
           L == {p \in D \X D : \/ q[p[1]].start < q[p[2]].start
                                \/ (q[p[1]].start = q[p[2]].start /\ p[1] < p[2])}
           order == Ordered(D, L)
           s == ByStart(q)
<1>1. Len(q) \in Nat /\ D = 1 .. Len(q)
  BY ListingHas DEF SpansIn
<1>2. IsFiniteSet(D) /\ Cardinality(D) = Len(q)
  BY <1>1, FirstNumbers
<1>3. \A i, j \in D : <<i, j>> \in L <=> \/ q[i].start < q[j].start
                                         \/ (q[i].start = q[j].start /\ i < j)
  OBVIOUS
<1>4. \A i \in D : q[i].start \in Nat /\ i \in Nat
  BY <1>1 DEF SpansIn, SpanIn
<1>5. s = [k \in DOMAIN order |-> q[order[k]]]
  BY DEF ByStart
<1> HIDE DEF L
<1>6. Total(D, L)
  <2> HIDE DEF D
  <2> QED BY <1>3, <1>4 DEF Total
<1>7. order \in [1 .. Len(q) -> D]
  BY <1>2, <1>6, OrderedIs
<1> HIDE DEF s, order
<1>8. DOMAIN s = 1 .. Len(q) /\ s = [k \in 1 .. Len(q) |-> s[k]] /\ \A k \in 1 .. Len(q) : s[k] = q[order[k]] /\ order[k] \in D
  BY <1>5, <1>7
<1>9. Listing(s)
  BY <1>1, <1>8, Listed
<1> QED BY <1>8, <1>9 DEF SpansIn, s

LEMMA DetectIs ==
  ASSUME NEW ps, PatternsOK(ps), NEW lists, NEW text, Listing(text)
  PROVE  SpansIn(Detect(ps, lists, text), Len(text))
<1> DEFINE n == Len(text)
           S == Candidates(ps, lists, text)
           q == ByPriority(S)
<1>1. n \in Nat
  BY ListingHas
<1>2. IsFiniteSet(S) /\ \A s \in S : Detected(s, text, lists)
  BY CandidatesAre
<1>3. Cardinality(S) \in Nat /\ Len(q) = Cardinality(S) /\ \A i \in 1 .. Cardinality(S) : q[i] \in S
  <2> HIDE DEF S
  <2> QED BY <1>2, PriorityIs
<1>4. SpansIn(Resolve(S), n)
  <2> HIDE DEF S, q
  <2>1. Len(q) \in Nat /\ \A i \in 1 .. Len(q) : SpanIn(q[i], n)
    BY <1>2, <1>3 DEF Detected
  <2>2. SpansIn(AcceptedUpTo(q)[Len(q)], n)
    BY <1>1, <2>1, AcceptedAre
  <2>3. SpansIn(ByStart(AcceptedUpTo(q)[Len(q)]), n)
    BY <1>1, <2>2, ByStartIs
  <2> QED BY <1>3, <2>3 DEF Resolve, q
<1>5. SpansIn(<<>>, n)
  <2>1. Listing(<<>>) /\ DOMAIN <<>> = {}
    BY DEF Listing
  <2> QED BY <2>1 DEF SpansIn
<1> QED BY <1>4, <1>5 DEF Detect

-----------------------------------------------------------------------------
(* The row of a table: what is put in its cells lies in them.              *)
RowOK(row, cells) ==
  /\ DOMAIN row.edits = 1 .. Len(cells)
  /\ \A k \in 1 .. Len(cells) :
       Listing(row.edits[k]) /\ \A i \in DOMAIN row.edits[k] : EditOK(row.edits[k][i], Len(cells[k]))
PartOK(r, n) == r[1] \in 0 .. n /\ r[2] \in 0 .. n /\ r[1] < r[2]
FragmentsOK(parts, cells) == \A k \in DOMAIN parts : PartOK(parts[k], Len(cells[k]))

LEMMA PlacedIs ==
  ASSUME NEW cells, Len(cells) \in Nat, NEW row, RowOK(row, cells), NEW parts, FragmentsOK(parts, cells),
         NEW type, NEW value
  PROVE  RowOK(Placed(row, parts, type, value), cells)
<1> DEFINE token == PlaceholderFor(row.mapper, Family(type), value)
           Mark(k) == IF k = Min(DOMAIN parts) THEN token ELSE Lost
           e(k) == EditOf(parts[k], Mark(k), type, "adjacency")
           After(k) == IF k \notin DOMAIN parts THEN row.edits[k] ELSE Append(row.edits[k], e(k))
           new == Placed(row, parts, type, value).edits
<1>1. new = [k \in DOMAIN row.edits |-> After(k)]
  BY DEF Placed, CellEdits
<1>2. DOMAIN new = 1 .. Len(cells) /\ \A k \in 1 .. Len(cells) : new[k] = After(k)
  BY <1>1 DEF RowOK
<1> HIDE DEF new
<1>3. ASSUME NEW k \in 1 .. Len(cells)
      PROVE  Listing(After(k)) /\ \A i \in DOMAIN After(k) : EditOK(After(k)[i], Len(cells[k]))
  <2> DEFINE q == row.edits[k]
             x == e(k)
  <2>1. Listing(q) /\ \A i \in DOMAIN q : EditOK(q[i], Len(cells[k]))
    BY DEF RowOK
  <2>2. CASE k \notin DOMAIN parts
    BY <2>1, <2>2
  <2>3. CASE k \in DOMAIN parts
    <3>1. Marks(Mark(k))
      <4>1. Marks(token)
        BY PlaceholderMarks DEF PlaceholderFor
      <4>2. Marks(Lost)
        BY LostMarks DEF Lost
      <4> HIDE DEF token
      <4> QED BY <4>1, <4>2
    <3> HIDE DEF Mark
    <3>2. EditOK(x, Len(cells[k]))
      <4>1. PartOK(parts[k], Len(cells[k]))
        BY <2>3 DEF FragmentsOK
      <4>2. x.start = parts[k][1] /\ x.end = parts[k][2] /\ x.text = Mark(k)
        BY DEF EditOf
      <4> HIDE DEF x
      <4> QED BY <3>1, <4>1, <4>2 DEF EditOK, PartOK
    <3> HIDE DEF q, x
    <3>3. /\ Listing(Append(q, x)) /\ DOMAIN Append(q, x) = 1 .. Len(q) + 1 /\ Len(q) \in Nat
          /\ \A i \in 1 .. Len(q) : Append(q, x)[i] = q[i]
          /\ Append(q, x)[Len(q) + 1] = x
      BY <2>1, Appended
    <3>4. DOMAIN q = 1 .. Len(q)
      BY <2>1, ListingHas
    <3>5. ASSUME NEW i \in 1 .. Len(q) + 1  PROVE EditOK(Append(q, x)[i], Len(cells[k]))
      <4>1. i \in 1 .. Len(q) \/ i = Len(q) + 1
        BY <3>3
      <4> QED BY <2>1, <3>2, <3>3, <3>4, <4>1
    <3>6. After(k) = Append(q, x)
      BY <2>3 DEF q, x
    <3> QED BY <3>3, <3>5, <3>6
  <2> QED BY <2>2, <2>3
<1> HIDE DEF After
<1> QED BY <1>2, <1>3 DEF RowOK, new

LEMMA PairIs ==
  ASSUME NEW a \in Int, NEW b \in Int
  PROVE  /\ Max({a, b}) \in Int /\ a <= Max({a, b}) /\ b <= Max({a, b})
         /\ Min({a, b}) \in Int /\ Min({a, b}) <= a /\ Min({a, b}) <= b
<1> DEFINE S == {a, b}
<1>1. IsFiniteSet(S)
  <2>1. IsFiniteSet({a}) /\ IsFiniteSet({b})
    BY Single
  <2>2. IsFiniteSet({a} \cup {b}) /\ {a} \cup {b} = S
    BY <2>1, FS_Union
  <2> QED BY <2>2
<1>2. S \subseteq Int /\ S # {} /\ a \in S /\ b \in S
  OBVIOUS
<1> HIDE DEF S
<1>3. /\ Min(S) \in S /\ \A x \in S : Min(S) <= x
      /\ Max(S) \in S /\ \A x \in S : x <= Max(S)
  BY <1>1, <1>2, MinMax
<1> QED BY <1>2, <1>3 DEF S

(* The fragments of a span of joined cells.                                *)
LEMMA FragmentIs ==
  ASSUME NEW cells, Len(cells) \in Nat, \A k \in 1 .. Len(cells) : Len(cells[k]) \in Nat,
         cells \in Seq(ToSet(cells)),
         NEW run, run[1] \in 1 .. Len(cells), run[2] \in 1 .. Len(cells), run[1] < run[2],
         NEW s, s.start \in Int, s.end \in Int
  PROVE  FragmentsOK(Fragments(cells, run, s), cells)
<1> DEFINE a == run[1]
           b == run[2]
           sub == SubSeq(cells, a, b)
           l == b - a + 1
           off == Offsets(sub)
           Of(k) == Fragment(off, s, k - a + 1)
           parts == Fragments(cells, run, s)
<1>1. a \in Nat /\ b \in Nat /\ 1 <= a /\ a < b /\ b <= Len(cells) /\ l \in Nat
  OBVIOUS
<1>2. parts = [k \in {n \in a .. b : Of(n)[1] < Of(n)[2]} |-> Of(k)]
  BY DEF Fragments
<1>3. \A k \in DOMAIN parts : k \in a .. b /\ parts[k] = Of(k) /\ Of(k)[1] < Of(k)[2]
  BY <1>2
<1>4. Len(sub) = l /\ \A k \in 1 .. l : sub[k] = cells[a + k - 1]
  <2>1. a \in 1 .. Len(cells) + 1 /\ b \in a - 1 .. Len(cells) /\ Len(sub) = b - a + 1
        /\ \A k \in 1 .. b - a + 1 : sub[k] = cells[a + k - 1]
    BY <1>1, SubSeqProperties
  <2> QED BY <2>1
<1> HIDE DEF sub, parts, Of
<1>5. off[0] = 0 /\ \A k \in 1 .. l : off[k] = off[k - 1] + Len(sub[k])
  BY <1>1, <1>4, OffsetsIs
<1> HIDE DEF off
<1>6. \A k \in 1 .. l : Len(sub[k]) \in Nat
  BY <1>1, <1>4
<1> HIDE DEF l
<1>7. \A k \in 0 .. l : off[k] \in Nat
  <2> DEFINE T == {k \in Nat : k <= l => off[k] \in Nat}
  <2>1. 0 \in T
    BY <1>5
  <2>2. ASSUME NEW k \in Nat, k \in T  PROVE k + 1 \in T
    <3> SUFFICES ASSUME k + 1 <= l  PROVE off[k + 1] \in Nat
      OBVIOUS
    <3> DEFINE j == k + 1
    <3>1. j \in 1 .. l /\ j - 1 = k /\ off[k] \in Nat
      BY <1>1, <2>2
    <3> HIDE DEF j
    <3>2. off[j] \in Nat
      BY <1>5, <1>6, <3>1
    <3> QED BY <3>2 DEF j
  <2>3. Nat \subseteq T
    <3> HIDE DEF T
    <3> QED BY <2>1, <2>2, Upwards
  <2> QED BY <2>3
<1>8. ASSUME NEW k \in a .. b, Of(k)[1] < Of(k)[2]  PROVE PartOK(Of(k), Len(cells[k]))
  <2> DEFINE i == k - a + 1
             x == off[i - 1]
             y == off[i]
             n == Len(cells[k])
             p == Max({s.start, x}) - x
             q == Min({s.end, y}) - x
  <2>1. i \in 1 .. l /\ a + i - 1 = k /\ k \in 1 .. Len(cells) /\ i - 1 \in 0 .. l
    BY <1>1 DEF l
  <2>2. n = Len(sub[i]) /\ n \in Nat
    BY <1>4, <2>1
  <2>3. x \in Nat /\ y \in Nat /\ y = x + n
    <3> HIDE DEF i
    <3>1. off[i - 1] \in Nat /\ off[i] \in Nat /\ off[i] = off[i - 1] + Len(sub[i])
      BY <1>5, <1>7, <2>1
    <3> QED BY <2>2, <3>1
  <2>4. Of(k) = <<p, q>>
    BY DEF Of, Fragment
  <2> HIDE DEF i, x, y, n
  <2>5. Max({s.start, x}) \in Int /\ x <= Max({s.start, x})
    <3>1. x \in Int /\ y \in Int
      BY <2>3
    <3> QED BY <3>1, PairIs
  <2>6. Min({s.end, y}) \in Int /\ Min({s.end, y}) <= y
    <3>1. x \in Int /\ y \in Int
      BY <2>3
    <3> QED BY <3>1, PairIs
  <2>7. p \in Int /\ q \in Int /\ 0 <= p /\ q <= n
    BY <2>2, <2>3, <2>5, <2>6
  <2>8. p < q
    BY <1>8, <2>4
  <2> HIDE DEF p, q
  <2>9. p \in 0 .. n /\ q \in 0 .. n
    BY <2>2, <2>7, <2>8
  <2>10. Of(k)[1] = p /\ Of(k)[2] = q
    BY <2>4
  <2> HIDE DEF Of
  <2> QED BY <2>8, <2>9, <2>10 DEF PartOK, n
<1> QED BY <1>3, <1>8 DEF FragmentsOK, parts

-----------------------------------------------------------------------------
(* Pre-masking a row, span by span, run by run, edge by edge.              *)
CellsOK(cells, X) == cells \in Seq(Seq(X))

LEMMA CellsAreTexts ==
  ASSUME NEW X, NEW cells, CellsOK(cells, X)
  PROVE  /\ Len(cells) \in Nat /\ DOMAIN cells = 1 .. Len(cells) /\ cells \in Seq(ToSet(cells))
         /\ \A k \in 1 .. Len(cells) : cells[k] \in Seq(X) /\ Listing(cells[k]) /\ Len(cells[k]) \in Nat
<1>1. Len(cells) \in Nat /\ DOMAIN cells = 1 .. Len(cells) /\ \A k \in 1 .. Len(cells) : cells[k] \in Seq(X)
  BY DEF CellsOK
<1>2. Listing(cells)
  BY ListingIs DEF CellsOK
<1> QED BY <1>1, <1>2, ListingIs DEF Listing

LEMMA SpanInts ==
  ASSUME NEW n \in Nat, NEW s, SpanIn(s, n)
  PROVE  s.start \in Int /\ s.end \in Int /\ SpanOK(s)
BY DEF SpanIn, SpanOK

LEMMA MergedAll ==
  ASSUME NEW X, NEW cells, CellsOK(cells, X), NEW row, RowOK(row, cells),
         NEW run, run[1] \in 1 .. Len(cells), run[2] \in 1 .. Len(cells), run[1] < run[2],
         NEW n \in Nat, NEW spans, SpansIn(spans, n), NEW keep, NEW joined
  PROVE  RowOK(MergedUpTo(row, cells, run, keep, joined, spans)[Len(spans)], cells)
<1> DEFINE l == Len(spans)
           f == MergedUpTo(row, cells, run, keep, joined, spans)
           T == {i \in Nat : i <= l => RowOK(f[i], cells)}
<1>1. l \in Nat /\ \A i \in 1 .. l : SpanIn(spans[i], n)
  BY ListingHas DEF SpansIn
<1>2. /\ f[0] = row
      /\ \A i \in 1 .. l : f[i] = Merge(f[i - 1], Surface(joined, spans[i]), spans[i], Fragments(cells, run, spans[i]), keep)
  BY <1>1, MergedIs
<1> HIDE DEF f, l
<1>3. 0 \in T
  BY <1>2
<1>4. ASSUME NEW i \in Nat, i \in T  PROVE i + 1 \in T
  <2> SUFFICES ASSUME i + 1 <= l  PROVE RowOK(f[i + 1], cells)
    OBVIOUS
  <2> DEFINE j == i + 1
             s == spans[j]
             parts == Fragments(cells, run, s)
  <2>1. j \in 1 .. l /\ j - 1 = i /\ RowOK(f[i], cells)
    BY <1>1, <1>4
  <2> HIDE DEF j
  <2>2. f[j] = Merge(f[i], Surface(joined, s), s, parts, keep)
    BY <1>2, <2>1
  <2>3. FragmentsOK(parts, cells)
    <3>1. s.start \in Int /\ s.end \in Int
      <4>1. SpanIn(s, n)
        BY <1>1, <2>1
      <4> HIDE DEF s
      <4> QED BY <4>1, SpanInts
    <3> QED BY <3>1, CellsAreTexts, FragmentIs
  <2> HIDE DEF s, parts
  <2>4. Len(cells) \in Nat
    BY CellsAreTexts
  <2>5. RowOK(Placed(f[i], parts, s.type, Surface(joined, s)), cells)
    BY <2>1, <2>3, <2>4, PlacedIs
  <2>6. RowOK(f[j], cells)
    BY <2>1, <2>2, <2>5 DEF Merge
  <2> QED BY <2>6 DEF j
<1>5. Nat \subseteq T
  <2> HIDE DEF T
  <2> QED BY <1>3, <1>4, Upwards
<1> QED BY <1>1, <1>5 DEF f, l

LEMMA MergeRunIs ==
  ASSUME NEW X, NEW cells, CellsOK(cells, X), NEW row, RowOK(row, cells),
         NEW run, run[1] \in 1 .. Len(cells), run[2] \in 1 .. Len(cells), run[1] < run[2],
         NEW ps, PatternsOK(ps), NEW lists, NEW keep
  PROVE  RowOK(MergeRun(row, cells, run, keep, ps, lists), cells)
<1> DEFINE sub == SubSeq(cells, run[1], run[2])
           joined == FlattenSeq(sub)
           spans == Detect(ps, lists, joined)
<1>1. sub \in Seq(Seq(X))
  <2>1. /\ run[1] \in 1 .. Len(cells) + 1 /\ run[2] \in run[1] - 1 .. Len(cells) /\ Len(cells) \in Nat
    BY CellsAreTexts
  <2> QED BY <2>1, SubSeqProperties DEF CellsOK
<1> HIDE DEF sub
<1>2. joined \in Seq(X)
  <2>1. PICK f : Grows(f, sub) /\ f[Len(sub)] = FlattenSeq(sub) /\ \A k \in 0 .. Len(sub) : f[k] \in Seq(X)
    BY <1>1, FlatIs
  <2>2. Len(sub) \in 0 .. Len(sub)
    BY <1>1
  <2> QED BY <2>1, <2>2
<1> HIDE DEF joined
<1>3. Listing(joined) /\ Len(joined) \in Nat
  BY <1>2, ListingIs
<1>4. SpansIn(spans, Len(joined))
  BY <1>3, DetectIs
<1> HIDE DEF spans
<1>5. RowOK(MergedUpTo(row, cells, run, keep, joined, spans)[Len(spans)], cells)
  BY <1>3, <1>4, MergedAll
<1> QED BY <1>5 DEF MergeRun, MergeAll, spans, joined, sub

LEMMA ExtendedIs ==
  ASSUME NEW X, NEW cells, CellsOK(cells, X), NEW row, RowOK(row, cells), NEW k \in 1 .. Len(cells) - 1,
         NEW s, SpanIn(s, Len(cells[k])), s.end = Len(cells[k]),
         NEW long, SpanIn(long, Len(cells[k] \o cells[k + 1])), long.end > s.end, NEW keep
  PROVE  RowOK(Extended(row, cells, k, keep, s, long), cells)
<1> DEFINE m == k + 1
           a == Len(cells[k])
           b == Len(cells[m])
           parts == [n \in {k, m} |-> IF n = k THEN <<s.start, s.end>> ELSE <<0, long.end - s.end>>]
           value == Surface(cells[k] \o cells[m], long)
<1>1. Extended(row, cells, k, keep, s, long) \in {row, Placed(row, parts, s.type, value)}
  BY DEF Extended
<1>2. k \in 1 .. Len(cells) /\ m \in 1 .. Len(cells) /\ k # m /\ Len(cells) \in Nat
  BY CellsAreTexts
<1> HIDE DEF m, value
<1>3. cells[k] \in Seq(X) /\ cells[m] \in Seq(X) /\ a \in Nat /\ b \in Nat
  BY <1>2, CellsAreTexts
<1>4. Len(cells[k] \o cells[m]) = a + b
  BY <1>3
<1>5. /\ s.start \in 0 .. a /\ s.end = a /\ s.start < s.end
      /\ long.end \in 0 .. (a + b) /\ long.end > a
  BY <1>4 DEF SpanIn, m
<1> HIDE DEF a, b
<1>6. FragmentsOK(parts, cells)
  <2>1. DOMAIN parts = {k, m} /\ parts[k] = <<s.start, s.end>> /\ parts[m] = <<0, long.end - s.end>>
    BY <1>2
  <2> HIDE DEF parts
  <2>2. PartOK(parts[k], a)
    BY <1>3, <1>5, <2>1 DEF PartOK
  <2>3. PartOK(parts[m], b)
    <3> DEFINE x == long.end - s.end
    <3>1. x \in 0 .. b /\ 0 < x
      BY <1>3, <1>5
    <3>2. parts[m][1] = 0 /\ parts[m][2] = x
      BY <2>1
    <3> HIDE DEF x
    <3> QED BY <1>3, <3>1, <3>2 DEF PartOK
  <2> QED BY <2>1, <2>2, <2>3 DEF FragmentsOK, a, b
<1> HIDE DEF parts
<1>7. RowOK(Placed(row, parts, s.type, value), cells)
  BY <1>2, <1>6, PlacedIs
<1> QED BY <1>1, <1>7

LEMMA ExtendEdgeIs ==
  ASSUME NEW X, NEW cells, CellsOK(cells, X), NEW row, RowOK(row, cells), NEW k \in 1 .. Len(cells) - 1,
         NEW ps, PatternsOK(ps), NEW lists, NEW keep
  PROVE  RowOK(ExtendEdge(row, cells, k, keep, ps, lists), cells)
<1> DEFINE m == k + 1
           first == Detect(ps, lists, cells[k])
           edge == AtEdge(first, Len(cells[k]))
           spans == Detect(ps, lists, cells[k] \o cells[m])
           s == CHOOSE t \in edge : TRUE
           L == Longer(spans, s)
           long == spans[Min(L)]
<1>1. \/ ExtendEdge(row, cells, k, keep, ps, lists) = row
      \/ /\ Cardinality(edge) = 1 /\ L # {}
         /\ ExtendEdge(row, cells, k, keep, ps, lists) = Extended(row, cells, k, keep, s, long)
  BY DEF ExtendEdge, ExtendOne
<1>2. SUFFICES ASSUME Cardinality(edge) = 1, L # {}
               PROVE  RowOK(Extended(row, cells, k, keep, s, long), cells)
  BY <1>1
<1>3. k \in 1 .. Len(cells) /\ m \in 1 .. Len(cells) /\ Len(cells) \in Nat
  BY CellsAreTexts
<1> HIDE DEF m
<1>4. cells[k] \in Seq(X) /\ cells[m] \in Seq(X) /\ Listing(cells[k]) /\ Listing(cells[k] \o cells[m])
  <2>1. cells[k] \in Seq(X) /\ cells[m] \in Seq(X) /\ Listing(cells[k]) /\ Listing(cells[m])
    BY <1>3, CellsAreTexts
  <2> QED BY <2>1, Concatenated
<1>5. SpansIn(first, Len(cells[k])) /\ SpansIn(spans, Len(cells[k] \o cells[m]))
  BY <1>4, DetectIs
<1> HIDE DEF first, spans
<1>6. s \in edge
  <2>1. edge # {}
    BY <1>2, FS_EmptySet
  <2> QED BY <2>1
<1>7. SpanIn(s, Len(cells[k])) /\ s.end = Len(cells[k])
  <2>1. s \in ToSet(first) /\ s.end = Len(cells[k])
    BY <1>6 DEF AtEdge
  <2> HIDE DEF s
  <2>2. PICK i \in DOMAIN first : s = first[i]
    BY <2>1 DEF ToSet
  <2> QED BY <1>5, <2>1, <2>2 DEF SpansIn
<1> HIDE DEF s, edge
<1>8. L \subseteq DOMAIN spans /\ IsFiniteSet(L) /\ L \subseteq Int /\ \A i \in L : spans[i].end > s.end
  <2>1. L \subseteq DOMAIN spans /\ \A i \in L : spans[i].end > s.end
    BY DEF Longer
  <2>2. Len(spans) \in Nat /\ DOMAIN spans = 1 .. Len(spans)
    BY <1>5, ListingHas DEF SpansIn
  <2> HIDE DEF L
  <2>3. IsFiniteSet(DOMAIN spans)
    BY <2>2, FirstNumbers
  <2> QED BY <2>1, <2>2, <2>3, FS_Subset
<1> HIDE DEF L
<1>9. Min(L) \in L
  BY <1>2, <1>8, MinMax
<1>10. SpanIn(long, Len(cells[k] \o cells[m])) /\ long.end > s.end
  BY <1>5, <1>8, <1>9 DEF SpansIn
<1> HIDE DEF long
<1> QED BY <1>7, <1>10, ExtendedIs DEF m

LEMMA RunsAll ==
  ASSUME NEW X, NEW cells, CellsOK(cells, X), NEW row, RowOK(row, cells), NEW clean, clean \subseteq DOMAIN cells,
         NEW ps, PatternsOK(ps), NEW lists, NEW keep
  PROVE  RowOK(RunsUpTo(row, cells, Runs(clean), keep, ps, lists)[Len(Runs(clean))], cells)
<1> DEFINE c == Len(cells)
           R == {r \in clean \X clean : /\ r[1] < r[2] /\ r[1] .. r[2] \subseteq clean
                                        /\ {r[1] - 1, r[2] + 1} \cap clean = {}}
           runs == Runs(clean)
           l == Len(runs)
           f == RunsUpTo(row, cells, runs, keep, ps, lists)
           T == {i \in Nat : i <= l => RowOK(f[i], cells)}
<1>1. c \in Nat /\ clean \subseteq 1 .. c
  BY CellsAreTexts
<1>2. \A r \in R : r[1] \in 1 .. c /\ r[2] \in 1 .. c /\ r[1] < r[2]
  BY <1>1
<1>3. R \subseteq (0 .. c) \X (0 .. c)
  BY <1>1
<1>4. runs = Ordered(R, Starting(R))
  BY DEF Runs
<1> HIDE DEF R, runs, c
<1>5. runs \in Seq(R)
  BY <1>1, <1>3, <1>4, StartingIs
<1>6. l \in Nat /\ \A i \in 1 .. l : runs[i][1] \in 1 .. c /\ runs[i][2] \in 1 .. c /\ runs[i][1] < runs[i][2]
  <2>1. l \in Nat /\ \A i \in 1 .. l : runs[i] \in R
    BY <1>5
  <2> HIDE DEF l
  <2> QED BY <1>2, <2>1
<1>7. /\ f[0] = row
      /\ \A i \in 1 .. l : f[i] = MergeRun(f[i - 1], cells, runs[i], keep, ps, lists)
  BY <1>6, RunsIs
<1> HIDE DEF f, l
<1>8. 0 \in T
  BY <1>7
<1>9. ASSUME NEW i \in Nat, i \in T  PROVE i + 1 \in T
  <2> SUFFICES ASSUME i + 1 <= l  PROVE RowOK(f[i + 1], cells)
    OBVIOUS
  <2> DEFINE j == i + 1
             run == runs[j]
  <2>1. j \in 1 .. l /\ j - 1 = i /\ RowOK(f[i], cells)
    BY <1>6, <1>9
  <2> HIDE DEF j
  <2>2. run[1] \in 1 .. Len(cells) /\ run[2] \in 1 .. Len(cells) /\ run[1] < run[2]
    BY <1>6, <2>1 DEF c
  <2>3. f[j] = MergeRun(f[i], cells, run, keep, ps, lists)
    BY <1>7, <2>1
  <2> HIDE DEF run
  <2>4. RowOK(f[j], cells)
    BY <2>1, <2>2, <2>3, MergeRunIs
  <2> QED BY <2>4 DEF j
<1>10. Nat \subseteq T
  <2> HIDE DEF T
  <2> QED BY <1>8, <1>9, Upwards
<1> QED BY <1>6, <1>10 DEF f, l, runs

LEMMA EdgesAll ==
  ASSUME NEW X, NEW cells, CellsOK(cells, X), cells # << >>, NEW row, RowOK(row, cells), NEW clean,
         NEW ps, PatternsOK(ps), NEW lists, NEW keep
  PROVE  RowOK(EdgesUpTo(row, cells, clean, keep, ps, lists)[Len(cells) - 1], cells)
<1> DEFINE l == Len(cells) - 1
           f == EdgesUpTo(row, cells, clean, keep, ps, lists)
           T == {i \in Nat : i <= l => RowOK(f[i], cells)}
<1>1. l \in Nat
  BY DEF CellsOK
<1>2. /\ f[0] = row
      /\ \A i \in 1 .. l : f[i] = (IF Extends(f[i - 1], i, clean) THEN ExtendEdge(f[i - 1], cells, i, keep, ps, lists)
                                   ELSE f[i - 1])
  BY <1>1, EdgesIs
<1> HIDE DEF f
<1>3. 0 \in T
  BY <1>2
<1>4. ASSUME NEW i \in Nat, i \in T  PROVE i + 1 \in T
  <2> SUFFICES ASSUME i + 1 <= l  PROVE RowOK(f[i + 1], cells)
    OBVIOUS
  <2> DEFINE j == i + 1
  <2>1. j \in 1 .. Len(cells) - 1 /\ j - 1 = i /\ RowOK(f[i], cells)
    BY <1>1, <1>4
  <2> HIDE DEF j
  <2>2. f[j] \in {ExtendEdge(f[i], cells, j, keep, ps, lists), f[i]}
    BY <1>2, <2>1
  <2>3. RowOK(ExtendEdge(f[i], cells, j, keep, ps, lists), cells)
    BY <2>1, ExtendEdgeIs
  <2>4. RowOK(f[j], cells)
    BY <2>1, <2>2, <2>3
  <2> QED BY <2>4 DEF j
<1>5. Nat \subseteq T
  <2> HIDE DEF T
  <2> QED BY <1>3, <1>4, Upwards
<1>6. l \in T
  BY <1>1, <1>5
<1> QED BY <1>6 DEF f

LEMMA PremaskIs ==
  ASSUME NEW X, NEW cells, CellsOK(cells, X), cells # << >>,
         NEW ps, PatternsOK(ps), NEW lists, NEW keep, NEW mapper
  PROVE  RowOK(PremaskRow(mapper, cells, keep, ps, lists), cells)
<1> DEFINE row == [edits |-> [k \in DOMAIN cells |-> << >>], mapper |-> mapper]
           clean == {k \in DOMAIN cells : Detect(ps, lists, cells[k]) = << >>}
           merged == RunsUpTo(row, cells, Runs(clean), keep, ps, lists)[Len(Runs(clean))]
<1>1. RowOK(row, cells)
  <2>1. DOMAIN row.edits = 1 .. Len(cells) /\ \A k \in 1 .. Len(cells) : row.edits[k] = << >>
    BY CellsAreTexts
  <2>2. Listing(<<>>) /\ DOMAIN <<>> = {}
    BY DEF Listing
  <2> HIDE DEF row
  <2> QED BY <2>1, <2>2 DEF RowOK
<1>2. clean \subseteq DOMAIN cells
  OBVIOUS
<1> HIDE DEF clean, row
<1>3. RowOK(merged, cells)
  BY <1>1, <1>2, RunsAll
<1> HIDE DEF merged
<1>4. RowOK(EdgesUpTo(merged, cells, clean, keep, ps, lists)[Len(cells) - 1], cells)
  BY <1>3, EdgesAll
<1> QED BY <1>4 DEF PremaskRow, PremaskCells, merged, clean, row

-----------------------------------------------------------------------------
(* The words of a text, its letters, and the spellings of a value.         *)
LEMMA SubIs ==
  ASSUME NEW t, Listing(t), NEW a \in Nat, NEW b \in Nat, 1 <= a, a <= b, b <= Len(t)
  PROVE  /\ Listing(SubSeq(t, a, b)) /\ Len(SubSeq(t, a, b)) = b - a + 1
         /\ \A i \in 1 .. b - a + 1 : SubSeq(t, a, b)[i] = t[a + i - 1]
<1>1. t \in Seq(ToSet(t)) /\ Len(t) \in Nat
  BY ListingHas DEF Listing
<1>2. a \in 1 .. Len(t) + 1 /\ b \in a - 1 .. Len(t)
  BY <1>1
<1>3. /\ SubSeq(t, a, b) \in Seq(ToSet(t)) /\ Len(SubSeq(t, a, b)) = b - a + 1
      /\ \A i \in 1 .. b - a + 1 : SubSeq(t, a, b)[i] = t[a + i - 1]
  BY <1>1, <1>2, SubSeqProperties
<1> QED BY <1>3, ListingIs

LEMMA WordsAre ==
  ASSUME NEW text, Listing(text)
  PROVE  LET words == Words(text)
         IN /\ Listing(words) /\ Len(words) \in Nat /\ DOMAIN words = 1 .. Len(words)
            /\ \A k \in 1 .. Len(words) : Listing(words[k])
<1> DEFINE n == Len(text)
           solid == {i \in DOMAIN text : ~IsSpace(text[i])}
           begins == {i \in solid : i - 1 \notin solid}
           starts == Ascending(begins)
           Solid(i) == {j \in solid : j >= i /\ j + 1 \notin solid}
           End(i) == Min(Solid(i))
           words == Words(text)
<1>1. n \in Nat /\ DOMAIN text = 1 .. n
  BY ListingHas
<1>2. solid \subseteq 1 .. n /\ IsFiniteSet(solid) /\ solid \subseteq Int
  <2>1. solid \subseteq 1 .. n
    BY <1>1
  <2>2. IsFiniteSet(1 .. n) /\ 1 .. n \subseteq Int
    BY <1>1, FirstNumbers
  <2> HIDE DEF solid
  <2> QED BY <2>1, <2>2, FS_Subset
<1>3. words = [k \in DOMAIN starts |-> SubSeq(text, starts[k], End(starts[k]))]
  BY DEF Words
<1> HIDE DEF solid, words
<1>4. begins \subseteq solid /\ IsFiniteSet(begins) /\ begins \subseteq Int
  BY <1>2, FS_Subset
<1> HIDE DEF begins
<1> DEFINE l == Cardinality(begins)
<1>5. l \in Nat /\ starts \in [1 .. l -> begins] /\ DOMAIN starts = 1 .. l
  BY <1>4, AscendingIs
<1> HIDE DEF starts, l
<1>6. ASSUME NEW i \in solid  PROVE End(i) \in solid /\ i <= End(i)
  <2>1. solid # {} /\ Max(solid) \in solid /\ \A x \in solid : x <= Max(solid)
    BY <1>2, MinMax
  <2> DEFINE m == Max(solid)
  <2>2. m \in Int /\ i \in Int /\ m >= i /\ m \in solid
    BY <1>2, <2>1
  <2>3. m + 1 \notin solid
    <3>1. ASSUME m + 1 \in solid  PROVE FALSE
      <4>1. m + 1 <= m
        BY <2>1, <3>1
      <4> HIDE DEF m
      <4> QED BY <2>2, <4>1
    <3> QED BY <3>1
  <2> HIDE DEF m
  <2>4. m \in Solid(i)
    BY <2>2, <2>3
  <2>5. Solid(i) \subseteq solid /\ \A j \in Solid(i) : i <= j
    BY <1>2
  <2> HIDE DEF Solid
  <2>6. IsFiniteSet(Solid(i)) /\ Solid(i) \subseteq Int /\ Solid(i) # {}
    BY <1>2, <2>4, <2>5, FS_Subset
  <2>7. Min(Solid(i)) \in Solid(i)
    BY <2>6, MinMax
  <2> QED BY <2>5, <2>7
<1> HIDE DEF End
<1>7. ASSUME NEW k \in 1 .. l  PROVE Listing(SubSeq(text, starts[k], End(starts[k])))
  <2> DEFINE a == starts[k]
             b == End(a)
  <2>1. a \in solid
    BY <1>4, <1>5
  <2>2. b \in solid /\ a <= b
    <3> HIDE DEF a
    <3> QED BY <1>6, <2>1
  <2> HIDE DEF a, b
  <2>3. a \in Nat /\ b \in Nat /\ 1 <= a /\ a <= b /\ b <= n
    BY <1>1, <1>2, <2>1, <2>2
  <2>4. Listing(SubSeq(text, a, b))
    BY <2>3, SubIs
  <2> QED BY <2>4 DEF a, b
<1>8. DOMAIN words = 1 .. l /\ words = [k \in 1 .. l |-> words[k]] /\ \A k \in 1 .. l : Listing(words[k])
  BY <1>3, <1>5, <1>7
<1>9. Listing(words) /\ Len(words) = l
  BY <1>5, <1>8, Listed
<1> QED BY <1>5, <1>8, <1>9 DEF words

(* Where the letters of a text stand.                                      *)
LEMMA ProjectedIs ==
  ASSUME NEW text, Listing(text)
  PROVE  LET at == Projected(text)
             m == Len(at)
         IN /\ m \in Nat /\ DOMAIN at = 1 .. m /\ Len(text) \in Nat
            /\ \A i \in 1 .. m : at[i] \in 1 .. Len(text)
            /\ \A i, j \in 1 .. m : i < j => at[i] < at[j]
            /\ Listing(Letters(text)) /\ Len(Letters(text)) = m
<1> DEFINE n == Len(text)
           K == {i \in DOMAIN text : ~IsSpace(text[i])}
           at == Projected(text)
           m == Cardinality(K)
           w == Letters(text)
<1>1. n \in Nat /\ DOMAIN text = 1 .. n
  BY ListingHas
<1>2. K \subseteq 1 .. n /\ IsFiniteSet(K) /\ K \subseteq Int
  <2>1. K \subseteq 1 .. n
    BY <1>1
  <2>2. IsFiniteSet(1 .. n) /\ 1 .. n \subseteq Int
    BY <1>1, FirstNumbers
  <2> HIDE DEF K
  <2> QED BY <2>1, <2>2, FS_Subset
<1>3. at = Ascending(K)
  BY DEF Projected
<1>4. w = [k \in DOMAIN at |-> Folded(text[at[k]])]
  BY DEF Letters
<1> HIDE DEF K, at, w
<1>5. /\ m \in Nat /\ at \in [1 .. m -> K] /\ Len(at) = m /\ DOMAIN at = 1 .. m
      /\ \A i, j \in 1 .. m : i < j => at[i] < at[j]
  BY <1>2, <1>3, AscendingIs
<1> HIDE DEF m
<1>6. DOMAIN w = 1 .. m /\ w = [k \in 1 .. m |-> w[k]]
  BY <1>4, <1>5
<1>7. Listing(w) /\ Len(w) = m
  BY <1>5, <1>6, Listed
<1>8. \A i \in 1 .. m : at[i] \in 1 .. n
  BY <1>2, <1>5
<1> QED BY <1>1, <1>5, <1>7, <1>8 DEF at, w

(* A spelling has a letter, and one of the modes.                          *)
SpellingOK(f) == Len(f[1]) \in Nat /\ 0 < Len(f[1]) /\ f[2] \in 1 .. 4

LEMMA SpellingsAre ==
  ASSUME NEW s, NEW value, Listing(value), NEW f \in SpellingsOf(s, value, Words(value))
  PROVE  SpellingOK(f)
<1> DEFINE words == Words(value)
           l == Len(words)
           From(i) == Letters(SubSeq(value, i, Len(value)))
<1>1. Listing(words) /\ l \in Nat /\ DOMAIN words = 1 .. l /\ \A k \in 1 .. l : Listing(words[k])
  BY WordsAre
<1>2. /\ MinStructural \in Nat /\ 0 < MinStructural /\ MinSurname \in Nat /\ 0 < MinSurname
      /\ MinPrefix \in Nat /\ 0 < MinPrefix /\ MaxPrefix \in Nat
  BY LengthsAssumption
<1>3. Len(Letters(value)) \in Nat
  BY ProjectedIs
<1>4. \/ f \in {<<Letters(value), AnyMode>>, <<Letters(value), GluedMode>>} /\ Len(Letters(value)) >= MinStructural
      \/ 2 <= l /\ f = <<Letters(words[l]), SurnameMode>> /\ Len(Letters(words[l])) >= MinSurname
      \/ \E k \in DOMAIN value : \E n \in MinPrefix .. MaxPrefix : n <= Len(From(k)) /\ f = <<SubSeq(From(k), 1, n), CompanyMode>>
  BY DEF SpellingsOf
<1> HIDE DEF words, From
<1>5. CASE f \in {<<Letters(value), AnyMode>>, <<Letters(value), GluedMode>>} /\ Len(Letters(value)) >= MinStructural
  <2>1. f[1] = Letters(value) /\ f[2] \in 1 .. 4
    BY <1>5 DEF AnyMode, GluedMode
  <2>2. Len(f[1]) \in Nat /\ 0 < Len(f[1])
    BY <1>2, <1>3, <1>5, <2>1
  <2> QED BY <2>1, <2>2 DEF SpellingOK
<1>6. CASE 2 <= l /\ f = <<Letters(words[l]), SurnameMode>> /\ Len(Letters(words[l])) >= MinSurname
  <2>1. f[1] = Letters(words[l]) /\ f[2] \in 1 .. 4
    BY <1>6 DEF SurnameMode
  <2>2. Len(Letters(words[l])) \in Nat
    <3>1. Listing(words[l])
      BY <1>1, <1>6
    <3> QED BY <3>1, ProjectedIs
  <2>3. Len(f[1]) \in Nat /\ 0 < Len(f[1])
    BY <1>2, <1>6, <2>1, <2>2
  <2> QED BY <2>1, <2>3 DEF SpellingOK
<1>7. CASE \E k \in DOMAIN value : \E n \in MinPrefix .. MaxPrefix : n <= Len(From(k)) /\ f = <<SubSeq(From(k), 1, n), CompanyMode>>
  <2>1. PICK k \in DOMAIN value : \E n \in MinPrefix .. MaxPrefix : n <= Len(From(k)) /\ f = <<SubSeq(From(k), 1, n), CompanyMode>>
    BY <1>7
  <2>2. PICK n \in MinPrefix .. MaxPrefix : n <= Len(From(k)) /\ f = <<SubSeq(From(k), 1, n), CompanyMode>>
    BY <2>1
  <2>3. Listing(From(k)) /\ Len(From(k)) \in Nat
    <3>1. k \in Nat /\ 1 <= k /\ k <= Len(value) /\ Len(value) \in Nat
      BY ListingHas
    <3>2. Listing(SubSeq(value, k, Len(value)))
      BY <3>1, SubIs
    <3> QED BY <3>2, ProjectedIs DEF From
  <2> DEFINE w == From(k)
  <2>4. n \in Nat /\ 1 <= n /\ n <= Len(w) /\ f[1] = SubSeq(w, 1, n) /\ f[2] \in 1 .. 4
    BY <1>2, <2>2 DEF CompanyMode
  <2> HIDE DEF w
  <2>5. Len(SubSeq(w, 1, n)) = n - 1 + 1
    <3>1. Listing(w) /\ 1 \in Nat
      BY <2>3 DEF w
    <3> QED BY <2>4, <3>1, SubIs
  <2> QED BY <2>4, <2>5 DEF SpellingOK
<1> QED BY <1>4, <1>5, <1>6, <1>7

-----------------------------------------------------------------------------
(* The surfaces of a document, and the hits of their spellings in a text.  *)
SurfacesOK(surfaces) ==
  Listing(surfaces) /\ \A k \in DOMAIN surfaces : \A f \in surfaces[k].spellings : SpellingOK(f)
HitOK(h, n, N) ==
  /\ h = <<h[1], h[2], h[3], h[4]>>
  /\ h[1] \in 0 .. n /\ h[2] \in 0 .. n /\ h[1] < h[2] /\ h[3] \in 1 .. 4 /\ h[4] \in 1 .. N
HitsOK(H, n, N) == \A h \in H : HitOK(h, n, N)

LEMMA SurfaceIs ==
  ASSUME NEW text, Listing(text), NEW s, SpanIn(s, Len(text)), NEW f \in SurfaceOf(text, s).spellings
  PROVE  SpellingOK(f)
<1> DEFINE value == Surface(text, s)
<1>1. Listing(value)
  <2> DEFINE a == s.start
             b == s.end
             n == Len(text)
  <2>1. a \in 0 .. n /\ b \in 0 .. n /\ n \in Nat /\ value = Piece(text, <<a, b>>)
    BY ListingHas DEF SpanIn, Surface, Extent
  <2> HIDE DEF a, b, value
  <2>2. a \in Nat /\ b \in Nat /\ (a < b => b <= n)
    BY <2>1
  <2> HIDE DEF n
  <2>3. Listing(Piece(text, <<a, b>>))
    BY <2>2, PieceIs DEF n
  <2> QED BY <2>1, <2>3
<1>2. f \in SpellingsOf(s, value, Words(value))
  BY DEF SurfaceOf
<1> HIDE DEF value
<1> QED BY <1>1, <1>2, SpellingsAre

LEMMA HitsAreOK ==
  ASSUME NEW text, Listing(text), NEW surfaces, SurfacesOK(surfaces)
  PROVE  HitsOK(HitsOf(text, surfaces), Len(text), Len(surfaces))
<1> DEFINE n == Len(text)
           at == Projected(text)
           letters == Letters(text)
           m == Len(at)
           Ranges(needle) == {<<at[i] - 1, at[i + Len(needle) - 1]>> :
                                i \in {j \in 1 .. (Len(letters) - Len(needle) + 1) :
                                         SubSeq(letters, j, j + Len(needle) - 1) = needle}}
           OfSpelling(f, k) == {<<r[1], r[2], f[2], k>> : r \in Ranges(f[1])}
           OfSurface(k) == UNION {OfSpelling(f, k) : f \in surfaces[k].spellings}
<1>1. HitsOf(text, surfaces) = UNION {OfSurface(k) : k \in DOMAIN surfaces}
  BY DEF HitsOf
<1>2. /\ m \in Nat /\ n \in Nat /\ Len(letters) = m
      /\ \A i \in 1 .. m : at[i] \in 1 .. n
      /\ \A i, j \in 1 .. m : i < j => at[i] < at[j]
  BY ProjectedIs
<1>3. DOMAIN surfaces = 1 .. Len(surfaces)
  BY ListingHas DEF SurfacesOK
<1> HIDE DEF at, letters, m, n
<1>4. ASSUME NEW needle, Len(needle) \in Nat, 0 < Len(needle), NEW r \in Ranges(needle)
      PROVE  r[1] \in 0 .. n /\ r[2] \in 0 .. n /\ r[1] < r[2]
  <2> DEFINE q == Len(needle)
  <2>1. PICK i \in 1 .. (Len(letters) - q + 1) : r = <<at[i] - 1, at[i + q - 1]>>
    BY <1>4
  <2> DEFINE j == i + q - 1
             a == at[i]
             b == at[j]
  <2> HIDE DEF q
  <2>2. i \in 1 .. m /\ j \in 1 .. m /\ i <= j
    <3>1. q \in Nat /\ 0 < q
      BY <1>4 DEF q
    <3>2. i \in 1 .. m - q + 1
      BY <1>2, <2>1
    <3> QED BY <1>2, <3>1, <3>2
  <2> HIDE DEF j
  <2>3. a \in 1 .. n /\ b \in 1 .. n /\ (a < b \/ i = j)
    BY <1>2, <2>2
  <2>4. a <= b
    <3>1. CASE i = j
      <4>1. a = b
        BY <3>1
      <4> HIDE DEF a, b
      <4> QED BY <1>2, <2>3, <4>1
    <3>2. CASE i # j
      <4> HIDE DEF a, b
      <4> QED BY <1>2, <2>3, <3>2
    <3> QED BY <3>1, <3>2
  <2>5. r[1] = a - 1 /\ r[2] = b
    BY <2>1 DEF j
  <2> HIDE DEF a, b
  <2> QED BY <1>2, <2>3, <2>4, <2>5
<1> HIDE DEF Ranges
<1>5. ASSUME NEW h \in HitsOf(text, surfaces)  PROVE HitOK(h, n, Len(surfaces))
  <2>1. PICK k \in DOMAIN surfaces : h \in OfSurface(k)
    BY <1>1
  <2>2. PICK f \in surfaces[k].spellings : h \in OfSpelling(f, k)
    BY <2>1
  <2>3. PICK r \in Ranges(f[1]) : h = <<r[1], r[2], f[2], k>>
    BY <2>2
  <2>4. SpellingOK(f)
    BY DEF SurfacesOK
  <2>5. r[1] \in 0 .. n /\ r[2] \in 0 .. n /\ r[1] < r[2]
    BY <1>4, <2>4 DEF SpellingOK
  <2>6. h[1] = r[1] /\ h[2] = r[2] /\ h[3] = f[2] /\ h[4] = k /\ h = <<h[1], h[2], h[3], h[4]>>
    BY <2>3
  <2> HIDE <2>3
  <2> QED BY <1>3, <2>4, <2>5, <2>6 DEF HitOK, SpellingOK
<1> QED BY <1>5 DEF HitsOK, n

LEMMA HitsFinite ==
  ASSUME NEW n \in Nat, NEW N \in Nat, NEW H, HitsOK(H, n, N)
  PROVE  IsFiniteSet(H)
<1> DEFINE D == ((0 .. n) \X (0 .. n)) \X ((1 .. 4) \X (1 .. N))
           f == [d \in D |-> <<d[1][1], d[1][2], d[2][1], d[2][2]>>]
<1>1. IsFiniteSet(D)
  <2>1. IsFiniteSet((0 .. n) \X (0 .. n))
    BY Square
  <2>2. IsFiniteSet(1 .. 4) /\ IsFiniteSet(1 .. N)
    BY FirstNumbers
  <2>3. IsFiniteSet((1 .. 4) \X (1 .. N))
    BY <2>2, FS_Product
  <2> QED BY <2>1, <2>3, FS_Product
<1>2. MadeFrom(H, D, f)
  <2> SUFFICES ASSUME NEW h \in H  PROVE \E d \in D : h = f[d]
    BY DEF MadeFrom
  <2> DEFINE a == h[1]
             b == h[2]
             c == h[3]
             e == h[4]
  <2>1. HitOK(h, n, N)
    BY DEF HitsOK
  <2>2. h = <<a, b, c, e>> /\ a \in 0 .. n /\ b \in 0 .. n /\ c \in 1 .. 4 /\ e \in 1 .. N
    BY <2>1 DEF HitOK
  <2> HIDE DEF a, b, c, e
  <2>3. <<<<a, b>>, <<c, e>>>> \in D
    BY <2>2
  <2>4. f[<<<<a, b>>, <<c, e>>>>] = <<a, b, c, e>>
    BY <2>3
  <2> QED BY <2>2, <2>3, <2>4
<1> HIDE DEF D, f
<1> QED BY <1>1, <1>2, FromRanges

Before4(g, h) == \/ g[1] < h[1] \/ (g[1] = h[1] /\ g[2] > h[2])
                 \/ (g[1] = h[1] /\ g[2] = h[2] /\ g[3] < h[3])
                 \/ (g[1] = h[1] /\ g[2] = h[2] /\ g[3] = h[3] /\ g[4] < h[4])
LEMMA LeftmostIs ==
  ASSUME NEW n \in Nat, NEW N \in Nat, NEW H, HitsOK(H, n, N)
  PROVE  /\ Leftmost(H) \in Seq(H) /\ Len(Leftmost(H)) = Cardinality(H) /\ Cardinality(H) \in Nat
         /\ Listing(Leftmost(H))
         /\ \A i \in 1 .. Len(Leftmost(H)) : Leftmost(H)[i] \in H
<1> DEFINE L == {p \in H \X H : Before4(p[1], p[2])}
           s == Leftmost(H)
<1>1. s = Ordered(H, L)
  BY DEF Leftmost, Before4
<1>2. \A g, h \in H : <<g, h>> \in L <=> Before4(g, h)
  OBVIOUS
<1>3. \A h \in H : h[1] \in Int /\ h[2] \in Int /\ h[3] \in Int /\ h[4] \in Int
  BY DEF HitsOK, HitOK
<1>4. \A g, h \in H : g[1] = h[1] /\ g[2] = h[2] /\ g[3] = h[3] /\ g[4] = h[4] => g = h
  BY DEF HitsOK, HitOK
<1> HIDE DEF L, s
<1>5. Total(H, L)
  <2>1. \A a \in H : <<a, a>> \notin L
    BY <1>2, <1>3 DEF Before4
  <2>2. \A a, b, c \in H : <<a, b>> \in L /\ <<b, c>> \in L => <<a, c>> \in L
    <3> TAKE a, b, c \in H
    <3>1. /\ a[1] \in Int /\ b[1] \in Int /\ c[1] \in Int /\ a[2] \in Int /\ b[2] \in Int /\ c[2] \in Int
          /\ a[3] \in Int /\ b[3] \in Int /\ c[3] \in Int /\ a[4] \in Int /\ b[4] \in Int /\ c[4] \in Int
      BY <1>3
    <3>2. Before4(a, b) /\ Before4(b, c) => Before4(a, c)
      BY <3>1 DEF Before4
    <3> QED BY <1>2, <3>2
  <2>3. \A a, b \in H : a = b \/ <<a, b>> \in L \/ <<b, a>> \in L
    <3> TAKE a, b \in H
    <3>1. /\ a[1] \in Int /\ b[1] \in Int /\ a[2] \in Int /\ b[2] \in Int
          /\ a[3] \in Int /\ b[3] \in Int /\ a[4] \in Int /\ b[4] \in Int
      BY <1>3
    <3>2. Before4(a, b) \/ Before4(b, a) \/ (a[1] = b[1] /\ a[2] = b[2] /\ a[3] = b[3] /\ a[4] = b[4])
      BY <3>1 DEF Before4
    <3> QED BY <1>2, <1>4, <3>2
  <2> QED BY <2>1, <2>2, <2>3 DEF Total
<1>6. IsFiniteSet(H)
  BY HitsFinite
<1>7. s \in Seq(H) /\ Len(s) = Cardinality(H) /\ Cardinality(H) \in Nat
  BY <1>1, <1>5, <1>6, OrderedIs
<1>8. Listing(s) /\ \A i \in 1 .. Len(s) : s[i] \in H
  BY <1>7, ListingIs
<1> QED BY <1>7, <1>8 DEF s

LEMMA VariantsAreHits ==
  ASSUME NEW text, Listing(text), NEW surfaces, SurfacesOK(surfaces)
  PROVE  HitsOK(FindVariants(text, surfaces), Len(text), Len(surfaces))
<1> DEFINE H == {h \in HitsOf(text, surfaces) : /\ Accepted(text, h, h[3])
                                                /\ \A p \in Placeholders(text) : ~Meets(h, p)}
           s == Leftmost(H)
           n == Len(text)
           N == Len(surfaces)
<1>1. n \in Nat /\ N \in Nat
  BY ListingHas DEF SurfacesOK
<1>2. HitsOK(H, n, N)
  <2>1. HitsOK(HitsOf(text, surfaces), n, N)
    BY HitsAreOK
  <2>2. H \subseteq HitsOf(text, surfaces)
    OBVIOUS
  <2> HIDE DEF H
  <2> QED BY <2>1, <2>2 DEF HitsOK
<1>3. FindVariants(text, surfaces) = Finds(s)[Cardinality(H)]
  BY DEF FindVariants
<1> HIDE DEF H, n, N
<1>4. s \in Seq(H) /\ Len(s) = Cardinality(H) /\ Cardinality(H) \in Nat
  BY <1>1, <1>2, LeftmostIs
<1> HIDE DEF s
<1>5. Cardinality(H) \in 0 .. Len(s)
  BY <1>4
<1>6. FindVariants(text, surfaces) \subseteq H
  BY <1>3, <1>4, <1>5, FindsSome
<1> QED BY <1>2, <1>6 DEF HitsOK, n, N

LEMMA HitSpansAre ==
  ASSUME NEW n \in Nat, NEW N \in Nat, NEW H, HitsOK(H, n, N), NEW surfaces
  PROVE  SpansIn(HitSpans(H, surfaces), n)
<1> DEFINE q == Leftmost(H)
           l == Len(q)
           Of(i) == Span(q[i], UserType(FamilyHit(surfaces, q[i])), 0, ModeNames[q[i][3]])
           s == HitSpans(H, surfaces)
<1>1. l \in Nat /\ DOMAIN q = 1 .. l /\ \A i \in 1 .. l : q[i] \in H
  BY LeftmostIs, ListingHas
<1>2. s = [i \in DOMAIN q |-> Of(i)]
  BY DEF HitSpans
<1> HIDE DEF q, l, s
<1>3. DOMAIN s = 1 .. l /\ s = [i \in 1 .. l |-> s[i]] /\ \A i \in 1 .. l : s[i] = Of(i)
  BY <1>1, <1>2
<1>4. Listing(s)
  BY <1>1, <1>3, Listed
<1>5. ASSUME NEW i \in 1 .. l  PROVE SpanIn(Of(i), n)
  <2> DEFINE r == q[i]
             t == UserType(FamilyHit(surfaces, q[i]))
             c == ModeNames[q[i][3]]
  <2>1. r[1] \in 0 .. n /\ r[2] \in 0 .. n /\ r[1] < r[2]
    BY <1>1 DEF HitsOK, HitOK
  <2>2. Of(i) = Span(r, t, 0, c)
    OBVIOUS
  <2> HIDE DEF Of, r, t, c
  <2> QED BY <2>1, <2>2 DEF Span, SpanIn
<1> QED BY <1>3, <1>4, <1>5 DEF SpansIn, s

-----------------------------------------------------------------------------
(* The call of the engine: what has been done of the units is good, and    *)
(* has the reviewer's masks.                                               *)
Ruled(o, es, masks, terms, keep) ==
  /\ \A k \in DOMAIN masks : JointOK(masks[k], Len(o)) => Under(masks[k], es)
  /\ \A k \in DOMAIN terms : \A r \in TermRanges(o, terms[k][1]) : Contained(r, keep) \/ Under(r, es)
UnitDone(o, es, u, ov) == Good(es, Len(o)) /\ Ruled(o, es, ov.masks[u], ov.maskTerms, ov.keeps[u])
Done(call, units, m, ov) ==
  /\ Listing(call.done) /\ Len(call.done) = m
  /\ \A u \in 1 .. m : UnitDone(units[u], call.done[u], u, ov)
  /\ SurfacesOK(call.surfaces)
CallOK(call, units, m, ov) ==
  /\ call = [done |-> call.done, mapper |-> call.mapper, ok |-> call.ok, surfaces |-> call.surfaces]
  /\ call.ok => Done(call, units, m, ov)
DecisionsOK(ov, n) ==
  /\ Listing(ov.maskTerms)
  /\ \A u \in 1 .. n : MasksOK(ov.masks[u])

LEMMA RuledGrown ==
  ASSUME NEW o, Len(o) \in Nat, NEW es, NEW fs, Good(es, Len(o)), Good(fs, Len(o)), Grown(es, fs),
         NEW masks, NEW terms, NEW keep, Ruled(o, es, masks, terms, keep)
  PROVE  Ruled(o, fs, masks, terms, keep)
<1>1. ASSUME NEW k \in DOMAIN masks, JointOK(masks[k], Len(o))  PROVE Under(masks[k], fs)
  <2>1. Under(masks[k], es)
    BY <1>1 DEF Ruled
  <2>2. masks[k][1] \in Int /\ masks[k][2] \in Int
    BY <1>1 DEF JointOK
  <2> QED BY <2>1, <2>2, UnderGrown
<1>2. ASSUME NEW k \in DOMAIN terms, NEW r \in TermRanges(o, terms[k][1])
      PROVE  Contained(r, keep) \/ Under(r, fs)
  <2>1. Contained(r, keep) \/ Under(r, es)
    BY DEF Ruled
  <2>2. r[1] \in Int /\ r[2] \in Int
    <3>1. r[1] \in 0 .. Len(o) /\ r[2] \in 0 .. Len(o)
      BY TermRangesAre
    <3> QED BY <3>1
  <2> QED BY <2>1, <2>2, UnderGrown
<1> QED BY <1>1, <1>2 DEF Ruled

(* The fragments of a row that fit make good lists.                        *)
LEMMA FitsGood ==
  ASSUME NEW n \in Nat, NEW es, Listing(es), \A i \in DOMAIN es : EditOK(es[i], n), Fits(es)
  PROVE  Good(Sorted(ToSet(es)), n)
<1>1. Len(es) \in Nat /\ DOMAIN es = 1 .. Len(es)
  BY ListingHas
<1>2. IsFiniteSet(ToSet(es))
  BY ToSetFinite DEF Listing
<1>3. \A e \in ToSet(es) : EditOK(e, n)
  BY DEF ToSet
<1>4. ASSUME NEW e \in ToSet(es), NEW f \in ToSet(es), e # f  PROVE ~Meets(Extent(e), Extent(f))
  <2>1. PICK i \in DOMAIN es : e = es[i]
    BY DEF ToSet
  <2>2. PICK j \in DOMAIN es : f = es[j]
    BY DEF ToSet
  <2>3. i < j \/ j < i
    BY <1>1, <1>4, <2>1, <2>2
  <2>4. ~Meets(Extent(e), Extent(f)) \/ ~Meets(Extent(f), Extent(e))
    BY <2>1, <2>2, <2>3 DEF Fits
  <2>5. EditOK(e, n) /\ EditOK(f, n)
    BY <1>3
  <2>6. /\ Meets(Extent(e), Extent(f)) <=> (e.start < f.end /\ f.start < e.end)
        /\ Meets(Extent(f), Extent(e)) <=> (f.start < e.end /\ e.start < f.end)
    BY <2>5, EditsMeet
  <2> QED BY <2>4, <2>6
<1>5. Apart(ToSet(es), n)
  BY <1>2, <1>3, <1>4 DEF Apart
<1> QED BY <1>5, SortedGood

(* What is detected in a unit, outside the kept ranges.                    *)
LEMMA FoundIs ==
  ASSUME NEW o, Len(o) \in Nat, NEW u, Good(u.edits, Len(o)), NEW keep, NEW ps, PatternsOK(ps), NEW lists
  PROVE  SpansIn(Found(o, u, keep, ps, lists), Len(Text(o, u.edits)))
<1> DEFINE text == Text(o, u.edits)
           n == Len(text)
           q == Detect(ps, lists, text)
           S == {k \in DOMAIN q : ~ContainedIn(text, Extent(q[k]), KeepInCurrent(u.edits, keep))}
           X == ToSet(q)
           p == Picked(q, S)
<1>1. Listing(text)
  BY TextIs
<1> HIDE DEF text
<1>2. SpansIn(q, n)
  BY <1>1, DetectIs
<1>3. S \in SUBSET (DOMAIN q)
  OBVIOUS
<1>4. Found(o, u, keep, ps, lists) = p
  BY DEF Found, OutsideKept, text
<1> HIDE DEF q, S, n
<1>5. q \in Seq(X)
  BY <1>2 DEF SpansIn, Listing
<1> HIDE DEF X, p
<1>6. p \in Seq(X) /\ \A k \in DOMAIN p : \E i \in S : p[k] = q[i]
  BY <1>3, <1>5, PickedIs DEF p
<1>7. Listing(p)
  BY <1>6, ListingIs
<1>8. ASSUME NEW k \in DOMAIN p  PROVE SpanIn(p[k], n)
  <2>1. PICK i \in S : p[k] = q[i]
    BY <1>6
  <2>2. i \in DOMAIN q
    BY <1>3
  <2> QED BY <1>2, <2>1, <2>2 DEF SpansIn
<1>9. SpansIn(p, n)
  BY <1>7, <1>8 DEF SpansIn
<1> QED BY <1>4, <1>9 DEF n, text

(* _mask_unit: one more unit is done.                                      *)
LEMMA MaskFoundIs ==
  ASSUME NEW units, NEW m \in Nat, NEW ov, NEW call, CallOK(call, units, m, ov), call.ok,
         NEW j, j = m + 1, NEW o, o = units[j], Len(o) \in Nat,
         NEW u, Fine(o, u), u.ok, Ruled(o, u.edits, ov.masks[j], ov.maskTerms, ov.keeps[j]),
         NEW spans, SpansIn(spans, Len(Text(o, u.edits)))
  PROVE  CallOK(MaskFound(call, o, u, spans), units, j, ov)
<1> DEFINE v == ApplyAll(o, u, spans)
           text == Text(o, u.edits)
           more == [n \in DOMAIN spans |-> SurfaceOf(text, spans[n])]
           new == MaskFound(call, o, u, spans)
           d == call.done
<1>1. new = [done |-> Append(d, v.edits), mapper |-> v.mapper, ok |-> v.ok,
             surfaces |-> call.surfaces \o more]
  BY DEF MaskFound, WithUnit
<1>2. Done(call, units, m, ov)
  BY DEF CallOK
<1>3. Good(u.edits, Len(o))
  BY DEF Fine
<1>4. Listing(text) /\ Len(text) \in Nat
  <2>1. Listing(Text(o, u.edits))
    BY <1>3, TextIs
  <2> QED BY <2>1, ListingHas
<1>5. Fine(o, v) /\ (v.ok => Grown(u.edits, v.edits))
  <2>1. Listing(spans) /\ \A k \in DOMAIN spans : SpanOK(spans[k])
    <3> HIDE DEF text
    <3>1. Listing(spans) /\ \A k \in DOMAIN spans : SpanIn(spans[k], Len(text))
      BY DEF SpansIn, text
    <3>2. ASSUME NEW k \in DOMAIN spans  PROVE SpanOK(spans[k])
      BY <1>4, <3>1, SpanInts
    <3> QED BY <3>1, <3>2
  <2> QED BY <2>1, ApplyGood
<1> HIDE DEF v, new
<1>6. new = [done |-> new.done, mapper |-> new.mapper, ok |-> new.ok, surfaces |-> new.surfaces] /\ new.ok = v.ok
      /\ new.done = Append(d, v.edits) /\ new.surfaces = call.surfaces \o more
  BY <1>1
<1>7. SurfacesOK(new.surfaces)
  <2> HIDE DEF text
  <2>1. Listing(spans) /\ DOMAIN spans = 1 .. Len(spans) /\ Len(spans) \in Nat
    BY ListingHas DEF SpansIn
  <2>2. Listing(more) /\ Len(more) = Len(spans) /\ \A k \in 1 .. Len(spans) : more[k] = SurfaceOf(text, spans[k])
    <3>1. DOMAIN more = 1 .. Len(spans) /\ more = [i \in 1 .. Len(spans) |-> more[i]]
      BY <2>1
    <3>2. \A k \in 1 .. Len(spans) : more[k] = SurfaceOf(text, spans[k])
      BY <2>1
    <3> HIDE DEF more
    <3> QED BY <2>1, <3>1, <3>2, Listed
  <2>3. ASSUME NEW k \in 1 .. Len(spans), NEW f \in more[k].spellings  PROVE SpellingOK(f)
    <3>1. SpanIn(spans[k], Len(text))
      BY <2>1 DEF SpansIn, text
    <3> QED BY <1>4, <2>2, <3>1, SurfaceIs
  <2> DEFINE a == call.surfaces
  <2>4. Listing(a) /\ (\A k \in DOMAIN a : \A f \in a[k].spellings : SpellingOK(f)) /\ Len(a) \in Nat /\ DOMAIN a = 1 .. Len(a)
    BY <1>2, ListingHas DEF Done, SurfacesOK
  <2> HIDE DEF a, more
  <2>5. /\ Listing(a \o more) /\ Len(a \o more) = Len(a) + Len(more)
        /\ \A i \in 1 .. Len(a) : (a \o more)[i] = a[i]
        /\ \A i \in Len(a) + 1 .. Len(a) + Len(more) : (a \o more)[i] = more[i - Len(a)]
    BY <2>2, <2>4, Concatenated
  <2>6. DOMAIN (a \o more) = 1 .. Len(a) + Len(more)
    BY <2>5, ListingHas
  <2>7. ASSUME NEW k \in 1 .. Len(a) + Len(more), NEW f \in (a \o more)[k].spellings  PROVE SpellingOK(f)
    <3>1. CASE k <= Len(a)
      BY <2>4, <2>5, <2>7, <3>1
    <3>2. CASE k > Len(a)
      <4> DEFINE i == k - Len(a)
      <4>1. i \in 1 .. Len(spans) /\ k \in Len(a) + 1 .. Len(a) + Len(more)
        BY <2>1, <2>2, <2>4, <3>2
      <4>2. (a \o more)[k] = more[i]
        BY <2>5, <4>1
      <4> HIDE DEF i
      <4> QED BY <2>3, <2>7, <4>1, <4>2
    <3> QED BY <2>1, <2>2, <2>4, <3>1, <3>2
  <2>8. SurfacesOK(a \o more)
    BY <2>5, <2>6, <2>7 DEF SurfacesOK
  <2> QED BY <1>6, <2>8 DEF a
<1>8. ASSUME v.ok  PROVE Done(new, units, j, ov)
  <2>1. Listing(d) /\ Len(d) = m /\ \A i \in 1 .. m : UnitDone(units[i], d[i], i, ov)
    BY <1>2 DEF Done
  <2> HIDE DEF d
  <2>2. /\ Listing(Append(d, v.edits)) /\ Len(Append(d, v.edits)) = j
        /\ \A i \in 1 .. m : Append(d, v.edits)[i] = d[i]
        /\ Append(d, v.edits)[j] = v.edits
    BY <2>1, Appended
  <2>3. UnitDone(o, v.edits, j, ov)
    <3>1. Good(v.edits, Len(o)) /\ Grown(u.edits, v.edits)
      BY <1>5, <1>8 DEF Fine
    <3>2. Ruled(o, v.edits, ov.masks[j], ov.maskTerms, ov.keeps[j])
      BY <1>3, <3>1, RuledGrown
    <3> QED BY <3>1, <3>2 DEF UnitDone
  <2>4. ASSUME NEW i \in 1 .. j  PROVE UnitDone(units[i], Append(d, v.edits)[i], i, ov)
    <3>1. i \in 1 .. m \/ i = j
      OBVIOUS
    <3> QED BY <2>1, <2>2, <2>3, <3>1
  <2> QED BY <1>6, <1>7, <2>2, <2>4 DEF Done
<1> QED BY <1>6, <1>8 DEF CallOK, new

-----------------------------------------------------------------------------
(* A unit, the cells of a block, the blocks of a document.                 *)
LEMMA MaskUnitIs ==
  ASSUME NEW units, NEW m \in Nat, NEW ov, NEW call, CallOK(call, units, m, ov),
         NEW j, j = m + 1, NEW o, o = units[j], Listing(o), DecisionsOK(ov, j),
         NEW pre, call.ok => Good(Sorted(ToSet(pre)), Len(o)), NEW ps, PatternsOK(ps), NEW lists
  PROVE  LET new == MaskUnit(call, o, pre, ov, ps, lists)
         IN CallOK(new, units, j, ov) /\ (new.ok => call.ok)
<1>1. CASE ~call.ok
  BY <1>1 DEF MaskUnit, CallOK
<1>2. CASE call.ok
  <2> DEFINE u == [edits |-> Sorted(ToSet(pre)), mapper |-> call.mapper, ok |-> TRUE]
             v == ApplyForced(o, u, ov.masks[j], ov.maskTerms, ov.keeps[j])
             spans == Found(o, v, ov.keeps[j], ps, lists)
  <2>1. Len(call.done) + 1 = j
    BY <1>2 DEF CallOK, Done
  <2>2. MaskUnit(call, o, pre, ov, ps, lists) = MaskFound(call, o, v, spans)
    BY <1>2, <2>1 DEF MaskUnit, MaskForced
  <2>3. Fine(o, u) /\ u.ok
    <3>1. u = [edits |-> u.edits, mapper |-> u.mapper, ok |-> u.ok] /\ u.edits = Sorted(ToSet(pre)) /\ u.ok
      OBVIOUS
    <3> HIDE DEF u
    <3> QED BY <1>2, <3>1 DEF Fine, IsUnit
  <2> HIDE DEF u
  <2>4. Len(o) \in Nat /\ MasksOK(ov.masks[j]) /\ Listing(ov.maskTerms) /\ j \in 1 .. j
    BY ListingHas DEF DecisionsOK
  <2> DEFINE masks == ov.masks[j]
             keep == ov.keeps[j]
             terms == ov.maskTerms
  <2> HIDE DEF masks, keep, terms
  <2>5. /\ Fine(o, v) /\ v.ok = u.ok
        /\ \A k \in DOMAIN masks : JointOK(masks[k], Len(o)) => Under(masks[k], v.edits)
        /\ \A k \in DOMAIN terms : \A r \in TermRanges(o, terms[k][1]) :
             Contained(r, keep) \/ Under(r, v.edits)
    BY <2>3, <2>4, ApplyForcedGood DEF masks, keep, terms
  <2> HIDE DEF v
  <2>6. Ruled(o, v.edits, masks, terms, keep)
    BY <2>5 DEF Ruled
  <2>7. Good(v.edits, Len(o))
    BY <2>3, <2>5 DEF Fine
  <2>8. SpansIn(spans, Len(Text(o, v.edits)))
    BY <2>4, <2>7, FoundIs
  <2> HIDE DEF spans
  <2>9. CallOK(MaskFound(call, o, v, spans), units, j, ov)
    BY <1>2, <2>3, <2>4, <2>5, <2>6, <2>8, MaskFoundIs DEF masks, keep, terms
  <2> QED BY <1>2, <2>2, <2>9
<1> QED BY <1>1, <1>2

LEMMA DoneGrows ==
  ASSUME NEW units, NEW more, NEW m \in Nat, NEW ov, NEW call, CallOK(call, units, m, ov),
         \A u \in 1 .. m : more[u] = units[u]
  PROVE  CallOK(call, more, m, ov)
BY DEF CallOK, Done

LEMMA CellsAll ==
  ASSUME NEW X, NEW cells, CellsOK(cells, X), NEW units, NEW m \in Nat, NEW ov,
         \A k \in 1 .. Len(cells) : units[m + k] = cells[k], DecisionsOK(ov, m + Len(cells)),
         NEW call, CallOK(call, units, m, ov), NEW row, RowOK(row, cells), NEW ps, PatternsOK(ps), NEW lists
  PROVE  CallOK(CellsUpTo(call, cells, row, ov, ps, lists)[Len(cells)], units, m + Len(cells), ov)
<1> DEFINE l == Len(cells)
           f == CellsUpTo(call, cells, row, ov, ps, lists)
           Holds(k) == /\ CallOK(f[k], units, m + k, ov)
                       /\ f[k].ok => \A n \in DOMAIN cells : Fits(row.edits[n])
           T == {k \in Nat : k <= l => Holds(k)}
<1>1. /\ l \in Nat /\ DOMAIN cells = 1 .. l
      /\ \A k \in 1 .. l : Listing(cells[k]) /\ Len(cells[k]) \in Nat
  BY CellsAreTexts
<1>2. /\ f[0] = Opened(call, cells, row)
      /\ \A k \in 1 .. l : f[k] = MaskUnit(f[k - 1], cells[k], row.edits[k], ov, ps, lists)
  BY <1>1, CellsAre
<1> HIDE DEF f, l
<1>3. Holds(0)
  <2> DEFINE fits == \A n \in DOMAIN cells : Fits(row.edits[n])
             new == Opened(call, cells, row)
  <2>1. call = [done |-> call.done, mapper |-> call.mapper, ok |-> call.ok, surfaces |-> call.surfaces]
    BY DEF CallOK
  <2> HIDE DEF fits
  <2>2. new = [call EXCEPT !.mapper = row.mapper, !.ok = @ /\ fits]
    BY DEF Opened, fits
  <2>3. /\ new.done = call.done /\ new.surfaces = call.surfaces /\ (new.ok <=> (call.ok /\ fits))
        /\ new = [done |-> new.done, mapper |-> new.mapper, ok |-> new.ok, surfaces |-> new.surfaces]
    BY <2>1, <2>2
  <2> HIDE DEF new
  <2>4. CallOK(new, units, m, ov)
    BY <2>3 DEF CallOK, Done
  <2>5. m + 0 = m
    OBVIOUS
  <2> QED BY <1>2, <2>3, <2>4, <2>5 DEF fits, new
<1>4. ASSUME NEW k \in 1 .. l, Holds(k - 1)  PROVE Holds(k)
  <2> DEFINE i == m + (k - 1)
             j == m + k
             o == cells[k]
             c == f[k - 1]
             pre == row.edits[k]
  <2>1. i \in Nat /\ j = i + 1 /\ o = units[j] /\ Listing(o) /\ Len(o) \in Nat /\ j \in 1 .. m + l
    BY <1>1 DEF l
  <2>2. CallOK(c, units, i, ov) /\ (c.ok => \A n \in DOMAIN cells : Fits(row.edits[n]))
    BY <1>4
  <2>3. DecisionsOK(ov, j)
    <3>1. 1 .. j \subseteq 1 .. m + l
      BY <1>1, <2>1
    <3> QED BY <3>1 DEF DecisionsOK, l
  <2>4. f[k] = MaskUnit(c, o, pre, ov, ps, lists)
    BY <1>2
  <2>5. c.ok => Good(Sorted(ToSet(pre)), Len(o))
    <3>1. Listing(pre) /\ \A n \in DOMAIN pre : EditOK(pre[n], Len(o))
      BY DEF RowOK, l
    <3>2. c.ok => Fits(pre)
      BY <1>1, <2>2
    <3> HIDE DEF pre, o, c
    <3> QED BY <2>1, <3>1, <3>2, FitsGood
  <2> HIDE DEF i, j, o, c, pre
  <2>6. CallOK(f[k], units, j, ov) /\ (f[k].ok => c.ok)
    <3> DEFINE new == MaskUnit(c, o, pre, ov, ps, lists)
    <3>1. CallOK(c, units, i, ov) /\ i \in Nat /\ j = i + 1 /\ o = units[j] /\ Listing(o)
      BY <2>1, <2>2
    <3>2. CallOK(new, units, j, ov) /\ (new.ok => c.ok)
      BY <2>3, <2>5, <3>1, MaskUnitIs
    <3> HIDE DEF new
    <3>3. f[k] = new
      BY <2>4 DEF new
    <3> QED BY <3>2, <3>3
  <2> QED BY <2>2, <2>6 DEF j
<1> HIDE DEF Holds
<1>5. 0 \in T
  BY <1>3
<1>6. ASSUME NEW k \in Nat, k \in T  PROVE k + 1 \in T
  <2> SUFFICES ASSUME k + 1 <= l  PROVE Holds(k + 1)
    OBVIOUS
  <2> DEFINE j == k + 1
  <2>1. j \in 1 .. l /\ j - 1 = k /\ Holds(k)
    BY <1>1, <1>6
  <2> HIDE DEF j
  <2>2. Holds(j)
    BY <1>4, <2>1
  <2> QED BY <2>2 DEF j
<1>7. Nat \subseteq T
  <2> HIDE DEF T
  <2> QED BY <1>5, <1>6, Upwards
<1>8. Holds(l)
  BY <1>1, <1>7
<1> QED BY <1>8 DEF Holds, f, l

LEMMA MaskBlockIs ==
  ASSUME NEW X, NEW cells, CellsOK(cells, X), cells # << >>, NEW units, NEW m \in Nat, NEW ov,
         \A k \in 1 .. Len(cells) : units[m + k] = cells[k], DecisionsOK(ov, m + Len(cells)),
         NEW call, CallOK(call, units, m, ov), NEW ps, PatternsOK(ps), NEW lists
  PROVE  CallOK(MaskBlock(call, cells, ov, ps, lists), units, m + Len(cells), ov)
<1> DEFINE keep == [k \in DOMAIN cells |-> ov.keeps[Len(call.done) + k]]
           row == PremaskRow(call.mapper, cells, keep, ps, lists)
<1>1. RowOK(row, cells)
  <2> HIDE DEF keep
  <2> QED BY PremaskIs
<1>2. \/ MaskBlock(call, cells, ov, ps, lists) = CellsUpTo(call, cells, row, ov, ps, lists)[Len(cells)]
      \/ ~call.ok /\ MaskBlock(call, cells, ov, ps, lists) = call
  BY DEF MaskBlock
<1> HIDE DEF row
<1>3. ~call.ok => CallOK(call, units, m + Len(cells), ov)
  BY DEF CallOK
<1>4. CallOK(CellsUpTo(call, cells, row, ov, ps, lists)[Len(cells)], units, m + Len(cells), ov)
  BY <1>1, CellsAll
<1> QED BY <1>2, <1>3, <1>4

(* The units of the blocks so far are the first of the document's.         *)
LEMMA GrowsUp ==
  ASSUME NEW X, NEW ss, Len(ss) \in Nat, NEW f, Grows(f, ss), \A k \in 0 .. Len(ss) : f[k] \in Seq(X),
         \A k \in 1 .. Len(ss) : ss[k] \in Seq(X)
  PROVE  \A i \in 0 .. Len(ss) : Len(f[i]) \in Nat /\ Len(f[i]) <= Len(f[Len(ss)])
<1> DEFINE l == Len(ss)
           T == {k \in Nat : k <= l => \A i \in 0 .. k : Len(f[i]) <= Len(f[k])}
<1>1. \A k \in 0 .. l : Len(f[k]) \in Nat
  OBVIOUS
<1>2. 0 \in T
  <2>1. \A i \in 0 .. 0 : i = 0
    OBVIOUS
  <2>2. Len(f[0]) <= Len(f[0])
    <3>1. Len(f[0]) \in Nat
      BY <1>1
    <3> QED BY <3>1
  <2> QED BY <2>1, <2>2
<1>3. ASSUME NEW k \in Nat, k \in T  PROVE k + 1 \in T
  <2> SUFFICES ASSUME k + 1 <= l  PROVE \A i \in 0 .. k + 1 : Len(f[i]) <= Len(f[k + 1])
    OBVIOUS
  <2> DEFINE j == k + 1
  <2>1. j \in 1 .. l /\ j - 1 = k /\ j \in 0 .. l /\ k \in 0 .. l /\ \A i \in 0 .. k : Len(f[i]) <= Len(f[k])
    BY <1>3
  <2> HIDE DEF j
  <2>2. f[j] = f[k] \o ss[j] /\ f[k] \in Seq(X) /\ ss[j] \in Seq(X)
    BY <2>1 DEF Grows
  <2>3. Len(f[j]) = Len(f[k]) + Len(ss[j]) /\ Len(ss[j]) \in Nat
    BY <2>2
  <2>4. ASSUME NEW i \in 0 .. j  PROVE Len(f[i]) <= Len(f[j])
    <3>1. i = j \/ i \in 0 .. k
      BY <2>1
    <3>2. i \in 0 .. l
      BY <2>1
    <3>3. Len(f[i]) \in Nat /\ Len(f[j]) \in Nat /\ Len(f[k]) \in Nat
      BY <1>1, <2>1, <3>2
    <3>4. CASE i = j
      BY <3>3, <3>4
    <3>5. CASE i \in 0 .. k
      <4>1. Len(f[i]) <= Len(f[k])
        BY <2>1, <3>5
      <4> DEFINE a == Len(f[i])
                 b == Len(f[k])
                 c == Len(f[j])
                 e == Len(ss[j])
      <4>2. a \in Nat /\ b \in Nat /\ c \in Nat /\ e \in Nat /\ c = b + e /\ a <= b
        BY <2>3, <3>3, <4>1
      <4> HIDE DEF a, b, c, e
      <4>3. a <= c
        BY <4>2
      <4> QED BY <4>3 DEF a, c
    <3> QED BY <3>1, <3>4, <3>5
  <2> QED BY <2>4 DEF j
<1>4. Nat \subseteq T
  <2> HIDE DEF T
  <2> QED BY <1>2, <1>3, Upwards
<1>5. \A i \in 0 .. l : Len(f[i]) <= Len(f[l])
  BY <1>4
<1> QED BY <1>1, <1>5

DocumentOK(d) == d \in Seq(Seq(Seq(Symbols))) /\ \A b \in DOMAIN d : d[b] # << >>

LEMMA UnitsAre ==
  ASSUME NEW d, DocumentOK(d)
  PROVE  LET us == FlattenSeq(d)
         IN /\ us \in Seq(Seq(Symbols)) /\ Len(us) \in Nat /\ DOMAIN us = 1 .. Len(us)
            /\ \A u \in 1 .. Len(us) : us[u] \in Seq(Symbols) /\ Listing(us[u]) /\ Len(us[u]) \in Nat
<1> DEFINE us == FlattenSeq(d)
<1>1. us \in Seq(Seq(Symbols))
  <2>1. d \in Seq(Seq(Seq(Symbols))) /\ Len(d) \in 0 .. Len(d)
    BY DEF DocumentOK
  <2>2. PICK f : Grows(f, d) /\ f[Len(d)] = FlattenSeq(d) /\ \A k \in 0 .. Len(d) : f[k] \in Seq(Seq(Symbols))
    BY <2>1, FlatIs
  <2> QED BY <2>1, <2>2
<1> HIDE DEF us
<1>2. Len(us) \in Nat /\ DOMAIN us = 1 .. Len(us) /\ \A u \in 1 .. Len(us) : us[u] \in Seq(Symbols)
  BY <1>1
<1>3. \A u \in 1 .. Len(us) : Listing(us[u]) /\ Len(us[u]) \in Nat
  BY <1>2, ListingIs
<1> QED BY <1>1, <1>2, <1>3 DEF us

LEMMA BlocksAll ==
  ASSUME NEW d, DocumentOK(d), NEW ov, DecisionsOK(ov, Len(FlattenSeq(d))), NEW ps, PatternsOK(ps), NEW lists
  PROVE  CallOK(BlocksUpTo(d, ps, lists, ov)[Len(d)], FlattenSeq(d), Len(FlattenSeq(d)), ov)
<1> DEFINE X == Seq(Symbols)
           l == Len(d)
           us == FlattenSeq(d)
           g == BlocksUpTo(d, ps, lists, ov)
<1>1. d \in Seq(Seq(X)) /\ l \in Nat /\ DOMAIN d = 1 .. l /\ \A b \in 1 .. l : d[b] \in Seq(X) /\ d[b] # << >>
  BY DEF DocumentOK
<1>2. PICK f : Grows(f, d) /\ f[l] = us /\ \A k \in 0 .. l : f[k] \in Seq(X)
  BY <1>1, FlatIs
<1>3. /\ g[0] = Start
      /\ \A b \in 1 .. l : g[b] = MaskBlock(g[b - 1], d[b], ov, ps, lists)
  <2>1. Len(d) \in Nat
    BY <1>1
  <2> HIDE <1>1, <1>2
  <2> QED BY <2>1, BlocksAre
<1> HIDE DEF l, us, g, X
<1>4. \A i \in 0 .. l : Len(f[i]) \in Nat /\ Len(f[i]) <= Len(us)
  <2>1. \A i \in 0 .. l : Len(f[i]) \in Nat /\ Len(f[i]) <= Len(f[l])
    BY <1>1, <1>2, GrowsUp DEF l
  <2> QED BY <1>2, <2>1
<1> DEFINE Holds(b) == CallOK(g[b], f[b], Len(f[b]), ov)
           T == {b \in Nat : b <= l => Holds(b)}
<1>5. Holds(0)
  <2>1. f[0] = << >> /\ Len(f[0]) = 0
    BY <1>2 DEF Grows
  <2>2. /\ Start = [done |-> Start.done, mapper |-> Start.mapper, ok |-> Start.ok, surfaces |-> Start.surfaces]
        /\ Start.done = << >> /\ Start.surfaces = << >>
    BY DEF Start
  <2>3. Listing(<<>>) /\ DOMAIN <<>> = {} /\ Len(<<>>) = 0
    BY DEF Listing
  <2>4. SurfacesOK(<<>>)
    BY <2>3 DEF SurfacesOK
  <2>5. \A u \in 1 .. 0 : UnitDone(f[0][u], << >>[u], u, ov)
    OBVIOUS
  <2>6. Done(Start, f[0], 0, ov)
    BY <2>2, <2>3, <2>4, <2>5 DEF Done
  <2>7. CallOK(Start, f[0], 0, ov)
    BY <2>2, <2>6 DEF CallOK
  <2> QED BY <1>3, <2>1, <2>7
<1>6. ASSUME NEW b \in 1 .. l, Holds(b - 1)  PROVE Holds(b)
  <2> DEFINE c == g[b - 1]
             cells == d[b]
             old == f[b - 1]
             new == f[b]
             m == Len(old)
             k == Len(cells)
  <2>1. cells \in Seq(X) /\ cells # << >> /\ old \in Seq(X) /\ new = old \o cells /\ m \in Nat /\ k \in Nat
    <3>1. b - 1 \in 0 .. l
      BY <1>1
    <3>2. cells \in Seq(X) /\ cells # << >>
      BY <1>1
    <3>3. old \in Seq(X)
      BY <1>2, <3>1
    <3>4. new = old \o cells
      BY <1>2 DEF Grows, l
    <3> HIDE DEF cells, old, new
    <3> QED BY <3>2, <3>3, <3>4
  <2>2. Len(new) = m + k /\ m + k <= Len(us)
    <3>1. Len(new) = m + k
      BY <2>1
    <3>2. Len(f[b]) <= Len(us)
      BY <1>1, <1>4
    <3> QED BY <3>1, <3>2
  <2>3. g[b] = MaskBlock(c, cells, ov, ps, lists)
    BY <1>3
  <2>4. CallOK(c, old, m, ov)
    BY <1>6
  <2> HIDE DEF c, cells, old, new, k
  <2>5. CallOK(c, new, m, ov)
    <3>1. \A u \in 1 .. m : new[u] = old[u]
      BY <2>1
    <3> QED BY <2>1, <2>4, <3>1, DoneGrows
  <2>6. CellsOK(cells, Symbols)
    BY <2>1 DEF CellsOK, X
  <2>7. \A i \in 1 .. k : new[m + i] = cells[i]
    <3> TAKE i \in 1 .. k
    <3>1. m + i \in m + 1 .. m + k /\ m + i - m = i
      BY <2>1
    <3> QED BY <2>1, <3>1 DEF k
  <2>8. DecisionsOK(ov, m + k)
    <3>1. DecisionsOK(ov, Len(us))
      BY DEF us
    <3>2. Len(us) \in Nat
      BY UnitsAre DEF us
    <3>3. 1 .. m + k \subseteq 1 .. Len(us)
      BY <2>1, <2>2, <3>2
    <3> QED BY <3>1, <3>3 DEF DecisionsOK
  <2>9. CallOK(MaskBlock(c, cells, ov, ps, lists), new, m + k, ov)
    BY <2>1, <2>5, <2>6, <2>7, <2>8, MaskBlockIs DEF k
  <2>10. CallOK(g[b], new, m + k, ov)
    BY <2>3, <2>9
  <2> QED BY <2>2, <2>10 DEF new
<1> HIDE DEF Holds
<1>7. 0 \in T
  BY <1>5
<1>8. ASSUME NEW b \in Nat, b \in T  PROVE b + 1 \in T
  <2> SUFFICES ASSUME b + 1 <= l  PROVE Holds(b + 1)
    OBVIOUS
  <2> DEFINE j == b + 1
  <2>1. j \in 1 .. l /\ j - 1 = b /\ Holds(b)
    BY <1>1, <1>8
  <2> HIDE DEF j
  <2>2. Holds(j)
    BY <1>6, <2>1
  <2> QED BY <2>2 DEF j
<1>9. Nat \subseteq T
  <2> HIDE DEF T
  <2> QED BY <1>7, <1>8, Upwards
<1>10. Holds(l)
  BY <1>1, <1>9
<1> QED BY <1>2, <1>10 DEF Holds, us, l, g

-----------------------------------------------------------------------------
(* Propagation: a unit whose other spellings are masked stays good, and    *)
(* keeps the reviewer's masks.                                             *)
LEMMA SpellingsAreHits ==
  ASSUME NEW call, SurfacesOK(call.surfaces), NEW o, NEW u, NEW ov, Listing(Text(o, call.done[u]))
  PROVE  HitsOK(Spellings(call, o, u, ov), Len(Text(o, call.done[u])), Len(call.surfaces))
<1> DEFINE text == Text(o, call.done[u])
<1>1. HitsOK(FindVariants(text, call.surfaces), Len(text), Len(call.surfaces))
  BY VariantsAreHits
<1>2. Spellings(call, o, u, ov) \subseteq Variants(call, o, u, ov.keeps[u])
  BY DEF Spellings
<1>3. Variants(call, o, u, ov.keeps[u]) \subseteq FindVariants(text, call.surfaces)
  BY DEF Variants
<1> QED BY <1>1, <1>2, <1>3 DEF HitsOK

LEMMA RespellIs ==
  ASSUME NEW units, NEW n \in Nat, NEW ov, NEW call, CallOK(call, units, n, ov),
         NEW u \in 1 .. n, NEW o, o = units[u], Len(o) \in Nat
  PROVE  CallOK(Respell(call, o, u, ov), units, n, ov)
<1>1. CASE ~call.ok
  BY <1>1 DEF Respell, Respelled
<1>2. CASE call.ok
  <2> DEFINE d == call.done
             x == [edits |-> d[u], mapper |-> call.mapper, ok |-> TRUE]
             hits == Spellings(call, o, u, ov)
             spans == HitSpans(hits, call.surfaces)
             v == ApplyAll(o, x, spans)
             w == [d EXCEPT ![u] = v.edits]
             new == Respell(call, o, u, ov)
             text == Text(o, d[u])
  <2>1. /\ Listing(d) /\ Len(d) = n /\ SurfacesOK(call.surfaces)
        /\ \A i \in 1 .. n : UnitDone(units[i], d[i], i, ov)
        /\ call = [done |-> d, mapper |-> call.mapper, ok |-> call.ok, surfaces |-> call.surfaces]
    BY <1>2 DEF CallOK, Done
  <2>2. UnitDone(o, d[u], u, ov)
    BY <2>1
  <2>3. Good(d[u], Len(o)) /\ Ruled(o, d[u], ov.masks[u], ov.maskTerms, ov.keeps[u])
    BY <2>2 DEF UnitDone
  <2>4. Listing(text) /\ Len(text) \in Nat /\ Len(call.surfaces) \in Nat
    <3>1. Listing(text)
      BY <2>3, TextIs
    <3>2. Listing(call.surfaces)
      BY <2>1 DEF SurfacesOK
    <3> QED BY <3>1, <3>2, ListingHas
  <2>5. HitsOK(hits, Len(text), Len(call.surfaces))
    BY <2>1, <2>4, SpellingsAreHits
  <2> HIDE DEF hits, text
  <2>6. SpansIn(spans, Len(text))
    BY <2>4, <2>5, HitSpansAre
  <2> HIDE DEF spans
  <2>7. Listing(spans) /\ \A k \in DOMAIN spans : SpanOK(spans[k])
    <3>1. Listing(spans) /\ \A k \in DOMAIN spans : SpanIn(spans[k], Len(text))
      BY <2>6 DEF SpansIn
    <3>2. ASSUME NEW k \in DOMAIN spans  PROVE SpanOK(spans[k])
      BY <2>4, <3>1, SpanInts
    <3> QED BY <3>1, <3>2
  <2>8. Fine(o, x) /\ x.edits = d[u]
    <3>1. x = [edits |-> x.edits, mapper |-> x.mapper, ok |-> x.ok] /\ x.edits = d[u]
      OBVIOUS
    <3> HIDE DEF x
    <3> QED BY <2>3, <3>1 DEF Fine, IsUnit
  <2>9. new = [call EXCEPT !.done[u] = v.edits, !.mapper = v.mapper, !.ok = v.ok]
    BY <1>2 DEF Respell, Respelled, spans, hits
  <2> HIDE DEF x
  <2>10. Fine(o, v) /\ (v.ok => Grown(d[u], v.edits))
    BY <2>7, <2>8, ApplyGood
  <2> HIDE DEF v, new
  <2>11. /\ new = [done |-> new.done, mapper |-> new.mapper, ok |-> new.ok, surfaces |-> new.surfaces]
         /\ new.done = w /\ new.ok = v.ok /\ new.surfaces = call.surfaces
    <3> DEFINE a == call.mapper
               b == call.ok
               c == call.surfaces
    <3>1. call = [done |-> d, mapper |-> a, ok |-> b, surfaces |-> c]
      BY <2>1
    <3> HIDE DEF d, a, b, c
    <3>2. call.done = d
      BY <3>1
    <3>3. new = [done |-> [d EXCEPT ![u] = v.edits], mapper |-> v.mapper, ok |-> v.ok, surfaces |-> c]
      BY <2>9, <3>1, <3>2
    <3> QED BY <3>3 DEF c
  <2>12. ASSUME v.ok  PROVE Done(new, units, n, ov)
    <3>1. DOMAIN d = 1 .. n
      BY <2>1, ListingHas
    <3> HIDE DEF d
    <3>2. DOMAIN w = 1 .. n /\ w = [i \in 1 .. n |-> w[i]] /\ w[u] = v.edits /\ \A i \in 1 .. n : i # u => w[i] = d[i]
      BY <3>1
    <3> HIDE DEF w
    <3>3. Listing(w) /\ Len(w) = n
      BY <3>2, Listed
    <3>4. UnitDone(o, v.edits, u, ov)
      <4>1. Good(v.edits, Len(o)) /\ Grown(d[u], v.edits)
        BY <2>10, <2>12 DEF Fine
      <4>2. Ruled(o, v.edits, ov.masks[u], ov.maskTerms, ov.keeps[u])
        BY <2>3, <4>1, RuledGrown
      <4> QED BY <4>1, <4>2 DEF UnitDone
    <3>5. \A i \in 1 .. n : UnitDone(units[i], w[i], i, ov)
      BY <2>1, <3>2, <3>4
    <3> QED BY <2>1, <2>11, <3>3, <3>5 DEF Done
  <2> QED BY <2>11, <2>12 DEF CallOK, new
<1> QED BY <1>1, <1>2

LEMMA RespelledAll ==
  ASSUME NEW units, Len(units) \in Nat, \A u \in 1 .. Len(units) : Len(units[u]) \in Nat,
         NEW ov, NEW call, CallOK(call, units, Len(units), ov)
  PROVE  CallOK(Propagate(call, units, ov), units, Len(units), ov)
<1> DEFINE l == Len(units)
           f == RespelledUpTo(call, units, ov)
           Holds(k) == CallOK(f[k], units, l, ov)
           T == {k \in Nat : k <= l => Holds(k)}
<1>1. /\ f[0] = call
      /\ \A k \in 1 .. l : f[k] = Respell(f[k - 1], units[k], k, ov)
  BY RespelledIs
<1> HIDE DEF f, l
<1>2. 0 \in T
  BY <1>1 DEF l
<1>3. ASSUME NEW k \in 1 .. l, Holds(k - 1)  PROVE Holds(k)
  BY <1>1, <1>3, RespellIs DEF l
<1> HIDE DEF Holds
<1>4. ASSUME NEW k \in Nat, k \in T  PROVE k + 1 \in T
  <2> SUFFICES ASSUME k + 1 <= l  PROVE Holds(k + 1)
    OBVIOUS
  <2> DEFINE j == k + 1
  <2>1. j \in 1 .. l /\ j - 1 = k /\ Holds(k)
    BY <1>4 DEF l
  <2> HIDE DEF j
  <2>2. Holds(j)
    BY <1>3, <2>1
  <2> QED BY <2>2 DEF j
<1>5. Nat \subseteq T
  <2> HIDE DEF T
  <2> QED BY <1>2, <1>4, Upwards
<1>6. Holds(l)
  BY <1>5 DEF l
<1> QED BY <1>6 DEF Holds, f, l, Propagate

(* A call that ends well leaves good lists with the reviewer's masks.      *)
LEMMA AnonymizeIs ==
  ASSUME NEW d, DocumentOK(d), NEW ov, DecisionsOK(ov, Len(FlattenSeq(d))), NEW ps, PatternsOK(ps), NEW lists
  PROVE  LET call == Anonymize(d, ps, lists, ov)
             us == FlattenSeq(d)
         IN call.ok => /\ Len(call.done) = Len(us)
                       /\ \A u \in 1 .. Len(us) : UnitDone(us[u], call.done[u], u, ov)
<1> DEFINE us == FlattenSeq(d)
           c == BlocksUpTo(d, ps, lists, ov)[Len(d)]
<1>1. CallOK(c, us, Len(us), ov)
  BY BlocksAll
<1>2. Len(us) \in Nat /\ \A u \in 1 .. Len(us) : Len(us[u]) \in Nat
  BY UnitsAre
<1>3. Anonymize(d, ps, lists, ov) = Propagate(c, us, ov)
  BY DEF Anonymize
<1> HIDE DEF us, c
<1>4. CallOK(Propagate(c, us, ov), us, Len(us), ov)
  BY <1>1, <1>2, RespelledAll
<1> QED BY <1>3, <1>4 DEF CallOK, Done, us

-----------------------------------------------------------------------------
(* The ends of an occurrence of a term are original symbols.               *)
OneSign(c) == Len(c) = 1

(* The first and the last symbol of a text that begins and ends with a     *)
(* word are in its words.                                                  *)
LEMMA EndsInWords ==
  ASSUME NEW text, Listing(text), text # << >>, ~IsSpace(text[1]), ~IsSpace(text[Len(text)])
  PROVE  \A i \in {1, Len(text)} :
           \E k \in DOMAIN Words(text) : \E j \in DOMAIN Words(text)[k] : Words(text)[k][j] = text[i]
<1> DEFINE n == Len(text)
           solid == {i \in DOMAIN text : ~IsSpace(text[i])}
           begins == {i \in solid : i - 1 \notin solid}
           starts == Ascending(begins)
           Solid(i) == {j \in solid : j >= i /\ j + 1 \notin solid}
           End(i) == Min(Solid(i))
           words == Words(text)
<1>1. n \in Nat /\ DOMAIN text = 1 .. n /\ 1 <= n
  <2>1. n \in Nat /\ DOMAIN text = 1 .. n /\ text \in Seq(ToSet(text))
    BY ListingHas DEF Listing
  <2> QED BY <2>1
<1>2. solid \subseteq 1 .. n /\ IsFiniteSet(solid) /\ solid \subseteq Int /\ 1 \in solid /\ n \in solid
  <2>1. solid \subseteq 1 .. n /\ 1 \in solid /\ n \in solid
    BY <1>1
  <2>2. IsFiniteSet(1 .. n) /\ 1 .. n \subseteq Int
    BY <1>1, FirstNumbers
  <2> HIDE DEF solid
  <2> QED BY <2>1, <2>2, FS_Subset
<1>3. words = [k \in DOMAIN starts |-> SubSeq(text, starts[k], End(starts[k]))]
  BY DEF Words
<1> HIDE DEF solid, words, n
<1>4. begins \subseteq solid /\ IsFiniteSet(begins) /\ begins \subseteq Int /\ \A i \in begins : i - 1 \notin solid
  BY <1>2, FS_Subset
<1>5. \A i \in solid : i - 1 \notin solid => i \in begins
  OBVIOUS
<1> HIDE DEF begins
<1>6. /\ DOMAIN starts = 1 .. Cardinality(begins)
      /\ \A i \in begins : \E k \in 1 .. Cardinality(begins) : starts[k] = i
  BY <1>4, AscendingIs
<1> HIDE DEF starts
<1>7. ASSUME NEW i \in begins  PROVE \E k \in DOMAIN words : words[k] = SubSeq(text, i, End(i))
  <2>1. PICK k \in DOMAIN starts : starts[k] = i
    BY <1>6
  <2> HIDE DEF End
  <2>2. k \in DOMAIN words /\ words[k] = SubSeq(text, i, End(i))
    BY <1>3, <2>1
  <2> QED BY <2>2
<1>8. ASSUME NEW i \in solid
      PROVE  Solid(i) \subseteq solid /\ End(i) \in Solid(i) /\ \A j \in Solid(i) : End(i) <= j
  <2>1. n + 1 \notin solid /\ i <= n
    BY <1>1, <1>2
  <2>2. n \in Solid(i)
    BY <1>1, <1>2, <2>1
  <2>3. Solid(i) \subseteq solid
    OBVIOUS
  <2> HIDE DEF Solid
  <2>4. IsFiniteSet(Solid(i)) /\ Solid(i) \subseteq Int /\ Solid(i) # {}
    BY <1>2, <2>2, <2>3, FS_Subset
  <2> QED BY <2>3, <2>4, MinMax
<1>9. \A i \in solid : End(i) \in solid /\ i <= End(i) /\ End(i) + 1 \notin solid
  <2> HIDE DEF End
  <2> QED BY <1>2, <1>8
<1> HIDE DEF Solid, End
<1>10. ASSUME NEW i \in begins, NEW j \in {i, End(i)}
       PROVE  \E k \in DOMAIN words : \E l \in DOMAIN words[k] : words[k][l] = text[j]
  <2> DEFINE b == End(i)
             w == SubSeq(text, i, b)
             l == j - i + 1
  <2>1. i \in Nat /\ b \in Nat /\ 1 <= i /\ i <= b /\ b <= n /\ j \in {i, b}
    <3>1. i \in solid /\ b \in solid /\ i <= b /\ j \in {i, b}
      BY <1>4, <1>9
    <3> HIDE DEF b
    <3>2. i \in 1 .. n /\ b \in 1 .. n
      BY <1>2, <3>1
    <3> QED BY <1>1, <3>1, <3>2
  <2>2. PICK k \in DOMAIN words : words[k] = w
    BY <1>7
  <2> HIDE DEF b
  <2>3. Listing(w) /\ Len(w) = b - i + 1 /\ \A m \in 1 .. b - i + 1 : w[m] = text[i + m - 1]
    BY <2>1, SubIs DEF n
  <2>4. DOMAIN w = 1 .. b - i + 1
    BY <2>3, ListingHas
  <2>5. l \in 1 .. b - i + 1 /\ i + l - 1 = j
    BY <2>1
  <2> HIDE DEF w, l
  <2>6. l \in DOMAIN words[k] /\ words[k][l] = text[j]
    BY <2>2, <2>3, <2>4, <2>5
  <2> QED BY <2>6
<1>11. 1 \in begins
  <2>1. 1 - 1 \notin solid
    BY <1>1, <1>2
  <2> QED BY <1>2, <1>5, <2>1
<1>12. \E s \in begins : End(s) = n
  <2> DEFINE s == Max(begins)
             e == End(s)
  <2>1. s \in begins /\ \A x \in begins : x <= s
    BY <1>4, <1>11, MinMax
  <2>2. e \in solid /\ s <= e /\ e + 1 \notin solid
    BY <1>4, <1>9, <2>1
  <2>3. s \in Int /\ e \in Int /\ 1 <= s /\ e <= n
    <3>1. s \in solid /\ e \in solid
      BY <1>4, <2>1, <2>2
    <3> HIDE DEF s, e
    <3>2. s \in 1 .. n /\ e \in 1 .. n
      BY <1>2, <3>1
    <3> QED BY <1>1, <3>2
  <2> HIDE DEF s, e
  <2>4. ASSUME e # n  PROVE FALSE
    <3> DEFINE R == {x \in solid : x > e}
               m == Min(R)
    <3>1. n \in R /\ R \subseteq solid /\ \A x \in R : x > e
      BY <1>1, <1>2, <2>3, <2>4
    <3>2. \A x \in solid : x > e => x \in R
      OBVIOUS
    <3> HIDE DEF R
    <3>3. IsFiniteSet(R) /\ R \subseteq Int /\ R # {}
      BY <1>2, <3>1, FS_Subset
    <3>4. m \in R /\ \A x \in R : m <= x
      BY <3>3, MinMax
    <3> HIDE DEF m
    <3>5. m \in solid /\ m > e /\ m \in Int /\ m # e + 1
      BY <2>2, <3>1, <3>3, <3>4
    <3>6. m - 1 \notin solid
      <4>1. ASSUME m - 1 \in solid  PROVE FALSE
        <5>1. m - 1 > e
          BY <2>3, <3>5
        <5>2. m <= m - 1
          BY <3>2, <3>4, <4>1, <5>1
        <5> QED BY <3>5, <5>2
      <4> QED BY <4>1
    <3>7. m \in begins
      BY <1>5, <3>5, <3>6
    <3>8. m <= s
      BY <2>1, <3>7
    <3> QED BY <2>2, <2>3, <3>5, <3>8
  <2> QED BY <2>1, <2>4 DEF e
<1>13. \E k \in DOMAIN words : \E j \in DOMAIN words[k] : words[k][j] = text[1]
  BY <1>10, <1>11
<1>14. \E k \in DOMAIN words : \E j \in DOMAIN words[k] : words[k][j] = text[n]
  <2>1. PICK s \in begins : End(s) = n
    BY <1>12
  <2>2. n \in {s, End(s)}
    BY <2>1
  <2> QED BY <1>10, <2>2
<1> QED BY <1>13, <1>14 DEF words, n

LEMMA FoldedSign ==
  ASSUME NEW c, Folded(c) \in Symbols
  PROVE  Len(c) = 1
<1>1. CASE IsUpper(c)
  BY <1>1 DEF IsUpper
<1>2. CASE ~IsUpper(c)
  <2>1. c \in Symbols
    BY <1>2 DEF Folded
  <2>2. PICK x \in Signs : c = <<x>>
    BY <2>1 DEF Symbols
  <2> QED BY <2>2
<1> QED BY <1>1, <1>2

(* An occurrence of a term begins and ends with one sign.                  *)
LEMMA TermEnds ==
  ASSUME NEW text, Listing(text), NEW term, term \in Terms, NEW r \in TermRanges(text, term)
  PROVE  /\ r[1] \in 0 .. Len(text) /\ r[2] \in 0 .. Len(text) /\ r[1] < r[2]
         /\ Len(text[r[1] + 1]) = 1 /\ Len(text[r[2]]) = 1
<1> DEFINE a == r[1]
           b == r[2]
           n == Len(text)
           piece == Piece(text, <<a, b>>)
           words == Words(piece)
<1>1. n \in Nat
  BY ListingHas
<1>2. /\ r = <<a, b>> /\ a \in 0 .. n /\ b \in 0 .. n /\ a < b
      /\ ~IsSpace(text[a + 1]) /\ ~IsSpace(text[b]) /\ Key(Piece(text, r)) = term
  BY <1>1, TermRangesAre
<1>3. Key(piece) = term
  BY <1>2
<1> HIDE DEF a, b
<1>4. a \in Nat /\ b \in Nat /\ (a < b => b <= n)
  BY <1>1, <1>2
<1>5. Listing(piece) /\ Len(piece) = b - a /\ \A i \in 1 .. b - a : piece[i] = text[a + i]
  <2>1. Listing(piece) /\ (Len(piece) = IF a < b THEN b - a ELSE 0) /\ \A i \in 1 .. Len(piece) : piece[i] = text[a + i]
    BY <1>4, PieceIs DEF n
  <2> HIDE DEF piece
  <2>2. Len(piece) = b - a
    BY <1>2, <2>1
  <2> QED BY <2>1, <2>2
<1> HIDE DEF piece, n
<1>6. /\ 1 \in 1 .. b - a /\ b - a \in 1 .. b - a /\ a + 1 = a + 1 /\ a + (b - a) = b
  BY <1>2, <1>4
<1>7. piece[1] = text[a + 1] /\ piece[Len(piece)] = text[b]
  <2> DEFINE l == b - a
  <2>1. l \in 1 .. l /\ 1 \in 1 .. l /\ a + l = b
    BY <1>6
  <2> QED BY <1>5, <2>1
<1>8. piece # << >>
  <2>1. Len(piece) # 0
    BY <1>2, <1>4, <1>5
  <2> QED BY <2>1
<1>9. \A i \in {1, Len(piece)} :
        \E k \in DOMAIN words : \E j \in DOMAIN words[k] : words[k][j] = piece[i]
  BY <1>2, <1>5, <1>7, <1>8, EndsInWords
<1>10. Listing(words) /\ DOMAIN words = 1 .. Len(words) /\ \A k \in 1 .. Len(words) : Listing(words[k])
  BY <1>5, WordsAre
<1>11. term = [k \in DOMAIN words |-> [i \in DOMAIN words[k] |-> Folded(words[k][i])]]
  BY <1>3 DEF Key, FoldedWords
<1> HIDE DEF words
<1>12. ASSUME NEW k \in DOMAIN words, NEW j \in DOMAIN words[k]  PROVE Len(words[k][j]) = 1
  <2> DEFINE w == term[k]
  <2>1. k \in DOMAIN term /\ w = [i \in DOMAIN words[k] |-> Folded(words[k][i])]
    BY <1>11
  <2> HIDE DEF w
  <2>2. j \in DOMAIN w /\ w[j] = Folded(words[k][j])
    BY <2>1
  <2>3. w \in Seq(Symbols)
    <3>1. term \in Seq(Seq(Symbols))
      BY DEF Terms
    <3> HIDE <1>11
    <3> QED BY <2>1, <3>1 DEF w
  <2>4. w[j] \in Symbols
    BY <2>2, <2>3
  <2> QED BY <2>2, <2>4, FoldedSign
<1>13. Len(piece[1]) = 1 /\ Len(piece[Len(piece)]) = 1
  <2>1. PICK k \in DOMAIN words : \E j \in DOMAIN words[k] : words[k][j] = piece[1]
    BY <1>9
  <2>2. Len(piece[1]) = 1
    BY <1>12, <2>1
  <2>3. PICK l \in DOMAIN words : \E j \in DOMAIN words[l] : words[l][j] = piece[Len(piece)]
    BY <1>9
  <2>4. Len(piece[Len(piece)]) = 1
    BY <1>12, <2>3
  <2> QED BY <2>2, <2>4
<1> QED BY <1>2, <1>7, <1>13 DEF a, b, n

(* So an occurrence in the masked text stands at a range of the original.  *)
PointsAt(o, es, r) ==
  LET q == OriginalRange(es, r)
  IN /\ q \in Int \X Int
     /\ o[q[1] + 1] = Text(o, es)[r[1] + 1] /\ o[q[2]] = Text(o, es)[r[2]]
LEMMA OccurrencePoints ==
  ASSUME NEW o, Len(o) \in Nat, NEW es, Good(es, Len(o)), NEW term \in Terms,
         NEW r \in TermRanges(Text(o, es), term)
  PROVE  PointsAt(o, es, r)
<1> DEFINE text == Text(o, es)
           a == r[1]
           b == r[2]
<1>1. Listing(text) /\ Len(text) \in Nat
  <2>1. Listing(text)
    BY TextIs
  <2> QED BY <2>1, ListingHas
<1>2. a \in 0 .. Len(text) /\ b \in 0 .. Len(text) /\ a < b /\ Len(text[a + 1]) = 1 /\ Len(text[b]) = 1
  BY <1>1, TermEnds
<1> DEFINE p == a + 1
<1> HIDE DEF a, b
<1>3. p \in 1 .. Len(text) /\ b \in 1 .. Len(text) /\ p - 1 = a /\ b # 0
  BY <1>1, <1>2
<1> HIDE DEF p, text
<1>4. \A i \in 1 .. Len(text) : Len(text[i]) = 1 => Original(o, es, i)
  <2> TAKE i \in 1 .. Len(text)
  <2>1. Original(o, es, i) \/ Marked(o, es, i)
    BY TextAt DEF text
  <2>2. Marked(o, es, i) => Len(text[i]) = 3
    BY DEF Marked, text
  <2> QED BY <2>1, <2>2
<1>5. Original(o, es, p) /\ Original(o, es, b)
  BY <1>2, <1>3, <1>4 DEF p
<1> DEFINE x == ToOriginal(es, a)
           y == ToOriginal(es, b - 1)
<1>6. x \in Nat /\ text[p] = o[x + 1] /\ y \in Nat /\ text[b] = o[y + 1]
  BY <1>3, <1>5 DEF Original, text
<1>7. OriginalRange(es, r) = <<x, y + 1>>
  BY <1>3 DEF OriginalRange, EndToOriginal, a, b
<1> HIDE DEF x, y
<1>8. <<x, y + 1>> \in Int \X Int
  BY <1>6
<1>9. o[x + 1] = text[a + 1] /\ o[y + 1] = text[b]
  BY <1>6 DEF p
<1> QED BY <1>7, <1>8, <1>9 DEF PointsAt, text, a, b

-----------------------------------------------------------------------------
(* The decisions on a document of these units.                             *)
RangesOK(ranges, n) == ranges \subseteq (0 .. n) \X (0 .. n)
MarkedOK(masks, n) == Listing(masks) /\ \A k \in DOMAIN masks : JointOK(masks[k], n)
Unique(terms) ==
  Listing(terms) /\ \A k \in DOMAIN terms : \A m \in DOMAIN terms : terms[k][1] = terms[m][1] => k = m
UnitOK(d, us, u) ==
  /\ RangesOK(d.keeps[u], Len(us[u])) /\ RangesOK(d.findingKeeps[u], Len(us[u]))
  /\ MarkedOK(d.masks[u], Len(us[u]))
Kept == {"keeps", "masks", "keepTerms", "maskTerms", "keepFindings", "findingKeeps"}
DecidedOK(d, us) ==
  /\ DOMAIN d = Kept
  /\ DOMAIN d.keeps = 1 .. Len(us) /\ DOMAIN d.masks = 1 .. Len(us) /\ DOMAIN d.findingKeeps = 1 .. Len(us)
  /\ \A u \in 1 .. Len(us) : UnitOK(d, us, u)
  /\ Unique(d.maskTerms)

(* What is picked keeps its order, so no two places give the same one.     *)
LEMMA PickedPlaces ==
  ASSUME NEW q, Listing(q), NEW S \in SUBSET (DOMAIN q)
  PROVE  LET p == Picked(q, S)
         IN /\ Listing(p) /\ \A k \in DOMAIN p : \E i \in S : p[k] = q[i]
            /\ \A k \in DOMAIN p : \A m \in DOMAIN p :
                 k # m => \E i \in S : \E j \in S : i # j /\ p[k] = q[i] /\ p[m] = q[j]
<1> DEFINE p == Picked(q, S)
           at == Ascending(S)
           X == ToSet(q)
<1>1. q \in Seq(X)
  BY DEF Listing
<1>2. IsFiniteSet(S) /\ S \subseteq Int
  <2>1. Len(q) \in Nat /\ DOMAIN q = 1 .. Len(q)
    BY ListingHas
  <2> DEFINE n == Len(q)
  <2> HIDE DEF n
  <2>2. IsFiniteSet(1 .. n) /\ 1 .. n \subseteq Int
    BY <2>1, FirstNumbers DEF n
  <2>3. S \subseteq 1 .. n
    BY <2>1 DEF n
  <2> QED BY <2>2, <2>3, FS_Subset
<1>3. p = [k \in DOMAIN at |-> q[at[k]]]
  BY DEF Picked
<1> HIDE DEF at, X
<1>4. p \in Seq(X) /\ \A k \in DOMAIN p : \E i \in S : p[k] = q[i]
  BY <1>1, PickedIs
<1>5. Listing(p)
  BY <1>4, ListingIs
<1> DEFINE c == Cardinality(S)
<1>6. /\ c \in Nat /\ DOMAIN at = 1 .. c /\ \A k \in 1 .. c : at[k] \in S
      /\ \A i, j \in 1 .. c : i < j => at[i] < at[j]
  BY <1>2, AscendingIs DEF at
<1> HIDE DEF p, c
<1>7. ASSUME NEW k \in DOMAIN p, NEW m \in DOMAIN p, k # m
      PROVE  \E i \in S : \E j \in S : i # j /\ p[k] = q[i] /\ p[m] = q[j]
  <2>1. k \in 1 .. c /\ m \in 1 .. c
    BY <1>3, <1>6
  <2>2. at[k] \in S /\ at[m] \in S /\ p[k] = q[at[k]] /\ p[m] = q[at[m]]
    BY <1>3, <1>6, <2>1
  <2>3. k < m \/ m < k
    BY <1>6, <1>7, <2>1
  <2>4. at[k] < at[m] \/ at[m] < at[k]
    BY <1>6, <2>1, <2>3
  <2>5. at[k] \in Int /\ at[m] \in Int
    BY <1>2, <2>2
  <2>6. at[k] # at[m]
    BY <2>4, <2>5
  <2> QED BY <2>2, <2>6
<1> QED BY <1>4, <1>5, <1>7 DEF p

(* The term goes, the others stay once each.                               *)
LEMMA WithoutIs ==
  ASSUME NEW terms, Unique(terms), NEW v
  PROVE  Unique(WithoutTerm(terms, v)) /\ \A k \in DOMAIN WithoutTerm(terms, v) : WithoutTerm(terms, v)[k][1] # v
<1> DEFINE S == {n \in DOMAIN terms : terms[n][1] # v}
           p == Picked(terms, S)
<1>1. WithoutTerm(terms, v) = p
  BY DEF WithoutTerm
<1>2. S \in SUBSET (DOMAIN terms) /\ Listing(terms)
  BY DEF Unique
<1>3. \A i \in S : i \in DOMAIN terms /\ terms[i][1] # v
  OBVIOUS
<1> HIDE DEF S
<1>4. /\ Listing(p) /\ \A k \in DOMAIN p : \E i \in S : p[k] = terms[i]
      /\ \A k \in DOMAIN p : \A m \in DOMAIN p :
           k # m => \E i \in S : \E j \in S : i # j /\ p[k] = terms[i] /\ p[m] = terms[j]
  BY <1>2, PickedPlaces
<1> HIDE DEF p
<1>5. \A k \in DOMAIN p : \A m \in DOMAIN p : p[k][1] = p[m][1] => k = m
  BY <1>3, <1>4 DEF Unique
<1> QED BY <1>1, <1>3, <1>4, <1>5 DEF Unique

LEMMA UniqueWith ==
  ASSUME NEW terms, Unique(terms), NEW w, \A k \in DOMAIN terms : terms[k][1] # w[1]
  PROVE  Unique(Append(terms, w))
<1> DEFINE n == Len(terms)
           t == Append(terms, w)
<1>1. n \in Nat /\ DOMAIN terms = 1 .. n /\ Listing(terms)
  BY ListingHas DEF Unique
<1>2. Listing(t) /\ Len(t) = n + 1 /\ t[n + 1] = w /\ \A i \in 1 .. n : t[i] = terms[i]
  BY <1>1, Appended
<1> HIDE DEF t, n
<1>3. DOMAIN t = 1 .. n + 1
  BY <1>2, ListingHas
<1>4. ASSUME NEW k \in 1 .. n + 1, NEW m \in 1 .. n + 1, t[k][1] = t[m][1]  PROVE k = m
  <2>1. (k \in 1 .. n \/ k = n + 1) /\ (m \in 1 .. n \/ m = n + 1)
    BY <1>1
  <2>2. CASE k \in 1 .. n /\ m \in 1 .. n
    BY <1>1, <1>2, <1>4, <2>2 DEF Unique
  <2>3. CASE k = n + 1 /\ m \in 1 .. n
    BY <1>1, <1>2, <1>4, <2>3
  <2>4. CASE k \in 1 .. n /\ m = n + 1
    BY <1>1, <1>2, <1>4, <2>4
  <2> QED BY <2>1, <2>2, <2>3, <2>4
<1> QED BY <1>2, <1>3, <1>4 DEF Unique, t

(* The masks of a unit stay good when some go or one comes.                *)
LEMMA MarkedPicked ==
  ASSUME NEW masks, NEW n, MarkedOK(masks, n), NEW S \in SUBSET (DOMAIN masks)
  PROVE  MarkedOK(Picked(masks, S), n)
<1> DEFINE p == Picked(masks, S)
<1>1. Listing(masks)
  BY DEF MarkedOK
<1>2. Listing(p) /\ \A k \in DOMAIN p : \E i \in S : p[k] = masks[i]
  BY <1>1, PickedPlaces
<1> HIDE DEF p
<1>3. ASSUME NEW k \in DOMAIN p  PROVE JointOK(p[k], n)
  <2>1. PICK i \in S : p[k] = masks[i]
    BY <1>2
  <2> QED BY <2>1 DEF MarkedOK
<1>4. MarkedOK(p, n)
  BY <1>2, <1>3 DEF MarkedOK
<1> QED BY <1>4 DEF p

LEMMA MarkedAppend ==
  ASSUME NEW masks, NEW n, MarkedOK(masks, n), NEW w, JointOK(w, n)
  PROVE  MarkedOK(Append(masks, w), n)
<1> DEFINE l == Len(masks)
           t == Append(masks, w)
<1>1. l \in Nat /\ DOMAIN masks = 1 .. l /\ Listing(masks)
  BY ListingHas DEF MarkedOK
<1>2. Listing(t) /\ Len(t) = l + 1 /\ t[l + 1] = w /\ \A i \in 1 .. l : t[i] = masks[i]
  BY <1>1, Appended
<1> HIDE DEF t, l
<1>3. DOMAIN t = 1 .. l + 1
  BY <1>2, ListingHas
<1>4. ASSUME NEW k \in 1 .. l + 1  PROVE JointOK(t[k], n)
  <2>1. CASE k \in 1 .. l
    BY <1>1, <1>2, <2>1 DEF MarkedOK
  <2>2. CASE k = l + 1
    BY <1>2, <2>2
  <2>3. k \in 1 .. l \/ k = l + 1
    BY <1>1
  <2> QED BY <2>1, <2>2, <2>3
<1>5. MarkedOK(t, n)
  BY <1>2, <1>3, <1>4 DEF MarkedOK
<1> QED BY <1>5 DEF t

(* A decision changes one unit's entries.                                  *)
OnlyAt(f, g, u) == DOMAIN g = DOMAIN f /\ \A v \in DOMAIN f : v # u => g[v] = f[v]
LEMMA Changed ==
  ASSUME NEW f, NEW u, u \in DOMAIN f, NEW x
  PROVE  OnlyAt(f, [f EXCEPT ![u] = x], u) /\ [f EXCEPT ![u] = x][u] = x /\ OnlyAt(f, f, u)
BY DEF OnlyAt

LEMMA Revised ==
  ASSUME NEW us, NEW d, DecidedOK(d, us), NEW u \in 1 .. Len(us), NEW e, DOMAIN e = Kept,
         OnlyAt(d.keeps, e.keeps, u), OnlyAt(d.masks, e.masks, u),
         OnlyAt(d.findingKeeps, e.findingKeeps, u), UnitOK(e, us, u), Unique(e.maskTerms)
  PROVE  DecidedOK(e, us)
<1>1. /\ DOMAIN d.keeps = 1 .. Len(us) /\ DOMAIN d.masks = 1 .. Len(us)
      /\ DOMAIN d.findingKeeps = 1 .. Len(us)
  BY DEF DecidedOK
<1>2. /\ DOMAIN e.keeps = 1 .. Len(us) /\ DOMAIN e.masks = 1 .. Len(us)
      /\ DOMAIN e.findingKeeps = 1 .. Len(us)
  BY <1>1 DEF OnlyAt
<1>3. ASSUME NEW v \in 1 .. Len(us)  PROVE UnitOK(e, us, v)
  <2>1. CASE v # u
    <3>1. e.keeps[v] = d.keeps[v] /\ e.masks[v] = d.masks[v] /\ e.findingKeeps[v] = d.findingKeeps[v]
      BY <1>1, <2>1 DEF OnlyAt
    <3>2. UnitOK(d, us, v)
      BY DEF DecidedOK
    <3> QED BY <3>1, <3>2 DEF UnitOK
  <2> QED BY <2>1
<1> QED BY <1>2, <1>3 DEF DecidedOK

-----------------------------------------------------------------------------
(* What is true of a document under review.  The findings are occurrences  *)
(* of terms in what is shown, and the terms are written in signs.          *)
OutOK(o, us, d) ==
  o.ok /\ Len(o.done) = Len(us) /\ \A u \in 1 .. Len(us) : UnitDone(us[u], o.done[u], u, d)
FindingOK(f, o, us) ==
  f.unit \in 1 .. Len(us) /\ \E t \in Terms : f.range \in TermRanges(Text(us[f.unit], o.done[f.unit]), t)
FindingsOK(fs, o, us) == \A f \in fs : FindingOK(f, o, us)
RecordsOK(rs) == \A r \in rs : r[1] \in Terms /\ r[2] \in {"masked", "open", "unlocated"}
Disjoint(p) == p.always \cap p.never = {}
Known(d, ps) == (\E c \in Cases : c.doc = d) /\ PatternsOK(ps)
Reviewed(us, p, d, o, fs) ==
  Disjoint(p) /\ DecidedOK(d, us) /\ OutOK(o, us, d) /\ FindingsOK(fs, o, us)
ReviewInv ==
  /\ Known(doc, patterns) /\ Reviewed(Units, prefs, decisions, out, findings)
  /\ RecordsOK(records) /\ steps \in 0 .. MaxDecisions

LEMMA CasesAre ==
  ASSUME NEW c \in Cases
  PROVE  /\ DocumentOK(c.doc) /\ PatternsOK(c.patterns) /\ Disjoint(c.prefs)
         /\ c.repairs \subseteq Terms /\ c.reported \subseteq Terms
         /\ \A s \in c.selections : s[1] \in DOMAIN FlattenSeq(c.doc) /\ s[2] \in Int \X Int
<1>1. CaseOK(c)
  BY CasesAssumption
<1> QED BY <1>1 DEF CaseOK, DocumentOK, PatternsOK, Disjoint

LEMMA KnownUnits ==
  ASSUME Known(doc, patterns)
  PROVE  /\ DocumentOK(doc) /\ Len(Units) \in Nat /\ DOMAIN Units = 1 .. Len(Units)
         /\ \A u \in 1 .. Len(Units) : Len(Units[u]) \in Nat
<1>1. DocumentOK(doc)
  BY CasesAre DEF Known
<1>2. LET us == FlattenSeq(doc)
      IN Len(us) \in Nat /\ DOMAIN us = 1 .. Len(us) /\ \A u \in 1 .. Len(us) : Len(us[u]) \in Nat
  BY <1>1, UnitsAre
<1> QED BY <1>1, <1>2 DEF Units

(* The engine's answer to the decisions, and the findings in it.           *)
LEMMA RemaskIs ==
  ASSUME Known(doc, patterns), NEW d, DecidedOK(d, Units), NEW p, NEW rs, Remask(d, p, rs).ok
  PROVE  OutOK(Remask(d, p, rs), Units, d)
<1> DEFINE lists == Lists([p EXCEPT !.always = @ \cup RepairTerms(rs)], d.keepTerms)
           call == Anonymize(doc, patterns, lists, d)
<1>1. Remask(d, p, rs) = call
  BY DEF Remask
<1>2. DocumentOK(doc) /\ PatternsOK(patterns)
  BY KnownUnits DEF Known
<1>3. DecisionsOK(d, Len(Units))
  <2>1. Listing(d.maskTerms)
    BY DEF DecidedOK, Unique
  <2>2. ASSUME NEW u \in 1 .. Len(Units)  PROVE MasksOK(d.masks[u])
    <3>1. MarkedOK(d.masks[u], Len(Units[u]))
      BY DEF DecidedOK, UnitOK
    <3>2. Listing(d.masks[u]) /\ \A k \in DOMAIN d.masks[u] : JointOK(d.masks[u][k], Len(Units[u]))
      BY <3>1 DEF MarkedOK
    <3>3. \A k \in DOMAIN d.masks[u] : d.masks[u][k][1] \in Int /\ d.masks[u][k][2] \in Int
      BY <3>2 DEF JointOK
    <3> QED BY <3>2, <3>3 DEF MasksOK
  <2> QED BY <2>1, <2>2 DEF DecisionsOK
<1> HIDE DEF lists
<1>4. call.ok => /\ Len(call.done) = Len(Units)
                 /\ \A u \in 1 .. Len(Units) : UnitDone(Units[u], call.done[u], u, d)
  <2>1. DecisionsOK(d, Len(FlattenSeq(doc)))
    BY <1>3 DEF Units
  <2>2. LET us == FlattenSeq(doc)
        IN call.ok => /\ Len(call.done) = Len(us)
                      /\ \A u \in 1 .. Len(us) : UnitDone(us[u], call.done[u], u, d)
    BY <1>2, <2>1, AnonymizeIs
  <2> QED BY <2>2 DEF Units
<1> HIDE DEF call
<1> QED BY <1>1, <1>4 DEF OutOK

LEMMA LocateIs ==
  ASSUME Known(doc, patterns), NEW o, NEW d, NEW ts, ts \subseteq Terms
  PROVE  FindingsOK(Locate(o, d, ts), o, Units)
<1>1. ASSUME NEW f \in Locate(o, d, ts)  PROVE FindingOK(f, o, Units)
  <2>1. PICK u \in DOMAIN Units : \E t \in ts :
               f \in {[unit |-> u, range |-> r, open |-> ~Covers(d, u, t, r, o.done[u])] :
                        r \in Occurrences(Masked(o, u), t)}
    BY DEF Locate
  <2>2. PICK t \in ts :
               f \in {[unit |-> u, range |-> r, open |-> ~Covers(d, u, t, r, o.done[u])] :
                        r \in Occurrences(Masked(o, u), t)}
    BY <2>1
  <2>3. PICK r \in Occurrences(Masked(o, u), t) :
               f = [unit |-> u, range |-> r, open |-> ~Covers(d, u, t, r, o.done[u])]
    BY <2>2
  <2>4. f.unit = u /\ f.range = r
    BY <2>3
  <2>5. r \in TermRanges(Masked(o, u), t)
    BY <2>3 DEF Occurrences
  <2>6. u \in 1 .. Len(Units) /\ t \in Terms
    BY <2>1, <2>2, KnownUnits
  <2> QED BY <2>4, <2>5, <2>6 DEF FindingOK, Masked
<1> QED BY <1>1 DEF FindingsOK

LEMMA TermsOfRecords ==
  ASSUME NEW rs, RecordsOK(rs)
  PROVE  RepairTerms(rs) \subseteq Terms /\ RelocateTerms(rs) \subseteq Terms
BY DEF RecordsOK, RepairTerms, RelocateTerms

LEMMA PipelineRecords ==
  ASSUME NEW repairs, repairs \subseteq Terms, NEW final, final \subseteq Terms, NEW o
  PROVE  RecordsOK(AfterPipeline(repairs, final, o))
BY DEF RecordsOK, AfterPipeline

LEMMA HardOnes ==
  ASSUME NEW o
  PROVE  HeuristicTerms(o) \subseteq Terms
BY CasesAssumption DEF HeuristicTerms

(* Where the page's targets stand.                                         *)
TargetOK(t) ==
  /\ t.unit \in 1 .. Len(Units) /\ t.range[1] \in 0 .. Len(Units[t.unit])
  /\ t.range[2] \in 0 .. Len(Units[t.unit]) /\ t.range[1] < t.range[2]
  /\ t.range \in (0 .. Len(Units[t.unit])) \X (0 .. Len(Units[t.unit]))
Pointed(t) == t.unit \in 1 .. Len(Units) /\ t.range \in Int \X Int
LEMMA ValidPlaced ==
  ASSUME Known(doc, patterns), NEW t, Pointed(t), Valid(t)
  PROVE  TargetOK(t)
<1> DEFINE n == Len(Units[t.unit])
           a == t.range[1]
           b == t.range[2]
<1>1. n \in Nat
  BY KnownUnits DEF Pointed
<1>2. a \in Int /\ b \in Int /\ t.range = <<a, b>>
  BY DEF Pointed
<1>3. 0 <= a /\ a < b /\ b <= n
  BY DEF Valid
<1> HIDE DEF n, a, b
<1>4. a \in 0 .. n /\ b \in 0 .. n
  BY <1>1, <1>2, <1>3
<1>5. <<a, b>> \in (0 .. n) \X (0 .. n)
  BY <1>4
<1>6. t.range \in (0 .. n) \X (0 .. n)
  BY <1>2, <1>5
<1> QED BY <1>3, <1>4, <1>6 DEF TargetOK, Pointed, n, a, b

LEMMA TargetsAre ==
  ASSUME ReviewInv, NEW t \in Targets
  PROVE  TargetOK(t)
<1>1. /\ Known(doc, patterns) /\ DecidedOK(decisions, Units) /\ OutOK(out, Units, decisions)
      /\ FindingsOK(findings, out, Units)
  BY DEF ReviewInv, Reviewed
<1>2. DOMAIN Units = 1 .. Len(Units) /\ \A u \in 1 .. Len(Units) : Len(Units[u]) \in Nat
  BY <1>1, KnownUnits
<1>3. Valid(t) /\ t \in MaskSpans \cup KeptSpans \cup Items \cup Selections
  BY DEF Targets
<1>4. CASE t \in MaskSpans
  <2>0. PICK u \in DOMAIN Units : \E e \in ToSet(out.done[u]) : t.unit = u /\ t.range = Extent(e)
    BY <1>4 DEF MaskSpans, Target
  <2>1. PICK e \in ToSet(out.done[u]) : t.unit = u /\ t.range = Extent(e)
    BY <2>0
  <2>2. Good(out.done[u], Len(Units[u]))
    BY <1>1, <1>2 DEF OutOK, UnitDone
  <2>3. EditOK(e, Len(Units[u]))
    BY <2>1, <2>2 DEF Good, ToSet
  <2>4. Extent(e) \in Int \X Int
    BY <2>3 DEF EditOK, Extent
  <2>5. Pointed(t)
    BY <1>2, <2>1, <2>4 DEF Pointed
  <2> QED BY <1>1, <1>3, <2>5, ValidPlaced
<1>5. CASE t \in KeptSpans
  <2>0. PICK u \in DOMAIN Units :
               \E r \in decisions.keeps[u] \cup TermsRanges(Units[u], decisions.keepTerms) :
                 t.unit = u /\ t.range = r
    BY <1>5 DEF KeptSpans, Target
  <2>1. PICK r \in decisions.keeps[u] \cup TermsRanges(Units[u], decisions.keepTerms) :
               t.unit = u /\ t.range = r
    BY <2>0
  <2>2. decisions.keeps[u] \subseteq (0 .. Len(Units[u])) \X (0 .. Len(Units[u]))
    BY <1>1, <1>2 DEF DecidedOK, UnitOK, RangesOK
  <2>3. TermsRanges(Units[u], decisions.keepTerms) \subseteq (0 .. Len(Units[u])) \X (0 .. Len(Units[u]))
    <3>1. Len(Units[u]) \in Nat
      BY <1>2
    <3>2. \A v : TermRanges(Units[u], v) \subseteq (0 .. Len(Units[u])) \X (0 .. Len(Units[u]))
      BY <3>1, TermRangesAre
    <3> QED BY <3>2 DEF TermsRanges
  <2>4. r \in Int \X Int
    BY <2>1, <2>2, <2>3
  <2>5. Pointed(t)
    BY <1>2, <2>1, <2>4 DEF Pointed
  <2> QED BY <1>1, <1>3, <2>5, ValidPlaced
<1>6. CASE t \in Items
  <2>1. PICK f \in findings : t.unit = f.unit /\ t.range = OriginalRange(out.done[f.unit], f.range)
    BY <1>6 DEF Items, Target
  <2>2. FindingOK(f, out, Units)
    BY <1>1, <2>1 DEF FindingsOK
  <2>3. f.unit \in 1 .. Len(Units)
    BY <2>2 DEF FindingOK
  <2>4. PICK v \in Terms : f.range \in TermRanges(Text(Units[f.unit], out.done[f.unit]), v)
    BY <2>2 DEF FindingOK
  <2>5. Len(Units[f.unit]) \in Nat /\ Good(out.done[f.unit], Len(Units[f.unit]))
    BY <1>1, <1>2, <2>3 DEF OutOK, UnitDone
  <2>6. PointsAt(Units[f.unit], out.done[f.unit], f.range)
    BY <2>4, <2>5, OccurrencePoints
  <2>7. Pointed(t)
    BY <2>1, <2>3, <2>6 DEF Pointed, PointsAt
  <2> QED BY <1>1, <1>3, <2>7, ValidPlaced
<1>7. CASE t \in Selections
  <2> DEFINE c == CHOOSE x \in Cases : x.doc = doc
  <2>1. c \in Cases /\ c.doc = doc
    BY <1>1 DEF Known
  <2> HIDE DEF c
  <2>2. PICK s \in c.selections : t.unit = s[1] /\ t.range = s[2]
    BY <1>7 DEF Selections, Target, c
  <2>3. s[1] \in DOMAIN Units /\ s[2] \in Int \X Int
    BY <2>1, <2>2, CasesAre DEF Units
  <2>4. Pointed(t)
    BY <1>2, <2>2, <2>3 DEF Pointed
  <2> QED BY <1>1, <1>3, <2>4, ValidPlaced
<1> QED BY <1>3, <1>4, <1>5, <1>6, <1>7

-----------------------------------------------------------------------------
(* A committed decision.                                                   *)
LEMMA Stays ==
  ASSUME doc' = doc, patterns' = patterns
  PROVE  Units' = Units /\ Known(doc, patterns)' = Known(doc, patterns)
BY DEF Units, Known

LEMMA Committed ==
  ASSUME ReviewInv, NEW d, DecidedOK(d, Units), NEW p, Disjoint(p), NEW decided, Commit(d, p, decided)
  PROVE  ReviewInv'
<1> DEFINE o == Remask(d, p, records)
           ts == RelocateTerms(records) \cup HeuristicTerms(o)
<1>1. /\ Known(doc, patterns) /\ Reviewed(Units, prefs, decisions, out, findings)
      /\ RecordsOK(records) /\ steps \in 0 .. MaxDecisions
  BY DEF ReviewInv
<1>2. steps < MaxDecisions /\ steps' = steps + 1 /\ Store(d, p, decided, o)
  BY DEF Commit
<1>3. steps' \in 0 .. MaxDecisions
  BY <1>1, <1>2, DecisionsAssumption
<1>4. doc' = doc /\ patterns' = patterns /\ records' = records
  BY <1>2 DEF Store
<1>5. Units' = Units /\ Known(doc', patterns') /\ RecordsOK(records')
  BY <1>1, <1>4, Stays DEF Known
<1>6. o.ok => OutOK(o, Units, d)
  BY <1>1, RemaskIs
<1>7. FindingsOK(Locate(o, d, ts), o, Units)
  <2> HIDE DEF o
  <2>1. ts \subseteq Terms
    BY <1>1, TermsOfRecords, HardOnes
  <2> HIDE DEF ts
  <2> QED BY <1>1, <2>1, LocateIs
<1> HIDE DEF o
<1>8. Reviewed(Units', prefs', decisions', out', findings')
  <2>1. CASE o.ok /\ decisions' = d /\ prefs' = p /\ out' = o /\ findings' = Locate(o, d, ts)
    BY <1>5, <1>6, <1>7, <2>1 DEF Reviewed
  <2>2. CASE UNCHANGED <<decisions, prefs, out, findings>>
    BY <1>1, <1>5, <2>2 DEF Reviewed
  <2> QED BY <1>2, <2>1, <2>2 DEF Store
<1> QED BY <1>3, <1>5, <1>8 DEF ReviewInv, Known

(* The preferences the decisions leave.                                    *)
LEMMA ListsApart ==
  ASSUME Disjoint(prefs), NEW v, NEW family
  PROVE  Disjoint(WithAlways(prefs, v, family)) /\ Disjoint(WithNever(prefs, v))
BY DEF Disjoint, WithAlways, WithNever

LEMMA NeverApart ==
  ASSUME Disjoint(prefs), NEW t, NEW scope
  PROVE  Disjoint(NeverMask(t, scope))
BY ListsApart DEF NeverMask

(* What a decision finds of the unit it points into.                       *)
LEMMA Before ==
  ASSUME ReviewInv, NEW t \in Targets
  PROVE  /\ DecidedOK(decisions, Units) /\ Disjoint(prefs) /\ DOMAIN decisions = Kept
         /\ t.unit \in 1 .. Len(Units) /\ Unique(decisions.maskTerms)
         /\ t.unit \in DOMAIN decisions.keeps /\ t.unit \in DOMAIN decisions.masks
         /\ t.unit \in DOMAIN decisions.findingKeeps
         /\ RangesOK(decisions.keeps[t.unit], Len(Units[t.unit]))
         /\ RangesOK(decisions.findingKeeps[t.unit], Len(Units[t.unit]))
         /\ MarkedOK(decisions.masks[t.unit], Len(Units[t.unit]))
         /\ RangesOK({t.range}, Len(Units[t.unit])) /\ RangesOK({}, Len(Units[t.unit]))
<1>1. DecidedOK(decisions, Units) /\ Disjoint(prefs)
  BY DEF ReviewInv, Reviewed
<1>2. TargetOK(t)
  BY TargetsAre
<1>3. UnitOK(decisions, Units, t.unit)
  BY <1>1, <1>2 DEF DecidedOK, TargetOK
<1>4. RangesOK({t.range}, Len(Units[t.unit])) /\ RangesOK({}, Len(Units[t.unit]))
  BY <1>2 DEF TargetOK, RangesOK
<1> QED BY <1>1, <1>2, <1>3, <1>4 DEF DecidedOK, TargetOK, UnitOK

LEMMA UnmaskKeeps ==
  ASSUME ReviewInv, NEW t \in Targets, NEW scope, Unmask(t, scope)
  PROVE  ReviewInv'
<1> DEFINE u == t.unit
           n == Len(Units[u])
           keeps == decisions.keeps[u] \cup (IF scope = "occurrence" THEN {t.range} ELSE {})
           terms == decisions.keepTerms \cup (IF scope = "document" THEN {Value(t)} ELSE {})
           e == [decisions EXCEPT !.keeps[u] = keeps, !.keepTerms = terms]
<1>0. /\ DOMAIN decisions = Kept /\ u \in 1 .. Len(Units) /\ DecidedOK(decisions, Units)
      /\ Unique(decisions.maskTerms)
      /\ u \in DOMAIN decisions.keeps /\ u \in DOMAIN decisions.masks /\ u \in DOMAIN decisions.findingKeeps
      /\ RangesOK(decisions.keeps[u], n) /\ RangesOK(decisions.findingKeeps[u], n)
      /\ MarkedOK(decisions.masks[u], n)
  BY Before
<1>1. Commit(e, NeverMask(t, scope), Decided("unmask", t, scope))
  BY DEF Unmask
<1>2. RangesOK(keeps, n)
  BY Before DEF RangesOK
<1> HIDE DEF keeps, terms
<1>3. /\ DOMAIN e = Kept /\ e.keeps = [decisions.keeps EXCEPT ![u] = keeps] /\ e.masks = decisions.masks
      /\ e.findingKeeps = decisions.findingKeeps /\ e.maskTerms = decisions.maskTerms
  BY <1>0 DEF Kept
<1> HIDE DEF e, u, n
<1>4. /\ OnlyAt(decisions.keeps, e.keeps, u) /\ OnlyAt(decisions.masks, e.masks, u)
      /\ OnlyAt(decisions.findingKeeps, e.findingKeeps, u)
      /\ e.keeps[u] = keeps
  BY <1>0, <1>3 DEF OnlyAt
<1>5. DecidedOK(e, Units)
  <2>1. UnitOK(e, Units, u)
    BY <1>0, <1>2, <1>3, <1>4 DEF UnitOK, n
  <2> QED BY <1>0, <1>3, <1>4, <2>1, Revised
<1>6. Disjoint(NeverMask(t, scope))
  BY Before, NeverApart
<1> QED BY <1>1, <1>5, <1>6, Committed

LEMMA UndoMaskKeeps ==
  ASSUME ReviewInv, NEW t \in Targets, NEW scope, UndoMask(t, scope)
  PROVE  ReviewInv'
<1> DEFINE u == t.unit
           n == Len(Units[u])
           old == decisions.masks[u]
           S == {k \in DOMAIN old : ~Meets(old[k], t.range)}
           rest == Picked(old, S)
           keeps == decisions.keeps[u] \cup (IF scope = "occurrence" /\ rest = old THEN {t.range} ELSE {})
           terms == IF scope = "occurrence" THEN decisions.maskTerms
                    ELSE WithoutTerm(decisions.maskTerms, Value(t))
           e == [decisions EXCEPT !.masks[u] = rest, !.keeps[u] = keeps, !.maskTerms = terms]
<1>0. /\ DOMAIN decisions = Kept /\ u \in 1 .. Len(Units) /\ DecidedOK(decisions, Units)
      /\ Unique(decisions.maskTerms)
      /\ u \in DOMAIN decisions.keeps /\ u \in DOMAIN decisions.masks /\ u \in DOMAIN decisions.findingKeeps
      /\ RangesOK(decisions.keeps[u], n) /\ RangesOK(decisions.findingKeeps[u], n)
      /\ MarkedOK(decisions.masks[u], n)
  BY Before
<1>1. Commit(e, NeverMask(t, scope), Decided("undo", t, scope))
  BY DEF UndoMask
<1>2. S \in SUBSET (DOMAIN old) /\ MarkedOK(old, n)
  BY Before
<1> HIDE DEF S
<1>3. MarkedOK(rest, n)
  BY <1>2, MarkedPicked
<1>4. RangesOK(keeps, n)
  BY Before DEF RangesOK
<1>5. Unique(terms)
  BY Before, WithoutIs
<1> HIDE DEF keeps, terms, rest, old
<1>6. /\ DOMAIN e = Kept /\ e.keeps = [decisions.keeps EXCEPT ![u] = keeps]
      /\ e.masks = [decisions.masks EXCEPT ![u] = rest]
      /\ e.findingKeeps = decisions.findingKeeps /\ e.maskTerms = terms
  BY <1>0 DEF Kept
<1> HIDE DEF e, u, n
<1>7. /\ OnlyAt(decisions.keeps, e.keeps, u) /\ OnlyAt(decisions.masks, e.masks, u)
      /\ OnlyAt(decisions.findingKeeps, e.findingKeeps, u)
      /\ e.keeps[u] = keeps /\ e.masks[u] = rest
  BY <1>0, <1>6 DEF OnlyAt
<1>8. DecidedOK(e, Units)
  <2>1. UnitOK(e, Units, u)
    BY <1>0, <1>3, <1>4, <1>6, <1>7 DEF UnitOK, n
  <2> QED BY <1>0, <1>5, <1>6, <1>7, <2>1, Revised
<1>9. Disjoint(NeverMask(t, scope))
  BY Before, NeverApart
<1> QED BY <1>1, <1>8, <1>9, Committed

LEMMA UndoKeepKeeps ==
  ASSUME ReviewInv, NEW t \in Targets, NEW scope, UndoKeep(t, scope)
  PROVE  ReviewInv'
<1> DEFINE u == t.unit
           n == Len(Units[u])
           keeps == {r \in decisions.keeps[u] : ~Meets(r, t.range)}
           terms == decisions.keepTerms \ {Value(t)}
           e == [decisions EXCEPT !.keeps[u] = keeps, !.keepTerms = terms]
<1>0. /\ DOMAIN decisions = Kept /\ u \in 1 .. Len(Units) /\ DecidedOK(decisions, Units)
      /\ Unique(decisions.maskTerms) /\ Disjoint(prefs)
      /\ u \in DOMAIN decisions.keeps /\ u \in DOMAIN decisions.masks /\ u \in DOMAIN decisions.findingKeeps
      /\ RangesOK(decisions.keeps[u], n) /\ RangesOK(decisions.findingKeeps[u], n)
      /\ MarkedOK(decisions.masks[u], n)
  BY Before
<1>1. Commit(e, prefs, Decided("undo keep", t, scope))
  BY DEF UndoKeep
<1>2. RangesOK(keeps, n)
  BY <1>0 DEF RangesOK
<1> HIDE DEF keeps, terms
<1>3. /\ DOMAIN e = Kept /\ e.keeps = [decisions.keeps EXCEPT ![u] = keeps] /\ e.masks = decisions.masks
      /\ e.findingKeeps = decisions.findingKeeps /\ e.maskTerms = decisions.maskTerms
  BY <1>0 DEF Kept
<1> HIDE DEF e, u, n
<1>4. /\ OnlyAt(decisions.keeps, e.keeps, u) /\ OnlyAt(decisions.masks, e.masks, u)
      /\ OnlyAt(decisions.findingKeeps, e.findingKeeps, u)
      /\ e.keeps[u] = keeps
  BY <1>0, <1>3 DEF OnlyAt
<1>5. DecidedOK(e, Units)
  <2>1. UnitOK(e, Units, u)
    BY <1>0, <1>2, <1>3, <1>4 DEF UnitOK, n
  <2> QED BY <1>0, <1>3, <1>4, <2>1, Revised
<1> QED BY <1>0, <1>1, <1>5, Committed

LEMMA MaskKeeps ==
  ASSUME ReviewInv, NEW t \in Targets, NEW scope, Mask(t, scope)
  PROVE  ReviewInv'
<1> DEFINE u == t.unit
           n == Len(Units[u])
           old == decisions.masks[u]
           w == <<t.range[1], t.range[2], t.family>>
           masks == IF scope # "occurrence" THEN old ELSE IF w \in ToSet(old) THEN old ELSE Append(old, w)
           kept == IF scope = "occurrence" THEN decisions.keepTerms ELSE decisions.keepTerms \ {Value(t)}
           was == decisions.maskTerms
           term == <<Value(t), t.family>>
           terms == IF scope # "document" THEN was ELSE Append(WithoutTerm(was, Value(t)), term)
           p == IF scope = "global" THEN WithAlways(prefs, Value(t), t.family) ELSE prefs
           e == [decisions EXCEPT !.masks[u] = masks, !.keepTerms = kept, !.maskTerms = terms]
<1>0. /\ DOMAIN decisions = Kept /\ u \in 1 .. Len(Units) /\ DecidedOK(decisions, Units)
      /\ Unique(was) /\ Disjoint(prefs)
      /\ u \in DOMAIN decisions.keeps /\ u \in DOMAIN decisions.masks /\ u \in DOMAIN decisions.findingKeeps
      /\ RangesOK(decisions.keeps[u], n) /\ RangesOK(decisions.findingKeeps[u], n)
      /\ MarkedOK(old, n)
  BY Before
<1>1. Commit(e, p, Decided("mask", t, scope))
  BY DEF Mask
<1>2. MarkedOK(masks, n)
  <2>1. JointOK(w, n)
    <3>1. TargetOK(t)
      BY TargetsAre
    <3> QED BY <3>1 DEF TargetOK, JointOK
  <2> HIDE DEF w, old, n
  <2> QED BY <1>0, <2>1, MarkedAppend
<1>3. Unique(terms)
  <2> DEFINE v == Value(t)
             rest == WithoutTerm(was, v)
  <2>1. Unique(rest) /\ \A k \in DOMAIN rest : rest[k][1] # v
    BY <1>0, WithoutIs
  <2>2. term[1] = v
    OBVIOUS
  <2> HIDE DEF rest, v, term
  <2>3. Unique(Append(rest, term))
    BY <2>1, <2>2, UniqueWith
  <2> QED BY <1>0, <2>3 DEF rest, v
<1>4. Disjoint(p)
  BY <1>0, ListsApart
<1> HIDE DEF masks, kept, terms, p
<1>5. /\ DOMAIN e = Kept /\ e.keeps = decisions.keeps /\ e.masks = [decisions.masks EXCEPT ![u] = masks]
      /\ e.findingKeeps = decisions.findingKeeps /\ e.maskTerms = terms
  BY <1>0 DEF Kept
<1> HIDE DEF e, u, n
<1>6. /\ OnlyAt(decisions.keeps, e.keeps, u) /\ OnlyAt(decisions.masks, e.masks, u)
      /\ OnlyAt(decisions.findingKeeps, e.findingKeeps, u)
      /\ e.masks[u] = masks
  BY <1>0, <1>5 DEF OnlyAt
<1>7. DecidedOK(e, Units)
  <2>1. UnitOK(e, Units, u)
    BY <1>0, <1>2, <1>5, <1>6 DEF UnitOK, n
  <2> QED BY <1>0, <1>3, <1>5, <1>6, <2>1, Revised
<1> QED BY <1>1, <1>4, <1>7, Committed

LEMMA KeepKeeps ==
  ASSUME ReviewInv, NEW t \in Targets, NEW scope, Keep(t, scope)
  PROVE  ReviewInv'
<1> DEFINE u == t.unit
           n == Len(Units[u])
           keeps == decisions.findingKeeps[u] \cup (IF scope = "occurrence" THEN {t.range} ELSE {})
           terms == decisions.keepFindings \cup (IF scope = "occurrence" THEN {} ELSE {Value(t)})
           e == [decisions EXCEPT !.findingKeeps[u] = keeps, !.keepFindings = terms]
<1>0. /\ DOMAIN decisions = Kept /\ u \in 1 .. Len(Units) /\ DecidedOK(decisions, Units)
      /\ Unique(decisions.maskTerms)
      /\ u \in DOMAIN decisions.keeps /\ u \in DOMAIN decisions.masks /\ u \in DOMAIN decisions.findingKeeps
      /\ RangesOK(decisions.keeps[u], n) /\ RangesOK(decisions.findingKeeps[u], n)
      /\ MarkedOK(decisions.masks[u], n)
  BY Before
<1>1. Commit(e, NeverMask(t, scope), Decided("keep", t, scope))
  BY DEF Keep
<1>2. RangesOK(keeps, n)
  BY Before DEF RangesOK
<1> HIDE DEF keeps, terms
<1>3. /\ DOMAIN e = Kept /\ e.findingKeeps = [decisions.findingKeeps EXCEPT ![u] = keeps]
      /\ e.masks = decisions.masks /\ e.keeps = decisions.keeps /\ e.maskTerms = decisions.maskTerms
  BY <1>0 DEF Kept
<1> HIDE DEF e, u, n
<1>4. /\ OnlyAt(decisions.keeps, e.keeps, u) /\ OnlyAt(decisions.masks, e.masks, u)
      /\ OnlyAt(decisions.findingKeeps, e.findingKeeps, u)
      /\ e.findingKeeps[u] = keeps
  BY <1>0, <1>3 DEF OnlyAt
<1>5. DecidedOK(e, Units)
  <2>1. UnitOK(e, Units, u)
    BY <1>0, <1>2, <1>3, <1>4 DEF UnitOK, n
  <2> QED BY <1>0, <1>3, <1>4, <2>1, Revised
<1>6. Disjoint(NeverMask(t, scope))
  BY Before, NeverApart
<1> QED BY <1>1, <1>5, <1>6, Committed

(* A new audit leaves the text and the decisions alone.                    *)
LEMMA ReauditKeeps ==
  ASSUME ReviewInv, NEW c \in Cases, Reaudit(c.reported)
  PROVE  ReviewInv'
<1> DEFINE final == c.reported
<1>1. /\ Known(doc, patterns) /\ Reviewed(Units, prefs, decisions, out, findings)
      /\ RecordsOK(records) /\ steps \in 0 .. MaxDecisions
  BY DEF ReviewInv
<1>2. final \subseteq Terms
  BY CasesAre
<1> HIDE DEF final
<1>3. /\ steps < MaxDecisions /\ steps' = steps + 1
      /\ records' = AfterPipeline(RepairTerms(records), final, out)
      /\ findings' = Locate(out, decisions, final)
      /\ doc' = doc /\ patterns' = patterns /\ prefs' = prefs /\ decisions' = decisions /\ out' = out
  BY DEF Reaudit, final
<1>4. steps' \in 0 .. MaxDecisions
  BY <1>1, <1>3, DecisionsAssumption
<1>5. RecordsOK(records')
  BY <1>1, <1>2, <1>3, TermsOfRecords, PipelineRecords
<1>6. Units' = Units /\ Known(doc', patterns')
  BY <1>1, <1>3, Stays DEF Known
<1>7. FindingsOK(findings', out, Units)
  BY <1>1, <1>2, <1>3, LocateIs
<1>8. Reviewed(Units', prefs', decisions', out', findings')
  BY <1>1, <1>3, <1>6, <1>7 DEF Reviewed
<1> QED BY <1>4, <1>5, <1>6, <1>8 DEF ReviewInv, Known

(* No decision has been made yet.                                          *)
LEMMA NothingDecided ==
  ASSUME NEW us, Len(us) \in Nat, \A u \in 1 .. Len(us) : Len(us[u]) \in Nat
  PROVE  DecidedOK(NoDecisions(Len(us)), us)
<1> DEFINE d == NoDecisions(Len(us))
<1>1. Listing(<<>>) /\ DOMAIN <<>> = {}
  BY DEF Listing
<1>2. /\ DOMAIN d = Kept /\ d.maskTerms = <<>>
      /\ DOMAIN d.keeps = 1 .. Len(us) /\ DOMAIN d.masks = 1 .. Len(us) /\ DOMAIN d.findingKeeps = 1 .. Len(us)
      /\ \A u \in 1 .. Len(us) : d.keeps[u] = {} /\ d.masks[u] = <<>> /\ d.findingKeeps[u] = {}
  BY DEF NoDecisions, Kept
<1> HIDE DEF d
<1>3. Unique(d.maskTerms)
  BY <1>1, <1>2 DEF Unique
<1>4. \A u \in 1 .. Len(us) : UnitOK(d, us, u)
  BY <1>1, <1>2 DEF UnitOK, RangesOK, MarkedOK
<1>5. DecidedOK(d, us)
  BY <1>2, <1>3, <1>4 DEF DecidedOK
<1> QED BY <1>5 DEF d

LEMMA ReviewStarts == Init => ReviewInv
<1> SUFFICES ASSUME Init  PROVE ReviewInv
  OBVIOUS
<1>1. PICK c \in Cases :
        /\ doc = c.doc /\ patterns = c.patterns /\ prefs = c.prefs
        /\ decisions = NoDecisions(Len(Units))
        /\ out = Remask(decisions, prefs, {<<t, "masked">> : t \in c.repairs}) /\ out.ok
        /\ records = AfterPipeline(c.repairs, c.reported, out)
        /\ findings = Locate(out, decisions, c.reported \cup HeuristicTerms(out))
        /\ steps = 0
  BY DEF Init
<1>2. /\ PatternsOK(c.patterns) /\ Disjoint(c.prefs)
      /\ c.repairs \subseteq Terms /\ c.reported \subseteq Terms
  BY CasesAre
<1>3. Known(doc, patterns)
  BY <1>1, <1>2 DEF Known
<1>4. DecidedOK(decisions, Units)
  BY <1>1, <1>3, KnownUnits, NothingDecided
<1> DEFINE rs == {<<t, "masked">> : t \in c.repairs}
           ts == c.reported \cup HeuristicTerms(out)
<1>5. out = Remask(decisions, prefs, rs) /\ out.ok
  BY <1>1
<1> HIDE DEF rs
<1>6. OutOK(out, Units, decisions)
  BY <1>3, <1>4, <1>5, RemaskIs
<1>7. ts \subseteq Terms /\ findings = Locate(out, decisions, ts)
  BY <1>1, <1>2, HardOnes
<1> HIDE DEF ts
<1>8. FindingsOK(findings, out, Units)
  BY <1>3, <1>7, LocateIs
<1>9. RecordsOK(records)
  BY <1>1, <1>2, PipelineRecords
<1>10. steps \in 0 .. MaxDecisions /\ Disjoint(prefs)
  BY <1>1, <1>2, DecisionsAssumption
<1> QED BY <1>3, <1>4, <1>6, <1>8, <1>9, <1>10 DEF ReviewInv, Reviewed

LEMMA ReviewSteps == ReviewInv /\ [Next]_vars => ReviewInv'
<1> SUFFICES ASSUME ReviewInv, [Next]_vars  PROVE ReviewInv'
  OBVIOUS
<1>1. CASE ApplyDecision
  <2>1. PICK t \in Targets, scope \in Scopes :
          Unmask(t, scope) \/ UndoMask(t, scope) \/ UndoKeep(t, scope) \/ Mask(t, scope) \/ Keep(t, scope)
    BY <1>1 DEF ApplyDecision
  <2> QED BY <2>1, UnmaskKeeps, UndoMaskKeeps, UndoKeepKeeps, MaskKeeps, KeepKeeps
<1>2. CASE \E c \in Cases : c.doc = doc /\ Reaudit(c.reported)
  BY <1>2, ReauditKeeps
<1>3. CASE UNCHANGED vars
  <2>1. /\ doc' = doc /\ patterns' = patterns /\ prefs' = prefs /\ decisions' = decisions
        /\ records' = records /\ out' = out /\ findings' = findings /\ steps' = steps
    BY <1>3 DEF vars
  <2>2. Units' = Units
    BY <2>1 DEF Units
  <2> QED BY <2>1, <2>2 DEF ReviewInv, Known
<1> QED BY <1>1, <1>2, <1>3 DEF Next

(* What the invariant says of what the runs check.                         *)
LEMMA Agreeing == ReviewInv => OffsetsAgree
<1> SUFFICES ASSUME ReviewInv  PROVE OffsetsAgree
  OBVIOUS
<1>1. /\ Known(doc, patterns) /\ Disjoint(prefs) /\ DecidedOK(decisions, Units)
      /\ OutOK(out, Units, decisions) /\ FindingsOK(findings, out, Units)
      /\ RecordsOK(records) /\ steps \in 0 .. MaxDecisions
  BY DEF ReviewInv, Reviewed
<1>2. DOMAIN Units = 1 .. Len(Units) /\ \A u \in 1 .. Len(Units) : Len(Units[u]) \in Nat
  BY <1>1, KnownUnits
<1>3. ReviewTypeOK
  <2>1. ASSUME NEW u \in DOMAIN Units
        PROVE  /\ decisions.keeps[u] \subseteq (0..Len(Units[u])) \X (0..Len(Units[u]))
               /\ decisions.findingKeeps[u] \subseteq (0..Len(Units[u])) \X (0..Len(Units[u]))
               /\ \A w \in ToSet(decisions.masks[u]) : 0 <= w[1] /\ w[1] < w[2] /\ w[2] <= Len(Units[u])
    <3>1. UnitOK(decisions, Units, u) /\ Len(Units[u]) \in Nat
      BY <1>1, <1>2 DEF DecidedOK
    <3>2. ASSUME NEW w \in ToSet(decisions.masks[u])  PROVE 0 <= w[1] /\ w[1] < w[2] /\ w[2] <= Len(Units[u])
      <4>1. JointOK(w, Len(Units[u]))
        BY <3>1 DEF UnitOK, MarkedOK, ToSet
      <4> QED BY <3>1, <4>1 DEF JointOK
    <3> QED BY <3>1, <3>2 DEF UnitOK, RangesOK
  <2>2. Len(out.done) = Len(Units) /\ out.ok
    BY <1>1 DEF OutOK
  <2>3. \A k \in DOMAIN decisions.maskTerms : \A n \in DOMAIN decisions.maskTerms :
          decisions.maskTerms[k][1] = decisions.maskTerms[n][1] => k = n
    BY <1>1 DEF DecidedOK, Unique
  <2> QED BY <1>1, <2>1, <2>2, <2>3 DEF ReviewTypeOK, Disjoint, RecordsOK
<1>4. OffsetsMapBack
  <2>1. ASSUME NEW u \in DOMAIN Units  PROVE MapsBack(Units[u], out.done[u])
    BY <1>1, <1>2, GoodMapsBack DEF OutOK, UnitDone
  <2> QED BY <2>1 DEF OffsetsMapBack, MapsBack, Masked
<1>5. FindingsPointAtTheirText
  <2>1. ASSUME NEW f \in findings
        PROVE  PointsAt(Units[f.unit], out.done[f.unit], f.range)
    <3>1. FindingOK(f, out, Units)
      BY <1>1 DEF FindingsOK
    <3>2. f.unit \in 1 .. Len(Units)
      BY <3>1 DEF FindingOK
    <3>3. PICK v \in Terms : f.range \in TermRanges(Text(Units[f.unit], out.done[f.unit]), v)
      BY <3>1 DEF FindingOK
    <3>4. Len(Units[f.unit]) \in Nat /\ Good(out.done[f.unit], Len(Units[f.unit]))
      BY <1>1, <1>2, <3>2 DEF OutOK, UnitDone
    <3> QED BY <3>3, <3>4, OccurrencePoints
  <2> QED BY <2>1 DEF FindingsPointAtTheirText, PointsAt, Masked
<1> QED BY <1>3, <1>4, <1>5 DEF OffsetsAgree

LEMMA UnderCovers ==
  ASSUME NEW u \in 1 .. Len(Units), NEW r, r[1] \in Int, r[2] \in Int,
         Good(out.done[u], Len(Units[u])), Len(Units[u]) \in Nat, Under(r, out.done[u])
  PROVE  Covered(u, r)
<1>1. PICK e \in ToSet(out.done[u]) : Within(r, Extent(e))
  BY DEF Under
<1>2. EditOK(e, Len(Units[u]))
  BY <1>1 DEF Good, ToSet
<1>3. e.start \in Int /\ e.end \in Int
  BY <1>2 DEF EditOK
<1>4. e.start <= r[1] /\ r[2] <= e.end
  BY <1>1 DEF Within, Extent
<1> DEFINE a == r[1]
           b == r[2]
           s == e.start
           f == e.end
<1> HIDE DEF a, b, s, f
<1>5. \A p \in a .. b - 1 : s <= p /\ p < f
  <2>1. a \in Int /\ b \in Int /\ s \in Int /\ f \in Int /\ s <= a /\ b <= f
    BY <1>3, <1>4 DEF a, b, s, f
  <2> QED BY <2>1
<1> QED BY <1>5 DEF Covered, Places, a, b, s, f

LEMMA Holding == ReviewInv => ReviewersMasksHold
<1> SUFFICES ASSUME ReviewInv, NEW u \in DOMAIN Units
             PROVE  /\ \A w \in ToSet(decisions.masks[u]) : Covered(u, w)
                    /\ \A k \in DOMAIN decisions.maskTerms :
                         \A r \in TermRanges(Units[u], decisions.maskTerms[k][1]) :
                           Contained(r, decisions.keeps[u]) \/ Covered(u, r)
  BY DEF ReviewersMasksHold
<1>1. Known(doc, patterns) /\ DecidedOK(decisions, Units) /\ OutOK(out, Units, decisions)
  BY DEF ReviewInv, Reviewed
<1>2. u \in 1 .. Len(Units) /\ Len(Units[u]) \in Nat
  BY <1>1, KnownUnits
<1>3. UnitDone(Units[u], out.done[u], u, decisions)
  BY <1>1, <1>2 DEF OutOK
<1>4. /\ Good(out.done[u], Len(Units[u]))
      /\ Ruled(Units[u], out.done[u], decisions.masks[u], decisions.maskTerms, decisions.keeps[u])
  BY <1>3 DEF UnitDone
<1>5. ASSUME NEW w \in ToSet(decisions.masks[u])  PROVE Covered(u, w)
  <2>1. PICK k \in DOMAIN decisions.masks[u] : w = decisions.masks[u][k]
    BY DEF ToSet
  <2>2. JointOK(w, Len(Units[u]))
    BY <1>1, <1>2, <2>1 DEF DecidedOK, UnitOK, MarkedOK
  <2>3. Under(w, out.done[u])
    BY <1>4, <2>1, <2>2 DEF Ruled
  <2>4. w[1] \in Int /\ w[2] \in Int
    BY <2>2 DEF JointOK
  <2> QED BY <1>2, <1>4, <2>3, <2>4, UnderCovers
<1>6. ASSUME NEW k \in DOMAIN decisions.maskTerms, NEW r \in TermRanges(Units[u], decisions.maskTerms[k][1])
      PROVE  Contained(r, decisions.keeps[u]) \/ Covered(u, r)
  <2>1. Contained(r, decisions.keeps[u]) \/ Under(r, out.done[u])
    BY <1>4 DEF Ruled
  <2>2. r[1] \in 0 .. Len(Units[u]) /\ r[2] \in 0 .. Len(Units[u])
    BY <1>2, TermRangesAre
  <2>3. r[1] \in Int /\ r[2] \in Int
    BY <2>2
  <2> QED BY <1>2, <1>4, <2>1, <2>3, UnderCovers
<1> QED BY <1>5, <1>6

-----------------------------------------------------------------------------
(* Whatever decisions the reviewer takes, the stored records stay fit to    *)
(* work on: the edits of every unit are good, an occurrence decided or      *)
(* listed as a finding has a place of its own and an origin, and what was   *)
(* kept or masked is recorded once (review_service.py, engine.py).          *)
THEOREM ReviewInvariant == Spec => []ReviewInv
<1> QED BY ReviewStarts, ReviewSteps, PTL DEF Spec

(* Whatever the reviewer decides, in whatever order, the three records of  *)
(* one text agree: the edits of a unit are in order, apart and inside it,  *)
(* both offset maps take every literal character to itself, and a finding  *)
(* points at the text the audit read (spans.py, findings.py).              *)
THEOREM OffsetsAlwaysAgree == Spec => []OffsetsAgree
<1> QED BY ReviewInvariant, Agreeing, PTL

(* A reviewer's mask is never lost: whatever the lists, the detectors, the *)
(* tables and the propagation do, every character of an occurrence he has  *)
(* masked, or of a term he has masked in the document outside the kept     *)
(* places, is under a replacement (overrides.py, engine.py).               *)
THEOREM MasksAlwaysHold == Spec => []ReviewersMasksHold
<1> QED BY ReviewInvariant, Holding, PTL
==============================================================================
