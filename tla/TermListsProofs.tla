-------------------------- MODULE TermListsProofs --------------------------
(***************************************************************************)
(* The term lists for any documents, terms, families, limit and bounds.    *)
(***************************************************************************)
EXTENDS TermLists, Integers, SequenceTheorems, TLAPS

----------------------------------------------------------------------------
(* Lists of terms, each term once.                                         *)

TermSeqs == {s \in Seq(Terms) : IsInjective(s)}

\* What is cut off a list is its end, and a list within the limit stays.
LEMMA CutList ==
  ASSUME NEW s \in TermSeqs
  PROVE  /\ Cut(s) \in TermSeqs /\ Len(Cut(s)) <= Limit
         /\ Elements(Cut(s)) \subseteq Elements(s)
         /\ \A i \in 1 .. Len(s) : i <= Limit => s[i] \in Elements(Cut(s))
         /\ Len(s) <= Limit => Cut(s) = s
<1> USE DEF TermSeqs
<1> DEFINE n == IF Len(s) < Limit THEN Len(s) ELSE Limit
<1>1. Limit \in Nat /\ Len(s) \in Nat /\ n \in Nat /\ n <= Len(s) /\ n <= Limit
  BY ListBoundsAssumption, LenProperties
<1>2. \A i \in 1 .. n : s[i] \in Terms
  BY <1>1, ElementOfSeq
<1>3. /\ SubSeq(s, 1, n) \in Seq(Terms) /\ Len(SubSeq(s, 1, n)) = n
      /\ \A i \in 1 .. n : SubSeq(s, 1, n)[i] = s[i]
  <2>1. 1 \in Int /\ n \in Int
    BY <1>1
  <2>2. /\ SubSeq(s, 1, n) \in Seq(Terms)
        /\ Len(SubSeq(s, 1, n)) = IF 1 <= n THEN n - 1 + 1 ELSE 0
        /\ \A i \in 1 .. n - 1 + 1 : SubSeq(s, 1, n)[i] = s[1 + i - 1]
    BY <1>2, <2>1, SubSeqProperties
  <2> QED  BY <1>1, <2>2
<1>4. Cut(s) = SubSeq(s, 1, n)
  BY DEF Cut
<1> HIDE DEF n
<1>5. DOMAIN Cut(s) = 1 .. n /\ DOMAIN s = 1 .. Len(s)
  BY <1>3, <1>4, LenProperties
<1>6. IsInjective(Cut(s))
  BY <1>1, <1>3, <1>4, <1>5 DEF IsInjective
<1>7. Elements(Cut(s)) \subseteq Elements(s)
  BY <1>1, <1>3, <1>4, <1>5 DEF Elements, ToSet
<1>8. \A i \in 1 .. Len(s) : i <= Limit => s[i] \in Elements(Cut(s))
  <2> SUFFICES ASSUME NEW i \in 1 .. Len(s), i <= Limit PROVE s[i] \in Elements(Cut(s))
    OBVIOUS
  <2>1. i \in 1 .. n
    BY <1>1 DEF n
  <2>2. i \in DOMAIN Cut(s) /\ Cut(s)[i] = s[i]
    BY <1>3, <1>4, <1>5, <2>1
  <2> QED  BY <2>2 DEF Elements, ToSet
<1>9. Len(s) <= Limit => Cut(s) = s
  BY <1>1, <1>3, <1>4, SeqEqual DEF n
<1> QED  BY <1>1, <1>3, <1>4, <1>6, <1>7, <1>8, <1>9

LEMMA JoinedList ==
  ASSUME NEW s \in TermSeqs, NEW t \in Terms
  PROVE  /\ Joined(s, t) \in TermSeqs
         /\ Elements(Joined(s, t)) = Elements(s) \cup {t}
         /\ t \notin Elements(s) =>
              /\ Joined(s, t) = Append(s, t) /\ Len(Joined(s, t)) = Len(s) + 1
              /\ Joined(s, t)[Len(s) + 1] = t
              /\ \A i \in 1 .. Len(s) : Joined(s, t)[i] = s[i]
<1> USE DEF TermSeqs
<1>1. CASE t \in Elements(s)
  BY <1>1 DEF Joined
<1>2. CASE t \notin Elements(s)
  <2>1. /\ Append(s, t) \in Seq(Terms) /\ Len(Append(s, t)) = Len(s) + 1
        /\ \A i \in 1 .. Len(s) : Append(s, t)[i] = s[i]
        /\ Append(s, t)[Len(s) + 1] = t
    BY AppendProperties
  <2>2. Len(s) \in Nat /\ DOMAIN s = 1 .. Len(s) /\ DOMAIN Append(s, t) = 1 .. Len(s) + 1
    BY <2>1, LenProperties
  <2>3. \A i \in 1 .. Len(s) : s[i] # t
    BY <1>2, <2>2 DEF Elements, ToSet
  <2>4. IsInjective(Append(s, t))
    BY <2>1, <2>2, <2>3 DEF IsInjective
  <2>5. Elements(Append(s, t)) = Elements(s) \cup {t}
    <3>1. \A i \in 1 .. Len(s) + 1 : i \in 1 .. Len(s) \/ i = Len(s) + 1
      BY <2>2
    <3> QED  BY <2>1, <2>2, <3>1 DEF Elements, ToSet
  <2> QED  BY <1>2, <2>1, <2>4, <2>5 DEF Joined
<1> QED  BY <1>1, <1>2

\* A list without a term: the others keep their order.
LEMMA WithoutList ==
  ASSUME NEW s \in TermSeqs, NEW t \in Terms
  PROVE  /\ Without(s, t) \in TermSeqs /\ Len(Without(s, t)) <= Len(s)
         /\ Elements(Without(s, t)) = Elements(s) \ {t}
         /\ t \notin Elements(s) => Without(s, t) = s
<1>0. /\ s \in Seq(Terms) /\ IsInjective(s)
      /\ Len(s) \in Nat /\ DOMAIN s = 1 .. Len(s)
  BY LenProperties DEF TermSeqs
<1>1. CASE t \notin Elements(s)
  BY <1>0, <1>1 DEF Without, TermSeqs
<1>2. CASE t \in Elements(s)
  <2> DEFINE k == CHOOSE i \in DOMAIN s : s[i] = t
             a == SubSeq(s, 1, k - 1)
             b == SubSeq(s, k + 1, Len(s))
  <2>1. k \in 1 .. Len(s) /\ s[k] = t
    BY <1>0, <1>2 DEF Elements, ToSet
  <2>2. Without(s, t) = a \o b
    BY <1>2 DEF Without, RemoveAt
  <2> HIDE DEF k
  <2>3. /\ a \in Seq(Terms) /\ Len(a) = k - 1 /\ \A i \in 1 .. k - 1 : a[i] = s[i]
    <3>1. \A i \in 1 .. k - 1 : s[i] \in Terms
      BY <1>0, <2>1, ElementOfSeq
    <3>2. 1 \in Int /\ k - 1 \in Int
      BY <2>1
    <3>3. /\ a \in Seq(Terms)
          /\ Len(a) = IF 1 <= k - 1 THEN k - 1 - 1 + 1 ELSE 0
          /\ \A i \in 1 .. k - 1 - 1 + 1 : a[i] = s[1 + i - 1]
      BY <3>1, <3>2, SubSeqProperties
    <3>4. k - 1 - 1 + 1 = k - 1 /\ \A i \in 1 .. k - 1 : 1 + i - 1 = i
      BY <2>1
    <3> QED  BY <2>1, <3>3, <3>4
  <2>4. /\ b \in Seq(Terms) /\ Len(b) = Len(s) - k
        /\ \A i \in 1 .. Len(s) - k : b[i] = s[k + i]
    <3>1. \A i \in k + 1 .. Len(s) : s[i] \in Terms
      BY <1>0, <2>1, ElementOfSeq
    <3>2. k + 1 \in Int /\ Len(s) \in Int
      BY <1>0, <2>1
    <3>3. /\ b \in Seq(Terms)
          /\ Len(b) = IF k + 1 <= Len(s) THEN Len(s) - (k + 1) + 1 ELSE 0
          /\ \A i \in 1 .. Len(s) - (k + 1) + 1 : b[i] = s[k + 1 + i - 1]
      BY <3>1, <3>2, SubSeqProperties
    <3>4. /\ Len(s) - (k + 1) + 1 = Len(s) - k
          /\ \A i \in 1 .. Len(s) - k : k + 1 + i - 1 = k + i
      BY <1>0, <2>1
    <3>5. Len(b) = Len(s) - k
      <4>0. Len(s) \in Nat /\ k \in Nat /\ k <= Len(s)
        BY <1>0, <2>1
      <4>1. k + 1 <= Len(s) \/ Len(s) - k = 0
        BY <4>0
      <4> QED  BY <1>0, <2>1, <3>3, <3>4, <4>1
    <3> QED  BY <3>3, <3>4, <3>5
  <2> HIDE DEF a, b
  <2>5. /\ a \o b \in Seq(Terms) /\ Len(a \o b) = Len(s) - 1
        /\ \A i \in 1 .. Len(s) - 1 : (a \o b)[i] = IF i < k THEN s[i] ELSE s[i + 1]
    <3>1. /\ a \o b \in Seq(Terms) /\ Len(a \o b) = Len(a) + Len(b)
          /\ \A i \in 1 .. Len(a) + Len(b) :
               (a \o b)[i] = IF i <= Len(a) THEN a[i] ELSE b[i - Len(a)]
      BY <2>3, <2>4, ConcatProperties
    <3>2. Len(a) + Len(b) = Len(s) - 1
      BY <1>0, <2>1, <2>3, <2>4
    <3>3. ASSUME NEW i \in 1 .. Len(s) - 1, i < k PROVE (a \o b)[i] = s[i]
      <4>1. i \in 1 .. Len(a) + Len(b) /\ i <= Len(a) /\ i \in 1 .. k - 1
        BY <1>0, <2>1, <2>3, <3>2, <3>3
      <4> QED  BY <2>3, <3>1, <4>1
    <3>4. ASSUME NEW i \in 1 .. Len(s) - 1, ~(i < k) PROVE (a \o b)[i] = s[i + 1]
      <4>1. /\ i \in 1 .. Len(a) + Len(b) /\ ~(i <= Len(a)) /\ i - Len(a) \in 1 .. Len(s) - k
            /\ k + (i - Len(a)) = i + 1
        BY <1>0, <2>1, <2>3, <3>2, <3>4
      <4>2. (a \o b)[i] = b[i - Len(a)]
        BY <3>1, <4>1
      <4>3. b[i - Len(a)] = s[k + (i - Len(a))]
        BY <2>4, <4>1
      <4> QED  BY <4>1, <4>2, <4>3
    <3> QED  BY <3>1, <3>2, <3>3, <3>4
  <2>6. DOMAIN (a \o b) = 1 .. Len(s) - 1
    BY <2>5, LenProperties
  <2>7. IsInjective(a \o b)
    <3> DEFINE at(i) == IF i < k THEN i ELSE i + 1
    <3>1. ASSUME NEW i \in 1 .. Len(s) - 1
          PROVE  at(i) \in 1 .. Len(s) /\ at(i) # k /\ (a \o b)[i] = s[at(i)]
      BY <1>0, <2>1, <2>5
    <3>2. ASSUME NEW i \in 1 .. Len(s) - 1, NEW j \in 1 .. Len(s) - 1, at(i) = at(j)
          PROVE  i = j
      BY <1>0, <2>1, <3>2
    <3> HIDE DEF at
    <3>3. \A i, j \in 1 .. Len(s) : s[i] = s[j] => i = j
      BY <1>0 DEF IsInjective
    <3>4. ASSUME NEW i \in 1 .. Len(s) - 1, NEW j \in 1 .. Len(s) - 1, (a \o b)[i] = (a \o b)[j]
          PROVE  i = j
      <4>1. /\ at(i) \in 1 .. Len(s) /\ at(j) \in 1 .. Len(s)
            /\ s[at(i)] = s[at(j)]
        BY <3>1, <3>4
      <4> QED  BY ONLY <3>2, <3>3, <4>1
    <3> QED  BY ONLY <2>6, <3>4 DEF IsInjective
  <2>8. Elements(a \o b) = Elements(s) \ {t}
    <3>1. ASSUME NEW i \in 1 .. Len(s) - 1
          PROVE  (a \o b)[i] \in Elements(s) \ {t}
      <4> DEFINE j == IF i < k THEN i ELSE i + 1
      <4>1. j \in 1 .. Len(s) /\ j # k /\ (a \o b)[i] = s[j]
        BY <1>0, <2>1, <2>5
      <4> HIDE DEF j
      <4>2. s[j] # t
        BY <1>0, <2>1, <4>1 DEF IsInjective
      <4> QED  BY <1>0, <4>1, <4>2 DEF Elements, ToSet
    <3>2. ASSUME NEW i \in 1 .. Len(s), s[i] # t
          PROVE  s[i] \in Elements(a \o b)
      <4>1. CASE i < k
        <5>1. i \in 1 .. Len(s) - 1 /\ (a \o b)[i] = s[i]
          BY <1>0, <2>1, <2>5, <4>1
        <5> QED  BY <2>6, <5>1 DEF Elements, ToSet
      <4>2. CASE i > k
        <5>1. i - 1 \in 1 .. Len(s) - 1 /\ ~(i - 1 < k) /\ (i - 1) + 1 = i
          BY <1>0, <2>1, <4>2
        <5>2. (a \o b)[i - 1] = s[i]
          BY <2>5, <5>1
        <5> QED  BY <2>6, <5>1, <5>2 DEF Elements, ToSet
      <4> QED  BY <1>0, <2>1, <3>2, <4>1, <4>2
    <3>3. Elements(s) = {s[i] : i \in 1 .. Len(s)}
      BY <1>0 DEF Elements, ToSet
    <3>4. Elements(a \o b) = {(a \o b)[i] : i \in 1 .. Len(s) - 1}
      BY <2>6 DEF Elements, ToSet
    <3>5. Elements(a \o b) \subseteq Elements(s) \ {t}
      BY <3>1, <3>4
    <3>6. Elements(s) \ {t} \subseteq Elements(a \o b)
      BY <3>2, <3>3
    <3> QED  BY <3>5, <3>6
  <2>9. a \o b \in TermSeqs /\ Len(a \o b) <= Len(s)
    BY <1>0, <2>5, <2>7 DEF TermSeqs
  <2> QED  BY <1>2, <2>2, <2>8, <2>9
<1> QED  BY <1>1, <1>2

\* What joined last leaves the list as it was.
LEMMA JoinedWithout ==
  ASSUME NEW s \in TermSeqs, NEW t \in Terms
  PROVE  Without(Joined(s, t), t) = Without(s, t)
<1>0. s \in Seq(Terms)
  BY DEF TermSeqs
<1>1. CASE t \in Elements(s)
  BY <1>1 DEF Joined
<1>2. CASE t \notin Elements(s)
  <2> DEFINE q == Append(s, t)
             k == CHOOSE i \in DOMAIN q : q[i] = t
  <2>1. /\ Joined(s, t) = q /\ q \in Seq(Terms) /\ Elements(q) = Elements(s) \cup {t}
        /\ Len(q) = Len(s) + 1 /\ q[Len(s) + 1] = t
        /\ \A i \in 1 .. Len(s) : q[i] = s[i]
    <3>1. Joined(s, t) \in Seq(Terms)
      BY JoinedList DEF TermSeqs
    <3>2. /\ Joined(s, t) = Append(s, t) /\ Len(Joined(s, t)) = Len(s) + 1
          /\ Joined(s, t)[Len(s) + 1] = t
          /\ \A i \in 1 .. Len(s) : Joined(s, t)[i] = s[i]
      BY <1>2, JoinedList
    <3>3. Elements(Joined(s, t)) = Elements(s) \cup {t}
      BY JoinedList
    <3> QED  BY <3>1, <3>2, <3>3
  <2>2. Len(s) \in Nat /\ DOMAIN q = 1 .. Len(s) + 1 /\ DOMAIN s = 1 .. Len(s)
    BY <1>0, <2>1, LenProperties
  <2>3. \A i \in 1 .. Len(s) : s[i] # t
    BY <1>2, <2>2 DEF Elements, ToSet
  <2> HIDE DEF q
  <2>4. k = Len(s) + 1
    BY <2>1, <2>2, <2>3
  <2>5. Without(q, t) = SubSeq(q, 1, k - 1) \o SubSeq(q, k + 1, Len(q))
    BY <2>1 DEF Without, RemoveAt
  <2> HIDE DEF k
  <2>6. SubSeq(q, k + 1, Len(q)) = << >>
    BY <2>1, <2>2, <2>4, SubSeqEmpty
  <2>7. SubSeq(q, 1, k - 1) = s
    <3>1. \A i \in 1 .. Len(s) : q[i] \in Terms
      BY <2>1, <2>2, ElementOfSeq
    <3>2. k - 1 = Len(s) /\ 1 \in Int /\ Len(s) \in Int
      BY <2>2, <2>4
    <3>3. /\ SubSeq(q, 1, Len(s)) \in Seq(Terms)
          /\ Len(SubSeq(q, 1, Len(s))) = IF 1 <= Len(s) THEN Len(s) - 1 + 1 ELSE 0
          /\ \A i \in 1 .. Len(s) - 1 + 1 : SubSeq(q, 1, Len(s))[i] = q[1 + i - 1]
      BY <3>1, <3>2, SubSeqProperties
    <3>4. /\ Len(SubSeq(q, 1, Len(s))) = Len(s)
          /\ \A i \in 1 .. Len(s) : SubSeq(q, 1, Len(s))[i] = s[i]
      BY <2>1, <2>2, <3>3
    <3> QED  BY <1>0, <3>2, <3>3, <3>4, SeqEqual
  <2>8. Without(s, t) = s
    BY <1>2 DEF Without
  <2> QED  BY <1>0, <2>1, <2>5, <2>6, <2>7, <2>8, ConcatEmptySeq
<1> QED  BY <1>1, <1>2

\* A term that joins a list within its limit: the limit may cut it off again, the
\* others stay.
LEMMA JoinedWithinLimit ==
  ASSUME NEW s \in TermSeqs, Len(s) <= Limit, NEW t \in Terms, NEW r, r = Cut(Joined(s, t))
  PROVE  /\ Elements(s) \subseteq Elements(r) /\ Elements(r) \subseteq Elements(s) \cup {t}
         /\ Without(r, t) = Without(s, t)
<1> DEFINE q == Joined(s, t)
<1>0. s \in Seq(Terms) /\ Len(s) \in Nat /\ Limit \in Nat
  BY LenProperties, ListBoundsAssumption DEF TermSeqs
<1>1. CASE t \in Elements(s)
  <2>1. q = s
    BY <1>1 DEF Joined
  <2> QED  BY <2>1, CutList
<1>2. CASE t \notin Elements(s)
  <2>1. /\ q \in TermSeqs /\ Len(q) = Len(s) + 1 /\ Elements(q) = Elements(s) \cup {t}
        /\ \A i \in 1 .. Len(s) : q[i] = s[i]
    BY <1>2, JoinedList
  <2>2. CASE Len(s) < Limit
    <3>1. Len(q) <= Limit
      BY <1>0, <2>1, <2>2
    <3>2. r = q
      BY <2>1, <3>1, CutList
    <3> QED  BY <2>1, <3>2, JoinedWithout
  <2>3. CASE Len(s) = Limit
    <3> HIDE DEF q
    <3>1. r = SubSeq(q, 1, Len(s))
      BY <1>0, <2>1, <2>3 DEF Cut, q
    <3>2. \A i \in 1 .. Len(s) : q[i] \in Terms
      BY <1>0, <2>1, ElementOfSeq
    <3>3. /\ r \in Seq(Terms) /\ Len(r) = IF 1 <= Len(s) THEN Len(s) - 1 + 1 ELSE 0
          /\ \A i \in 1 .. Len(s) - 1 + 1 : r[i] = q[1 + i - 1]
      <4>1. 1 \in Int /\ Len(s) \in Int
        BY <1>0
      <4> QED  BY <3>1, <3>2, <4>1, SubSeqProperties
    <3>4. Len(r) = Len(s) /\ \A i \in 1 .. Len(s) : r[i] = s[i]
      BY <1>0, <2>1, <3>3
    <3>5. r = s
      BY <1>0, <3>3, <3>4, SeqEqual
    <3> QED  BY <3>5
  <2> QED  BY <1>0, <2>2, <2>3
<1> QED  BY <1>1, <1>2

LEMMA WithoutWithinLimit ==
  ASSUME NEW s \in TermSeqs, Len(s) <= Limit, NEW t \in Terms
  PROVE  /\ Cut(Without(s, t)) = Without(s, t)
         /\ Without(Without(s, t), t) = Without(s, t)
<1>1. /\ Without(s, t) \in TermSeqs /\ Len(Without(s, t)) <= Len(s)
      /\ Elements(Without(s, t)) = Elements(s) \ {t}
  BY WithoutList
<1>2. Len(Without(s, t)) \in Nat /\ Len(s) \in Nat /\ Limit \in Nat
  BY <1>1, LenProperties, ListBoundsAssumption DEF TermSeqs
<1>3. Len(Without(s, t)) <= Limit
  BY <1>1, <1>2
<1> QED  BY <1>1, <1>3, CutList, WithoutList

----------------------------------------------------------------------------
(* The settings, and what one change does to them.                         *)

LEMMA PartialIs ==
  ASSUME NEW S, NEW T, NEW f
  PROVE  f \in Partial(S, T) <=> DOMAIN f \subseteq S /\ f \in [DOMAIN f -> T]
BY DEF Partial

\* A draft of the dialog, settings as they are stored, and what of them differs
\* when a term comes or goes.
Drafts == [always : TermSeqs, never : TermSeqs, family : Partial(Terms, Families), mode : Modes]
Stored == {p \in Drafts : /\ Len(p.always) <= Limit /\ Len(p.never) <= Limit
                          /\ DOMAIN p.family \subseteq Elements(p.always)}

LEMMA StoredIsOK == ASSUME NEW p \in Stored PROVE PrefsOK(p)
<1>1. p.family \in Partial(Elements(p.always), Families)
  BY PartialIs DEF Stored, Drafts
<1> QED  BY <1>1 DEF Stored, Drafts, TermSeqs, PrefsOK

\* The validators make any draft storable, and leave what is stored alone.
LEMMA CleanStores ==
  ASSUME NEW p \in Drafts
  PROVE  /\ Clean(p) \in Stored
         /\ p \in Stored => Clean(p) = p
         /\ Clean(p).always = Cut(p.always) /\ Clean(p).never = Cut(p.never)
         /\ Clean(p).mode = p.mode
<1> DEFINE a == Cut(p.always)
           g == [t \in DOMAIN p.family \cap Elements(a) |-> p.family[t]]
<1>1. /\ p = [always |-> p.always, never |-> p.never, family |-> p.family, mode |-> p.mode]
      /\ p.always \in TermSeqs /\ p.never \in TermSeqs /\ p.mode \in Modes
      /\ p.family \in Partial(Terms, Families)
  BY DEF Drafts
<1>2. Clean(p) = [always |-> a, never |-> Cut(p.never), family |-> g, mode |-> p.mode]
  BY <1>1 DEF Clean
<1>3. DOMAIN p.family \subseteq Terms /\ p.family \in [DOMAIN p.family -> Families]
  BY <1>1, PartialIs
<1>4. DOMAIN g \subseteq Elements(a) /\ g \in Partial(Terms, Families)
  <2>1. DOMAIN g \subseteq Terms /\ g \in [DOMAIN g -> Families]
    BY <1>3
  <2> HIDE DEF g
  <2>2. g \in Partial(Terms, Families)
    BY <2>1, PartialIs
  <2> QED  BY <2>2 DEF g
<1>5. /\ a \in TermSeqs /\ Cut(p.never) \in TermSeqs
      /\ Len(a) <= Limit /\ Len(Cut(p.never)) <= Limit
  BY <1>1, CutList
<1>6. Clean(p) \in Stored
  BY <1>1, <1>2, <1>4, <1>5 DEF Stored, Drafts
<1>7. ASSUME p \in Stored PROVE Clean(p) = p
  <2>1. a = p.always /\ Cut(p.never) = p.never
    BY <1>1, <1>7, CutList DEF Stored
  <2>2. DOMAIN p.family \cap Elements(a) = DOMAIN p.family
    BY <1>7, <2>1 DEF Stored
  <2>3. g = p.family
    BY <1>3, <2>2
  <2> QED  BY <1>1, <1>2, <2>1, <2>3
<1> QED  BY <1>2, <1>6, <1>7

\* What is asked for is stored.  What the always-mask list had it keeps, but for
\* the term a decision takes off it, and a term that joins it leaves the other.
LEMMA ChangeStores ==
  ASSUME NEW p \in Stored, NEW c \in Change, NEW n, n = Clean(Changed(p, c))
  PROVE  /\ n \in Stored
         /\ Others(n, c.term) = Others(p, c.term)
         /\ c.kind = "none" => n = p
         /\ c.kind = "always" => /\ Elements(p.always) \subseteq Elements(n.always)
                                 /\ Elements(n.never) = Elements(p.never) \ {c.term}
         /\ c.kind = "never" => /\ Elements(n.always) = Elements(p.always) \ {c.term}
                                /\ Elements(n.never) \subseteq Elements(p.never) \cup {c.term}
<1> DEFINE t == c.term
<1>0. /\ p = [always |-> p.always, never |-> p.never, family |-> p.family, mode |-> p.mode]
      /\ p \in Drafts /\ p.always \in TermSeqs /\ p.never \in TermSeqs /\ p.mode \in Modes
      /\ p.family \in Partial(Terms, Families)
      /\ Len(p.always) \in Nat /\ Len(p.never) \in Nat
      /\ Len(p.always) <= Limit /\ Len(p.never) <= Limit
      /\ DOMAIN p.family \subseteq Elements(p.always)
      /\ t \in Terms /\ c.family \in Families /\ c.kind \in {"none", "always", "never"}
  BY LenProperties DEF Stored, Drafts, Change, TermSeqs
<1>1. DOMAIN p.family \subseteq Terms /\ p.family \in [DOMAIN p.family -> Families]
  BY <1>0, PartialIs
<1>2. CASE c.kind = "none"
  <2>1. Changed(p, c) = p
    BY <1>2 DEF Changed
  <2> QED  BY <1>0, <1>2, <2>1, CleanStores
<1>3. CASE c.kind = "always"
  <2> DEFINE f == [u \in DOMAIN p.family \cup {t} |-> IF u = t THEN c.family ELSE p.family[u]]
             q == [always |-> Joined(p.always, t), never |-> Without(p.never, t),
                   family |-> f, mode |-> p.mode]
  <2>1. Changed(p, c) = Clean(q)
    BY <1>0, <1>3 DEF Changed, WithAlways
  <2>2. DOMAIN f \subseteq Terms /\ f \in [DOMAIN f -> Families]
    BY <1>0, <1>1
  <2>3. \A u \in Terms \ {t} : (u \in DOMAIN f <=> u \in DOMAIN p.family)
                                /\ (u \in DOMAIN f => f[u] = p.family[u])
    OBVIOUS
  <2> HIDE DEF f
  <2>4. f \in Partial(Terms, Families)
    BY <2>2, PartialIs
  <2>5. q \in Drafts
    BY <1>0, <2>4, JoinedList, WithoutList DEF Drafts
  <2>6. /\ n = Clean(q) /\ n \in Stored /\ n.mode = p.mode
        /\ n.always = Cut(Joined(p.always, t)) /\ n.never = Cut(Without(p.never, t))
    <3> HIDE DEF q
    <3>1. Clean(q) \in Stored /\ Clean(q) \in Drafts
      BY <2>5, CleanStores DEF Stored
    <3>2. n = Clean(q)
      BY <2>1, <3>1, CleanStores
    <3>3. /\ Clean(q).mode = q.mode
          /\ Clean(q).always = Cut(q.always) /\ Clean(q).never = Cut(q.never)
      BY <2>5, CleanStores
    <3> QED  BY <3>1, <3>2, <3>3 DEF q
  <2>7. n.never = Without(p.never, t) /\ Elements(n.never) = Elements(p.never) \ {t}
        /\ Without(n.never, t) = Without(p.never, t)
    BY <1>0, <2>6, WithoutWithinLimit, WithoutList
  <2>8. Elements(p.always) \subseteq Elements(n.always) /\ Without(n.always, t) = Without(p.always, t)
    BY <1>0, <2>6, JoinedWithinLimit
  <2>9. n.family = [u \in DOMAIN f \cap Elements(n.always) |-> f[u]]
    BY <2>6 DEF Clean
  <2>10. [u \in DOMAIN n.family \ {t} |-> n.family[u]] = [u \in DOMAIN p.family \ {t} |-> p.family[u]]
    <3>1. DOMAIN n.family \ {t} = DOMAIN p.family \ {t}
      BY <1>0, <1>1, <2>2, <2>3, <2>8, <2>9
    <3>2. \A u \in DOMAIN p.family \ {t} : n.family[u] = p.family[u]
      BY <1>0, <1>1, <2>2, <2>3, <2>8, <2>9
    <3> QED  BY <3>1, <3>2
  <2> QED  BY <1>3, <2>6, <2>7, <2>8, <2>10 DEF Others
<1>4. CASE c.kind = "never"
  <2> DEFINE f == [u \in DOMAIN p.family \ {t} |-> p.family[u]]
             q == [always |-> Without(p.always, t), never |-> Joined(p.never, t),
                   family |-> f, mode |-> p.mode]
  <2>1. Changed(p, c) = Clean(q)
    BY <1>0, <1>4 DEF Changed, WithNever
  <2>2. DOMAIN f = DOMAIN p.family \ {t} /\ \A u \in DOMAIN f : f[u] = p.family[u]
    OBVIOUS
  <2>3. DOMAIN f \subseteq Terms /\ f \in [DOMAIN f -> Families]
    BY <1>1
  <2> HIDE DEF f
  <2>4. f \in Partial(Terms, Families)
    BY <2>3, PartialIs
  <2>5. q \in Drafts
    BY <1>0, <2>4, JoinedList, WithoutList DEF Drafts
  <2>6. /\ n = Clean(q) /\ n \in Stored /\ n.mode = p.mode
        /\ n.always = Cut(Without(p.always, t)) /\ n.never = Cut(Joined(p.never, t))
    <3> HIDE DEF q
    <3>1. Clean(q) \in Stored /\ Clean(q) \in Drafts
      BY <2>5, CleanStores DEF Stored
    <3>2. n = Clean(q)
      BY <2>1, <3>1, CleanStores
    <3>3. /\ Clean(q).mode = q.mode
          /\ Clean(q).always = Cut(q.always) /\ Clean(q).never = Cut(q.never)
      BY <2>5, CleanStores
    <3> QED  BY <3>1, <3>2, <3>3 DEF q
  <2>7. n.always = Without(p.always, t) /\ Elements(n.always) = Elements(p.always) \ {t}
        /\ Without(n.always, t) = Without(p.always, t)
    BY <1>0, <2>6, WithoutWithinLimit, WithoutList
  <2>8. Elements(n.never) \subseteq Elements(p.never) \cup {t} /\ Without(n.never, t) = Without(p.never, t)
    BY <1>0, <2>6, JoinedWithinLimit
  <2>9. n.family = [u \in DOMAIN f \cap Elements(n.always) |-> f[u]]
    BY <2>6 DEF Clean
  <2>10. [u \in DOMAIN n.family \ {t} |-> n.family[u]] = [u \in DOMAIN p.family \ {t} |-> p.family[u]]
    <3>1. DOMAIN n.family \ {t} = DOMAIN p.family \ {t}
      BY <1>0, <2>2, <2>7, <2>9
    <3>2. \A u \in DOMAIN p.family \ {t} : n.family[u] = p.family[u]
      BY <1>0, <2>2, <2>7, <2>9
    <3> QED  BY <3>1, <3>2
  <2> QED  BY <1>4, <2>6, <2>7, <2>8, <2>10 DEF Others
<1> QED  BY <1>0, <1>2, <1>3, <1>4

----------------------------------------------------------------------------
(* What the state may be.                                                  *)

Stages == {"idle", "change", "terms", "families", "save", "store", "findings", "restore",
           "undo"}
Decs   == [keep : SUBSET Terms, mask : Partial(Terms, Families), findings : SUBSET Terms]
Seen   == [always : SUBSET Terms, never : SUBSET Terms, family : Partial(Terms, Families)]
Active == [stage : Stages \ {"idle"}, new : Decs, previous : Decs, change : Change,
           before : Stored, applied : Stored, lists : Seen, opposed : BOOLEAN]

StateTyped ==
  /\ prefs \in Stored /\ cache \in Stored
  /\ dialog \in {Closed} \cup [open : {TRUE}, draft : Drafts, from : Stored]
  /\ decisions \in [Docs -> Decs] /\ accepted \in [Docs -> Decs]
  /\ masked \in [Docs -> [decisions : Decs, lists : Seen]]
  /\ op \in [Docs -> {Idle} \cup Active]
  /\ wanted \subseteq Terms
  /\ bounds \in [decisions : Nat, faults : Nat, crashes : Nat, saves : Nat]

\* Until something fails, a decision has nothing to undo, and while nobody takes its
\* term off again on purpose the lists have the term, those it masks with too.  What
\* it changed in the lists is its own term.
Pending(d) ==
  LET t == op[d].change.term
      current == Undisturbed /\ Stays(op[d])
  IN  /\ Undisturbed => op[d].stage \notin {"undo", "restore"}
      /\ op[d].stage # "change" =>
           /\ current => t \in Elements(prefs.always) \ Elements(prefs.never)
           /\ Others(op[d].applied, t) = Others(op[d].before, t)
      /\ op[d].stage \in {"families", "save", "store", "findings"} /\ current =>
           t \in op[d].lists.always \ op[d].lists.never

ListsInv ==
  /\ StateTyped
  /\ DecisionsLoseNoTerm
  /\ \A d \in Docs : op[d].stage # "idle" => Pending(d)

LEMMA EmptyTyped ==
  /\ Empty \in Stored /\ NoDecisions \in Decs /\ Lists(Empty) \in Seen
<1>1. << >> \in TermSeqs /\ Len(<< >>) = 0 /\ Elements(<< >>) = {}
  BY EmptySeq DEF TermSeqs, IsInjective, Elements, ToSet
<1>2. << >> \in Partial(Terms, Families) /\ DOMAIN << >> = {}
  <2>1. << >> \in Seq(Families) /\ Len(<< >>) = 0
    BY EmptySeq
  <2>2. << >> \in [1 .. 0 -> Families]
    BY <2>1, LenProperties
  <2>3. 1 .. 0 = {}
    OBVIOUS
  <2>4. << >> \in [{} -> Families]
    BY <2>2, <2>3
  <2> QED  BY <2>4, PartialIs
<1> QED  BY <1>1, <1>2, ListBoundsAssumption
         DEF Empty, NoDecisions, Lists, Stored, Drafts, Decs, Seen, Modes

LEMMA ListsTyped ==
  ASSUME NEW p \in Stored
  PROVE  Lists(p) \in Seen /\ p.family \in Partial(Terms, Families)
<1>1. /\ p.always \in Seq(Terms) /\ p.never \in Seq(Terms)
      /\ p.family \in Partial(Terms, Families)
  BY DEF Stored, Drafts, TermSeqs
<1>2. Elements(p.always) \subseteq Terms /\ Elements(p.never) \subseteq Terms
  BY <1>1, LenProperties, ElementOfSeq DEF Elements, ToSet
<1> QED  BY <1>1, <1>2 DEF Lists, Seen

LEMMA MaskTyped ==
  ASSUME NEW m \in Partial(Terms, Families), NEW t \in Terms, NEW f \in Families
  PROVE  /\ [u \in DOMAIN m \ {t} |-> m[u]] \in Partial(Terms, Families)
         /\ [u \in DOMAIN m \cup {t} |-> IF u = t THEN f ELSE m[u]] \in Partial(Terms, Families)
<1> DEFINE a == [u \in DOMAIN m \ {t} |-> m[u]]
           b == [u \in DOMAIN m \cup {t} |-> IF u = t THEN f ELSE m[u]]
<1>1. DOMAIN m \subseteq Terms /\ m \in [DOMAIN m -> Families]
  BY PartialIs
<1>2. DOMAIN a \subseteq Terms /\ a \in [DOMAIN a -> Families]
  BY <1>1
<1>3. DOMAIN b \subseteq Terms /\ b \in [DOMAIN b -> Families]
  BY <1>1
<1> HIDE DEF a, b
<1>4. a \in Partial(Terms, Families) /\ b \in Partial(Terms, Families)
  BY <1>2, <1>3, PartialIs
<1> QED  BY <1>4 DEF a, b

LEMMA OutcomesTyped ==
  ASSUME NEW e \in Decs, NEW t \in Terms, NEW f \in Families, NEW r \in Outcomes(e, t, f)
  PROVE  r.new \in Decs /\ r.change \in Change
<1> DEFINE a == [u \in DOMAIN e.mask \ {t} |-> e.mask[u]]
           b == [u \in DOMAIN e.mask \cup {t} |-> IF u = t THEN f ELSE e.mask[u]]
<1>1. /\ e.keep \in SUBSET Terms /\ e.mask \in Partial(Terms, Families)
      /\ e.findings \in SUBSET Terms
  BY DEF Decs
<1>2. a \in Partial(Terms, Families) /\ b \in Partial(Terms, Families)
  BY <1>1, MaskTyped
<1>3. /\ \A x \in SUBSET Terms : /\ [e EXCEPT !.keep = x] \in Decs
                                  /\ [e EXCEPT !.findings = x] \in Decs
      /\ \A x \in Partial(Terms, Families) : [e EXCEPT !.mask = x] \in Decs
  BY DEF Decs
<1>4. e.keep \cup {t} \in SUBSET Terms /\ e.keep \ {t} \in SUBSET Terms
      /\ e.findings \cup {t} \in SUBSET Terms
  BY <1>1
<1>5. [e EXCEPT !.keep = e.keep \cup {t}] \in Decs
  BY <1>3, <1>4
<1>6. WithoutMask(e, t) \in Decs
  BY <1>2, <1>3 DEF WithoutMask
<1> DEFINE unkept == [e EXCEPT !.keep = e.keep \ {t}]
           masks == [u \in DOMAIN unkept.mask \cup {t} |-> IF u = t THEN f ELSE e.mask[u]]
<1>7. unkept \in Decs /\ unkept.mask = e.mask
  BY <1>3, <1>4 DEF Decs
<1>8. masks \in Partial(Terms, Families)
  BY <1>2, <1>7
<1>9. [unkept EXCEPT !.mask = masks] \in Decs
  <2> HIDE DEF unkept, masks
  <2> QED  BY <1>7, <1>8 DEF Decs
<1>10. [e EXCEPT !.findings = e.findings \cup {t}] \in Decs
  BY <1>3, <1>4
<1>11. \A kind \in {"none", "always", "never"} : [kind |-> kind, term |-> t, family |-> f] \in Change
  BY DEF Change
<1> DEFINE Result(new, kind) == [new |-> new, change |-> [kind |-> kind, term |-> t, family |-> f]]
           news == {[e EXCEPT !.keep = e.keep \cup {t}], e, WithoutMask(e, t), unkept,
                    [unkept EXCEPT !.mask = masks], [e EXCEPT !.findings = e.findings \cup {t}]}
<1>12. \E new \in news, kind \in {"none", "always", "never"} : r = Result(new, kind)
  BY DEF Outcomes
<1>13. news \subseteq Decs
  BY <1>5, <1>6, <1>7, <1>9, <1>10
<1> HIDE DEF news
<1> QED  BY <1>11, <1>12, <1>13

LEMMA OpIs ==
  ASSUME StateTyped, NEW d \in Docs
  PROVE  /\ op[d].stage # "idle" => op[d] \in Active
         /\ op[d].stage = "idle" => op[d] = Idle
BY DEF StateTyped, Active, Idle

\* A decision under way, after one field of it changed.
LEMMA ActiveUpdate ==
  ASSUME NEW o \in Active
  PROVE  /\ \A v \in Stages \ {"idle"} :
              /\ [o EXCEPT !.stage = v] \in Active
              /\ \A l \in Seen : [o EXCEPT !.stage = v, !.lists = l] \in Active
         /\ [o EXCEPT !.opposed = TRUE] \in Active
         /\ \A b, a \in Stored :
              [o EXCEPT !.stage = "terms", !.before = b, !.applied = a, !.opposed = FALSE] \in Active
BY DEF Active, Stages

LEMMA OneTyped ==
  ASSUME StateTyped, NEW d \in Docs, NEW n \in {Idle} \cup Active, op' = [op EXCEPT ![d] = n]
  PROVE  /\ op' \in [Docs -> {Idle} \cup Active]
         /\ op'[d] = n /\ \A e \in Docs \ {d} : op'[e] = op[e]
BY DEF StateTyped

\* Decide is a step of its own; the other steps of a decision begin with one under way.
LEMMA DecideTyped ==
  ASSUME StateTyped, NEW d \in Docs, Decide(d)
  PROVE  /\ StateTyped'
         /\ op[d] = Idle /\ \A e \in Docs \ {d} : op'[e] = op[e]
         /\ op'[d] \in Active /\ op'[d].stage \in {"terms", "change"} /\ ~op'[d].opposed
         /\ op'[d].stage = "terms" => op'[d].change.kind = "none"
         /\ op'[d].before = Empty /\ op'[d].applied = Empty
<1>1. PICK t \in Terms, f \in Families : \E r \in Outcomes(decisions[d], t, f) :
          op' = [op EXCEPT ![d] =
            [stage |-> IF r.change.kind = "none" THEN "terms" ELSE "change",
             new |-> r.new, previous |-> decisions[d], change |-> r.change,
             before |-> Empty, applied |-> Empty, lists |-> Lists(Empty),
             opposed |-> FALSE]]
  BY DEF Decide
<1>2. PICK r \in Outcomes(decisions[d], t, f) :
          op' = [op EXCEPT ![d] =
            [stage |-> IF r.change.kind = "none" THEN "terms" ELSE "change",
             new |-> r.new, previous |-> decisions[d], change |-> r.change,
             before |-> Empty, applied |-> Empty, lists |-> Lists(Empty),
             opposed |-> FALSE]]
  BY <1>1
<1>3. decisions[d] \in Decs
  BY DEF StateTyped
<1>4. r.new \in Decs /\ r.change \in Change
  BY <1>2, <1>3, OutcomesTyped
<1> DEFINE n == [stage |-> IF r.change.kind = "none" THEN "terms" ELSE "change",
                 new |-> r.new, previous |-> decisions[d], change |-> r.change,
                 before |-> Empty, applied |-> Empty, lists |-> Lists(Empty),
                 opposed |-> FALSE]
<1>5. n \in Active
  BY <1>3, <1>4, EmptyTyped DEF Active, Stages
<1>6. /\ op' = [op EXCEPT ![d] = n]
      /\ n.stage \in {"terms", "change"} /\ n.opposed = FALSE
      /\ n.stage = "terms" => n.change.kind = "none"
      /\ n.before = Empty /\ n.applied = Empty
  BY <1>2
<1> HIDE DEF n
<1>7. /\ op' \in [Docs -> {Idle} \cup Active]
      /\ op'[d] = n /\ \A e \in Docs \ {d} : op'[e] = op[e]
  BY <1>5, <1>6, OneTyped
<1>8. StateTyped'
  <2>1. /\ UNCHANGED <<prefs, decisions, masked, cache, dialog, wanted, accepted>>
        /\ bounds' = [bounds EXCEPT !.decisions = @ + 1]
    BY DEF Decide
  <2>2. bounds' \in [decisions : Nat, faults : Nat, crashes : Nat, saves : Nat]
    BY <2>1 DEF StateTyped
  <2> QED  BY <1>7, <2>1, <2>2 DEF StateTyped
<1>9. op[d] = Idle
  BY OpIs DEF Decide, At
<1> QED  BY <1>5, <1>6, <1>7, <1>8, <1>9

LEMMA ChangeTyped ==
  ASSUME StateTyped, NEW d \in Docs, ChangeLists(d)
  PROVE  /\ StateTyped' /\ op[d] \in Active
         /\ prefs' = Clean(Changed(prefs, op[d].change))
         /\ op'[d] = [op[d] EXCEPT !.stage = "terms", !.before = prefs,
                                  !.applied = prefs', !.opposed = FALSE]
         /\ wanted' = IF op[d].change.kind = "never" THEN wanted \ {op[d].change.term} ELSE wanted
         /\ \A e \in Docs \ {d} :
              \/ op'[e] = op[e] /\ (/\ op[d].change.kind = "never" /\ op[e].stage # "idle"
                                     => op[e].change.term # op[d].change.term)
              \/ op[e].stage # "idle" /\ op'[e] = [op[e] EXCEPT !.opposed = TRUE]
<1> DEFINE c == op[d].change
           n == [op[d] EXCEPT !.stage = "terms", !.before = prefs,
                              !.applied = Clean(Changed(prefs, c)), !.opposed = FALSE]
           own == [op EXCEPT ![d] = n]
<1>1. op[d].stage = "change" /\ op[d] \in Active /\ c \in Change /\ prefs \in Stored
  BY OpIs DEF ChangeLists, At, Active, StateTyped
<1>2. Clean(Changed(prefs, c)) \in Stored
  BY <1>1, ChangeStores
<1>3. n \in Active
  BY <1>1, <1>2, ActiveUpdate
<1>4. /\ prefs' = Clean(Changed(prefs, c))
      /\ op' = IF c.kind = "never" THEN Opposed(own, d, c.term) ELSE own
      /\ wanted' = IF c.kind = "never" THEN wanted \ {c.term} ELSE wanted
      /\ UNCHANGED <<decisions, masked, cache, dialog, accepted, bounds>>
  BY DEF ChangeLists
<1>5. /\ op'[d] = n /\ DOMAIN op' = Docs
      /\ \A e \in Docs \ {d} :
           \/ op'[e] = op[e] /\ (c.kind = "never" /\ op[e].stage # "idle" => op[e].change.term # c.term)
           \/ op[e].stage # "idle" /\ op'[e] = [op[e] EXCEPT !.opposed = TRUE]
  <2> HIDE DEF n
  <2>1. own[d] = n /\ DOMAIN own = Docs /\ \A e \in Docs \ {d} : own[e] = op[e]
    BY DEF StateTyped
  <2> HIDE DEF own
  <2>2. CASE c.kind = "never"
    <3>1. op' = [e \in Docs |-> IF e # d /\ own[e].stage # "idle" /\ own[e].change.term = c.term
                                THEN [own[e] EXCEPT !.opposed = TRUE] ELSE own[e]]
      BY <1>4, <2>2 DEF Opposed
    <3> QED  BY <2>1, <2>2, <3>1
  <2>3. CASE c.kind # "never"
    BY <1>4, <2>1, <2>3
  <2> QED  BY <2>2, <2>3
<1> HIDE DEF n
<1>6. ASSUME NEW e \in Docs PROVE op'[e] \in {Idle} \cup Active
  BY <1>3, <1>5, OpIs, ActiveUpdate
<1>7. op' \in [Docs -> {Idle} \cup Active]
  <2>1. CASE c.kind = "never"
    <3>1. op' = [e \in Docs |-> IF e # d /\ own[e].stage # "idle" /\ own[e].change.term = c.term
                                THEN [own[e] EXCEPT !.opposed = TRUE] ELSE own[e]]
      BY <1>4, <2>1 DEF Opposed
    <3> HIDE DEF own
    <3>2. op' = [e \in Docs |-> op'[e]]
      BY <3>1
    <3> QED  BY <1>6, <3>2
  <2>2. CASE c.kind # "never"
    BY <1>3, <1>4, <2>2, OneTyped
  <2> QED  BY <2>1, <2>2
<1>8. StateTyped'
  BY <1>2, <1>4, <1>7 DEF StateTyped
<1> QED  BY <1>1, <1>4, <1>5, <1>8 DEF n

\* The other steps of a decision: what becomes of it, and of what it writes.
LEMMA StepTyped ==
  ASSUME StateTyped, NEW d \in Docs,
         \/ ReadTerms(d) \/ ReadFamilies(d) \/ SaveDecisions(d) \/ StoreText(d) \/ Finish(d)
         \/ Fails(d) \/ RestoreDecisions(d) \/ Undo(d)
  PROVE  StateTyped' /\ \A e \in Docs \ {d} : op'[e] = op[e]
<1>0. /\ prefs \in Stored /\ Lists(prefs) \in Seen
      /\ prefs.family \in Partial(Terms, Families)
  BY ListsTyped DEF StateTyped
<1>1. CASE ReadTerms(d)
  <2>1. op[d] \in Active
    BY <1>1, OpIs DEF ReadTerms, At
  <2>2. op' = [op EXCEPT ![d] = [op[d] EXCEPT !.stage = "families", !.lists = Lists(prefs)]]
    BY <1>1 DEF ReadTerms
  <2>3. [op[d] EXCEPT !.stage = "families", !.lists = Lists(prefs)] \in Active
    BY <1>0, <2>1, ActiveUpdate DEF Stages
  <2> QED  BY <1>1, <2>2, <2>3, OneTyped DEF StateTyped, ReadTerms
<1>2. CASE ReadFamilies(d)
  <2>1. op[d] \in Active
    BY <1>2, OpIs DEF ReadFamilies, At
  <2> DEFINE l == [op[d].lists EXCEPT !.family = prefs.family]
  <2>2. op' = [op EXCEPT ![d] = [op[d] EXCEPT !.stage = "save", !.lists = l]]
    BY <1>2 DEF ReadFamilies
  <2>3. l \in Seen
    BY <1>0, <2>1 DEF Active, Seen
  <2> HIDE DEF l
  <2>4. [op[d] EXCEPT !.stage = "save", !.lists = l] \in Active
    BY <2>1, <2>3, ActiveUpdate DEF Stages
  <2> QED  BY <1>2, <2>2, <2>4, OneTyped DEF StateTyped, ReadFamilies
<1>3. CASE SaveDecisions(d)
  <2>1. op[d] \in Active /\ op[d].new \in Decs
    BY <1>3, OpIs DEF SaveDecisions, At, Active
  <2>2. op' = [op EXCEPT ![d] = [op[d] EXCEPT !.stage = "store"]]
    BY <1>3 DEF SaveDecisions, Goes
  <2>3. [op[d] EXCEPT !.stage = "store"] \in Active
    BY <2>1, ActiveUpdate DEF Stages
  <2>4. decisions' \in [Docs -> Decs]
    BY <1>3, <2>1 DEF StateTyped, SaveDecisions
  <2> QED  BY <1>3, <2>2, <2>3, <2>4, OneTyped DEF StateTyped, SaveDecisions
<1>4. CASE StoreText(d)
  <2>1. op[d] \in Active /\ op[d].new \in Decs /\ op[d].lists \in Seen
    BY <1>4, OpIs DEF StoreText, At, Active
  <2>2. op' = [op EXCEPT ![d] = [op[d] EXCEPT !.stage = "findings"]]
    BY <1>4 DEF StoreText, Goes
  <2>3. [op[d] EXCEPT !.stage = "findings"] \in Active
    BY <2>1, ActiveUpdate DEF Stages
  <2>4. masked' \in [Docs -> [decisions : Decs, lists : Seen]]
    BY <1>4, <2>1 DEF StateTyped, StoreText
  <2> QED  BY <1>4, <2>2, <2>3, <2>4, OneTyped DEF StateTyped, StoreText
<1>5. CASE Finish(d)
  <2>1. op[d] \in Active /\ op[d].new \in Decs /\ op[d].change.term \in Terms
    BY <1>5, OpIs DEF Finish, At, Active, Change
  <2>2. op' = [op EXCEPT ![d] = Idle]
    BY <1>5 DEF Finish
  <2>3. accepted' \in [Docs -> Decs] /\ wanted' \subseteq Terms
    BY <1>5, <2>1 DEF StateTyped, Finish
  <2> QED  BY <1>5, <2>2, <2>3, OneTyped DEF StateTyped, Finish
<1>6. CASE Fails(d)
  <2>1. op[d] \in Active
    BY <1>6, OpIs DEF Fails
  <2> DEFINE n == CASE op[d].stage \in {"change", "undo"}                    -> Idle
                    [] op[d].stage \in {"terms", "families", "save", "restore"} -> Undone(d)
                    [] op[d].stage \in {"store", "findings"} -> [op[d] EXCEPT !.stage = "restore"]
  <2>2. op' = [op EXCEPT ![d] = n]
    BY <1>6 DEF Fails
  <2>3. Undone(d) \in {Idle} \cup Active /\ [op[d] EXCEPT !.stage = "restore"] \in Active
    BY <2>1, ActiveUpdate DEF Undone, Stages
  <2>4. op[d].stage \in Stages \ {"idle"}
    BY <2>1 DEF Active
  <2>5. n \in {Idle} \cup Active
    BY <2>3, <2>4 DEF Stages
  <2> HIDE DEF n
  <2>6. bounds' \in [decisions : Nat, faults : Nat, crashes : Nat, saves : Nat]
    BY <1>6 DEF StateTyped, Fails
  <2> QED  BY <1>6, <2>2, <2>5, <2>6, OneTyped DEF StateTyped, Fails
<1>7. CASE RestoreDecisions(d)
  <2>1. op[d] \in Active /\ op[d].previous \in Decs
    BY <1>7, OpIs DEF RestoreDecisions, At, Active
  <2>2. op' = [op EXCEPT ![d] = Undone(d)]
    BY <1>7 DEF RestoreDecisions
  <2>3. Undone(d) \in {Idle} \cup Active
    BY <2>1, ActiveUpdate DEF Undone, Stages
  <2>4. decisions' \in [Docs -> Decs]
    BY <1>7, <2>1 DEF StateTyped, RestoreDecisions
  <2> QED  BY <1>7, <2>2, <2>3, <2>4, OneTyped DEF StateTyped, RestoreDecisions
<1>8. CASE Undo(d)
  <2>1. op[d] \in Active /\ op[d].before \in Stored
    BY <1>8, OpIs DEF Undo, At, Active
  <2>2. prefs' \in Stored
    BY <1>0, <1>8, <2>1, CleanStores DEF Undo, Stored
  <2> QED  BY <1>8, <2>2, OneTyped DEF StateTyped, Undo
<1> QED  BY <1>1, <1>2, <1>3, <1>4, <1>5, <1>6, <1>7, <1>8

LEMMA OthersTyped ==
  ASSUME StateTyped, Crash \/ Dialog
  PROVE  /\ StateTyped' /\ UNCHANGED masked
         /\ \A d \in Docs : op'[d] \in {Idle, op[d]} \/ (op[d].stage # "idle" /\ op'[d] = [op[d] EXCEPT !.opposed = TRUE])
         /\ \/ UNCHANGED <<prefs, wanted>> /\ (Undisturbed' => Undisturbed)
            \/ ~Undisturbed'
<1>1. CASE Crash
  <2>1. op' = [d \in Docs |-> Idle] /\ UNCHANGED <<prefs, decisions, masked, cache, dialog, wanted, accepted>>
    BY <1>1 DEF Crash
  <2>2. /\ bounds' \in [decisions : Nat, faults : Nat, crashes : Nat, saves : Nat]
        /\ bounds'.faults = bounds.faults /\ bounds'.saves = bounds.saves
    BY <1>1 DEF Crash, StateTyped
  <2> QED  BY <2>1, <2>2 DEF StateTyped, Undisturbed
<1>2. CASE Fetch
  <2>1. dialog' \in {Closed} \cup [open : {TRUE}, draft : Drafts, from : Stored]
    BY <1>2 DEF Fetch, StateTyped, Stored
  <2> QED  BY <1>2, <2>1 DEF Fetch, StateTyped, Undisturbed
<1>3. CASE OpenDialog
  <2>1. dialog' \in {Closed} \cup [open : {TRUE}, draft : Drafts, from : Stored]
    BY <1>3 DEF OpenDialog, StateTyped, Stored
  <2> QED  BY <1>3, <2>1 DEF OpenDialog, StateTyped, Undisturbed
<1>4. CASE EditDialog
  <2>1. PICK t \in Terms, list \in {"always", "never"}, m \in Modes :
          dialog' \in {[dialog EXCEPT !.draft.mode = m],
                      [dialog EXCEPT !.draft[list] = Joined(dialog.draft[list], t)],
                      [dialog EXCEPT !.draft[list] = Without(dialog.draft[list], t)]}
    BY <1>4 DEF EditDialog
  <2>2. dialog \in [open : {TRUE}, draft : Drafts, from : Stored]
    <3>1. dialog.open
      BY <1>4 DEF EditDialog
    <3>2. dialog = Closed \/ dialog \in [open : {TRUE}, draft : Drafts, from : Stored]
      BY DEF StateTyped
    <3>3. dialog # Closed
      BY <3>1 DEF Closed
    <3> QED  BY <3>2, <3>3
  <2>3. /\ dialog.draft \in Drafts /\ dialog.draft[list] \in TermSeqs
    BY <2>2 DEF Drafts
  <2>4. Joined(dialog.draft[list], t) \in TermSeqs /\ Without(dialog.draft[list], t) \in TermSeqs
    BY <2>3, JoinedList, WithoutList
  <2>5. PICK draft \in Drafts : dialog' = [dialog EXCEPT !.draft = draft]
    <3>1. /\ [dialog.draft EXCEPT !.mode = m] \in Drafts
          /\ \A x \in TermSeqs : [dialog.draft EXCEPT ![list] = x] \in Drafts
      BY <2>3 DEF Drafts
    <3> QED  BY <2>1, <2>4, <3>1
  <2>6. dialog' \in [open : {TRUE}, draft : Drafts, from : Stored]
    BY <2>2, <2>5
  <2> QED  BY <1>4, <2>6 DEF EditDialog, StateTyped, Undisturbed
<1>5. CASE CloseDialog
  BY <1>5 DEF CloseDialog, StateTyped, Undisturbed
<1>6. CASE SaveDialog
  <2>1. dialog \in [open : {TRUE}, draft : Drafts, from : Stored]
    <3>1. dialog.open
      BY <1>6 DEF SaveDialog
    <3>2. dialog = Closed \/ dialog \in [open : {TRUE}, draft : Drafts, from : Stored]
      BY DEF StateTyped
    <3>3. dialog # Closed
      BY <3>1 DEF Closed
    <3> QED  BY <3>2, <3>3
  <2> DEFINE before == Elements(dialog.from.always)
             after  == Elements(Clean(dialog.draft).always)
  <2>2. /\ prefs' = Clean(dialog.draft) /\ cache' = prefs' /\ dialog' = Closed
        /\ wanted' = (wanted \ (before \ after)) \cup (after \ before)
        /\ op' = [d \in Docs |->
              IF op[d].stage # "idle" /\ op[d].change.term \in before \ after
                THEN [op[d] EXCEPT !.opposed = TRUE] ELSE op[d]]
        /\ bounds' = [bounds EXCEPT !.saves = @ + 1]
        /\ UNCHANGED <<decisions, masked, accepted>>
    BY <1>6 DEF SaveDialog
  <2>3. prefs' \in Stored
    BY <2>1, <2>2, CleanStores
  <2>4. after \subseteq Terms
    BY <2>2, <2>3, ListsTyped DEF Lists, Seen
  <2> HIDE DEF before, after
  <2>5. op' \in [Docs -> {Idle} \cup Active]
    <3>1. ASSUME NEW d \in Docs PROVE op'[d] \in {Idle} \cup Active
      BY <2>2, OpIs, ActiveUpdate
    <3> QED  BY <2>2, <3>1
  <2>6. /\ bounds' \in [decisions : Nat, faults : Nat, crashes : Nat, saves : Nat]
        /\ bounds'.saves # 0
    BY <2>2 DEF StateTyped
  <2>7. wanted' \subseteq Terms
    BY <2>2, <2>4 DEF StateTyped
  <2>8. StateTyped'
    BY <2>2, <2>3, <2>5, <2>6, <2>7 DEF StateTyped
  <2> QED  BY <2>2, <2>6, <2>8 DEF Undisturbed
<1> QED  BY <1>1, <1>2, <1>3, <1>4, <1>5, <1>6 DEF Dialog

\* A decision that others step over, or take the term of, keeps what it has.
LEMMA PendingStays ==
  ASSUME ListsInv, NEW d \in Docs, op[d].stage # "idle",
         op'[d] \in {op[d], [op[d] EXCEPT !.opposed = TRUE]},
         Undisturbed' => Undisturbed,
         Undisturbed' /\ Stays(op[d])' /\ op[d].change.term \in Elements(prefs.always) \ Elements(prefs.never)
           => op[d].change.term \in Elements(prefs'.always) \ Elements(prefs'.never)
  PROVE  Pending(d)'
<1>1. op[d] \in Active /\ Pending(d)
  BY OpIs DEF ListsInv
<1>2. /\ op'[d].stage = op[d].stage /\ op'[d].change = op[d].change
      /\ op'[d].applied = op[d].applied /\ op'[d].before = op[d].before
      /\ op'[d].lists = op[d].lists /\ (op[d].opposed = TRUE => op'[d].opposed = TRUE)
  BY <1>1 DEF Active
<1>3. Stays(op[d])' => Stays(op[d])
  BY <1>1, <1>2 DEF Stays, Active
<1> QED  BY <1>1, <1>2, <1>3 DEF Pending

LEMMA ListsInit == Init => ListsInv
<1> SUFFICES ASSUME Init PROVE ListsInv
  OBVIOUS
<1>1. StateTyped
  BY EmptyTyped DEF Init, StateTyped, Stored
<1> QED  BY <1>1 DEF Init, ListsInv, DecisionsLoseNoTerm, NoTermIsLost, Idle

LEMMA ListsOthers == ListsInv /\ (Crash \/ Dialog) => ListsInv'
<1> SUFFICES ASSUME ListsInv, Crash \/ Dialog PROVE ListsInv'
  OBVIOUS
<1>1. /\ StateTyped'
      /\ \A d \in Docs : op'[d] \in {Idle, op[d]} \/ (op[d].stage # "idle" /\ op'[d] = [op[d] EXCEPT !.opposed = TRUE])
      /\ \/ UNCHANGED <<prefs, wanted>> /\ (Undisturbed' => Undisturbed)
         \/ ~Undisturbed'
  BY OthersTyped DEF ListsInv, Undisturbed
<1>2. DecisionsLoseNoTerm'
  BY <1>1 DEF ListsInv, DecisionsLoseNoTerm, NoTermIsLost
<1>3. ASSUME NEW d \in Docs, op'[d].stage # "idle" PROVE Pending(d)'
  <2>1. op[d].stage # "idle" /\ op'[d] \in {op[d], [op[d] EXCEPT !.opposed = TRUE]}
    <3>1. op[d].stage = "idle" => op[d] = Idle
      BY OpIs DEF ListsInv
    <3>2. op'[d] # Idle
      BY <1>3 DEF Idle
    <3>3. op[d].stage # "idle"
      BY <1>1, <3>1, <3>2
    <3> QED  BY <1>1, <3>2, <3>3
  <2> QED  BY <1>1, <2>1, PendingStays
<1> QED  BY <1>1, <1>2, <1>3 DEF ListsInv

\* The lists change: whose term it is, and who has it listed.
LEMMA ListsChange ==
  ASSUME ListsInv, NEW d \in Docs, ChangeLists(d)
  PROVE  ListsInv'
<1> DEFINE c == op[d].change
<1>1. /\ StateTyped /\ StateTyped' /\ op[d] \in Active
      /\ prefs' = Clean(Changed(prefs, c))
      /\ op'[d] = [op[d] EXCEPT !.stage = "terms", !.before = prefs,
                               !.applied = prefs', !.opposed = FALSE]
      /\ wanted' = IF c.kind = "never" THEN wanted \ {c.term} ELSE wanted
      /\ \A e \in Docs \ {d} :
           \/ op'[e] = op[e] /\ (c.kind = "never" /\ op[e].stage # "idle" => op[e].change.term # c.term)
           \/ op[e].stage # "idle" /\ op'[e] = [op[e] EXCEPT !.opposed = TRUE]
  BY ChangeTyped DEF ListsInv
<1>2. /\ prefs \in Stored /\ c \in Change /\ c.kind \in {"none", "always", "never"}
      /\ Undisturbed' => Undisturbed
  BY <1>1 DEF StateTyped, Active, Change, ChangeLists, Undisturbed
<1>3. /\ Others(prefs', c.term) = Others(prefs, c.term)
      /\ c.kind = "none" => prefs' = prefs
      /\ c.kind = "always" => /\ Elements(prefs.always) \subseteq Elements(prefs'.always)
                              /\ Elements(prefs'.never) = Elements(prefs.never) \ {c.term}
      /\ c.kind = "never" => /\ Elements(prefs'.always) = Elements(prefs.always) \ {c.term}
                             /\ Elements(prefs'.never) \subseteq Elements(prefs.never) \cup {c.term}
  <2>1. prefs' = Clean(Changed(prefs, c))
    BY <1>1
  <2> HIDE DEF c
  <2> QED  BY <1>2, <2>1, ChangeStores
<1> HIDE DEF c
<1>4. DecisionsLoseNoTerm'
  BY <1>1, <1>2, <1>3 DEF ListsInv, DecisionsLoseNoTerm, NoTermIsLost
<1>5. Pending(d)'
  <2>1. /\ op'[d].stage = "terms" /\ op'[d].before = prefs /\ op'[d].applied = prefs'
        /\ op'[d].change = c
    BY <1>1 DEF Active, c
  <2>2. Stays(op'[d]) => c.kind = "always" /\ c.term \in Elements(prefs'.always)
    BY <2>1 DEF Stays
  <2> QED  BY <1>3, <2>1, <2>2 DEF Pending
<1>6. ASSUME NEW e \in Docs \ {d}, op'[e].stage # "idle" PROVE Pending(e)'
  <2>1. op[e].stage # "idle" /\ op'[e] \in {op[e], [op[e] EXCEPT !.opposed = TRUE]}
    BY <1>1, <1>6
  <2>2. op[e] \in Active
    BY <1>1, <2>1, OpIs
  <2>3. ASSUME Stays(op'[e]), op[e].change.term \in Elements(prefs.always) \ Elements(prefs.never)
        PROVE  op[e].change.term \in Elements(prefs'.always) \ Elements(prefs'.never)
    <3>1. op'[e] # [op[e] EXCEPT !.opposed = TRUE]
      <4>1. [op[e] EXCEPT !.opposed = TRUE].opposed = TRUE
        BY <2>2 DEF Active
      <4> QED  BY <2>3, <4>1 DEF Stays
    <3>2. c.kind = "never" => op[e].change.term # c.term
      BY <1>1, <2>1, <3>1
    <3> QED  BY <1>2, <1>3, <2>3, <3>2
  <2> QED  BY <1>2, <2>1, <2>3, PendingStays
<1> QED  BY <1>1, <1>5, <1>6, <1>4 DEF ListsInv

LEMMA ListsDecide ==
  ASSUME ListsInv, NEW d \in Docs, Decide(d)
  PROVE  ListsInv'
<1>1. /\ StateTyped /\ StateTyped'
      /\ op[d] = Idle /\ \A e \in Docs \ {d} : op'[e] = op[e]
      /\ op'[d] \in Active /\ op'[d].stage \in {"terms", "change"}
      /\ op'[d].stage = "terms" => op'[d].change.kind = "none"
      /\ op'[d].before = Empty /\ op'[d].applied = Empty
  BY DecideTyped DEF ListsInv
<1>2. UNCHANGED <<prefs, wanted>> /\ Undisturbed' = Undisturbed
  <2>1. /\ UNCHANGED <<prefs, wanted>>
        /\ bounds' = [bounds EXCEPT !.decisions = @ + 1]
    BY DEF Decide
  <2> QED  BY <1>1, <2>1 DEF StateTyped, Undisturbed
<1>3. Pending(d)'
  BY <1>1 DEF Pending, Stays
<1>4. ASSUME NEW e \in Docs \ {d}, op'[e].stage # "idle" PROVE Pending(e)'
  BY <1>1, <1>2, <1>4, PendingStays
<1> QED  BY <1>1, <1>2, <1>3, <1>4 DEF ListsInv, DecisionsLoseNoTerm, NoTermIsLost

LEMMA ListsStep ==
  ASSUME ListsInv, NEW d \in Docs,
         \/ ReadTerms(d) \/ ReadFamilies(d) \/ SaveDecisions(d) \/ StoreText(d) \/ Finish(d)
         \/ Fails(d) \/ RestoreDecisions(d) \/ Undo(d)
  PROVE  ListsInv'
<1>1. StateTyped /\ StateTyped' /\ \A e \in Docs \ {d} : op'[e] = op[e]
  BY StepTyped DEF ListsInv
<1>2. op[d].stage # "idle" /\ op[d] \in Active /\ Pending(d)
  <2>1. op[d].stage # "idle"
    BY DEF ReadTerms, ReadFamilies, SaveDecisions, StoreText, Finish, Fails,
           RestoreDecisions, Undo, At
  <2> QED  BY <1>1, <2>1, OpIs DEF ListsInv
<1>3. /\ Undisturbed' => Undisturbed /\ UNCHANGED prefs
      /\ DecisionsLoseNoTerm'
  <2>1. CASE ReadTerms(d) \/ ReadFamilies(d) \/ SaveDecisions(d) \/ StoreText(d) \/ RestoreDecisions(d)
    BY <2>1 DEF ListsInv, DecisionsLoseNoTerm, NoTermIsLost, Undisturbed,
                ReadTerms, ReadFamilies, SaveDecisions, StoreText, RestoreDecisions
  <2>2. CASE Finish(d)
    <3>1. /\ op[d].stage = "findings" /\ UNCHANGED <<prefs, bounds>>
          /\ wanted' = IF Stays(op[d]) THEN wanted \cup {op[d].change.term} ELSE wanted
      BY <2>2 DEF Finish, At
    <3> QED  BY <1>2, <3>1 DEF ListsInv, DecisionsLoseNoTerm, NoTermIsLost, Undisturbed, Pending
  <2>3. CASE Fails(d)
    <3>1. bounds' = [bounds EXCEPT !.faults = @ + 1]
      BY <2>3 DEF Fails
    <3>2. ~Undisturbed'
      BY <1>1, <3>1 DEF StateTyped, Undisturbed
    <3> QED  BY <3>2 DEF DecisionsLoseNoTerm
  <2>4. CASE Undo(d)
    <3>1. op[d].stage = "undo" /\ UNCHANGED bounds
      BY <2>4 DEF Undo, At
    <3>2. ~Undisturbed'
      BY <1>2, <3>1 DEF Pending, Undisturbed
    <3> QED  BY <3>2 DEF DecisionsLoseNoTerm
  <2> QED  BY <2>1, <2>2, <2>3, <2>4
<1>4. ASSUME NEW e \in Docs \ {d}, op'[e].stage # "idle" PROVE Pending(e)'
  BY <1>1, <1>3, <1>4, PendingStays
<1>5. ASSUME op'[d].stage # "idle" PROVE Pending(d)'
  <2>1. CASE ReadTerms(d)
    <3>1. /\ op[d].stage = "terms" /\ UNCHANGED <<prefs, bounds>>
          /\ op' = [op EXCEPT ![d] = [op[d] EXCEPT !.stage = "families", !.lists = Lists(prefs)]]
      BY <2>1 DEF ReadTerms, At
    <3>2. op'[d] = [op[d] EXCEPT !.stage = "families", !.lists = Lists(prefs)]
      BY <1>1, <3>1 DEF StateTyped
    <3>3. /\ op'[d].stage = "families" /\ op'[d].change = op[d].change
          /\ op'[d].applied = op[d].applied /\ op'[d].before = op[d].before
          /\ op'[d].opposed = op[d].opposed /\ op'[d].lists = Lists(prefs)
      BY <1>2, <3>2 DEF Active
    <3>4. /\ Lists(prefs).always = Elements(prefs.always)
          /\ Lists(prefs).never = Elements(prefs.never)
      BY DEF Lists
    <3> QED  BY <1>2, <3>1, <3>3, <3>4 DEF Pending, Stays, Undisturbed
  <2>2. CASE ReadFamilies(d) \/ SaveDecisions(d) \/ StoreText(d)
    <3>1. PICK v \in {"save", "store", "findings"} :
            /\ op[d].stage \in {"families", "save", "store"} /\ UNCHANGED <<prefs, bounds>>
            /\ \/ op' = [op EXCEPT ![d] = [op[d] EXCEPT !.stage = v]]
               \/ op' = [op EXCEPT ![d] = [op[d] EXCEPT !.stage = v,
                                  !.lists = [op[d].lists EXCEPT !.family = prefs.family]]]
      BY <2>2 DEF ReadFamilies, SaveDecisions, StoreText, At, Goes
    <3>2. \/ op'[d] = [op[d] EXCEPT !.stage = v]
          \/ op'[d] = [op[d] EXCEPT !.stage = v,
                              !.lists = [op[d].lists EXCEPT !.family = prefs.family]]
      BY <1>1, <3>1 DEF StateTyped
    <3>3. /\ op'[d].stage = v /\ op'[d].change = op[d].change
          /\ op'[d].applied = op[d].applied /\ op'[d].before = op[d].before
          /\ op'[d].opposed = op[d].opposed
          /\ op'[d].lists.always = op[d].lists.always /\ op'[d].lists.never = op[d].lists.never
      BY ZenonT(60), <1>2, <3>2 DEF Active, Seen
    <3> QED  BY <1>2, <3>1, <3>3 DEF Pending, Stays, Undisturbed
  <2>3. CASE Finish(d) \/ Undo(d)
    <3>1. op'[d] = Idle
      BY <1>1, <2>3 DEF Finish, Undo, StateTyped
    <3> QED  BY <1>5, <3>1 DEF Idle
  <2>4. CASE Fails(d) \/ RestoreDecisions(d)
    <3>1. ~Undisturbed'
      <4>1. CASE Fails(d)
        <5>1. bounds' = [bounds EXCEPT !.faults = @ + 1]
          BY <4>1 DEF Fails
        <5> QED  BY <1>1, <5>1 DEF StateTyped, Undisturbed
      <4>2. CASE RestoreDecisions(d)
        <5>1. op[d].stage = "restore" /\ UNCHANGED bounds
          BY <4>2 DEF RestoreDecisions, At
        <5> QED  BY <1>2, <5>1 DEF Pending, Undisturbed
      <4> QED  BY <2>4, <4>1, <4>2
    <3>2. /\ op'[d] \in {[op[d] EXCEPT !.stage = "undo"], [op[d] EXCEPT !.stage = "restore"]}
          /\ op[d].stage # "change"
      <4>1. CASE RestoreDecisions(d)
        <5>1. op'[d] = Undone(d) /\ op[d].stage = "restore"
          BY <1>1, <4>1 DEF RestoreDecisions, StateTyped, At
        <5> QED  BY <1>5, <5>1 DEF Undone, Idle
      <4>2. CASE Fails(d)
        <5>1. op'[d] = CASE op[d].stage \in {"change", "undo"}                    -> Idle
                         [] op[d].stage \in {"terms", "families", "save", "restore"} -> Undone(d)
                         [] op[d].stage \in {"store", "findings"} -> [op[d] EXCEPT !.stage = "restore"]
          BY <1>1, <4>2 DEF Fails, StateTyped
        <5>2. op[d].stage \in Stages \ {"idle"}
          BY <1>2 DEF Active
        <5>3. CASE op[d].stage \in {"change", "undo"}
          BY <1>5, <5>1, <5>3 DEF Idle
        <5>4. CASE op[d].stage \in {"terms", "families", "save", "restore"}
          BY <1>5, <5>1, <5>4 DEF Undone, Idle
        <5>5. CASE op[d].stage \in {"store", "findings"}
          BY <5>1, <5>5
        <5> QED  BY <5>2, <5>3, <5>4, <5>5 DEF Stages
      <4> QED  BY <2>4, <4>1, <4>2
    <3>3. /\ op'[d].stage \in {"undo", "restore"} /\ op'[d].change = op[d].change
          /\ op'[d].applied = op[d].applied /\ op'[d].before = op[d].before
      BY <1>2, <3>2 DEF Active
    <3> QED  BY <1>2, <3>1, <3>2, <3>3 DEF Pending
  <2> QED  BY <2>1, <2>2, <2>3, <2>4
<1> QED  BY <1>1, <1>3, <1>4, <1>5 DEF ListsInv

LEMMA ListsKept == ListsInv /\ [Next]_vars => ListsInv'
<1> SUFFICES ASSUME ListsInv, [Next]_vars PROVE ListsInv'
  OBVIOUS
<1>1. ASSUME NEW d \in Docs, Decision(d) PROVE ListsInv'
  BY <1>1, ListsDecide, ListsChange, ListsStep DEF Decision
<1>2. CASE Crash \/ Dialog
  BY <1>2, ListsOthers
<1>3. CASE UNCHANGED vars
  BY <1>3 DEF vars, ListsInv, StateTyped, DecisionsLoseNoTerm, NoTermIsLost, Undisturbed,
              Pending, Stays
<1> QED  BY <1>1, <1>2, <1>3 DEF Next

\* The lists hold each term once and end at their limit, and decisions.json and what
\* was masked are of the shape the code reads, however decisions, their undo, ends of
\* the process and the dialog come in between (UserSettings._clean_terms).
THEOREM TermsTyped == Spec => []TermsTypeOK
<1>1. ListsInv => TermsTypeOK
  <2> SUFFICES ASSUME ListsInv PROVE TermsTypeOK
    OBVIOUS
  <2>1. PrefsOK(prefs) /\ PrefsOK(cache)
    BY StoredIsOK DEF ListsInv, StateTyped
  <2>2. ASSUME NEW d \in Docs
        PROVE  /\ DecisionsOK(decisions[d]) /\ DecisionsOK(accepted[d])
               /\ DecisionsOK(masked[d].decisions)
               /\ At(d, "idle") \/ op[d].change \in Change
    <3>1. decisions[d] \in Decs /\ accepted[d] \in Decs /\ masked[d].decisions \in Decs
      BY DEF ListsInv, StateTyped
    <3>2. op[d].stage # "idle" => op[d].change \in Change
      BY OpIs DEF ListsInv, Active
    <3> QED  BY <3>1, <3>2 DEF Decs, DecisionsOK, At
  <2> QED  BY <2>1, <2>2 DEF TermsTypeOK, ListsInv, StateTyped
<1> QED  BY ListsInit, ListsKept, <1>1, PTL DEF Spec

\* While nothing fails and nobody saves the dialog, no decision on whatever document
\* takes away a term that another one put on the always-mask list, however long the
\* lists are and wherever they are cut (update_user_settings under _LOCK).
THEOREM NoTermLost == Spec => []DecisionsLoseNoTerm
<1>1. ListsInv => DecisionsLoseNoTerm
  BY DEF ListsInv
<1> QED  BY ListsInit, ListsKept, <1>1, PTL DEF Spec

\* A text that a global decision stores was masked with that decision's term, read
\* after the lists changed (the order of _commit).
THEOREM GlobalApplies == Spec => GlobalMaskApplies
<1> DEFINE A == \A d \in Docs :
       (/\ Undisturbed
        /\ At(d, "store") /\ op'[d].stage = "findings"
        /\ Stays(op[d]))
         => op[d].change.term \in masked'[d].lists.always \ masked'[d].lists.never
<1>1. ListsInv /\ [Next]_vars => [A]_vars
  <2> SUFFICES ASSUME ListsInv, Next, NEW d \in Docs,
                      Undisturbed, At(d, "store"), op'[d].stage = "findings", Stays(op[d])
               PROVE  op[d].change.term \in masked'[d].lists.always \ masked'[d].lists.never
    OBVIOUS
  <2>1. StateTyped /\ op[d] \in Active /\ op[d].stage = "store" /\ Pending(d)
    BY OpIs DEF ListsInv, At
  <2>2. op[d].change.term \in op[d].lists.always \ op[d].lists.never
    BY <2>1 DEF Pending
  <2>3. CASE StoreText(d)
    BY <2>1, <2>2, <2>3 DEF StoreText, StateTyped
  <2>4. CASE ~StoreText(d)
    <3>1. op'[d].stage # "findings"
      <4>1. ASSUME NEW e \in Docs, Decision(e), e # d PROVE op'[d].stage = "store"
        <5>1. \/ op'[d] = op[d] \/ op'[d] = [op[d] EXCEPT !.opposed = TRUE]
          BY <2>1, <4>1, DecideTyped, ChangeTyped, StepTyped DEF Decision
        <5> QED  BY <2>1, <5>1 DEF Active
      <4>2. CASE Crash \/ Dialog
        <5>1. op'[d] \in {Idle, op[d]} \/ op'[d] = [op[d] EXCEPT !.opposed = TRUE]
          BY <2>1, <4>2, OthersTyped
        <5> QED  BY <2>1, <5>1 DEF Active, Idle
      <4>3. CASE Fails(d)
        <5>1. op'[d] = [op[d] EXCEPT !.stage = "restore"]
          BY <2>1, <4>3 DEF Fails, StateTyped
        <5> QED  BY <2>1, <5>1 DEF Active
      <4>4. CASE Decision(d) /\ ~Fails(d)
        BY <2>1, <2>4, <4>4 DEF Decision, Decide, ChangeLists, ReadTerms, ReadFamilies,
             SaveDecisions, Finish, RestoreDecisions, Undo, At
      <4> QED  BY <4>1, <4>2, <4>3, <4>4 DEF Next
    <3> QED  BY <3>1
  <2> QED  BY <2>3, <2>4
<1> QED  BY ListsInit, ListsKept, <1>1, PTL DEF Spec, GlobalMaskApplies

\* What the undo of a decision changes in the lists is that decision's own term, however
\* they were changed since (the comparison in _commit).
THEOREM UndoIsOwn == Spec => UndoTouchesOnlyItsTerm
<1> DEFINE A == \A d \in Docs : At(d, "undo") /\ op'[d].stage = "idle" =>
                  Others(prefs', op[d].change.term) = Others(prefs, op[d].change.term)
<1>1. ListsInv /\ [Next]_vars => [A]_vars
  <2> SUFFICES ASSUME ListsInv, Next, NEW d \in Docs, At(d, "undo"), op'[d].stage = "idle"
               PROVE  Others(prefs', op[d].change.term) = Others(prefs, op[d].change.term)
    OBVIOUS
  <2>1. /\ StateTyped /\ op[d] \in Active /\ op[d].stage = "undo"
        /\ Others(op[d].applied, op[d].change.term) = Others(op[d].before, op[d].change.term)
    BY OpIs DEF ListsInv, At, Pending
  <2>2. CASE Undo(d)
    <3>1. /\ prefs \in Stored /\ op[d].before \in Stored
          /\ prefs \in Drafts /\ op[d].before \in Drafts
      BY <2>1 DEF StateTyped, Active, Stored
    <3>2. prefs' = IF prefs = op[d].applied THEN op[d].before ELSE prefs
      BY <2>2, <3>1, CleanStores DEF Undo
    <3> QED  BY <2>1, <3>2
  <2>3. CASE ~Undo(d)
    <3>1. ASSUME NEW e \in Docs, Decision(e), e # d PROVE FALSE
      <4>1. \/ op'[d] = op[d] \/ op'[d] = [op[d] EXCEPT !.opposed = TRUE]
        BY <2>1, <3>1, DecideTyped, ChangeTyped, StepTyped DEF Decision
      <4> QED  BY <2>1, <4>1 DEF Active
    <3>2. CASE Crash \/ Fails(d)
      BY <3>2 DEF Crash, Fails
    <3>3. CASE Dialog
      <4>1. op' = op \/ SaveDialog
        BY <3>3 DEF Dialog, Fetch, OpenDialog, EditDialog, CloseDialog
      <4>2. op'[d] \in {op[d], [op[d] EXCEPT !.opposed = TRUE]}
        BY <2>1, <4>1 DEF SaveDialog, StateTyped
      <4>3. op'[d].stage = "undo"
        BY <2>1, <4>2 DEF Active
      <4> QED  BY <4>3
    <3>4. CASE Decision(d) /\ ~Fails(d)
      BY <2>1, <2>3, <3>4 DEF Decision, Decide, ChangeLists, ReadTerms, ReadFamilies,
           SaveDecisions, StoreText, Finish, RestoreDecisions, At
    <3> QED  BY <3>1, <3>2, <3>3, <3>4 DEF Next
  <2> QED  BY <2>2, <2>3
<1> QED  BY ListsInit, ListsKept, <1>1, PTL DEF Spec, UndoTouchesOnlyItsTerm

----------------------------------------------------------------------------
(* FailedDecisionIsGone, proved for any documents, terms and bounds.       *)

\* The fields of a decision that say what becomes of decisions.json.
Shaped(o) == /\ "stage" \in DOMAIN o /\ o.stage \in Stages
             /\ o.stage # "idle" => {"new", "previous"} \subseteq DOMAIN o

\* What a decision at each stage knows of decisions.json: until it saves, the last
\* success is there; from then on only `previous` remembers it.
StageKnows(d) ==
  /\ op[d].stage \in {"idle", "change", "terms", "families", "save", "undo"} =>
       decisions[d] = accepted[d]
  /\ op[d].stage \in {"change", "terms", "families", "save", "store", "findings", "restore"} =>
       op[d].previous = accepted[d]
  /\ op[d].stage \in {"store", "findings"} => decisions[d] = op[d].new
  /\ op[d].stage = "restore" => bounds.faults > 0

AtMostOneFault == bounds.crashes = 0 /\ bounds.faults <= 1

StoreShaped ==
  /\ bounds \in [decisions : Nat, faults : Nat, crashes : Nat, saves : Nat]
  /\ DOMAIN op = Docs /\ DOMAIN decisions = Docs /\ DOMAIN accepted = Docs
  /\ \A d \in Docs : Shaped(op[d])

RestoreInv == StoreShaped /\ (AtMostOneFault => \A d \in Docs : StageKnows(d))

\* A step that leaves a decision's stage and both versions alone leaves it what it knew.
Alike(n, o) == n.stage = o.stage /\ (o.stage # "idle" => n.new = o.new /\ n.previous = o.previous)

\* An update of one other field keeps the shape and the two versions.
LEMMA FieldUpdate ==
  ASSUME NEW o, Shaped(o), NEW v
  PROVE  /\ Shaped([o EXCEPT !.opposed = v]) /\ Alike([o EXCEPT !.opposed = v], o)
         /\ o.stage # "idle" /\ v \in Stages =>
              /\ Shaped([o EXCEPT !.stage = v]) /\ [o EXCEPT !.stage = v].stage = v
              /\ [o EXCEPT !.stage = v].new = o.new
              /\ [o EXCEPT !.stage = v].previous = o.previous
BY DEF Shaped, Alike

\* A step of others: what changes of `op` is no stage and no version.
LEMMA OthersKnow ==
  ASSUME RestoreInv, StoreShaped', UNCHANGED <<decisions, accepted>>,
         bounds'.faults >= bounds.faults, bounds'.crashes >= bounds.crashes,
         \A d \in Docs : Alike(op'[d], op[d])
  PROVE  RestoreInv'
<1>1. AtMostOneFault' => AtMostOneFault
  BY DEF RestoreInv, StoreShaped, AtMostOneFault
<1>2. ASSUME AtMostOneFault', NEW d \in Docs PROVE StageKnows(d)'
  <2>1. StageKnows(d)
    BY <1>1, <1>2 DEF RestoreInv
  <2>2. Alike(op'[d], op[d])
    OBVIOUS
  <2> QED  BY <2>1, <2>2 DEF StageKnows, Alike, RestoreInv, StoreShaped
<1> QED  BY <1>2 DEF RestoreInv

\* A step of one decision: the others keep what they know.
LEMMA OneKnows ==
  ASSUME RestoreInv, StoreShaped', NEW d \in Docs,
         bounds'.faults >= bounds.faults, bounds'.crashes >= bounds.crashes,
         \A e \in Docs \ {d} : /\ Alike(op'[e], op[e])
                               /\ decisions'[e] = decisions[e] /\ accepted'[e] = accepted[e],
         StageKnows(d) /\ AtMostOneFault' => StageKnows(d)'
  PROVE  RestoreInv'
<1>1. AtMostOneFault' => AtMostOneFault
  BY DEF RestoreInv, StoreShaped, AtMostOneFault
<1>2. ASSUME AtMostOneFault', NEW e \in Docs \ {d} PROVE StageKnows(e)'
  <2>1. StageKnows(e)
    BY <1>1, <1>2 DEF RestoreInv
  <2>2. /\ Alike(op'[e], op[e])
        /\ decisions'[e] = decisions[e] /\ accepted'[e] = accepted[e]
    OBVIOUS
  <2> QED  BY <2>1, <2>2 DEF StageKnows, Alike, RestoreInv, StoreShaped
<1>3. AtMostOneFault' => StageKnows(d)'
  BY <1>1 DEF RestoreInv
<1> QED  BY <1>2, <1>3 DEF RestoreInv

LEMMA RestoreInit == Init => RestoreInv
BY DEF Init, RestoreInv, StoreShaped, Shaped, Stages, StageKnows, Idle

\* The steps of one decision, of a stage that they leave.
LEMMA DecisionKeeps ==
  ASSUME RestoreInv, NEW d \in Docs, Decision(d)
  PROVE  RestoreInv'
<1> USE DEF At, Stages
<1>0. StoreShaped /\ Shaped(op[d])
  BY DEF RestoreInv, StoreShaped
<1>1. CASE Decide(d)
  <2>1. PICK t \in Terms, f \in Families : \E r \in Outcomes(decisions[d], t, f) :
          op' = [op EXCEPT ![d] =
            [stage |-> IF r.change.kind = "none" THEN "terms" ELSE "change",
             new |-> r.new, previous |-> decisions[d], change |-> r.change,
             before |-> Empty, applied |-> Empty, lists |-> Lists(Empty),
             opposed |-> FALSE]]
    BY <1>1 DEF Decide
  <2>2. PICK r : op' = [op EXCEPT ![d] =
            [stage |-> IF r.change.kind = "none" THEN "terms" ELSE "change",
             new |-> r.new, previous |-> decisions[d], change |-> r.change,
             before |-> Empty, applied |-> Empty, lists |-> Lists(Empty),
             opposed |-> FALSE]]
    BY <2>1
  <2>3. /\ \A e \in Docs \ {d} : op'[e] = op[e]
        /\ DOMAIN op' = Docs /\ Shaped(op'[d])
        /\ op'[d].stage \in {"terms", "change"} /\ op'[d].previous = decisions[d]
    BY <1>0, <2>2 DEF Shaped, StoreShaped
  <2>4. /\ bounds' \in [decisions : Nat, faults : Nat, crashes : Nat, saves : Nat]
        /\ bounds'.faults = bounds.faults /\ bounds'.crashes = bounds.crashes
        /\ UNCHANGED <<decisions, accepted>> /\ op[d].stage = "idle"
    BY <1>0, <1>1 DEF Decide, StoreShaped
  <2>5. StoreShaped'
    BY <1>0, <2>3, <2>4 DEF StoreShaped
  <2> QED  BY <1>0, <2>3, <2>4, <2>5, OneKnows DEF StageKnows, StoreShaped, Alike
<1>2. CASE ChangeLists(d)
  <2>1. /\ op[d].stage = "change" /\ UNCHANGED <<decisions, accepted, bounds>>
    BY <1>2 DEF ChangeLists
  <2> DEFINE own == [op EXCEPT ![d] = [@ EXCEPT !.stage = "terms", !.before = prefs,
                                   !.applied = Clean(Changed(prefs, op[d].change)),
                                   !.opposed = FALSE]]
  <2>2. /\ DOMAIN own = Docs /\ \A e \in Docs \ {d} : own[e] = op[e]
        /\ Shaped(own[d]) /\ own[d].stage = "terms" /\ own[d].previous = op[d].previous
    BY <1>0, <2>1 DEF Shaped, StoreShaped
  <2>3. \A e \in Docs : Shaped(own[e])
    BY <1>0, <2>2 DEF StoreShaped
  <2>4. op' = own \/ op' = Opposed(own, d, op[d].change.term)
    BY <1>2 DEF ChangeLists
  <2>5. DOMAIN op' = Docs /\ \A e \in Docs : op'[e] = own[e] \/ op'[e] = [own[e] EXCEPT !.opposed = TRUE]
    BY <2>2, <2>4 DEF Opposed
  <2> HIDE DEF own
  <2>6. ASSUME NEW e \in Docs PROVE Shaped(op'[e]) /\ Alike(op'[e], own[e])
    <3>1. Shaped(own[e])
      BY <2>3
    <3>2. /\ Shaped([own[e] EXCEPT !.opposed = TRUE])
          /\ Alike([own[e] EXCEPT !.opposed = TRUE], own[e])
      BY <3>1, FieldUpdate
    <3>3. CASE op'[e] = own[e]
      BY <3>1, <3>3 DEF Alike
    <3>4. CASE op'[e] = [own[e] EXCEPT !.opposed = TRUE]
      BY <3>2, <3>4
    <3> QED  BY <2>5, <3>3, <3>4
  <2>7. StoreShaped'
    BY <1>0, <2>1, <2>5, <2>6 DEF StoreShaped
  <2>8. \A e \in Docs \ {d} : Alike(op'[e], op[e])
    BY <2>2, <2>6 DEF Alike
  <2>9. op'[d].stage = "terms" /\ op'[d].previous = op[d].previous
    BY <2>2, <2>6 DEF Alike
  <2> QED  BY <1>0, <2>1, <2>7, <2>8, <2>9, OneKnows DEF StageKnows, StoreShaped
<1>3. CASE ReadTerms(d) \/ ReadFamilies(d)
  <2>1. /\ UNCHANGED <<decisions, accepted, bounds>>
        /\ op[d].stage \in {"terms", "families"}
        /\ DOMAIN op' = Docs /\ \A e \in Docs \ {d} : op'[e] = op[e]
        /\ Shaped(op'[d]) /\ op'[d].previous = op[d].previous
        /\ op'[d].stage \in {"families", "save"}
    BY <1>0, <1>3 DEF ReadTerms, ReadFamilies, Shaped, StoreShaped
  <2>2. StoreShaped'
    BY <1>0, <2>1 DEF StoreShaped
  <2> QED  BY <1>0, <2>1, <2>2, OneKnows DEF StageKnows, StoreShaped, Alike
<1>4. CASE SaveDecisions(d) \/ StoreText(d)
  <2>1. /\ UNCHANGED <<accepted, bounds>>
        /\ DOMAIN op' = Docs /\ \A e \in Docs \ {d} : op'[e] = op[e]
        /\ Shaped(op'[d]) /\ op'[d].previous = op[d].previous /\ op'[d].new = op[d].new
    BY <1>0, <1>4 DEF SaveDecisions, StoreText, Goes, Shaped, StoreShaped
  <2>2. /\ DOMAIN decisions' = Docs /\ \A e \in Docs \ {d} : decisions'[e] = decisions[e]
        /\ \/ /\ op[d].stage = "save" /\ op'[d].stage = "store"
              /\ decisions'[d] = op[d].new
           \/ /\ op[d].stage = "store" /\ op'[d].stage = "findings"
              /\ decisions' = decisions
    BY <1>0, <1>4 DEF SaveDecisions, StoreText, Goes, Shaped, StoreShaped
  <2>3. StoreShaped'
    BY <1>0, <2>1, <2>2 DEF StoreShaped
  <2> QED  BY <1>0, <2>1, <2>2, <2>3, OneKnows DEF StageKnows, StoreShaped, Alike
<1>5. CASE Finish(d)
  <2>1. /\ UNCHANGED <<decisions, bounds>> /\ op[d].stage = "findings"
        /\ DOMAIN op' = Docs /\ \A e \in Docs \ {d} : op'[e] = op[e]
        /\ op'[d] = Idle /\ accepted'[d] = op[d].new /\ DOMAIN accepted' = Docs
        /\ \A e \in Docs \ {d} : accepted'[e] = accepted[e]
    BY <1>0, <1>5 DEF Finish, StoreShaped
  <2>2. StoreShaped'
    BY <1>0, <2>1 DEF StoreShaped, Shaped, Idle
  <2> QED  BY <1>0, <2>1, <2>2, OneKnows DEF StageKnows, StoreShaped, Alike, Idle
<1>6. CASE Fails(d)
  <2>1. /\ UNCHANGED <<decisions, accepted>>
        /\ bounds' \in [decisions : Nat, faults : Nat, crashes : Nat, saves : Nat]
        /\ bounds'.faults = bounds.faults + 1 /\ bounds'.crashes = bounds.crashes
        /\ op[d].stage # "idle"
    BY <1>0, <1>6 DEF Fails, StoreShaped
  <2>2. op[d].stage # "idle" => Shaped(Undone(d)) /\ Undone(d).stage \in {"idle", "undo"}
    BY <1>0, FieldUpdate DEF Undone, Idle, Shaped
  <2>3. PICK n : /\ op' = [op EXCEPT ![d] = n]
                 /\ n = CASE op[d].stage \in {"change", "undo"}                    -> Idle
                          [] op[d].stage \in {"terms", "families", "save", "restore"} -> Undone(d)
                          [] op[d].stage \in {"store", "findings"} -> [op[d] EXCEPT !.stage = "restore"]
    BY <1>6 DEF Fails
  <2>4. /\ DOMAIN op' = Docs /\ \A e \in Docs \ {d} : op'[e] = op[e]
        /\ op'[d] = n
    BY <1>0, <2>3 DEF StoreShaped
  <2>5. /\ Shaped(n)
        /\ \/ op[d].stage \in {"change", "undo"} /\ n.stage = "idle"
           \/ op[d].stage \in {"terms", "families", "save"} /\ n.stage \in {"idle", "undo"}
           \/ op[d].stage = "restore" /\ n.stage \in {"idle", "undo"}
           \/ /\ op[d].stage \in {"store", "findings"}
              /\ n.stage = "restore" /\ n.previous = op[d].previous
    <3>1. CASE op[d].stage \in {"change", "undo"}
      BY <2>3, <3>1 DEF Shaped, Idle
    <3>2. CASE op[d].stage \in {"terms", "families", "save", "restore"}
      BY <2>1, <2>2, <2>3, <3>2
    <3>3. CASE op[d].stage \in {"store", "findings"}
      BY <1>0, <2>3, <3>3, FieldUpdate
    <3> QED  BY <1>0, <2>1, <3>1, <3>2, <3>3 DEF Shaped
  <2>6. StoreShaped'
    BY <1>0, <2>1, <2>4, <2>5 DEF StoreShaped
  <2>7. StageKnows(d) /\ AtMostOneFault' => StageKnows(d)'
    BY <1>0, <2>1, <2>4, <2>5 DEF StageKnows, AtMostOneFault, StoreShaped
  <2> QED  BY <1>0, <2>1, <2>4, <2>6, <2>7, OneKnows DEF StoreShaped, Alike
<1>7. CASE RestoreDecisions(d) \/ Undo(d)
  <2>1. op[d].stage # "idle" => Shaped(Undone(d)) /\ Undone(d).stage \in {"idle", "undo"}
    BY <1>0, FieldUpdate DEF Undone, Idle, Shaped
  <2>2. /\ UNCHANGED <<accepted, bounds>>
        /\ DOMAIN op' = Docs /\ \A e \in Docs \ {d} : op'[e] = op[e]
        /\ DOMAIN decisions' = Docs /\ \A e \in Docs \ {d} : decisions'[e] = decisions[e]
    BY <1>0, <1>7 DEF RestoreDecisions, Undo, StoreShaped
  <2>3. /\ Shaped(op'[d]) /\ op'[d].stage \in {"idle", "undo"}
        /\ \/ op[d].stage = "restore" /\ decisions'[d] = op[d].previous
           \/ op[d].stage = "undo" /\ decisions' = decisions
    BY <1>0, <1>7, <2>1 DEF RestoreDecisions, Undo, StoreShaped, Shaped, Idle
  <2>4. StoreShaped'
    BY <1>0, <2>2, <2>3 DEF StoreShaped
  <2> QED  BY <1>0, <2>2, <2>3, <2>4, OneKnows DEF StageKnows, StoreShaped, Alike
<1> QED  BY <1>1, <1>2, <1>3, <1>4, <1>5, <1>6, <1>7 DEF Decision

\* The process ends: from then on nothing is claimed.
LEMMA CrashKeeps == RestoreInv /\ Crash => RestoreInv'
BY DEF Crash, RestoreInv, StoreShaped, AtMostOneFault, Shaped, Stages, Idle

\* The dialog saves the lists and marks decisions as opposed, no more.
LEMMA DialogKeeps == RestoreInv /\ Dialog => RestoreInv'
<1> SUFFICES ASSUME RestoreInv, Dialog PROVE RestoreInv'
  OBVIOUS
<1>1. /\ UNCHANGED <<decisions, accepted>>
      /\ bounds' = bounds \/ bounds' = [bounds EXCEPT !.saves = @ + 1]
  BY DEF Dialog, Fetch, OpenDialog, EditDialog, CloseDialog, SaveDialog
<1>2. /\ bounds' \in [decisions : Nat, faults : Nat, crashes : Nat, saves : Nat]
      /\ bounds'.faults = bounds.faults /\ bounds'.crashes = bounds.crashes
  BY <1>1 DEF RestoreInv, StoreShaped
<1>3. /\ DOMAIN op' = Docs
      /\ \A d \in Docs : op'[d] = op[d] \/ op'[d] = [op[d] EXCEPT !.opposed = TRUE]
  BY DEF RestoreInv, StoreShaped, Dialog, Fetch, OpenDialog, EditDialog, CloseDialog, SaveDialog
<1>4. ASSUME NEW d \in Docs PROVE Shaped(op'[d]) /\ Alike(op'[d], op[d])
  <2>1. Shaped(op[d])
    BY DEF RestoreInv, StoreShaped
  <2>2. /\ Shaped([op[d] EXCEPT !.opposed = TRUE])
        /\ Alike([op[d] EXCEPT !.opposed = TRUE], op[d])
    BY <2>1, FieldUpdate
  <2>3. CASE op'[d] = op[d]
    BY <2>1, <2>3 DEF Alike
  <2>4. CASE op'[d] = [op[d] EXCEPT !.opposed = TRUE]
    BY <2>2, <2>4
  <2> QED  BY <1>3, <2>3, <2>4
<1>5. StoreShaped'
  BY <1>1, <1>2, <1>3, <1>4 DEF RestoreInv, StoreShaped
<1> QED  BY <1>1, <1>2, <1>4, <1>5, OthersKnow DEF RestoreInv, StoreShaped

LEMMA RestoreKept == RestoreInv /\ [Next]_vars => RestoreInv'
<1> SUFFICES ASSUME RestoreInv, [Next]_vars PROVE RestoreInv'
  OBVIOUS
<1>1. CASE \E d \in Docs : Decision(d)
  BY <1>1, DecisionKeeps
<1>2. CASE Crash \/ Dialog
  BY <1>2, CrashKeeps, DialogKeeps
<1>3. CASE UNCHANGED vars
  BY <1>3 DEF vars, RestoreInv, StoreShaped, StageKnows, AtMostOneFault
<1> QED  BY <1>1, <1>2, <1>3 DEF Next

\* A decision that failed is not in decisions.json, however the decisions on other
\* documents, the undo of the lists and the dialog come in between, as long as not
\* its restore fails too (the except branches of _commit).
THEOREM FailedIsGone == Spec => []FailedDecisionIsGone
<1>1. RestoreInv => FailedDecisionIsGone
  BY DEF RestoreInv, AtMostOneFault, StageKnows, FailedDecisionIsGone, At
<1> QED  BY RestoreInit, RestoreKept, <1>1, PTL DEF Spec

\* A decision that was accepted is kept, in the lists and on the document, and one that
\* failed is in neither (_commit).
THEOREM DecisionsKept == Spec => []DecisionsAreKept
<1>1. TermsTypeOK /\ DecisionsLoseNoTerm /\ FailedDecisionIsGone => DecisionsAreKept
  BY DEF DecisionsAreKept
<1> QED  BY TermsTyped, NoTermLost, FailedIsGone, <1>1, PTL
=============================================================================
