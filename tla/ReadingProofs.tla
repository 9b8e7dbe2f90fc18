---------------------------- MODULE ReadingProofs ----------------------------
(***************************************************************************)
(* Theorems of Reading: whatever the uploads hold, the settings say and a  *)
(* language model answers, an approval is earned, and a model that is not  *)
(* to be trusted is neither asked nor missed; the blocks hold the file,    *)
(* and the repair masks what was reported and drops nothing found before.  *)
(*                                                                         *)
(* The invariant AuditInv says what an audit is worth from the moment it   *)
(* is made to the routing; ReadingInv says what was read so far, by which  *)
(* list it is masked, and that whatever stays unread is a reason to look.  *)
(* AcceptedHolds is what the settling of overlaps leaves of the finds.     *)
(***************************************************************************)
EXTENDS Reading, FiniteSetTheorems, SequenceTheorems, WellFoundedInduction, TLAPS

(* The result of both auditors is clean only if the model said so and the  *)
(* heuristic found nothing (CompositeAuditor.audit).                       *)
LEMMA CleanIsHeard ==
  ASSUME NEW text, NEW v \in Verdicts,
         LET r == Combined(Heuristic(text), Heard(v)) IN r.llm_ok = "answered" /\ Clean(r)
  PROVE  SaidClean(v) /\ ToSet(text) \cap Hard = {}
<1> DEFINE h == Heuristic(text)
           ll == Heard(v)
           r  == Combined(h, ll)
<1>1. r.llm_ok = ll.llm_ok /\ (r.approved <=> ll.llm_ok # "failed" /\ Clean(h) /\ Clean(ll))
  BY DEF Combined
<1>2. r.approved /\ r.llm_ok = "answered"
  BY DEF Clean
<1>3. ll.llm_ok = "answered" /\ Clean(h) /\ Clean(ll)
  BY <1>1, <1>2
<1>4. v.form = "verdict"
  BY <1>3 DEF Heard, FailClosed
<1>5. SaidClean(v)
  BY <1>3, <1>4 DEF Heard, Clean, SaidClean
<1>6. ToSet(text) \cap Hard = {}
  BY <1>3 DEF Heuristic, Clean
<1> QED BY <1>5, <1>6

(* Nothing else than an audit, the building of the auditor and the routing *)
(* touches what AuditInv speaks of (mask_and_route).                       *)
LEMMA AuditInvKept ==
  ASSUME AuditInv, UNCHANGED <<settings, llm, contacted, audit, audited, heard, context, shown>>,
         status' \notin {"audited", "approved"} \/ status' = status
  PROVE  AuditInv'
BY DEF AuditInv, Refuses, Clean, SaidClean, NoAudit

(* The inductive invariant holds at the start and every step keeps it.     *)
THEOREM AuditSound == Spec => []AuditInv
<1>1. ReadingInit => AuditInv
  BY DEF ReadingInit, AuditInv
<1>2. AuditInv /\ [Next]_vars => AuditInv'
  <2> SUFFICES ASSUME AuditInv, [Next]_vars PROVE AuditInv'
    OBVIOUS
  <2>1. CASE UNCHANGED vars
    BY <2>1, AuditInvKept DEF vars, auditing
  <2>2. CASE UNCHANGED auditing
    BY <2>2, AuditInvKept DEF auditing
  <2>3. CASE Rejected
    BY <2>3, AuditInvKept DEF Rejected
  <2>4. CASE NothingToMask
    BY <2>4, AuditInvKept DEF NothingToMask
  <2>5. CASE BuildAuditor
    <3>1. status' = "masking" /\ UNCHANGED <<settings, audit>>
      BY <2>5 DEF BuildAuditor
    <3>2. CASE settings.provider = "ollama" /\ ~Refuses(settings)
      <4>1. ~Refuses(settings)'
        BY <3>1, <3>2 DEF Refuses
      <4> QED BY <3>1, <4>1 DEF AuditInv
    <3>3. CASE ~(settings.provider = "ollama" /\ ~Refuses(settings))
      <4>1. UNCHANGED <<llm, contacted, audited, heard, context, shown>>
        BY <2>5, <3>3 DEF BuildAuditor
      <4> QED BY <3>1, <4>1, AuditInvKept
    <3> QED BY <3>2, <3>3
  <2>6. CASE Mask
    <3>1. status' = "auditing" /\ UNCHANGED <<settings, llm, contacted, audit>>
      BY <2>6 DEF Mask
    <3> QED BY <3>1 DEF AuditInv, Refuses, NoAudit
  <2>7. CASE Audit
    <3> DEFINE text == PlainText(shown)
               h == Heuristic(text)
    <3>1. UNCHANGED <<settings, llm, contacted, shown, context>> /\ status' \in {"audited", "masking"}
      BY <2>7 DEF Audit
    <3>2. CASE llm = "ollama"
      <4>1. PICK v \in Verdicts : /\ audit' = Combined(h, Heard(v))
                                /\ audited' = text /\ heard' = v
        BY <2>7, <3>2 DEF Audit
      <4> DEFINE r == Combined(h, Heard(v))
      <4>3. Clean(audit)' => Clean(r)
        BY <3>1, <4>1 DEF Clean
      <4>4. audit'.llm_ok = "answered" /\ Clean(audit)' => SaidClean(v) /\ ToSet(text) \cap Hard = {}
        BY <4>1, <4>3, CleanIsHeard
      <4>5. SaidClean(v) => SaidClean(heard)'
        BY <3>1, <4>1 DEF SaidClean
      <4>6. ~(settings.provider = "ollama" /\ Refuses(settings))
        BY <3>2 DEF AuditInv
      <4> QED BY <3>1, <4>1, <4>4, <4>5, <4>6 DEF AuditInv, Refuses
    <3>3. CASE llm # "ollama"
      <4>1. audit' = (IF Required THEN FailClosed ELSE h) /\ audited' = text
        BY <2>7, <3>3 DEF Audit
      <4>2. audit'.llm_ok # "answered"
        BY <4>1 DEF FailClosed, Heuristic
      <4>3. settings.provider = "ollama" /\ Refuses(settings) =>
              audit'.llm_ok = "failed" /\ ~audit'.approved
        BY <4>1 DEF Required, FailClosed
      <4> QED BY <3>1, <4>1, <4>2, <4>3 DEF AuditInv, Refuses
    <3> QED BY <3>2, <3>3
  <2>9. CASE AuditBreaks
    BY <2>9, AuditInvKept DEF AuditBreaks
  <2>8. CASE Route
    <3>1. UNCHANGED <<settings, llm, contacted, audit, audited, heard, shown>>
      BY <2>8 DEF Route
    <3>2. status = "audited" /\ AuditInv
      BY <2>8 DEF Route
    <3>3. CASE MayApprove
      <4>1. /\ status' = "approved" /\ context' = PlainText(shown)
            /\ audit.llm_ok = "answered" /\ Clean(audit)
        BY <2>8, <3>3 DEF Route, MayApprove
      <4> QED BY <3>1, <3>2, <4>1 DEF AuditInv, Refuses, Clean, SaidClean, NoAudit
    <3>4. CASE ~MayApprove
      BY <2>8, <3>1, <3>4, AuditInvKept DEF Route
    <3> QED BY <3>3, <3>4
  <2> QED BY <2>1, <2>2, <2>3, <2>4, <2>5, <2>6, <2>7, <2>8, <2>9 DEF Next, Work
<1> QED BY <1>1, <1>2, PTL DEF Spec

(* A document is approved alone only on the word of a model that answered, *)
(* over a text the heuristic finds nothing in, and that very text is what  *)
(* is stored for chat.                                                     *)
THEOREM ApprovalEarned == Spec => []ApprovalIsEarned
<1>1. AuditInv => ApprovalIsEarned
  BY DEF AuditInv, ApprovalIsEarned, SaidClean
<1> QED BY <1>1, AuditSound, PTL

(* No cloud model and no foreign host that was not allowed is contacted.   *)
THEOREM HostsTrusted == Spec => []OnlyTrustedHosts
<1>1. AuditInv => OnlyTrustedHosts
  BY DEF AuditInv, OnlyTrustedHosts, Refuses
<1> QED BY <1>1, AuditSound, PTL

(* Where the model is refused, the audit fails closed.                     *)
THEOREM RefusedStaysClosed == Spec => []RefusedFailsClosed
<1>1. AuditInv => RefusedFailsClosed
  BY DEF AuditInv, RefusedFailsClosed
<1> QED BY <1>1, AuditSound, PTL

(* Only an auditor that may be asked is, and a refused one clears nothing. *)
THEOREM AuditorTrusted == Spec => []AuditorIsTrusted
  BY AuditSound, HostsTrusted, RefusedStaysClosed, PTL DEF AuditorIsTrusted

-----------------------------------------------------------------------------
(* Sets of numbers, and sequences.                                         *)

(* A part of a finite set.                                                 *)
LEMMA Fewer ==
  ASSUME NEW S, IsFiniteSet(S), NEW T \in SUBSET S
  PROVE  IsFiniteSet(T) /\ Cardinality(T) \in Nat /\ Cardinality(S) \in Nat /\ Cardinality(T) <= Cardinality(S)
BY FS_Subset, FS_CardinalityType

(* Who gives everyone in a finite set a rank of his own up to its size     *)
(* gives every rank.                                                       *)
LEMMA RankOnto ==
  ASSUME NEW S, IsFiniteSet(S), NEW r \in [S -> 1 .. Cardinality(S)],
         \A a, b \in S : r[a] = r[b] => a = b
  PROVE  \A k \in 1 .. Cardinality(S) : \E a \in S : r[a] = k
<1> DEFINE n == Cardinality(S)
<1>1. n \in Nat
  BY FS_CardinalityType
<1>2. IsFiniteSet(1 .. n) /\ Cardinality(1 .. n) = n
  BY <1>1, FS_Interval
<1>3. r \in Injection(S, 1 .. n)
  BY DEF Injection, IsInjective
<1>4. r \in Surjection(S, 1 .. n)
  BY <1>2, <1>3, FS_Injection
<1> QED BY <1>4 DEF Surjection

(* The rank in a strict total order L: how many come before, and oneself.  *)
Rank(S, L, a) == Cardinality({b \in S : <<b, a>> \in L}) + 1

(* The ranks are the numbers up to the size of the set, and tell the       *)
(* order.                                                                  *)
LEMMA RanksTell ==
  ASSUME NEW S, IsFiniteSet(S), NEW L,
         \A a \in S : <<a, a>> \notin L,
         \A a, b, c \in S : <<a, b>> \in L /\ <<b, c>> \in L => <<a, c>> \in L,
         \A a, b \in S : a = b \/ <<a, b>> \in L \/ <<b, a>> \in L
  PROVE  /\ \A a \in S : Rank(S, L, a) \in 1 .. Cardinality(S)
         /\ \A a, b \in S : <<a, b>> \in L <=> Rank(S, L, a) < Rank(S, L, b)
         /\ \A k \in 1 .. Cardinality(S) : \E a \in S : Rank(S, L, a) = k
<1> DEFINE Prior(a) == {b \in S : <<b, a>> \in L}
           n == Cardinality(S)
<1>1. n \in Nat /\ \A a \in S : IsFiniteSet(Prior(a)) /\ Cardinality(Prior(a)) \in Nat
  BY FS_CardinalityType, FS_Subset
<1>2. \A a \in S : Rank(S, L, a) \in 1 .. n
  <2> TAKE a \in S
  <2>1. Prior(a) \subseteq S \ {a}
    OBVIOUS
  <2>2. IsFiniteSet(S \ {a}) /\ Cardinality(S \ {a}) = n - 1
    BY FS_RemoveElement
  <2> DEFINE c == Cardinality(Prior(a))
  <2>3. c <= n - 1 /\ c \in Nat
    <3> DEFINE B == Prior(a)
               M == S \ {a}
    <3>1. B \subseteq M /\ IsFiniteSet(M) /\ Cardinality(M) = n - 1 /\ Cardinality(B) = c
      BY <2>1, <2>2
    <3> HIDE DEF B, M, c, n
    <3> QED BY <3>1, Fewer
  <2>4. Rank(S, L, a) = c + 1
    BY DEF Rank
  <2> HIDE DEF c, n
  <2> QED BY <1>1, <2>3, <2>4
<1>3. ASSUME NEW a \in S, NEW b \in S, <<a, b>> \in L  PROVE Rank(S, L, a) < Rank(S, L, b)
  <2>1. a \notin Prior(a) /\ Prior(a) \cup {a} \subseteq Prior(b)
    BY <1>3
  <2>2. IsFiniteSet(Prior(a) \cup {a}) /\ Cardinality(Prior(a) \cup {a}) = Cardinality(Prior(a)) + 1
    BY <1>1, <2>1, FS_AddElement
  <2> DEFINE c == Cardinality(Prior(a))
             d == Cardinality(Prior(b))
             Both == Prior(a) \cup {a}
  <2>3. IsFiniteSet(Prior(b)) /\ Both \subseteq Prior(b) /\ Cardinality(Both) = c + 1
    BY <1>1, <2>1, <2>2
  <2>4. c + 1 <= d
    <3> DEFINE B == Prior(b)
    <3>1. Both \subseteq B /\ IsFiniteSet(B) /\ Cardinality(Both) = c + 1 /\ Cardinality(B) = d
      BY <2>3
    <3> HIDE DEF B, Both, c, d
    <3> QED BY <3>1, Fewer
  <2>5. Rank(S, L, a) = c + 1 /\ Rank(S, L, b) = d + 1 /\ c \in Nat /\ d \in Nat
    BY <1>1 DEF Rank
  <2> HIDE DEF c, d
  <2> QED BY <2>4, <2>5
<1>4. \A a, b \in S : <<a, b>> \in L <=> Rank(S, L, a) < Rank(S, L, b)
  <2> TAKE a, b \in S
  <2> DEFINE k == Rank(S, L, a)
             l == Rank(S, L, b)
  <2>1. k \in 1 .. n /\ l \in 1 .. n
    BY <1>2
  <2>2. (<<a, b>> \in L => k < l) /\ (<<b, a>> \in L => l < k)
    BY <1>3
  <2>3. a = b \/ <<a, b>> \in L \/ <<b, a>> \in L
    OBVIOUS
  <2>4. a = b => k = l
    OBVIOUS
  <2> HIDE DEF k, l, n
  <2>5. <<a, b>> \in L <=> k < l
    BY <1>1, <2>1, <2>2, <2>3, <2>4
  <2> QED BY <2>5 DEF k, l
<1>5. \A k \in 1 .. n : \E a \in S : Rank(S, L, a) = k
  <2> DEFINE r == [a \in S |-> Rank(S, L, a)]
  <2>1. r \in [S -> 1 .. n]
    BY <1>2
  <2>2. \A a, b \in S : r[a] = r[b] => a = b
    <3> SUFFICES ASSUME NEW a \in S, NEW b \in S, Rank(S, L, a) = Rank(S, L, b)  PROVE a = b
      OBVIOUS
    <3>1. Rank(S, L, a) \in Int
      BY <1>1, <1>2
    <3> QED BY <1>4, <3>1
  <2> HIDE DEF r
  <2>3. \A k \in 1 .. n : \E a \in S : r[a] = k
    BY <2>1, <2>2, RankOnto
  <2> QED BY <2>3 DEF r
<1> QED BY <1>2, <1>4, <1>5

(* Every number of a set is its k-th for one k.                            *)
LEMMA NthIs ==
  ASSUME NEW S, IsFiniteSet(S), S \subseteq Int
  PROVE  /\ Cardinality(S) \in Nat
         /\ \A k \in 1 .. Cardinality(S) : Nth(S, k) \in S
         /\ \A x \in S : \E k \in 1 .. Cardinality(S) : Nth(S, k) = x
<1> DEFINE L == {p \in S \X S : p[1] < p[2]}
<1>1. \A a \in S : {z \in S : <<z, a>> \in L} = {z \in S : z < a}
  OBVIOUS
<1>2. /\ \A a \in S : <<a, a>> \notin L
      /\ \A a, b, c \in S : <<a, b>> \in L /\ <<b, c>> \in L => <<a, c>> \in L
      /\ \A a, b \in S : a = b \/ <<a, b>> \in L \/ <<b, a>> \in L
  OBVIOUS
<1>3. \A a, b \in S : <<a, b>> \in L <=> a < b
  OBVIOUS
<1> HIDE DEF L
<1>4. /\ \A a \in S : Rank(S, L, a) \in 1 .. Cardinality(S)
      /\ \A a, b \in S : <<a, b>> \in L <=> Rank(S, L, a) < Rank(S, L, b)
      /\ \A k \in 1 .. Cardinality(S) : \E a \in S : Rank(S, L, a) = k
  BY <1>2, RanksTell
<1>5. \A a \in S : Rank(S, L, a) = Cardinality({z \in S : z < a}) + 1
  BY <1>1 DEF Rank
<1>6. Cardinality(S) \in Nat /\ \A a \in S : Cardinality({z \in S : z < a}) \in Nat
  BY FS_CardinalityType, FS_Subset
<1>7. \A k \in 1 .. Cardinality(S) : Nth(S, k) \in S /\ Rank(S, L, Nth(S, k)) = k
  <2> TAKE k \in 1 .. Cardinality(S)
  <2>1. \E a \in S : Cardinality({z \in S : z < a}) = k - 1
    BY <1>4, <1>5, <1>6
  <2>2. Nth(S, k) \in S /\ Cardinality({z \in S : z < Nth(S, k)}) = k - 1
    BY <2>1 DEF Nth
  <2> DEFINE x == Nth(S, k)
  <2>3. Rank(S, L, x) = Cardinality({z \in S : z < x}) + 1
    BY <1>5, <2>2
  <2> HIDE DEF x
  <2> QED BY <1>6, <2>2, <2>3 DEF x
<1>8. \A x \in S : \E k \in 1 .. Cardinality(S) : Nth(S, k) = x
  <2> TAKE x \in S
  <2> DEFINE k == Rank(S, L, x)
  <2>1. k \in 1 .. Cardinality(S) /\ k \in Int
    BY <1>4
  <2> HIDE DEF k
  <2>2. Nth(S, k) \in S /\ Rank(S, L, Nth(S, k)) = k
    BY <1>7, <2>1
  <2>3. ~(Rank(S, L, Nth(S, k)) < Rank(S, L, x)) /\ ~(Rank(S, L, x) < Rank(S, L, Nth(S, k)))
    BY <2>1, <2>2 DEF k
  <2>5. ~(Nth(S, k) < x) /\ ~(x < Nth(S, k))
    BY <1>3, <1>4, <2>2, <2>3
  <2>6. Nth(S, k) \in Int /\ x \in Int
    BY <2>2
  <2>4. Nth(S, k) = x
    BY <2>5, <2>6
  <2> QED BY <2>1, <2>4
<1> QED BY <1>6, <1>7, <1>8

(* The places of a set, in order, show what stands at them.                *)
Places(S, s, X) == IsFiniteSet(S) /\ S \subseteq Int /\ \A i \in S : s[i] \in X
LEMMA PickedHolds ==
  ASSUME NEW S, NEW s, NEW X, Places(S, s, X)
  PROVE  /\ Picked(s, S) \in Seq(X)
         /\ ToSet(Picked(s, S)) = {s[i] : i \in S}
<1> DEFINE n == Cardinality(S)
           q == [k \in 1 .. n |-> s[Nth(S, k)]]
<1>0. IsFiniteSet(S) /\ S \subseteq Int /\ \A i \in S : s[i] \in X
  BY DEF Places
<1>1. /\ n \in Nat
      /\ \A k \in 1 .. n : Nth(S, k) \in S
      /\ \A x \in S : \E k \in 1 .. n : Nth(S, k) = x
  BY <1>0, NthIs
<1> HIDE DEF n
<1>2. \A k \in 1 .. n : q[k] \in X
  BY <1>0, <1>1
<1>3. q \in [1 .. n -> X] /\ DOMAIN q = 1 .. n
  BY <1>2
<1>4. q \in Seq(X)
  <2> HIDE DEF q
  <2> QED BY <1>1, <1>3
<1>5. ASSUME NEW x \in ToSet(q)  PROVE x \in {s[i] : i \in S}
  <2>1. PICK k \in 1 .. n : x = q[k]
    BY <1>3 DEF ToSet
  <2> QED BY <1>1, <2>1
<1>6. ASSUME NEW i \in S  PROVE s[i] \in ToSet(q)
  <2>1. PICK k \in 1 .. n : Nth(S, k) = i
    BY <1>1
  <2>2. q[k] = s[i]
    BY <2>1
  <2> QED BY <2>2, <1>3 DEF ToSet
<1>7. Picked(s, S) = q
  BY DEF Picked, n
<1> HIDE DEF q
<1>8. ToSet(q) = {s[i] : i \in S}
  BY <1>5, <1>6
<1> QED BY <1>4, <1>7, <1>8

(* Items that stand at heights can be read from the top down.              *)
LEMMA OrderExists ==
  ASSUME NEW items, IsFiniteSet(items), \A a \in items : a.y \in Int
  PROVE  \E s \in SetToSeqs(items) : \A i, j \in DOMAIN s : i < j => s[i].y <= s[j].y
<1> DEFINE n == Cardinality(items)
<1>1. n \in Nat /\ \E g : g \in Bijection(1 .. n, items)
  BY FS_CardinalityType DEF ExistsBijection
<1>2. PICK g \in [1 .. n -> items] : \A a \in items : \E k \in 1 .. n : g[k] = a
  BY <1>1 DEF Bijection, Injection, Surjection
<1> HIDE DEF n
<1> DEFINE P(a) == CHOOSE k \in 1 .. n : g[k] = a
           Lower(a, b) == a.y < b.y \/ (a.y = b.y /\ P(a) < P(b))
           L == {p \in items \X items : Lower(p[1], p[2])}
<1>3. \A a \in items : P(a) \in 1 .. n /\ g[P(a)] = a
  BY <1>2
<1>3a. \A a \in items : P(a) \in Int /\ a.y \in Int
  BY <1>1, <1>3
<1>3b. \A a, b \in items : P(a) = P(b) => a = b
  BY <1>3
<1> HIDE DEF P
<1>4. /\ \A a \in items : ~Lower(a, a)
      /\ \A a, b, c \in items : Lower(a, b) /\ Lower(b, c) => Lower(a, c)
      /\ \A a, b \in items : a = b \/ Lower(a, b) \/ Lower(b, a)
  BY <1>3a, <1>3b
<1>5. \A a, b \in items : <<a, b>> \in L <=> Lower(a, b)
  <2> HIDE DEF Lower
  <2> QED OBVIOUS
<1>6. \A a, b \in items : Lower(a, b) => a.y <= b.y
  BY <1>3a
<1> HIDE DEF L, Lower
<1>7. /\ \A a \in items : Rank(items, L, a) \in 1 .. n
      /\ \A a, b \in items : <<a, b>> \in L <=> Rank(items, L, a) < Rank(items, L, b)
      /\ \A k \in 1 .. n : \E a \in items : Rank(items, L, a) = k
  <2>1. /\ \A a \in items : <<a, a>> \notin L
        /\ \A a, b, c \in items : <<a, b>> \in L /\ <<b, c>> \in L => <<a, c>> \in L
        /\ \A a, b \in items : a = b \/ <<a, b>> \in L \/ <<b, a>> \in L
    BY <1>4, <1>5
  <2> QED BY <2>1, RanksTell DEF n
<1> DEFINE s == [k \in 1 .. n |-> CHOOSE a \in items : Rank(items, L, a) = k]
<1>8. \A k \in 1 .. n : s[k] \in items /\ Rank(items, L, s[k]) = k
  <2> TAKE k \in 1 .. n
  <2>1. \E a \in items : Rank(items, L, a) = k
    BY <1>7
  <2> QED BY <2>1
<1>9. DOMAIN s = 1 .. n /\ s \in [1 .. n -> items]
  BY <1>8
<1> HIDE DEF s
<1>10. s \in SetToSeqs(items)
  BY <1>8, <1>9 DEF SetToSeqs, n
<1>11. ASSUME NEW i \in 1 .. n, NEW j \in 1 .. n, i < j  PROVE s[i].y <= s[j].y
  <2>1. <<s[i], s[j]>> \in L
    BY <1>7, <1>8, <1>11
  <2> QED BY <1>5, <1>6, <1>8, <2>1
<1> QED BY <1>9, <1>10, <1>11

(* The items of a page in their order: all of them, by their height (the   *)
(* sort of extract_page).                                                  *)
LEMMA OrderedHolds ==
  ASSUME NEW items, IsFiniteSet(items), \A a \in items : a.y \in Int
  PROVE  /\ Cardinality(items) \in Nat
         /\ InOrder(items) \in [1 .. Cardinality(items) -> items]
         /\ \A a \in items : \E k \in 1 .. Cardinality(items) : InOrder(items)[k] = a
         /\ \A i, j \in 1 .. Cardinality(items) : i < j => InOrder(items)[i].y <= InOrder(items)[j].y
<1> DEFINE n == Cardinality(items)
           s == InOrder(items)
<1>1. n \in Nat
  BY FS_CardinalityType
<1>2. s \in SetToSeqs(items) /\ \A i, j \in DOMAIN s : i < j => s[i].y <= s[j].y
  BY OrderExists DEF InOrder
<1>3. s \in [1 .. n -> items] /\ \A i, j \in 1 .. n : i # j => s[i] # s[j]
  BY <1>2 DEF SetToSeqs
<1> HIDE DEF n, s
<1>4. s \in Injection(1 .. n, items)
  BY <1>3 DEF Injection, IsInjective
<1>5. IsFiniteSet(1 .. n) /\ Cardinality(1 .. n) = n
  BY <1>1, FS_Interval
<1>6. s \in Surjection(1 .. n, items)
  BY <1>4, <1>5, FS_Injection DEF n
<1>7. \A a \in items : \E k \in 1 .. n : s[k] = a
  BY <1>6 DEF Surjection
<1> QED BY <1>1, <1>2, <1>3, <1>7 DEF n, s

(* A set of numbers that holds 0, and with every number the next, holds    *)
(* them all.                                                               *)
LEMMA Upwards ==
  ASSUME NEW T, 0 \in T, \A n \in Nat : n \in T => n + 1 \in T
  PROVE  Nat \subseteq T
<1> DEFINE R == OpToRel(<, Nat)
<1>0. SUFFICES ASSUME Nat \ T # {}  PROVE FALSE
  OBVIOUS
<1>1. PICK x \in Nat \ T : \A y \in Nat \ T : ~(<<y, x>> \in R)
  <2>1. IsWellFoundedOn(R, Nat)
    BY NatLessThanWellFounded
  <2> HIDE DEF R
  <2> QED BY <1>0, <2>1, WFMin
<1>2. x # 0 /\ x - 1 \in Nat
  OBVIOUS
<1>3. <<x - 1, x>> \in R
  BY <1>2 DEF OpToRel
<1>4. x - 1 \in T
  BY <1>1, <1>2, <1>3
<1> QED  BY <1>2, <1>4

(* What two sequences hold one after the other.                            *)
LEMMA ConcatHolds ==
  ASSUME NEW X, NEW s \in Seq(X), NEW t \in Seq(X)
  PROVE  /\ s \o t \in Seq(X)
         /\ ToSet(s \o t) = ToSet(s) \cup ToSet(t)
<1> DEFINE u == s \o t
<1>1. u \in Seq(X) /\ Len(u) = Len(s) + Len(t) /\ Len(s) \in Nat /\ Len(t) \in Nat
  OBVIOUS
<1>2. /\ DOMAIN s = 1 .. Len(s) /\ DOMAIN t = 1 .. Len(t) /\ DOMAIN u = 1 .. Len(u)
      /\ \A i \in 1 .. Len(u) : u[i] = IF i <= Len(s) THEN s[i] ELSE t[i - Len(s)]
  OBVIOUS
<1> HIDE DEF u
<1>3. ASSUME NEW x \in ToSet(u)  PROVE x \in ToSet(s) \cup ToSet(t)
  <2>1. PICK i \in 1 .. Len(u) : x = u[i]
    BY <1>2 DEF ToSet
  <2>2. CASE i <= Len(s)
    <3>1. i \in DOMAIN s /\ x = s[i]
      BY <1>1, <1>2, <2>1, <2>2
    <3> QED BY <3>1 DEF ToSet
  <2>3. CASE ~(i <= Len(s))
    <3>1. i - Len(s) \in DOMAIN t /\ x = t[i - Len(s)]
      BY <1>1, <1>2, <2>1, <2>3
    <3> QED BY <3>1 DEF ToSet
  <2> QED BY <2>2, <2>3
<1>4. ASSUME NEW x \in ToSet(s)  PROVE x \in ToSet(u)
  <2>1. PICK i \in 1 .. Len(s) : x = s[i]
    BY <1>2, <1>4 DEF ToSet
  <2>2. i \in DOMAIN u /\ u[i] = x
    BY <1>1, <1>2, <2>1
  <2> QED BY <2>2 DEF ToSet
<1>5. ASSUME NEW x \in ToSet(t)  PROVE x \in ToSet(u)
  <2>1. PICK i \in 1 .. Len(t) : x = t[i]
    BY <1>2, <1>5 DEF ToSet
  <2>2. i + Len(s) \in 1 .. Len(u) /\ ~(i + Len(s) <= Len(s)) /\ i + Len(s) - Len(s) = i
    BY <1>1, <2>1
  <2>3. i + Len(s) \in DOMAIN u /\ u[i + Len(s)] = x
    BY <1>2, <2>1, <2>2
  <2> QED BY <2>3 DEF ToSet
<1>6. ToSet(u) = ToSet(s) \cup ToSet(t)
  BY <1>3, <1>4, <1>5
<1> QED BY <1>1, <1>6 DEF u

(* What a flattened sequence of sequences holds.                           *)
LEMMA Flattened ==
  ASSUME NEW X, NEW ss \in Seq(Seq(X))
  PROVE  /\ FlattenSeq(ss) \in Seq(X)
         /\ ToSet(FlattenSeq(ss)) = UNION {ToSet(ss[i]) : i \in DOMAIN ss}
<1> DEFINE n == Len(ss)
           Solves(g, k) == g = [i \in 1 .. k |-> IF i = 1 THEN ss[i] ELSE g[i - 1] \o ss[i]]
           T == {k \in Nat : \E g : Solves(g, k)}
<1>0. n \in Nat /\ DOMAIN ss = 1 .. n /\ \A i \in 1 .. n : ss[i] \in Seq(X)
  OBVIOUS
<1>1. 0 \in T
  <2>1. Solves([i \in 1 .. 0 |-> <<>>], 0)
    OBVIOUS
  <2> QED BY <2>1
<1>2. ASSUME NEW k \in Nat, k \in T  PROVE k + 1 \in T
  <2>1. PICK g : Solves(g, k)
    BY <1>2
  <2> DEFINE h == [i \in 1 .. k + 1 |-> IF i = k + 1 THEN (IF i = 1 THEN ss[i] ELSE g[i - 1] \o ss[i]) ELSE g[i]]
  <2>2. \A i \in 1 .. k + 1 : h[i] = IF i = 1 THEN ss[i] ELSE h[i - 1] \o ss[i]
    <3> TAKE i \in 1 .. k + 1
    <3>1. CASE i = k + 1
      <4>1. h[i] = IF i = 1 THEN ss[i] ELSE g[i - 1] \o ss[i]
        BY <3>1
      <4>2. i # 1 => h[i - 1] = g[i - 1]
        BY <3>1
      <4> QED BY <4>1, <4>2
    <3>2. CASE i \in 1 .. k /\ i # k + 1
      <4>1. g[i] = IF i = 1 THEN ss[i] ELSE g[i - 1] \o ss[i]
        BY <2>1, <3>2
      <4>2. h[i] = g[i] /\ (i # 1 => h[i - 1] = g[i - 1])
        BY <3>2
      <4> QED BY <4>1, <4>2
    <3> QED BY <3>1, <3>2
  <2>3. Solves(h, k + 1)
    BY <2>2
  <2> HIDE DEF h, Solves
  <2>4. k + 1 \in Nat
    OBVIOUS
  <2> QED BY <2>3, <2>4
<1>3. \E g : Solves(g, n)
  <2>1. n \in T
    <3> HIDE DEF T
    <3> QED BY <1>0, <1>1, <1>2, Upwards
  <2> QED BY <2>1
<1> DEFINE f == CHOOSE g : Solves(g, n)
<1>4. Solves(f, n)
  BY <1>3
<1>5. FlattenSeq(ss) = IF n = 0 THEN ss ELSE f[n]
  BY DEF FlattenSeq
<1> HIDE DEF f
<1>6. \A i \in 1 .. n : f[i] = IF i = 1 THEN ss[i] ELSE f[i - 1] \o ss[i]
  BY <1>4
<1> DEFINE Sofar(k) == UNION {ToSet(ss[i]) : i \in 1 .. k}
           Good(k) == f[k] \in Seq(X) /\ ToSet(f[k]) = Sofar(k)
           U == {k \in Nat : k + 1 <= n => Good(k + 1)}
<1> HIDE DEF n
<1>7. \A k \in Nat : Sofar(k + 1) = Sofar(k) \cup ToSet(ss[k + 1])
  <2> TAKE k \in Nat
  <2>1. 1 .. k + 1 = (1 .. k) \cup {k + 1}
    OBVIOUS
  <2> QED BY <2>1
<1>8. Sofar(0) = {}
  OBVIOUS
<1> HIDE DEF Sofar
<1>9. 0 \in U
  <2> SUFFICES ASSUME 1 <= n  PROVE Good(1)
    OBVIOUS
  <2>1. 1 \in 1 .. n /\ f[1] = ss[1]
    BY <1>0, <1>6
  <2>2. Sofar(1) = Sofar(0) \cup ToSet(ss[1])
    BY <1>7
  <2> QED BY <1>0, <1>8, <2>1, <2>2
<1>10. ASSUME NEW k \in Nat, k \in U  PROVE k + 1 \in U
  <2> SUFFICES ASSUME k + 2 <= n  PROVE Good(k + 2)
    OBVIOUS
  <2>1. k + 1 <= n /\ k + 2 \in 1 .. n /\ k + 2 # 1 /\ k + 2 - 1 = k + 1 /\ k + 1 \in Nat
    BY <1>0
  <2>2. Good(k + 1) /\ ss[k + 2] \in Seq(X)
    BY <1>0, <1>10, <2>1
  <2>3. f[k + 2] = f[k + 1] \o ss[k + 2]
    <3> DEFINE i == k + 2
    <3>1. i \in 1 .. n /\ i # 1 /\ i - 1 = k + 1
      BY <2>1
    <3> HIDE DEF i
    <3>2. f[i] = f[k + 1] \o ss[i]
      BY <1>6, <3>1
    <3> QED BY <3>2 DEF i
  <2>4. f[k + 2] \in Seq(X) /\ ToSet(f[k + 2]) = Sofar(k + 1) \cup ToSet(ss[k + 2])
    BY <2>2, <2>3, ConcatHolds
  <2>5. Sofar(k + 1 + 1) = Sofar(k + 1) \cup ToSet(ss[k + 1 + 1]) /\ k + 1 + 1 = k + 2
    BY <1>7, <2>1
  <2> QED BY <2>4, <2>5
<1>11. n # 0 => Good(n)
  <2> HIDE DEF Good
  <2> SUFFICES ASSUME n # 0  PROVE Good(n)
    OBVIOUS
  <2>1. Nat \subseteq U
    <3> HIDE DEF U
    <3> QED BY <1>9, <1>10, Upwards
  <2>2. n - 1 \in Nat /\ n - 1 + 1 = n
    BY <1>0
  <2> QED BY <2>1, <2>2
<1>12. n # 0 => FlattenSeq(ss) \in Seq(X) /\ ToSet(FlattenSeq(ss)) = Sofar(n)
  BY <1>5, <1>11
<1>13. n = 0 => ss = <<>> /\ DOMAIN ss = {}
  BY <1>0, EmptySeq DEF n
<1>14. n = 0 => FlattenSeq(ss) \in Seq(X) /\ ToSet(FlattenSeq(ss)) = Sofar(n)
  <2> SUFFICES ASSUME n = 0  PROVE FlattenSeq(ss) \in Seq(X) /\ ToSet(FlattenSeq(ss)) = {}
    BY <1>8
  <2>1. FlattenSeq(ss) = ss
    BY <1>5
  <2>2. ToSet(ss) = {}
    BY <1>13 DEF ToSet
  <2> QED BY <1>13, <2>1, <2>2, EmptySeq
<1>15. Sofar(n) = UNION {ToSet(ss[i]) : i \in DOMAIN ss}
  BY <1>0 DEF Sofar
<1> QED BY <1>12, <1>14, <1>15

-----------------------------------------------------------------------------
(* Items and blocks.                                                       *)

(* What the readers make: items of a page, pieces of a Word document and   *)
(* blocks, whose words are those of uploads or the placeholder.            *)
Wordy(b) == b.what # "table" => b.words # <<>>
BlockKinds == {"heading", "paragraph", "table", "header", "footer", "comment"}
Labels == BlockKinds \cup {"b", "h", "t", "cmt"}
AllWords == Words \cup {Star}
Items == {a \in [y : Nat, what : BlockKinds, words : Seq(AllWords)] : Wordy(a)}
Blocks == {b \in [page : Nat, y : Nat, what : BlockKinds, words : Seq(AllWords), id : Labels \X Nat] : Wordy(b)}

(* A function on the first numbers is a sequence.                          *)
LEMMA IsSeq ==
  ASSUME NEW n \in Nat, NEW X, NEW f \in [1 .. n -> X]
  PROVE  f \in Seq(X) /\ Len(f) = n /\ DOMAIN f = 1 .. n
OBVIOUS

(* What a function on a finite set takes is finite.                        *)
LEMMA FiniteImage ==
  ASSUME NEW D, IsFiniteSet(D), NEW f, DOMAIN f = D
  PROVE  IsFiniteSet({f[x] : x \in D})
<1> DEFINE T == {f[x] : x \in D}
           g == [x \in D |-> f[x]]
<1>1. g \in [D -> T] /\ \A t \in T : \E x \in D : g[x] = t
  OBVIOUS
<1> HIDE DEF g, T
<1>2. g \in Surjection(D, T)
  BY <1>1 DEF Surjection
<1> QED BY <1>2, FS_Surjection DEF T

(* A block is what it is made of.                                          *)
MadeOf(b, page, y, what, words, id) ==
  /\ page \in Nat /\ y \in Nat /\ what \in BlockKinds /\ id \in Labels \X Nat
  /\ words \in Seq(AllWords) /\ (what # "table" => words # <<>>)
  /\ b = Block(page, y, what, words, id)
LEMMA MakesBlock ==
  ASSUME NEW b, NEW page, NEW y, NEW what, NEW words, NEW id, MadeOf(b, page, y, what, words, id)
  PROVE  /\ b \in Blocks
         /\ b.page = page /\ b.y = y /\ b.what = what /\ b.words = words /\ b.id = id
BY DEF MadeOf, Block, Blocks, Wordy

(* The words of blocks are those of each of them.                          *)
LEMMA InTexts ==
  ASSUME NEW content, NEW x
  PROVE  x \in Texts(content) <=> \E i \in DOMAIN content : x \in ToSet(content[i].words)
<1> DEFINE w == [i \in DOMAIN content |-> content[i].words]
<1>1. DOMAIN w = DOMAIN content /\ \A i \in DOMAIN content : w[i] = content[i].words
  OBVIOUS
<1>2. Texts(content) = UNION {ToSet(w[i]) : i \in DOMAIN w}
  BY DEF Texts, SeqWords
<1> HIDE DEF w
<1> QED BY <1>1, <1>2

LEMMA TextsConcat ==
  ASSUME NEW s \in Seq(Blocks), NEW t \in Seq(Blocks)
  PROVE  /\ s \o t \in Seq(Blocks)
         /\ Texts(s \o t) = Texts(s) \cup Texts(t)
<1> DEFINE u == s \o t
<1>1. u \in Seq(Blocks) /\ ToSet(u) = ToSet(s) \cup ToSet(t)
  BY ConcatHolds
<1>2. \A q \in Seq(Blocks) : \A x : x \in Texts(q) <=> \E b \in ToSet(q) : x \in ToSet(b.words)
  BY InTexts DEF ToSet
<1> HIDE DEF u
<1>3. \A x : x \in Texts(u) <=> x \in Texts(s) \cup Texts(t)
  BY <1>1, <1>2
<1> QED BY <1>1, <1>3 DEF u

(* What a page gives: finitely many items, each with its words, and every  *)
(* word of the page in one of them, or a remark that blocks the document.  *)
LEMMA ParagraphIs ==
  ASSUME NEW y \in Nat, NEW word \in AllWords
  PROVE  Paragraph(y, word) \in Items /\ word \in ToSet(Paragraph(y, word).words)
<1>1. <<word>> \in Seq(AllWords) /\ <<word>> # <<>> /\ ToSet(<<word>>) = {word}
  BY DEF ToSet
<1>2. Paragraph(y, word).words = <<word>> /\ Paragraph(y, word).what = "paragraph"
  BY DEF Paragraph
<1>3. Paragraph(y, word) \in [y : Nat, what : BlockKinds, words : Seq(AllWords)]
  BY <1>1 DEF Paragraph, BlockKinds
<1> QED BY <1>1, <1>2, <1>3 DEF Items, Wordy

(* Lines by their height; items, and the words in them.                    *)
Lines(lines) == IsFiniteSet(DOMAIN lines) /\ DOMAIN lines \subseteq Nat /\ \A y \in DOMAIN lines : lines[y] \in AllWords
Given(items) == IsFiniteSet(items) /\ items \subseteq Items
Shows(items, x) == \E a \in items : x \in ToSet(a.words)

(* Lines as paragraphs: each is one.                                       *)
LEMMA LinesGiven ==
  ASSUME NEW lines, Lines(lines), NEW D \in SUBSET DOMAIN lines
  PROVE  LET items == {Paragraph(y, lines[y]) : y \in D}
         IN  Given(items) /\ \A y \in D : Shows(items, lines[y])
<1> DEFINE f == [y \in D |-> Paragraph(y, lines[y])]
           items == {Paragraph(y, lines[y]) : y \in D}
<1>1. IsFiniteSet(D)
  BY FS_Subset DEF Lines
<1>2. DOMAIN f = D /\ items = {f[y] : y \in D}
  OBVIOUS
<1>3. IsFiniteSet(items)
  <2> HIDE DEF f, items
  <2> QED BY <1>1, <1>2, FiniteImage
<1>4. \A y \in D : Paragraph(y, lines[y]) \in Items /\ lines[y] \in ToSet(Paragraph(y, lines[y]).words)
  BY ParagraphIs DEF Lines
<1> QED BY <1>3, <1>4 DEF Given, Shows

(* Lines as one table, at the height of the first: each is a cell of it.   *)
LEMMA TableGiven ==
  ASSUME NEW lines, Lines(lines), NEW D \in SUBSET DOMAIN lines
  PROVE  LET items == {[y |-> y, what |-> "table", words |-> Picked(lines, D)] : y \in {y \in D : \A z \in D : y <= z}}
         IN  Given(items) /\ \A y \in D : Shows(items, lines[y])
<1> DEFINE M == {y \in D : \A z \in D : y <= z}
           q == Picked(lines, D)
           It(y) == [y |-> y, what |-> "table", words |-> q]
           items == {It(y) : y \in M}
           f == [y \in M |-> It(y)]
<1>1. IsFiniteSet(D) /\ IsFiniteSet(M) /\ D \subseteq Nat /\ M \subseteq D
  BY FS_Subset DEF Lines
<1>2. q \in Seq(AllWords) /\ ToSet(q) = {lines[y] : y \in D}
  <2>1. D \subseteq Int /\ \A y \in D : lines[y] \in AllWords
    BY <1>1 DEF Lines
  <2>2. Places(D, lines, AllWords)
    BY <1>1, <2>1 DEF Places
  <2> QED BY <2>2, PickedHolds
<1>3. D # {} => M # {}
  <2> SUFFICES ASSUME NEW z \in D  PROVE M # {}
    OBVIOUS
  <2> DEFINE R == OpToRel(<, Nat)
  <2>1. PICK x \in D : \A y \in D : ~(<<y, x>> \in R)
    <3>1. IsWellFoundedOn(R, Nat)
      BY NatLessThanWellFounded
    <3> HIDE DEF R
    <3> QED BY <1>1, <3>1, WFMin
  <2>2. \A y \in D : ~(y < x)
    BY <1>1, <2>1 DEF OpToRel
  <2>3. x \in M
    BY <1>1, <2>2
  <2> QED BY <2>3
<1>4. \A y \in M : It(y) \in Items /\ It(y).words = q
  BY <1>1, <1>2 DEF Items, Wordy, BlockKinds
<1> HIDE DEF q, M
<1>5. DOMAIN f = M /\ items = {f[y] : y \in M}
  OBVIOUS
<1>6. IsFiniteSet(items)
  <2> HIDE DEF f, items
  <2> QED BY <1>1, <1>5, FiniteImage
<1>7. Given(items)
  BY <1>4, <1>6 DEF Given
<1>8. ASSUME NEW y \in D  PROVE Shows(items, lines[y])
  <2>1. PICK m \in M : TRUE
    BY <1>3, <1>8
  <2>2. It(m) \in items /\ lines[y] \in ToSet(It(m).words)
    BY <1>2, <1>4, <2>1
  <2> QED BY <2>2 DEF Shows
<1> QED BY <1>7, <1>8 DEF M, q

(* The items of a page, as ReadPage collects them.                         *)
PageItems(p, ocr, found) == (IF ocr THEN OcrItems(p) ELSE LayerItems(p, found)) \cup NoteItems(p)

(* Two lots of items.                                                      *)
LEMMA UnionGiven ==
  ASSUME NEW A, NEW B, Given(A), Given(B)
  PROVE  /\ Given(A \cup B)
         /\ \A x : Shows(A, x) \/ Shows(B, x) => Shows(A \cup B, x)
BY FS_Union DEF Given, Shows

(* A page, read by OCR or not, with its table found or not, gives every    *)
(* word of it or a remark that blocks the document (extract_page).         *)
LEMMA PageGiven ==
  ASSUME NEW p, PageOK(p), NEW ocr \in BOOLEAN, NEW found \in {{}, p.table}
  PROVE  /\ Given(PageItems(p, ocr, found))
         /\ \/ \A x \in PageWords(p) : Shows(PageItems(p, ocr, found), x)
            \/ Remarks(p, ocr, found) \cap Blocking # {}
<1>1. Lines(p.text) /\ Lines(p.image) /\ found \subseteq DOMAIN p.text
  BY DEF PageOK, Lines, AllWords
<1>2. Given(NoteItems(p)) /\ (p.note \notin {"none", "broken"} => Shows(NoteItems(p), p.note))
  <2>1. CASE p.note \in {"none", "broken"}
    <3>1. NoteItems(p) = {}
      BY <2>1 DEF NoteItems
    <3> QED BY <2>1, <3>1, FS_EmptySet DEF Given
  <2>2. CASE p.note \notin {"none", "broken"}
    <3>1. NoteItems(p) = {Paragraph(Foot, p.note)}
      BY <2>2 DEF NoteItems
    <3>2. p.note \in AllWords /\ Foot \in Nat
      BY <2>2, LimitsAssumption DEF PageOK, AllWords
    <3>3. Paragraph(Foot, p.note) \in Items /\ p.note \in ToSet(Paragraph(Foot, p.note).words)
      BY <3>2, ParagraphIs
    <3>4. IsFiniteSet({Paragraph(Foot, p.note)})
      BY FS_Singleton
    <3> QED BY <3>1, <3>3, <3>4 DEF Given, Shows
  <2> QED BY <2>1, <2>2
<1>3. Given(OcrItems(p)) /\ (\A y \in DOMAIN p.text : Shows(OcrItems(p), p.text[y]))
                         /\ (\A y \in DOMAIN p.image : Shows(OcrItems(p), p.image[y]))
  <2> DEFINE A == {Paragraph(y, p.text[y]) : y \in DOMAIN p.text}
             B == {Paragraph(y, p.image[y]) : y \in DOMAIN p.image}
  <2>1. Given(A) /\ \A y \in DOMAIN p.text : Shows(A, p.text[y])
    BY <1>1, LinesGiven
  <2>2. Given(B) /\ \A y \in DOMAIN p.image : Shows(B, p.image[y])
    BY <1>1, LinesGiven
  <2>3. OcrItems(p) = A \cup B
    BY DEF OcrItems
  <2> HIDE DEF A, B
  <2> QED BY <2>1, <2>2, <2>3, UnionGiven
<1>4. Given(LayerItems(p, found)) /\ \A y \in DOMAIN p.text : Shows(LayerItems(p, found), p.text[y])
  <2> DEFINE A == {Paragraph(y, p.text[y]) : y \in DOMAIN p.text \ found}
             B == {[y |-> y, what |-> "table", words |-> Picked(p.text, found)] :
                     y \in {y \in found : \A z \in found : y <= z}}
  <2>1. Given(A) /\ \A y \in DOMAIN p.text \ found : Shows(A, p.text[y])
    BY <1>1, LinesGiven
  <2>2. Given(B) /\ \A y \in found : Shows(B, p.text[y])
    BY <1>1, TableGiven
  <2>3. LayerItems(p, found) = A \cup B
    BY DEF LayerItems
  <2> HIDE DEF A, B
  <2> QED BY <2>1, <2>2, <2>3, UnionGiven
<1> DEFINE C == IF ocr THEN OcrItems(p) ELSE LayerItems(p, found)
<1>5. Given(C) /\ \A y \in DOMAIN p.text : Shows(C, p.text[y])
  BY <1>3, <1>4
<1>6. PageItems(p, ocr, found) = C \cup NoteItems(p)
  BY DEF PageItems
<1>7. ocr => \A y \in DOMAIN p.image : Shows(C, p.image[y])
  BY <1>3
<1> HIDE DEF C
<1>8. /\ Given(C \cup NoteItems(p))
      /\ \A x : Shows(C, x) \/ Shows(NoteItems(p), x) => Shows(C \cup NoteItems(p), x)
  BY <1>2, <1>5, UnionGiven
<1>9. CASE ocr \/ ~Raster(p)
  <2>1. \A y \in Counted(p) : Shows(C, p.image[y])
    BY <1>7, <1>9 DEF Raster, Counted
  <2>2. \A x \in PageWords(p) : Shows(C, x) \/ Shows(NoteItems(p), x)
    BY <1>2, <1>5, <2>1 DEF PageWords
  <2> QED BY <1>6, <1>8, <2>2
<1>10. CASE ~ocr /\ Raster(p)
  <2>1. CASE Sparse(p)
    <3>1. "ocr_unavailable" \in Remarks(p, ocr, found)
      BY <1>10, <2>1 DEF Remarks
    <3> QED BY <1>6, <1>8, <3>1 DEF Blocking
  <2>2. CASE ~Sparse(p)
    <3>1. "image_text_unread" \in Remarks(p, ocr, found)
      BY <1>10, <2>2 DEF Remarks
    <3> QED BY <1>6, <1>8, <3>1 DEF Blocking
  <2> QED BY <2>1, <2>2
<1> QED BY <1>9, <1>10

(* The blocks of a page: of its height, with every word of its items, and  *)
(* numbered on from those before.                                          *)
LEMMA NumberedHolds ==
  ASSUME NEW items, Given(items), NEW page \in Nat, blocks \in Seq(Blocks)
  PROVE  LET t == Numbered(InOrder(items), page)
         IN  /\ t \in Seq(Blocks) /\ Len(t) \in Nat /\ DOMAIN t = 1 .. Len(t)
             /\ \A x : Shows(items, x) => x \in Texts(t)
             /\ \A i \in 1 .. Len(t) : t[i].page = page /\ t[i].y \in Nat /\ t[i].id = <<"b", Len(blocks) + i>>
             /\ \A i, j \in 1 .. Len(t) : i < j => t[i].y <= t[j].y
<1> DEFINE n == Cardinality(items)
           s == InOrder(items)
           t == Numbered(s, page)
<1>1. \A a \in items : a \in Items /\ a.y \in Nat /\ a.y \in Int
  BY DEF Given, Items
<1>2. /\ n \in Nat /\ s \in [1 .. n -> items]
      /\ \A a \in items : \E k \in 1 .. n : s[k] = a
      /\ \A i, j \in 1 .. n : i < j => s[i].y <= s[j].y
  BY <1>1, OrderedHolds DEF Given
<1> HIDE DEF n, s
<1>3. t = [i \in 1 .. n |-> Block(page, s[i].y, s[i].what, s[i].words, <<"b", Len(blocks) + i>>)]
  BY <1>2 DEF Numbered
<1> HIDE DEF t
<1>4. \A i \in 1 .. n : /\ t[i] \in Blocks /\ t[i].page = page /\ t[i].y = s[i].y
                        /\ t[i].words = s[i].words /\ t[i].id = <<"b", Len(blocks) + i>>
  <2> TAKE i \in 1 .. n
  <2>1. s[i] \in Items
    BY <1>1, <1>2
  <2>2. /\ s[i].y \in Nat /\ s[i].what \in BlockKinds /\ s[i].words \in Seq(AllWords)
        /\ s[i].what # "table" => s[i].words # <<>>
    BY <2>1 DEF Items, Wordy
  <2> DEFINE b == t[i]
             y == s[i].y
             what == s[i].what
             words == s[i].words
             id == <<"b", Len(blocks) + i>>
  <2>3. Len(blocks) + i \in Nat /\ "b" \in Labels /\ id \in Labels \X Nat
    BY <1>2 DEF Labels
  <2>4. b = Block(page, y, what, words, id)
    BY <1>3
  <2> HIDE DEF b, y, what, words, id
  <2>5. y \in Nat /\ what \in BlockKinds /\ words \in Seq(AllWords) /\ (what # "table" => words # <<>>)
    BY <2>2 DEF y, what, words
  <2>6. /\ b \in Blocks
        /\ b.page = page /\ b.y = y /\ b.what = what /\ b.words = words /\ b.id = id
    <3>1. MadeOf(b, page, y, what, words, id)
      BY <2>3, <2>4, <2>5 DEF MadeOf
    <3> QED BY <3>1, MakesBlock
  <2> QED BY <2>6 DEF b, y, what, words, id
<1>5. t \in [1 .. n -> Blocks]
  BY <1>3, <1>4
<1>6. t \in Seq(Blocks) /\ Len(t) = n /\ DOMAIN t = 1 .. n
  BY <1>2, <1>5, IsSeq
<1>7. ASSUME NEW x, Shows(items, x)  PROVE x \in Texts(t)
  <2>1. PICK a \in items : x \in ToSet(a.words)
    BY <1>7 DEF Shows
  <2>2. PICK k \in 1 .. n : s[k] = a
    BY <1>2
  <2>3. k \in DOMAIN t /\ x \in ToSet(t[k].words)
    BY <1>4, <1>6, <2>1, <2>2
  <2> QED BY <2>3, InTexts
<1>8. \A i \in 1 .. n : t[i].y \in Nat
  BY <1>1, <1>2, <1>4
<1>9. \A i, j \in 1 .. n : i < j => t[i].y <= t[j].y
  BY <1>2, <1>4
<1> QED BY <1>2, <1>4, <1>6, <1>7, <1>8, <1>9 DEF t, s

(* The invariant of the reading.  Up to the next part, every word that was *)
(* to be read is in the blocks, or a remark that blocks the document says  *)
(* that something is not; so for all of it once it is read.                *)
Remarkable == Blocking \cup {"tables", "annotations"}
ReadTo(f, n, bs) ==
  /\ f.kind = "pdf" => \A i \in 1 .. n - 1 : PageWords(f.parts[i]) \subseteq Texts(bs)
  /\ f.kind = "xlsx" => \A i \in 1 .. n - 1 : ToSet(f.parts[i].cells) \subseteq Texts(bs)

ReadTypes ==
  /\ step \in {"none", "reading", "read", "extracted", "refused", "failed"}
  /\ next \in Nat \ {0}
  /\ step = "none" => next = 1
  /\ blocks \in Seq(Blocks) /\ (step \in {"none", "refused", "failed"} => blocks = <<>>)
  /\ step \in {"reading", "read", "extracted"} => file.kind \in {"pdf", "docx", "xlsx"} /\ FileOK(file)
  /\ cells \in 0 .. MaxCells /\ warnings \subseteq Remarkable
  /\ reasons \subseteq Blocking \cup {"no_text", "auditor_unavailable"}
  /\ language \in {"tr", "en", "mixed", "unknown"}

Told == warnings \cap Blocking # {}
WordsRead ==
  /\ step = "reading" /\ ~Told => ReadTo(file, next, blocks)
  /\ step \in {"read", "extracted"} /\ ~Told => Content(file) \subseteq Texts(blocks)

OrderKept ==
  /\ BlocksInOrder
  /\ step = "reading" /\ file.kind = "pdf" =>
       \A i \in DOMAIN blocks : blocks[i].id = <<"b", i>> /\ blocks[i].page < next
  /\ step = "reading" /\ file.kind = "xlsx" =>
       \A i \in DOMAIN blocks : \E k \in 1 .. next - 1 : blocks[i].id \in {<<"h", k>>, <<"t", k>>}

ReadInv == ReadTypes /\ WordsRead /\ OrderKept

(* Blocks that follow the others, in a later place and under other names.  *)
LEMMA StaysInOrder ==
  ASSUME ReadTypes, BlocksInOrder, NEW t \in Seq(Blocks), blocks' = blocks \o t, file' = file,
         \A i \in DOMAIN blocks, j \in DOMAIN t : /\ blocks[i].id # t[j].id
                                                  /\ file.kind = "pdf" => blocks[i].page < t[j].page,
         \A i, j \in DOMAIN t : i < j => /\ t[i].id # t[j].id
                                         /\ file.kind = "pdf" => t[i].page = t[j].page /\ t[i].y <= t[j].y
  PROVE  BlocksInOrder'
<1> DEFINE m == Len(blocks)
           u == blocks'
<1>1. /\ m \in Nat /\ Len(t) \in Nat /\ DOMAIN blocks = 1 .. m /\ DOMAIN t = 1 .. Len(t)
      /\ DOMAIN u = 1 .. m + Len(t)
      /\ \A i \in 1 .. m + Len(t) : u[i] = IF i <= m THEN blocks[i] ELSE t[i - m]
  BY DEF ReadTypes
<1> HIDE DEF m, u
<1>2. SUFFICES ASSUME NEW i \in DOMAIN u, NEW j \in DOMAIN u, i < j
               PROVE  /\ u[i].id # u[j].id
                      /\ file.kind = "pdf" => \/ u[i].page < u[j].page
                                              \/ u[i].page = u[j].page /\ u[i].y <= u[j].y
  BY DEF BlocksInOrder, u
<1>3. CASE j <= m
  <2>1. i \in DOMAIN blocks /\ j \in DOMAIN blocks /\ u[i] = blocks[i] /\ u[j] = blocks[j]
    BY <1>1, <1>2, <1>3
  <2> QED BY <1>2, <2>1 DEF BlocksInOrder
<1>4. CASE i <= m /\ ~(j <= m)
  <2>1. i \in DOMAIN blocks /\ j - m \in DOMAIN t /\ u[i] = blocks[i] /\ u[j] = t[j - m]
    BY <1>1, <1>2, <1>4
  <2> QED BY <2>1
<1>5. CASE ~(i <= m)
  <2>1. i - m \in DOMAIN t /\ j - m \in DOMAIN t /\ i - m < j - m /\ u[i] = t[i - m] /\ u[j] = t[j - m]
    BY <1>1, <1>2, <1>5
  <2> QED BY <2>1
<1> QED BY <1>1, <1>3, <1>4, <1>5

(* What was read to one part and holds the next is read to the one after.  *)
LEMMA TextsKeepReadTo ==
  ASSUME NEW f, NEW n \in Nat \ {0}, NEW bs, NEW cs, ReadTo(f, n, bs), Texts(bs) \subseteq Texts(cs),
         f.kind = "pdf" => PageWords(f.parts[n]) \subseteq Texts(cs),
         f.kind = "xlsx" => ToSet(f.parts[n].cells) \subseteq Texts(cs)
  PROVE  ReadTo(f, n + 1, cs)
<1>1. \A i \in 1 .. n + 1 - 1 : i = n \/ i \in 1 .. n - 1
  OBVIOUS
<1> QED BY <1>1 DEF ReadTo

(* A page more (extract of the PDF extractor).                             *)
LEMMA PageStep ==
  ASSUME ReadInv, ReadPage
  PROVE  ReadInv'
<1>1. PICK ocr \in BOOLEAN, found \in {{}, file.parts[next].table} :
        /\ blocks' = blocks \o Numbered(InOrder(PageItems(file.parts[next], ocr, found)), next)
        /\ warnings' = warnings \cup Remarks(file.parts[next], ocr, found)
  BY DEF ReadPage, PageItems
<1> DEFINE p == file.parts[next]
           items == PageItems(p, ocr, found)
           t == Numbered(InOrder(items), next)
           w == Remarks(p, ocr, found)
<1>2. /\ step = "reading" /\ file.kind = "pdf" /\ next <= Len(file.parts) /\ next' = next + 1
      /\ UNCHANGED <<file, step, tesseract, cells, reasons, language>>
  BY DEF ReadPage
<1>3. ReadTypes /\ WordsRead /\ OrderKept /\ next \in Nat \ {0} /\ blocks \in Seq(Blocks)
  BY DEF ReadInv, ReadTypes
<1>4. PageOK(p)
  <2>1. FileOK(file)
    BY <1>2, <1>3 DEF ReadTypes
  <2>2. next \in DOMAIN file.parts
    BY <1>2, <1>3, <2>1 DEF FileOK, Numbers
  <2> QED BY <1>2, <2>1, <2>2 DEF FileOK
<1>5. Given(items) /\ ((\A x \in PageWords(p) : Shows(items, x)) \/ w \cap Blocking # {})
  BY <1>1, <1>4, PageGiven
<1>6. /\ t \in Seq(Blocks) /\ Len(t) \in Nat /\ DOMAIN t = 1 .. Len(t)
      /\ \A x : Shows(items, x) => x \in Texts(t)
      /\ \A i \in 1 .. Len(t) : t[i].page = next /\ t[i].y \in Nat /\ t[i].id = <<"b", Len(blocks) + i>>
      /\ \A i, j \in 1 .. Len(t) : i < j => t[i].y <= t[j].y
  <2> HIDE DEF items
  <2> QED BY <1>3, <1>5, NumberedHolds
<1>7. blocks' = blocks \o t /\ warnings' = warnings \cup w /\ w \subseteq Remarkable
  BY <1>1 DEF Remarks, Remarkable, Blocking
<1> HIDE DEF t, items, w, p
<1>8. /\ blocks \o t \in Seq(Blocks) /\ Texts(blocks \o t) = Texts(blocks) \cup Texts(t)
  BY <1>3, <1>6, TextsConcat
<1>9. ReadTypes'
  BY <1>2, <1>3, <1>7, <1>8 DEF ReadTypes
<1>10. WordsRead'
  <2> SUFFICES ASSUME ~Told'  PROVE ReadTo(file, next + 1, blocks')
    BY <1>2 DEF WordsRead
  <2>1. ~Told /\ w \cap Blocking = {}
    BY <1>7 DEF Told
  <2>2. ReadTo(file, next, blocks)
    BY <1>2, <1>3, <2>1 DEF WordsRead
  <2>3. PageWords(p) \subseteq Texts(blocks') /\ Texts(blocks) \subseteq Texts(blocks')
    BY <1>5, <1>6, <1>7, <1>8, <2>1
  <2> QED BY <1>2, <1>3, <2>2, <2>3, TextsKeepReadTo DEF p
<1>11. OrderKept'
  <2> DEFINE m == Len(blocks)
             u == blocks'
  <2>1. /\ m \in Nat /\ DOMAIN blocks = 1 .. m
        /\ DOMAIN u = 1 .. m + Len(t)
        /\ \A i \in 1 .. m + Len(t) : u[i] = IF i <= m THEN blocks[i] ELSE t[i - m]
    BY <1>3, <1>6, <1>7
  <2>2. \A i \in DOMAIN blocks : blocks[i].id = <<"b", i>> /\ blocks[i].page < next /\ blocks[i] \in Blocks
    BY <1>2, <1>3 DEF OrderKept
  <2>3. \A i \in DOMAIN t : t[i].page = next /\ t[i].id = <<"b", m + i>>
    BY <1>6
  <2> HIDE DEF m, u
  <2>4. BlocksInOrder'
    <3>1. \A i \in DOMAIN blocks, j \in DOMAIN t : blocks[i].id # t[j].id /\ blocks[i].page < t[j].page
      <4> TAKE i \in DOMAIN blocks, j \in DOMAIN t
      <4>1. i # m + j
        BY <1>6, <2>1
      <4> QED BY <2>2, <2>3, <4>1
    <3>2. \A i, j \in DOMAIN t : i < j => t[i].id # t[j].id /\ t[i].page = t[j].page /\ t[i].y <= t[j].y
      <4> SUFFICES ASSUME NEW i \in DOMAIN t, NEW j \in DOMAIN t, i < j
                   PROVE t[i].id # t[j].id /\ t[i].page = t[j].page /\ t[i].y <= t[j].y
        OBVIOUS
      <4>1. m + i # m + j
        BY <1>6, <2>1
      <4> QED BY <1>6, <2>3, <4>1
    <3>3. \A i \in DOMAIN blocks, j \in DOMAIN t : /\ blocks[i].id # t[j].id
                                                   /\ file.kind = "pdf" => blocks[i].page < t[j].page
      BY <3>1
    <3>4. \A i, j \in DOMAIN t : i < j => /\ t[i].id # t[j].id
                                          /\ file.kind = "pdf" => t[i].page = t[j].page /\ t[i].y <= t[j].y
      BY <3>2
    <3>5. ReadTypes /\ BlocksInOrder /\ t \in Seq(Blocks) /\ blocks' = blocks \o t /\ file' = file
      BY <1>2, <1>3, <1>6, <1>7 DEF OrderKept
    <3> QED BY <3>3, <3>4, <3>5, StaysInOrder
  <2>5. ASSUME NEW i \in DOMAIN u  PROVE u[i].id = <<"b", i>> /\ u[i].page < next + 1
    <3>1. CASE i <= m
      <4>1. i \in DOMAIN blocks /\ u[i] = blocks[i]
        BY <2>1, <3>1
      <4>2. blocks[i].page \in Nat /\ blocks[i].page < next /\ blocks[i].id = <<"b", i>>
        BY <2>2, <4>1 DEF Blocks
      <4> QED BY <1>3, <4>1, <4>2
    <3>2. CASE ~(i <= m)
      <4>1. i - m \in DOMAIN t /\ u[i] = t[i - m] /\ m + (i - m) = i
        BY <1>6, <2>1, <3>2
      <4> QED BY <1>3, <2>3, <4>1
    <3> QED BY <3>1, <3>2
  <2> QED BY <1>2, <2>4, <2>5 DEF OrderKept, u
<1> QED BY <1>9, <1>10, <1>11 DEF ReadInv

(* Words may be masked words.                                              *)
LEMMA WordsAreWords ==
  ASSUME NEW s \in Seq(Words)
  PROVE  s \in Seq(AllWords) /\ Len(s) \in Nat /\ DOMAIN s = 1 .. Len(s)
<1>1. \A i \in 1 .. Len(s) : s[i] \in AllWords
  BY DEF AllWords
<1>2. s \in [1 .. Len(s) -> AllWords] /\ Len(s) \in Nat
  BY <1>1
<1> QED BY <1>2, IsSeq

LEMMA OneWord ==
  ASSUME NEW w \in AllWords
  PROVE  <<w>> \in Seq(AllWords) /\ <<w>> # <<>> /\ ToSet(<<w>>) = {w}
BY DEF ToSet

(* A sheet more, up to the limit of cells (extract of the XLSX extractor). *)
LEMMA SheetStep ==
  ASSUME ReadInv, ReadSheet
  PROVE  ReadInv'
<1> DEFINE sheet == file.parts[next]
           first == FirstCells(sheet.cells)
           head == Block(next, 0, "heading", <<sheet.name>>, <<"h", next>>)
           table == Block(next, 0, "table", SubSeq(sheet.cells, 1, first.read), <<"t", next>>)
           t == <<head, table>>
<1>1. /\ step = "reading" /\ file.kind = "xlsx" /\ next <= Len(file.parts) /\ next' = next + 1
      /\ UNCHANGED <<file, step, tesseract, reasons, language>>
      /\ cells' = cells + first.read
      /\ warnings' = warnings \cup IF first.more THEN {"truncated"} ELSE {}
      /\ blocks' = IF first.read = 0 THEN blocks ELSE blocks \o t
  BY DEF ReadSheet
<1>2. ReadTypes /\ WordsRead /\ OrderKept /\ next \in Nat \ {0} /\ blocks \in Seq(Blocks)
  BY DEF ReadInv, ReadTypes
<1>3. SheetOK(sheet)
  <2>1. FileOK(file)
    BY <1>1, <1>2 DEF ReadTypes
  <2>2. next \in DOMAIN file.parts
    BY <1>1, <1>2, <2>1 DEF FileOK, Numbers
  <2> QED BY <1>1, <2>1, <2>2 DEF FileOK
<1>4. sheet.cells \in Seq(Words) /\ sheet.name \in AllWords /\ Len(sheet.cells) \in Nat
  BY <1>3 DEF SheetOK, AllWords
<1>5. cells \in 0 .. MaxCells /\ MaxCells \in Nat
  BY <1>2, LimitsAssumption DEF ReadTypes
<1>6. /\ first.read \in 0 .. Len(sheet.cells) /\ cells + first.read \in 0 .. MaxCells
      /\ ~first.more => first.read = Len(sheet.cells)
  <2>1. first = IF Len(sheet.cells) <= MaxCells - cells THEN [read |-> Len(sheet.cells), more |-> FALSE]
                                                        ELSE [read |-> MaxCells - cells, more |-> TRUE]
    BY DEF FirstCells
  <2> HIDE DEF first, sheet
  <2> QED BY <1>4, <1>5, <2>1
<1> DEFINE some == SubSeq(sheet.cells, 1, first.read)
           n == first.read
<1>7. some \in Seq(Words) /\ (~first.more => some = sheet.cells)
  <2>1. some \in Seq(Words)
    <3> HIDE DEF sheet, n
    <3>1. n \in 0 .. Len(sheet.cells)
      BY <1>6 DEF n
    <3>2. SubSeq(sheet.cells, 1, n) \in Seq(Words)
      BY <1>4, <3>1
    <3> QED BY <3>2 DEF n
  <2>2. ~first.more => SubSeq(sheet.cells, 1, n) = sheet.cells
    <3> HIDE DEF sheet, first
    <3> QED BY <1>4, <1>6
  <2> QED BY <2>1, <2>2
<1>8. head \in Blocks /\ head.id = <<"h", next>>
  <2> DEFINE id == <<"h", next>>
             words == <<sheet.name>>
             what == "heading"
  <2>1. id \in Labels \X Nat /\ words \in Seq(AllWords) /\ words # <<>> /\ what \in BlockKinds
    BY <1>2, <1>4, OneWord DEF Labels, BlockKinds
  <2> HIDE DEF id, words, what
  <2>2. head = Block(next, 0, what, words, id) /\ 0 \in Nat
    BY DEF id, words, what
  <2> HIDE DEF head
  <2>3. head \in Blocks /\ head.id = id
    <3>1. MadeOf(head, next, 0, what, words, id)
      BY <1>2, <2>1, <2>2 DEF MadeOf
    <3> QED BY <3>1, MakesBlock
  <2> QED BY <2>3 DEF id
<1>9. table \in Blocks /\ table.id = <<"t", next>> /\ table.words = some
  <2> DEFINE id == <<"t", next>>
             what == "table"
  <2>1. id \in Labels \X Nat /\ some \in Seq(AllWords) /\ what = "table" /\ what \in BlockKinds
    BY <1>2, <1>7, WordsAreWords DEF Labels, BlockKinds
  <2>2. table = Block(next, 0, what, some, id) /\ 0 \in Nat
    OBVIOUS
  <2> HIDE DEF table, id, some, what
  <2>3. table \in Blocks /\ table.id = id /\ table.words = some
    <3>1. MadeOf(table, next, 0, what, some, id)
      BY <1>2, <2>1, <2>2 DEF MadeOf
    <3> QED BY <3>1, MakesBlock
  <2> QED BY <2>3 DEF id
<1> HIDE DEF head, table, some, n, first
<1>10. t \in Seq(Blocks) /\ Len(t) = 2 /\ DOMAIN t = {1, 2} /\ t[1] = head /\ t[2] = table
  BY <1>8, <1>9
<1> HIDE DEF t
<1>11. blocks \o t \in Seq(Blocks) /\ Texts(blocks \o t) = Texts(blocks) \cup Texts(t)
  BY <1>2, <1>10, TextsConcat
<1>12. ToSet(some) \subseteq Texts(t)
  BY <1>9, <1>10, InTexts
<1>13. ReadTypes'
  <2>1. warnings' \subseteq Remarkable /\ blocks' \in Seq(Blocks) /\ next' \in Nat \ {0} /\ cells' \in 0 .. MaxCells
    BY <1>1, <1>2, <1>6, <1>11 DEF ReadTypes, Remarkable, Blocking
  <2> QED BY <1>1, <1>2, <2>1 DEF ReadTypes
<1>14. WordsRead'
  <2> SUFFICES ASSUME ~Told'  PROVE ReadTo(file, next + 1, blocks')
    BY <1>1 DEF WordsRead
  <2>1. ~Told /\ ~first.more
    BY <1>1 DEF Told, Blocking
  <2>2. ReadTo(file, next, blocks)
    BY <1>1, <1>2, <2>1 DEF WordsRead
  <2>3. ToSet(sheet.cells) \subseteq Texts(blocks') /\ Texts(blocks) \subseteq Texts(blocks')
    <3>1. CASE first.read = 0
      <4>1. DOMAIN sheet.cells = {} /\ blocks' = blocks
        <5> HIDE DEF sheet
        <5> QED BY <1>1, <1>4, <1>6, <2>1, <3>1
      <4> QED BY <4>1 DEF ToSet
    <3>2. CASE first.read # 0
      BY <1>1, <1>7, <1>11, <1>12, <2>1, <3>2
    <3> QED BY <3>1, <3>2
  <2>4. file.kind # "pdf" /\ ToSet(file.parts[next].cells) \subseteq Texts(blocks')
    BY <1>1, <2>3
  <2> HIDE DEF sheet
  <2> QED BY <1>2, <2>2, <2>3, <2>4, TextsKeepReadTo
<1>15. OrderKept'
  <2>1. \A i \in DOMAIN blocks : \E k \in 1 .. next - 1 : blocks[i].id \in {<<"h", k>>, <<"t", k>>}
    BY <1>1, <1>2 DEF OrderKept
  <2>2. \A j \in DOMAIN t : t[j].id \in {<<"h", next>>, <<"t", next>>}
    BY <1>8, <1>9, <1>10
  <2>3. CASE first.read = 0
    <3>1. blocks' = blocks /\ file' = file /\ step' = step
      BY <1>1, <2>3
    <3>2. BlocksInOrder'
      BY <1>2, <3>1 DEF OrderKept, BlocksInOrder
    <3>3. \A i \in DOMAIN blocks' : \E k \in 1 .. next' - 1 : blocks'[i].id \in {<<"h", k>>, <<"t", k>>}
      <4>1. \A k \in 1 .. next - 1 : k \in 1 .. next' - 1
        BY <1>1, <1>2
      <4> QED BY <2>1, <3>1, <4>1
    <3>4. file'.kind = "xlsx"
      BY <1>1
    <3> QED BY <3>2, <3>3, <3>4 DEF OrderKept
  <2>4. CASE first.read # 0
    <3>1. \A i \in DOMAIN blocks, j \in DOMAIN t : blocks[i].id # t[j].id
      BY <1>2, <2>1, <2>2
    <3>2. \A i, j \in DOMAIN t : i < j => t[i].id # t[j].id
      BY <1>8, <1>9, <1>10
    <3>3. blocks' = blocks \o t /\ file' = file /\ BlocksInOrder
      BY <1>1, <1>2, <2>4 DEF OrderKept
    <3>4. BlocksInOrder'
      <4>1. \A i \in DOMAIN blocks, j \in DOMAIN t : /\ blocks[i].id # t[j].id
                                                     /\ file.kind = "pdf" => blocks[i].page < t[j].page
        BY <1>1, <3>1
      <4>2. \A i, j \in DOMAIN t : i < j => /\ t[i].id # t[j].id
                                            /\ file.kind = "pdf" => t[i].page = t[j].page /\ t[i].y <= t[j].y
        BY <1>1, <3>2
      <4>3. ReadTypes /\ t \in Seq(Blocks)
        BY <1>2, <1>10
      <4> QED BY <3>3, <4>1, <4>2, <4>3, StaysInOrder
    <3>5. ASSUME NEW i \in DOMAIN blocks'
          PROVE  \E k \in 1 .. next' - 1 : blocks'[i].id \in {<<"h", k>>, <<"t", k>>}
      <4>1. blocks'[i] \in ToSet(blocks) \cup ToSet(t)
        <5>1. ToSet(blocks \o t) = ToSet(blocks) \cup ToSet(t)
          BY <1>2, <1>10, ConcatHolds
        <5> QED BY <3>3, <5>1 DEF ToSet
      <4>2. CASE blocks'[i] \in ToSet(blocks)
        <5>1. PICK k \in 1 .. next - 1 : blocks'[i].id \in {<<"h", k>>, <<"t", k>>}
          BY <2>1, <4>2 DEF ToSet
        <5>2. k \in 1 .. next' - 1
          BY <1>1, <1>2
        <5> QED BY <5>1, <5>2
      <4>3. CASE blocks'[i] \in ToSet(t)
        <5>1. next \in 1 .. next' - 1
          BY <1>1, <1>2
        <5> QED BY <2>2, <4>3, <5>1 DEF ToSet
      <4> QED BY <4>1, <4>2, <4>3
    <3>6. file'.kind = "xlsx"
      BY <1>1
    <3> QED BY <3>4, <3>5, <3>6 DEF OrderKept
  <2> QED BY <2>3, <2>4
<1> QED BY <1>13, <1>14, <1>15 DEF ReadInv

(* The comments of a workbook that are read.                               *)
LEMMA CommentsAreWords ==
  ASSUME FileOK(file), file.kind = "xlsx"
  PROVE  FirstComments \in Seq(Words)
<1> DEFINE ss == [i \in DOMAIN file.notes |-> IF ReadablePart(i) THEN file.notes[i].words ELSE <<>>]
           c == CommentWords
           k == IF Len(c) < MaxComments THEN Len(c) ELSE MaxComments
<1>1. Numbers(file.notes) /\ \A i \in DOMAIN file.notes : file.notes[i].words \in Seq(Words)
  BY DEF FileOK
<1>2. \A i \in DOMAIN file.notes : ss[i] \in Seq(Words)
  BY <1>1, EmptySeq
<1>3. ss \in [1 .. Len(file.notes) -> Seq(Words)] /\ Len(file.notes) \in Nat
  BY <1>1, <1>2 DEF Numbers
<1>4. ss \in Seq(Seq(Words))
  <2> HIDE DEF ss
  <2> QED BY <1>3, IsSeq
<1>5. c = FlattenSeq(ss)
  BY DEF CommentWords
<1> HIDE DEF ss, c
<1>6. c \in Seq(Words)
  BY <1>4, <1>5, Flattened
<1>7. k \in 0 .. Len(c)
  BY <1>6, LimitsAssumption
<1>8. FirstComments = SubSeq(c, 1, k)
  BY DEF FirstComments, c
<1> HIDE DEF k
<1> QED BY <1>6, <1>7, <1>8

(* The comments of a workbook: its sheets were read to the end, or it was  *)
(* cut off and says so.                                                    *)
LEMMA CommentsStep ==
  ASSUME ReadInv, ReadComments
  PROVE  ReadInv'
<1> DEFINE c == FirstComments
           t == [i \in DOMAIN c |-> Block(0, 0, "comment", <<c[i]>>, <<"cmt", i>>)]
<1>1. /\ step = "reading" /\ file.kind = "xlsx" /\ SheetsEnd /\ blocks' = blocks \o t /\ step' = "read"
      /\ UNCHANGED <<file, next, tesseract, cells, warnings, reasons, language>>
  BY DEF ReadComments
<1>2. ReadTypes /\ WordsRead /\ OrderKept /\ next \in Nat \ {0} /\ blocks \in Seq(Blocks)
  BY DEF ReadInv, ReadTypes
<1>3. FileOK(file)
  BY <1>1, <1>2 DEF ReadTypes
<1>4. c \in Seq(Words) /\ Len(c) \in Nat /\ DOMAIN c = 1 .. Len(c)
  BY <1>1, <1>3, CommentsAreWords
<1> HIDE DEF c
<1>5. \A i \in DOMAIN c : t[i] \in Blocks /\ t[i].id = <<"cmt", i>>
  <2> TAKE i \in DOMAIN c
  <2> DEFINE b == t[i]
             id == <<"cmt", i>>
             words == <<c[i]>>
             what == "comment"
             zero == 0
  <2>1. c[i] \in AllWords /\ id \in Labels \X Nat /\ what \in BlockKinds
    BY <1>4 DEF AllWords, Labels, BlockKinds
  <2>2. words \in Seq(AllWords) /\ words # <<>>
    BY <2>1, OneWord
  <2>3. b = Block(zero, zero, what, words, id) /\ zero \in Nat
    OBVIOUS
  <2> HIDE DEF b, id, words, what, zero
  <2>4. what \in BlockKinds /\ (what # "table" => words # <<>>) /\ id \in Labels \X Nat
    BY <2>1, <2>2
  <2>5. b \in Blocks /\ b.id = id
    <3>1. MadeOf(b, zero, zero, what, words, id)
      BY <2>2, <2>3, <2>4 DEF MadeOf
    <3> QED BY <3>1, MakesBlock
  <2> QED BY <2>5 DEF b, id
<1>6. DOMAIN t = 1 .. Len(c)
  BY <1>4
<1> HIDE DEF t
<1>7. t \in [1 .. Len(c) -> Blocks]
  <2>1. t = [i \in DOMAIN c |-> t[i]]
    BY DEF t
  <2> QED BY <1>4, <1>5, <2>1
<1>8. t \in Seq(Blocks)
  BY <1>4, <1>7, IsSeq
<1>9. blocks' \in Seq(Blocks) /\ Texts(blocks) \subseteq Texts(blocks')
  BY <1>1, <1>2, <1>8, TextsConcat
<1>10. ReadTypes'
  BY <1>1, <1>2, <1>9 DEF ReadTypes
<1>11. WordsRead'
  <2> SUFFICES ASSUME ~Told'  PROVE Content(file) \subseteq Texts(blocks')
    BY <1>1 DEF WordsRead
  <2>1. ~Told /\ next > Len(file.parts)
    BY <1>1 DEF Told, Blocking, SheetsEnd
  <2>2. \A i \in 1 .. next - 1 : ToSet(file.parts[i].cells) \subseteq Texts(blocks)
    BY <1>1, <1>2, <2>1 DEF WordsRead, ReadTo
  <2>3. \A i \in DOMAIN file.parts : i \in 1 .. next - 1
    BY <1>2, <1>3, <2>1 DEF FileOK, Numbers
  <2>4. Content(file) \subseteq Texts(blocks)
    <3> DEFINE q == [i \in DOMAIN file.parts |-> file.parts[i].cells]
    <3>1. Content(file) = SeqWords(q)
      BY <1>1 DEF Content
    <3>2. \A i \in DOMAIN q : ToSet(q[i]) \subseteq Texts(blocks)
      BY <2>2, <2>3
    <3> HIDE DEF q
    <3> QED BY <3>1, <3>2 DEF SeqWords
  <2> QED BY <1>9, <2>4
<1>12. OrderKept'
  <2>1. \A i \in DOMAIN blocks : \E k \in 1 .. next - 1 : blocks[i].id \in {<<"h", k>>, <<"t", k>>}
    BY <1>1, <1>2 DEF OrderKept
  <2>2. \A i \in DOMAIN blocks, j \in DOMAIN t : /\ blocks[i].id # t[j].id
                                                 /\ file.kind = "pdf" => blocks[i].page < t[j].page
    <3> TAKE i \in DOMAIN blocks, j \in DOMAIN t
    <3>1. t[j].id = <<"cmt", j>>
      BY <1>4, <1>5, <1>6
    <3> QED BY <1>1, <2>1, <3>1
  <2>3. \A i, j \in DOMAIN t : i < j => /\ t[i].id # t[j].id
                                        /\ file.kind = "pdf" => t[i].page = t[j].page /\ t[i].y <= t[j].y
    <3> TAKE i, j \in DOMAIN t
    <3>1. t[j].id = <<"cmt", j>> /\ t[i].id = <<"cmt", i>>
      BY <1>4, <1>5, <1>6
    <3> QED BY <1>1, <1>6, <3>1
  <2>4. ReadTypes /\ BlocksInOrder /\ t \in Seq(Blocks) /\ blocks' = blocks \o t /\ file' = file
    BY <1>1, <1>2, <1>8 DEF OrderKept
  <2>5. BlocksInOrder'
    BY <2>2, <2>3, <2>4, StaysInOrder
  <2> QED BY <1>1, <2>5 DEF OrderKept
<1> QED BY <1>10, <1>11, <1>12 DEF ReadInv

(* What of a Word document becomes a block, as ReadDocx lists it.          *)
DocxMargins == FirstOfText(Margins("header") \o Margins("footer"))
DocxBody == [i \in DOMAIN Body |-> [what |-> Body[i].what, words |-> Body[i].words]]
DocxSides == [i \in DOMAIN DocxMargins |-> [what |-> DocxMargins[i].label, words |-> DocxMargins[i].words]]
DocxComments == IF file.notes = "broken" THEN <<>>
                ELSE [i \in DOMAIN file.notes |-> [what |-> "comment", words |-> <<file.notes[i]>>]]
Pieces == {b \in [what : BlockKinds, words : Seq(AllWords)] : Wordy(b)}
Holds(pieces, x) == \E b \in ToSet(pieces) : x \in ToSet(b.words)

(* A piece is what it is made of.                                          *)
LEMMA MakesPiece ==
  ASSUME NEW what \in BlockKinds, NEW words \in Seq(AllWords), what # "table" => words # <<>>,
         NEW b, b = [what |-> what, words |-> words]
  PROVE  b \in Pieces /\ b.what = what /\ b.words = words
BY DEF Pieces, Wordy

(* The body of a Word document without its blank paragraphs holds every    *)
(* word of it.                                                             *)
LEMMA BodyHolds ==
  ASSUME file.kind = "docx", FileOK(file)
  PROVE  /\ DocxBody \in Seq(Pieces)
         /\ \A i \in DOMAIN file.parts : \A x \in ToSet(file.parts[i].words) : Holds(DocxBody, x)
<1> DEFINE S == {i \in DOMAIN file.parts : file.parts[i].what # "blank"}
           X == {file.parts[i] : i \in S}
<1>1. /\ Len(file.parts) \in Nat /\ DOMAIN file.parts = 1 .. Len(file.parts)
      /\ \A i \in DOMAIN file.parts : ItemOK(file.parts[i])
  BY DEF FileOK, Numbers
<1>2. IsFiniteSet(S) /\ S \subseteq Int
  <2>1. IsFiniteSet(DOMAIN file.parts) /\ S \subseteq DOMAIN file.parts
    BY <1>1, FS_Interval
  <2> HIDE DEF S
  <2> QED BY <1>1, <2>1, FS_Subset
<1>3. Body \in Seq(X) /\ ToSet(Body) = X
  <2>1. Body = Picked(file.parts, S) /\ \A i \in S : file.parts[i] \in X
    BY DEF Body
  <2>2. Picked(file.parts, S) \in Seq(X) /\ ToSet(Picked(file.parts, S)) = {file.parts[i] : i \in S}
    <3>1. Places(S, file.parts, X)
      BY <1>2 DEF Places
    <3> HIDE DEF S, X
    <3> QED BY <3>1, PickedHolds
  <2> QED BY <2>1, <2>2
<1>4. ASSUME NEW p \in X
      PROVE  p.what \in BlockKinds /\ p.words \in Seq(AllWords) /\ (p.what # "table" => p.words # <<>>)
  <2>1. ItemOK(p) /\ p.what # "blank"
    BY <1>1
  <2>2. p.words \in Seq(AllWords)
    BY <2>1, WordsAreWords DEF ItemOK
  <2> QED BY <2>1, <2>2 DEF ItemOK, BlockKinds
<1>5. Len(Body) \in Nat /\ DOMAIN Body = 1 .. Len(Body) /\ \A i \in DOMAIN Body : Body[i] \in X
  <2> HIDE DEF X
  <2> QED BY <1>3
<1> HIDE DEF X
<1>6. \A i \in DOMAIN Body : DocxBody[i] \in Pieces /\ DocxBody[i].words = Body[i].words
  <2> TAKE i \in DOMAIN Body
  <2> DEFINE what == Body[i].what
             words == Body[i].words
             b == DocxBody[i]
  <2>1. /\ what \in BlockKinds /\ words \in Seq(AllWords) /\ (what # "table" => words # <<>>)
        /\ b = [what |-> what, words |-> words]
    BY <1>4, <1>5 DEF DocxBody
  <2> HIDE DEF what, words, b
  <2>2. b \in Pieces /\ b.words = words
    BY <2>1, MakesPiece
  <2> QED BY <2>2 DEF words, b
<1>7. DOMAIN DocxBody = 1 .. Len(Body) /\ DocxBody \in [1 .. Len(Body) -> Pieces]
  BY <1>5, <1>6 DEF DocxBody
<1>8. DocxBody \in Seq(Pieces)
  BY <1>5, <1>7, IsSeq
<1>9. ASSUME NEW i \in DOMAIN file.parts, NEW x \in ToSet(file.parts[i].words)  PROVE Holds(DocxBody, x)
  <2>1. file.parts[i].words # <<>>
    <3>1. ToSet(<<>>) = {}
      BY DEF ToSet
    <3> QED BY <1>9, <3>1
  <2>2. i \in S
    BY <1>1, <2>1 DEF ItemOK
  <2>3. file.parts[i] \in ToSet(Body)
    BY <1>3, <2>2 DEF X
  <2>4. PICK k \in DOMAIN Body : Body[k] = file.parts[i]
    BY <2>3 DEF ToSet
  <2>5. DocxBody[k] \in ToSet(DocxBody) /\ x \in ToSet(DocxBody[k].words)
    BY <1>5, <1>6, <1>7, <2>4 DEF ToSet
  <2> QED BY <2>5 DEF Holds
<1> QED BY <1>8, <1>9

(* Its headers and footers, each text once and without those linked to a   *)
(* section before, hold every word of them.                                *)
LEMMA SidesHold ==
  ASSUME file.kind = "docx", FileOK(file)
  PROVE  /\ DocxSides \in Seq(Pieces)
         /\ \A i \in DOMAIN file.margins : \A x \in ToSet(file.margins[i].words) : Holds(DocxSides, x)
<1> DEFINE ms == file.margins
           X == {ms[i] : i \in DOMAIN ms}
           Own(label) == {i \in DOMAIN ms : ms[i].label = label /\ ~ms[i].linked}
           all == Margins("header") \o Margins("footer")
           First == {i \in DOMAIN all : \A j \in 1 .. i - 1 : all[j].words # all[i].words}
<1>1. /\ Len(ms) \in Nat /\ DOMAIN ms = 1 .. Len(ms)
      /\ \A i \in DOMAIN ms :
           /\ ms[i].label \in {"header", "footer"} /\ ms[i].words \in Seq(Words) \ {<<>>}
           /\ ms[i].linked => \E j \in 1 .. i - 1 : ~ms[j].linked /\ ms[j].words = ms[i].words
  BY DEF FileOK, MarginsOK, Numbers
<1>2. ASSUME NEW label
      PROVE  Margins(label) \in Seq(X) /\ ToSet(Margins(label)) = {ms[i] : i \in Own(label)}
  <2> DEFINE S == Own(label)
  <2>1. S \subseteq DOMAIN ms /\ IsFiniteSet(DOMAIN ms)
    <3>1. IsFiniteSet(DOMAIN ms)
      <4> HIDE DEF ms
      <4> QED BY <1>1, FS_Interval
    <3> QED BY <3>1
  <2>2. \A i \in S : ms[i] \in X
    OBVIOUS
  <2>3. Margins(label) = Picked(ms, S)
    BY DEF Margins
  <2> HIDE DEF S, ms, X
  <2>4. IsFiniteSet(S) /\ S \subseteq Int
    BY <1>1, <2>1, FS_Subset
  <2>5. Margins(label) \in Seq(X) /\ ToSet(Margins(label)) = {ms[i] : i \in S}
    <3>1. Places(S, ms, X)
      BY <2>2, <2>4 DEF Places
    <3> QED BY <2>3, <3>1, PickedHolds
  <2> QED BY <2>5 DEF S
<1>3. all \in Seq(X) /\ ToSet(all) = {ms[i] : i \in Own("header")} \cup {ms[i] : i \in Own("footer")}
  <2> HIDE DEF X, ms, Own
  <2> QED BY <1>2, ConcatHolds
<1> HIDE DEF X, ms, all
<1>4. Len(all) \in Nat /\ DOMAIN all = 1 .. Len(all) /\ \A i \in DOMAIN all : all[i] \in X
  BY <1>3
<1>5. IsFiniteSet(First) /\ First \subseteq Int /\ First \subseteq DOMAIN all
  <2>1. First \subseteq DOMAIN all /\ IsFiniteSet(DOMAIN all)
    BY <1>4, FS_Interval
  <2> HIDE DEF First
  <2> QED BY <1>4, <2>1, FS_Subset
<1> DEFINE d == DocxMargins
<1>6. d \in Seq(X) /\ ToSet(d) = {all[i] : i \in First}
  <2>1. d = Picked(all, First) /\ \A i \in First : all[i] \in X
    BY <1>4 DEF DocxMargins, FirstOfText, all
  <2> HIDE DEF First, d
  <2>2. Places(First, all, X)
    BY <1>5, <2>1 DEF Places
  <2> QED BY <2>1, <2>2, PickedHolds
<1>7. \A i \in DOMAIN all : \E j \in First : all[j].words = all[i].words
  <2> TAKE i \in DOMAIN all
  <2> DEFINE Same == {j \in DOMAIN all : all[j].words = all[i].words}
             R == OpToRel(<, Nat)
  <2>1. Same \subseteq Nat /\ i \in Same
    BY <1>4
  <2>2. PICK x \in Same : \A y \in Same : ~(<<y, x>> \in R)
    <3>1. IsWellFoundedOn(R, Nat)
      BY NatLessThanWellFounded
    <3> HIDE DEF R, Same
    <3> QED BY <2>1, <3>1, WFMin
  <2>3. \A j \in 1 .. x - 1 : j \notin Same
    <3>1. \A y \in Same : ~(y < x)
      <4> HIDE DEF Same
      <4> QED BY <2>1, <2>2 DEF OpToRel
    <3> HIDE DEF Same
    <3> QED BY <2>1, <3>1
  <2>4. \A j \in 1 .. x - 1 : j \in DOMAIN all
    BY <1>4, <2>1
  <2>5. x \in First /\ all[x].words = all[i].words
    BY <2>3, <2>4
  <2> QED BY <2>5
<1>8. ASSUME NEW p \in X
      PROVE  p.label \in BlockKinds /\ p.words \in Seq(AllWords) /\ p.words # <<>>
  <2>1. p.label \in {"header", "footer"} /\ p.words \in Seq(Words) \ {<<>>}
    BY <1>1 DEF X
  <2> QED BY <2>1, WordsAreWords DEF BlockKinds
<1> HIDE DEF First
<1>9. Len(d) \in Nat /\ DOMAIN d = 1 .. Len(d) /\ \A i \in DOMAIN d : d[i] \in X
  <2> HIDE DEF d
  <2> QED BY <1>6
<1>10. \A i \in DOMAIN d : DocxSides[i] \in Pieces /\ DocxSides[i].words = d[i].words
  <2> TAKE i \in DOMAIN d
  <2> DEFINE what == d[i].label
             words == d[i].words
             b == DocxSides[i]
  <2>1. /\ what \in BlockKinds /\ words \in Seq(AllWords) /\ (what # "table" => words # <<>>)
        /\ b = [what |-> what, words |-> words]
    BY <1>8, <1>9 DEF DocxSides
  <2> HIDE DEF what, words, b
  <2>2. b \in Pieces /\ b.words = words
    BY <2>1, MakesPiece
  <2> QED BY <2>2 DEF words, b
<1>11. DOMAIN DocxSides = 1 .. Len(d) /\ DocxSides \in [1 .. Len(d) -> Pieces]
  BY <1>9, <1>10 DEF DocxSides
<1>12. DocxSides \in Seq(Pieces)
  BY <1>9, <1>11, IsSeq
<1>13. ASSUME NEW i \in DOMAIN ms, NEW x \in ToSet(ms[i].words)  PROVE Holds(DocxSides, x)
  <2>1. PICK j \in DOMAIN ms : ~ms[j].linked /\ ms[j].words = ms[i].words
    BY <1>1
  <2>2. ms[j] \in ToSet(all)
    BY <1>1, <1>3, <2>1
  <2>3. PICK k \in DOMAIN all : all[k] = ms[j]
    BY <2>2 DEF ToSet
  <2>4. PICK l \in First : all[l].words = all[k].words
    BY <1>7
  <2>5. all[l] \in ToSet(d)
    BY <1>6
  <2>6. PICK q \in DOMAIN d : d[q] = all[l]
    BY <2>5 DEF ToSet
  <2>7. DocxSides[q] \in ToSet(DocxSides) /\ x \in ToSet(DocxSides[q].words)
    BY <1>9, <1>10, <1>11, <1>13, <2>1, <2>3, <2>4, <2>6 DEF ToSet
  <2> QED BY <2>7 DEF Holds
<1> QED BY <1>12, <1>13 DEF ms

(* Its comments, where they can be read.                                   *)
LEMMA CommentsHold ==
  ASSUME file.kind = "docx", FileOK(file)
  PROVE  /\ DocxComments \in Seq(Pieces)
         /\ file.notes # "broken" => \A x \in ToSet(file.notes) : Holds(DocxComments, x)
<1> DEFINE ns == file.notes
           c == DocxComments
<1>1. CASE ns = "broken"
  BY <1>1, EmptySeq DEF DocxComments
<1>2. CASE ns # "broken"
  <2>1. ns \in Seq(Words)
    BY <1>2 DEF FileOK
  <2>2. c = [i \in DOMAIN ns |-> [what |-> "comment", words |-> <<ns[i]>>]]
    BY <1>2 DEF DocxComments
  <2> HIDE DEF ns, c
  <2>3. Len(ns) \in Nat /\ DOMAIN ns = 1 .. Len(ns) /\ \A i \in DOMAIN ns : ns[i] \in AllWords
    BY <2>1 DEF AllWords
  <2>4. \A i \in DOMAIN ns : c[i] \in Pieces /\ c[i].words = <<ns[i]>>
    <3> TAKE i \in DOMAIN ns
    <3> DEFINE b == c[i]
               what == "comment"
               words == <<ns[i]>>
    <3>1. what \in BlockKinds /\ words \in Seq(AllWords) /\ words # <<>> /\ b = [what |-> what, words |-> words]
      BY <2>2, <2>3, OneWord DEF BlockKinds
    <3> HIDE DEF b, what, words
    <3>2. b \in Pieces /\ b.words = words
      BY <3>1, MakesPiece
    <3> QED BY <3>2 DEF b, words
  <2>5. DOMAIN c = 1 .. Len(ns) /\ c \in [1 .. Len(ns) -> Pieces]
    BY <2>2, <2>3, <2>4
  <2>6. c \in Seq(Pieces)
    BY <2>3, <2>5, IsSeq
  <2>7. ASSUME NEW x \in ToSet(ns)  PROVE Holds(c, x)
    <3>1. PICK i \in DOMAIN ns : x = ns[i]
      BY <2>7 DEF ToSet
    <3>2. c[i] \in ToSet(c) /\ x \in ToSet(c[i].words)
      BY <2>3, <2>4, <2>5, <3>1, OneWord DEF ToSet
    <3> QED BY <3>2 DEF Holds
  <2> QED BY <2>6, <2>7 DEF ns, c
<1> QED BY <1>1, <1>2

DocxPieces == DocxBody \o DocxSides \o DocxComments

(* All of it.                                                              *)
LEMMA PiecesHold ==
  ASSUME file.kind = "docx", FileOK(file)
  PROVE  DocxPieces \in Seq(Pieces) /\ \A x \in Content(file) : Holds(DocxPieces, x)
<1> DEFINE b == DocxBody
           s == DocxSides
           c == DocxComments
<1>1. b \in Seq(Pieces) /\ s \in Seq(Pieces) /\ c \in Seq(Pieces)
  BY BodyHolds, SidesHold, CommentsHold
<1> HIDE DEF b, s, c
<1>2. b \o s \in Seq(Pieces) /\ ToSet(b \o s) = ToSet(b) \cup ToSet(s)
  BY <1>1, ConcatHolds
<1>3. b \o s \o c \in Seq(Pieces) /\ ToSet(b \o s \o c) = ToSet(b) \cup ToSet(s) \cup ToSet(c)
  <2> DEFINE u == b \o s
  <2>1. u \in Seq(Pieces)
    BY <1>2
  <2> HIDE DEF u
  <2>2. u \o c \in Seq(Pieces) /\ ToSet(u \o c) = ToSet(u) \cup ToSet(c)
    BY <1>1, <2>1, ConcatHolds
  <2> QED BY <1>2, <2>2 DEF u
<1>4. DocxPieces = b \o s \o c
  BY DEF DocxPieces, b, s, c
<1>5. \A x : Holds(b, x) \/ Holds(s, x) \/ Holds(c, x) => Holds(DocxPieces, x)
  BY <1>3, <1>4 DEF Holds
<1>6. ASSUME NEW x \in Content(file)  PROVE Holds(b, x) \/ Holds(s, x) \/ Holds(c, x)
  <2> DEFINE p == [i \in DOMAIN file.parts |-> file.parts[i].words]
             m == [i \in DOMAIN file.margins |-> file.margins[i].words]
  <2>1. Content(file) = SeqWords(p) \cup SeqWords(m) \cup IF file.notes = "broken" THEN {} ELSE ToSet(file.notes)
    BY DEF Content
  <2>2. CASE x \in SeqWords(p)
    <3>1. PICK i \in DOMAIN file.parts : x \in ToSet(file.parts[i].words)
      BY <2>2 DEF SeqWords
    <3> QED BY <3>1, BodyHolds DEF b
  <2>3. CASE x \in SeqWords(m)
    <3>1. PICK i \in DOMAIN file.margins : x \in ToSet(file.margins[i].words)
      BY <2>3 DEF SeqWords
    <3> QED BY <3>1, SidesHold DEF s
  <2>4. CASE file.notes # "broken" /\ x \in ToSet(file.notes)
    BY <2>4, CommentsHold DEF c
  <2> HIDE DEF p, m
  <2> QED BY <1>6, <2>1, <2>2, <2>3, <2>4
<1> QED BY <1>3, <1>4, <1>5, <1>6

(* A Word document is read at once (extract of the DOCX extractor).        *)
LEMMA DocxStep ==
  ASSUME ReadInv, ReadDocx
  PROVE  ReadInv'
<1> DEFINE all == DocxPieces
           t == [i \in DOMAIN all |-> Block(0, 0, all[i].what, all[i].words, <<all[i].what, i>>)]
<1>1. /\ step = "reading" /\ file.kind = "docx" /\ step' = "read"
      /\ UNCHANGED <<file, next, tesseract, cells, warnings, reasons, language>>
  BY DEF ReadDocx
<1>2. blocks' = t
  BY DEF ReadDocx, DocxPieces, DocxBody, DocxSides, DocxComments, DocxMargins
<1>3. ReadTypes /\ FileOK(file)
  BY <1>1 DEF ReadInv, ReadTypes
<1>4. all \in Seq(Pieces) /\ \A x \in Content(file) : Holds(all, x)
  BY <1>1, <1>3, PiecesHold
<1> HIDE DEF all
<1>5. Len(all) \in Nat /\ DOMAIN all = 1 .. Len(all) /\ \A i \in DOMAIN all : all[i] \in Pieces
  BY <1>4
<1> HIDE DEF t
<1>6. \A i \in DOMAIN all : t[i] \in Blocks /\ t[i].words = all[i].words /\ t[i].id = <<all[i].what, i>>
  <2> TAKE i \in DOMAIN all
  <2> DEFINE b == t[i]
             what == all[i].what
             words == all[i].words
             id == <<what, i>>
             zero == 0
  <2>1. what \in BlockKinds /\ words \in Seq(AllWords) /\ (what # "table" => words # <<>>)
    BY <1>5 DEF Pieces, Wordy
  <2>2. id \in Labels \X Nat
    BY <1>5, <2>1 DEF Labels
  <2>3. b = Block(zero, zero, what, words, id) /\ zero \in Nat
    BY DEF t
  <2> HIDE DEF b, id, words, what, zero
  <2>4. b \in Blocks /\ b.id = id /\ b.words = words
    <3>1. MadeOf(b, zero, zero, what, words, id)
      BY <2>1, <2>2, <2>3 DEF MadeOf
    <3> QED BY <3>1, MakesBlock
  <2> QED BY <2>4 DEF b, id, words, what
<1>7. DOMAIN t = 1 .. Len(all) /\ t \in [1 .. Len(all) -> Blocks]
  <2>1. t = [i \in DOMAIN all |-> t[i]]
    BY DEF t
  <2> QED BY <1>5, <1>6, <2>1
<1>8. t \in Seq(Blocks)
  BY <1>5, <1>7, IsSeq
<1>9. Content(file) \subseteq Texts(t)
  <2> SUFFICES ASSUME NEW x \in Content(file)  PROVE x \in Texts(t)
    OBVIOUS
  <2>1. PICK i \in DOMAIN all : x \in ToSet(all[i].words)
    BY <1>4 DEF Holds, ToSet
  <2>2. i \in DOMAIN t /\ x \in ToSet(t[i].words)
    BY <1>5, <1>6, <1>7, <2>1
  <2> QED BY <2>2, InTexts
<1>10. ReadTypes'
  BY <1>1, <1>2, <1>3, <1>8 DEF ReadTypes
<1>11. WordsRead'
  BY <1>1, <1>2, <1>9 DEF WordsRead
<1>12. BlocksInOrder'
  <2>1. \A i, j \in DOMAIN t : i < j => t[i].id # t[j].id
    <3> TAKE i, j \in DOMAIN t
    <3>1. t[j].id = <<all[j].what, j>> /\ t[i].id = <<all[i].what, i>>
      BY <1>5, <1>6, <1>7
    <3> QED BY <1>7, <3>1
  <2> QED BY <1>1, <1>2, <2>1 DEF BlocksInOrder
<1>13. OrderKept'
  BY <1>1, <1>12 DEF OrderKept
<1> QED BY <1>10, <1>11, <1>13 DEF ReadInv

(* An upload comes in (validate_upload).                                   *)
LEMMA ReceiveStep ==
  ASSUME ReadInv, NEW f \in Files, Receive(f)
  PROVE  ReadInv'
<1>1. /\ step = "none" /\ file' = f /\ step' = IF Refusal(f) = "none" THEN "reading" ELSE "refused"
      /\ UNCHANGED <<next, tesseract, blocks, cells, warnings, reasons, language>>
  BY DEF Receive
<1>2. ReadTypes /\ blocks = <<>> /\ next = 1
  BY <1>1 DEF ReadInv, ReadTypes
<1>3. step' = "reading" => f.kind \in {"pdf", "docx", "xlsx"} /\ FileOK(f)
  BY <1>1, FilesAssumption DEF Magic
<1>4. ReadTypes'
  BY <1>1, <1>2, <1>3 DEF ReadTypes
<1>5. DOMAIN blocks' = {} /\ blocks' = <<>>
  BY <1>1, <1>2
<1>6. ReadTo(f, 1, <<>>)
  BY DEF ReadTo
<1>7. WordsRead'
  BY <1>1, <1>2, <1>6 DEF WordsRead
<1>8. OrderKept'
  BY <1>5 DEF OrderKept, BlocksInOrder
<1> QED BY <1>4, <1>7, <1>8 DEF ReadInv

(* The last page was read.                                                 *)
LEMMA PagesEndStep ==
  ASSUME ReadInv, PagesEnd
  PROVE  ReadInv'
<1>1. /\ step = "reading" /\ file.kind = "pdf" /\ next > Len(file.parts) /\ step' = "read"
      /\ UNCHANGED <<file, next, tesseract, blocks, cells, warnings, reasons, language>>
  BY DEF PagesEnd
<1>2. ReadTypes /\ WordsRead /\ OrderKept /\ next \in Nat \ {0} /\ FileOK(file)
  BY <1>1 DEF ReadInv, ReadTypes
<1>3. ReadTypes'
  BY <1>1, <1>2 DEF ReadTypes
<1>4. WordsRead'
  <2> SUFFICES ASSUME ~Told  PROVE Content(file) \subseteq Texts(blocks)
    BY <1>1 DEF WordsRead, Told
  <2>1. \A i \in 1 .. next - 1 : PageWords(file.parts[i]) \subseteq Texts(blocks)
    BY <1>1, <1>2 DEF WordsRead, ReadTo
  <2>2. \A i \in DOMAIN file.parts : i \in 1 .. next - 1
    BY <1>1, <1>2 DEF FileOK, Numbers
  <2>3. Content(file) = UNION {PageWords(file.parts[i]) : i \in DOMAIN file.parts}
    BY <1>1 DEF Content
  <2> QED BY <2>1, <2>2, <2>3
<1>5. OrderKept'
  BY <1>1, <1>2 DEF OrderKept, BlocksInOrder
<1> QED BY <1>3, <1>4, <1>5 DEF ReadInv

(* A parser that raises leaves nothing behind.                             *)
LEMMA FailsStep ==
  ASSUME ReadInv, ParserFails
  PROVE  ReadInv'
<1>1. /\ step' = "failed" /\ blocks' = <<>> /\ warnings' = {} /\ DOMAIN blocks' = {}
      /\ UNCHANGED <<file, next, tesseract, cells, reasons, language>>
  BY DEF ParserFails
<1>2. ReadTypes'
  BY <1>1, EmptySeq DEF ReadInv, ReadTypes
<1>3. WordsRead' /\ OrderKept'
  BY <1>1 DEF WordsRead, OrderKept, BlocksInOrder
<1> QED BY <1>2, <1>3 DEF ReadInv

(* The language of words is one of four.                                   *)
LEMMA LanguageOfIs ==
  ASSUME NEW words
  PROVE  LanguageOf(words) \in {"tr", "en", "mixed", "unknown"}
BY DEF LanguageOf

(* The language of a document speaks for every block of it                 *)
(* (detect_content_language).                                              *)
LEMMA OverallCovers ==
  ASSUME NEW content
  PROVE  /\ Overall(content) \in {"tr", "en", "mixed", "unknown"}
         /\ Overall(content) \in {"tr", "en"} =>
              \A i \in DOMAIN content : LanguageOf(content[i].words) \in {Overall(content), "unknown"}
<1> DEFINE seen == {LanguageOf(content[i].words) : i \in DOMAIN content}
           l == LanguageOf(PlainText(content))
<1>1. Overall(content) = IF "mixed" \in seen \/ {"tr", "en"} \subseteq seen THEN "mixed"
                         ELSE IF "tr" \in seen THEN "tr" ELSE IF "en" \in seen THEN "en" ELSE l
  BY DEF Overall
<1>2. seen \subseteq {"tr", "en", "mixed", "unknown"} /\ l \in {"tr", "en", "mixed", "unknown"}
  BY LanguageOfIs
<1>3. \A i \in DOMAIN content : LanguageOf(content[i].words) \in seen
  OBVIOUS
<1> HIDE DEF seen, l
<1>4. Overall(content) \in {"tr", "en"} => seen \subseteq {Overall(content), "unknown"}
  BY <1>1, <1>2
<1>5. Overall(content) \in {"tr", "en", "mixed", "unknown"}
  BY <1>1, <1>2
<1> QED BY <1>3, <1>4, <1>5

(* The end of the extraction: every remark that blocks is a reason         *)
(* (extract_content).                                                      *)
LEMMA ClassifyStep ==
  ASSUME ReadInv, Classify
  PROVE  ReadInv' /\ LanguageCovers' /\ warnings' \cap Blocking \subseteq reasons'
<1>1. /\ step = "read" /\ step' = "extracted"
      /\ UNCHANGED <<file, next, tesseract, blocks, cells, warnings>>
      /\ reasons' = (warnings \cap Blocking) \cup IF PlainText(blocks) = <<>> THEN {"no_text"} ELSE {}
      /\ language' = IF PlainText(blocks) = <<>> THEN "unknown" ELSE Overall(blocks)
  BY DEF Classify
<1>2. ReadTypes'
  <2>1. language' \in {"tr", "en", "mixed", "unknown"}
    BY <1>1, OverallCovers
  <2>2. reasons' \subseteq Blocking \cup {"no_text", "auditor_unavailable"}
    BY <1>1
  <2> QED BY <1>1, <2>1, <2>2 DEF ReadInv, ReadTypes
<1>3. WordsRead' /\ OrderKept'
  BY <1>1 DEF ReadInv, WordsRead, Told, OrderKept, BlocksInOrder
<1>4. LanguageCovers'
  <2> SUFFICES ASSUME language' \in {"tr", "en"}, NEW i \in DOMAIN blocks
               PROVE  LanguageOf(blocks[i].words) \in {language', "unknown"}
    BY <1>1 DEF LanguageCovers
  <2>1. language' = Overall(blocks)
    BY <1>1
  <2> QED BY <2>1, OverallCovers
<1> QED BY <1>1, <1>2, <1>3, <1>4 DEF ReadInv

(* What is masked, by the word.                                            *)

(* What may be found in a block: finitely many places of finitely many     *)
(* ranks, each from a word of it to a later one (Detection.spans).         *)
Finds == {c \in [from : Nat, to : Nat, rank : Nat] : c.from <= c.to}
LEMMA CandidatesAre ==
  ASSUME NEW b, Len(b.words) \in Nat, NEW always
  PROVE  /\ IsFiniteSet(Candidates(b, always)) /\ Candidates(b, always) \subseteq Finds
         /\ \A c \in Candidates(b, always) : c.from \in 1 .. Len(b.words) /\ c.to \in 1 .. Len(b.words)
<1> DEFINE n == Len(b.words)
           all == [from : 1 .. n, to : 1 .. n, rank : Ranks]
           D == ((1 .. n) \X (1 .. n)) \X Ranks
           f == [p \in D |-> [from |-> p[1][1], to |-> p[1][2], rank |-> p[2]]]
<1>1. IsFiniteSet(1 .. n) /\ IsFiniteSet(Ranks)
  BY FS_Interval, RanksAssumption
<1>2. IsFiniteSet((1 .. n) \X (1 .. n))
  BY <1>1, FS_Product
<1>3. IsFiniteSet(D)
  BY <1>1, <1>2, FS_Product
<1>4. IsFiniteSet({f[p] : p \in D})
  <2>1. DOMAIN f = D
    OBVIOUS
  <2> HIDE DEF f, D
  <2> QED BY <1>3, <2>1, FiniteImage
<1>5. all \subseteq {f[p] : p \in D}
  <2> SUFFICES ASSUME NEW c \in all  PROVE \E p \in D : f[p] = c
    OBVIOUS
  <2> DEFINE p == <<<<c.from, c.to>>, c.rank>>
  <2>1. p \in D
    OBVIOUS
  <2>2. f[p] = [from |-> c.from, to |-> c.to, rank |-> c.rank]
    BY <2>1
  <2> QED BY <2>1, <2>2
<1>6. IsFiniteSet(all)
  <2> HIDE DEF all, f, D
  <2> QED BY <1>4, <1>5, FS_Subset
<1>7. Candidates(b, always) \subseteq all
  BY DEF Candidates
<1>8. \A c \in Candidates(b, always) : c.from <= c.to
  <2> TAKE c \in Candidates(b, always)
  <2>1. PICK t : [from |-> c.from, to |-> c.to] \in Spans(b, t)
    BY DEF Candidates
  <2>2. [from |-> c.from, to |-> c.to] \in Ranges(n)
    BY <2>1 DEF Spans
  <2> QED BY <2>2 DEF Ranges
<1>9. \A c \in Candidates(b, always) : /\ c \in [from : Nat, to : Nat, rank : Nat]
                                       /\ c.from \in 1 .. n /\ c.to \in 1 .. n
  <2> TAKE c \in Candidates(b, always)
  <2>1. /\ c.from \in 1 .. n /\ c.to \in 1 .. n /\ c.rank \in Ranks
        /\ c = [from |-> c.from, to |-> c.to, rank |-> c.rank]
    BY <1>7
  <2> HIDE DEF n
  <2> QED BY <2>1, RanksAssumption
<1> QED BY <1>6, <1>7, <1>8, <1>9, FS_Subset DEF Finds

(* Every candidate has its turn (the sort of resolve_spans).               *)
LEMMA TurnsAre ==
  ASSUME NEW C, IsFiniteSet(C), C \subseteq Finds
  PROVE  /\ Cardinality(C) \in Nat
         /\ \A k \in 1 .. Cardinality(C) : Turn(C, k) \in C
         /\ \A c \in C : \E k \in 1 .. Cardinality(C) : Turn(C, k) = c
<1> DEFINE L == {p \in C \X C : Before(p[1], p[2])}
           n == Cardinality(C)
           Prior(c) == {d \in C : Before(d, c)}
<1>1. \A a, b \in C : <<a, b>> \in L <=> Before(a, b)
  OBVIOUS
<1>2. \A c \in C : /\ c.from \in Nat /\ c.to \in Nat /\ c.rank \in Nat
                   /\ c = [from |-> c.from, to |-> c.to, rank |-> c.rank]
  BY DEF Finds
<1>3. /\ \A a \in C : ~Before(a, a)
      /\ \A a, b, c \in C : Before(a, b) /\ Before(b, c) => Before(a, c)
      /\ \A a, b \in C : a = b \/ Before(a, b) \/ Before(b, a)
  <2>1. \A a \in C : ~Before(a, a)
    BY <1>2 DEF Before
  <2>2. \A a, b, c \in C : Before(a, b) /\ Before(b, c) => Before(a, c)
    BY <1>2 DEF Before
  <2>3. ASSUME NEW a \in C, NEW b \in C, ~Before(a, b), ~Before(b, a)  PROVE a = b
    <3>1. a.rank = b.rank /\ a.to - a.from = b.to - b.from /\ a.from = b.from
      BY <1>2, <2>3 DEF Before
    <3>2. a.to = b.to
      BY <1>2, <3>1
    <3> QED BY <1>2, <3>1, <3>2
  <2> QED BY <2>1, <2>2, <2>3
<1> HIDE DEF L
<1>4. \A c \in C : Rank(C, L, c) = Cardinality(Prior(c)) + 1
  <2> TAKE c \in C
  <2>1. {d \in C : <<d, c>> \in L} = Prior(c)
    BY <1>1
  <2> QED BY <2>1 DEF Rank
<1>5. n \in Nat /\ \A c \in C : Cardinality(Prior(c)) \in Nat
  BY FS_CardinalityType, FS_Subset
<1>6. /\ \A a \in C : Rank(C, L, a) \in 1 .. n
      /\ \A a, b \in C : <<a, b>> \in L <=> Rank(C, L, a) < Rank(C, L, b)
      /\ \A k \in 1 .. n : \E a \in C : Rank(C, L, a) = k
  BY <1>1, <1>3, RanksTell
<1> HIDE DEF n
<1>7. \A k \in 1 .. n : Turn(C, k) \in C /\ Rank(C, L, Turn(C, k)) = k
  <2> TAKE k \in 1 .. n
  <2>1. \E c \in C : Cardinality(Prior(c)) = k - 1
    BY <1>4, <1>5, <1>6
  <2>2. Turn(C, k) \in C /\ Cardinality(Prior(Turn(C, k))) = k - 1
    BY <2>1 DEF Turn
  <2> DEFINE x == Turn(C, k)
  <2>3. Rank(C, L, x) = Cardinality(Prior(x)) + 1
    BY <1>4, <2>2
  <2> HIDE DEF x
  <2> QED BY <1>5, <2>2, <2>3 DEF x
<1>8. \A c \in C : \E k \in 1 .. n : Turn(C, k) = c
  <2> TAKE c \in C
  <2> DEFINE k == Rank(C, L, c)
  <2>1. k \in 1 .. n /\ k \in Int
    BY <1>5, <1>6
  <2> HIDE DEF k
  <2>2. Turn(C, k) \in C /\ Rank(C, L, Turn(C, k)) = k
    BY <1>7, <2>1
  <2>3. ~(Rank(C, L, Turn(C, k)) < Rank(C, L, c)) /\ ~(Rank(C, L, c) < Rank(C, L, Turn(C, k)))
    BY <2>1, <2>2 DEF k
  <2>4. Turn(C, k) = c
    BY <1>1, <1>3, <1>6, <2>2, <2>3
  <2> QED BY <2>1, <2>4
<1> QED BY <1>5, <1>7, <1>8 DEF n

(* One find taken: it is answered, and so is what was answered before;     *)
(* every mask has the place of a find (the loop of resolve_spans).         *)
Placed(A, C) == \A a \in A : \E c \in C : c.from = a.from /\ c.to = a.to
LEMMA TakeHolds ==
  ASSUME NEW A, A \subseteq Finds, NEW c \in Finds
  PROVE  /\ Take(A, c) \subseteq Finds
         /\ \E a \in Take(A, c) : Answers(a, c)
         /\ \A d \in Finds : (\E a \in A : Answers(a, d)) => \E a \in Take(A, c) : Answers(a, d)
         /\ \A C : c \in C /\ Placed(A, C) => Placed(Take(A, c), C)
<1> DEFINE Grown(a) == IF Within(a, c) THEN [a EXCEPT !.from = c.from, !.to = c.to] ELSE a
<1>1. \A a \in Finds : /\ a.from \in Nat /\ a.to \in Nat /\ a.from <= a.to
                       /\ a \in [from : Nat, to : Nat, rank : Nat]
  BY DEF Finds
<1>2. \A a \in A : /\ Grown(a) \in Finds
                   /\ Within(a, c) => Grown(a).from = c.from /\ Grown(a).to = c.to
                   /\ ~Within(a, c) => Grown(a) = a
  BY <1>1 DEF Finds
<1>3. CASE \E a \in A : Meets(a, c)
  <2>1. Take(A, c) = {Grown(a) : a \in A}
    BY <1>3 DEF Take
  <2> HIDE DEF Grown
  <2>2. Take(A, c) \subseteq Finds
    BY <1>2, <2>1
  <2>3. \E a \in Take(A, c) : Answers(a, c)
    <3>1. PICK a \in A : Meets(a, c)
      BY <1>3
    <3>2. Answers(Grown(a), c)
      BY <1>1, <1>2, <3>1 DEF Answers, Meets, Within
    <3> QED BY <2>1, <3>2
  <2>4. ASSUME NEW d \in Finds, NEW a \in A, Answers(a, d)  PROVE \E e \in Take(A, c) : Answers(e, d)
    <3>1. Answers(Grown(a), d)
      BY <1>1, <1>2, <2>4 DEF Answers, Meets, Within
    <3> QED BY <2>1, <3>1
  <2>5. ASSUME NEW C, c \in C, Placed(A, C)  PROVE Placed(Take(A, c), C)
    BY <1>2, <2>1, <2>5 DEF Placed
  <2> QED BY <2>2, <2>3, <2>4, <2>5
<1>4. CASE ~\E a \in A : Meets(a, c)
  <2>1. Take(A, c) = A \cup {c}
    BY <1>4 DEF Take
  <2>2. Answers(c, c)
    BY <1>1 DEF Answers, Meets, Within
  <2> QED BY <2>1, <2>2 DEF Placed
<1> QED BY <1>3, <1>4

(* Every candidate is answered by a mask, and every mask has the place of  *)
(* a candidate (resolve_spans).                                            *)
LEMMA AcceptedHolds ==
  ASSUME NEW C, IsFiniteSet(C), C \subseteq Finds
  PROVE  /\ \A c \in C : \E a \in Accepted(C) : Answers(a, c)
         /\ Placed(Accepted(C), C)
<1> DEFINE n == Cardinality(C)
           Next1(A, k) == Take(A, Turn(C, k))
           Solves(g, m) == g = [k \in 0 .. m |-> IF k = 0 THEN {} ELSE Next1(g[k - 1], k)]
           T == {m \in Nat : \E g : Solves(g, m)}
<1>0. /\ n \in Nat
      /\ \A k \in 1 .. n : Turn(C, k) \in C
      /\ \A c \in C : \E k \in 1 .. n : Turn(C, k) = c
  BY TurnsAre
<1> HIDE DEF n, Next1
<1>1. 0 \in T
  <2>1. Solves([k \in 0 .. 0 |-> {}], 0)
    OBVIOUS
  <2> QED BY <2>1
<1>2. ASSUME NEW m \in Nat, m \in T  PROVE m + 1 \in T
  <2>1. PICK g : Solves(g, m)
    BY <1>2
  <2> DEFINE h == [k \in 0 .. m + 1 |-> IF k = m + 1 THEN Next1(g[m], m + 1) ELSE g[k]]
  <2>2. \A k \in 0 .. m + 1 : h[k] = IF k = 0 THEN {} ELSE Next1(h[k - 1], k)
    <3> TAKE k \in 0 .. m + 1
    <3>1. CASE k = m + 1
      <4>1. h[k] = Next1(g[m], m + 1) /\ h[k - 1] = g[m] /\ k # 0
        BY <3>1
      <4> QED BY <3>1, <4>1
    <3>2. CASE k \in 0 .. m /\ k # m + 1
      <4>1. g[k] = IF k = 0 THEN {} ELSE Next1(g[k - 1], k)
        BY <2>1, <3>2
      <4>2. h[k] = g[k] /\ (k # 0 => h[k - 1] = g[k - 1])
        BY <3>2
      <4> QED BY <4>1, <4>2
    <3> QED BY <3>1, <3>2
  <2>3. Solves(h, m + 1)
    BY <2>2
  <2> HIDE DEF h, Solves
  <2>4. m + 1 \in Nat
    OBVIOUS
  <2> QED BY <2>3, <2>4
<1>3. \E g : Solves(g, n)
  <2>1. n \in T
    <3> HIDE DEF T
    <3> QED BY <1>0, <1>1, <1>2, Upwards
  <2> QED BY <2>1
<1> DEFINE f == CHOOSE g : Solves(g, n)
<1>4. Solves(f, n)
  BY <1>3
<1>5. Accepted(C) = f[n]
  BY DEF Accepted, n, Next1
<1> HIDE DEF f
<1>6. f[0] = {} /\ \A k \in 1 .. n : f[k] = Next1(f[k - 1], k)
  <2>1. \A k \in 0 .. n : f[k] = IF k = 0 THEN {} ELSE Next1(f[k - 1], k)
    BY <1>4
  <2>2. 0 \in 0 .. n /\ \A k \in 1 .. n : k \in 0 .. n /\ k # 0
    BY <1>0
  <2> QED BY <2>1, <2>2
<1> DEFINE Good(k) == /\ f[k] \subseteq Finds /\ Placed(f[k], C)
                      /\ \A j \in 1 .. k : \E a \in f[k] : Answers(a, Turn(C, j))
           U == {k \in Nat : k <= n => Good(k)}
<1>7. 0 \in U
  BY <1>6 DEF Placed
<1>8. ASSUME NEW k \in Nat, k \in U  PROVE k + 1 \in U
  <2> SUFFICES ASSUME k + 1 <= n  PROVE Good(k + 1)
    OBVIOUS
  <2>1. Good(k) /\ k + 1 \in 1 .. n /\ f[k + 1] = Next1(f[k], k + 1)
    <3> DEFINE i == k + 1
    <3>1. i \in 1 .. n /\ i - 1 = k
      BY <1>0
    <3> HIDE DEF i
    <3>2. f[i] = Next1(f[k], i)
      BY <1>6, <3>1
    <3> QED BY <1>0, <1>8, <3>1, <3>2 DEF i
  <2> DEFINE c == Turn(C, k + 1)
             B == Take(f[k], c)
  <2>2. c \in C /\ c \in Finds /\ f[k + 1] = B
    BY <1>0, <2>1 DEF Next1
  <2>3. \A j \in 1 .. k : Turn(C, j) \in Finds /\ \E a \in f[k] : Answers(a, Turn(C, j))
    BY <1>0, <2>1
  <2> HIDE DEF c
  <2>4. /\ B \subseteq Finds /\ \E a \in B : Answers(a, c)
        /\ \A d \in Finds : (\E a \in f[k] : Answers(a, d)) => \E a \in B : Answers(a, d)
        /\ Placed(B, C)
    BY <2>1, <2>2, TakeHolds
  <2> HIDE DEF B
  <2>5. \A j \in 1 .. k + 1 : \E a \in B : Answers(a, Turn(C, j))
    <3> TAKE j \in 1 .. k + 1
    <3>1. j \in 1 .. k \/ j = k + 1
      OBVIOUS
    <3> QED BY <2>3, <2>4, <3>1 DEF c
  <2> QED BY <2>2, <2>4, <2>5
<1>9. Good(n)
  <2>1. Nat \subseteq U
    <3> HIDE DEF U
    <3> QED BY <1>7, <1>8, Upwards
  <2> HIDE DEF Good
  <2> QED BY <1>0, <2>1
<1> QED BY <1>0, <1>5, <1>9

(* More always-mask terms are more candidates: what they find stays found, *)
(* and the never-mask list lets go of less (Engine._detection).            *)
LEMMA CandidatesGrow ==
  ASSUME NEW b, NEW d, NEW e, d \subseteq e
  PROVE  Candidates(b, d) \subseteq Candidates(b, e)
<1>1. Patterns(d) \subseteq Patterns(e)
  BY DEF Patterns
<1>2. \A c : Vouched(b, e, c) => Vouched(b, d, c)
  BY DEF Vouched, Allowed
<1> QED BY <1>1, <1>2 DEF Candidates

(* The masks of the blocks: every candidate is answered, every mask has    *)
(* the place of one.                                                       *)
LEMMA MasksHold ==
  ASSUME blocks \in Seq(Blocks), NEW d, NEW i \in DOMAIN blocks
  PROVE  /\ DOMAIN MasksOf(d) = DOMAIN blocks
         /\ \A c \in Candidates(blocks[i], d) : \E m \in MasksOf(d)[i] : Answers(m, c)
         /\ \A m \in MasksOf(d)[i] : /\ m.from \in 1 .. Len(blocks[i].words)
                                     /\ m.to \in 1 .. Len(blocks[i].words)
                                     /\ Answers(m, m)
                                     /\ \E c \in Candidates(blocks[i], d) : c.from = m.from /\ c.to = m.to
<1> DEFINE b == blocks[i]
           C == Candidates(b, d)
<1>1. b \in Blocks /\ Len(b.words) \in Nat
  <2>1. b \in Blocks
    OBVIOUS
  <2> QED BY <2>1 DEF Blocks
<1>2. DOMAIN MasksOf(d) = DOMAIN blocks /\ MasksOf(d)[i] = Accepted(C)
  BY DEF MasksOf
<1>3. /\ IsFiniteSet(C) /\ C \subseteq Finds
      /\ \A c \in C : c.from \in 1 .. Len(b.words) /\ c.to \in 1 .. Len(b.words)
  BY <1>1, CandidatesAre
<1>4. (\A c \in C : \E a \in Accepted(C) : Answers(a, c)) /\ Placed(Accepted(C), C)
  BY <1>3, AcceptedHolds
<1>5. ASSUME NEW m \in Accepted(C)
      PROVE  /\ m.from \in 1 .. Len(b.words) /\ m.to \in 1 .. Len(b.words) /\ Answers(m, m)
             /\ \E c \in C : c.from = m.from /\ c.to = m.to
  <2>1. PICK c \in C : c.from = m.from /\ c.to = m.to
    BY <1>4 DEF Placed
  <2>2. c.from \in Nat /\ c.to \in Nat /\ c.from <= c.to
    BY <1>3 DEF Finds
  <2> QED BY <1>3, <2>1, <2>2 DEF Answers, Meets, Within
<1> QED BY <1>2, <1>4, <1>5

(* A masked word is a placeholder.                                         *)
LEMMA MaskedStars ==
  ASSUME blocks \in Seq(Blocks), NEW d, NEW i \in DOMAIN blocks, NEW m \in MasksOf(d)[i], NEW k \in m.from .. m.to
  PROVE  Masked(MasksOf(d))[i].words[k] = Star
<1> DEFINE f == MasksOf(d)
           b == blocks[i]
           places == Hidden(b, f[i], Surfaces(f))
<1>1. b \in Blocks
  OBVIOUS
<1>2. b.words \in Seq(AllWords) /\ DOMAIN b.words = 1 .. Len(b.words) /\ Len(b.words) \in Nat
  BY <1>1 DEF Blocks
<1>3. m.from \in 1 .. Len(b.words) /\ m.to \in 1 .. Len(b.words)
  BY MasksHold
<1>4. k \in DOMAIN b.words
  BY <1>2, <1>3
<1>5. k \in places
  BY <1>4 DEF Hidden
<1>6. Masked(f)[i] = Starred(b, places)
  BY DEF Masked
<1> HIDE DEF places, f
<1>7. Starred(b, places).words = [j \in DOMAIN b.words |-> IF j \in places THEN Star ELSE b.words[j]]
  BY <1>1 DEF Starred, Blocks
<1> QED BY <1>4, <1>5, <1>6, <1>7 DEF f

(* The masks follow from the blocks, what the engine knows and the lists.  *)
LEMMA MasksStay ==
  ASSUME UNCHANGED <<blocks, known, never>>, NEW d
  PROVE  MasksOf(d)' = MasksOf(d)
<1>1. \A b : Candidates(b, d)' = Candidates(b, d)
  BY DEF Candidates, Patterns, Vouched, Allowed
<1> QED BY <1>1 DEF MasksOf

(* The invariant of the pipeline.  What is masked was read to its end; the *)
(* remarks that block are reasons; the masks are those of the always-mask  *)
(* list from the audit on, and of no more than it before; what they hold   *)
(* is hidden.                                                              *)
FlowTypes ==
  /\ settings \in Settings
  /\ llm \in {"none", "ollama"} /\ contacted \in BOOLEAN
  /\ status \in {"queued", "masking", "auditing", "audited",
                 "rejected", "failed", "needs_human_review", "approved"}
  /\ round \in 0 .. settings.rounds /\ (status \in {"queued", "masking"} => round < settings.rounds)
  /\ status = "queued" => round = 0

Settled ==
  /\ status # "queued" => step \in {"extracted", "refused", "failed"}
  /\ status \in {"masking", "auditing", "audited", "approved"} => step = "extracted"
  /\ step = "extracted" => LanguageCovers /\ warnings \cap Blocking \subseteq reasons
  /\ status = "approved" => reasons = {}

Veiled ==
  /\ repairs \subseteq deny
  /\ round = 0 => masks = <<>>
  /\ round > 0 => /\ step = "extracted"
                  /\ \E d \in SUBSET deny : masks = MasksOf(d) /\ (status # "masking" => d = deny)
                  /\ \A i \in DOMAIN masks : \A m \in masks[i] : \A k \in m.from .. m.to : shown[i].words[k] = Star

ReadingInv == ReadInv /\ FlowTypes /\ Settled /\ Veiled

(* What is masked stays as it is until the next round.                     *)
LEMMA VeiledKept ==
  ASSUME Veiled, UNCHANGED <<blocks, known, never, deny, repairs, masks, shown, round, step>>,
         status' = "masking" \/ status # "masking"
  PROVE  Veiled'
<1>1. CASE round = 0
  BY <1>1 DEF Veiled
<1>2. CASE round # 0
  <2>1. repairs' \subseteq deny' /\ round' # 0
    BY <1>2 DEF Veiled
  <2> SUFFICES ASSUME round > 0
               PROVE  /\ step' = "extracted"
                      /\ \E d \in SUBSET deny' : masks' = MasksOf(d)' /\ (status' # "masking" => d = deny')
                      /\ \A i \in DOMAIN masks' : \A m \in masks'[i] : \A k \in m.from .. m.to : shown'[i].words[k] = Star
    BY <2>1 DEF Veiled
  <2>2. PICK d \in SUBSET deny : masks = MasksOf(d) /\ (status # "masking" => d = deny)
    BY DEF Veiled
  <2>3. MasksOf(d)' = MasksOf(d)
    BY MasksStay
  <2>4. d \in SUBSET deny' /\ masks' = MasksOf(d)' /\ (status' # "masking" => d = deny')
    BY <2>2, <2>3
  <2> QED BY <2>4 DEF Veiled
<1> QED BY <1>1, <1>2

(* An action of the reader, before anything is masked.                     *)
LEMMA ReaderKeeps ==
  ASSUME ReadingInv, ReadInv', UNCHANGED auditing, step \in {"none", "reading", "read"},
         step' = "extracted" => LanguageCovers' /\ warnings' \cap Blocking \subseteq reasons'
  PROVE  ReadingInv'
<1>1. FlowTypes'
  BY DEF ReadingInv, FlowTypes, auditing
<1>2. status = "queued" /\ round = 0
  BY DEF ReadingInv, FlowTypes, Settled
<1>3. Settled'
  BY <1>2 DEF Settled, auditing
<1>4. Veiled'
  BY <1>2 DEF ReadingInv, Veiled, auditing
<1> QED BY <1>1, <1>3, <1>4 DEF ReadingInv

(* What the reader does keeps the invariant.                               *)
LEMMA ExtractionStep ==
  ASSUME ReadingInv, ExtractionWork \/ ParserFails, UNCHANGED auditing
  PROVE  ReadingInv'
<1>0. ReadInv
  BY DEF ReadingInv
<1>1. ASSUME NEW f \in Files, Receive(f)  PROVE ReadingInv'
  BY <1>0, <1>1, ReceiveStep, ReaderKeeps DEF Receive
<1>2. CASE ReadPage
  BY <1>0, <1>2, PageStep, ReaderKeeps DEF ReadPage
<1>3. CASE PagesEnd
  BY <1>0, <1>3, PagesEndStep, ReaderKeeps DEF PagesEnd
<1>4. CASE ReadSheet
  BY <1>0, <1>4, SheetStep, ReaderKeeps DEF ReadSheet
<1>5. CASE ReadComments
  BY <1>0, <1>5, CommentsStep, ReaderKeeps DEF ReadComments
<1>6. CASE ReadDocx
  BY <1>0, <1>6, DocxStep, ReaderKeeps DEF ReadDocx
<1>7. CASE Classify
  BY <1>0, <1>7, ClassifyStep, ReaderKeeps DEF Classify
<1>8. CASE ParserFails
  BY <1>0, <1>8, FailsStep, ReaderKeeps DEF ParserFails
<1> QED BY <1>1, <1>2, <1>3, <1>4, <1>5, <1>6, <1>7, <1>8 DEF ExtractionWork

(* An action of the pipeline leaves what was read as it is.                *)
LEMMA ReadKept ==
  ASSUME ReadInv, UNCHANGED <<file, step, next, tesseract, blocks, cells, warnings, language>>,
         reasons' = reasons \/ reasons' = reasons \cup {"auditor_unavailable"}
  PROVE  ReadInv'
<1>1. ReadTypes'
  BY DEF ReadInv, ReadTypes
<1>2. WordsRead' /\ OrderKept'
  BY DEF ReadInv, WordsRead, Told, OrderKept, BlocksInOrder
<1> QED BY <1>1, <1>2 DEF ReadInv

(* An audit ends the rounds, or adds what was reported to what is masked.  *)
LEMMA AuditTermsKept ==
  ASSUME Audit
  PROVE  /\ status = "auditing"
         /\ \/ status' = "audited" /\ repairs' = repairs /\ deny' = deny
            \/ /\ status' = "masking" /\ round # settings.rounds
               /\ \E terms : repairs' = repairs \cup terms /\ deny' = deny \cup terms
         /\ UNCHANGED extraction
         /\ UNCHANGED <<known, never, settings, llm, contacted, round, pending, masks, shown, context>>
<1> DEFINE text == PlainText(shown)
           h == Heuristic(text)
           heuristicOnly == IF Required THEN FailClosed ELSE h
           Result(v) == IF llm = "ollama" THEN Combined(h, Heard(v)) ELSE heuristicOnly
<1>1. PICK v \in IF llm = "ollama" THEN Verdicts ELSE {Silence} :
        IF Clean(Result(v)) \/ round = settings.rounds
        THEN status' = "audited" /\ UNCHANGED <<repairs, deny>>
        ELSE status' = "masking" /\ Repair(Result(v))
  BY DEF Audit
<1>2. status = "auditing" /\ UNCHANGED extraction
      /\ UNCHANGED <<known, never, settings, llm, contacted, round, pending, masks, shown, context>>
  BY DEF Audit
<1> DEFINE result == Result(v)
<1> HIDE DEF Result
<1>3. CASE Clean(result) \/ round = settings.rounds
  BY <1>1, <1>2, <1>3
<1>4. CASE ~(Clean(result) \/ round = settings.rounds)
  <2>1. status' = "masking" /\ repairs' = repairs \cup result.terms /\ deny' = deny \cup result.terms
    BY <1>1, <1>4 DEF Repair
  <2> QED BY <1>2, <1>4, <2>1
<1> QED BY <1>3, <1>4

(* The routing approves only without a reason, and masks nothing (route).  *)
LEMMA RouteStep ==
  ASSUME ReadingInv, Route
  PROVE  ReadingInv'
<1>1. /\ status = "audited" /\ UNCHANGED <<file, step, next, tesseract, blocks, cells, warnings, language>>
      /\ UNCHANGED <<known, never, settings, llm, contacted, round, deny, repairs, audit, audited, heard,
                     masks, shown>>
      /\ reasons' = reasons \cup IF audit.llm_ok = "answered" THEN {} ELSE {"auditor_unavailable"}
      /\ status' = IF MayApprove THEN "approved" ELSE "needs_human_review"
      /\ context' = IF MayApprove THEN PlainText(shown) ELSE context
  BY DEF Route
<1>2. ReadInv /\ FlowTypes /\ Settled /\ Veiled /\ step = "extracted" /\ blocks \in Seq(Blocks)
  BY <1>1 DEF ReadingInv, Settled, ReadInv, ReadTypes
<1>3. ReadInv'
  BY <1>1, <1>2, ReadKept
<1>6. FlowTypes'
  BY <1>1, <1>2 DEF FlowTypes
<1>7. Settled'
  <2>1. status' = "approved" => reasons' = {}
    BY <1>1 DEF MayApprove
  <2>2. LanguageCovers' /\ warnings' \cap Blocking \subseteq reasons'
    BY <1>1, <1>2 DEF Settled, LanguageCovers
  <2> QED BY <1>1, <1>2, <2>1, <2>2 DEF Settled
<1>8. Veiled'
  BY <1>1, <1>2, VeiledKept
<1> QED BY <1>3, <1>6, <1>7, <1>8 DEF ReadingInv

(* The other actions of the pipeline.                                      *)
LEMMA PipelineStep ==
  ASSUME ReadingInv, Rejected \/ NothingToMask \/ BuildAuditor \/ Mask \/ Audit \/ AuditBreaks
  PROVE  ReadingInv'
<1>1. UNCHANGED <<extraction, known, never, settings>>
  BY AuditTermsKept DEF Rejected, NothingToMask, BuildAuditor, Mask, AuditBreaks
<1>2. ReadInv /\ FlowTypes /\ Settled /\ Veiled
  BY DEF ReadingInv
<1>3. ReadInv'
  BY <1>1, <1>2, ReadKept DEF extraction
<1>4. Settled' <=> /\ status' # "queued" => step \in {"extracted", "refused", "failed"}
                   /\ status' \in {"masking", "auditing", "audited", "approved"} => step = "extracted"
                   /\ status' = "approved" => reasons = {}
  BY <1>1, <1>2 DEF Settled, LanguageCovers, extraction
<1> DEFINE Kept == UNCHANGED <<deny, repairs, masks, shown, round>>
<1>6. ASSUME Kept, status' = "masking" \/ status # "masking"  PROVE Veiled'
  BY <1>1, <1>2, <1>6, VeiledKept DEF extraction
<1>7. CASE Rejected
  <2>1. Kept /\ status = "queued" /\ status' \in {"rejected", "failed"} /\ step \in {"refused", "failed"}
        /\ UNCHANGED <<llm, contacted>>
    BY <1>7 DEF Rejected
  <2> QED BY <1>1, <1>2, <1>3, <1>4, <1>6, <2>1 DEF ReadingInv, FlowTypes
<1>8. CASE NothingToMask
  <2>1. Kept /\ status = "queued" /\ status' = "needs_human_review" /\ step = "extracted"
        /\ UNCHANGED <<llm, contacted>>
    BY <1>8 DEF NothingToMask
  <2> QED BY <1>1, <1>2, <1>3, <1>4, <1>6, <2>1 DEF ReadingInv, FlowTypes
<1>9. CASE BuildAuditor
  <2>1. Kept /\ status = "queued" /\ status' = "masking" /\ step = "extracted"
        /\ llm' \in {"none", "ollama", llm} /\ contacted' \in {TRUE, contacted}
    BY <1>9 DEF BuildAuditor
  <2> QED BY <1>1, <1>2, <1>3, <1>4, <1>6, <2>1 DEF ReadingInv, FlowTypes
<1>10. CASE Mask
  <2>1. /\ status = "masking" /\ status' = "auditing" /\ round' = round + 1
        /\ masks' = MasksOf(deny) /\ shown' = Masked(masks')
        /\ UNCHANGED <<llm, contacted, deny, repairs>>
    BY <1>10 DEF Mask
  <2>2. step = "extracted"
    BY <1>2, <2>1 DEF Settled
  <2>3. FlowTypes'
    <3>1. settings.rounds \in 1 .. 2
      BY <1>2, SettingsAssumption DEF FlowTypes
    <3> QED BY <1>1, <1>2, <2>1, <3>1 DEF FlowTypes
  <2>4. Veiled'
    <3>1. repairs' \subseteq deny' /\ step' = "extracted" /\ round' # 0
      <4>1. round \in Nat
        BY <1>2, SettingsAssumption DEF FlowTypes
      <4> QED BY <1>1, <1>2, <2>1, <2>2, <4>1 DEF Veiled, extraction
    <3> DEFINE f == MasksOf(deny)
    <3>2. blocks \in Seq(Blocks) /\ masks' = f /\ shown' = Masked(f)
      BY <1>2, <2>1 DEF ReadInv, ReadTypes
    <3>3. PICK d : d = deny
      OBVIOUS
    <3>4. d \in SUBSET deny' /\ masks' = MasksOf(d)' /\ d = deny'
      BY <1>1, <2>1, <3>2, <3>3, MasksStay DEF extraction
    <3>5. DOMAIN f = DOMAIN blocks
      BY DEF MasksOf
    <3>6. \A i \in DOMAIN blocks : \A m \in f[i] : \A k \in m.from .. m.to : Masked(f)[i].words[k] = Star
      BY <3>2, MaskedStars
    <3> HIDE DEF f
    <3>7. \A i \in DOMAIN masks' : \A m \in masks'[i] : \A k \in m.from .. m.to : shown'[i].words[k] = Star
      BY <3>2, <3>5, <3>6
    <3> QED BY <3>1, <3>4, <3>7 DEF Veiled
  <2> QED BY <1>3, <1>4, <2>1, <2>2, <2>3, <2>4 DEF ReadingInv
<1>11. CASE Audit
  <2>1. /\ status = "auditing"
        /\ \/ status' = "audited" /\ repairs' = repairs /\ deny' = deny
           \/ /\ status' = "masking" /\ round # settings.rounds
              /\ \E terms : repairs' = repairs \cup terms /\ deny' = deny \cup terms
        /\ UNCHANGED <<llm, contacted, round, masks, shown>>
    BY <1>11, AuditTermsKept
  <2>2. step = "extracted"
    BY <1>2, <2>1 DEF Settled
  <2>3. FlowTypes'
    <3>1. settings.rounds \in 1 .. 2
      BY <1>2, SettingsAssumption DEF FlowTypes
    <3> QED BY <1>1, <1>2, <2>1, <3>1 DEF FlowTypes
  <2>4. Veiled'
    <3>1. CASE status' = "audited" /\ repairs' = repairs /\ deny' = deny
      BY <1>6, <2>1, <3>1
    <3>2. ASSUME status' = "masking", NEW terms, repairs' = repairs \cup terms, deny' = deny \cup terms
          PROVE  Veiled'
      <4>1. repairs' \subseteq deny' /\ deny \subseteq deny' /\ step' = "extracted" /\ (round' = 0 => masks' = <<>>)
        BY <1>1, <1>2, <2>1, <2>2, <3>2 DEF Veiled, extraction
      <4> SUFFICES ASSUME round' > 0
                   PROVE  /\ \E d \in SUBSET deny' : masks' = MasksOf(d)'
                          /\ \A i \in DOMAIN masks' : \A m \in masks'[i] : \A k \in m.from .. m.to : shown'[i].words[k] = Star
        BY <3>2, <4>1 DEF Veiled
      <4>2. PICK d \in SUBSET deny : masks = MasksOf(d)
        BY <1>2, <2>1 DEF Veiled
      <4>3. MasksOf(d)' = MasksOf(d)
        BY <1>1, MasksStay DEF extraction
      <4>4. d \in SUBSET deny' /\ masks' = MasksOf(d)'
        BY <2>1, <4>1, <4>2, <4>3
      <4> QED BY <1>2, <2>1, <4>4 DEF Veiled
    <3> QED BY <2>1, <3>1, <3>2
  <2> QED BY <1>3, <1>4, <2>1, <2>2, <2>3, <2>4 DEF ReadingInv
<1>12. CASE AuditBreaks
  <2>1. Kept /\ status = "auditing" /\ status' = "failed" /\ UNCHANGED <<llm, contacted>>
    BY <1>12 DEF AuditBreaks
  <2>2. step = "extracted"
    BY <1>2, <2>1 DEF Settled
  <2> QED BY <1>1, <1>2, <1>3, <1>4, <1>6, <2>1, <2>2 DEF ReadingInv, FlowTypes
<1> QED BY <1>7, <1>8, <1>9, <1>10, <1>11, <1>12

(* The invariant holds at the start, and every step keeps it.              *)
LEMMA ReadingInvStarts == ReadingInit => ReadingInv
<1> SUFFICES ASSUME ReadingInit  PROVE ReadingInv
  OBVIOUS
<1>1. ExtractionInit
  BY DEF ReadingInit
<1>2. ReadInv
  <2>1. blocks = <<>> /\ DOMAIN blocks = {} /\ step = "none" /\ next = 1 /\ blocks \in Seq(Blocks)
    BY <1>1, EmptySeq DEF ExtractionInit
  <2>2. cells \in 0 .. MaxCells
    BY <1>1, LimitsAssumption DEF ExtractionInit
  <2>3. ReadTypes
    BY <1>1, <2>1, <2>2 DEF ExtractionInit, ReadTypes
  <2> QED BY <2>1, <2>3 DEF ReadInv, WordsRead, OrderKept, BlocksInOrder
<1>3. FlowTypes
  <2>1. settings \in Settings /\ settings.rounds \in 1 .. 2 /\ round = 0
    BY SettingsAssumption DEF ReadingInit
  <2>2. round \in 0 .. settings.rounds /\ round < settings.rounds
    BY <2>1
  <2> QED BY <2>1, <2>2 DEF ReadingInit, FlowTypes
<1>4. Settled /\ Veiled
  BY <1>1 DEF ReadingInit, ExtractionInit, Settled, Veiled
<1> QED BY <1>2, <1>3, <1>4 DEF ReadingInv

LEMMA ReadingInvKept == ReadingInv /\ [Next]_vars => ReadingInv'
<1> SUFFICES ASSUME ReadingInv, [Next]_vars  PROVE ReadingInv'
  OBVIOUS
<1>1. CASE UNCHANGED vars
  <2>1. UNCHANGED extraction /\ UNCHANGED auditing
    BY <1>1 DEF vars
  <2>2. ReadInv' /\ FlowTypes' /\ Settled'
    BY <2>1, ReadKept DEF extraction, auditing, ReadingInv, FlowTypes, Settled, LanguageCovers
  <2>3. Veiled /\ UNCHANGED <<blocks, known, never, deny, repairs, masks, shown, round, step, status>>
    BY <2>1 DEF extraction, auditing, ReadingInv
  <2>4. Veiled'
    BY <2>3, VeiledKept
  <2> QED BY <2>2, <2>4 DEF ReadingInv
<1>2. CASE ExtractionWork /\ UNCHANGED auditing
  BY <1>2, ExtractionStep
<1>3. CASE ParserFails /\ UNCHANGED auditing
  BY <1>3, ExtractionStep
<1>4. CASE Rejected \/ NothingToMask \/ BuildAuditor \/ Mask \/ Audit \/ AuditBreaks
  BY <1>4, PipelineStep
<1>5. CASE Route
  BY <1>5, RouteStep
<1> QED BY <1>1, <1>2, <1>3, <1>4, <1>5 DEF Next, Work

(* The invariant holds of every document.                                  *)
THEOREM ReadingSound == Spec => []ReadingInv
BY ReadingInvStarts, ReadingInvKept, PTL DEF Spec

(* Whatever the uploads hold: the blocks come in the order of the file     *)
(* under names of their own, an approved document holds every word there   *)
(* was to read, and its language is the language of all its blocks         *)
(* (extractors, extract_content, detect_content_language).                 *)
THEOREM FileHeld == Spec => []BlocksHoldTheFile
<1>1. ReadingInv => BlocksHoldTheFile
  <2> SUFFICES ASSUME ReadingInv  PROVE BlocksHoldTheFile
    OBVIOUS
  <2>1. ReadInv /\ ReadTypes /\ WordsRead /\ OrderKept /\ FlowTypes /\ Settled
    BY DEF ReadingInv, ReadInv
  <2>2. ReadingTypeOK
    <3>1. \A i \in DOMAIN blocks : blocks[i].what # "table" => blocks[i].words # <<>>
      <4>1. \A i \in DOMAIN blocks : blocks[i] \in Blocks
        BY <2>1 DEF ReadTypes
      <4> QED BY <4>1 DEF Blocks, Wordy
    <3> QED BY <2>1, <3>1 DEF ReadingTypeOK, ReadTypes, FlowTypes, Remarkable
  <2>3. ApprovedIsRead
    BY <2>1 DEF ApprovedIsRead, Settled, WordsRead, Told
  <2>4. BlocksInOrder
    BY <2>1 DEF OrderKept
  <2>5. LanguageCovers
    BY <2>1 DEF Settled, LanguageCovers
  <2> QED BY <2>2, <2>3, <2>4, <2>5 DEF BlocksHoldTheFile
<1> QED BY <1>1, ReadingSound, PTL

(* Wherever a term that was reported, or one of the always-mask list,      *)
(* stands in a document that was masked with it, a mask answers it, unless *)
(* a never-mask term holds it whole (Detection.spans, resolve_spans,       *)
(* Orchestrator.run).                                                      *)
THEOREM ReportsMasked == Spec => []ReportedIsMasked
<1>1. ReadingInv => ReportedIsMasked
  <2> SUFFICES ASSUME ReadingInv, round > 0, status # "masking",
                      NEW i \in DOMAIN blocks, NEW t \in deny \cup repairs, NEW r \in Spans(blocks[i], t),
                      ~LetGo(blocks[i], r)
               PROVE  \E m \in masks[i] : /\ Answers(m, r)
                                         /\ \A k \in m.from .. m.to : shown[i].words[k] = Star
    BY DEF ReportedIsMasked
  <2> DEFINE b == blocks[i]
             n == Len(b.words)
             c == [from |-> r.from, to |-> r.to, rank |-> DenyRank]
  <2>1. /\ blocks \in Seq(Blocks) /\ t \in deny /\ masks = MasksOf(deny)
        /\ \A j \in DOMAIN masks : \A m \in masks[j] : \A k \in m.from .. m.to : shown[j].words[k] = Star
    BY DEF ReadingInv, ReadInv, ReadTypes, Veiled
  <2>2. r \in [from : 1 .. n, to : 1 .. n]
    BY DEF Spans, Ranges
  <2>3. c \in [from : 1 .. n, to : 1 .. n, rank : Ranks] /\ [from |-> c.from, to |-> c.to] = r
    BY <2>2, RanksAssumption
  <2>4. [term |-> t, rank |-> DenyRank] \in Patterns(deny)
    BY <2>1 DEF Patterns
  <2>5. ~Vouched(b, deny, c)
    BY DEF Vouched, Allowed, LetGo, Within
  <2>6. c \in Candidates(b, deny)
    <3> DEFINE p == [term |-> t, rank |-> DenyRank]
    <3>1. p \in Patterns(deny) /\ p.rank = c.rank /\ p.term = t
      BY <2>4
    <3> HIDE DEF p, c
    <3> QED BY <2>3, <2>5, <3>1 DEF Candidates
  <2>7. PICK m \in masks[i] : Answers(m, c)
    BY <2>1, <2>6, MasksHold
  <2>8. Answers(m, r)
    BY <2>7 DEF Answers, Meets, Within
  <2>9. i \in DOMAIN masks
    BY <2>1, MasksHold
  <2> QED BY <2>1, <2>7, <2>8, <2>9
<1> QED BY <1>1, ReadingSound, PTL

(* A repair round drops no mask: it is masked again, or gives way to one   *)
(* that overlaps it and reaches beyond it (Orchestrator.run).              *)
THEOREM RepairsKeepMasks == Spec => RepairKeepsMasks
<1> DEFINE A == masks # <<>> => \A i \in DOMAIN masks : \A m \in masks[i] : \E n \in masks'[i] : Answers(n, m)
<1>1. ReadingInv /\ [Next]_vars => [A]_vars
  <2> SUFFICES ASSUME ReadingInv, [Next]_vars, masks # <<>>, NEW i \in DOMAIN masks, NEW m \in masks[i]
               PROVE  \E n \in masks'[i] : Answers(n, m)
    OBVIOUS
  <2>1. PICK d \in SUBSET deny : masks = MasksOf(d)
    <3>1. round > 0
      BY SettingsAssumption DEF ReadingInv, Veiled, FlowTypes
    <3> QED BY <3>1 DEF ReadingInv, Veiled
  <2>2. blocks \in Seq(Blocks) /\ i \in DOMAIN blocks
    BY <2>1 DEF MasksOf, ReadingInv, ReadInv, ReadTypes
  <2>3. /\ Answers(m, m)
        /\ \E c \in Candidates(blocks[i], d) : c.from = m.from /\ c.to = m.to
    BY <2>1, <2>2, MasksHold
  <2>4. CASE masks' = masks
    BY <2>3, <2>4
  <2>5. CASE Mask
    <3>1. masks' = MasksOf(deny)
      BY <2>5 DEF Mask
    <3>2. PICK c \in Candidates(blocks[i], deny) : c.from = m.from /\ c.to = m.to
      BY <2>3, CandidatesGrow
    <3>3. PICK n \in MasksOf(deny)[i] : Answers(n, c)
      BY <2>2, MasksHold
    <3>4. Answers(n, m)
      BY <3>2, <3>3 DEF Answers, Meets, Within
    <3> QED BY <3>1, <3>4
  <2>6. masks' = masks \/ Mask
    <3>1. CASE UNCHANGED vars \/ UNCHANGED auditing
      BY <3>1 DEF vars, auditing
    <3>2. CASE Work
      BY <3>2, AuditTermsKept DEF Work, auditing, Rejected, NothingToMask, BuildAuditor, AuditBreaks, Route
    <3> QED BY <3>1, <3>2 DEF Next
  <2> QED BY <2>4, <2>5, <2>6
<1>2. Spec => [][A]_vars
  BY <1>1, ReadingSound, PTL DEF Spec
<1> QED BY <1>2 DEF RepairKeepsMasks

(* Both.                                                                   *)
THEOREM RepairsDoHold == Spec => RepairsHold
<1>1. Spec => []ReportedIsMasked /\ RepairKeepsMasks
  BY ReportsMasked, RepairsKeepMasks, PTL
<1> QED BY <1>1 DEF RepairsHold
=============================================================================
