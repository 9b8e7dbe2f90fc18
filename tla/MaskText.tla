------------------------------ MODULE MaskText ------------------------------
(***************************************************************************)
(* What the masking passes of backend/app/anonymization share: entity      *)
(* types (types.py), the log of replacements of one text unit (spans.py),  *)
(* terms and their occurrences (lists.py), placeholders (placeholders.py)  *)
(* and the reviewer's forced masks (overrides.py).                         *)
(*                                                                         *)
(* A text is a sequence of symbols, a symbol a tuple: a letter or a sign   *)
(* such as <<"a">>, or one of the two halves of a placeholder, <<family,   *)
(* number, half>>.  Offsets count from 0, ranges <<s, e>> end before e, as *)
(* they do in the source.                                                  *)
(***************************************************************************)
EXTENDS Integers, Sequences, FiniteSets, SequencesExt, FiniteSetsExt

CONSTANTS Signs,    \* the signs a document is written in
          LowerOf   \* the capital letters, each with its small one

Symbols == {<<x>> : x \in Signs}

Space == <<" ">>
Break == <<"\n">>
Quote == <<"'">>
Stop  == <<".">>
IsSpace(c) == c \in {Space, Break}
IsLetter(c) == Len(c) = 1 /\ c[1] \in DOMAIN LowerOf \cup Range(LowerOf)
IsUpper(c) == Len(c) = 1 /\ c[1] \in DOMAIN LowerOf
Folded(c) == IF IsUpper(c) THEN <<LowerOf[c[1]]>> ELSE c

\* A set in the order of a relation, and of numbers; the parts of a sequence that
\* stand at the places of a set.
Ordered(S, L) ==
  [k \in 1..Cardinality(S) |-> CHOOSE x \in S : Cardinality({y \in S : <<y, x>> \in L}) = k - 1]
Ascending(S) == Ordered(S, {p \in S \X S : p[1] < p[2]})
Picked(seq, places) ==
  LET at == Ascending(places) IN [k \in DOMAIN at |-> seq[at[k]]]

Piece(text, r) == SubSeq(text, r[1] + 1, r[2])
Meets(q, r) == q[1] < r[2] /\ r[1] < q[2]
Within(r, q) == q[1] <= r[1] /\ r[2] <= q[2]
Places(r) == r[1]..(r[2] - 1)

\* str.split(): the words of a text, folded for comparison.
Words(text) ==
  LET solid == {i \in DOMAIN text : ~IsSpace(text[i])}
      starts == Ascending({i \in solid : i - 1 \notin solid})
      End(i) == Min({j \in solid : j >= i /\ j + 1 \notin solid})
  IN [k \in DOMAIN starts |-> SubSeq(text, starts[k], End(starts[k]))]

\* term_key, and what the placeholders compare: case and whitespace folded.
FoldedWords(words) == [k \in DOMAIN words |-> [i \in DOMAIN words[k] |-> Folded(words[k][i])]]
Key(text) == FoldedWords(Words(text))

----------------------------------------------------------------------------
(* types.py: the family, the trust tier and the passes of an entity type.  *)
(* A reviewer's mask has the type <<"USER", family>>.                      *)

TypeInfo(family, tier, adjacent, propagates, gated) ==
  [family |-> family, tier |-> tier, adjacent |-> adjacent,
   propagates |-> propagates, gated |-> gated]
Pattern(family, tier) == TypeInfo(family, tier, TRUE, TRUE, FALSE)
Ner(family, gated) == TypeInfo(family, 2, FALSE, FALSE, gated)
TYPES == [TR_IBAN |-> Pattern("IBAN", 0), TR_ACCOUNT |-> Pattern("ACCOUNT", 1),
          TR_ADDRESS |-> TypeInfo("LOCATION", 1, FALSE, TRUE, FALSE),
          TR_COMPANY |-> TypeInfo("ORG", 1, FALSE, TRUE, FALSE),
          PHONE_NUMBER |-> TypeInfo("PHONE", 1, FALSE, FALSE, FALSE),
          TR_PERSON_CTX |-> TypeInfo("PERSON", 1, FALSE, FALSE, FALSE),
          SENSITIVE |-> TypeInfo("SENSITIVE", 1, FALSE, FALSE, FALSE),
          PERSON |-> Ner("PERSON", TRUE), LOCATION |-> Ner("LOCATION", TRUE),
          DATE_TIME |-> Ner("DATE", FALSE)]
TypeNames == <<"DATE_TIME", "LOCATION", "PERSON", "PHONE_NUMBER", "SENSITIVE",
               "TR_ACCOUNT", "TR_ADDRESS", "TR_COMPANY", "TR_IBAN", "TR_PERSON_CTX", "USER">>

UserType(family) == <<"USER", family>>
Info(type) == IF type[1] = "USER" THEN TypeInfo(type[2], 0, FALSE, FALSE, FALSE)
              ELSE TYPES[type[1]]
Family(type) == Info(type).family
Families == {TYPES[n].family : n \in DOMAIN TYPES}

----------------------------------------------------------------------------
(* lists.py                                                                *)

\* Whitespace at the edges of a range does not count.
Stripped(text, r) ==
  LET solid == {i \in Places(r) : ~IsSpace(text[i + 1])}
  IN IF solid = {} THEN <<r[2], r[2]>> ELSE <<Min(solid), Max(solid) + 1>>

Contained(r, ranges) == \E q \in ranges : Within(r, q)
ContainedIn(text, r, ranges) == Contained(Stripped(text, r), ranges)

\* Left to right, an occurrence that meets the one before it is passed over.
Starting(ranges) == {p \in ranges \X ranges : \/ p[1][1] < p[2][1]
                                                \/ (p[1][1] = p[2][1] /\ p[1][2] < p[2][2])}
Finds(seq) ==
  LET kept[n \in 0..Len(seq)] ==
        IF n = 0 THEN {}
        ELSE IF \E q \in kept[n - 1] : Meets(q, seq[n]) THEN kept[n - 1]
        ELSE kept[n - 1] \cup {seq[n]}
  IN kept
Finditer(found) == Finds(Ordered(found, Starting(found)))[Cardinality(found)]

\* The occurrences of a term, in any case and with any whitespace between its
\* words.
TermRanges(text, term) ==
  IF term = << >> THEN {}
  ELSE Finditer({r \in (0..Len(text)) \X (0..Len(text)) :
                   /\ r[1] < r[2] /\ ~IsSpace(text[r[1] + 1]) /\ ~IsSpace(text[r[2]])
                   /\ Key(Piece(text, r)) = term})
TermsRanges(text, terms) == UNION {TermRanges(text, t) : t \in terms}

\* A suffix after an apostrophe belongs to a kept term.
Suffixed(text, r) ==
  LET letters == {n \in 2..(Len(text) - r[2]) :
                    /\ text[r[2] + 1] = Quote
                    /\ \A i \in 2..n : IsLetter(text[r[2] + i])}
  IN IF letters = {} THEN r ELSE <<r[1], r[2] + Max(letters)>>
KeepRanges(text, terms) == {Suffixed(text, r) : r \in TermsRanges(text, terms)}

----------------------------------------------------------------------------
(* placeholders.py: the values of a family, numbered in order of arrival.  *)

NoTokens == [f \in {} |-> << >>]
Values(mapper, family) == IF family \in DOMAIN mapper THEN mapper[family] ELSE << >>
Number(values, key) == Min({n \in DOMAIN values : values[n] = key} \cup {Len(values) + 1})
Numbered(values, key) == IF key \in ToSet(values) THEN values ELSE Append(values, key)
Assigned(mapper, family, value) ==
  [f \in DOMAIN mapper \cup {family} |->
     IF f = family THEN Numbered(Values(mapper, f), Key(value)) ELSE mapper[f]]
Placeholder(family, n) == <<<<family, n, 1>>, <<family, n, 2>>>>
PlaceholderFor(mapper, family, value) ==
  Placeholder(family, Number(Values(mapper, family), Key(value)))

----------------------------------------------------------------------------
(* EditBuffer: the replacements of one unit in original offsets, sorted.   *)

EditOf(r, text, type, source) ==
  [start |-> r[1], end |-> r[2], text |-> text, type |-> type, source |-> source]
Extent(e) == <<e.start, e.end>>

\* The current text, symbol by symbol with the place it has in the original, or
\* NoOrigin under a replacement (text(), _segments()).
NoOrigin == -1
Literal(o, r) == [i \in 1..(r[2] - r[1]) |-> <<o[r[1] + i], r[1] + i - 1>>]
Inserted(e) == [i \in DOMAIN e.text |-> <<e.text[i], NoOrigin>>]
Behind(es, i) == IF i = 0 THEN 0 ELSE es[i].end
Written(o, es, i) == Literal(o, <<Behind(es, i - 1), es[i].start>>) \o Inserted(es[i])
Parts(o, es) ==
  LET parts[i \in 0..Len(es)] == IF i = 0 THEN << >> ELSE parts[i - 1] \o Written(o, es, i)
  IN parts
Rendered(o, es) == Parts(o, es)[Len(es)] \o Literal(o, <<Behind(es, Len(es)), Len(o)>>)
Text(o, es) == LET now == Rendered(o, es) IN [n \in DOMAIN now |-> now[n][1]]
Origins(o, es) == LET now == Rendered(o, es) IN [n \in DOMAIN now |-> now[n][2]]

\* edits(): where the i-th replacement starts and ends in the current text.
Ends(es) ==
  LET ends[i \in 0..Len(es)] ==
        IF i = 0 THEN 0 ELSE ends[i - 1] + es[i].start - Behind(es, i - 1) + Len(es[i].text)
  IN ends
MaskedEnd(es, i) == Ends(es)[i]
MaskedStart(es, i) == MaskedEnd(es, i) - Len(es[i].text)

\* current_range: in the current text, unless any part of it was replaced.
CurrentRanges(es, r) ==
  LET before == {i \in DOMAIN es : es[i].end <= r[1]}
      n == IF before = {} THEN 0 ELSE MaskedEnd(es, Max(before)) - es[Max(before)].end
  IN IF \E i \in DOMAIN es : Meets(Extent(es[i]), r) THEN {} ELSE {<<r[1] + n, r[2] + n>>}
KeepInCurrent(es, ranges) == UNION {CurrentRanges(es, r) : r \in ranges}

Union(es, r) ==
  LET hit == {e \in ToSet(es) : Meets(Extent(e), r)}
  IN <<Min({r[1]} \cup {e.start : e \in hit}), Max({r[2]} \cup {e.end : e \in hit})>>

\* _insert: replacements that do not meet, as they stand in the unit.
Sorted(edits) == Ordered(edits, {p \in edits \X edits : p[1].start < p[2].start})
ForceOriginal(es, r, text, type, source) ==
  Sorted({e \in ToSet(es) : ~Meets(Extent(e), r)}
         \cup {EditOf(Union(es, r), text, type, source)})

\* The replacements a range of the current text meets, an empty one only from
\* both sides.
Touches(c, r) == IF c[1] = c[2] THEN r[1] < c[1] /\ c[1] < r[2] ELSE Meets(c, r)
HitEdits(es, r) == {i \in DOMAIN es : Touches(<<MaskedStart(es, i), MaskedEnd(es, i)>>, r)}

\* The range in the original: from the replacements met and the literal symbols
\* at its edges.
Whole(es, r, hit, origins) ==
  LET At(i) == {origins[n] : n \in {i} \cap DOMAIN origins} \ {NoOrigin}
  IN <<Min({es[i].start : i \in hit} \cup At(r[1] + 1)),
       Max({es[i].end : i \in hit} \cup {n + 1 : n \in At(r[2])})>>
\* What a splice of the current text would leave of the replacements met.
Spliced(text, es, r, hit, new) ==
  Piece(text, <<Min({r[1]} \cup {MaskedStart(es, i) : i \in hit}), r[1]>>) \o new
  \o Piece(text, <<r[2], Max({r[2]} \cup {MaskedEnd(es, i) : i \in hit})>>)

\* apply(): r is a range of the current text.  It absorbs the replacements it
\* meets into one edit.
Absorbing(o, es, r, new, type, source) ==
  LET hit == HitEdits(es, r)
  IN EditOf(Whole(es, r, hit, Origins(o, es)), Spliced(Text(o, es), es, r, hit, new), type, source)
Untouched(es, r) == {es[i] : i \in DOMAIN es \ HitEdits(es, r)}

----------------------------------------------------------------------------
(* overrides.py: the reviewer's masks land before detection.               *)

\* The masks are tuples <<start, end, family, n>>, n the order of the decisions.
\* Masks that meet become one over their union, with the family of the longest,
\* of the first of them when several are.
FromLeft(wanted) ==
  LET Before(v, w) == \/ v[1] < w[1] \/ (v[1] = w[1] /\ v[2] > w[2])
                      \/ (v[1] = w[1] /\ v[2] = w[2] /\ v[4] < w[4])
  IN Ordered(wanted, {p \in wanted \X wanted : Before(p[1], p[2])})
Joint(group, i) ==
  LET Size(n) == group[n][2] - group[n][1]
      first == Min({n \in DOMAIN group : \A k \in DOMAIN group : Size(k) <= Size(n)})
  IN <<group[1][1], Max({group[n][2] : n \in DOMAIN group}), group[first][3], i>>

\* Mutant: a mask that meets an earlier one is dropped.
MergedFirst(wanted) ==
  FromLeft({w \in wanted : \A v \in wanted : v[4] < w[4] => ~Meets(v, w)})

Merged(wanted) ==
  LET sorted == FromLeft(wanted)
      opens == {n \in DOMAIN sorted : \A k \in 1..(n - 1) : sorted[k][2] <= sorted[n][1]}
      first == Ascending(opens)
      Group(n) == Picked(sorted, {k \in DOMAIN sorted : n <= k /\ opens \cap (n + 1)..k = {}})
  IN [i \in DOMAIN first |-> Joint(Group(first[i]), i)]

\* What the reviewer's decisions force in a unit: the masked occurrences, and the
\* masked terms, a sequence of <<key, family>>, outside the kept occurrences.
Wanted(o, masks, terms, keep) ==
  {<<masks[n][1], masks[n][2], masks[n][3], n>> :
     n \in {k \in DOMAIN masks : /\ 0 <= masks[k][1] /\ masks[k][1] < masks[k][2]
                                 /\ masks[k][2] <= Len(o)}}
  \cup UNION {{<<r[1], r[2], terms[n][2], Len(masks) + n>> :
                 r \in {q \in TermRanges(o, terms[n][1]) : ~Contained(q, keep)}} :
              n \in DOMAIN terms}

\* apply_forced on a unit: its edits and the placeholders so far.
Forced(o, unit, w) ==
  LET r == Union(unit.edits, <<w[1], w[2]>>)
  IN [unit EXCEPT !.edits = ForceOriginal(@, r, PlaceholderFor(unit.mapper, w[3], Piece(o, r)),
                                          UserType(w[3]), "user"),
                  !.mapper = Assigned(@, w[3], Piece(o, r))]
ForcedUpTo(o, unit, merged) ==
  LET after[n \in 0..Len(merged)] ==
        IF n = 0 THEN unit ELSE Forced(o, after[n - 1], merged[n])
  IN after
ApplyForced(o, unit, masks, terms, keep) ==
  LET merged == Merged(Wanted(o, masks, terms, keep))
  IN ForcedUpTo(o, unit, merged)[Len(merged)]
=============================================================================
