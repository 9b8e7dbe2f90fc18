----------------------------- MODULE MaskEngine -----------------------------
(***************************************************************************)
(* One call of Engine.anonymize (engine.py) with its passes: table         *)
(* pre-masking (tables.py), forced masks, detection with its gates and     *)
(* overlap resolution (detection.py, gates.py, resolve.py) and propagation *)
(* of spelling variants (propagate.py).                                    *)
(*                                                                         *)
(* A document is a sequence of blocks, a block a sequence of cells: a      *)
(* paragraph is one cell, a table has one row.  The analyzer is external:  *)
(* a set of patterns [text, type, score, source], of which it reports      *)
(* every occurrence in the text it is given, as regular expressions do.    *)
(***************************************************************************)
EXTENDS MaskText

CONSTANTS DocNouns, FormLabels, Dates,       \* keys the gates know
          CapsWords,                         \* 4 words make a line of capitals
          MinStructural, MinSurname, MinPrefix, MaxPrefix  \* 8, 4, 8, 24

SourceNames == <<"en", "tr", "deny">>
Languages == {"en", "tr"}

Span(r, type, score, source) ==
  [start |-> r[1], end |-> r[2], type |-> type, score |-> score, source |-> source]

----------------------------------------------------------------------------
(* gates.py: what a statistical guess may not look like.                   *)

Surface(text, s) == Piece(text, Extent(s))
StartsSmall(word) == IsLetter(word[1]) /\ ~IsUpper(word[1])
Guess(s) == s.source \in Languages /\ Info(s.type).gated

OpensSmall(words) == words # << >> /\ StartsSmall(words[1])
LowercaseInitial(s, text) ==
  /\ Info(s.type).gated
  /\ OpensSmall(Words(Surface(text, s)))

ImplausibleName(words, surface) ==
  \/ Len(words) >= 3 /\ Contains(surface, Break)
  \/ Len(words) = 1
  \/ \E w \in ToSet(words) : Key(w) \in DocNouns \/ (Len(w) >= 3 /\ StartsSmall(w))
ImplausiblePerson(s, text) ==
  /\ s.source \in Languages /\ s.type = <<"PERSON">>
  /\ ImplausibleName(Words(Surface(text, s)), Surface(text, s))

DateShapedPhone(s, text) == s.type = <<"PHONE_NUMBER">> /\ Key(Surface(text, s)) \in Dates

FormLabel(s, text) == Guess(s) /\ Key(Surface(text, s)) \in FormLabels

\* The words of the line around a span, in capitals for four fifths or more.
InCapitals(line) ==
  LET words == {n \in DOMAIN line : \A i \in DOMAIN line[n] : IsLetter(line[n][i])}
      caps  == {n \in words : \A i \in DOMAIN line[n] : IsUpper(line[n][i])}
  IN Cardinality(words) >= CapsWords /\ 5 * Cardinality(caps) >= 4 * Cardinality(words)
CapsLine(s, text) ==
  LET first == Max({0} \cup {i \in 1..s.start : text[i] = Break})
      last  == Min({Len(text)} \cup {i \in s.end..(Len(text) - 1) : text[i + 1] = Break})
  IN Guess(s) /\ InCapitals(Words(Piece(text, <<first, last>>)))

Gated(s, text) == \/ LowercaseInitial(s, text) \/ ImplausiblePerson(s, text)
                  \/ DateShapedPhone(s, text) \/ FormLabel(s, text) \/ CapsLine(s, text)

----------------------------------------------------------------------------
(* resolve.py                                                              *)

Rank(s) == <<Info(s.type).tier, -s.score, s.start - s.end, s.start,
             CHOOSE i \in DOMAIN TypeNames : TypeNames[i] = s.type[1],
             CHOOSE i \in DOMAIN SourceNames : SourceNames[i] = s.source>>
Less(p, q) == \E i \in 1..6 : p[i] < q[i] /\ \A j \in 1..(i - 1) : p[j] = q[j]
Precedes(s, t) == Less(Rank(s), Rank(t))

\* The best ranked are accepted; one that is rejected widens those it contains.
Accept(accepted, s) ==
  IF \E a \in ToSet(accepted) : Meets(Extent(a), Extent(s))
  THEN [i \in DOMAIN accepted |->
          IF Within(Extent(accepted[i]), Extent(s))
          THEN [accepted[i] EXCEPT !.start = s.start, !.end = s.end] ELSE accepted[i]]
  ELSE Append(accepted, s)

AcceptedUpTo(ordered) ==
  LET accepted[n \in 0..Len(ordered)] ==
        IF n = 0 THEN << >> ELSE Accept(accepted[n - 1], ordered[n])
  IN accepted
ByStart(spans) ==
  LET order == Ordered(DOMAIN spans,
                 {p \in (DOMAIN spans) \X (DOMAIN spans) :
                    \/ spans[p[1]].start < spans[p[2]].start
                    \/ (spans[p[1]].start = spans[p[2]].start /\ p[1] < p[2])})
  IN [k \in DOMAIN order |-> spans[order[k]]]
ByPriority(spans) == Ordered(spans, {p \in spans \X spans : Precedes(p[1], p[2])})
Resolve(spans) == ByStart(AcceptedUpTo(ByPriority(spans))[Cardinality(spans)])

----------------------------------------------------------------------------
(* detection.py.  lists = [deny, families, allow]: the terms of this run.  *)

Analyze(patterns, text) ==
  UNION {{Span(r, p.type, p.score, p.source) :
            r \in {q \in (0..Len(text)) \X (0..Len(text)) : q[1] < q[2] /\ Piece(text, q) = p.text}} :
         p \in patterns}

\* The analyzer again, on the text without its line breaks: structural hits that
\* cross one, and not after the end of a sentence.
Linewrap(patterns, text) ==
  LET kept == Ascending({i \in DOMAIN text : text[i] # Break})
      Back(s) == [s EXCEPT !.start = kept[s.start + 1] - 1, !.end = kept[s.end]]
      Crosses(s) == {i \in s.start + 1..s.end : text[i] = Break}
  IN {b \in {Back(s) : s \in {h \in Analyze(patterns, [i \in DOMAIN kept |-> text[kept[i]]]) :
                                Info(h.type).adjacent}} :
        /\ Crosses(b) # {}
        /\ \A i \in Crosses(b) : i - 1 > b.start => text[i - 1] # Stop}

\* An always-mask term is a full-score detection, with the family it was given.
DenyType(term, lists) ==
  IF \E f \in lists.families : f[1] = term
  THEN UserType((CHOOSE f \in lists.families : f[1] = term)[2]) ELSE <<"SENSITIVE">>
DenySpans(text, lists) ==
  {Span(r, DenyType(Key(Piece(text, r)), lists), 10, "deny") : r \in TermsRanges(text, lists.deny)}

\* What is left after the never-mask terms and the gates, before resolution.
Candidates(patterns, lists, text) ==
  LET allowed == KeepRanges(text, lists.allow)
  IN {s \in Analyze(patterns, text) \cup Linewrap(patterns, text) \cup DenySpans(text, lists) :
        ~ContainedIn(text, Extent(s), allowed) /\ ~Gated(s, text)}

Detect(patterns, lists, text) ==
  IF Words(text) = << >> THEN << >> ELSE Resolve(Candidates(patterns, lists, text))

\* Engine._detection: an always-mask term beats the same never-mask term, and a
\* document keep beats both.
Lists(prefs, keepTerms) == [deny |-> prefs.always, families |-> prefs.families,
                            allow |-> (prefs.never \ prefs.always) \cup keepTerms]

----------------------------------------------------------------------------
(* tables.py: a row whose values are split across cells.  A row is a       *)
(* record [edits, mapper], edits the replacements of each cell as they     *)
(* come; parts is the fragment a value has in each of its cells.           *)

Lost == << >>
CellEdits(row, parts, token, type) ==
  [k \in DOMAIN row.edits |->
     IF k \notin DOMAIN parts THEN row.edits[k]
     ELSE Append(row.edits[k], EditOf(parts[k], IF k = Min(DOMAIN parts) THEN token ELSE Lost,
                                      type, "adjacency"))]
Placed(row, parts, type, value) ==
  [edits  |-> CellEdits(row, parts, PlaceholderFor(row.mapper, Family(type), value), type),
   mapper |-> Assigned(row.mapper, Family(type), value)]

\* The fragments of a span of the joined cells of a run.
Offsets(parts) ==
  LET offset[k \in 0..Len(parts)] == IF k = 0 THEN 0 ELSE offset[k - 1] + Len(parts[k])
  IN offset
Fragment(offset, s, k) ==
  <<Max({s.start, offset[k - 1]}) - offset[k - 1], Min({s.end, offset[k]}) - offset[k - 1]>>
Fragments(cells, run, s) ==
  LET Of(k) == Fragment(Offsets(SubSeq(cells, run[1], run[2])), s, k - run[1] + 1)
  IN [k \in {n \in run[1]..run[2] : Of(n)[1] < Of(n)[2]} |-> Of(k)]
HasKept(parts, keep) == \E k \in DOMAIN parts : Contained(parts[k], keep[k])

\* Mutant: a value that crosses a boundary is placed without its kept fragments.
MergePieces(row, value, s, parts, keep) ==
  LET placed == Placed(row, parts, s.type, value)
      kept == {k \in DOMAIN parts : Contained(parts[k], keep[k])}
  IN IF Cardinality(DOMAIN parts) < 2 \/ ~Info(s.type).adjacent THEN row
     ELSE [placed EXCEPT !.edits = [k \in DOMAIN @ |-> IF k \in kept THEN row.edits[k] ELSE @[k]]]

\* A value that crosses a boundary is placed, unless a fragment of it is kept.
Merge(row, value, s, parts, keep) ==
  IF Cardinality(DOMAIN parts) < 2 \/ ~Info(s.type).adjacent \/ HasKept(parts, keep) THEN row
  ELSE Placed(row, parts, s.type, value)

\* Adjacent cells that are clean alone: what crosses their boundaries.
MergedUpTo(row, cells, run, keep, joined, spans) ==
  LET after[n \in 0..Len(spans)] ==
        IF n = 0 THEN row
        ELSE Merge(after[n - 1], Surface(joined, spans[n]), spans[n],
                   Fragments(cells, run, spans[n]), keep)
  IN after
MergeAll(row, cells, run, keep, joined, spans) ==
  MergedUpTo(row, cells, run, keep, joined, spans)[Len(spans)]
MergeRun(row, cells, run, keep, patterns, lists) ==
  LET joined == FlattenSeq(SubSeq(cells, run[1], run[2]))
  IN MergeAll(row, cells, run, keep, joined, Detect(patterns, lists, joined))

\* A structural value at the end of a cell may go on in the clean next one.
AtEdge(spans, n) == {s \in ToSet(spans) : Info(s.type).adjacent /\ s.end = n}
Longer(spans, s) == {n \in DOMAIN spans : /\ spans[n].type = s.type /\ spans[n].start = s.start
                                          /\ spans[n].end > s.end}
Extended(row, cells, k, keep, s, long) ==
  LET parts == [n \in {k, k + 1} |-> IF n = k THEN <<s.start, s.end>> ELSE <<0, long.end - s.end>>]
  IN IF HasKept(parts, keep) THEN row
     ELSE Placed(row, parts, s.type, Surface(cells[k] \o cells[k + 1], long))
ExtendOne(row, cells, k, keep, edge, spans) ==
  LET s == CHOOSE t \in edge : TRUE
  IN IF Cardinality(edge) # 1 \/ Longer(spans, s) = {} THEN row
     ELSE Extended(row, cells, k, keep, s, spans[Min(Longer(spans, s))])
ExtendEdge(row, cells, k, keep, patterns, lists) ==
  ExtendOne(row, cells, k, keep, AtEdge(Detect(patterns, lists, cells[k]), Len(cells[k])),
            Detect(patterns, lists, cells[k] \o cells[k + 1]))

\* The longest runs of clean cells, from left to right.
Runs(clean) ==
  LET runs == {r \in clean \X clean : /\ r[1] < r[2] /\ r[1]..r[2] \subseteq clean
                                      /\ {r[1] - 1, r[2] + 1} \cap clean = {}}
  IN Ordered(runs, Starting(runs))
Extends(row, k, clean) ==
  k \notin clean /\ k + 1 \in clean /\ row.edits[k] = << >> /\ row.edits[k + 1] = << >>
RunsUpTo(row, cells, runs, keep, patterns, lists) ==
  LET after[n \in 0..Len(runs)] ==
        IF n = 0 THEN row ELSE MergeRun(after[n - 1], cells, runs[n], keep, patterns, lists)
  IN after
ExtendAt(row, cells, k, clean, keep, patterns, lists) ==
  IF Extends(row, k, clean) THEN ExtendEdge(row, cells, k, keep, patterns, lists) ELSE row
EdgesUpTo(row, cells, clean, keep, patterns, lists) ==
  LET after[k \in 0..(Len(cells) - 1)] ==
        IF k = 0 THEN row
        ELSE ExtendAt(after[k - 1], cells, k, clean, keep, patterns, lists)
  IN after
PremaskCells(row, cells, clean, keep, patterns, lists) ==
  EdgesUpTo(RunsUpTo(row, cells, Runs(clean), keep, patterns, lists)[Len(Runs(clean))],
            cells, clean, keep, patterns, lists)[Len(cells) - 1]
PremaskRow(mapper, cells, keep, patterns, lists) ==
  PremaskCells([edits |-> [k \in DOMAIN cells |-> << >>], mapper |-> mapper], cells,
               {k \in DOMAIN cells : Detect(patterns, lists, cells[k]) = << >>},
               keep, patterns, lists)

----------------------------------------------------------------------------
(* propagate.py: other spellings of what was masked.                       *)

\* norm_projection: the folded letters of a text and where each one stands.
Projected(text) == Ascending({i \in DOMAIN text : ~IsSpace(text[i])})
Letters(text) == LET at == Projected(text) IN [k \in DOMAIN at |-> Folded(text[at[k]])]

\* VariantPools: the spellings <<letters, mode>> that a masked value adds.
ModeNames == <<"any", "glued", "surname", "company">>
AnyMode == 1
GluedMode == 2
SurnameMode == 3
CompanyMode == 4
SpellingsOf(s, value, words) ==
  LET Long(t, n) == Len(Letters(t)) >= n
      name == s.type \in {<<"PERSON">>, <<"TR_PERSON_CTX">>} /\ Len(words) >= 2
      Occurs(w, i) == i + Len(w) - 1 <= Len(value) /\ SubSeq(value, i, i + Len(w) - 1) = w
      \* value.find(word): the first place of a word, in whatever word it stands.
      Starts == {i \in DOMAIN value : \E w \in ToSet(words) :
                   Occurs(w, i) /\ \A j \in 1..(i - 1) : ~Occurs(w, j)}
      From(i) == Letters(SubSeq(value, i, Len(value)))
  IN {f \in {<<Letters(value), AnyMode>>} : Info(s.type).propagates /\ Long(value, MinStructural)}
     \cup {f \in {<<Letters(value), GluedMode>>} : name /\ Long(value, MinStructural)}
     \cup {<<Letters(words[k]), SurnameMode>> :
             k \in {n \in {Len(words)} : name /\ Long(words[n], MinSurname)}}
     \cup UNION {{<<SubSeq(From(i), 1, n), CompanyMode>> :
                    n \in {l \in MinPrefix..MaxPrefix : s.type = <<"TR_COMPANY">> /\ l <= Len(From(i))}} :
                  i \in Starts}
SurfaceOf(text, s) ==
  [value |-> Surface(text, s), family |-> Family(s.type),
   spellings |-> SpellingsOf(s, Surface(text, s), Words(Surface(text, s)))]

Accepted(text, r, mode) ==
  /\ mode \in {GluedMode, SurnameMode} => \A i \in Places(r) : ~IsSpace(text[i + 1])
  /\ mode \in {CompanyMode, SurnameMode} =>
       /\ IsUpper(text[r[1] + 1])
       /\ \A i \in {r[1], r[2] + 1} \cap DOMAIN text : ~IsLetter(text[i])

\* A placeholder in a text: both of its halves.  (A family with an underscore
\* would not be recognised; those of TYPES have none.)
Placeholders(text) == {<<i - 1, i + 1>> : i \in {j \in 1..(Len(text) - 1) :
                         /\ Len(text[j]) = 3 /\ text[j][3] = 1
                         /\ text[j + 1] = <<text[j][1], text[j][2], 2>>}}

\* find_variants: hits <<start, end, mode, surface>> that do not meet, the first and
\* longest of them.
Leftmost(hits) ==
  LET Before(g, h) == \/ g[1] < h[1] \/ (g[1] = h[1] /\ g[2] > h[2])
                      \/ (g[1] = h[1] /\ g[2] = h[2] /\ g[3] < h[3])
                      \/ (g[1] = h[1] /\ g[2] = h[2] /\ g[3] = h[3] /\ g[4] < h[4])
  IN Ordered(hits, {p \in hits \X hits : Before(p[1], p[2])})
HitsOf(text, surfaces) ==
  LET at == Projected(text)
      letters == Letters(text)
      Ranges(needle) == {<<at[i] - 1, at[i + Len(needle) - 1]>> :
                           i \in {j \in 1..(Len(letters) - Len(needle) + 1) :
                                    SubSeq(letters, j, j + Len(needle) - 1) = needle}}
  IN UNION {UNION {{<<r[1], r[2], f[2], k>> : r \in Ranges(f[1])} : f \in surfaces[k].spellings} :
            k \in DOMAIN surfaces}
FindVariants(text, surfaces) ==
  LET hits == {h \in HitsOf(text, surfaces) : /\ Accepted(text, h, h[3])
                                              /\ \A p \in Placeholders(text) : ~Meets(h, p)}
  IN Finds(Leftmost(hits))[Cardinality(hits)]

\* A pool is a dictionary of texts: the last one to add a text names its family.
FamilyHit(surfaces, h) ==
  surfaces[Max({k \in DOMAIN surfaces : /\ surfaces[k].value = surfaces[h[4]].value
                                        /\ \E f \in surfaces[k].spellings : f[2] = h[3]})].family

----------------------------------------------------------------------------
(* engine.py.  ov holds the reviewer's decisions: keeps and masks, a set   *)
(* and a sequence of ranges for each unit, keepTerms and maskTerms.  A     *)
(* unit is [edits, mapper, ok]: ok until a replacement meets another one   *)
(* or has no end in the original, which raises and ends the call.          *)

Put(o, text, unit, s) ==
  LET value == Surface(text, s)
      left == Untouched(unit.edits, Extent(s))
      edit == Absorbing(o, unit.edits, Extent(s),
                        PlaceholderFor(unit.mapper, Family(s.type), value), s.type, s.source)
      loose == HitEdits(unit.edits, Extent(s)) = {} /\ s.end > Len(Text(o, unit.edits))
  IN IF ~unit.ok \/ loose \/ \E e \in left : Meets(Extent(e), Extent(edit))
     THEN [unit EXCEPT !.ok = FALSE]
     ELSE [edits |-> Sorted(left \cup {edit}), ok |-> TRUE,
           mapper |-> Assigned(unit.mapper, Family(s.type), value)]

\* Right to left, so that the offsets of the current text stay valid.
FromRight(spans) ==
  Ordered(DOMAIN spans, {p \in (DOMAIN spans) \X (DOMAIN spans) :
                           \/ spans[p[1]].start > spans[p[2]].start
                           \/ (spans[p[1]].start = spans[p[2]].start /\ p[1] < p[2])})
PutUpTo(o, unit, spans) ==
  LET text == Text(o, unit.edits)
      order == FromRight(spans)
      after[n \in 0..Len(spans)] ==
        IF n = 0 THEN unit ELSE Put(o, text, after[n - 1], spans[order[n]])
  IN after
ApplyAll(o, unit, spans) == PutUpTo(o, unit, spans)[Len(spans)]

\* What is detected in a unit's current text, without the kept occurrences.
OutsideKept(spans, text, kept) ==
  Picked(spans, {n \in DOMAIN spans : ~ContainedIn(text, Extent(spans[n]), kept)})
Found(o, unit, keep, patterns, lists) ==
  OutsideKept(Detect(patterns, lists, Text(o, unit.edits)), Text(o, unit.edits),
              KeepInCurrent(unit.edits, keep))

\* _mask_unit on the state of the call: done are the units masked so far.
WithUnit(call, masked, surfaces) ==
  [done |-> Append(call.done, masked.edits), mapper |-> masked.mapper, ok |-> masked.ok,
   surfaces |-> call.surfaces \o surfaces]
MaskFound(call, o, unit, spans) ==
  LET text == Text(o, unit.edits)
  IN WithUnit(call, ApplyAll(o, unit, spans), [n \in DOMAIN spans |-> SurfaceOf(text, spans[n])])
MaskForced(call, o, unit, keep, patterns, lists) ==
  MaskFound(call, o, unit, Found(o, unit, keep, patterns, lists))
MaskUnit(call, o, premasked, ov, patterns, lists) ==
  LET u == Len(call.done) + 1
  IN IF ~call.ok THEN call
     ELSE MaskForced(call, o,
            ApplyForced(o, [edits |-> Sorted(ToSet(premasked)), mapper |-> call.mapper, ok |-> TRUE],
                        ov.masks[u], ov.maskTerms, ov.keeps[u]),
            ov.keeps[u], patterns, lists)

\* A block: the row of a table is pre-masked first, all of it.
Fits(es) == \A i, j \in DOMAIN es : i < j => ~Meets(Extent(es[i]), Extent(es[j]))
CellsUpTo(call, cells, row, ov, patterns, lists) ==
  LET after[k \in 0..Len(cells)] ==
        IF k = 0 THEN [call EXCEPT !.mapper = row.mapper,
                                   !.ok = @ /\ \A n \in DOMAIN cells : Fits(row.edits[n])]
        ELSE MaskUnit(after[k - 1], cells[k], row.edits[k], ov, patterns, lists)
  IN after
MaskBlock(call, cells, ov, patterns, lists) ==
  LET keep == [k \in DOMAIN cells |-> ov.keeps[Len(call.done) + k]]
  IN IF ~call.ok THEN call
     ELSE CellsUpTo(call, cells, PremaskRow(call.mapper, cells, keep, patterns, lists),
                    ov, patterns, lists)[Len(cells)]

\* The other spellings a unit shows, except where the reviewer keeps them.
Variants(call, o, u, keep) ==
  LET text == Text(o, call.done[u])
      kept == KeepInCurrent(call.done[u], keep)
  IN {h \in FindVariants(text, call.surfaces) : ~ContainedIn(text, h, kept)}

\* Mutants: the terms kept in the document do not hold here; one hit in each unit.
SpellingsOverTerms(call, o, u, ov) == Variants(call, o, u, ov.keeps[u])
SpellingsFirst(call, o, u, ov) ==
  LET text == Text(o, call.done[u])
      hits == {h \in Variants(call, o, u, ov.keeps[u]) :
                 ~ContainedIn(text, h, KeepRanges(text, ov.keepTerms))}
  IN {h \in hits : \A g \in hits : h[1] <= g[1]}

Spellings(call, o, u, ov) ==
  LET text == Text(o, call.done[u])
  IN {h \in Variants(call, o, u, ov.keeps[u]) :
        ~ContainedIn(text, h, KeepRanges(text, ov.keepTerms))}

\* The edit of another spelling carries the family as its type (engine.py:212).
HitSpans(hits, surfaces) ==
  LET seq == Leftmost(hits)
  IN [i \in DOMAIN seq |-> Span(seq[i], UserType(FamilyHit(surfaces, seq[i])), 0,
                                ModeNames[seq[i][3]])]
Respelled(call, u, unit) ==
  IF ~call.ok THEN call
  ELSE [call EXCEPT !.done[u] = unit.edits, !.mapper = unit.mapper, !.ok = unit.ok]
Respell(call, o, u, ov) ==
  Respelled(call, u,
            ApplyAll(o, [edits |-> call.done[u], mapper |-> call.mapper, ok |-> TRUE],
                     HitSpans(Spellings(call, o, u, ov), call.surfaces)))
RespelledUpTo(call, units, ov) ==
  LET after[u \in 0..Len(units)] ==
        IF u = 0 THEN call ELSE Respell(after[u - 1], units[u], u, ov)
  IN after
Propagate(call, units, ov) == RespelledUpTo(call, units, ov)[Len(units)]

Start == [done |-> << >>, mapper |-> NoTokens, ok |-> TRUE, surfaces |-> << >>]
BlocksUpTo(doc, patterns, lists, ov) ==
  LET after[b \in 0..Len(doc)] ==
        IF b = 0 THEN Start
        ELSE MaskBlock(after[b - 1], doc[b], ov, patterns, lists)
  IN after
Anonymize(doc, patterns, lists, ov) ==
  Propagate(BlocksUpTo(doc, patterns, lists, ov)[Len(doc)], FlattenSeq(doc), ov)
=============================================================================
