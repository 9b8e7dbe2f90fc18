----------------------------- MODULE MCValues ------------------------------
(***************************************************************************)
(* Pure parts of the program, each against what it promises: the sources   *)
(* of a chat question (ChatSources), the marks over a page image           *)
(* (PageMarks), the recognizers with their scores (Identifiers) and what   *)
(* the review screen makes of a payload (ReviewModel).  A probe is one     *)
(* input; every probe is a step from the first state.                      *)
(***************************************************************************)
EXTENDS Integers, SequencesExt, TLC

Chat == INSTANCE ChatSources
Page == INSTANCE PageMarks
Id   == INSTANCE Identifiers
Screen == INSTANCE ReviewModel
Answer == INSTANCE Verdict
TermKey == [t \in {"a", "A", "b", "c", ""} |-> IF t = "A" THEN "a" ELSE t]
KnownFamilies == {"PERSON", "ORG"}
Prefs == INSTANCE StoredSettings WITH Key <- TermKey, Families <- KnownFamilies, MaxTerms <- 2

VARIABLE probe

Nothing == [about |-> "nothing"]
Init == probe = Nothing

-----------------------------------------------------------------------------
(* Texts, of up to five tokens.                                            *)

Tokens == {<<"x">>, <<" ">>, <<"\n">>, <<"<", "P", ">">>, <<"<">>}
Texts == UNION {{FlattenSeq(t) : t \in [1 .. n -> Tokens]} : n \in 0 .. 5}
Sizes == {3, 4, 5}
CutText ==
  /\ probe = Nothing
  /\ \E text \in Texts, size \in Sizes :
       probe' = [about |-> "text", text |-> text, size |-> size]

(* Documents of two or three chunks, ranked by whatever the question says, *)
(* and an answer that cites some sources, or a range, or nothing.          *)
Documents == {<<"x", "x", "\n", "x", "x">>, <<"x", "x", "x", " ", "x", "x", "x">>}
Mark(form, ids) == [form |-> form, ids |-> ids]
Marked == {Mark("list", <<1>>), Mark("list", <<2, 3>>), Mark("list", <<9>>), Mark("range", <<1, 3>>)}
AskSources ==
  /\ probe = Nothing
  /\ \E a, b \in Documents, order \in SetToSeqs(1 .. 5),
        marks \in UNION {[1 .. n -> Marked] : n \in 0 .. 2} :
       probe' = [about |-> "answer", answer |-> marks,
                 sources |-> Chat!Sources(<<a, b>>, order, 3, 3)]

-----------------------------------------------------------------------------
(* Pages: two units, of two blocks or of one (two cells of a table), the   *)
(* text as it was extracted and as it stands on the page, where a space    *)
(* may be a line break and a running title may be repeated.                *)

UnitTexts == {<<"a", "b">>, <<"A", "b", " ", "a">>, <<"b", "a", "b">>,
              <<"a", "b", " ", "a", "b">>}
Titles == {<<>>, <<"a", "b">>}

Unit(block, order, text) == [block |-> block, order |-> order, text |-> text]
(* The characters of a text on the page, from a line on. *)
Laid(text, block, line, broken) ==
  LET below(i) == IF broken THEN Cardinality({j \in 1 .. i : text[j] = " "}) ELSE 0
  IN Append([i \in DOMAIN text |->
               IF broken /\ text[i] = " "
               THEN [c |-> "\n", line |-> line + below(i - 1), in |-> Page!Nowhere]
               ELSE [c |-> text[i], line |-> line + below(i), in |-> block]],
            [c |-> "\n", line |-> line + below(Len(text)), in |-> Page!Nowhere])

MarkPage ==
  /\ probe = Nothing
  /\ \E t, u \in UnitTexts, block \in {1, 2}, title \in Titles, broken, boxed \in BOOLEAN :
       \E unit \in {1, 2} :
         \E first, last \in 1 .. Len(IF unit = 1 THEN t ELSE u) :
           /\ first < last
           /\ probe' = [about |-> "page", boxed |-> boxed, title |-> title,
                        units |-> <<Unit(1, 1, t), Unit(block, 2, u)>>,
                        span |-> [unit |-> unit, first |-> first, last |-> last],
                        above |-> IF title = <<>> THEN <<>> ELSE Laid(title, 9, 0, FALSE),
                        one |-> Laid(t, 1, 10, broken), two |-> Laid(u, block, 20, broken)]

PageOf(p) == p.above \o p.one \o p.two
TruePlace(p) ==
  LET before == Len(p.above) + IF p.span.unit = 1 THEN 0 ELSE Len(p.one)
  IN {k \in before + p.span.first .. before + p.span.last : PageOf(p)[k].in # Page!Nowhere}
MarkedPlaces(p) == Page!Marks(PageOf(p), p.units, p.boxed, p.span)
WholeWords(p) ==
  LET text == p.units[p.span.unit].text
  IN \E r \in ToSet(Page!Matches(text, SubSeq(text, p.span.first, p.span.last))) :
       r = <<p.span.first, p.span.last>>
(* The value is read on the page from the end of one unit into the next. *)
ReadAcross(p) ==
  LET text == p.units[p.span.unit].text
      page == PageOf(p)
      ends == {Len(p.above), Len(p.above) + Len(p.one)}
  IN \E m \in ToSet(Page!Matches(Page!Chars(page), SubSeq(text, p.span.first, p.span.last))),
       e \in ends : m[1] <= e /\ e < m[2]

-----------------------------------------------------------------------------
(* Values and the words near them; national numbers from a prefix.         *)

Words == UNION {r.context : r \in Id!Recognizers}
Recognise ==
  /\ probe = Nothing
  /\ \E form \in Id!Forms, near \in {{}} \cup {{v, w} : v, w \in Words} :
       probe' = [about |-> "value", form |-> form, near |-> near]

Beginnings == {<<1, 2, 3, 4, 5, 6, 7, 8, 9>>, <<1, 0, 0, 0, 0, 0, 0, 0, 0>>, <<9, 9, 9, 9, 9, 9, 9, 9, 9>>,
             <<5, 0, 7, 0, 3, 8, 1, 4, 0>>, <<2, 9, 0, 8, 1, 7, 3, 6, 4>>, <<0, 1, 2, 3, 4, 5, 6, 7, 8>>}
Validate ==
  /\ probe = Nothing
  /\ \E prefix \in Beginnings : probe' = [about |-> "number", prefix |-> prefix]

-----------------------------------------------------------------------------
(* Payloads: paragraphs and tables on three pages, one of which may have   *)
(* none, or with headings where there are no pages; and a document of two  *)
(* units with three marks.                                                 *)

Cell(page, table, row, col) ==
  [page |-> page, head |-> page, table |-> table, row |-> row, col |-> col, text |-> <<>>]
Piece(form, page, table) ==
  CASE form = "text"   -> <<Cell(page, 0, 0, 0)>>
    [] form = "row"    -> <<Cell(page, table, 0, 0), Cell(page, table, 0, 1)>>
    [] form = "ragged" -> <<Cell(page, table, 0, 1), Cell(page, table, 1, 0), Cell(page, table, 2, 1)>>
Unpaged(units) == [i \in DOMAIN units |-> [units[i] EXCEPT !.page = 0]]
Forms == {"text", "row", "ragged"}
LayOut ==
  /\ probe = Nothing
  /\ \E n \in 0 .. 4, paged \in BOOLEAN :
       \E form \in [1 .. n -> Forms], page \in [1 .. n -> 1 .. 3] :
         LET units == FlattenSeq([k \in 1 .. n |-> Piece(form[k], page[k], k)])
         IN /\ \A k \in 2 .. n : page[k - 1] <= page[k]
            /\ probe' = [about |-> "layout", pages |-> IF paged THEN 3 ELSE 0,
                         units |-> IF paged THEN units ELSE Unpaged(units)]

ScreenTexts == <<<<"a", "b", "a">>, <<"b", "a">>>>
ScreenUnits == [u \in 1 .. 2 |-> [Cell(1, 0, 0, 0) EXCEPT !.text = ScreenTexts[u]]]
States(item) == IF item THEN {"suggestion", "finding", "kept", "masked"} ELSE {"masked", "added", "kept"}
Places == {p \in (1 .. 2) \X (0 .. 2) \X (1 .. 3) : p[2] < p[3] /\ p[3] <= Len(ScreenTexts[p[1]])}
TextAt(p) == SubSeq(ScreenTexts[p[1]], p[2] + 1, p[3])
MarkAt(id, p, item, state) ==
  [id |-> id, unit |-> p[1], start |-> p[2], end |-> p[3], item |-> item, state |-> state, family |-> 1,
   occurrences |-> Cardinality({q \in Places : TextAt(q) = TextAt(p)})]
MarkScreen ==
  /\ probe = Nothing
  /\ \E p, q, r \in Places, s \in States(FALSE), t, u \in States(TRUE) :
       probe' = [about |-> "screen",
                 marks |-> <<MarkAt(1, p, FALSE, s), MarkAt(2, q, TRUE, t), MarkAt(3, r, TRUE, u)>>]

(* The text of an answer: an object with strings in it, and objects, which *)
(* is written as JSON is, after words without a brace and before any.      *)
Written == UNION {[1 .. n -> {"x", "{", "}", "quote", "backslash"}] : n \in 0 .. 2}
StringOf(chars) ==
  <<"quote">> \o FlattenSeq([i \in DOMAIN chars |->
                   IF chars[i] \in {"quote", "backslash"} THEN <<"backslash", chars[i]>> ELSE <<chars[i]>>])
              \o <<"quote">>
ObjectOf(parts) ==
  <<"{">> \o FlattenSeq([k \in DOMAIN parts |-> IF parts[k].inside THEN <<"{">> \o StringOf(parts[k].chars) \o <<"}">>
                                                ELSE StringOf(parts[k].chars)]) \o <<"}">>
Parts == [inside : BOOLEAN, chars : Written]
Around == {<<>>, <<"x", "}">>, <<"quote">>, <<"backslash">>}
CutAnswer ==
  /\ probe = Nothing
  /\ \E n \in 0 .. 2 : \E parts \in [1 .. n -> Parts], before \in Around, after \in Around \cup {<<"{">>} :
       /\ (n = 2 => parts[2].inside)
       /\ probe' = [about |-> "object", text |-> before \o ObjectOf(parts) \o after, object |-> ObjectOf(parts)]

Value(text, of) == [text |-> text, of |-> of]
Entry(form, type, snippet, location) ==
  [form |-> form, item |-> [type |-> type, snippet |-> snippet,
                            location |-> [page |-> location, words |-> location = 0]]]
Entries == {Entry("text", "EMAIL", Value("a@b.c", 5), 0), Entry("item", "EMAIL", Value("a@b.c", 5), 2),
            Entry("item", "Ada", Value("Ada", 3), 0), Entry("item", "PERSON", Value("Al", 2), 0),
            Entry("item", "PERSON", Answer!Silent, 1), Entry("item", "UNKNOWN", Value("hint", 4), 0)}
Items == [form : {"list"}, list : UNION {[1 .. n -> Entries] : n \in 0 .. 3}]
         \cup {[form |-> f, list |-> <<>>] : f \in {"none", "null", "number"}}
ReadAnswer ==
  /\ probe = Nothing
  /\ \E items \in Items, fields \in {"valid", "invalid"}, approved \in BOOLEAN :
       probe' = [about |-> "verdict", object |-> [items |-> items, fields |-> fields, approved |-> approved]]

(* A settings file, with entries that are no text, of two spellings of one *)
(* term, and with families for them.                                       *)
Spelled(t, f) == [of |-> t, family |-> f]
Stored(entries) == [form : {"list", "map", "other"}, entries : entries]
TermsStored == UNION {[1 .. n -> {Spelled(t, "") : t \in {"a", "A", "b", "", "odd"}}] : n \in 0 .. 3}
FamiliesStored == UNION {[1 .. n -> {Spelled("a", "PERSON"), Spelled("A", "ORG"), Spelled("b", "bad"),
                                     Spelled("b", "odd"), Spelled("c", "ORG")}] : n \in 0 .. 2}
ReadSettings ==
  /\ probe = Nothing
  /\ \E always \in Stored(TermsStored), families \in Stored(FamiliesStored), mode \in {"destructive", "odd"} :
       /\ mode = "odd" => always.form = "list"
       /\ probe' = [about |-> "settings", raw |-> [mode |-> mode, always |-> always, families |-> families,
                                                   never |-> [always EXCEPT !.form = families.form]]]

Next == \/ LayOut \/ MarkScreen \/ CutText \/ AskSources \/ MarkPage \/ Recognise \/ Validate
        \/ CutAnswer \/ ReadAnswer \/ ReadSettings
Spec == Init /\ [][Next]_probe

-----------------------------------------------------------------------------
(* What they promise.                                                      *)

(* The chunks of a document hold all of its text but white space, in its   *)
(* order, and every placeholder whole: a cut one would be sent as text of  *)
(* the document and cited as such (chunk_text, _split_line).               *)
ChunksKeepTheText ==
  probe.about = "text" =>
    LET chunks == Chat!ChunkText(probe.text, probe.size)
    IN /\ Chat!Solid(FlattenSeq(chunks)) = Chat!Solid(probe.text)
       /\ FoldLeft(LAMBDA n, c : n + Chat!PlaceholdersIn(c), 0, chunks)
            = Chat!PlaceholdersIn(probe.text)

(* No chunk is longer than the size, the line breaks that pack whole lines *)
(* into it included (chunk_text).                                          *)
ChunksFit ==
  probe.about = "text" =>
    \A chunk \in ToSet(Chat!ChunkText(probe.text, probe.size)) : Len(chunk) <= probe.size

(* An excerpt is the beginning of its source, no longer than the limit,    *)
(* and ends inside no placeholder (excerpt).                               *)
ExcerptIsABeginning ==
  probe.about = "text" =>
    LET e == Chat!Excerpt(probe.text, probe.size)
        s == Chat!Stripped(probe.text, {" ", "\n"})
        shown == SelectSeq(e, LAMBDA c : c # "...")
    IN /\ Len(e) <= probe.size
       /\ IsPrefix(shown, s)
       /\ \A i \in DOMAIN s : Chat!PlaceholderAt(s, i) /\ i <= Len(shown) => i + 2 <= Len(shown)

(* An answer that is accepted cites, and each citation is exactly one of   *)
(* the sources that are shown with it (retrieve, cited_sources).           *)
CitationsResolve ==
  probe.about = "answer" /\ Chat!Accepts(probe.answer, probe.sources) =>
    LET shown == Chat!Cited(probe.answer, probe.sources)
    IN /\ Chat!Citations(probe.answer) # {}
       /\ \A id \in Chat!Citations(probe.answer) :
            Cardinality({i \in DOMAIN shown : shown[i].id = id}) = 1

(* A mark lies over the value it is for, whatever else the page shows;     *)
(* and over nothing else where the page shows what was extracted           *)
(* (_Finder.rects, _rank).  Not so where the value is also read across two *)
(* units, "ab" and "ab c" for "ab ab": the search takes the first such     *)
(* place, and the counts may agree all the same.                           *)
MarksAreRight ==
  probe.about = "page" /\ WholeWords(probe) /\ ~ReadAcross(probe) =>
    IF probe.title = <<>> THEN MarkedPlaces(probe) = TruePlace(probe)
    ELSE TruePlace(probe) \subseteq MarkedPlaces(probe)

WordsTogether(page, marked) ==
  \A k \in marked, n \in DOMAIN page :
    n \in {k - 1, k + 1} /\ Page!WordChar(page[k].c) /\ Page!WordChar(page[n].c) => n \in marked
(* A name is never marked inside a longer word: not one character of a     *)
(* marked word is left out (_whole_words).                                 *)
MarksAreWholeWords ==
  probe.about = "page" => WordsTogether(PageOf(probe), MarkedPlaces(probe))

(* Nine digits are completed to a national number in exactly one way, or   *)
(* in none if they begin with a zero; and no number stays one when a digit *)
(* of it is read wrong (valid_tckn).                                       *)
OneCompletion ==
  probe.about = "number" =>
    LET valid == {<<p, q>> \in (0 .. 9) \X (0 .. 9) : Id!ValidTckn(probe.prefix \o <<p, q>>)}
    IN /\ Cardinality(valid) = IF probe.prefix[1] = 0 THEN 0 ELSE 1
       /\ \A v \in valid, i \in 1 .. 11, d \in 0 .. 9 :
            LET number == probe.prefix \o v
            IN d # number[i] => ~Id!ValidTckn([number EXCEPT ![i] = d])

Certain == {"tckn", "tr_iban", "tr_iban_spaced", "card", "email", "gsm", "gsm_0", "gsm_90",
            "ssn", "uk_phone", "stripe", "github", "aws", "google", "bearer"}
(* A national number, an IBAN, a card, an e-mail, a telephone number or a  *)
(* key is masked under one family, the same whatever words stand near it:  *)
(* the placeholder of a value does not depend on its place (types.py,      *)
(* resolve_spans).                                                         *)
FamilyIsSettled ==
  probe.about = "value" /\ probe.form \in Certain =>
    /\ Cardinality(Id!Families(probe.form, probe.near)) = 1
    /\ Id!Families(probe.form, probe.near) = Id!Families(probe.form, {})

Bare == {"ten", "eleven", "landline", "account_bare", "salary_range", "salary_floor", "long_run",
         "licence"}
(* A bare number, which may be an amount, is masked exactly where a word   *)
(* near it says what it is, unless Presidio takes it for a telephone       *)
(* number of another country (SurfaceFormContextAwareEnhancer).            *)
BareNeedsItsWord ==
  probe.about = "value" /\ probe.form \in Bare =>
    ((Id!Hits(probe.form, probe.near) # {})
       <=> \E r \in Id!Recognizers : /\ probe.form \in r.forms /\ r.type \notin DOMAIN Id!Validated
                                     /\ r.context \cap probe.near # {})

(* What the patterns of the auditor find and no recognizer takes, so that  *)
(* only the repair round masks it: HeuristicAuditor's patterns are wider   *)
(* in the domain of an e-mail, the spaces of an IBAN, the dots of a        *)
(* telephone number, the length of a bearer token and in numbers that are  *)
(* no card, and it alone knows a password by its label.                    *)
LeftToRepair == {"email_unknown", "iban_odd", "gsm_dotted", "bearer_short", "digits_16", "credential"}
(* All else the auditor's patterns find is masked before it looks, with no *)
(* word near it: a pattern that is wider than the engine's in one more way *)
(* costs a round on every document (_HARD_PATTERNS).                       *)
BackstopIsMasked ==
  probe.about = "value" /\ probe.form \in Id!Backstop \ LeftToRepair => Id!Hits(probe.form, {}) # {}

(* Every unit of the payload is on the review screen exactly once, in its  *)
(* order, a cell at its row and column; and every page has its place among *)
(* them, the pages without text too (buildSections, buildTable).           *)
UnitsAreShown ==
  probe.about = "layout" =>
    LET sections == Screen!BuildSections(probe.units, probe.pages)
        blocks == FlattenSeq([k \in DOMAIN sections |-> sections[k].blocks])
    IN /\ FlattenSeq(blocks) = [i \in DOMAIN probe.units |-> i]
       /\ \A b \in ToSet(blocks) : probe.units[b[1]].table # Screen!None =>
            LET grid == Screen!Grid(probe.units, b)
            IN \A i \in ToSet(b) :
                 {<<r, c>> \in (1 .. Len(grid)) \X (1 .. Len(grid[1])) : grid[r][c] = i}
                   = {<<probe.units[i].row + 1, probe.units[i].col + 1>>}
       /\ probe.pages > 0 => [k \in DOMAIN sections |-> sections[k].page] = [p \in 1 .. probe.pages |-> p]
       /\ \A k \in DOMAIN sections : sections[k].blocks = <<>> =>
            \A u \in ToSet(probe.units) : u.page # sections[k].page

(* Nothing that waits for a decision can be missed: it is on exactly one   *)
(* card, of marks with one text, decided everywhere where the text is met  *)
(* more than once; and J from anywhere, or K, comes by each of them before *)
(* it comes by one again, in the order of reading (buildGroups, step,      *)
(* groupScope).                                                            *)
DecisionsAreReached ==
  probe.about = "screen" =>
    LET order == Screen!PendingOrder(probe.marks)
        groups == Screen!PendingGroups(ScreenUnits, probe.marks)
        open == {m \in ToSet(probe.marks) : m.state \in Screen!Pending}
        walk(first, by) == FoldLeft(LAMBDA ps, k : Append(ps, Screen!Step(order, Last(ps), by)),
                                    <<Screen!Step(order, first, by)>>, [k \in 1 .. Len(order) - 1 |-> k])
    IN /\ ToSet(order) = open /\ Len(order) = Cardinality(open)
       /\ \A i, j \in DOMAIN order : i < j =>
            order[i].unit < order[j].unit \/ (order[i].unit = order[j].unit /\ order[i].start <= order[j].start)
       /\ \A m \in open : Cardinality({g \in DOMAIN groups : m.id \in ToSet(groups[g].ids)}) = 1
       /\ \A g \in ToSet(groups), m, n \in open : {m.id, n.id} \subseteq ToSet(g.ids) =>
            Screen!Surface(ScreenUnits, m) = Screen!Surface(ScreenUnits, n)
       /\ \A m \in open : (Screen!GroupScope(groups, m.id) = "document") =
            (m.occurrences > 1 \/ (\E g \in ToSet(groups) : m.id \in ToSet(g.ids) /\ Len(g.ids) > 1))
       /\ order # <<>> => \A first \in {Screen!None} \cup DOMAIN order, by \in {1, -1} :
            ToSet(walk(first, by)) = DOMAIN order

DrawnRight(text, marks, segments) ==
  LET drawn == FlattenSeq([k \in DOMAIN segments |->
                 [i \in DOMAIN segments[k].text |-> segments[k].mark]])
  IN /\ FlattenSeq([k \in DOMAIN segments |-> segments[k].text]) = text
     /\ \A i \in DOMAIN drawn, m \in ToSet(marks) : m.start < i /\ i <= m.end =>
          /\ drawn[i] # Screen!None /\ marks[drawn[i]].start < i /\ i <= marks[drawn[i]].end
          /\ m.state \in Screen!Pending => marks[drawn[i]].state \in Screen!Pending
(* The marked text is the text, and a value that waits for a decision is   *)
(* never hidden under a mask or a decision taken: where two marks overlap  *)
(* the one that needs attention is drawn, and each mark only over its own  *)
(* place (segment).                                                        *)
AttentionWins ==
  probe.about = "screen" =>
    \A u \in DOMAIN ScreenTexts :
      LET marks == SelectSeq(Screen!Shown(probe.marks), LAMBDA m : m.unit = u)
      IN DrawnRight(ScreenTexts[u], marks, Screen!Segments(ScreenTexts[u], marks))

(* What is masked, dropped or kept is listed once, under its own text.     *)
ListsAreComplete ==
  probe.about = "screen" =>
    LET lists == Screen!PendingGroups(ScreenUnits, probe.marks) \o Screen!MaskedGroups(ScreenUnits, probe.marks)
                 \o Screen!KeptGroups(ScreenUnits, probe.marks)
        ids == FlattenSeq([k \in DOMAIN lists |-> lists[k].ids])
    IN /\ ToSet(ids) = {m.id : m \in ToSet(Screen!Shown(probe.marks))}
       /\ Len(ids) = Len(Screen!Shown(probe.marks))

(* The verdict is read from the object the model wrote, whole, whatever    *)
(* braces, quotes and backslashes stand in its strings and whatever stands *)
(* around it (_extract_first_json_object).                                 *)
VerdictIsRead == probe.about = "object" => Answer!FirstObject(probe.text) = probe.object

(* An answer is no clean approval when the model listed anything, in any   *)
(* form; and of a verdict that counts, every value it named goes to the    *)
(* repair round.  Kept of it are a known type, a length and a page, never  *)
(* a value, and the same when it is stored and read back (parse_llm_json,  *)
(* SensitiveItem).                                                         *)
NamedIsNotCleared ==
  probe.about = "verdict" =>
    LET o == probe.object r == Answer!ParseLlmJson(o)
    IN /\ r.ok /\ r.approved /\ r.items = <<>> => o.items.list = <<>>
       /\ r.ok => \A e \in ToSet(o.items.list) :
            e.item.snippet.of > 0 => \E t \in ToSet(r.terms) : t = e.item.snippet.text
(* What is kept of a value the model named is a known type, a length and a *)
(* page, never the value (SensitiveItem).                                  *)
NamedIsNotKept ==
  probe.about = "verdict" /\ Answer!ParseLlmJson(probe.object).ok =>
    \A i \in ToSet(Answer!ParseLlmJson(probe.object).items) :
      i.snippet.text \in {"", "hint"} /\ i.type \in Answer!KnownTypes /\ ~i.location.words /\ Answer!Item(i) = i

(* A list of terms holds what can be used of it, in order and up to the    *)
(* limit, whatever else is wrong in the list or the file; and a term keeps *)
(* its family under any spelling ("one stray value cannot switch a whole   *)
(* always-mask list off", _valid_fields).                                  *)
EntriesFallAlone ==
  probe.about = "settings" =>
    LET raw == probe.raw  read == Prefs!ValidFields(raw)
        usable == {k \in DOMAIN raw.always.entries : raw.always.entries[k].of \notin {"odd", ""}}
        keys == {TermKey[raw.always.entries[k].of] : k \in usable}
        listed == {TermKey[t] : t \in ToSet(read.always)}
    IN /\ raw.always.form = "list" =>
            /\ IF Cardinality(keys) <= 2 THEN listed = keys
               ELSE listed \subseteq keys /\ Cardinality(listed) = 2
            /\ Len(read.always) = Cardinality(listed)
       /\ raw.families.form = "map" =>
            \A t \in ToSet(read.always), f \in ToSet(raw.families.entries) :
              f.of # "odd" /\ f.family \in KnownFamilies /\ TermKey[f.of] = TermKey[t]
                => t \in DOMAIN read.families
=============================================================================
