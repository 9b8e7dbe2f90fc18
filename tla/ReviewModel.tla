----------------------------- MODULE ReviewModel -----------------------------
(***************************************************************************)
(* What the review screen derives from one payload (features/review):      *)
(* sections and tables (model.ts), the cards and lists of the side panel   *)
(* (groups.ts), the marks over a text (MarkedText.tsx) and the keys that   *)
(* walk them (keyActions.ts).  The functions are pure; TLC checks them on  *)
(* small payloads (MCValues).                                              *)
(*                                                                         *)
(* A unit is [page, head, table, row, col, text]; page and table are None  *)
(* where they are null, and head is then what its location begins with;    *)
(* the text is the original (mapping mode).  A mark is [id, unit, start, end, state, family, item,   *)
(* occurrences], start and end counted from 0.                             *)
(***************************************************************************)
EXTENDS Integers, SequencesExt

None == 0
Pending == {"suggestion", "finding"}

\* The payload's spans, then its items; a masked item is represented by its span.
Shown(marks) == SelectSeq(marks, LAMBDA m : ~(m.item /\ m.state = "masked"))

-----------------------------------------------------------------------------
(* Sections.                                                               *)

\* A run of units of one table is one block, any other unit is its own.
Starts(units, i) ==
  i = 1 \/ units[i].table = None \/ units[i].table # units[i - 1].table
Blocks(units) ==
  LET first == SetToSortSeq({i \in DOMAIN units : Starts(units, i)}, <)
      last(k) == IF k = Len(first) THEN Len(units) ELSE first[k + 1] - 1
  IN [k \in DOMAIN first |-> [i \in 1 .. last(k) - first[k] + 1 |-> first[k] + i - 1]]

\* Rows and columns as far as the cells reach; a place without a cell is empty.
\* Bug: rows and columns counted from one.
GridFromOne(units, block) ==
  LET rows == {units[block[i]].row : i \in DOMAIN block}
      cols == {units[block[i]].col : i \in DOMAIN block}
      at(r, c) == {i \in ToSet(block) : units[i].row = r /\ units[i].col = c}
  IN [r \in 1 .. Max(rows) + 1 |-> [c \in 1 .. Max(cols) + 1 |->
        IF at(r, c) = {} THEN None ELSE Max(at(r, c))]]
Grid(units, block) ==
  LET rows == {units[block[i]].row : i \in DOMAIN block}
      cols == {units[block[i]].col : i \in DOMAIN block}
      at(r, c) == {i \in ToSet(block) : units[i].row = r /\ units[i].col = c}
  IN [r \in 1 .. Max(rows) + 1 |-> [c \in 1 .. Max(cols) + 1 |->
        IF at(r - 1, c - 1) = {} THEN None ELSE Max(at(r - 1, c - 1))]]

\* Blocks after one another with one page, or one head where there are no pages,
\* are a section; a block is where its first unit is.
Empty(page) == [page |-> page, head |-> None, blocks |-> <<>>]
Sections(units) ==
  LET key(u) == IF u.page # None THEN <<u.page, None>> ELSE <<None, u.head>>
      add(sections, b) ==
        LET k == key(units[b[1]])
        IN IF sections # <<>> /\ <<Last(sections).page, Last(sections).head>> = k
           THEN Front(sections) \o <<[Last(sections) EXCEPT !.blocks = Append(@, b)]>>
           ELSE Append(sections, [page |-> k[1], head |-> k[2], blocks |-> <<b>>])
  IN FoldLeft(add, <<>>, Blocks(units))

\* A page the extractor could not read goes before the first later page.
\* Bug: it goes to the end.
WithPageLast(sections, page) == Append(sections, Empty(page))
WithPage(sections, page) ==
  LET later == {i \in DOMAIN sections : sections[i].page # None /\ sections[i].page > page}
  IN IF later = {} THEN Append(sections, Empty(page))
     ELSE InsertAt(sections, Min(later), Empty(page))
BuildSections(units, pages) ==
  LET empty == SetToSortSeq({p \in 1 .. pages : \A i \in DOMAIN units : units[i].page # p}, <)
  IN FoldLeft(WithPage, Sections(units), empty)

-----------------------------------------------------------------------------
(* The order of reading, the cards and the lists.                          *)

\* Bug: by the place in the unit alone.
BeforeByStart(m, n) == m.start < n.start
Before(m, n) == m.unit < n.unit \/ (m.unit = n.unit /\ m.start < n.start)
\* The sort keeps the order of marks at one place.
Reading(marks) ==
  LET rank(i) == Cardinality({j \in DOMAIN marks :
                   Before(marks[j], marks[i]) \/ (~Before(marks[i], marks[j]) /\ j <= i)})
  IN [k \in DOMAIN marks |-> marks[CHOOSE i \in DOMAIN marks : rank(i) = k]]

Order(marks) == Reading(Shown(marks))
PendingOrder(marks) == SelectSeq(Order(marks), LAMBDA m : m.state \in Pending)

Surface(units, m) == SubSeq(units[m.unit].text, m.start + 1, m.end)

\* Marks with one key are one card, whose first mark gives its place.
Grouped(marks, key(_)) ==
  LET add(groups, m) ==
        IF \E g \in DOMAIN groups : groups[g].key = key(m)
        THEN LET g == CHOOSE g \in DOMAIN groups : groups[g].key = key(m)
             IN [groups EXCEPT ![g].ids = Append(@, m.id),
                               ![g].occurrences = Max({@, m.occurrences, Len(groups[g].ids) + 1})]
        ELSE Append(groups, [key |-> key(m), ids |-> <<m.id>>,
                             occurrences |-> Max({1, m.occurrences})])
  IN FoldLeft(add, <<>>, marks)

PendingGroups(units, marks) ==
  Grouped(PendingOrder(marks), LAMBDA m : <<m.state, m.family, Surface(units, m)>>)
\* Bug: what the reviewer masked by hand is on no list.
MaskedGroupsFound(units, marks) ==
  Grouped(SelectSeq(Order(marks), LAMBDA m : m.state = "masked"),
          LAMBDA m : <<m.family, Surface(units, m)>>)
MaskedGroups(units, marks) ==
  Grouped(SelectSeq(Order(marks), LAMBDA m : m.state \in {"masked", "added"}),
          LAMBDA m : <<m.family, Surface(units, m)>>)
KeptGroups(units, marks) ==
  LET kept(item) == SelectSeq(Order(marks), LAMBDA m : m.state = "kept" /\ m.item = item)
  IN Grouped(kept(FALSE) \o kept(TRUE), LAMBDA m : Surface(units, m))

\* Which occurrences a key decides: all when there are several.
\* Bug: by the marks shown, not by the occurrences in the document.
GroupScopeByMarks(groups, id) ==
  IF \E g \in ToSet(groups) : id \in ToSet(g.ids) /\ Len(g.ids) > 1 THEN "document" ELSE "occurrence"
GroupScope(groups, id) ==
  IF \E g \in ToSet(groups) : id \in ToSet(g.ids) /\ g.occurrences > 1 THEN "document" ELSE "occurrence"

\* J and K walk what is pending, or else every mark; place is None for no selection.
\* Bug: K from the first place leaves the list.
StepOff(list, place, direction) ==
  IF place = None THEN IF direction = 1 THEN 1 ELSE Len(list)
  ELSE (place + direction) % Len(list)
Step(list, place, direction) ==
  IF place = None THEN IF direction = 1 THEN 1 ELSE Len(list)
  ELSE ((place - 1 + direction + Len(list)) % Len(list)) + 1

-----------------------------------------------------------------------------
(* Marks over a text.                                                      *)

Priority(state) ==
  CASE state \in Pending -> 4 [] state = "added" -> 3 [] state = "masked" -> 2 [] state = "kept" -> 1
Valid(text, m) == m.start >= 0 /\ m.end <= Len(text) /\ m.start < m.end

\* The text is cut at every boundary; of the marks over a piece the one of the
\* highest priority wins, the first of those.
\* Bug: the last mark drawn wins.
WinnerLast(marks, from) ==
  LET over == {i \in DOMAIN marks : marks[i].start <= from /\ marks[i].end > from}
  IN IF over = {} THEN None ELSE Max(over)
Winner(marks, from) ==
  LET over == {i \in DOMAIN marks : marks[i].start <= from /\ marks[i].end > from}
      best == {i \in over : \A j \in over : Priority(marks[i].state) >= Priority(marks[j].state)}
  IN IF over = {} THEN None ELSE Min(best)

Extend(out, piece, won) ==
  IF out # <<>> /\ Last(out).mark = won
  THEN Front(out) \o <<[Last(out) EXCEPT !.text = @ \o piece]>>
  ELSE Append(out, [text |-> piece, mark |-> won])
CutAt(text, marks, cuts) ==
  FoldLeft(LAMBDA out, k : Extend(out, SubSeq(text, cuts[k] + 1, cuts[k + 1]), Winner(marks, cuts[k])),
           <<>>, [k \in 1 .. Len(cuts) - 1 |-> k])
CutByMarks(text, marks) ==
  CutAt(text, marks, SetToSortSeq({0, Len(text)} \cup {marks[i].start : i \in DOMAIN marks}
                                  \cup {marks[i].end : i \in DOMAIN marks}, <))
Segments(text, all) == CutByMarks(text, SelectSeq(all, LAMBDA m : Valid(text, m)))
=============================================================================
