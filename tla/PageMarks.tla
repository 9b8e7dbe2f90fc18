----------------------------- MODULE PageMarks ------------------------------
(***************************************************************************)
(* The marks over a page image (review/pages.py).  A span of the review    *)
(* names a place in an extracted unit; its place on the page is found      *)
(* again in the page's own text.                                           *)
(*                                                                         *)
(* A page is a sequence of characters [c, line, in]: the character, the    *)
(* line it stands on, and the block whose box it lies in; a line ends with *)
(* a break, which lies nowhere.  A unit is [id, block, text].              *)
(***************************************************************************)
EXTENDS Integers, SequencesExt

Space == " "
Break == "\n"
Blank == {Space, Break}
Nowhere == 0   \* where a line break lies

\* re.IGNORECASE
Folded(c) == IF c = "A" THEN "a" ELSE IF c = "B" THEN "b" ELSE c
WordChar(c) == Folded(c) \in {"a", "b"}

Chars(page) == [i \in DOMAIN page |-> page[i].c]

\* The words of a surface: maximal runs without white space.
Words(s) ==
  LET starts == {i \in DOMAIN s : s[i] \notin Blank /\ (i = 1 \/ s[i - 1] \in Blank)}
      stop(i) == Max({j \in i .. Len(s) : \A k \in i .. j : s[k] \notin Blank})
  IN [n \in 1 .. Cardinality(starts) |->
        LET i == CHOOSE i \in starts : Cardinality({j \in starts : j < i}) = n - 1
        IN SubSeq(s, i, stop(i))]

Same(s, t) == Len(s) = Len(t) /\ \A i \in DOMAIN s : Folded(s[i]) = Folded(t[i])

\* Whether s is the surface's words, with any white space between them.
Spells(s, surface) ==
  LET ws == Words(s) us == Words(surface)
  IN /\ Len(ws) = Len(us) /\ \A n \in DOMAIN ws : Same(ws[n], us[n])
     /\ s[1] \notin Blank /\ s[Len(s)] \notin Blank

\* Mutant: a value is found inside a longer word.
WholeAnywhere(text, i, j) == TRUE

\* (?<!\w) ... (?!\w)
Whole(text, i, j) == /\ i = 1 \/ ~WordChar(text[i - 1])
                     /\ j = Len(text) \/ ~WordChar(text[j + 1])

\* _whole_words: a surface of fewer than two letters is not looked for.
Searched(surface) == Len(FlattenSeq(Words(surface))) >= 2

\* finditer: from the left, without overlap.
Leftmost(all, text) ==
  FoldLeft(LAMBDA found, i :
             IF (\E r \in all : r[1] = i) /\ (found = <<>> \/ Last(found)[2] < i)
             THEN Append(found, CHOOSE r \in all : r[1] = i) ELSE found,
           <<>>, [i \in DOMAIN text |-> i])
Matches(text, surface) ==
  Leftmost({r \in (DOMAIN text) \X (DOMAIN text) :
              r[1] <= r[2] /\ Spells(SubSeq(text, r[1], r[2]), surface) /\ Whole(text, r[1], r[2])},
           text)

(* _rank: found holds the occurrences of a surface in each unit; which of  *)
(* those of the group begins at a place of the unit, and how many there    *)
(* are; 0 where none begins there.                                         *)
CountIn(found, group) == FoldSet(LAMBDA k, n : n + Len(found[k]), 0, group)
Rank(units, group, found, unit, start) ==
  LET here == {n \in DOMAIN found[unit] : found[unit][n][1] = start}
  IN [rank |-> IF here = {} THEN 0
               ELSE (CHOOSE n \in here : TRUE)
                    + CountIn(found, {k \in group : units[k].order < units[unit].order}),
      total |-> CountIn(found, group)]

\* Mutant: the rank is used though the page shows another number of them.
SureOfRank(r, matches) == r.rank \in DOMAIN matches

Sure(r, matches) == r.rank # 0 /\ r.total = Len(matches)

(* _Finder.rects, as sets of places on the page: the matches in the box of *)
(* the block, where it has one, and of them the one referred to, if the    *)
(* page and the extraction agree on their number; else all of them.        *)
Chosen(matches, r) == IF Sure(r, matches) THEN {matches[r.rank]} ELSE ToSet(matches)
Inside(page, r, block) == \A k \in r[1] .. r[2] : page[k].in \in {block, Nowhere}
MarksOf(page, units, boxed, span, surface) ==
  LET Near(u) == ~boxed \/ units[u].block = units[span.unit].block
  IN UNION {{k \in m[1] .. m[2] : page[k].in # Nowhere} :
       m \in Chosen(SelectSeq(Matches(Chars(page), surface),
                              LAMBDA r : ~boxed \/ Inside(page, r, units[span.unit].block)),
                    Rank(units, {u \in DOMAIN units : Near(u)},
                         [u \in DOMAIN units |-> Matches(units[u].text, surface)],
                         span.unit, span.first))}
Marks(page, units, boxed, span) ==
  LET surface == SubSeq(units[span.unit].text, span.first, span.last)
  IN IF Searched(surface) THEN MarksOf(page, units, boxed, span, surface) ELSE {}

\* _line_rects: a mark is one rectangle for every line it lies on.
Rects(page, marked) ==
  {<<line, Min({k \in marked : page[k].line = line}), Max({k \in marked : page[k].line = line})>> :
     line \in {page[k].line : k \in marked}}
=============================================================================
