---------------------------- MODULE ChatSources -----------------------------
(***************************************************************************)
(* The sources of a chat question (chat/retrieval.py): the approved text   *)
(* of every document is cut into chunks, the best ones become S1, S2...,   *)
(* and an answer must cite them.                                           *)
(*                                                                         *)
(* A text is a sequence of characters.  A placeholder is "<", "P", ">"; a  *)
(* "<" may also stand alone.  How BM25 scores is left out: the ranking is  *)
(* any order of the pieces.                                                *)
(***************************************************************************)
EXTENDS Integers, SequencesExt

Space == " "
Break == "\n"
Ellipsis == "..."
Placeholder == <<"<", "P", ">">>
PlaceholderAt(s, i) == i + 2 <= Len(s) /\ SubSeq(s, i, i + 2) = Placeholder

Stripped(s, blank) ==
  LET solid == {i \in DOMAIN s : s[i] \notin blank}
  IN IF solid = {} THEN <<>> ELSE SubSeq(s, Min(solid), Max(solid))
RStripped(s, blank) ==
  SubSeq(s, 1, Max({0} \cup {i \in DOMAIN s : s[i] \notin blank}))
LStripped(s, blank) ==
  LET solid == {i \in DOMAIN s : s[i] \notin blank}
  IN IF solid = {} THEN <<>> ELSE SubSeq(s, Min(solid), Len(s))

-----------------------------------------------------------------------------
(* excerpt: the first characters of a chunk, for the screen.               *)

\* Mutant: the cut does not look at what it cuts.
ExcerptBlind(text, limit) ==
  LET s == Stripped(text, {Space, Break})
  IN IF Len(s) <= limit THEN s
     ELSE Append(RStripped(SubSeq(s, 1, limit - 1), {Space, Break}), Ellipsis)

Excerpt(text, limit) ==
  LET s == Stripped(text, {Space, Break})
      cut == SubSeq(s, 1, limit - 1)
      opening == Max({0} \cup {i \in DOMAIN cut : cut[i] = "<"})
      inside == /\ opening # 0
                /\ \A i \in opening .. Len(cut) : cut[i] # ">"
                /\ PlaceholderAt(s, opening)
  IN IF Len(s) <= limit THEN s
     ELSE Append(RStripped(IF inside THEN SubSeq(cut, 1, opening - 1) ELSE cut,
                           {Space, Break}), Ellipsis)

-----------------------------------------------------------------------------
(* chunk_text: whole lines, packed; a line that is too long is cut.        *)

\* Mutant: the end of the window is left out, and so is the placeholder.
CutAtSize(line, size) == size

\* Where a line longer than size is cut: at the last space of its second half,
\* else at size, and never inside a placeholder.
Cut(line, size) ==
  LET spaces == {c \in (size \div 2) .. size : line[c + 1] = Space}
      at == IF spaces = {} \/ Max(spaces) = 0 THEN size ELSE Max(spaces)
      across == {p \in DOMAIN line : PlaceholderAt(line, p) /\ p - 1 < at /\ at < p + 2}
      p == Min(across)
  IN IF across = {} THEN at ELSE IF p > 1 THEN p - 1 ELSE p + 2

RECURSIVE SplitLine(_, _)
SplitLine(line, size) ==
  IF Len(line) <= size
  THEN IF Stripped(line, {Space}) = <<>> THEN <<>> ELSE <<line>>
  ELSE LET cut == Cut(line, size)
           piece == RStripped(SubSeq(line, 1, cut), {Space})
           rest == LStripped(SubSeq(line, cut + 1, Len(line)), {Space})
       IN (IF piece = <<>> THEN <<>> ELSE <<piece>>) \o SplitLine(rest, size)

Lines(text) ==
  LET ends == {0, Len(text) + 1} \cup {i \in DOMAIN text : text[i] = Break}
      next(i) == Min({j \in ends : j > i})
  IN [k \in 1 .. Cardinality(ends) - 1 |->
        LET i == CHOOSE i \in ends : Cardinality({j \in ends : j < i}) = k - 1
        IN SubSeq(text, i + 1, next(i) - 1)]

\* Mutant: the line break between two pieces is not counted.
PackedUncounted(chunks, piece, size) ==
  LET last == chunks[Len(chunks)]
  IN IF chunks = <<>> \/ Len(last) + Len(piece) > size
     THEN Append(chunks, piece)
     ELSE [chunks EXCEPT ![Len(chunks)] = Append(last, Break) \o piece]

Packed(chunks, piece, size) ==
  LET last == chunks[Len(chunks)]
  IN IF chunks = <<>> \/ Len(last) + 1 + Len(piece) > size
     THEN Append(chunks, piece)
     ELSE [chunks EXCEPT ![Len(chunks)] = Append(last, Break) \o piece]

ChunkText(text, size) ==
  LET lines == SelectSeq(Lines(text), LAMBDA l : Stripped(l, {Space}) # <<>>)
      pieces == FlattenSeq([i \in DOMAIN lines |-> SplitLine(lines[i], size)])
  IN FoldLeft(LAMBDA chunks, piece : Packed(chunks, piece, size), <<>>, pieces)

-----------------------------------------------------------------------------
(* retrieve: the best pieces of all documents, numbered by their rank.     *)

Pieces(documents, size) ==
  FlattenSeq([d \in DOMAIN documents |->
    LET chunks == ChunkText(documents[d], size)
    IN [k \in DOMAIN chunks |-> [doc |-> d, part |-> k, text |-> chunks[k]]]])

\* Mutant: numbered by the place in the document.
NumberedByPart(piece, n) == [id |-> piece.part] @@ piece

Numbered(piece, n) == [id |-> n] @@ piece

Sources(documents, order, size, k) ==
  LET pieces == Pieces(documents, size)
      best == SelectSeq(order, LAMBDA i : i <= Len(pieces))
  IN [n \in 1 .. Min({k, Len(best)}) |-> Numbered(pieces[best[n]], n)]

(* An answer is a sequence of bracketed marks.  One that lists ids in any  *)
(* spelling is brought to the canonical form; every other, a range like    *)
(* [S1-S3] included, is left as it is and is no citation.                  *)
Citations(answer) == UNION {ToSet(answer[i].ids) : i \in {j \in DOMAIN answer : answer[j].form = "list"}}

\* Mutant: one known source is enough.
AcceptsAny(answer, sources) ==
  \E i \in DOMAIN sources : sources[i].id \in Citations(answer)

Accepts(answer, sources) ==
  /\ Citations(answer) # {}
  /\ Citations(answer) \subseteq {sources[i].id : i \in DOMAIN sources}

Cited(answer, sources) == SelectSeq(sources, LAMBDA s : s.id \in Citations(answer))

\* strip_citations: what an earlier turn cited means nothing now.
History(answer) == SelectSeq(answer, LAMBDA m : m.form # "list")

-----------------------------------------------------------------------------
(* Reference: what may be lost is white space, what may be cut is a line.  *)

Solid(s) == SelectSeq(s, LAMBDA c : c \notin {Space, Break})
PlaceholdersIn(s) == Cardinality({i \in DOMAIN s : PlaceholderAt(s, i)})
Openings(s) == Cardinality({i \in DOMAIN s : s[i] = "<"})
=============================================================================
