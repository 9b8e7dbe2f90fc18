----------------------------- MODULE Extraction -----------------------------
(***************************************************************************)
(* From the bytes of an upload to blocks of text, the reasons a human must *)
(* look at the document, and its language: backend/app/extraction/*,       *)
(* language/detector.py and extract_content of services/ingest.py.         *)
(*                                                                         *)
(* A file is what its parser finds in it, word by word (FileOK has the     *)
(* records).  A PDF page is lines of text and images by their height, what *)
(* part of the page each image covers, a table over some of the lines, and *)
(* a note.  A workbook is sheets of cells and parts that hold comments.  A *)
(* Word document is a body, headers and footers, and comments.             *)
(***************************************************************************)
EXTENDS Integers, SequencesExt

CONSTANTS
  Files,       \* the uploads
  Words,       \* what stands in them
  Turkish, English,   \* the words langdetect recognises as such
  MinText,     \* _MIN_TEXT_PER_PAGE, in lines: below it a page is sparse
  MinShare,    \* min_coverage, in percent of the page: less is no picture
  MaxCells,    \* _MAX_CELLS of one workbook
  MaxTable,    \* _MAX_TABLE_CELLS: cells of one table that become text
  MaxPart, MaxParts,  \* size of one part of comments, and of all of them
  MaxComments, \* comments read of one workbook
  Foot         \* the height of a page's lower edge, where its notes are put

VARIABLES
  file, step, next,   \* the upload, where its reading is, the next part of it
  tesseract,          \* whether Tesseract is installed
  blocks, cells, warnings, reasons, language

extraction == <<file, step, next, tesseract, blocks, cells, warnings, reasons, language>>

NoFile == [kind |-> "none"]

ExtractionInit ==
  /\ file = NoFile /\ step = "none" /\ next = 1 /\ tesseract \in BOOLEAN
  /\ blocks = <<>> /\ cells = 0 /\ warnings = {} /\ reasons = {}
  /\ language = "unknown"

-----------------------------------------------------------------------------
(* The upload.                                                             *)

Magic == [pdf |-> "pdf", docx |-> "zip", xlsx |-> "zip"]

(* validate_upload: the first thing wrong with the file names the refusal. *)
Refusal(f) ==
  IF f.size # "fits"
  THEN IF f.size = "empty" THEN "invalid" ELSE "too_large"
  ELSE IF f.kind = "other" THEN "unsupported"
  ELSE IF \/ f.magic # Magic[f.kind]
          \/ f.kind \in {"docx", "xlsx"} /\ f.package # "sound" THEN "invalid" ELSE "none"

(* What a parser can find: a line of a page at each height, a table over   *)
(* some of them; of a Word document no empty item but a table, and no      *)
(* linked header that is not one of a section before.                      *)
Numbers(s) == Len(s) \in Nat /\ DOMAIN s = 1 .. Len(s)
PageOK(p) ==
  /\ \A lines \in {p.text, p.image} : /\ IsFiniteSet(DOMAIN lines) /\ DOMAIN lines \subseteq Nat
                                      /\ \A y \in DOMAIN lines : lines[y] \in Words
  /\ p.share \in [DOMAIN p.image -> Nat] /\ p.measured \in BOOLEAN
  /\ p.table \subseteq DOMAIN p.text /\ p.note \in Words \cup {"none", "broken"}
SheetOK(sheet) == sheet.name \in Words /\ sheet.cells \in Seq(Words)
ItemOK(item) ==
  /\ item.what \in {"heading", "paragraph", "table", "blank"} /\ item.words \in Seq(Words)
  /\ item.what # "table" => (item.what = "blank" <=> item.words = <<>>)
MarginsOK(ms) ==
  /\ Numbers(ms)
  /\ \A i \in DOMAIN ms :
       /\ ms[i].label \in {"header", "footer"} /\ ms[i].words \in Seq(Words) \ {<<>>}
       /\ ms[i].linked => \E j \in 1 .. i - 1 : ~ms[j].linked /\ ms[j].words = ms[i].words
FileOK(f) ==
  /\ Numbers(f.parts)
  /\ \A i \in DOMAIN f.parts : /\ f.kind = "pdf" => PageOK(f.parts[i])
                               /\ f.kind = "xlsx" => SheetOK(f.parts[i])
                               /\ f.kind = "docx" => ItemOK(f.parts[i])
  /\ f.kind = "xlsx" => Numbers(f.notes) /\ \A i \in DOMAIN f.notes : f.notes[i].words \in Seq(Words)
  /\ f.kind = "docx" => MarginsOK(f.margins) /\ (f.notes = "broken" \/ f.notes \in Seq(Words))
ASSUME FilesAssumption == \A f \in Files : Refusal(f) = "none" => f.kind \in DOMAIN Magic /\ FileOK(f)
ASSUME LimitsAssumption == {MaxCells, MaxComments, MaxTable, Foot} \subseteq Nat

Receive(f) ==
  /\ step = "none"
  /\ file' = f
  /\ step' = IF Refusal(f) = "none" THEN "reading" ELSE "refused"
  /\ UNCHANGED <<next, tesseract, blocks, cells, warnings, reasons, language>>

(* A corrupt or encrypted file: the parser raises, at any part of it.      *)
ParserFails ==
  /\ step = "reading" /\ step' = "failed"
  /\ blocks' = <<>> /\ warnings' = {}
  /\ UNCHANGED <<file, next, tesseract, cells, reasons, language>>

(* The k-th number of a set, and what stands at a set of places.           *)
Nth(S, k) == CHOOSE n \in S : Cardinality({z \in S : z < n}) = k - 1
Picked(s, S) == [k \in 1 .. Cardinality(S) |-> s[Nth(S, k)]]

Block(page, y, what, words, id) ==
  [page |-> page, y |-> y, what |-> what, words |-> words, id |-> id]

-----------------------------------------------------------------------------
(* PDF, page by page.                                                      *)

Sparse(p) == Cardinality(DOMAIN p.text) < MinText

(* _significant_raster: images are looked at where together they cover     *)
(* enough of the page, or any where their sizes cannot be told.            *)
Covered(p) == SumFunction(p.share)
Ample(p) == Covered(p) >= MinShare

\* Mutant: one image must cover that much alone.
RasterAlone(p) == IF p.measured THEN \E y \in DOMAIN p.image : p.share[y] >= MinShare
                                ELSE DOMAIN p.image # {}

Raster(p) == IF p.measured THEN Ample(p) ELSE DOMAIN p.image # {}

(* What is on the page, by its height.  Read by OCR, the images are text   *)
(* and there is no table; otherwise the images are passed over and the     *)
(* lines inside a table that was found are its cells.                      *)
Paragraph(y, word) == [y |-> y, what |-> "paragraph", words |-> <<word>>]
OcrItems(p) == {Paragraph(y, p.text[y]) : y \in DOMAIN p.text}
                 \cup {Paragraph(y, p.image[y]) : y \in DOMAIN p.image}
LayerItems(p, found) ==
  {Paragraph(y, p.text[y]) : y \in DOMAIN p.text \ found}
    \cup {[y |-> y, what |-> "table", words |-> Picked(p.text, found)] :
            y \in {y \in found : \A z \in found : y <= z}}

(* A note is no part of the page's text; a page whose notes cannot be read *)
(* is only remarked on.                                                    *)
NoteItems(p) == IF p.note \in {"none", "broken"} THEN {} ELSE {Paragraph(Foot, p.note)}

\* Mutant: the items in the order they were collected.
AsCollected(items) == SetToSortSeq(items, LAMBDA a, b : a.what = "table" \/ a.y > b.y)

InOrder(items) == CHOOSE s \in SetToSeqs(items) : \A i, j \in DOMAIN s : i < j => s[i].y <= s[j].y

\* Mutant: numbers start again on every page, and so do the identifiers.
NumberedAnew(items, page) ==
  [i \in DOMAIN items |-> Block(page, items[i].y, items[i].what, items[i].words, <<"b", i>>)]

Numbered(items, page) ==
  [i \in DOMAIN items |-> Block(page, items[i].y, items[i].what, items[i].words, <<"b", Len(blocks) + i>>)]

\* Mutant: a page with text is never looked at for images.
RemarksOnOcr(p, ocr, found) ==
  {w \in {"ocr_unavailable", "tables", "annotations"} :
     CASE w = "ocr_unavailable" -> Sparse(p) /\ Raster(p) /\ ~ocr
       [] w = "tables" -> ~ocr /\ found # p.table
       [] OTHER -> p.note = "broken"}

Remarks(p, ocr, found) ==
  {w \in {"ocr_unavailable", "image_text_unread", "tables", "annotations"} :
     CASE w = "ocr_unavailable" -> Sparse(p) /\ Raster(p) /\ ~ocr
       [] w = "image_text_unread" -> Raster(p) /\ ~Sparse(p)
       [] w = "tables" -> ~ocr /\ found # p.table
       [] OTHER -> p.note = "broken"}

(* OCR may fail on any page it is tried on, the search for tables on any.  *)
ReadPage ==
  /\ step = "reading" /\ file.kind = "pdf" /\ next <= Len(file.parts)
  /\ LET p == file.parts[next]
     IN \E ocr \in {FALSE, Sparse(p) /\ Raster(p) /\ tesseract}, found \in {{}, p.table} :
          /\ blocks' = blocks \o Numbered(InOrder(
                         (IF ocr THEN OcrItems(p) ELSE LayerItems(p, found))
                            \cup NoteItems(p)), next)
          /\ warnings' = warnings \cup Remarks(p, ocr, found)
  /\ next' = next + 1
  /\ UNCHANGED <<file, step, tesseract, cells, reasons, language>>

PagesEnd ==
  /\ step = "reading" /\ file.kind = "pdf" /\ next > Len(file.parts)
  /\ step' = "read"
  /\ UNCHANGED <<file, next, tesseract, blocks, cells, warnings, reasons, language>>

-----------------------------------------------------------------------------
(* XLSX: sheet by sheet up to the limit of cells, then the comments.       *)

\* Mutant: the cell that would exceed the limit ends the sheet unremarked.
FirstCellsOnly(sheet) == [read |-> Len(sheet), more |-> FALSE]

FirstCells(sheet) ==
  LET room == MaxCells - cells
  IN IF Len(sheet) <= room THEN [read |-> Len(sheet), more |-> FALSE]
                           ELSE [read |-> room, more |-> TRUE]

ReadSheet ==
  /\ step = "reading" /\ file.kind = "xlsx" /\ next <= Len(file.parts)
  /\ "truncated" \notin warnings
  /\ LET sheet == file.parts[next]
         first == FirstCells(sheet.cells)
     IN /\ cells' = cells + first.read
        /\ warnings' = warnings \cup IF first.more THEN {"truncated"} ELSE {}
        /\ blocks' = IF first.read = 0 THEN blocks
                     ELSE blocks \o <<
                       Block(next, 0, "heading", <<sheet.name>>, <<"h", next>>),
                       Block(next, 0, "table", SubSeq(sheet.cells, 1, first.read), <<"t", next>>)>>
  /\ next' = next + 1
  /\ UNCHANGED <<file, step, tesseract, reasons, language>>

(* A part that is too large, or no XML, is passed over; the one that       *)
(* exceeds the budget of them all ends the reading, and so does the last   *)
(* comment allowed.  None of this is remarked on.                          *)
Spent(i) == LET sized == {j \in 1 .. i : file.notes[j].size <= MaxPart}
            IN FoldSet(LAMBDA j, sum : sum + file.notes[j].size, 0, sized)
ReadablePart(i) == /\ file.notes[i].size <= MaxPart
                   /\ file.notes[i].sound
                   /\ \A j \in 1 .. i : file.notes[j].size <= MaxPart => Spent(j) <= MaxParts
CommentWords == FlattenSeq([i \in DOMAIN file.notes |->
                              IF ReadablePart(i) THEN file.notes[i].words ELSE <<>>])
FirstComments == SubSeq(CommentWords, 1, IF Len(CommentWords) < MaxComments
                                         THEN Len(CommentWords) ELSE MaxComments)

\* Mutant: a workbook that was cut off never comes to its comments.
SheetsEndWhole == next > Len(file.parts)

SheetsEnd == next > Len(file.parts) \/ "truncated" \in warnings

ReadComments ==
  /\ step = "reading" /\ file.kind = "xlsx" /\ SheetsEnd
  /\ blocks' = blocks \o [i \in DOMAIN FirstComments |->
                            Block(0, 0, "comment", <<FirstComments[i]>>, <<"cmt", i>>)]
  /\ step' = "read"
  /\ UNCHANGED <<file, next, tesseract, cells, warnings, reasons, language>>

-----------------------------------------------------------------------------
(* DOCX: the body in order without its blank paragraphs; the headers of    *)
(* every section, then the footers, each text once; the comments, which    *)
(* are no reason to fail.                                                  *)

\* Mutant: a section linked to the one before it ends its headers.
MarginsUntilLinked(label) ==
  LET ms == file.margins
  IN Picked(ms, {i \in DOMAIN ms : ms[i].label = label /\ ~ms[i].linked /\ ms[i].section = 1})

Margins(label) ==
  LET ms == file.margins IN Picked(ms, {i \in DOMAIN ms : ms[i].label = label /\ ~ms[i].linked})
FirstOfText(ms) == Picked(ms, {i \in DOMAIN ms : \A j \in 1 .. i - 1 : ms[j].words # ms[i].words})

Body == Picked(file.parts, {i \in DOMAIN file.parts : file.parts[i].what # "blank"})

ReadDocx ==
  /\ step = "reading" /\ file.kind = "docx"
  /\ LET margins == FirstOfText(Margins("header") \o Margins("footer"))
         of(label, ws) == [what |-> label, words |-> ws]
         all == [i \in DOMAIN Body |-> of(Body[i].what, Body[i].words)]
                  \o [i \in DOMAIN margins |-> of(margins[i].label, margins[i].words)]
                  \o IF file.notes = "broken" THEN <<>>
                     ELSE [i \in DOMAIN file.notes |-> of("comment", <<file.notes[i]>>)]
     IN blocks' = [i \in DOMAIN all |-> Block(0, 0, all[i].what, all[i].words, <<all[i].what, i>>)]
  /\ step' = "read"
  /\ UNCHANGED <<file, next, tesseract, cells, warnings, reasons, language>>

-----------------------------------------------------------------------------
(* The text, and what is known of it.                                      *)

(* table_lines, plain_text: a table gives no more than its first cells.    *)
TextOf(b) == IF b.what = "table" THEN SubSeq(b.words, 1, IF Len(b.words) < MaxTable
                                                         THEN Len(b.words) ELSE MaxTable)
             ELSE b.words
PlainText(content) == FlattenSeq([i \in DOMAIN content |-> TextOf(content[i])])

(* detect_language, as langdetect decides by the words.                    *)
LanguageOf(words) ==
  LET tr == ToSet(words) \cap Turkish # {}
      en == ToSet(words) \cap English # {}
  IN IF tr /\ en THEN "mixed" ELSE IF tr THEN "tr" ELSE IF en THEN "en" ELSE "unknown"

\* Mutant: the first block that decides.
OverallFirst(content) ==
  LET decided == SelectSeq(content, LAMBDA b : LanguageOf(b.words) # "unknown")
  IN IF decided = <<>> THEN "unknown" ELSE LanguageOf(decided[1].words)

(* detect_content_language: one mixed block, or blocks of both languages,  *)
(* make the document mixed; where no block decides, its whole text does.   *)
Overall(content) ==
  LET seen == {LanguageOf(content[i].words) : i \in DOMAIN content}
  IN IF "mixed" \in seen \/ {"tr", "en"} \subseteq seen THEN "mixed"
     ELSE IF "tr" \in seen THEN "tr" ELSE IF "en" \in seen THEN "en"
     ELSE LanguageOf(PlainText(content))

Blocking == {"ocr_unavailable", "truncated", "image_text_unread"}

(* extract_content: the remarks that block, or no text at all.             *)
Classify ==
  /\ step = "read"
  /\ step' = "extracted"
  /\ reasons' = (warnings \cap Blocking)
                  \cup IF PlainText(blocks) = <<>> THEN {"no_text"} ELSE {}
  /\ language' = IF PlainText(blocks) = <<>> THEN "unknown" ELSE Overall(blocks)
  /\ UNCHANGED <<file, next, tesseract, blocks, cells, warnings>>

ExtractionWork ==
  \/ \E f \in Files : Receive(f)
  \/ ReadPage \/ PagesEnd \/ ReadSheet \/ ReadComments \/ ReadDocx \/ Classify

ExtractionNext == ExtractionWork \/ ParserFails

-----------------------------------------------------------------------------
(* What there was to read, and what may go unread without a word.          *)

(* Images too small to be a picture are passed over in silence.            *)
Counted(p) == IF p.measured /\ ~Ample(p) THEN {} ELSE DOMAIN p.image
PageWords(p) == {p.text[y] : y \in DOMAIN p.text} \cup {p.image[y] : y \in Counted(p)}
                  \cup ({p.note} \ {"none", "broken"})
SeqWords(seqs) == UNION {ToSet(seqs[i]) : i \in DOMAIN seqs}
Content(f) ==
  CASE f.kind = "pdf" -> UNION {PageWords(f.parts[i]) : i \in DOMAIN f.parts}
    [] f.kind = "xlsx" -> SeqWords([i \in DOMAIN f.parts |-> f.parts[i].cells])
    [] f.kind = "docx" -> SeqWords([i \in DOMAIN f.parts |-> f.parts[i].words])
                            \cup SeqWords([i \in DOMAIN f.margins |-> f.margins[i].words])
                            \cup IF f.notes = "broken" THEN {} ELSE ToSet(f.notes)
    [] OTHER -> {}
=============================================================================
