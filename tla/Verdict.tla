------------------------------ MODULE Verdict -------------------------------
(***************************************************************************)
(* What the answer of the language model becomes (models/findings.py): the *)
(* first JSON object is cut out of the text, and a result is made of it    *)
(* that says nothing of the document but lengths, known types and pages.   *)
(*                                                                         *)
(* A text is a sequence of characters: braces, the quote, the backslash,   *)
(* and "x" for any other.  An object that was cut out is a record of what  *)
(* the model wrote under each name.                                        *)
(***************************************************************************)
EXTENDS Integers, SequencesExt

None == <<>>   \* no object

-----------------------------------------------------------------------------
(* _extract_first_json_object.                                             *)

Scan == [depth |-> 0, string |-> FALSE, escape |-> FALSE, end |-> 0]

\* Mutant: a quote always opens or closes a string.
ReadUnescaped(s, c, i) ==
  CASE c = "quote" -> [s EXCEPT !.string = ~s.string]
    [] c # "quote" /\ s.string -> s
    [] ~s.string /\ c = "{" -> [s EXCEPT !.depth = @ + 1]
    [] ~s.string /\ c = "}" -> [s EXCEPT !.depth = @ - 1, !.end = IF s.depth = 1 THEN i ELSE 0]
    [] OTHER -> s

Read(s, c, i) ==
  CASE s.string /\ s.escape -> [s EXCEPT !.escape = FALSE]
    [] s.string /\ ~s.escape -> [s EXCEPT !.escape = c = "backslash", !.string = c # "quote"]
    [] ~s.string /\ c = "quote" -> [s EXCEPT !.string = TRUE]
    [] ~s.string /\ c = "{" -> [s EXCEPT !.depth = @ + 1]
    [] ~s.string /\ c = "}" -> [s EXCEPT !.depth = @ - 1, !.end = IF s.depth = 1 THEN i ELSE 0]
    [] OTHER -> s

(* The text from the first brace to the one that closes it. *)
FirstObject(raw) ==
  LET start == SelectInSeq(raw, LAMBDA c : c = "{")
      rest == SubSeq(raw, start, Len(raw))
      last == FoldLeft(LAMBDA s, i : IF s.end > 0 THEN s ELSE Read(s, rest[i], i),
                       Scan, [i \in DOMAIN rest |-> i])
  IN IF start = 0 \/ last.end = 0 THEN None ELSE SubSeq(rest, 1, last.end)

-----------------------------------------------------------------------------
(* SensitiveItem: a value the model names is [text, of] with its length,   *)
(* or the hint of a stored document; a place has a page, 0 for none, and    *)
(* may have words.                                                         *)

KnownTypes == {"PERSON", "EMAIL", "UNKNOWN"}
Hint(n) == [text |-> "hint", of |-> n]
Silent == [text |-> "", of |-> 0]

\* Mutant: a short value is no secret.
SnippetShort(v) == IF v.text # "hint" /\ v.of > 2 THEN Hint(v.of) ELSE v

Snippet(v) == IF v.text = "hint" THEN v ELSE IF v.of > 0 THEN Hint(v.of) ELSE Silent

Item(i) == [type |-> IF i.type \in KnownTypes THEN i.type ELSE "UNKNOWN", snippet |-> Snippet(i.snippet),
            location |-> [i.location EXCEPT !.words = FALSE], note |-> ""]

-----------------------------------------------------------------------------
(* AuditResult.parse_llm_json.  The items the model wrote may be left out, *)
(* be a list, whose entries are items or are not, or something else: a     *)
(* number or a truth value cannot be walked through, and the call raises.  *)

FailClosed == [ok |-> FALSE, approved |-> FALSE, items |-> <<>>, terms |-> <<>>]
Raises == [ok |-> FALSE, approved |-> FALSE, items |-> <<"raised">>, terms |-> <<>>]

Entries(o) == IF o.items.form = "list" THEN o.items.list ELSE <<>>
Named(o) == SelectSeq(Entries(o), LAMBDA e : e.form = "item" /\ e.item.snippet.of > 0)

\* Mutant: an entry that is no item is passed over.
ValidAnyway(o) == o.fields = "valid" /\ o.items.form \in {"none", "list"}

Valid(o) == /\ o.fields = "valid" /\ o.items.form \in {"none", "list"}
            /\ \A e \in ToSet(Entries(o)) : e.form = "item"

ParseLlmJson(o) ==
  CASE o = None -> FailClosed
    [] o # None /\ o.items.form = "number" -> Raises
    [] o # None /\ o.items.form # "number" /\ ~Valid(o) -> FailClosed
    [] OTHER ->
         LET items == SelectSeq(Entries(o), LAMBDA e : e.form = "item")
         IN [ok |-> TRUE, approved |-> o.approved,
             items |-> [k \in DOMAIN items |-> Item(items[k].item)],
             terms |-> [k \in DOMAIN Named(o) |-> Named(o)[k].item.snippet.text]]
=============================================================================
