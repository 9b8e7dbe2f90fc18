-------------------------- MODULE ReviewDecisions --------------------------
(***************************************************************************)
(* A reviewer's decisions on one document and what the engine makes of     *)
(* them: targets (targets.py, payload.py), the decisions store (store.py), *)
(* the operations (decisions.py), audit terms (audit_terms.py) and the     *)
(* findings located in the masked text (findings.py).                      *)
(*                                                                         *)
(* Everything here happens under the document's lock; the writes, and what *)
(* a failing one leaves, are DocumentLifecycle's.  A unit is known by its  *)
(* position: reserve_unit_id gives every unit an id of its own, in this    *)
(* order, for the engine and for the review page alike.                    *)
(***************************************************************************)
EXTENDS MaskEngine

CONSTANTS Cases,          \* documents with what is known of them, see Init
          HardTerms,      \* keys the heuristic audit reports where they stand
          MaxDecisions

\* Documents and terms are written in signs, a block has a cell, the analyzer
\* reports the types and languages it has, families are those of TYPES, and no
\* term is masked always and never.
Terms == Seq(Seq(Symbols))
PatternOK(p) ==
  p.type \in {<<n>> : n \in DOMAIN TYPES} /\ p.score \in Int /\ p.source \in Languages
CaseOK(c) ==
  /\ c.doc \in Seq(Seq(Seq(Symbols))) /\ \A b \in DOMAIN c.doc : c.doc[b] # << >>
  /\ IsFiniteSet(c.patterns) /\ \A p \in c.patterns : PatternOK(p)
  /\ c.prefs.always \cap c.prefs.never = {} /\ \A f \in c.prefs.families : f[2] \in Families
  /\ c.repairs \subseteq Terms /\ c.reported \subseteq Terms
  /\ \A s \in c.selections : /\ s[1] \in DOMAIN FlattenSeq(c.doc) /\ s[3] \in Families
                             /\ s[2] \in Int \X Int
ASSUME CasesAssumption == HardTerms \subseteq Terms /\ \A c \in Cases : CaseOK(c)
ASSUME LengthsAssumption == {MinStructural, MinSurname, MinPrefix} \subseteq Nat \ {0} /\ MaxPrefix \in Nat
ASSUME DecisionsAssumption == MaxDecisions \in Nat

VARIABLES doc, patterns, prefs, decisions, records, out, findings, last, steps
vars == <<doc, patterns, prefs, decisions, records, out, findings, last, steps>>

Units == FlattenSeq(doc)
Masked(o, u) == Text(Units[u], o.done[u])

----------------------------------------------------------------------------
(* findings.py                                                             *)

Shifted(es, before, pos, shift(_)) ==
  IF before = {} THEN pos ELSE pos + shift(Max(before))
\* Mutant: a replacement that ends here is not behind.
ToOriginalStrict(es, pos) ==
  Shifted(es, {i \in DOMAIN es : MaskedEnd(es, i) < pos}, pos,
          LAMBDA i : es[i].end - MaskedEnd(es, i))

ToOriginal(es, pos) ==
  Shifted(es, {i \in DOMAIN es : MaskedEnd(es, i) <= pos}, pos,
          LAMBDA i : es[i].end - MaskedEnd(es, i))

\* Mutant: a replacement that ends here is not behind.
ToMaskedStrict(es, pos) ==
  Shifted(es, {i \in DOMAIN es : es[i].end < pos}, pos,
          LAMBDA i : MaskedEnd(es, i) - es[i].end)

ToMasked(es, pos) ==
  Shifted(es, {i \in DOMAIN es : es[i].end <= pos}, pos,
          LAMBDA i : MaskedEnd(es, i) - es[i].end)

EndToOriginal(es, pos) == IF pos = 0 THEN 0 ELSE ToOriginal(es, pos - 1) + 1
OriginalRange(es, r) == <<ToOriginal(es, r[1]), EndToOriginal(es, r[2])>>

Occurrences(text, term) ==
  {r \in TermRanges(text, term) : \A p \in Placeholders(text) : ~Meets(r, p)}
Occurs(o, term) == \E u \in DOMAIN Units : Occurrences(Masked(o, u), term) # {}

\* Mutant: an occurrence is kept by its offsets in the masked text.
CoversMasked(d, u, term, r, es) == term \in d.keepFindings \/ Contained(r, d.findingKeeps[u])

Covers(d, u, term, r, es) ==
  term \in d.keepFindings \/ Contained(OriginalRange(es, r), d.findingKeeps[u])

Locate(o, d, terms) ==
  LET Of(u, t) == {[unit |-> u, range |-> r, open |-> ~Covers(d, u, t, r, o.done[u])] :
                        r \in Occurrences(Masked(o, u), t)}
  IN UNION {UNION {Of(u, t) : t \in terms} : u \in DOMAIN Units}

----------------------------------------------------------------------------
(* audit_terms.py: a record is <<term, status>>.                           *)

RepairTerms(rs) == {r[1] : r \in {x \in rs : x[2] = "masked"}}
RelocateTerms(rs) == {r[1] : r \in {x \in rs : x[2] # "masked"}}
AfterPipeline(repairs, final, o) ==
  {<<t, "masked">> : t \in repairs \ final}
  \cup {<<t, IF Occurs(o, t) THEN "open" ELSE "unlocated">> : t \in final}

----------------------------------------------------------------------------
(* The re-mask: the stored original with the decisions and the lists.      *)

\* Mutant: the audit's repairs are not kept.
RemaskPlain(d, p, rs) == Anonymize(doc, patterns, Lists(p, d.keepTerms), d)

Remask(d, p, rs) ==
  Anonymize(doc, patterns,
            Lists([p EXCEPT !.always = @ \cup RepairTerms(rs)], d.keepTerms), d)

HeuristicTerms(o) == {t \in HardTerms : Occurs(o, t)}

\* Nothing is stored, and a list change is undone, when the engine raises.
Store(d, p, decided, o) ==
  /\ last' = [decided EXCEPT !.ok = o.ok]
  /\ \/ /\ o.ok
        /\ decisions' = d /\ prefs' = p /\ out' = o
        /\ findings' = Locate(o, d, RelocateTerms(records) \cup HeuristicTerms(o))
     \/ ~o.ok /\ UNCHANGED <<decisions, prefs, out, findings>>
  /\ UNCHANGED <<doc, patterns, records>>
Commit(d, p, decided) ==
  /\ steps < MaxDecisions /\ steps' = steps + 1
  /\ Store(d, p, decided, Remask(d, p, records))

----------------------------------------------------------------------------
(* targets.py and payload.py: what the page shows and a decision points at *)

Target(u, r, family, state, split) ==
  [unit |-> u, range |-> r, family |-> family, state |-> state, split |-> split]
Value(t) == Key(Piece(Units[t.unit], t.range))
Valid(t) == /\ 0 <= t.range[1] /\ t.range[1] < t.range[2]
            /\ t.range[2] <= Len(Units[t.unit]) /\ Value(t) # << >>

MaskSpans ==
  UNION {{Target(u, Extent(e), Family(e.type), IF e.source = "user" THEN "added" ELSE "masked",
                 e.source = "adjacency") : e \in ToSet(out.done[u])} : u \in DOMAIN Units}
KeptSpans ==
  UNION {{Target(u, r, "SENSITIVE", "kept", FALSE) :
            r \in {q \in decisions.keeps[u] \cup TermsRanges(Units[u], decisions.keepTerms) :
                     \A e \in ToSet(out.done[u]) : ~Meets(Extent(e), q)}} : u \in DOMAIN Units}
Items == {Target(f.unit, OriginalRange(out.done[f.unit], f.range), "SENSITIVE", "item", FALSE) :
            f \in findings}
Selections == {Target(s[1], s[2], s[3], "selection", FALSE) :
                 s \in (CHOOSE c \in Cases : c.doc = doc).selections}
Targets == {t \in MaskSpans \cup KeptSpans \cup Items \cup Selections : Valid(t)}

----------------------------------------------------------------------------
(* user_settings.py (TermLists has its limits, undo and concurrency).      *)

WithoutFamily(p, value) == {f \in p.families : f[1] # value}
WithAlways(p, value, family) ==
  [always |-> p.always \cup {value}, never |-> p.never \ {value},
   families |-> WithoutFamily(p, value) \cup {<<value, family>>}]
WithNever(p, value) ==
  [always |-> p.always \ {value}, never |-> p.never \cup {value},
   families |-> WithoutFamily(p, value)]

----------------------------------------------------------------------------
(* decisions.py                                                            *)

\* Mutant: an earlier entry for the same term stays.
WithoutNone(terms, value) == terms

WithoutTerm(terms, value) == Picked(terms, {n \in DOMAIN terms : terms[n][1] # value})
Decided(op, t, scope) == [op |-> op, target |-> t, scope |-> scope, ok |-> TRUE]
Scopes == {"occurrence", "document", "global"}
NeverMask(t, scope) == IF scope = "global" THEN WithNever(prefs, Value(t)) ELSE prefs

\* _unmask: a fragment of a split value is no term.
Unmask(t, scope) ==
  /\ t.state = "masked" /\ (t.split => scope = "occurrence")
  /\ Commit([decisions EXCEPT
               !.keeps[t.unit] = @ \cup (IF scope = "occurrence" THEN {t.range} ELSE {}),
               !.keepTerms = @ \cup (IF scope = "document" THEN {Value(t)} ELSE {})],
            NeverMask(t, scope), Decided("unmask", t, scope))

\* _undo_mask: the masks that meet the span go.  One occurrence of a document-
\* wide mask is kept instead; the term goes with the wider scopes.
UndoMask(t, scope) ==
  LET masks == decisions.masks[t.unit]
      rest == Picked(masks, {n \in DOMAIN masks : ~Meets(masks[n], t.range)})
      kept == IF scope = "occurrence" /\ rest = masks THEN {t.range} ELSE {}
  IN /\ t.state = "added"
     /\ Commit([decisions EXCEPT
                  !.masks[t.unit] = rest, !.keeps[t.unit] = @ \cup kept,
                  !.maskTerms = IF scope = "occurrence" THEN @ ELSE WithoutTerm(@, Value(t))],
               NeverMask(t, scope), Decided("undo", t, scope))

\* _mask on a kept span: the keep goes, in any scope.
UndoKeep(t, scope) ==
  /\ t.state = "kept"
  /\ Commit([decisions EXCEPT !.keeps[t.unit] = {r \in @ : ~Meets(r, t.range)},
                              !.keepTerms = @ \ {Value(t)}],
            prefs, Decided("undo keep", t, scope))

Mask(t, scope) ==
  LET Once(ws, w) == IF w \in ToSet(ws) THEN ws ELSE Append(ws, w)
  IN /\ t.state # "kept"
     /\ Commit([decisions EXCEPT
                  !.masks[t.unit] = IF scope # "occurrence" THEN @
                                    ELSE Once(@, <<t.range[1], t.range[2], t.family>>),
                  !.keepTerms = IF scope = "occurrence" THEN @ ELSE @ \ {Value(t)},
                  !.maskTerms = IF scope # "document" THEN @
                                ELSE Append(WithoutTerm(@, Value(t)), <<Value(t), t.family>>)],
               IF scope = "global" THEN WithAlways(prefs, Value(t), t.family) ELSE prefs,
               Decided("mask", t, scope))

\* _keep: the finding is not personal data.
Keep(t, scope) ==
  /\ t.state = "item"
  /\ Commit([decisions EXCEPT
               !.findingKeeps[t.unit] = @ \cup (IF scope = "occurrence" THEN {t.range} ELSE {}),
               !.keepFindings = @ \cup (IF scope = "occurrence" THEN {} ELSE {Value(t)})],
            NeverMask(t, scope), Decided("keep", t, scope))

ApplyDecision == \E t \in Targets, scope \in Scopes :
                   \/ Unmask(t, scope) \/ UndoMask(t, scope) \/ UndoKeep(t, scope)
                   \/ Mask(t, scope) \/ Keep(t, scope)

\* Approval's LLM audit: its terms replace the open ones, the repairs stay.
Reaudit(final) ==
  /\ steps < MaxDecisions /\ steps' = steps + 1
  /\ records' = AfterPipeline(RepairTerms(records), final, out)
  /\ findings' = Locate(out, decisions, final)
  /\ last' = [last EXCEPT !.op = "audit"]
  /\ UNCHANGED <<doc, patterns, prefs, decisions, out>>

----------------------------------------------------------------------------
(* The pipeline has masked the document with the lists and the repairs of  *)
(* one case, and located what its last audit reported.                     *)
NoDecisions(n) ==
  [keeps |-> [u \in 1..n |-> {}], masks |-> [u \in 1..n |-> << >>], keepTerms |-> {},
   maskTerms |-> << >>, keepFindings |-> {}, findingKeeps |-> [u \in 1..n |-> {}]]

Init ==
  \E c \in Cases :
    /\ doc = c.doc /\ patterns = c.patterns /\ prefs = c.prefs
    /\ decisions = NoDecisions(Len(Units))
    /\ out = Remask(decisions, prefs, {<<t, "masked">> : t \in c.repairs}) /\ out.ok
    /\ records = AfterPipeline(c.repairs, c.reported, out)
    /\ findings = Locate(out, decisions, c.reported \cup HeuristicTerms(out))
    /\ last = Decided("none", Target(1, <<0, 0>>, "SENSITIVE", "none", FALSE), "occurrence")
    /\ steps = 0

Next == ApplyDecision \/ \E c \in Cases : c.doc = doc /\ Reaudit(c.reported)

Spec == Init /\ [][Next]_vars

----------------------------------------------------------------------------
(* Properties                                                              *)

\* The edit lists, records and findings are of their types.
ReviewTypeOK ==
  /\ Len(out.done) = Len(Units) /\ out.ok
  /\ \A u \in DOMAIN Units :
       /\ decisions.keeps[u] \subseteq (0..Len(Units[u])) \X (0..Len(Units[u]))
       /\ decisions.findingKeeps[u] \subseteq (0..Len(Units[u])) \X (0..Len(Units[u]))
       /\ \A w \in ToSet(decisions.masks[u]) : 0 <= w[1] /\ w[1] < w[2] /\ w[2] <= Len(Units[u])
  /\ \A k \in DOMAIN decisions.maskTerms :
       \A n \in DOMAIN decisions.maskTerms : decisions.maskTerms[k][1] = decisions.maskTerms[n][1] => k = n
  /\ prefs.always \cap prefs.never = {}
  /\ \A r \in records : r[2] \in {"masked", "open", "unlocated"}
  /\ steps \in 0..MaxDecisions

\* Whatever passes wrote it, the edit list of a unit (EditBuffer) is in order,
\* disjoint and inside the unit, its masked offsets are where the replacements
\* stand in the masked text, and every literal character is where both offset
\* maps of findings.py say: an off-by-one here shows or hides a character.
OffsetsMapBack ==
  \A u \in DOMAIN Units :
    LET es == out.done[u] text == Masked(out, u)
    IN /\ \A i, j \in DOMAIN es : i < j => es[i].end <= es[j].start
       /\ \A i \in DOMAIN es : /\ 0 <= es[i].start /\ es[i].end <= Len(Units[u])
                               /\ Piece(text, <<MaskedStart(es, i), MaskedEnd(es, i)>>) = es[i].text
       /\ \A p \in 0..(Len(text) - 1) :
            LET o == Origins(Units[u], es)[p + 1]
            IN o # NoOrigin => ToOriginal(es, p) = o /\ ToMasked(es, o) = p

\* A finding the page shows at an original range (payload.py) stands there: the
\* original text is the one the audit read, with no removed fragment swallowed
\* at its ends.
FindingsPointAtTheirText ==
  \A f \in findings :
    LET r == OriginalRange(out.done[f.unit], f.range)
    IN /\ Units[f.unit][r[1] + 1] = Masked(out, f.unit)[f.range[1] + 1]
       /\ Units[f.unit][r[2]] = Masked(out, f.unit)[f.range[2]]

\* A reviewer's mask is never lost: each place of a masked occurrence, and of every
\* occurrence of a document-wide mask outside the kept ranges, is under a
\* replacement, whatever else masks, keeps or propagates (overrides.py).
Covered(u, r) == \A p \in Places(r) : \E e \in ToSet(out.done[u]) : e.start <= p /\ p < e.end
\* Each occurrence the reviewer masked, here or in the document, is covered.
ReviewersMasksHold ==
  \A u \in DOMAIN Units :
    /\ \A w \in ToSet(decisions.masks[u]) : Covered(u, w)
    /\ \A k \in DOMAIN decisions.maskTerms :
         \A r \in TermRanges(Units[u], decisions.maskTerms[k][1]) :
           Contained(r, decisions.keeps[u]) \/ Covered(u, r)

\* Nothing is masked inside an occurrence the reviewer left open, or inside a term
\* kept in this document, unless something that reaches out of it, the reviewer's
\* own mask or (for a term) a value split across cells touches it (decisions.py).
KeptStaysOpen ==
  \A u \in DOMAIN Units :
    LET Masks(k) == {e \in ToSet(out.done[u]) : Meets(Extent(e), k)}
        Out(k) == \E e \in Masks(k) : ~Within(Extent(e), k)
    IN /\ \A k \in decisions.keeps[u] :
            Masks(k) # {} => Out(k) \/ \E w \in ToSet(decisions.masks[u]) : Meets(w, k)
       /\ \A k \in TermsRanges(Units[u], decisions.keepTerms) :
            Masks(k) # {} => Out(k) \/ \E e \in Masks(k) : e.source \in {"user", "adjacency"}

\* No detection is forgotten: what the analyzer or an always-mask term (the
\* audit's repairs included) finds in the original, is not let pass by a never-
\* mask term or a gate, and meets no kept occurrence, is at least touched by a
\* replacement, after forced masks, resolution and splicing.
RunLists == Lists([prefs EXCEPT !.always = @ \cup RepairTerms(records)], decisions.keepTerms)
Hits(u) == Candidates(patterns, RunLists, Units[u])
Touched(u, r) == \E e \in ToSet(out.done[u]) : Meets(Extent(e), r)
\* So whatever is detected and not let pass is at least touched (Engine._mask_unit).
HitsAreMasked ==
  \A u \in DOMAIN Units : \A h \in Hits(u) :
    (\A k \in decisions.keeps[u] : ~Meets(Extent(h), k)) => Touched(u, Extent(h))

\* What overrides.py says of keeps: "Keep ranges and terms suppress only what
\* lies fully INSIDE them".
KeepsAreLocal ==
  \A u \in DOMAIN Units : \A h \in Hits(u) :
    ~ContainedIn(Units[u], Extent(h), decisions.keeps[u]) => Touched(u, Extent(h))

\* What resolve.py says it picks: "non-overlapping spans".
DetectionsAreDisjoint ==
  \A u \in DOMAIN Units :
    LET found == Detect(patterns, RunLists, Units[u])
    IN \A i, j \in DOMAIN found : i < j => ~Meets(Extent(found[i]), Extent(found[j]))

\* Propagation is complete: no unit of the masked document still shows another
\* spelling of a masked value, except where the reviewer keeps it (engine.py).
SpellingsAreMasked ==
  \A u \in DOMAIN Units :
    LET text == Masked(out, u)
        keep == KeepInCurrent(out.done[u], decisions.keeps[u])
                \cup KeepRanges(text, decisions.keepTerms)
    IN \A h \in FindVariants(text, out.surfaces) : ContainedIn(text, h, keep)

\* A value split across cells is one value: where a cell lost its fragment, the
\* cell before it ends in a replacement or in another lost fragment (tables.py).
SplitValueIsWhole ==
  \A u \in DOMAIN Units : \A e \in ToSet(out.done[u]) :
    e.text = << >> => /\ e.start = 0 /\ u > 1
                      /\ \E x \in ToSet(out.done[u - 1]) : x.end = Len(Units[u - 1])

\* The answer to a finding settles it: kept, its text is not open any more; masked,
\* it is not there any more, unless it lies in an occurrence the reviewer left open before
\* and the mask is for more than this occurrence, or in a longer term that is never
\* masked and the mask is for all documents (decisions.py, findings.py, lists.py).
AnswerSettles ==
  [][(last'.op \in {"mask", "keep"} /\ last'.target.state = "item" /\ steps' > steps) =>
       LET t == last'.target
           open == {OriginalRange(out'.done[t.unit], f.range) :
                      f \in {x \in findings' : x.unit = t.unit /\ x.open}}
       IN IF last'.op = "keep" THEN t.range \notin open
          ELSE (\E r \in open : Meets(r, t.range)) =>
                 \/ /\ last'.scope \in {"document", "global"}
                    /\ Contained(t.range, decisions.keeps[t.unit])
                 \/ /\ last'.scope = "global"
                    /\ Contained(t.range, KeepRanges(Units[t.unit], RunLists'.allow))]_vars

----------------------------------------------------------------------------
\* The three records of one text agree: what is shown, the edits that lead to it
\* and the findings that point into it (masked_to_original, original_to_masked).
OffsetsAgree == ReviewTypeOK /\ OffsetsMapBack /\ FindingsPointAtTheirText

\* The reviewer has the last word on each value, for and against a mask
\* (_mask_spans, _kept_spans, apply_forced).
ReviewerRules == ReviewersMasksHold /\ KeptStaysOpen

\* No spelling and no part of a value that has to be masked slips by
\* (_propagate, _merge_run, repair_terms).
NothingSlipsBy == HitsAreMasked /\ SpellingsAreMasked /\ SplitValueIsWhole
=============================================================================
