----------------------------- MODULE TermLists -----------------------------
(***************************************************************************)
(* The global term lists (services/user_settings.py): "always mask" with a *)
(* family per term, "never mask".  Three parties change them: decisions    *)
(* with global scope, each under the lock of its own document only         *)
(* (review/decisions.py), their undo when the re-mask fails, and the       *)
(* settings dialog, which sends back a copy of everything it once read.    *)
(* Each change is one read-modify-write under the lock of the settings.    *)
(*                                                                         *)
(* Terms are compared by their key; a term here is a key, and its spelling *)
(* is left out.  Of decisions.json the document-wide parts are kept; the   *)
(* ranges of single occurrences touch no list and are left out.            *)
(***************************************************************************)
EXTENDS Naturals, Sequences, SequencesExt, TLC

CONSTANTS
  Docs, Terms, Families,
  Limit,         \* _MAX_TERMS
  MaxSaves,      \* bound on the saves of the settings dialog; 0: it is not used
  MaxDecisions,  \* bound on the decisions taken
  MaxFaults,     \* bound on failing reads, writes and re-masks
  MaxCrashes     \* bound on the ends of the process

ASSUME ListBoundsAssumption ==
  {Limit, MaxSaves, MaxDecisions, MaxFaults, MaxCrashes} \subseteq Nat

VARIABLES
  prefs,      \* user_settings.json
  decisions,  \* decisions.json of each document
  masked,     \* what layer 3 of each document was masked with
  op,         \* the decision under way, under the document's lock
  cache,      \* the settings the browser read last
  dialog,     \* the settings dialog: the draft and what it was opened with
  wanted,     \* terms the user last asked to be masked everywhere (history)
  accepted,   \* decisions of each document as of its last success (history)
  bounds      \* decisions, faults, crashes and saves so far

vars == <<prefs, decisions, masked, op, cache, dialog, wanted, accepted, bounds>>

Elements(s) == ToSet(s)
Modes == {"mapping", "destructive"}

----------------------------------------------------------------------------
(* The settings.                                                           *)

\* Mutant: the limit is missed by one.
CleanShort(p) ==
  LET kept == SubSeq(p.always, 1, IF Len(p.always) < Limit THEN Len(p.always) ELSE Limit - 1)
  IN  [p EXCEPT !.always = kept,
                !.family = [t \in DOMAIN p.family \cap Elements(kept) |-> p.family[t]]]

Cut(s) == SubSeq(s, 1, IF Len(s) < Limit THEN Len(s) ELSE Limit)
\* The validators of UserSettings: a list ends at the limit, families follow it.
Clean(p) ==
  [always |-> Cut(p.always), never |-> Cut(p.never), mode |-> p.mode,
   family |-> [t \in DOMAIN p.family \cap Elements(Cut(p.always)) |-> p.family[t]]]

\* Mutant: a term may be listed twice.
JoinedAgain(s, t) == Append(s, t)

\* A term joins a list once.
Joined(s, t) == IF t \in Elements(s) THEN s ELSE Append(s, t)

\* Mutant: the term stays on the never-mask list.
WithAlwaysOnly(p, t, f) ==
  Clean([p EXCEPT !.always = Joined(@, t),
                  !.family = [u \in DOMAIN @ \cup {t} |->
                                IF u = t THEN f ELSE p.family[u]]])

\* The list without the term, which it has once.
Without(s, t) ==
  IF t \in Elements(s) THEN RemoveAt(s, CHOOSE i \in DOMAIN s : s[i] = t) ELSE s

WithAlways(p, t, f) ==
  Clean([always |-> Joined(p.always, t), never |-> Without(p.never, t), mode |-> p.mode,
         family |-> [u \in DOMAIN p.family \cup {t} |-> IF u = t THEN f ELSE p.family[u]]])

WithNever(p, t) ==
  Clean([always |-> Without(p.always, t), never |-> Joined(p.never, t), mode |-> p.mode,
         family |-> [u \in DOMAIN p.family \ {t} |-> p.family[u]]])

\* A change of the lists that a decision asks for; "none" asks for none.
Change == [kind : {"none", "always", "never"}, term : Terms, family : Families]

Changed(p, c) == CASE c.kind = "always" -> WithAlways(p, c.term, c.family)
                   [] c.kind = "never"  -> WithNever(p, c.term)
                   [] c.kind = "none"   -> p

Empty == [always |-> << >>, never |-> << >>, family |-> << >>, mode |-> "mapping"]

----------------------------------------------------------------------------
(* What a decision does to decisions.json.                                 *)

NoDecisions == [keep |-> {}, mask |-> << >>, findings |-> {}]

WithoutMask(d, t) == [d EXCEPT !.mask = [u \in DOMAIN @ \ {t} |-> d.mask[u]]]

\* _unmask and _undo_mask, _mask, _keep, with document or global scope: the
\* decisions after it, and the change it asks for.
Outcomes(d, t, f) ==
  LET Result(new, kind) == [new |-> new, change |-> [kind |-> kind, term |-> t, family |-> f]]
      unkept == [d EXCEPT !.keep = @ \ {t}]
      found  == [d EXCEPT !.findings = @ \cup {t}]
  IN  {Result([d EXCEPT !.keep = @ \cup {t}], "none"), Result(d, "never"),
       Result(WithoutMask(d, t), "none"), Result(WithoutMask(d, t), "never"),
       Result(unkept, "none"), Result(unkept, "always"),
       Result([unkept EXCEPT !.mask = [u \in DOMAIN @ \cup {t} |->
                                         IF u = t THEN f ELSE d.mask[u]]], "none"),
       Result(found, "none"), Result(found, "never")}

----------------------------------------------------------------------------
(* A decision, step by step: the lock of its document is held throughout.  *)

Idle == [stage |-> "idle"]

Lists(p) == [always |-> Elements(p.always), never |-> Elements(p.never),
             family |-> p.family]

At(d, stage) == op[d].stage = stage
Goes(d, stage) == op' = [op EXCEPT ![d].stage = stage]

\* Others whose change of this term is taken back on purpose.
Opposed(o, d, t) ==
  [e \in Docs |-> IF e # d /\ o[e].stage # "idle" /\ o[e].change.term = t
                    THEN [o[e] EXCEPT !.opposed = TRUE] ELSE o[e]]

\* apply_decision: the stored decisions are read, the new ones computed.
Decide(d) ==
  /\ At(d, "idle") /\ bounds.decisions < MaxDecisions
  /\ bounds' = [bounds EXCEPT !.decisions = @ + 1]
  /\ \E t \in Terms, f \in Families : \E r \in Outcomes(decisions[d], t, f) :
       op' = [op EXCEPT ![d] =
         [stage |-> IF r.change.kind = "none" THEN "terms" ELSE "change",
          new |-> r.new, previous |-> decisions[d], change |-> r.change,
          before |-> Empty, applied |-> Empty, lists |-> Lists(Empty),
          opposed |-> FALSE]]
  /\ UNCHANGED <<prefs, decisions, masked, cache, dialog, wanted, accepted>>

\* _commit writes the change of the lists first.
ChangeLists(d) ==
  /\ At(d, "change")
  /\ LET c   == op[d].change
         new == Clean(Changed(prefs, c))
         own == [op EXCEPT ![d] = [@ EXCEPT !.stage = "terms", !.before = prefs,
                                            !.applied = new, !.opposed = FALSE]]
     IN  /\ prefs' = new
         /\ op' = IF c.kind = "never" THEN Opposed(own, d, c.term) ELSE own
         /\ wanted' = IF c.kind = "never" THEN wanted \ {c.term} ELSE wanted
  /\ UNCHANGED <<decisions, masked, cache, dialog, accepted, bounds>>

\* reanonymize reads the terms, then the families: two reads of the file.
ReadTerms(d) ==
  /\ At(d, "terms")
  /\ op' = [op EXCEPT ![d].stage = "families", ![d].lists = Lists(prefs)]
  /\ UNCHANGED <<prefs, decisions, masked, cache, dialog, wanted, accepted, bounds>>

ReadFamilies(d) ==
  /\ At(d, "families")
  /\ op' = [op EXCEPT ![d].stage = "save", ![d].lists.family = prefs.family]
  /\ UNCHANGED <<prefs, decisions, masked, cache, dialog, wanted, accepted, bounds>>

SaveDecisions(d) ==
  /\ At(d, "save")
  /\ decisions' = [decisions EXCEPT ![d] = op[d].new]
  /\ Goes(d, "store")
  /\ UNCHANGED <<prefs, masked, cache, dialog, wanted, accepted, bounds>>

\* write_output of _store_remask: layer 3 shows the decisions.
StoreText(d) ==
  /\ At(d, "store")
  /\ masked' = [masked EXCEPT ![d] = [decisions |-> op[d].new, lists |-> op[d].lists]]
  /\ Goes(d, "findings")
  /\ UNCHANGED <<prefs, decisions, cache, dialog, wanted, accepted, bounds>>

\* It put its term on the always-mask list, where the limit left it, and nobody
\* took it off on purpose since.
Stays(o) == /\ o.change.kind = "always" /\ ~o.opposed
            /\ o.change.term \in Elements(o.applied.always)

\* The findings and the record are stored: the decision has succeeded.
Finish(d) ==
  /\ At(d, "findings")
  /\ op' = [op EXCEPT ![d] = Idle]
  /\ accepted' = [accepted EXCEPT ![d] = op[d].new]
  /\ wanted' = IF Stays(op[d]) THEN wanted \cup {op[d].change.term} ELSE wanted
  /\ UNCHANGED <<prefs, decisions, masked, cache, dialog, bounds>>

Undone(d) == IF op[d].change.kind = "none" THEN Idle ELSE [op[d] EXCEPT !.stage = "undo"]

\* Mutant: a failed re-mask leaves the new decisions behind.
FailsUnrestored(d) ==
  /\ op[d].stage # "idle" /\ bounds.faults < MaxFaults
  /\ bounds' = [bounds EXCEPT !.faults = @ + 1]
  /\ op' = [op EXCEPT ![d] =
       IF op[d].stage \in {"change", "undo", "restore"} THEN Idle ELSE Undone(d)]
  /\ UNCHANGED <<prefs, decisions, masked, cache, dialog, wanted, accepted>>

\* Something fails: before the lists changed nothing is to be undone, before the
\* decisions were saved only the lists, after it both.  A failing restore of the
\* decisions still undoes the lists; a failing undo ends the request.
Fails(d) ==
  /\ op[d].stage # "idle" /\ bounds.faults < MaxFaults
  /\ bounds' = [bounds EXCEPT !.faults = @ + 1]
  /\ op' = [op EXCEPT ![d] =
       CASE op[d].stage \in {"change", "undo"}                    -> Idle
         [] op[d].stage \in {"terms", "families", "save", "restore"} -> Undone(d)
         [] op[d].stage \in {"store", "findings"} -> [op[d] EXCEPT !.stage = "restore"]]
  /\ UNCHANGED <<prefs, decisions, masked, cache, dialog, wanted, accepted>>

RestoreDecisions(d) ==
  /\ At(d, "restore")
  /\ decisions' = [decisions EXCEPT ![d] = op[d].previous]
  /\ op' = [op EXCEPT ![d] = Undone(d)]
  /\ UNCHANGED <<prefs, masked, cache, dialog, wanted, accepted, bounds>>

\* Mutant: the lists are not compared.
UndoBlindly(d) ==
  /\ At(d, "undo")
  /\ prefs' = Clean(op[d].before)
  /\ op' = [op EXCEPT ![d] = Idle]
  /\ UNCHANGED <<decisions, masked, cache, dialog, wanted, accepted, bounds>>

\* The undo of _commit: the lists of before, if they are what it wrote.
Undo(d) ==
  /\ At(d, "undo")
  /\ prefs' = Clean(IF prefs = op[d].applied THEN op[d].before ELSE prefs)
  /\ op' = [op EXCEPT ![d] = Idle]
  /\ UNCHANGED <<decisions, masked, cache, dialog, wanted, accepted, bounds>>

Crash ==
  /\ bounds.crashes < MaxCrashes
  /\ bounds' = [bounds EXCEPT !.crashes = @ + 1]
  /\ op' = [d \in Docs |-> Idle]
  /\ UNCHANGED <<prefs, decisions, masked, cache, dialog, wanted, accepted>>

----------------------------------------------------------------------------
(* The settings dialog (features/settings).                                *)

Closed == [open |-> FALSE]

\* A read of the settings arrives in the browser; an open dialog starts anew.
Fetch ==
  /\ MaxSaves > 0
  /\ cache' = prefs
  /\ dialog' = IF dialog.open
                 THEN [open |-> TRUE, draft |-> prefs, from |-> prefs] ELSE dialog
  /\ UNCHANGED <<prefs, decisions, masked, op, wanted, accepted, bounds>>

\* The dialog opens on what was read last.
OpenDialog ==
  /\ ~dialog.open /\ bounds.saves < MaxSaves
  /\ dialog' = [open |-> TRUE, draft |-> cache, from |-> cache]
  /\ UNCHANGED <<prefs, decisions, masked, op, cache, wanted, accepted, bounds>>

\* Another mode, or one term more or less on one list.  One edit (bound) before
\* the dialog is saved or opened again.
EditDialog ==
  /\ dialog.open /\ dialog.draft = dialog.from
  /\ \E t \in Terms, list \in {"always", "never"}, m \in Modes :
       dialog' \in {[dialog EXCEPT !.draft.mode = m],
                   [dialog EXCEPT !.draft[list] = Joined(@, t)],
                   [dialog EXCEPT !.draft[list] = Without(@, t)]}
  /\ dialog' # dialog
  /\ UNCHANGED <<prefs, decisions, masked, op, cache, wanted, accepted, bounds>>

CloseDialog ==
  /\ dialog.open
  /\ dialog' = Closed
  /\ UNCHANGED <<prefs, decisions, masked, op, cache, wanted, accepted, bounds>>

\* PUT /api/settings with every field of the draft.
SaveDialog ==
  /\ dialog.open
  /\ LET before == Elements(dialog.from.always)
         after  == Elements(Clean(dialog.draft).always)
     IN  /\ prefs' = Clean(dialog.draft)
         /\ wanted' = (wanted \ (before \ after)) \cup (after \ before)
         /\ op' = [d \in Docs |->
              IF op[d].stage # "idle" /\ op[d].change.term \in before \ after
                THEN [op[d] EXCEPT !.opposed = TRUE] ELSE op[d]]
  /\ cache' = prefs' /\ dialog' = Closed
  /\ bounds' = [bounds EXCEPT !.saves = @ + 1]
  /\ UNCHANGED <<decisions, masked, accepted>>

----------------------------------------------------------------------------

Init ==
  /\ prefs = Empty /\ cache = Empty /\ dialog = Closed
  /\ decisions = [d \in Docs |-> NoDecisions]
  /\ accepted = decisions
  /\ masked = [d \in Docs |-> [decisions |-> NoDecisions, lists |-> Lists(Empty)]]
  /\ op = [d \in Docs |-> Idle]
  /\ wanted = {}
  /\ bounds = [decisions |-> 0, faults |-> 0, crashes |-> 0, saves |-> 0]

Decision(d) ==
  \/ Decide(d) \/ ChangeLists(d) \/ ReadTerms(d) \/ ReadFamilies(d)
  \/ SaveDecisions(d) \/ StoreText(d) \/ Finish(d)
  \/ Fails(d) \/ RestoreDecisions(d) \/ Undo(d)

Dialog == Fetch \/ OpenDialog \/ EditDialog \/ CloseDialog \/ SaveDialog

Next == (\E d \in Docs : Decision(d)) \/ Crash \/ Dialog

Spec == Init /\ [][Next]_vars

----------------------------------------------------------------------------
(* Properties.                                                             *)

Partial(S, T) == UNION {[some -> T] : some \in SUBSET S}

\* Each list has each term once and at most Limit of them, and only terms that
\* are always masked have a family (the validators of UserSettings).
PrefsOK(p) ==
  /\ p.mode \in Modes
  /\ \A s \in {p.always, p.never} :
       s \in Seq(Terms) /\ Len(s) <= Limit /\ IsInjective(s)
  /\ p.family \in Partial(Elements(p.always), Families)

DecisionsOK(d) == /\ d.keep \subseteq Terms /\ d.findings \subseteq Terms
                  /\ d.mask \in Partial(Terms, Families)

\* The lists are injective and within their limit (UserSettings._clean_terms).
TermsTypeOK ==
  /\ PrefsOK(prefs) /\ PrefsOK(cache)
  /\ \A d \in Docs :
       /\ DecisionsOK(decisions[d]) /\ DecisionsOK(accepted[d])
       /\ DecisionsOK(masked[d].decisions)
       /\ At(d, "idle") \/ op[d].change \in Change
  /\ wanted \subseteq Terms

\* A term that a decision or the dialog put on the always-mask list stays there
\* until a decision or the dialog takes this term off it: concurrent changes of
\* the lists lose nothing (update_user_settings).
NoTermIsLost == wanted \subseteq Elements(prefs.always)

\* Decisions alone, on whatever documents at once, lose no term; an undo or a
\* save of the dialog may.
Undisturbed == bounds.faults = 0 /\ bounds.saves = 0
\* Decisions on different documents hold different locks and change one list: while
\* nothing fails, none of them takes away a term another one added (_LOCK of
\* update_user_settings).
DecisionsLoseNoTerm == Undisturbed => NoTermIsLost

\* When a decision to mask a term everywhere stores its text, the text was masked
\* with that term on the list, unless it was taken off in the meantime (_commit
\* changes the lists first because the re-mask reads them).
GlobalMaskApplies ==
  [][\A d \in Docs :
       (/\ Undisturbed
        /\ At(d, "store") /\ op'[d].stage = "findings"
        /\ Stays(op[d]))
         => op[d].change.term \in masked'[d].lists.always \ masked'[d].lists.never]_vars

\* An undo gives back the whole settings of before, and yet changes nothing but
\* the decision's own term: not another's term, not a setting of the dialog.
Others(p, t) == [always |-> Without(p.always, t), never |-> Without(p.never, t),
                 family |-> [u \in DOMAIN p.family \ {t} |-> p.family[u]],
                 mode   |-> p.mode]
\* The undo of _commit takes away the decision's own term and nothing else.
UndoTouchesOnlyItsTerm ==
  [][\A d \in Docs : At(d, "undo") /\ op'[d].stage = "idle" =>
       Others(prefs', op[d].change.term) = Others(prefs, op[d].change.term)]_vars

\* After one failure decisions.json holds what the last successful decision left:
\* a decision that failed is not applied by the next one (decisions.py:10).
FailedDecisionIsGone ==
  \A d \in Docs : At(d, "idle") /\ bounds.crashes = 0 /\ bounds.faults <= 1 =>
    decisions[d] = accepted[d]

----------------------------------------------------------------------------
\* A decision that was accepted is kept, in the lists and on the document, and
\* one that failed is in neither (_commit).
DecisionsAreKept == TermsTypeOK /\ DecisionsLoseNoTerm /\ FailedDecisionIsGone

\* Documents, terms and families are interchangeable (TLC).
Symmetry == Permutations(Docs) \cup Permutations(Terms) \cup Permutations(Families)
=============================================================================
