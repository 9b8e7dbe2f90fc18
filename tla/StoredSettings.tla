--------------------------- MODULE StoredSettings ---------------------------
(***************************************************************************)
(* What is read of user_settings.json (services/user_settings.py), a file  *)
(* that somebody may have edited: each field stands or falls alone, and in *)
(* a list each entry.  TermLists has the changes to it.                    *)
(*                                                                         *)
(* A field is a list or a map of entries, of another form, or absent; an   *)
(* entry has a spelling and, in the map, a family, and may be no text      *)
(* ("odd").                                                                *)
(***************************************************************************)
EXTENDS Integers, SequencesExt

CONSTANTS
  Key,       \* term_key: from the spellings, "" among them, to what they are compared by
  Families,  \* the valid families
  MaxTerms   \* 500 in the source

Default == [mode |-> "mapping", always |-> <<>>, never |-> <<>>, families |-> [t \in {} |-> ""]]

(* _clean_terms. *)
CleanTerms(terms) ==
  LET once == FoldLeft(LAMBDA out, t : IF t = "" \/ \E u \in ToSet(out) : Key[u] = Key[t]
                                       THEN out ELSE Append(out, t), <<>>, terms)
  IN SubSeq(once, 1, Min({Len(once), MaxTerms}))

(* _families_follow_the_list: of two spellings of a term the later counts. *)
FollowList(families, terms) ==
  LET named(t) == SelectSeq(families, LAMBDA f : Key[f.of] = Key[t] /\ f.family \in Families)
  IN [t \in {u \in ToSet(terms) : named(u) # <<>>} |-> Last(named(t)).family]

\* Mutant: a list is taken as it is.
UsableEntriesAll(entries) == entries

Odd(e) == "odd" \in {e.of, e.family}
UsableEntries(entries) == SelectSeq(entries, LAMBDA e : ~Odd(e))

(* _valid_fields: the usable entries of a field, or its default.           *)
Field(field, form) ==
  LET usable == UsableEntries(field.entries)
  IN IF field.form = form /\ \A e \in ToSet(usable) : ~Odd(e) THEN usable ELSE <<>>
Terms(field) == LET usable == Field(field, "list") IN CleanTerms([k \in DOMAIN usable |-> usable[k].of])
ValidFields(raw) ==
  [mode |-> IF raw.mode \in {"mapping", "destructive"} THEN raw.mode ELSE Default.mode,
   always |-> Terms(raw.always), never |-> Terms(raw.never),
   families |-> FollowList(Field(raw.families, "map"), Terms(raw.always))]
=============================================================================
