---------------------------- MODULE Identifiers -----------------------------
(***************************************************************************)
(* Which values are taken for what (anonymization/recognizers/*,           *)
(* analyzer.py, types.py): a table of recognizers, the scores context      *)
(* gives them, and the checksum of the Turkish national number.            *)
(*                                                                         *)
(* A regular expression is here the set of forms it matches as a whole; a  *)
(* form is the shape of a value, named for an example of it.  Scores are   *)
(* in hundredths.                                                          *)
(***************************************************************************)
EXTENDS Integers, SequencesExt

-----------------------------------------------------------------------------
(* The checksum.                                                           *)

DigitSum(d, places) == MapThenSumSet(LAMBDA i : d[i], places)

\* Mutant: the odd places begin with the second.
ValidTcknShifted(d) ==
  /\ Len(d) = 11 /\ d[1] # 0
  /\ DigitSum(d, 1 .. 10) % 10 = d[11]
  /\ (7 * DigitSum(d, {2, 4, 6, 8, 10}) - DigitSum(d, {1, 3, 5, 7})) % 10 = d[10]

\* valid_tckn
ValidTckn(d) ==
  /\ Len(d) = 11 /\ d[1] # 0
  /\ DigitSum(d, 1 .. 10) % 10 = d[11]
  /\ (7 * DigitSum(d, {1, 3, 5, 7, 9}) - DigitSum(d, {2, 4, 6, 8})) % 10 = d[10]

-----------------------------------------------------------------------------
(* The recognizers.                                                        *)

Recognizer(type, base, forms, context) ==
  [type |-> type, base |-> base, forms |-> forms, context |-> context]

AccountWords == {"hesap", "iban"}
SecretWords == {"token", "password"}
AddressWords == {"adres"}

TurkishRecognizers == {
  Recognizer("TR_TCKN", 30, {"tckn", "tckn_44", "eleven"}, {"kimlik"}),
  Recognizer("TR_VKN", 20, {"ten", "ten_abroad", "gsm", "landline"}, {"vergi"}),
  Recognizer("TR_GSM", 50, {"gsm", "gsm_0", "gsm_90"}, {"tel", "telefon"}),
  Recognizer("TR_PHONE", 30, {"landline", "landline_0"}, {"tel", "telefon"}),
  Recognizer("TR_IBAN", 70, {"tr_iban", "tr_iban_spaced"}, AccountWords),
  Recognizer("TR_PLATE", 40, {"plate"}, {"plaka"}),
  Recognizer("TR_PASSPORT", 45, {"passport_tr"}, {"passport"}),
  Recognizer("TR_SALARY_BAND", 30, {"salary_range", "salary_floor"}, {"ücret"}),
  Recognizer("TR_COMPANY", 55, {"company"}, {"firma"}),
  Recognizer("TR_ADDRESS", 50, {"address"}, AddressWords),
  Recognizer("TR_DISABILITY", 60, {"disability"}, {"engel"}),
  Recognizer("TR_HEALTH", 85, {"health"}, {})}

AccountRecognizers == {
  Recognizer("TR_ACCOUNT", 45, {"account_grouped"}, AccountWords),
  Recognizer("TR_ACCOUNT", 25, {"account_bare", "tckn", "tckn_44", "eleven", "ten", "ten_abroad",
                                "gsm", "landline"}, AccountWords)}

SecretRecognizers == {
  Recognizer("SECRET_KEY", 85, {"stripe", "github"}, SecretWords),
  Recognizer("SECRET_KEY", 80, {"aws", "google", "jwt"}, SecretWords),
  Recognizer("SECRET_KEY", 70, {"bearer"}, SecretWords),
  Recognizer("SECRET_KEY", 15, {"long_run"}, SecretWords)}

(* turkish_fields.py, and a name after its label: the label is no part of  *)
(* the value.                                                              *)
Labelled == {
  Recognizer("TR_PERSON_CTX", 50, {"after_title"}, {}),
  Recognizer("TR_PERSON_CTX", 60, {"name_field"}, {}),
  Recognizer("TR_ADDRESS", 60, {"official_address"}, AddressWords)}

EnglishRecognizers == {
  Recognizer("US_SSN", 50, {"ssn"}, {"ssn"}),
  Recognizer("UK_PHONE", 40, {"uk_phone", "gsm_0", "landline_0", "tckn_44"}, {"tel", "phone"}),
  Recognizer("PASSPORT", 20, {"passport_tr", "passport_en"}, {"passport"}),
  Recognizer("DRIVER_LICENSE", 20, {"passport_en", "licence"}, {"driver"})}

(* Presidio's own, of those that match one of these forms: an e-mail of no *)
(* known domain is refused, and ten bare digits may be a telephone number  *)
(* of a country it asks ("ten_abroad"; "ten" and "landline" are none).     *)
(* Its weak numbers, which need an English word near them, are left out.   *)
Predefined == {
  Recognizer("EMAIL_ADDRESS", 50, {"email", "email_unknown"}, {}),
  Recognizer("CREDIT_CARD", 30, {"card", "digits_16"}, {}),
  Recognizer("IBAN_CODE", 50, {"tr_iban", "tr_iban_spaced"}, {"iban"}),
  Recognizer("PHONE_NUMBER", 40, {"gsm_0", "gsm_90", "landline_0", "uk_phone", "ten_abroad"},
             {"tel", "phone"})}

Recognizers == TurkishRecognizers \cup AccountRecognizers \cup SecretRecognizers
                 \cup Labelled \cup EnglishRecognizers \cup Predefined

(* What no recognizer takes: a password after its label, a telephone       *)
(* number with dots, an IBAN not spaced in fours, a short bearer token.    *)
Unrecognized == {"credential", "gsm_dotted", "iban_odd", "bearer_short"}
Forms == UNION {r.forms : r \in Recognizers} \cup Unrecognized

-----------------------------------------------------------------------------
(* Scores.                                                                 *)

Threshold == 40   \* anonymizer_score_threshold
Boost == 35       \* what a context word near the value adds

\* Presidio: a validator decides alone, context lifts a score to 40 at least.
Validated == [TR_TCKN |-> {"tckn", "tckn_44"}, CREDIT_CARD |-> {"card"},
              IBAN_CODE |-> {"tr_iban", "tr_iban_spaced"}, EMAIL_ADDRESS |-> {"email"}]

\* Mutant: the enhancer finds no lemma, so no context (xx_ent_wiki_sm has none).
NearLemmas(r, near) == FALSE

\* SurfaceFormContextAwareEnhancer: a word as it stands near the value.
Near(r, near) == r.context \cap near # {}

Score(r, form, near) ==
  IF r.type \in DOMAIN Validated
  THEN IF form \in Validated[r.type] THEN 100 ELSE 0
  ELSE IF Near(r, near) THEN Max({Threshold, Min({100, r.base + Boost})}) ELSE r.base

(* What the engine is told of a value, both languages asked.               *)
Hits(form, near) ==
  {h \in {[type |-> r.type, score |-> Score(r, form, near)] :
            r \in {r \in Recognizers : form \in r.forms}} : h.score >= Threshold}

Tier0 == {"TR_IBAN", "TR_TCKN", "TR_GSM", "TR_PHONE", "IBAN_CODE", "CREDIT_CARD",
          "EMAIL_ADDRESS", "US_SSN", "UK_PHONE", "IP_ADDRESS", "URL"}
Family(type) ==
  CASE type \in {"TR_IBAN", "IBAN_CODE"} -> "IBAN"
    [] type \in {"TR_GSM", "TR_PHONE", "UK_PHONE", "PHONE_NUMBER"} -> "PHONE"
    [] type \in {"TR_PASSPORT", "PASSPORT"} -> "PASSPORT"
    [] OTHER -> type

\* Mutant: the score alone.
BeatsByScore(g, h) == g.score > h.score

\* resolve_spans, for hits on the same range: the tier, then the score.
Beats(g, h) == LET tier(x) == IF x.type \in Tier0 THEN 0 ELSE 1
               IN tier(g) < tier(h) \/ (tier(g) = tier(h) /\ g.score > h.score)

Families(form, near) ==
  {Family(h.type) : h \in {h \in Hits(form, near) : \A g \in Hits(form, near) : ~Beats(g, h)}}

\* Mutant: eleven digits are enough for a national number.
BackstopUnvalidated == {"email", "tr_iban", "card", "gsm_0", "tckn", "eleven"}

(* HeuristicAuditor: the forms its patterns find in a text, of themselves. *)
Backstop == {"email", "email_unknown", "tr_iban", "tr_iban_spaced", "iban_odd", "card", "digits_16",
             "gsm_0", "gsm_90", "gsm_dotted", "stripe", "aws", "github", "google", "bearer",
             "bearer_short", "credential", "tckn", "tckn_44"}
=============================================================================
