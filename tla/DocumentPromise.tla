--------------------------- MODULE DocumentPromise ---------------------------
(***************************************************************************)
(* What Screenwall promises of one document to the person who uploads it,  *)
(* without files, locks, revisions or failures: a text is shown as approved *)
(* or given to chat only after an audit of that very text; while it is     *)
(* approved it is never replaced, only taken back, and chat gets the text  *)
(* that is shown; what was rejected or has failed is never shown again;    *)
(* and what was deleted is gone.  DocumentLifecycle implements it, and     *)
(* ChatConsent relies on nothing else.                                     *)
(***************************************************************************)
CONSTANTS Texts, NoText

VARIABLES
  phase,    \* what the library page says of the document
  shown,    \* the text that can be downloaded as approved
  shared,   \* the text that chat would read
  audited   \* the texts an LLM audit read

promiseVars == <<phase, shown, shared, audited>>

Phases == {"none", "working", "review", "approved", "rejected", "failed", "gone"}

PromiseInit ==
  phase = "none" /\ shown = NoText /\ shared = NoText /\ audited = {}

Uploaded ==
  /\ phase = "none" /\ phase' = "working"
  /\ UNCHANGED <<shown, shared, audited>>

\* An audit may read a text of a document that is worked on or reviewed.
Hear ==
  /\ phase \in {"working", "review"}
  /\ \E t \in Texts : audited' = audited \cup {t}
  /\ UNCHANGED <<phase, shown, shared>>

Finish ==
  /\ phase = "working" /\ phase' \in {"review", "failed"}
  /\ UNCHANGED <<shown, shared, audited>>

\* The text for chat is put in place just before the approval.
Share ==
  /\ phase \in {"working", "review"} /\ shared' \in audited
  /\ UNCHANGED <<phase, shown, audited>>

Publish ==
  /\ phase \in {"working", "review"} /\ phase' = "approved"
  /\ shared \in audited /\ shown' = shared
  /\ UNCHANGED <<shared, audited>>

\* A decision takes the approval back, a rejection for good.  What chat would
\* read stays where it is.
Withdraw ==
  /\ phase = "approved" /\ phase' \in {"review", "rejected"}
  /\ shown' = NoText
  /\ UNCHANGED <<shared, audited>>

Refuse ==
  /\ phase \in {"review", "failed"} /\ phase' = "rejected"
  /\ UNCHANGED <<shown, shared, audited>>

\* A delete takes the text away first, then that for chat, then the document.
Erase ==
  /\ phase = "approved" /\ shown' = NoText
  /\ UNCHANGED <<phase, shared, audited>>

Unshare ==
  /\ phase \notin {"none", "gone"} /\ shown = NoText
  /\ shared' = NoText
  /\ UNCHANGED <<phase, shown, audited>>

Vanish ==
  /\ phase \notin {"none", "gone"} /\ shown = NoText /\ shared = NoText
  /\ phase' = "gone"
  /\ UNCHANGED <<shown, shared, audited>>

PromiseNext == Uploaded \/ Hear \/ Finish \/ Share \/ Publish \/ Withdraw
               \/ Refuse \/ Erase \/ Unshare \/ Vanish

PromiseSpec == PromiseInit /\ [][PromiseNext]_promiseVars
=============================================================================
