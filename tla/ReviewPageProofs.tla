-------------------------- MODULE ReviewPageProofs --------------------------
(***************************************************************************)
(* The review screen for any document, decisions at once and bounds: what  *)
(* is done is done to what the reader saw, and the screen is never set     *)
(* back by a poll nor left waiting.                                        *)
(***************************************************************************)
EXTENDS ReviewPage, TLAPS

----------------------------------------------------------------------------
(* What the state may be.                                                  *)

Ends     == {"needs_review", "approved"}
Contents == [state : States, status : Ends, audited : BOOLEAN]
Answers  == {"ok", "document_not_found", "not_in_review", "stale_revision", "unresolved_items",
             "ollama_unreachable", "audit_not_clean"}
Shown    == [revision : Nat, at : Orders, state : States, torn : BOOLEAN]
Requests == [step : {"sent"}, id : Ids \cup {1}, op : {"masked", "kept", "none"}, shown : Shown]
Storing  == [step : {"storing"}, answer : Answers, shown : Shown]
Replies  == [step : {"applied", "answered"}, answer : Answers, revision : Nat, page : Pages,
             summary : Summaries]
Reloadings == [step : {"reloading"}, revision : Nat, waits : SUBSET {"list", "review"},
               failed : BOOLEAN]
Calls == {Nothing} \cup Requests \cup Storing \cup Replies \cup Reloadings
Documents == [status : Reviewable \cup {"rejected", "gone"}, revision : Nat, version : Nat,
              audited : BOOLEAN, at : Orders, state : States, next : {Nothing} \cup Contents]

Typed ==
  /\ doc \in Documents
  /\ list \in Summaries /\ review \in Pages
  /\ fetchL \in {Nothing, Sent} \cup [step : {"ready"}, data : Summaries]
  /\ fetchR \in {Nothing, Sent} \cup [step : {"content"}, revision : Nat] \cup [step : {"ready"}, page : Pages]
  /\ calls \in [Slots -> Calls]
  /\ dialog \in BOOLEAN /\ overtaken \in BOOLEAN /\ setBack \in BOOLEAN /\ settled \in Nat /\ faults \in Nat

\* A change under way is one of a document in review.
DocFits(d) == /\ d.revision <= d.version
              /\ d.next # Nothing => d.status = "needs_review"

\* What a request asks for, and which answers it may get.
Granted(c) == c.step \in {"applied", "answered"} /\ c.answer = "ok"
CallFits(s, c) ==
  /\ s \in Keys => /\ c.step # "sent" \/ c.op # "none"
                   /\ c.step \notin {"storing", "applied"} \/ c.answer = "ok"
                   /\ ~Granted(c) \/ Mounted(c.summary)
  /\ s \in Dialogs => c.step # "applied"
  /\ s \in {"reject", "delete"} => /\ ~Granted(c) \/ ~Mounted(c.summary)
                                  /\ c.step # "storing"
CallsFit == \A s \in Slots : CallFits(s, calls[s])

----------------------------------------------------------------------------
(* What is known of the pages and summaries that are under way.            *)

\* A page of the document's revision that is not torn is the document.
PageFits(page, d) ==
  /\ page.revision <= d.revision
  /\ page # Problem /\ page.revision = d.revision /\ ~page.torn =>
       d.next = Nothing /\ page.at = d.at /\ page.state = d.state
PagesOf(c, d) ==
  /\ c.step \in {"sent", "storing"} => PageFits(c.shown, d)
  /\ c.step \in {"applied", "answered"} => c.revision <= d.revision /\ PageFits(c.page, d)
  /\ Waiting(c) => c.revision <= d.revision
FetchFits(f, d) ==
  /\ f.step = "content" => f.revision <= d.revision
  /\ f.step = "ready" => PageFits(f.page, d)
PagesFit ==
  /\ PageFits(review, doc) /\ FetchFits(fetchR, doc)
  /\ \A s \in Slots : PagesOf(calls[s], doc)

\* The document that a change will leave approved is the one the approval was for.
NextSeen ==
  doc.next # Nothing /\ doc.next.status = "approved" =>
    LET call == calls["approve"]
    IN  /\ call.step = "storing" /\ Open(doc.next.state) = {}
        /\ ~call.shown.torn => doc.next.state = call.shown.state

\* A summary is of some time, and one that is out of review is of the last: the
\* document has stayed so, and every summary before it is older.
Older(cs, version) ==
  \A s \in Slots : Granted(cs[s]) /\ Mounted(cs[s].summary) => cs[s].summary.version < version
SummaryFits(u, d, cs) ==
  /\ u = Absent => d.status = "gone"
  /\ u # Absent => u.version <= d.version
  /\ ~Mounted(u) => d.status \notin Reviewable
  /\ ~Mounted(u) /\ u # Absent => Older(cs, u.version)
SummariesFit ==
  /\ SummaryFits(list, doc, calls) /\ SummaryFits(Summary(doc), doc, calls)
  /\ fetchL.step = "ready" => /\ SummaryFits(fetchL.data, doc, calls)
                              /\ Mounted(list) \/ ~Mounted(fetchL.data)
  /\ \A s \in Slots : Granted(calls[s]) => SummaryFits(calls[s].summary, doc, calls)

\* What was settled last, the screen shows or will not show older; what is gone
\* from it stays away.
Recent(u, version) == u = Absent \/ u.version >= version
SettledInv ==
  /\ settled <= doc.version \/ doc.status = "gone"
  /\ setBack \/ Recent(list, settled)
  /\ fetchL.step = "ready" => /\ Recent(fetchL.data, settled)
                              /\ list # Absent \/ fetchL.data = Absent

\* Whoever waits has a fetch under way that will satisfy him, or what he waited
\* for is on the screen.
Satisfies(page, revision) == page = Problem \/ page.revision >= revision
WaitOf(c) ==
  /\ "list" \in c.waits => fetchL # Nothing
  /\ "review" \in c.waits => fetchR # Nothing /\ Mounted(list)
  /\ ~c.failed =>
       /\ fetchR.step # "content" \/ fetchR.revision >= c.revision
       /\ fetchR.step # "ready" \/ Satisfies(fetchR.page, c.revision)
       /\ "review" \in c.waits \/ overtaken \/ ~Mounted(list) \/ Satisfies(review, c.revision)
WaitInv == \A s \in Slots : Waiting(calls[s]) => WaitOf(calls[s])

PageInv ==
  /\ Typed /\ DocFits(doc) /\ CallsFit
  /\ PagesFit /\ NextSeen /\ SummariesFit /\ SettledInv /\ WaitInv

----------------------------------------------------------------------------
(* Pages and summaries of a document, and what a step of it leaves true.   *)

LEMMA SummaryIs ==
  ASSUME NEW d \in Documents
  PROVE  /\ Summary(d) \in Summaries
         /\ Mounted(Summary(d)) <=> d.status \in Reviewable
         /\ Summary(d) = Absent <=> d.status = "gone"
         /\ d.status # "gone" => Summary(d).version = d.version
<1>1. d.status \in Reviewable \cup {"rejected", "gone"} /\ d.version \in Nat
  BY DEF Documents
<1>2. CASE d.status = "gone"
  BY <1>2 DEF Summary, Absent, Mounted, Summaries, Reviewable
<1>3. CASE d.status # "gone"
  <2> DEFINE u == [status |-> d.status, version |-> d.version, open |-> Open(d.state) # {}]
  <2>1. Summary(d) = u /\ u.status = d.status /\ u.version = d.version
    BY <1>3 DEF Summary
  <2>2. u \in Summaries
    BY <1>1, <1>3 DEF Summaries, Reviewable
  <2>3. u # Absent
    BY <1>1 DEF Absent, Reviewable
  <2> HIDE DEF u
  <2> QED  BY <1>1, <1>3, <2>1, <2>2, <2>3 DEF Mounted
<1> QED  BY <1>2, <1>3

LEMMA PageIs ==
  ASSUME NEW d \in Documents, NEW r \in Nat, r <= d.revision
  PROVE  PageOf(r, d) \in Shown /\ PageFits(PageOf(r, d), d) /\ PageOf(r, d).revision = r
<1>1. d.at \in Orders /\ d.state \in States
  BY DEF Documents
<1>2. PageOf(r, d) \in Shown
  BY <1>1 DEF PageOf, Shown
<1> QED  BY <1>2 DEF PageOf, PageFits

LEMMA ShownIs ==
  /\ Shown \subseteq Pages /\ Problem \in Pages /\ Problem \notin Shown
  /\ \A p \in Pages : p # Problem => p \in Shown
  /\ \A d \in Documents : PageFits(Problem, d)
<1>1. Problem \notin Shown
  BY DEF Problem, Shown
<1>2. \A d \in Documents : PageFits(Problem, d)
  BY DEF Problem, PageFits, Documents
<1> QED  BY <1>1, <1>2 DEF Pages, Shown

\* A change begins, is stored, or the document is approved, rejected or deleted.
Begun(d, e) ==
  /\ d.next = Nothing /\ d.status \in Reviewable
  /\ \E c \in Contents : e = [d EXCEPT !.revision = @ + 1, !.version = @ + 1,
                                      !.status = "needs_review", !.next = c]
Stored(d, e) ==
  /\ d.next # Nothing
  /\ \E f \in Orders :
       e = [d EXCEPT !.version = @ + 1, !.at = f, !.state = d.next.state, !.status = d.next.status,
                     !.audited = d.next.audited, !.next = Nothing]
Moved(d, e) ==
  /\ d.next = Nothing /\ d.status # "gone"
  /\ \E status \in {"approved", "rejected", "gone"} :
       /\ status # "gone" => d.status \in Reviewable
       /\ e = [d EXCEPT !.status = status, !.version = @ + 1]
DocStep(d, e) == e = d \/ Begun(d, e) \/ Stored(d, e) \/ Moved(d, e)

LEMMA NextIs ==
  ASSUME NEW d \in Documents
  PROVE  /\ Nothing \notin Contents /\ (d.next # Nothing => d.next \in Contents)
         /\ d.revision \in Nat /\ d.version \in Nat
BY DEF Documents, Nothing, Contents

\* A document with one field changed is a document with that field changed.
Alike(d, e, but) == /\ "status" = but \/ e.status = d.status
                    /\ "revision" = but \/ e.revision = d.revision
                    /\ "version" = but \/ e.version = d.version
                    /\ "audited" = but \/ e.audited = d.audited
                    /\ "at" = but \/ e.at = d.at
                    /\ "state" = but \/ e.state = d.state
                    /\ "next" = but \/ e.next = d.next

LEMMA FieldsSet ==
  ASSUME NEW d \in Documents
  PROVE  /\ \A x \in Reviewable \cup {"rejected", "gone"} : LET e == [d EXCEPT !.status = x]
            IN e \in Documents /\ e.status = x /\ Alike(d, e, "status")
         /\ \A x \in Nat : LET e == [d EXCEPT !.revision = x]
            IN e \in Documents /\ e.revision = x /\ Alike(d, e, "revision")
         /\ \A x \in Nat : LET e == [d EXCEPT !.version = x]
            IN e \in Documents /\ e.version = x /\ Alike(d, e, "version")
         /\ \A x \in BOOLEAN : LET e == [d EXCEPT !.audited = x]
            IN e \in Documents /\ e.audited = x /\ Alike(d, e, "audited")
         /\ \A x \in Orders : LET e == [d EXCEPT !.at = x]
            IN e \in Documents /\ e.at = x /\ Alike(d, e, "at")
         /\ \A x \in States : LET e == [d EXCEPT !.state = x]
            IN e \in Documents /\ e.state = x /\ Alike(d, e, "state")
         /\ \A x \in {Nothing} \cup Contents : LET e == [d EXCEPT !.next = x]
            IN e \in Documents /\ e.next = x /\ Alike(d, e, "next")
<1>1. ASSUME NEW x \in Reviewable \cup {"rejected", "gone"}
      PROVE  LET e == [d EXCEPT !.status = x]
             IN e \in Documents /\ e.status = x /\ Alike(d, e, "status")
  BY DEF Documents, Alike
<1>2. ASSUME NEW x \in Nat
      PROVE  LET e == [d EXCEPT !.revision = x]
             IN e \in Documents /\ e.revision = x /\ Alike(d, e, "revision")
  BY DEF Documents, Alike
<1>3. ASSUME NEW x \in Nat
      PROVE  LET e == [d EXCEPT !.version = x]
             IN e \in Documents /\ e.version = x /\ Alike(d, e, "version")
  BY DEF Documents, Alike
<1>4. ASSUME NEW x \in BOOLEAN
      PROVE  LET e == [d EXCEPT !.audited = x]
             IN e \in Documents /\ e.audited = x /\ Alike(d, e, "audited")
  BY DEF Documents, Alike
<1>5. ASSUME NEW x \in Orders
      PROVE  LET e == [d EXCEPT !.at = x]
             IN e \in Documents /\ e.at = x /\ Alike(d, e, "at")
  BY DEF Documents, Alike
<1>6. ASSUME NEW x \in States
      PROVE  LET e == [d EXCEPT !.state = x]
             IN e \in Documents /\ e.state = x /\ Alike(d, e, "state")
  BY DEF Documents, Alike
<1>7. ASSUME NEW x \in {Nothing} \cup Contents
      PROVE  LET e == [d EXCEPT !.next = x]
             IN e \in Documents /\ e.next = x /\ Alike(d, e, "next")
  BY DEF Documents, Alike
<1> QED  BY <1>1, <1>2, <1>3, <1>4, <1>5, <1>6, <1>7

LEMMA StepsSet ==
  ASSUME NEW d \in Documents
  PROVE  /\ \A x \in Nat : LET e == [d EXCEPT !.version = x + 1]
            IN e \in Documents /\ e.version = x + 1 /\ Alike(d, e, "version")
         /\ LET e == [d EXCEPT !.revision = d.revision + 1]
            IN e \in Documents /\ e.revision = d.revision + 1 /\ Alike(d, e, "revision")
         /\ d.version \in Nat
         /\ LET e == [d EXCEPT !.next = Nothing]
            IN e \in Documents /\ e.next = Nothing /\ Alike(d, e, "next")
         /\ \A c \in Contents : LET e == [d EXCEPT !.next = c]
            IN e \in Documents /\ e.next = c /\ Alike(d, e, "next")
<1>1. ASSUME NEW x \in Nat
      PROVE  LET e == [d EXCEPT !.version = x + 1]
             IN e \in Documents /\ e.version = x + 1 /\ Alike(d, e, "version")
  <2> DEFINE y == x + 1
  <2>1. y \in Nat
    OBVIOUS
  <2> HIDE DEF y
  <2>2. LET e == [d EXCEPT !.version = y]
        IN e \in Documents /\ e.version = y /\ Alike(d, e, "version")
    BY <2>1, FieldsSet
  <2> QED  BY <2>2 DEF y
<1>2. LET e == [d EXCEPT !.revision = d.revision + 1]
      IN e \in Documents /\ e.revision = d.revision + 1 /\ Alike(d, e, "revision")
  <2> DEFINE y == d.revision + 1
  <2>1. y \in Nat
    BY NextIs
  <2> HIDE DEF y
  <2>2. LET e == [d EXCEPT !.revision = y]
        IN e \in Documents /\ e.revision = y /\ Alike(d, e, "revision")
    BY <2>1, FieldsSet
  <2> QED  BY <2>2 DEF y
<1>3. LET e == [d EXCEPT !.next = Nothing]
      IN e \in Documents /\ e.next = Nothing /\ Alike(d, e, "next")
  BY DEF Documents, Alike
<1>4. ASSUME NEW c \in Contents
      PROVE  LET e == [d EXCEPT !.next = c]
             IN e \in Documents /\ e.next = c /\ Alike(d, e, "next")
  BY DEF Documents, Alike
<1> QED  BY <1>1, <1>2, <1>3, <1>4, NextIs

LEMMA BegunIs ==
  ASSUME NEW d \in Documents, NEW c \in Contents
  PROVE  LET e == [d EXCEPT !.revision = @ + 1, !.version = @ + 1, !.status = "needs_review", !.next = c]
         IN  /\ e \in Documents /\ e.revision = d.revision + 1 /\ e.version = d.version + 1
             /\ e.status = "needs_review" /\ e.next = c
<1> DEFINE e1 == [d EXCEPT !.revision = d.revision + 1]
           e2 == [e1 EXCEPT !.version = d.version + 1]
           e3 == [e2 EXCEPT !.status = "needs_review"]
           e4 == [e3 EXCEPT !.next = c]
<1>1. e1 \in Documents /\ e1.revision = d.revision + 1 /\ Alike(d, e1, "revision")
  BY StepsSet
<1>2. e2 \in Documents /\ e2.version = d.version + 1 /\ Alike(e1, e2, "version")
  <2> HIDE DEF e1
  <2> QED  BY <1>1, StepsSet
<1>3. e3 \in Documents /\ e3.status = "needs_review" /\ Alike(e2, e3, "status")
  <2> HIDE DEF e2
  <2> QED  BY <1>2, FieldsSet DEF Reviewable
<1>4. e4 \in Documents /\ e4.next = c /\ Alike(e3, e4, "next")
  <2> HIDE DEF e3
  <2> QED  BY <1>3, StepsSet
<1>5. [d EXCEPT !.revision = @ + 1, !.version = @ + 1, !.status = "needs_review", !.next = c] = e4
  <2>1. e1.version = d.version
    BY <1>1 DEF Alike
  <2> QED  BY <2>1
<1> HIDE DEF e1, e2, e3, e4
<1> QED  BY <1>1, <1>2, <1>3, <1>4, <1>5 DEF Alike

LEMMA StoredIs ==
  ASSUME NEW d \in Documents, d.next \in Contents, NEW f \in Orders
  PROVE  LET e == [d EXCEPT !.version = @ + 1, !.at = f, !.state = d.next.state,
                            !.status = d.next.status, !.audited = d.next.audited, !.next = Nothing]
         IN  /\ e \in Documents /\ e.revision = d.revision /\ e.version = d.version + 1
             /\ e.status = d.next.status /\ e.state = d.next.state /\ e.next = Nothing
<1> DEFINE n == d.next
           e1 == [d EXCEPT !.version = d.version + 1]
           e2 == [e1 EXCEPT !.at = f]
           e3 == [e2 EXCEPT !.state = n.state]
           e4 == [e3 EXCEPT !.status = n.status]
           e5 == [e4 EXCEPT !.audited = n.audited]
           e6 == [e5 EXCEPT !.next = Nothing]
<1>0. n.status \in Reviewable \cup {"rejected", "gone"} /\ n.state \in States /\ n.audited \in BOOLEAN
  BY DEF Contents, Ends, Reviewable
<1>1. e1 \in Documents /\ e1.version = d.version + 1 /\ Alike(d, e1, "version")
  BY StepsSet
<1>2. e2 \in Documents /\ e2.at = f /\ Alike(e1, e2, "at")
  <2> HIDE DEF e1
  <2> QED  BY <1>1, FieldsSet
<1>3. e3 \in Documents /\ e3.state = n.state /\ Alike(e2, e3, "state")
  <2> HIDE DEF e2, n
  <2> QED  BY <1>0, <1>2, FieldsSet
<1>4. e4 \in Documents /\ e4.status = n.status /\ Alike(e3, e4, "status")
  <2> HIDE DEF e3, n
  <2> QED  BY <1>0, <1>3, FieldsSet
<1>5. e5 \in Documents /\ e5.audited = n.audited /\ Alike(e4, e5, "audited")
  <2> HIDE DEF e4, n
  <2> QED  BY <1>0, <1>4, FieldsSet
<1>6. e6 \in Documents /\ e6.next = Nothing /\ Alike(e5, e6, "next")
  <2> HIDE DEF e5
  <2> QED  BY <1>5, StepsSet
<1>7. [d EXCEPT !.version = @ + 1, !.at = f, !.state = d.next.state, !.status = d.next.status,
                !.audited = d.next.audited, !.next = Nothing] = e6
  OBVIOUS
<1> HIDE DEF e1, e2, e3, e4, e5, e6
<1> QED  BY <1>1, <1>2, <1>3, <1>4, <1>5, <1>6, <1>7 DEF Alike

LEMMA MovedIs ==
  ASSUME NEW d \in Documents, NEW status \in {"approved", "rejected", "gone"}
  PROVE  LET e == [d EXCEPT !.status = status, !.version = @ + 1]
         IN  /\ e \in Documents /\ e.revision = d.revision /\ e.version = d.version + 1
             /\ e.status = status /\ e.next = d.next /\ e.at = d.at /\ e.state = d.state
<1> DEFINE e1 == [d EXCEPT !.status = status]
           e2 == [e1 EXCEPT !.version = d.version + 1]
<1>1. e1 \in Documents /\ e1.status = status /\ Alike(d, e1, "status")
  BY FieldsSet DEF Reviewable
<1>2. e2 \in Documents /\ e2.version = d.version + 1 /\ Alike(e1, e2, "version")
  <2> HIDE DEF e1
  <2> QED  BY <1>1, StepsSet
<1>3. [d EXCEPT !.status = status, !.version = @ + 1] = e2
  <2>1. e1.version = d.version
    BY <1>1 DEF Alike
  <2> QED  BY <2>1
<1> HIDE DEF e1, e2
<1> QED  BY <1>1, <1>2, <1>3 DEF Alike

LEMMA DocSteps ==
  ASSUME NEW d \in Documents, DocFits(d), NEW e, DocStep(d, e)
  PROVE  /\ e \in Documents /\ DocFits(e)
         /\ e.version >= d.version /\ e.revision >= d.revision
         /\ e # d => e.version > d.version
         /\ d.status = "gone" => e.status = "gone"
         /\ d.status \notin Reviewable => e.status \notin Reviewable
         /\ \A page \in Pages : PageFits(page, d) => PageFits(page, e)
<1>0. /\ d.revision \in Nat /\ d.version \in Nat
      /\ d.next # Nothing => d.next \in Contents /\ d.status = "needs_review"
      /\ Nothing \notin Contents /\ d.revision <= d.version
      /\ \A page \in Pages : page.revision \in Nat
  BY NextIs DEF DocFits, Pages, Problem
<1>1. CASE e = d
  BY <1>0, <1>1
<1>2. CASE Begun(d, e)
  <2>1. PICK c \in Contents : e = [d EXCEPT !.revision = @ + 1, !.version = @ + 1,
                                       !.status = "needs_review", !.next = c]
    BY <1>2 DEF Begun
  <2>2. /\ e \in Documents /\ e.revision = d.revision + 1 /\ e.version = d.version + 1
        /\ e.status = "needs_review"
    BY <2>1, BegunIs
  <2>3. \A page \in Pages : PageFits(page, d) => PageFits(page, e)
    BY <1>0, <2>2 DEF PageFits
  <2> QED  BY <1>0, <1>2, <2>2, <2>3 DEF Begun, DocFits, Reviewable
<1>3. CASE Stored(d, e)
  <2>1. PICK f \in Orders :
          e = [d EXCEPT !.version = @ + 1, !.at = f, !.state = d.next.state, !.status = d.next.status,
                        !.audited = d.next.audited, !.next = Nothing]
    BY <1>3 DEF Stored
  <2>2. d.next \in Contents /\ d.status = "needs_review" /\ d.next.status \in Reviewable
    BY <1>0, <1>3 DEF Stored, Contents, Ends, Reviewable
  <2>3. /\ e \in Documents /\ e.revision = d.revision /\ e.version = d.version + 1
        /\ e.status \in Reviewable /\ e.next = Nothing
    BY <2>1, <2>2, StoredIs
  <2>4. \A page \in Pages : PageFits(page, d) => PageFits(page, e)
    BY <1>0, <1>3, <2>3 DEF PageFits, Stored
  <2> QED  BY <1>0, <2>2, <2>3, <2>4 DEF DocFits, Reviewable
<1>4. CASE Moved(d, e)
  <2>1. PICK status \in {"approved", "rejected", "gone"} :
          /\ status # "gone" => d.status \in Reviewable
          /\ e = [d EXCEPT !.status = status, !.version = @ + 1]
    BY <1>4 DEF Moved
  <2>2. /\ e \in Documents /\ e.revision = d.revision /\ e.version = d.version + 1
        /\ e.status = status /\ e.next = d.next /\ e.at = d.at /\ e.state = d.state
    BY <2>1, MovedIs
  <2>3. \A page \in Pages : PageFits(page, d) => PageFits(page, e)
    BY <2>2 DEF PageFits
  <2> QED  BY <1>0, <1>4, <2>1, <2>2, <2>3 DEF DocFits, Moved, Reviewable
<1> QED  BY <1>1, <1>2, <1>3, <1>4 DEF DocStep

\* A summary stays what it is while the document goes on, if no call is granted one in
\* review of a document that is not.
GrantsFrom(cs, ct, e) ==
  \A s \in Slots : Granted(ct[s]) /\ Mounted(ct[s].summary) =>
    (Granted(cs[s]) /\ ct[s].summary = cs[s].summary) \/ e.status \in Reviewable

LEMMA SummarySteps ==
  ASSUME NEW d \in Documents, DocFits(d), NEW e, DocStep(d, e),
         NEW cs, NEW ct, GrantsFrom(cs, ct, e),
         NEW u \in Summaries, SummaryFits(u, d, cs)
  PROVE  SummaryFits(u, e, ct)
<1>1. /\ e \in Documents /\ e.version >= d.version /\ (d.status = "gone" => e.status = "gone")
      /\ d.status \notin Reviewable => e.status \notin Reviewable
  BY DocSteps
<1>2. d.version \in Nat /\ e.version \in Nat /\ (u # Absent => u.version \in Nat)
  BY <1>1, NextIs DEF Summaries
<1>3. u # Absent => u.version <= e.version
  BY <1>1, <1>2 DEF SummaryFits
<1>4. ~Mounted(u) /\ u # Absent => Older(ct, u.version)
  BY <1>1 DEF SummaryFits, Older, GrantsFrom
<1> QED  BY <1>1, <1>3, <1>4 DEF SummaryFits

LEMMA SummaryNow ==
  ASSUME NEW d \in Documents, DocFits(d), NEW e, DocStep(d, e),
         NEW cs, NEW ct, GrantsFrom(cs, ct, e), SummaryFits(Summary(d), d, cs),
         \A s \in Slots : Granted(cs[s]) => cs[s].summary \in Summaries /\ SummaryFits(cs[s].summary, d, cs)
  PROVE  SummaryFits(Summary(e), e, ct)
<1>1. CASE e = d
  BY <1>1, SummaryIs, SummarySteps
<1>2. CASE e # d
  <2>1. e \in Documents /\ e.version > d.version /\ d.version \in Nat /\ e.version \in Nat
    BY <1>2, DocSteps, NextIs
  <2>2. /\ Mounted(Summary(e)) <=> e.status \in Reviewable
        /\ Summary(e) = Absent <=> e.status = "gone"
        /\ e.status # "gone" => Summary(e).version = e.version
    BY <2>1, SummaryIs
  <2>3. ASSUME e.status \notin Reviewable, NEW s \in Slots, Granted(ct[s]), Mounted(ct[s].summary)
        PROVE  ct[s].summary.version < e.version
    <3>1. Granted(cs[s]) /\ ct[s].summary = cs[s].summary
      BY <2>3 DEF GrantsFrom
    <3>2. cs[s].summary # Absent
      BY <2>3, <3>1 DEF Mounted, Absent, Reviewable
    <3>3. cs[s].summary.version <= d.version /\ cs[s].summary.version \in Nat
      BY <3>1, <3>2 DEF SummaryFits, Summaries
    <3> QED  BY <2>1, <3>1, <3>3
  <2> QED  BY <2>1, <2>2, <2>3 DEF SummaryFits, Older
<1> QED  BY <1>1, <1>2

----------------------------------------------------------------------------
(* The server's steps.                                                     *)

\* A call by its step.
LEMMA CallIs ==
  ASSUME NEW c \in Calls
  PROVE  /\ c.step = "sent" => c \in Requests
         /\ c.step = "storing" => c \in Storing
         /\ c.step \in {"applied", "answered"} => c \in Replies
         /\ c.step = "reloading" => c \in Reloadings
         /\ c = Nothing <=> c.step = "idle"
         /\ c.step \in {"idle", "sent", "storing", "applied", "answered", "reloading"}
BY DEF Calls, Nothing, Requests, Storing, Replies, Reloadings

\* How the server answers a call.
Reply(step, answer, e) ==
  [step |-> step, answer |-> answer, revision |-> e.revision, page |-> Problem,
   summary |-> IF answer = "ok" THEN Summary(e) ELSE Absent]
Kept(c) == [step |-> "storing", answer |-> c.answer, shown |-> c.shown]
SlotStep(c, t, e) ==
  \/ t = c
  \/ c.step = "sent" /\ t \in Storing /\ t.shown = c.shown
  \/ /\ c.step \in {"sent", "storing"}
     /\ \E step \in {"applied", "answered"}, answer \in Answers : t = Reply(step, answer, e)

\* A change is begun for a page of the revision it changes, and an approval is
\* of what was on it.
Current == \A s \in Slots : calls[s].step = "sent" /\ calls'[s].step = "storing" =>
             calls[s].shown.revision = doc.revision
Approving == doc.status # "approved" /\ doc'.status = "approved" =>
               /\ Open(doc'.state) = {}
               /\ ~calls["approve"].shown.torn => doc'.state = calls["approve"].shown.state

ServerStep ==
  /\ DocStep(doc, doc') /\ Current /\ Approving
  /\ calls' \in [Slots -> Calls]
  /\ \A s \in Slots : SlotStep(calls[s], calls'[s], doc') /\ CallFits(s, calls'[s])
  /\ NextSeen'
  /\ UNCHANGED <<list, review, fetchL, fetchR, dialog, faults, settled, setBack, overtaken>>

LEMMA ReplyIs ==
  ASSUME NEW e \in Documents, NEW step \in {"applied", "answered"}, NEW answer \in Answers
  PROVE  /\ Reply(step, answer, e) \in Replies
         /\ Reply(step, answer, e).step = step /\ Reply(step, answer, e).answer = answer
         /\ Reply(step, answer, e).revision = e.revision /\ Reply(step, answer, e).page = Problem
         /\ answer = "ok" => Reply(step, answer, e).summary = Summary(e)
<1>1. Summary(e) \in Summaries /\ Absent \in Summaries
  BY SummaryIs DEF Summaries
<1>2. Problem \in Pages /\ e.revision \in Nat
  BY ShownIs, NextIs
<1> QED  BY <1>1, <1>2 DEF Reply, Replies

LEMMA StartedIs ==
  ASSUME Typed, doc.next = Nothing, doc.status \in Reviewable,
         NEW state \in States, NEW status \in Ends, NEW audited \in BOOLEAN,
         Started(state, status, audited)
  PROVE  /\ Begun(doc, doc') /\ doc' \in Documents /\ doc'.status = "needs_review"
         /\ doc'.next.state = state /\ doc'.next.status = status
<1> DEFINE c == [state |-> state, status |-> status, audited |-> audited]
<1>1. c \in Contents /\ c.state = state /\ c.status = status
  BY DEF Contents
<1> HIDE DEF c
<1>2. doc' = [doc EXCEPT !.revision = @ + 1, !.version = @ + 1, !.status = "needs_review", !.next = c]
  BY DEF Started, c
<1>3. doc' \in Documents /\ doc'.next = c /\ doc'.status = "needs_review"
  BY <1>1, <1>2, BegunIs DEF Typed
<1> QED  BY <1>1, <1>2, <1>3 DEF Begun

LEMMA MovesAre ==
  ASSUME Typed, doc.next = Nothing, doc.status # "gone",
         NEW status \in {"approved", "rejected", "gone"}, status # "gone" => doc.status \in Reviewable,
         doc' = [doc EXCEPT !.status = status, !.version = @ + 1]
  PROVE  /\ Moved(doc, doc') /\ doc' \in Documents /\ doc'.next = Nothing /\ doc'.status = status
         /\ doc'.state = doc.state
<1>1. doc' \in Documents /\ doc'.next = doc.next /\ doc'.status = status /\ doc'.state = doc.state
  BY ZenonT(60), MovedIs DEF Typed
<1> QED  BY <1>1 DEF Moved

LEMMA AnsweredIs ==
  ASSUME Typed, CallsFit, doc' \in Documents, NEW s \in Slots, calls[s].step = "sent",
         NEW answer \in Answers, Answered(s, answer), CallFits(s, Reply("answered", answer, doc'))
  PROVE  /\ calls' \in [Slots -> Calls]
         /\ \A t \in Slots : SlotStep(calls[t], calls'[t], doc') /\ CallFits(t, calls'[t])
         /\ Current
<1> DEFINE r == Reply("answered", answer, doc')
<1>1. calls' = [calls EXCEPT ![s] = r]
  BY DEF Answered, Answer, Reply
<1>2. r \in Calls
  BY ReplyIs DEF Calls
<1>3. SlotStep(calls[s], r, doc')
  BY DEF SlotStep
<1>4. CallFits(s, r) /\ r.step # "storing"
  BY ReplyIs
<1> HIDE DEF r
<1>5. ASSUME NEW t \in Slots
      PROVE  SlotStep(calls[t], calls'[t], doc') /\ CallFits(t, calls'[t])
  <2>1. CASE t = s
    BY <1>1, <1>3, <1>4, <2>1 DEF Typed
  <2>2. CASE t # s
    BY <1>1, <2>2 DEF Typed, SlotStep, CallsFit
  <2> QED  BY <2>1, <2>2
<1>6. Current
  BY <1>1, <1>4 DEF Current, Typed
<1> QED  BY <1>1, <1>2, <1>5, <1>6 DEF Typed

LEMMA BeginsIs ==
  ASSUME Typed, CallsFit, NEW s \in Slots, calls[s].step = "sent",
         NEW answer \in Answers, Begins(s, answer), s \notin {"reject", "delete"}, s \in Keys => answer = "ok",
         calls[s].shown.revision = doc.revision
  PROVE  /\ calls' \in [Slots -> Calls]
         /\ \A t \in Slots : SlotStep(calls[t], calls'[t], doc') /\ CallFits(t, calls'[t])
         /\ calls'[s].step = "storing" /\ calls'[s].shown = calls[s].shown /\ Current
<1> DEFINE r == [step |-> "storing", answer |-> answer, shown |-> calls[s].shown]
<1>1. calls' = [calls EXCEPT ![s] = r]
  BY DEF Begins
<1>2. calls[s] \in Requests
  BY CallIs DEF Typed
<1>3. r \in Storing /\ r.step = "storing" /\ r.shown = calls[s].shown /\ r.answer = answer
  BY <1>2 DEF Storing, Requests
<1> HIDE DEF r
<1>4. CallFits(s, r)
  BY <1>3 DEF CallFits, Granted
<1>5. SlotStep(calls[s], r, doc') /\ r \in Calls
  BY <1>3 DEF SlotStep, Calls
<1>6. ASSUME NEW t \in Slots
      PROVE  SlotStep(calls[t], calls'[t], doc') /\ CallFits(t, calls'[t])
  <2>1. CASE t = s
    BY <1>1, <1>5, <1>4, <2>1 DEF Typed
  <2>2. CASE t # s
    BY <1>1, <2>2 DEF Typed, SlotStep, CallsFit
  <2> QED  BY <2>1, <2>2
<1>7. Current
  BY <1>1 DEF Current, Typed
<1> QED  BY <1>1, <1>3, <1>5, <1>6, <1>7 DEF Typed

\* What the server says without doing it.
Turned == Answers \ {"ok"}

LEMMA RefusalIs ==
  ASSUME NEW call
  PROVE  /\ Refusal(call) \in Turned \cup {"none"}
         /\ Refusal(call) = "none" <=> /\ doc.status \in Reviewable
                                      /\ call.shown.revision = doc.revision
BY DEF Refusal, Turned, Answers, Reviewable

\* A refusal changes nothing but the call.
LEMMA TurnsDown ==
  ASSUME Typed, CallsFit, NextSeen, NEW s \in Slots, Served(s), UNCHANGED doc,
         NEW answer \in Turned, Answered(s, answer)
  PROVE  ServerStep
<1>1. answer \in Answers /\ answer # "ok" /\ doc' \in Documents /\ calls[s].step = "sent"
  BY DEF Turned, Typed, Served
<1>2. CallFits(s, Reply("answered", answer, doc'))
  <2>1. /\ Reply("answered", answer, doc').step = "answered"
        /\ Reply("answered", answer, doc').answer = answer
    BY <1>1, ReplyIs
  <2> QED  BY <1>1, <2>1 DEF CallFits, Granted
<1>3. /\ calls' \in [Slots -> Calls]
      /\ \A t \in Slots : SlotStep(calls[t], calls'[t], doc') /\ CallFits(t, calls'[t])
      /\ Current
  BY <1>1, <1>2, AnsweredIs
<1>4. NextSeen' /\ Approving
  BY DEF Served, NextSeen, Approving
<1> QED  BY <1>3, <1>4 DEF ServerStep, DocStep, Served, cache, reader, history

\* A change begins, for a call or another tab.
LEMMA StartKeeps ==
  ASSUME Typed, CallsFit, NEW s \in Slots, Served(s), s \notin {"reject", "delete"},
         doc.status \in Reviewable,
         NEW state \in States, NEW status \in Ends, NEW audited \in BOOLEAN,
         Started(state, status, audited),
         NEW answer \in Answers, Begins(s, answer), s \in Keys => answer = "ok",
         calls[s].shown.revision = doc.revision,
         status = "approved" => /\ s = "approve" /\ Open(state) = {}
                                /\ ~calls[s].shown.torn => state = calls[s].shown.state
  PROVE  ServerStep
<1>1. calls[s].step = "sent" /\ doc.next = Nothing
  BY DEF Served
<1>2. /\ Begun(doc, doc') /\ doc'.next.state = state /\ doc'.next.status = status
      /\ doc'.status = "needs_review"
  BY <1>1, StartedIs
<1>3. /\ calls' \in [Slots -> Calls]
      /\ \A t \in Slots : SlotStep(calls[t], calls'[t], doc') /\ CallFits(t, calls'[t])
      /\ calls'[s].step = "storing" /\ calls'[s].shown = calls[s].shown /\ Current
  BY <1>1, BeginsIs
<1>4. NextSeen' /\ Approving
  BY <1>2, <1>3 DEF NextSeen, Approving
<1> QED  BY <1>2, <1>3, <1>4 DEF ServerStep, DocStep, Served, cache, reader, history

\* The document is approved, rejected or deleted.
LEMMA MoveKeeps ==
  ASSUME Typed, CallsFit, NEW s \in Slots, Served(s), s \notin Keys,
         NEW status \in {"approved", "rejected", "gone"}, doc.status # "gone",
         status # "gone" => doc.status \in Reviewable,
         doc' = [doc EXCEPT !.status = status, !.version = @ + 1],
         Answered(s, "ok"), s \in {"reject", "delete"} => status # "approved",
         status = "approved" => /\ s = "approve" /\ Open(doc.state) = {}
                                /\ ~calls[s].shown.torn => doc.state = calls[s].shown.state
  PROVE  ServerStep
<1>1. calls[s].step = "sent" /\ doc.next = Nothing
  BY DEF Served
<1>2. /\ Moved(doc, doc') /\ doc' \in Documents /\ doc'.next = Nothing /\ doc'.status = status
      /\ doc'.state = doc.state
  BY <1>1, MovesAre
<1>3. "ok" \in Answers /\ "answered" \in {"applied", "answered"}
  BY DEF Answers
<1>4. CallFits(s, Reply("answered", "ok", doc'))
  <2>1. /\ Reply("answered", "ok", doc').step = "answered"
        /\ Reply("answered", "ok", doc').summary = Summary(doc')
    BY <1>2, <1>3, ReplyIs
  <2>2. Mounted(Summary(doc')) <=> doc'.status \in Reviewable
    BY <1>2, SummaryIs
  <2> QED  BY <1>2, <2>1, <2>2 DEF CallFits, Reviewable
<1>5. /\ calls' \in [Slots -> Calls]
      /\ \A t \in Slots : SlotStep(calls[t], calls'[t], doc') /\ CallFits(t, calls'[t])
      /\ Current
  BY <1>1, <1>2, <1>3, <1>4, AnsweredIs
<1>6. NextSeen' /\ Approving
  BY <1>2 DEF NextSeen, Approving
<1> QED  BY <1>2, <1>5, <1>6 DEF ServerStep, DocStep, Served, cache, reader, history

LEMMA DecisionServed ==
  ASSUME PageInv, NEW s, ServeDecision(s)
  PROVE  ServerStep
<1>1. s \in Slots /\ s \in Keys /\ Served(s) /\ s \notin {"approve", "reject", "delete"}
  BY SlotsAssumption DEF ServeDecision, Slots
<1>2. CASE Refusal(calls[s]) # "none" /\ UNCHANGED doc /\ Answered(s, Refusal(calls[s]))
  <2>1. Refusal(calls[s]) \in Turned
    BY <1>2, RefusalIs
  <2> QED  BY <1>1, <1>2, <2>1, TurnsDown DEF PageInv
<1>3. CASE /\ Refusal(calls[s]) = "none" /\ Begins(s, "ok")
           /\ Started([doc.state EXCEPT ![Target(calls[s])] = calls[s].op], "needs_review", FALSE)
  <2>1. calls[s] \in Requests /\ calls[s].op # "none"
    BY <1>1, CallIs DEF PageInv, Typed, Served, CallsFit, CallFits
  <2>2. calls[s].op \in {"unseen", "open", "masked", "kept"}
    BY <2>1 DEF Requests
  <2>3. [doc.state EXCEPT ![Target(calls[s])] = calls[s].op] \in States
    BY <2>2 DEF PageInv, Typed, Documents, States
  <2>4. doc.status \in Reviewable /\ calls[s].shown.revision = doc.revision
    BY <1>3, RefusalIs
  <2>5. "needs_review" \in Ends /\ FALSE \in BOOLEAN /\ "ok" \in Answers /\ "needs_review" # "approved"
    BY DEF Ends, Answers
  <2> QED  BY <1>1, <1>3, <2>3, <2>4, <2>5, StartKeeps DEF PageInv
<1> QED  BY <1>2, <1>3 DEF ServeDecision

\* What an approval was asked for is what the document is.
LEMMA SeenIs ==
  ASSUME PageInv, NEW s \in Slots, calls[s].step = "sent", calls[s].shown.revision = doc.revision
  PROVE  ~calls[s].shown.torn => calls[s].shown.state = doc.state /\ calls[s].shown.at = doc.at
<1>1. calls[s].step = "sent" /\ calls[s] \in Calls
  BY DEF PageInv, Typed
<1>2. calls[s].shown \in Shown
  BY <1>1, CallIs DEF Requests
<1>3. PageFits(calls[s].shown, doc)
  BY <1>1 DEF PageInv, PagesFit, PagesOf
<1> QED  BY <1>2, <1>3, ShownIs DEF PageFits

LEMMA ApprovalServed ==
  ASSUME PageInv, NEW s, ServeApproval(s)
  PROVE  ServerStep
<1> DEFINE refusal == IF doc.status = "approved" THEN "not_in_review" ELSE Refusal(calls[s])
           fresh   == {v \in Values : doc.state[v] = "unseen"}
<1>1. /\ s = "approve" /\ s \in Slots /\ s \notin Keys /\ s \notin {"reject", "delete"} /\ Served(s)
      /\ calls[s].step = "sent"
      /\ Typed /\ CallsFit /\ NextSeen
  BY SlotsAssumption DEF ServeApproval, Slots, Dialogs, PageInv, Served
<1>2. /\ refusal \in Turned \cup {"none"}
      /\ refusal = "none" => doc.status = "needs_review" /\ calls[s].shown.revision = doc.revision
  BY RefusalIs DEF Turned, Answers, Reviewable
<1>3. /\ {"unresolved_items", "ollama_unreachable"} \subseteq Turned
      /\ {"ok", "audit_not_clean", "unresolved_items"} \subseteq Answers
      /\ {"needs_review", "approved"} \subseteq Ends /\ {TRUE, FALSE} \subseteq BOOLEAN
      /\ doc.state \in States /\ "needs_review" \in Reviewable
  BY <1>1 DEF Turned, Answers, Ends, Typed, Documents, Reviewable
<1>4. /\ Served(s)
      /\ \/ refusal # "none" /\ UNCHANGED doc /\ Answered(s, refusal)
         \/ refusal = "none" /\ Open(doc.state) # {} /\ UNCHANGED doc /\ Answered(s, "unresolved_items")
         \/ /\ refusal = "none" /\ Open(doc.state) = {}
            /\ \/ doc.audited /\ doc' = [doc EXCEPT !.status = "approved", !.version = @ + 1]
                  /\ Answered(s, "ok")
               \/ ~doc.audited /\ UNCHANGED doc /\ Answered(s, "ollama_unreachable")
               \/ ~doc.audited /\ Started(doc.state, "approved", TRUE) /\ Begins(s, "ok")
               \/ ~doc.audited /\ Started(doc.state, "needs_review", TRUE) /\ Begins(s, "audit_not_clean")
               \/ /\ ~doc.audited /\ Begins(s, "unresolved_items")
                  /\ \E v \in fresh : Started([doc.state EXCEPT ![v] = "open"], "needs_review", TRUE)
  BY DEF ServeApproval
<1> HIDE DEF refusal
<1>5. CASE refusal # "none" /\ UNCHANGED doc /\ Answered(s, refusal)
  <2>1. refusal \in Turned
    BY <1>2, <1>5
  <2> QED  BY <1>1, <1>5, <2>1, TurnsDown
<1>6. CASE UNCHANGED doc /\ Answered(s, "unresolved_items")
  BY <1>1, <1>3, <1>6, TurnsDown
<1>7. CASE UNCHANGED doc /\ Answered(s, "ollama_unreachable")
  BY <1>1, <1>3, <1>7, TurnsDown
<1>8. CASE /\ refusal = "none" /\ Open(doc.state) = {} /\ Answered(s, "ok")
           /\ doc' = [doc EXCEPT !.status = "approved", !.version = @ + 1]
  <2>1. doc.status \in Reviewable /\ doc.status # "gone" /\ "approved" \in {"approved", "rejected", "gone"}
    BY <1>2, <1>8 DEF Reviewable
  <2>2. ~calls[s].shown.torn => doc.state = calls[s].shown.state
    BY <1>1, <1>2, <1>8, SeenIs
  <2> QED  BY <1>1, <1>8, <2>1, <2>2, MoveKeeps
<1>9. CASE /\ refusal = "none" /\ Open(doc.state) = {}
           /\ Started(doc.state, "approved", TRUE) /\ Begins(s, "ok")
  <2>1. doc.status \in Reviewable /\ calls[s].shown.revision = doc.revision
    BY <1>2, <1>3, <1>9
  <2>2. ~calls[s].shown.torn => doc.state = calls[s].shown.state
    BY <1>1, <1>2, <1>9, SeenIs
  <2>3. "approved" \in Ends /\ TRUE \in BOOLEAN /\ "ok" \in Answers /\ doc.state \in States
    BY <1>3
  <2> QED  BY <1>1, <1>9, <2>1, <2>2, <2>3, StartKeeps
<1>10. CASE refusal = "none" /\ Started(doc.state, "needs_review", TRUE) /\ Begins(s, "audit_not_clean")
  <2>1. doc.status \in Reviewable /\ calls[s].shown.revision = doc.revision
    BY <1>2, <1>3, <1>10
  <2>2. /\ "needs_review" \in Ends /\ "needs_review" # "approved" /\ TRUE \in BOOLEAN
        /\ "audit_not_clean" \in Answers /\ doc.state \in States
    BY <1>3
  <2> QED  BY <1>1, <1>10, <2>1, <2>2, StartKeeps
<1>11. CASE /\ refusal = "none" /\ Begins(s, "unresolved_items")
            /\ \E v \in fresh : Started([doc.state EXCEPT ![v] = "open"], "needs_review", TRUE)
  <2>1. PICK v \in fresh : Started([doc.state EXCEPT ![v] = "open"], "needs_review", TRUE)
    BY <1>11
  <2>2. doc.status \in Reviewable /\ calls[s].shown.revision = doc.revision
    BY <1>2, <1>3, <1>11
  <2>3. [doc.state EXCEPT ![v] = "open"] \in States
    BY <1>3 DEF States
  <2>4. /\ "needs_review" \in Ends /\ "needs_review" # "approved" /\ TRUE \in BOOLEAN
        /\ "unresolved_items" \in Answers
    BY <1>3
  <2> QED  BY <1>1, <1>11, <2>1, <2>2, <2>3, <2>4, StartKeeps
<1> QED  BY <1>4, <1>5, <1>6, <1>7, <1>8, <1>9, <1>10, <1>11

LEMMA RejectionServed ==
  ASSUME PageInv, NEW s, ServeRejection(s)
  PROVE  ServerStep
<1>1. /\ s = "reject" /\ s \in Slots /\ s \notin Keys /\ Served(s)
      /\ Typed /\ CallsFit /\ NextSeen
  BY SlotsAssumption DEF ServeRejection, Slots, Dialogs, PageInv
<1>2. CASE /\ doc.status \in Reviewable /\ Answered(s, "ok")
           /\ doc' = [doc EXCEPT !.status = "rejected", !.version = @ + 1]
  <2>1. /\ "rejected" \in {"approved", "rejected", "gone"} /\ "rejected" # "approved"
        /\ doc.status # "gone"
    BY <1>2 DEF Reviewable
  <2> QED  BY <1>1, <1>2, <2>1, MoveKeeps
<1>3. CASE doc.status \notin Reviewable /\ UNCHANGED doc /\ Answered(s, Refusal(calls[s]))
  <2>1. Refusal(calls[s]) \in Turned
    BY <1>3, RefusalIs
  <2> QED  BY <1>1, <1>3, <2>1, TurnsDown
<1> QED  BY <1>2, <1>3 DEF ServeRejection

LEMMA DeletionServed ==
  ASSUME PageInv, NEW s, ServeDeletion(s)
  PROVE  ServerStep
<1>1. /\ s = "delete" /\ s \in Slots /\ s \notin Keys /\ Served(s)
      /\ Typed /\ CallsFit /\ NextSeen
  BY SlotsAssumption DEF ServeDeletion, Slots, Dialogs, PageInv
<1>2. CASE /\ doc.status # "gone" /\ Answered(s, "ok")
           /\ doc' = [doc EXCEPT !.status = "gone", !.version = @ + 1]
  <2>1. "gone" \in {"approved", "rejected", "gone"} /\ "gone" # "approved"
    OBVIOUS
  <2> QED  BY <1>1, <1>2, <2>1, MoveKeeps
<1>3. CASE UNCHANGED doc /\ Answered(s, "document_not_found")
  <2>1. "document_not_found" \in Turned
    BY DEF Turned, Answers
  <2> QED  BY <1>1, <1>3, <2>1, TurnsDown
<1> QED  BY <1>2, <1>3 DEF ServeDeletion

LEMMA ElsewhereServed ==
  ASSUME PageInv, Elsewhere
  PROVE  ServerStep
<1>1. /\ Typed /\ CallsFit /\ doc.status \in Reviewable /\ doc.next = Nothing /\ UNCHANGED calls
      /\ UNCHANGED <<list, review, fetchL, fetchR, dialog, faults, settled, setBack, overtaken>>
  BY DEF PageInv, Elsewhere, cache, reader, history
<1>2. /\ DocStep(doc, doc') /\ doc'.status # "approved"
      /\ doc'.next # Nothing => doc'.next.status = "needs_review"
  <2>1. ASSUME NEW v \in Values, NEW op \in {"masked", "kept"},
               Started([doc.state EXCEPT ![v] = op], "needs_review", FALSE)
        PROVE  DocStep(doc, doc') /\ doc'.next.status = "needs_review" /\ doc'.status # "approved"
    <3>1. [doc.state EXCEPT ![v] = op] \in States
      BY <1>1, <2>1 DEF Typed, Documents, States
    <3>2. "needs_review" \in Ends /\ FALSE \in BOOLEAN
      BY DEF Ends
    <3> QED  BY <1>1, <2>1, <3>1, <3>2, StartedIs DEF DocStep
  <2>2. ASSUME NEW status \in {"rejected", "gone"},
               doc' = [doc EXCEPT !.status = status, !.version = @ + 1]
        PROVE  DocStep(doc, doc') /\ doc'.next = Nothing /\ doc'.status # "approved"
    <3>1. status \in {"approved", "rejected", "gone"} /\ doc.status # "gone"
      BY <1>1 DEF Reviewable
    <3> QED  BY <1>1, <2>2, <3>1, MovesAre DEF DocStep
  <2> QED  BY <2>1, <2>2 DEF Elsewhere
<1>3. \A s \in Slots : SlotStep(calls[s], calls'[s], doc') /\ CallFits(s, calls'[s])
  BY <1>1 DEF SlotStep, CallsFit
<1>4. NextSeen' /\ Current /\ Approving
  BY <1>1, <1>2 DEF NextSeen, Current, Approving
<1> QED  BY <1>1, <1>2, <1>3, <1>4 DEF ServerStep, Typed

LEMMA StoreServed ==
  ASSUME PageInv, Store
  PROVE  ServerStep
<1>1. /\ Typed /\ CallsFit /\ doc.next # Nothing /\ Stored(doc, doc')
      /\ UNCHANGED <<list, review, fetchL, fetchR, dialog, faults, settled, setBack, overtaken>>
  BY DEF PageInv, Store, cache, reader, history, Stored
<1>2. /\ doc' \in Documents /\ doc'.next = Nothing /\ doc'.status \in Reviewable
      /\ doc'.status = doc.next.status /\ doc'.state = doc.next.state
  <2>1. PICK f \in Orders :
          doc' = [doc EXCEPT !.version = @ + 1, !.at = f, !.state = doc.next.state, !.status = doc.next.status,
                          !.audited = doc.next.audited, !.next = Nothing]
    BY DEF Store
  <2>2. doc.next \in Contents
    BY <1>1, NextIs DEF Typed
  <2> QED  BY <1>1, <2>1, <2>2, StoredIs DEF Typed, Contents, Ends, Reviewable
<1>3. /\ Summary(doc') \in Summaries /\ Mounted(Summary(doc'))
  BY <1>2, SummaryIs
<1>4. ASSUME NEW s \in Slots
      PROVE  /\ calls'[s] \in Calls /\ SlotStep(calls[s], calls'[s], doc') /\ CallFits(s, calls'[s])
  <2>1. CASE calls[s].step # "storing"
    BY <1>1, <2>1 DEF Store, SlotStep, Typed, CallsFit
  <2>2. CASE calls[s].step = "storing"
    <3> DEFINE step == IF s \in Keys THEN "applied" ELSE "answered"
    <3>1. calls'[s] = Reply(step, calls[s].answer, doc')
      BY <2>2 DEF Store, Answer, Reply
    <3>2. step \in {"applied", "answered"} /\ calls[s].answer \in Answers
      BY <1>1, <2>2, CallIs DEF Typed, Storing
    <3>3. /\ s \in Keys => calls[s].answer = "ok" /\ s \notin Dialogs
          /\ s \notin {"reject", "delete"}
      BY <1>1, <2>2, SlotsAssumption DEF CallsFit, CallFits, Dialogs
    <3> HIDE DEF step
    <3>4. /\ calls'[s] \in Replies /\ calls'[s].step = step /\ calls'[s].answer = calls[s].answer
          /\ calls'[s].answer = "ok" => calls'[s].summary = Summary(doc')
      BY <1>2, <3>1, <3>2, ReplyIs
    <3>5. s \notin Keys => step # "applied"
      BY DEF step
    <3>6. CallFits(s, calls'[s])
      BY <1>3, <3>2, <3>3, <3>4, <3>5 DEF CallFits, Granted, Dialogs, Slots
    <3>7. SlotStep(calls[s], calls'[s], doc')
      BY <2>2, <3>1, <3>2 DEF SlotStep
    <3> QED  BY <3>4, <3>6, <3>7 DEF Calls
  <2> QED  BY <2>1, <2>2
<1>5. calls' \in [Slots -> Calls]
  BY <1>4 DEF Store
<1>6. NextSeen' /\ Approving
  BY <1>1, <1>2 DEF NextSeen, Approving, PageInv
<1>7. Current
  BY DEF Store, Current
<1> QED  BY <1>1, <1>4, <1>5, <1>6, <1>7 DEF ServerStep, DocStep

\* What a server step leaves of a call, and of what is known of it.
LEMMA SlotKeeps ==
  ASSUME NEW d \in Documents, NEW e \in Documents, DocFits(d), DocStep(d, e),
         NEW c \in Calls, NEW t \in Calls, SlotStep(c, t, e), PagesOf(c, d)
  PROVE  /\ PagesOf(t, e)
         /\ Waiting(t) => t = c
         /\ Granted(t) => (Granted(c) /\ t.summary = c.summary) \/ t.summary = Summary(e)
<1>1. /\ e.revision >= d.revision /\ d.revision \in Nat /\ e.revision \in Nat
      /\ \A page \in Pages : PageFits(page, d) => PageFits(page, e)
  BY DocSteps, NextIs
<1>2. CASE t = c
  <2>1. c.step \in {"sent", "storing"} => c.shown \in Pages
    BY CallIs, ShownIs DEF Requests, Storing
  <2>2. c.step \in {"applied", "answered"} => c.page \in Pages /\ c.revision \in Nat
    BY CallIs DEF Replies
  <2>3. Waiting(c) => c.revision \in Nat
    BY CallIs DEF Waiting, Reloadings
  <2>4. c.step \in {"sent", "storing"} => PageFits(c.shown, e)
    BY <1>1, <2>1 DEF PagesOf
  <2>5. c.step \in {"applied", "answered"} => c.revision <= e.revision /\ PageFits(c.page, e)
    BY <1>1, <2>2 DEF PagesOf
  <2>6. Waiting(c) => c.revision <= e.revision
    BY <1>1, <2>3 DEF PagesOf
  <2> QED  BY <1>2, <2>4, <2>5, <2>6 DEF PagesOf
<1>3. CASE c.step = "sent" /\ t \in Storing /\ t.shown = c.shown
  <2>1. c.shown \in Pages /\ PageFits(c.shown, d)
    BY <1>3, CallIs, ShownIs DEF Requests, PagesOf
  <2> QED  BY <1>1, <1>3, <2>1 DEF PagesOf, Storing, Waiting, Granted
<1>4. CASE \E step \in {"applied", "answered"}, answer \in Answers : t = Reply(step, answer, e)
  <2>1. PICK step \in {"applied", "answered"}, answer \in Answers : t = Reply(step, answer, e)
    BY <1>4
  <2>2. /\ t.step = step /\ t.answer = answer /\ t.revision = e.revision /\ t.page = Problem
        /\ answer = "ok" => t.summary = Summary(e)
    BY <2>1, ReplyIs
  <2>3. PageFits(Problem, e)
    BY ShownIs
  <2> QED  BY <1>1, <2>2, <2>3 DEF PagesOf, Waiting, Granted
<1> QED  BY <1>2, <1>3, <1>4 DEF SlotStep

LEMMA ServerKeeps ==
  ASSUME PageInv, ServerStep
  PROVE  PageInv'
<1>1. /\ Typed /\ DocFits(doc) /\ doc \in Documents /\ DocStep(doc, doc')
      /\ UNCHANGED <<list, review, fetchL, fetchR, dialog, faults, settled, setBack, overtaken>>
      /\ calls' \in [Slots -> Calls] /\ NextSeen'
      /\ \A s \in Slots : SlotStep(calls[s], calls'[s], doc') /\ CallFits(s, calls'[s])
  BY DEF PageInv, ServerStep, Typed
<1>2. /\ doc' \in Documents /\ DocFits(doc')
      /\ doc'.version >= doc.version /\ doc'.revision >= doc.revision
      /\ doc.status = "gone" => doc'.status = "gone"
      /\ \A page \in Pages : PageFits(page, doc) => PageFits(page, doc')
  BY <1>1, DocSteps
<1>3. Typed' /\ DocFits(doc)' /\ CallsFit'
  BY <1>1, <1>2 DEF Typed, CallsFit
<1>4. ASSUME NEW s \in Slots
      PROVE  /\ PagesOf(calls'[s], doc')
             /\ Waiting(calls'[s]) => calls'[s] = calls[s]
             /\ Granted(calls'[s]) => (Granted(calls[s]) /\ calls'[s].summary = calls[s].summary)
                                     \/ calls'[s].summary = Summary(doc')
  <2>1. calls[s] \in Calls /\ calls'[s] \in Calls /\ PagesOf(calls[s], doc)
    BY <1>1 DEF PageInv, PagesFit, Typed
  <2> QED  BY <1>1, <1>2, <2>1, SlotKeeps
<1>5. PagesFit'
  <2>1. PageFits(review, doc')
    BY <1>1, <1>2 DEF PageInv, PagesFit, Typed
  <2>2. FetchFits(fetchR, doc')
    <3>1. CASE fetchR.step = "content"
      <4>1. fetchR.revision \in Nat /\ fetchR.step # "ready"
        BY <1>1, <3>1 DEF Typed, Nothing, Sent
      <4>2. doc.revision \in Nat /\ doc'.revision \in Nat /\ fetchR.revision <= doc.revision
        BY <1>1, <1>2, <3>1, NextIs DEF PageInv, PagesFit, FetchFits
      <4> QED  BY <1>2, <4>1, <4>2 DEF FetchFits
    <3>2. CASE fetchR.step = "ready"
      <4>1. fetchR.page \in Pages
        BY <1>1, <3>2 DEF Typed, Nothing, Sent
      <4>2. PageFits(fetchR.page, doc)
        BY <3>2 DEF PageInv, PagesFit, FetchFits
      <4> QED  BY <1>2, <3>2, <4>1, <4>2 DEF FetchFits
    <3> QED  BY <3>1, <3>2 DEF FetchFits
  <2> QED  BY <1>1, <1>4, <2>1, <2>2 DEF PagesFit
<1>6. SummariesFit'
  <2>1. GrantsFrom(calls, calls', doc')
    <3>1. Mounted(Summary(doc')) => doc'.status \in Reviewable
      BY <1>2, SummaryIs
    <3> QED  BY <1>4, <3>1 DEF GrantsFrom
  <2>2. \A s \in Slots : Granted(calls[s]) => /\ calls[s].summary \in Summaries
                                             /\ SummaryFits(calls[s].summary, doc, calls)
    <3>1. ASSUME NEW s \in Slots, Granted(calls[s])  PROVE  calls[s].summary \in Summaries
      BY <1>1, <3>1, CallIs DEF Typed, Granted, Replies
    <3> QED  BY <3>1 DEF PageInv, SummariesFit
  <2>3. SummaryFits(Summary(doc'), doc', calls')
    <3>1. SummaryFits(Summary(doc), doc, calls)
      BY DEF PageInv, SummariesFit
    <3> QED  BY <1>1, <2>1, <2>2, <3>1, SummaryNow
  <2>4. SummaryFits(list, doc', calls')
    <3>1. list \in Summaries /\ SummaryFits(list, doc, calls)
      BY DEF PageInv, SummariesFit, Typed
    <3> QED  BY <1>1, <2>1, <3>1, SummarySteps
  <2>5. ASSUME fetchL.step = "ready"
        PROVE  SummaryFits(fetchL.data, doc', calls') /\ (Mounted(list) \/ ~Mounted(fetchL.data))
    <3>1. fetchL.data \in Summaries
      BY <1>1, <2>5 DEF Typed, Nothing, Sent
    <3>2. SummaryFits(fetchL.data, doc, calls) /\ (Mounted(list) \/ ~Mounted(fetchL.data))
      BY <2>5 DEF PageInv, SummariesFit
    <3> QED  BY <1>1, <2>1, <3>1, <3>2, SummarySteps
  <2>6. ASSUME NEW s \in Slots, Granted(calls'[s])
        PROVE  SummaryFits(calls'[s].summary, doc', calls')
    <3>1. CASE Granted(calls[s]) /\ calls'[s].summary = calls[s].summary
      <4>1. calls[s].summary \in Summaries /\ SummaryFits(calls[s].summary, doc, calls)
        BY <2>2, <3>1
      <4>2. SummaryFits(calls[s].summary, doc', calls')
        BY <1>1, <2>1, <4>1, SummarySteps
      <4> QED  BY <3>1, <4>2
    <3>2. CASE calls'[s].summary = Summary(doc')
      BY <2>3, <3>2
    <3> QED  BY <1>4, <2>6, <3>1, <3>2
  <2> QED  BY <1>1, <2>3, <2>4, <2>5, <2>6 DEF SummariesFit
<1>7. SettledInv'
  <2>1. settled <= doc'.version \/ doc'.status = "gone"
    <3>1. doc.version \in Nat /\ doc'.version \in Nat /\ settled \in Nat
      BY <1>1, <1>2, NextIs DEF Typed
    <3> QED  BY <1>2, <3>1 DEF PageInv, SettledInv
  <2> QED  BY <1>1, <2>1 DEF PageInv, SettledInv
<1>8. WaitInv'
  BY <1>1, <1>4 DEF PageInv, WaitInv, WaitOf
<1> QED  BY <1>1, <1>3, <1>5, <1>6, <1>7, <1>8 DEF PageInv

----------------------------------------------------------------------------
(* The tab's steps: the document stays.                                    *)

\* What the tab may make of a call: it never grants one, nor touches a change
\* that the server is storing.
Moves(s, c, t, d) ==
  /\ t \in Calls /\ CallFits(s, t) /\ PagesOf(t, d)
  /\ Granted(t) => Granted(c) /\ t.summary = c.summary
  /\ "storing" \in {c.step, t.step} => t = c
AllMove(cs, ct, d) == ct \in [Slots -> Calls] /\ \A s \in Slots : Moves(s, cs[s], ct[s], d)

\* A summary the tab may show or have under way.
Believed(u) == u \in Summaries /\ SummaryFits(u, doc, calls)

\* Whoever is woken unfailed sees a page as new as his refusal.
Woke(c, t) == Waiting(c) /\ t = Nothing /\ ~c.failed /\ faults' = faults =>
                overtaken' \/ ~Mounted(list') \/ Satisfies(review', c.revision)

TabStep ==
  /\ UNCHANGED doc /\ AllMove(calls, calls', doc)
  /\ Believed(list') /\ review' \in Pages /\ PageFits(review', doc)
  /\ fetchL' \in {Nothing, Sent} \cup [step : {"ready"}, data : Summaries]
  /\ fetchL'.step = "ready" => Believed(fetchL'.data) /\ (Mounted(list') \/ ~Mounted(fetchL'.data))
  /\ fetchR' \in {Nothing, Sent} \cup [step : {"content"}, revision : Nat] \cup [step : {"ready"}, page : Pages]
  /\ FetchFits(fetchR', doc)
  /\ dialog' \in BOOLEAN /\ overtaken' \in BOOLEAN /\ setBack' \in BOOLEAN /\ settled' \in Nat /\ faults' \in Nat
  /\ SettledInv' /\ WaitInv' /\ \A s \in Slots : Woke(calls[s], calls'[s])

LEMMA TabKeeps ==
  ASSUME PageInv, TabStep
  PROVE  PageInv'
<1>1. /\ Typed /\ DocFits(doc) /\ doc \in Documents /\ UNCHANGED doc
      /\ calls' \in [Slots -> Calls] /\ \A s \in Slots : Moves(s, calls[s], calls'[s], doc)
  BY DEF PageInv, Typed, TabStep, AllMove
<1>2. Typed' /\ DocFits(doc)'
  BY <1>1 DEF TabStep, Typed, Believed
<1>3. CallsFit' /\ PagesFit'
  BY <1>1 DEF CallsFit, PagesFit, Moves, TabStep
<1>4. NextSeen'
  <2>1. "approve" \in Slots
    BY DEF Slots, Dialogs
  <2> QED  BY <1>1, <2>1 DEF PageInv, NextSeen, Moves
<1>5. SummariesFit'
  <2>1. GrantsFrom(calls, calls', doc) /\ DocStep(doc, doc)
    BY <1>1 DEF GrantsFrom, Moves, DocStep
  <2>2. \A u : Believed(u) => SummaryFits(u, doc, calls')
    BY <1>1, <2>1, SummarySteps DEF Believed
  <2>3. Believed(Summary(doc))
    BY <1>1, SummaryIs DEF Believed, PageInv, SummariesFit
  <2>4. ASSUME NEW s \in Slots, Granted(calls'[s])
        PROVE  SummaryFits(calls'[s].summary, doc, calls')
    <3>1. Granted(calls[s]) /\ calls'[s].summary = calls[s].summary
      BY <1>1, <2>4 DEF Moves
    <3>2. calls[s].summary \in Summaries
      BY <1>1, <3>1, CallIs DEF Typed, Granted, Replies
    <3>3. Believed(calls[s].summary)
      BY <3>1, <3>2 DEF Believed, PageInv, SummariesFit
    <3> QED  BY <2>2, <3>1, <3>3
  <2> QED  BY <1>1, <2>2, <2>3, <2>4 DEF SummariesFit, TabStep
<1> QED  BY <1>2, <1>3, <1>4, <1>5 DEF PageInv, TabStep

\* What the tab believes already.
LEMMA Beliefs ==
  ASSUME PageInv
  PROVE  /\ Believed(list) /\ Believed(Summary(doc))
         /\ fetchL.step = "ready" => Believed(fetchL.data) /\ (Mounted(list) \/ ~Mounted(fetchL.data))
         /\ \A s \in Slots : Granted(calls[s]) => Believed(calls[s].summary)
         /\ ~Mounted(list) => ~Mounted(Summary(doc))
<1>1. doc \in Documents /\ list \in Summaries
  BY DEF PageInv, Typed
<1>2. fetchL.step = "ready" => fetchL.data \in Summaries
  BY DEF PageInv, Typed, Nothing, Sent
<1>3. \A s \in Slots : Granted(calls[s]) => calls[s].summary \in Summaries
  <2>1. ASSUME NEW s \in Slots, Granted(calls[s])  PROVE  calls[s].summary \in Summaries
    <3>1. calls[s] \in Calls /\ calls[s].step \in {"applied", "answered"}
      BY <2>1 DEF PageInv, Typed, Granted
    <3> QED  BY <3>1, CallIs DEF Replies
  <2> QED  BY <2>1
<1>4. Believed(list) /\ Believed(Summary(doc))
  BY <1>1, SummaryIs DEF Believed, PageInv, SummariesFit
<1>5. fetchL.step = "ready" => Believed(fetchL.data) /\ (Mounted(list) \/ ~Mounted(fetchL.data))
  BY <1>2 DEF Believed, PageInv, SummariesFit
<1>6. \A s \in Slots : Granted(calls[s]) => Believed(calls[s].summary)
  BY <1>3 DEF Believed, PageInv, SummariesFit
<1>7. ~Mounted(list) => ~Mounted(Summary(doc))
  BY <1>1, <1>4, SummaryIs DEF Believed, SummaryFits
<1> QED  BY <1>4, <1>5, <1>6, <1>7

LEMMA SameMoves ==
  ASSUME PageInv, NEW s \in Slots
  PROVE  Moves(s, calls[s], calls[s], doc) /\ calls[s] \in Calls
BY DEF PageInv, Typed, CallsFit, PagesFit, Moves

LEMMA OneMoves ==
  ASSUME PageInv, NEW s \in Slots, NEW t, Moves(s, calls[s], t, doc), calls' = [calls EXCEPT ![s] = t]
  PROVE  AllMove(calls, calls', doc)
<1>1. t \in Calls /\ calls \in [Slots -> Calls]
  BY DEF Moves, PageInv, Typed
<1>2. ASSUME NEW r \in Slots  PROVE  Moves(r, calls[r], calls'[r], doc)
  BY <1>1, SameMoves
<1> QED  BY <1>1, <1>2 DEF AllMove

LEMMA GoneMoves ==
  ASSUME NEW s, NEW c, c.step # "storing"
  PROVE  Moves(s, c, Nothing, doc)
BY DEF Moves, Calls, Nothing, CallFits, PagesOf, Waiting, Granted

\* What becomes of the calls when fetches have ended.
WokenOf(c, keys, failed) ==
  IF ~Waiting(c) THEN c ELSE IF c.waits \subseteq keys THEN Nothing
  ELSE [c EXCEPT !.waits = @ \ keys, !.failed = @ \/ failed]

LEMMA WokenIs ==
  ASSUME NEW c \in Calls, Waiting(c), NEW keys, NEW failed \in BOOLEAN, ~(c.waits \subseteq keys)
  PROVE  LET t == WokenOf(c, keys, failed)
         IN  /\ t \in Calls /\ Waiting(t) /\ t.revision = c.revision
             /\ t.waits = c.waits \ keys /\ (t.failed <=> c.failed \/ failed)
<1>1. c \in Reloadings
  BY CallIs DEF Waiting
<1> DEFINE e1 == [c EXCEPT !.waits = c.waits \ keys]
           e2 == [e1 EXCEPT !.failed = e1.failed \/ failed]
<1>2. /\ e1 \in Reloadings /\ e1.revision = c.revision /\ e1.waits = c.waits \ keys
      /\ e1.failed = c.failed
  BY <1>1 DEF Reloadings
<1>3. \A x \in BOOLEAN : LET e == [e1 EXCEPT !.failed = x]
        IN e \in Reloadings /\ e.revision = e1.revision /\ e.waits = e1.waits /\ e.failed = x
  <2> HIDE DEF e1
  <2> QED  BY <1>2 DEF Reloadings
<1>4. (e1.failed \/ failed) \in BOOLEAN
  OBVIOUS
<1>5. /\ e2 \in Reloadings /\ e2.revision = e1.revision /\ e2.waits = e1.waits
      /\ e2.failed = (e1.failed \/ failed)
  <2> HIDE DEF e1
  <2> QED  BY <1>3, <1>4
<1>6. WokenOf(c, keys, failed) = e2
  BY <1>2 DEF WokenOf
<1> HIDE DEF e1, e2
<1>7. Waiting(e2) /\ e2 \in Calls
  BY <1>5 DEF Reloadings, Waiting, Calls
<1> QED  BY <1>2, <1>5, <1>6, <1>7

LEMMA WokenMoves ==
  ASSUME NEW s \in Slots, NEW c \in Calls, NEW keys, NEW failed \in BOOLEAN, Moves(s, c, c, doc)
  PROVE  Moves(s, c, WokenOf(c, keys, failed), doc)
<1>1. CASE ~Waiting(c)
  BY <1>1 DEF WokenOf
<1>2. CASE Waiting(c) /\ c.waits \subseteq keys
  <2>1. WokenOf(c, keys, failed) = Nothing /\ c.step # "storing"
    BY <1>2 DEF WokenOf, Waiting
  <2> QED  BY <2>1, GoneMoves
<1>3. CASE Waiting(c) /\ ~(c.waits \subseteq keys)
  <2> DEFINE t == WokenOf(c, keys, failed)
  <2>1. t \in Calls /\ Waiting(t) /\ t.revision = c.revision
    BY <1>3, WokenIs
  <2> HIDE DEF t
  <2>2. Moves(s, c, t, doc)
    BY <1>3, <2>1 DEF Moves, CallFits, PagesOf, Waiting, Granted
  <2> QED  BY <2>2 DEF t
<1> QED  BY <1>1, <1>2, <1>3

LEMMA AllWoken ==
  ASSUME PageInv, NEW keys, NEW failed \in BOOLEAN, calls' = Woken(calls, keys, failed)
  PROVE  /\ AllMove(calls, calls', doc)
         /\ \A s \in Slots : calls'[s] = WokenOf(calls[s], keys, failed)
<1>1. \A s \in Slots : calls'[s] = WokenOf(calls[s], keys, failed)
  BY DEF Woken, WokenOf
<1>2. \A s \in Slots : Moves(s, calls[s], calls'[s], doc)
  BY <1>1, SameMoves, WokenMoves
<1>3. calls' \in [Slots -> Calls]
  BY <1>2 DEF Woken, Moves
<1> QED  BY <1>1, <1>2, <1>3 DEF AllMove

\* The screen stays as it is, and whoever waits goes on to wait.
ScreenStays ==
  /\ UNCHANGED <<doc, list, review, settled, setBack, overtaken>> /\ dialog' \in BOOLEAN /\ faults' \in Nat
Fetching == UNCHANGED <<fetchL, fetchR>>

LEMMA ScreenIs ==
  ASSUME PageInv
  PROVE  /\ Typed /\ doc \in Documents /\ list \in Summaries /\ review \in Pages
         /\ fetchL \in {Nothing, Sent} \cup [step : {"ready"}, data : Summaries]
         /\ fetchR \in {Nothing, Sent} \cup [step : {"content"}, revision : Nat] \cup [step : {"ready"}, page : Pages]
         /\ PageFits(review, doc) /\ FetchFits(fetchR, doc) /\ SettledInv /\ WaitInv
         /\ dialog \in BOOLEAN /\ overtaken \in BOOLEAN /\ setBack \in BOOLEAN /\ settled \in Nat /\ faults \in Nat
         /\ \A s \in Slots : calls[s] \in Calls /\ PagesOf(calls[s], doc)
BY DEF PageInv, Typed, PagesFit

LEMMA FetchSteps ==
  /\ Nothing.step = "idle" /\ Sent.step = "sent" /\ Nothing # Sent
  /\ \A f \in {Nothing, Sent} : f.step # "ready" /\ f.step # "content" /\ FetchFits(f, doc)
BY DEF Nothing, Sent, FetchFits

\* Whoever waits and goes on to wait is not woken.
LEMMA WaitOn ==
  ASSUME \A s \in Slots : Waiting(calls[s]) => calls'[s] = calls[s]
  PROVE  \A s \in Slots : Woke(calls[s], calls'[s])
BY FetchSteps DEF Woke, Waiting

LEMMA StayMoves ==
  ASSUME PageInv, UNCHANGED calls
  PROVE  AllMove(calls, calls', doc) /\ \A s \in Slots : Woke(calls[s], calls'[s])
BY SameMoves, WaitOn DEF AllMove, PageInv, Typed

\* Calls change, and no fetch.
LEMMA CallsOnly ==
  ASSUME PageInv, ScreenStays, Fetching, AllMove(calls, calls', doc),
         \A s \in Slots : Waiting(calls[s]) \/ Waiting(calls'[s]) => calls'[s] = calls[s]
  PROVE  TabStep
<1>1. WaitInv'
  BY ScreenIs DEF WaitInv, WaitOf, ScreenStays, Fetching
<1>2. SettledInv'
  BY ScreenIs DEF SettledInv, ScreenStays, Fetching
<1>3. \A s \in Slots : Woke(calls[s], calls'[s])
  BY WaitOn
<1> QED  BY <1>1, <1>2, <1>3, ScreenIs, Beliefs DEF TabStep, ScreenStays, Fetching

LEMMA PollKeeps ==
  ASSUME PageInv, Poll
  PROVE  TabStep
<1>1. /\ UNCHANGED <<doc, list, review, fetchR, calls, dialog, faults, settled, setBack, overtaken>>
      /\ fetchL' = Sent
  BY DEF Poll, server, cache, reader, history
<1>2. TabStep
  <2>1. WaitInv'
    BY <1>1, ScreenIs, FetchSteps DEF WaitInv, WaitOf
  <2>2. SettledInv'
    BY <1>1, ScreenIs, FetchSteps DEF SettledInv
  <2> QED  BY <1>1, <2>1, <2>2, ScreenIs, Beliefs, FetchSteps, StayMoves DEF TabStep
<1> QED  BY <1>2

LEMMA ReadLibraryKeeps ==
  ASSUME PageInv, ReadLibrary
  PROVE  TabStep
<1>1. /\ UNCHANGED <<doc, list, review, fetchR, calls, dialog, faults, settled, setBack, overtaken>>
      /\ fetchL' = [step |-> "ready", data |-> Summary(doc)]
  BY DEF ReadLibrary, server, cache, reader, history
<1>2. /\ fetchL'.step = "ready" /\ fetchL'.data = Summary(doc) /\ fetchL' # Nothing
      /\ Summary(doc) \in Summaries /\ fetchL' \in [step : {"ready"}, data : Summaries]
  BY <1>1, ScreenIs, SummaryIs, FetchSteps
<1>3. Recent(Summary(doc), settled) /\ (list # Absent \/ Summary(doc) = Absent)
  <2>1. doc.version \in Nat /\ settled \in Nat
    BY ScreenIs, NextIs
  <2>2. list = Absent => doc.status = "gone"
    BY Beliefs DEF Believed, SummaryFits
  <2> QED  BY <2>1, <2>2, ScreenIs, SummaryIs DEF SettledInv, Recent
<1>4. TabStep
  <2>1. WaitInv'
    BY <1>1, <1>2, ScreenIs DEF WaitInv, WaitOf
  <2>2. SettledInv'
    BY <1>1, <1>2, <1>3, ScreenIs DEF SettledInv
  <2> QED  BY <1>1, <1>2, <2>1, <2>2, ScreenIs, Beliefs, StayMoves DEF TabStep
<1> QED  BY <1>4

LEMMA ReadRevisionKeeps ==
  ASSUME PageInv, ReadRevision
  PROVE  TabStep
<1>1. /\ UNCHANGED <<doc, list, review, fetchL, calls, dialog, faults, settled, setBack, overtaken>>
      /\ fetchR = Sent /\ fetchR' # Nothing
      /\ \/ fetchR' = [step |-> "content", revision |-> doc.revision]
         \/ fetchR' = [step |-> "ready", page |-> Problem]
  BY DEF ReadRevision, server, cache, reader, history, Nothing
<1>2. fetchR' \in [step : {"content"}, revision : Nat] \cup [step : {"ready"}, page : Pages]
  BY <1>1, ScreenIs, NextIs, ShownIs
<1>3. FetchFits(fetchR', doc)
  BY <1>1, ScreenIs, NextIs, ShownIs DEF FetchFits
<1>4. TabStep
  <2>1. WaitInv'
    <3>1. ASSUME NEW s \in Slots, Waiting(calls[s])  PROVE  WaitOf(calls[s])'
      <4>1. calls[s].revision <= doc.revision /\ calls[s].revision \in Nat /\ doc.revision \in Nat
        BY <3>1, ScreenIs, CallIs, NextIs DEF PagesOf, Waiting, Reloadings
      <4>2. WaitOf(calls[s])
        BY <3>1, ScreenIs DEF WaitInv
      <4> QED  BY <1>1, <4>1, <4>2 DEF WaitOf, Satisfies
    <3> QED  BY <1>1, <3>1 DEF WaitInv
  <2>2. SettledInv'
    BY <1>1, ScreenIs DEF SettledInv
  <2> QED  BY <1>1, <1>2, <1>3, <2>1, <2>2, ScreenIs, Beliefs, StayMoves DEF TabStep
<1> QED  BY <1>4

LEMMA ReadContentKeeps ==
  ASSUME PageInv, ReadContent
  PROVE  TabStep
<1> DEFINE page == IF doc.status = "gone" THEN Problem ELSE PageOf(fetchR.revision, doc)
<1>1. /\ UNCHANGED <<doc, list, review, fetchL, calls, dialog, faults, settled, setBack, overtaken>>
      /\ fetchR.step = "content" /\ fetchR' = [step |-> "ready", page |-> page]
  BY DEF ReadContent, server, cache, reader, history
<1>2. fetchR.revision \in Nat /\ fetchR.revision <= doc.revision
  BY <1>1, ScreenIs, FetchSteps DEF FetchFits
<1>3. page \in Pages /\ PageFits(page, doc) /\ Satisfies(page, fetchR.revision)
  <2>1. CASE doc.status = "gone"
    BY <2>1, ScreenIs, ShownIs DEF Satisfies
  <2>2. CASE doc.status # "gone"
    <3>1. /\ PageOf(fetchR.revision, doc) \in Shown /\ PageFits(PageOf(fetchR.revision, doc), doc)
          /\ PageOf(fetchR.revision, doc).revision = fetchR.revision
      BY <1>2, ScreenIs, PageIs
    <3> QED  BY <1>2, <2>2, <3>1, ShownIs DEF Satisfies
  <2> QED  BY <2>1, <2>2
<1> HIDE DEF page
<1>4. /\ fetchR' \in [step : {"ready"}, page : Pages] /\ fetchR'.step = "ready" /\ fetchR'.page = page
      /\ fetchR' # Nothing
  BY <1>1, <1>3 DEF Nothing
<1>5. TabStep
  <2>1. WaitInv'
    <3>1. ASSUME NEW s \in Slots, Waiting(calls[s])  PROVE  WaitOf(calls[s])'
      <4>1. calls[s].revision \in Nat /\ page.revision \in Nat
        BY <1>3, <3>1, ScreenIs, CallIs DEF Waiting, Reloadings, Pages, Problem
      <4>2. WaitOf(calls[s]) /\ fetchR # Nothing
        BY <1>1, <3>1, ScreenIs, FetchSteps DEF WaitInv
      <4>3. ~calls[s].failed => Satisfies(page, calls[s].revision)
        BY <1>1, <1>2, <1>3, <4>1, <4>2 DEF WaitOf, Satisfies
      <4> QED  BY <1>1, <1>4, <4>2, <4>3 DEF WaitOf
    <3> QED  BY <1>1, <3>1 DEF WaitInv
  <2>2. SettledInv'
    BY <1>1, ScreenIs DEF SettledInv
  <2>3. FetchFits(fetchR', doc)
    BY <1>3, <1>4 DEF FetchFits
  <2> QED  BY <1>1, <1>4, <2>1, <2>2, <2>3, ScreenIs, Beliefs, StayMoves DEF TabStep
<1> QED  BY <1>5

LEMMA MountKeeps ==
  ASSUME PageInv, Mount
  PROVE  TabStep
<1>1. /\ UNCHANGED <<doc, list, review, fetchL, calls, dialog, faults, settled, setBack, overtaken>>
      /\ fetchR = Nothing /\ fetchR' = Sent
  BY DEF Mount, server, cache, history
<1>2. TabStep
  <2>1. WaitInv'
    BY <1>1, ScreenIs, FetchSteps DEF WaitInv, WaitOf
  <2>2. SettledInv'
    BY <1>1, ScreenIs DEF SettledInv
  <2> QED  BY <1>1, <2>1, <2>2, ScreenIs, Beliefs, FetchSteps, StayMoves DEF TabStep
<1> QED  BY <1>2

LEMMA DialogKeeps ==
  ASSUME PageInv, OpenDialog \/ CloseDialog
  PROVE  TabStep
<1>1. ScreenStays /\ Fetching /\ UNCHANGED calls
  BY ScreenIs DEF OpenDialog, CloseDialog, ScreenStays, Fetching, server, cache, history
<1> QED  BY <1>1, StayMoves, CallsOnly

\* A request carries the page on screen.
LEMMA RequestIs ==
  ASSUME PageInv, OnScreen, NEW s \in Slots, NEW id \in Ids \cup {1}, NEW op \in {"masked", "kept", "none"},
         s \in Keys => op # "none"
  PROVE  Moves(s, Nothing, Request(id, op), doc) /\ ~Waiting(Request(id, op))
<1>1. review \in Shown /\ PageFits(review, doc)
  BY ScreenIs, ShownIs DEF OnScreen
<1>2. Request(id, op) \in Requests /\ Request(id, op).shown = review /\ Request(id, op).op = op
  BY <1>1 DEF Request, Requests
<1> HIDE DEF Request
<1>3. Request(id, op).step = "sent"
  BY <1>2 DEF Requests
<1> QED  BY <1>1, <1>2, <1>3, FetchSteps DEF Moves, Calls, CallFits, PagesOf, Granted, Waiting

LEMMA PressKeeps ==
  ASSUME PageInv, NEW s, NEW id \in Ids, Press(s, id)
  PROVE  TabStep
<1>1. /\ OnScreen /\ s \in Keys /\ s \in Slots /\ calls[s] = Nothing
      /\ ScreenStays /\ Fetching
  BY ScreenIs DEF Press, Slots, ScreenStays, Fetching, server, cache, history
<1>2. PICK op \in {"masked", "kept"} : calls' = [calls EXCEPT ![s] = Request(id, op)]
  BY DEF Press
<1>3. /\ Moves(s, calls[s], Request(id, op), doc) /\ ~Waiting(Request(id, op))
  BY <1>1, RequestIs
<1>4. AllMove(calls, calls', doc)
  BY <1>1, <1>2, <1>3, OneMoves
<1>5. \A r \in Slots : Waiting(calls[r]) \/ Waiting(calls'[r]) => calls'[r] = calls[r]
  BY <1>1, <1>2, <1>3, FetchSteps DEF PageInv, Typed, Waiting
<1> QED  BY <1>1, <1>4, <1>5, CallsOnly

LEMMA ConfirmKeeps ==
  ASSUME PageInv, NEW s \in Dialogs, Confirm(s)
  PROVE  TabStep
<1>1. /\ OnScreen /\ s \notin Keys /\ s \in Slots /\ calls[s] = Nothing
      /\ calls' = [calls EXCEPT ![s] = Request(1, "none")]
      /\ ScreenStays /\ Fetching
  BY ScreenIs, SlotsAssumption DEF Confirm, Slots, Dialogs, ScreenStays, Fetching, server, cache, history
<1>2. Moves(s, calls[s], Request(1, "none"), doc) /\ ~Waiting(Request(1, "none"))
  BY <1>1, RequestIs
<1>3. AllMove(calls, calls', doc)
  BY <1>1, <1>2, OneMoves
<1>4. \A r \in Slots : Waiting(calls[r]) \/ Waiting(calls'[r]) => calls'[r] = calls[r]
  BY <1>1, <1>2, FetchSteps DEF PageInv, Typed, Waiting
<1> QED  BY <1>1, <1>3, <1>4, CallsOnly

LEMMA LostKeeps ==
  ASSUME PageInv, NEW s \in Slots, Lost(s)
  PROVE  TabStep
<1>1. /\ calls[s].step # "storing" /\ calls[s].step # "reloading" /\ calls' = [calls EXCEPT ![s] = Nothing]
      /\ ScreenStays /\ Fetching
  BY ScreenIs DEF Lost, ScreenStays, Fetching, server, cache, reader, history
<1>2. Moves(s, calls[s], Nothing, doc) /\ ~Waiting(Nothing)
  BY <1>1, GoneMoves, FetchSteps DEF Waiting
<1>3. AllMove(calls, calls', doc)
  BY <1>1, <1>2, OneMoves
<1>4. \A r \in Slots : Waiting(calls[r]) \/ Waiting(calls'[r]) => calls'[r] = calls[r]
  BY <1>1, <1>2, FetchSteps DEF PageInv, Typed, Waiting
<1> QED  BY <1>1, <1>3, <1>4, CallsOnly

\* The answer to a decision is completed with the page.
LEMMA ReplySet ==
  ASSUME NEW c \in Replies
  PROVE  /\ [c EXCEPT !.step = "answered"] \in Replies
         /\ \A x \in Answers : [c EXCEPT !.answer = x] \in Replies
         /\ \A x \in Pages : [c EXCEPT !.page = x] \in Replies
BY DEF Replies

LEMMA AssembledIs ==
  ASSUME calls \in [Slots -> Calls], NEW s \in Slots, calls[s] \in Replies,
         NEW answer \in Answers, NEW page \in Pages,
         calls' = [calls EXCEPT ![s].step = "answered", ![s].answer = answer, ![s].page = page]
  PROVE  /\ calls' \in [Slots -> Calls] /\ \A r \in Slots : r # s => calls'[r] = calls[r]
         /\ calls'[s] \in Replies /\ calls'[s].step = "answered" /\ calls'[s].page = page
         /\ calls'[s].revision = calls[s].revision /\ calls'[s].summary = calls[s].summary
<1> DEFINE g1 == [calls EXCEPT ![s].step = "answered"]
           g2 == [g1 EXCEPT ![s].answer = answer]
           g3 == [g2 EXCEPT ![s].page = page]
<1>1. /\ g1 \in [Slots -> Calls] /\ \A r \in Slots : r # s => g1[r] = calls[r]
      /\ g1[s] \in Replies /\ g1[s].step = "answered"
      /\ g1[s].revision = calls[s].revision /\ g1[s].summary = calls[s].summary
  <2>1. /\ [calls[s] EXCEPT !.step = "answered"] \in Replies
        /\ g1 = [calls EXCEPT ![s] = [calls[s] EXCEPT !.step = "answered"]]
    BY ReplySet
  <2>2. /\ [calls[s] EXCEPT !.step = "answered"].step = "answered"
        /\ [calls[s] EXCEPT !.step = "answered"].revision = calls[s].revision
        /\ [calls[s] EXCEPT !.step = "answered"].summary = calls[s].summary
    BY DEF Replies
  <2> QED  BY <2>1, <2>2 DEF Calls
<1>2. /\ g2 \in [Slots -> Calls] /\ \A r \in Slots : r # s => g2[r] = g1[r]
      /\ g2[s] \in Replies /\ g2[s].step = g1[s].step /\ g2[s].answer = answer
      /\ g2[s].revision = g1[s].revision /\ g2[s].summary = g1[s].summary
  <2> HIDE DEF g1
  <2>1. /\ [g1[s] EXCEPT !.answer = answer] \in Replies
        /\ g2 = [g1 EXCEPT ![s] = [g1[s] EXCEPT !.answer = answer]]
    BY <1>1, ReplySet
  <2>2. /\ [g1[s] EXCEPT !.answer = answer].step = g1[s].step
        /\ [g1[s] EXCEPT !.answer = answer].answer = answer
        /\ [g1[s] EXCEPT !.answer = answer].revision = g1[s].revision
        /\ [g1[s] EXCEPT !.answer = answer].summary = g1[s].summary
    BY <1>1 DEF Replies
  <2> QED  BY <1>1, <2>1, <2>2 DEF Calls
<1>3. /\ g3 \in [Slots -> Calls] /\ \A r \in Slots : r # s => g3[r] = g2[r]
      /\ g3[s] \in Replies /\ g3[s].step = g2[s].step /\ g3[s].answer = g2[s].answer
      /\ g3[s].page = page
      /\ g3[s].revision = g2[s].revision /\ g3[s].summary = g2[s].summary
  <2> HIDE DEF g2
  <2>1. /\ [g2[s] EXCEPT !.page = page] \in Replies
        /\ g3 = [g2 EXCEPT ![s] = [g2[s] EXCEPT !.page = page]]
    BY <1>2, ReplySet
  <2>2. /\ [g2[s] EXCEPT !.page = page].step = g2[s].step
        /\ [g2[s] EXCEPT !.page = page].answer = g2[s].answer
        /\ [g2[s] EXCEPT !.page = page].page = page
        /\ [g2[s] EXCEPT !.page = page].revision = g2[s].revision
        /\ [g2[s] EXCEPT !.page = page].summary = g2[s].summary
    BY <1>2 DEF Replies
  <2> QED  BY <1>2, <2>1, <2>2 DEF Calls
<1>4. calls' = g3
  OBVIOUS
<1> HIDE DEF g1, g2, g3
<1> QED  BY <1>1, <1>2, <1>3, <1>4

LEMMA AssembleKeeps ==
  ASSUME PageInv, NEW s \in Slots, Assemble(s)
  PROVE  TabStep
<1> DEFINE answer == IF doc.status = "gone" THEN "document_not_found" ELSE "ok"
           page   == PageOf(calls[s].revision, doc)
<1>1. /\ calls[s] \in Replies /\ calls[s].step = "applied" /\ calls[s].revision <= doc.revision
      /\ calls[s].revision \in Nat /\ ScreenStays /\ Fetching /\ calls \in [Slots -> Calls]
      /\ calls' = [calls EXCEPT ![s].step = "answered", ![s].answer = answer, ![s].page = page]
  <2>1. calls[s].step = "applied" /\ ScreenStays /\ Fetching
    BY ScreenIs DEF Assemble, ScreenStays, Fetching, server, cache, reader, history
  <2>2. calls[s] \in Replies
    BY <2>1, ScreenIs, CallIs
  <2>3. calls[s].revision <= doc.revision /\ calls[s].revision \in Nat
    BY <2>1, <2>2, ScreenIs DEF PagesOf, Replies
  <2> QED  BY <2>1, <2>2, <2>3, ScreenIs DEF Assemble, Typed
<1>2. answer \in Answers
  BY DEF Answers
<1>3. page \in Pages /\ PageFits(page, doc)
  BY <1>1, ScreenIs, PageIs, ShownIs
<1>4. s \in Keys /\ s \notin Dialogs /\ s \notin {"reject", "delete"} /\ calls[s].answer = "ok"
      /\ Granted(calls[s]) /\ Mounted(calls[s].summary)
  <2>1. CallFits(s, calls[s])
    BY DEF PageInv, CallsFit
  <2>2. s \in Keys /\ s \notin Dialogs
    BY <1>1, <2>1, SlotsAssumption DEF CallFits, Slots, Dialogs
  <2> QED  BY <1>1, <2>1, <2>2 DEF CallFits, Granted, Dialogs
<1> HIDE DEF answer, page
<1>5. /\ calls' \in [Slots -> Calls] /\ \A r \in Slots : r # s => calls'[r] = calls[r]
      /\ calls'[s] \in Replies /\ calls'[s].step = "answered" /\ calls'[s].page = page
      /\ calls'[s].revision = calls[s].revision /\ calls'[s].summary = calls[s].summary
  BY <1>1, <1>2, <1>3, AssembledIs
<1>6. Moves(s, calls[s], calls'[s], doc)
  BY <1>1, <1>3, <1>4, <1>5 DEF Moves, Calls, CallFits, PagesOf, Granted, Waiting
<1>7. AllMove(calls, calls', doc)
  BY <1>5, <1>6, SameMoves DEF AllMove
<1>8. \A r \in Slots : Waiting(calls[r]) \/ Waiting(calls'[r]) => calls'[r] = calls[r]
  BY <1>1, <1>5 DEF Waiting
<1> QED  BY <1>1, <1>7, <1>8, CallsOnly

\* The fetches in keys have ended, and who waited for them alone goes on.
LEMMA EndedIs ==
  ASSUME PageInv, NEW keys, NEW failed \in BOOLEAN, Ended(keys, failed)
  PROVE  /\ AllMove(calls, calls', doc) /\ dialog' \in BOOLEAN
         /\ \A s \in Slots : Waiting(calls'[s]) =>
              /\ Waiting(calls[s]) /\ ~(calls[s].waits \subseteq keys) /\ calls[s] \in Reloadings
              /\ calls'[s].revision = calls[s].revision /\ calls'[s].waits = calls[s].waits \ keys
              /\ calls'[s].failed <=> (calls[s].failed \/ failed)
         /\ \A s \in Slots : Waiting(calls[s]) /\ calls'[s] = Nothing => calls[s].waits \subseteq keys
<1>1. calls' = Woken(calls, keys, failed) /\ dialog' \in BOOLEAN
  BY ScreenIs DEF Ended
<1>2. /\ AllMove(calls, calls', doc)
      /\ \A s \in Slots : calls'[s] = WokenOf(calls[s], keys, failed)
  BY <1>1, AllWoken
<1>3. ASSUME NEW s \in Slots, Waiting(calls'[s])
      PROVE  /\ Waiting(calls[s]) /\ ~(calls[s].waits \subseteq keys) /\ calls[s] \in Reloadings
             /\ calls'[s].revision = calls[s].revision /\ calls'[s].waits = calls[s].waits \ keys
             /\ calls'[s].failed <=> (calls[s].failed \/ failed)
  <2>1. Waiting(calls[s]) /\ ~(calls[s].waits \subseteq keys)
    BY <1>2, <1>3, FetchSteps DEF WokenOf, Waiting
  <2>2. calls[s] \in Calls /\ calls[s] \in Reloadings
    BY <2>1, ScreenIs, CallIs DEF Waiting
  <2> QED  BY <1>2, <2>1, <2>2, WokenIs
<1>4. ASSUME NEW s \in Slots, Waiting(calls[s]), calls'[s] = Nothing
      PROVE  calls[s].waits \subseteq keys
  <2>1. SUFFICES ASSUME ~(calls[s].waits \subseteq keys)  PROVE  FALSE
    OBVIOUS
  <2>2. Waiting(calls'[s])
    BY <1>2, <1>4, <2>1, ScreenIs, WokenIs
  <2> QED  BY <1>4, <2>2, FetchSteps DEF Waiting
<1> QED  BY <1>1, <1>2, <1>3, <1>4

LEMMA LibraryKeeps ==
  ASSUME PageInv, LibraryArrives
  PROVE  TabStep
<1>1. /\ UNCHANGED <<doc, review, settled, overtaken>> /\ faults' = faults /\ setBack' = FALSE
      /\ fetchL.step = "ready" /\ list' = fetchL.data /\ fetchL' = Nothing
      /\ \/ Mounted(list') /\ UNCHANGED fetchR /\ Ended({"list"}, FALSE)
         \/ ~Mounted(list') /\ fetchR' = Nothing /\ Ended({"list", "review"}, FALSE)
  BY DEF LibraryArrives, server
<1>2. Believed(list') /\ (Mounted(list) \/ ~Mounted(list')) /\ Recent(list', settled)
  BY <1>1, Beliefs, ScreenIs DEF SettledInv
<1>3. SettledInv'
  BY <1>1, <1>2, ScreenIs, FetchSteps DEF SettledInv
<1>4. CASE Mounted(list') /\ UNCHANGED fetchR /\ Ended({"list"}, FALSE)
  <2>1. /\ AllMove(calls, calls', doc) /\ dialog' \in BOOLEAN
        /\ \A s \in Slots : Waiting(calls'[s]) =>
              /\ Waiting(calls[s]) /\ ~(calls[s].waits \subseteq {"list"}) /\ calls[s] \in Reloadings
              /\ calls'[s].revision = calls[s].revision /\ calls'[s].waits = calls[s].waits \ {"list"}
              /\ calls'[s].failed <=> (calls[s].failed \/ FALSE)
        /\ \A s \in Slots : Waiting(calls[s]) /\ calls'[s] = Nothing => calls[s].waits \subseteq {"list"}
    BY <1>4, EndedIs
  <2>2. ASSUME NEW s \in Slots, Waiting(calls'[s])  PROVE  WaitOf(calls[s])'
    <3>1. /\ Waiting(calls[s]) /\ "review" \in calls[s].waits /\ calls'[s].revision = calls[s].revision
          /\ calls'[s].waits = {"review"} /\ (calls'[s].failed <=> calls[s].failed)
      BY <2>1, <2>2 DEF Reloadings
    <3>2. WaitOf(calls[s])
      BY <3>1, ScreenIs DEF WaitInv
    <3> QED  BY <1>1, <1>4, <3>1, <3>2 DEF WaitOf
  <2>3. ASSUME NEW s \in Slots  PROVE  Woke(calls[s], calls'[s])
    <3>1. SUFFICES ASSUME Waiting(calls[s]), calls'[s] = Nothing, ~calls[s].failed
                   PROVE  overtaken' \/ ~Mounted(list') \/ Satisfies(review', calls[s].revision)
      BY DEF Woke
    <3>2. "review" \notin calls[s].waits /\ WaitOf(calls[s])
      BY <2>1, <3>1, ScreenIs DEF WaitInv
    <3>3. overtaken \/ ~Mounted(list) \/ Satisfies(review, calls[s].revision)
      BY <3>1, <3>2 DEF WaitOf
    <3> QED  BY <1>1, <1>2, <1>4, <3>3
  <2>5. TabStep
    BY <1>1, <1>2, <1>3, <1>4, <2>1, <2>2, <2>3, ScreenIs, FetchSteps DEF TabStep, WaitInv
  <2> QED  BY <2>5
<1>5. CASE ~Mounted(list') /\ fetchR' = Nothing /\ Ended({"list", "review"}, FALSE)
  <2>1. /\ AllMove(calls, calls', doc) /\ dialog' \in BOOLEAN
        /\ \A s \in Slots : Waiting(calls'[s]) =>
              /\ ~(calls[s].waits \subseteq {"list", "review"}) /\ calls[s] \in Reloadings
    BY <1>5, EndedIs
  <2>2. \A s \in Slots : ~Waiting(calls'[s])
    BY <2>1 DEF Reloadings
  <2>3. \A s \in Slots : Woke(calls[s], calls'[s])
    BY <1>5 DEF Woke
  <2>5. TabStep
    BY <1>1, <1>2, <1>3, <1>5, <2>1, <2>2, <2>3, ScreenIs, FetchSteps DEF TabStep, WaitInv
  <2> QED  BY <2>5
<1> QED  BY <1>1, <1>4, <1>5

LEMMA ReviewKeeps ==
  ASSUME PageInv, ReviewArrives
  PROVE  TabStep
<1>1. /\ UNCHANGED <<doc, list, fetchL, settled, setBack>> /\ faults' = faults /\ overtaken' = FALSE
      /\ fetchR.step = "ready" /\ review' = fetchR.page /\ fetchR' = Nothing
      /\ Ended({"review"}, FALSE)
  BY DEF ReviewArrives, server
<1>2. review' \in Pages /\ PageFits(review', doc)
  BY <1>1, ScreenIs, FetchSteps DEF FetchFits
<1>3. /\ AllMove(calls, calls', doc) /\ dialog' \in BOOLEAN
      /\ \A s \in Slots : Waiting(calls'[s]) =>
            /\ Waiting(calls[s]) /\ ~(calls[s].waits \subseteq {"review"}) /\ calls[s] \in Reloadings
            /\ calls'[s].revision = calls[s].revision /\ calls'[s].waits = calls[s].waits \ {"review"}
            /\ calls'[s].failed <=> (calls[s].failed \/ FALSE)
  BY <1>1, EndedIs
<1>4. ASSUME NEW s \in Slots, Waiting(calls'[s])  PROVE  WaitOf(calls[s])'
  <2>1. /\ Waiting(calls[s]) /\ calls'[s].revision = calls[s].revision
        /\ "list" \in calls[s].waits /\ calls'[s].waits = {"list"} /\ (calls'[s].failed <=> calls[s].failed)
    BY <1>3, <1>4 DEF Reloadings
  <2>2. WaitOf(calls[s])
    BY <2>1, ScreenIs DEF WaitInv
  <2> QED  BY <1>1, <2>1, <2>2, FetchSteps DEF WaitOf
<1>5. SettledInv'
  BY <1>1, ScreenIs DEF SettledInv
<1>6. ASSUME NEW s \in Slots  PROVE  Woke(calls[s], calls'[s])
  <2>1. SUFFICES ASSUME Waiting(calls[s]), ~calls[s].failed
                 PROVE  Satisfies(review', calls[s].revision)
    BY DEF Woke
  <2>2. WaitOf(calls[s])
    BY <2>1, ScreenIs DEF WaitInv
  <2> QED  BY <1>1, <2>1, <2>2 DEF WaitOf
<1>7. TabStep
  BY <1>1, <1>2, <1>3, <1>4, <1>5, <1>6, ScreenIs, Beliefs, FetchSteps DEF TabStep, WaitInv
<1> QED  BY <1>7

LEMMA FailKeeps ==
  ASSUME PageInv, FetchFails
  PROVE  TabStep
<1>1. /\ UNCHANGED <<doc, list, settled, setBack, overtaken>> /\ faults' \in Nat /\ faults' # faults
      /\ \/ fetchL' = Nothing /\ UNCHANGED <<fetchR, review>> /\ Ended({"list"}, TRUE)
         \/ fetchR' = Nothing /\ UNCHANGED fetchL /\ review' = Problem /\ Ended({"review"}, TRUE)
  <2>1. UNCHANGED <<doc, list, settled, setBack, overtaken>>
    BY DEF FetchFails, server, history
  <2>2. faults' \in Nat /\ faults' # faults
    BY ScreenIs DEF FetchFails
  <2>3. \/ fetchL' = Nothing /\ UNCHANGED <<fetchR, review>> /\ Ended({"list"}, TRUE)
        \/ fetchR' = Nothing /\ UNCHANGED fetchL /\ review' = Problem /\ Ended({"review"}, TRUE)
    BY DEF FetchFails
  <2> QED  BY <2>1, <2>2, <2>3
<1>2. Problem \in Pages /\ PageFits(Problem, doc) /\ \A n \in Nat : Satisfies(Problem, n)
  <2>1. doc.revision \in Nat
    BY ScreenIs DEF Documents
  <2> QED  BY <2>1 DEF Pages, PageFits, Problem, Satisfies
<1>3. ASSUME NEW key \in {"list", "review"}, Ended({key}, TRUE),
             key = "list" => fetchL' = Nothing /\ UNCHANGED <<fetchR, review>>,
             key = "review" => fetchR' = Nothing /\ UNCHANGED fetchL /\ review' = Problem
      PROVE  TabStep
  <2>1. /\ AllMove(calls, calls', doc) /\ dialog' \in BOOLEAN
        /\ \A s \in Slots : Waiting(calls'[s]) =>
              /\ Waiting(calls[s]) /\ ~(calls[s].waits \subseteq {key}) /\ calls[s] \in Reloadings
              /\ calls'[s].revision = calls[s].revision /\ calls'[s].waits = calls[s].waits \ {key}
              /\ calls'[s].failed <=> (calls[s].failed \/ TRUE)
    BY <1>3, EndedIs
  <2>2. ASSUME NEW s \in Slots, Waiting(calls'[s])  PROVE  WaitOf(calls[s])'
    <3>1. /\ Waiting(calls[s]) /\ calls'[s].waits = calls[s].waits \ {key} /\ calls'[s].failed
      BY <2>1, <2>2
    <3>2. WaitOf(calls[s])
      BY <3>1, ScreenIs DEF WaitInv
    <3> QED  BY <1>1, <1>3, <3>1, <3>2 DEF WaitOf
  <2>3. SettledInv'
    BY <1>1, <1>3, ScreenIs, FetchSteps DEF SettledInv
  <2>4. FetchFits(fetchR', doc) /\ review' \in Pages /\ PageFits(review', doc)
    BY <1>2, <1>3, ScreenIs, FetchSteps
  <2>5. \A s \in Slots : Woke(calls[s], calls'[s])
    BY <1>1 DEF Woke
  <2>6. TabStep
    BY <1>1, <1>3, <2>1, <2>2, <2>3, <2>4, <2>5, ScreenIs, Beliefs, FetchSteps DEF TabStep, WaitInv
  <2> QED  BY <2>6
<1> QED  BY <1>1, <1>3

\* An answer in the library: it brings the document back on screen, or an older
\* entry, only when it came too late.
LEMMA PatchIs ==
  ASSUME PageInv, NEW s \in Slots, Granted(calls[s]), Patched(calls[s])
  PROVE  /\ Believed(list')
         /\ Mounted(list') /\ ~Mounted(list) => TooLate(calls[s])
         /\ Mounted(list) /\ Mounted(calls[s].summary) => Mounted(list')
         /\ ~Mounted(calls[s].summary) => ~Mounted(list')
         /\ TooLate(calls[s]) \/ ~Recent(list, settled) \/ Recent(list', settled)
         /\ Recent(list', calls[s].summary.version)
         /\ calls[s].summary.version \in Nat
<1> DEFINE u == calls[s].summary
<1>1. Believed(u) /\ Believed(list) /\ settled \in Nat
  BY Beliefs, ScreenIs
<1>2. \A v \in Summaries : v.version \in Nat
  BY DEF Summaries, Absent, Never
<1>3. ~Mounted(Absent)
  BY DEF Mounted, Absent, Reviewable
<1>4. list' = IF list = Absent THEN list ELSE u
  BY DEF Patched
<1>5. u.version \in Nat /\ list.version \in Nat
  BY <1>1, <1>2 DEF Believed
<1>6. ~Mounted(list) /\ list # Absent /\ Mounted(u) => TooLate(calls[s])
  <2>1. ASSUME ~Mounted(list), list # Absent, Mounted(u)  PROVE  u.version < list.version
    BY <1>1, <2>1 DEF Believed, SummaryFits, Older
  <2> QED  BY <2>1 DEF TooLate
<1>7. TooLate(calls[s]) \/ ~Recent(list, settled) \/ Recent(list', settled)
  BY <1>1, <1>4, <1>5 DEF TooLate, Recent
<1>8. Recent(list', u.version)
  BY <1>4, <1>5 DEF Recent
<1> HIDE DEF u
<1> QED  BY <1>1, <1>3, <1>4, <1>5, <1>6, <1>7, <1>8 DEF u

LEMMA DecidedKeeps ==
  ASSUME PageInv, NEW s \in Slots, Decided(s)
  PROVE  TabStep
<1> DEFINE call == calls[s]
<1>1. /\ s \in Keys /\ call.step = "answered" /\ Granted(call) /\ call \in Replies
      /\ call.page \in Pages /\ PageFits(call.page, doc) /\ Mounted(call.summary)
  <2>1. s \in Keys /\ call.step = "answered" /\ Granted(call)
    BY DEF Decided, Accepted, Granted
  <2>2. call \in Replies /\ PagesOf(call, doc)
    BY <2>1, ScreenIs, CallIs
  <2>3. CallFits(s, call)
    BY DEF PageInv, CallsFit
  <2> QED  BY <2>1, <2>2, <2>3 DEF Replies, PagesOf, CallFits
<1>2. /\ review' = call.page /\ Patched(call) /\ calls' = [calls EXCEPT ![s] = Nothing]
      /\ setBack' = (setBack \/ TooLate(call))
      /\ overtaken' = (overtaken \/ TooLate(call) \/ review = Problem \/ call.page.revision < review.revision)
      /\ UNCHANGED <<doc, fetchL, fetchR, dialog, settled>> /\ faults' = faults
  BY DEF Decided, server, reader
<1>3. /\ Believed(list') /\ (Mounted(list') /\ ~Mounted(list) => TooLate(call))
      /\ Mounted(list) => Mounted(list')
      /\ TooLate(call) \/ ~Recent(list, settled) \/ Recent(list', settled)
      /\ list' = Absent => list = Absent
  <2>1. call.summary # Absent
    BY <1>1 DEF Mounted, Absent, Reviewable
  <2> QED  BY <1>1, <1>2, <2>1, PatchIs DEF Patched
<1> HIDE DEF call
<1>4. /\ AllMove(calls, calls', doc)
      /\ \A r \in Slots : Waiting(calls[r]) \/ Waiting(calls'[r]) => calls'[r] = calls[r]
  <2>1. Moves(s, calls[s], Nothing, doc) /\ ~Waiting(Nothing) /\ ~Waiting(calls[s])
    BY <1>1, GoneMoves, FetchSteps DEF Waiting, call
  <2>2. AllMove(calls, calls', doc)
    BY <1>2, <2>1, OneMoves
  <2> QED  BY <1>2, <2>1, <2>2 DEF PageInv, Typed
<1>5. /\ overtaken' \in BOOLEAN /\ (overtaken => overtaken')
      /\ setBack' \in BOOLEAN /\ (setBack => setBack') /\ (~setBack' => ~TooLate(call))
      /\ ~overtaken' => ~TooLate(call) /\ review # Problem /\ ~(call.page.revision < review.revision)
  BY <1>2
<1>6. SettledInv'
  BY <1>2, <1>3, <1>5, ScreenIs DEF SettledInv
<1>7. ASSUME NEW r \in Slots, Waiting(calls'[r])  PROVE  WaitOf(calls[r])'
  <2>1. calls'[r] = calls[r] /\ Waiting(calls[r]) /\ WaitOf(calls[r])
    BY <1>4, <1>7, ScreenIs DEF WaitInv
  <2>2. calls[r].revision \in Nat /\ review.revision \in Nat /\ call.page.revision \in Nat
    <3>1. calls[r] \in Reloadings
      BY <2>1, ScreenIs, CallIs DEF Waiting
    <3>2. \A p \in Pages : p.revision \in Nat
      BY DEF Pages, Problem
    <3> QED  BY <1>1, <3>1, <3>2, ScreenIs DEF Reloadings
  <2>3. ASSUME ~overtaken', Satisfies(review, calls[r].revision)
        PROVE  Satisfies(review', calls[r].revision)
    <3>1. review # Problem /\ ~(call.page.revision < review.revision)
      BY <1>5, <2>3
    <3>2. review.revision >= calls[r].revision
      BY <2>3, <3>1 DEF Satisfies
    <3>3. call.page.revision >= calls[r].revision
      BY <2>2, <3>1, <3>2
    <3> QED  BY <1>2, <3>3 DEF Satisfies
  <2>4. ASSUME ~calls[r].failed, "review" \notin calls[r].waits, ~overtaken', Mounted(list')
        PROVE  Satisfies(review', calls[r].revision)
    <3>1. ~overtaken /\ Mounted(list)
      BY <1>3, <1>5, <2>4
    <3>2. Satisfies(review, calls[r].revision)
      BY <2>1, <2>4, <3>1 DEF WaitOf
    <3> QED  BY <2>3, <2>4, <3>2
  <2> QED  BY <1>2, <1>3, <2>1, <2>4 DEF WaitOf
<1>8. fetchL'.step = "ready" => Believed(fetchL'.data) /\ (Mounted(list') \/ ~Mounted(fetchL'.data))
  BY <1>2, <1>3, Beliefs
<1>9. TabStep
  BY <1>1, <1>2, <1>3, <1>4, <1>5, <1>6, <1>7, <1>8, ScreenIs, WaitOn DEF TabStep, WaitInv
<1> QED  BY <1>9

LEMMA SettledKeeps ==
  ASSUME PageInv, NEW s \in Slots, Settled(s)
  PROVE  TabStep
<1> DEFINE call == calls[s]
           rest == [calls EXCEPT ![s] = Nothing]
<1>1. /\ s \in Dialogs /\ call.step = "answered" /\ Granted(call)
      /\ s \in {"reject", "delete"} => ~Mounted(call.summary)
  <2>1. CallFits(s, call)
    BY DEF PageInv, CallsFit
  <2> QED  BY <2>1 DEF Settled, Accepted, Granted, CallFits
<1>2. /\ Patched(call) /\ fetchL' = Sent /\ dialog' = FALSE /\ settled' = call.summary.version
      /\ overtaken' = (overtaken \/ TooLate(call)) /\ doc' = doc /\ faults' = faults
      /\ setBack' = (setBack \/ TooLate(call))
      /\ \/ /\ s = "approve" /\ Mounted(list') /\ fetchR' = Sent /\ UNCHANGED review /\ calls' = rest
         \/ /\ ~(s = "approve" /\ Mounted(list'))
            /\ fetchR' = Nothing /\ calls' = Woken(rest, {"review"}, FALSE)
            /\ review' = Problem \/ review' = review
  BY DEF Settled, ListAgain, server
<1>3. /\ Believed(list') /\ (Mounted(list') /\ ~Mounted(list) => TooLate(call))
      /\ ~Mounted(call.summary) => ~Mounted(list')
      /\ Recent(list', settled') /\ settled' \in Nat
  BY <1>1, <1>2, PatchIs
<1>4. overtaken' \in BOOLEAN /\ setBack' \in BOOLEAN /\ (overtaken => overtaken') /\ (~overtaken' => ~TooLate(call))
  BY <1>2
<1>5. SettledInv'
  <2>1. settled' <= doc.version \/ doc.status = "gone"
    BY <1>1, <1>2, Beliefs DEF Believed, SummaryFits
  <2> QED  BY <1>2, <1>3, <2>1, FetchSteps DEF SettledInv
<1>6. \A r \in Slots : Moves(r, calls[r], rest[r], doc) /\ rest[r] \in Calls /\ (Waiting(calls[r]) \/ Waiting(rest[r]) => rest[r] = calls[r])
  <2>1. Moves(s, calls[s], Nothing, doc) /\ ~Waiting(Nothing) /\ Nothing \in Calls /\ ~Waiting(calls[s])
    BY <1>1, GoneMoves, FetchSteps DEF Waiting, Calls
  <2> QED  BY <2>1, SameMoves DEF PageInv, Typed
<1>7. CASE s = "approve" /\ Mounted(list') /\ fetchR' = Sent /\ UNCHANGED review /\ calls' = rest
  <2>1. AllMove(calls, calls', doc)
    <3>1. calls' \in [Slots -> Calls]
      BY <1>7, ScreenIs DEF Typed, Calls
    <3> HIDE DEF call, rest
    <3> QED  BY <1>6, <1>7, <3>1 DEF AllMove
  <2>2. ASSUME NEW r \in Slots, Waiting(calls'[r])  PROVE  WaitOf(calls[r])'
    <3>1. calls'[r] = calls[r] /\ Waiting(calls[r]) /\ WaitOf(calls[r])
      BY <1>6, <1>7, <2>2, ScreenIs DEF WaitInv
    <3> HIDE DEF call, rest
    <3> QED  BY <1>2, <1>3, <1>4, <1>7, <3>1, FetchSteps DEF WaitOf
  <2>3. \A r \in Slots : Woke(calls[r], calls'[r])
    <3> HIDE DEF call, rest
    <3> QED  BY <1>6, <1>7, WaitOn
  <2>4. TabStep
    <3> HIDE DEF call, rest
    <3> QED  BY <1>2, <1>3, <1>4, <1>5, <1>7, <2>1, <2>2, <2>3, ScreenIs, FetchSteps DEF TabStep, WaitInv
  <2> QED  BY <2>4
<1>8. CASE /\ ~(s = "approve" /\ Mounted(list'))
           /\ fetchR' = Nothing /\ calls' = Woken(rest, {"review"}, FALSE)
           /\ review' = Problem \/ review' = review
  <2>1. ~Mounted(list')
    BY <1>1, <1>3, <1>8 DEF Dialogs
  <2>2. \A r \in Slots : calls'[r] = WokenOf(rest[r], {"review"}, FALSE)
    BY <1>8 DEF Woken, WokenOf
  <2>3. AllMove(calls, calls', doc)
    <3>1. ASSUME NEW r \in Slots  PROVE  Moves(r, calls[r], calls'[r], doc)
      <4>1. CASE Waiting(rest[r])
        BY <1>6, <2>2, <4>1, WokenMoves
      <4>2. CASE ~Waiting(rest[r])
        BY <1>6, <2>2, <4>2 DEF WokenOf
      <4> QED  BY <4>1, <4>2
    <3>2. calls' \in [Slots -> Calls]
      <4> HIDE DEF rest
      <4> QED  BY <1>8, <3>1 DEF Woken, Moves
    <3> QED  BY <3>1, <3>2 DEF AllMove
  <2>4. ASSUME NEW r \in Slots, Waiting(calls'[r])  PROVE  WaitOf(calls[r])'
    <3>1. Waiting(rest[r]) /\ ~(rest[r].waits \subseteq {"review"}) /\ rest[r] \in Calls
      BY <1>6, <2>2, <2>4, FetchSteps DEF WokenOf, Waiting
    <3> HIDE DEF call, rest
    <3>2. calls'[r].waits = rest[r].waits \ {"review"}
      <4> DEFINE t == WokenOf(rest[r], {"review"}, FALSE)
      <4>1. t.waits = rest[r].waits \ {"review"}
        BY <3>1, WokenIs
      <4> HIDE DEF t
      <4>2. calls'[r] = t
        BY <2>2 DEF t
      <4> QED  BY <4>1, <4>2
    <3> QED  BY <1>2, <1>8, <2>1, <3>2, FetchSteps DEF WaitOf
  <2>5. review' \in Pages /\ PageFits(review', doc)
    BY <1>8, ScreenIs, ShownIs
  <2>6. \A r \in Slots : Woke(calls[r], calls'[r])
    BY <2>1 DEF Woke
  <2>7. TabStep
    <3> HIDE DEF call, rest
    <3> QED  BY <1>2, <1>3, <1>4, <1>5, <1>8, <2>3, <2>4, <2>5, <2>6, ScreenIs, FetchSteps DEF TabStep, WaitInv
  <2> QED  BY <2>7
<1> QED  BY <1>2, <1>7, <1>8

LEMMA RefusedKeeps ==
  ASSUME PageInv, NEW s \in Slots, Refused(s)
  PROVE  TabStep
<1> DEFINE call  == calls[s]
           waits == {"list"} \cup IF Mounted(list) THEN {"review"} ELSE {}
           new   == [step |-> "reloading", revision |-> call.revision, waits |-> waits, failed |-> FALSE]
<1>1. /\ call.step = "answered" /\ call \in Replies /\ call.revision \in Nat
      /\ call.revision <= doc.revision /\ UNCHANGED <<doc, list, review, dialog, settled, setBack, overtaken>>
      /\ faults' = faults
  <2>1. call.step = "answered" /\ call \in Calls /\ PagesOf(call, doc)
    BY ScreenIs DEF Refused
  <2>2. call \in Replies
    BY <2>1, CallIs
  <2> QED  BY <2>1, <2>2 DEF Replies, PagesOf, Refused, server, cache, reader, history
<1>2. CASE calls' = [calls EXCEPT ![s] = Nothing] /\ UNCHANGED <<fetchL, fetchR>>
  <2>1. Moves(s, calls[s], Nothing, doc) /\ ~Waiting(Nothing) /\ ~Waiting(calls[s])
    BY <1>1, GoneMoves, FetchSteps DEF Waiting
  <2>2. /\ AllMove(calls, calls', doc)
        /\ \A r \in Slots : Waiting(calls[r]) \/ Waiting(calls'[r]) => calls'[r] = calls[r]
    BY <1>2, <2>1, OneMoves DEF PageInv, Typed
  <2> QED  BY <1>1, <1>2, <2>2, ScreenIs, CallsOnly DEF ScreenStays, Fetching
<1>3. CASE Refetched(list) /\ calls' = [calls EXCEPT ![s] = new]
  <2>1. fetchL' = Sent /\ fetchR' \in {Sent, Nothing} /\ (Mounted(list) => fetchR' = Sent)
    BY <1>3 DEF Refetched
  <2>2. /\ new \in Reloadings /\ new.step = "reloading" /\ new.revision = call.revision /\ new.waits = waits
    BY <1>1 DEF Reloadings
  <2> HIDE DEF new
  <2>3. Moves(s, calls[s], new, doc)
    BY <1>1, <2>2 DEF Moves, Calls, CallFits, PagesOf, Granted, Waiting
  <2>4. AllMove(calls, calls', doc)
    BY <1>3, <2>3, OneMoves
  <2>5. ASSUME NEW r \in Slots, Waiting(calls'[r])  PROVE  WaitOf(calls[r])'
    <3>1. CASE r = s
      <4>1. calls'[r] = new
        BY <1>3, <3>1, ScreenIs DEF Typed
      <4> QED  BY <1>1, <2>1, <2>2, <4>1, FetchSteps DEF WaitOf
    <3>2. CASE r # s
      <4>1. calls'[r] = calls[r] /\ Waiting(calls[r]) /\ WaitOf(calls[r])
        BY <1>3, <2>5, <3>2, ScreenIs DEF WaitInv, Typed
      <4> QED  BY <1>1, <2>1, <4>1, FetchSteps DEF WaitOf
    <3> QED  BY <3>1, <3>2
  <2>6. SettledInv'
    BY <1>1, <2>1, ScreenIs, FetchSteps DEF SettledInv
  <2>7. \A r \in Slots : Woke(calls[r], calls'[r])
    <3>1. ~Waiting(calls[s])
      BY <1>1 DEF Waiting
    <3>2. \A r \in Slots : Waiting(calls[r]) => calls'[r] = calls[r]
      BY <1>3, <3>1, ScreenIs DEF Typed
    <3> QED  BY <3>2, WaitOn
  <2>8. TabStep
    BY <1>1, <2>1, <2>4, <2>5, <2>6, <2>7, ScreenIs, Beliefs, FetchSteps DEF TabStep, WaitInv
  <2> QED  BY <2>8
<1> QED  BY <1>2, <1>3 DEF Refused

----------------------------------------------------------------------------
(* The screen for ever.                                                    *)

LEMMA PageStarts == Init => PageInv
<1> SUFFICES ASSUME Init  PROVE  PageInv
  OBVIOUS
<1>1. PICK f \in Orders, t \in [Values -> {"unseen", "open", "masked"}] :
        doc = [status |-> "needs_review", revision |-> 1, version |-> 1, audited |-> TRUE,
               at |-> f, state |-> t, next |-> Nothing]
  BY DEF Init
<1>2. /\ list = Summary(doc) /\ review = PageOf(1, doc) /\ fetchL = Nothing /\ fetchR = Nothing
      /\ calls = [s \in Slots |-> Nothing] /\ dialog = FALSE /\ faults = 0
      /\ settled = 1 /\ setBack = FALSE /\ overtaken = FALSE
  BY DEF Init
<1>3. doc \in Documents /\ doc.revision = 1 /\ doc.version = 1 /\ doc.next = Nothing /\ doc.status = "needs_review"
  <2>1. t \in States
    BY DEF States
  <2> QED  BY <1>1, <2>1 DEF Documents, Reviewable
<1>4. /\ Summary(doc) \in Summaries /\ Mounted(Summary(doc)) /\ Summary(doc) # Absent
      /\ Summary(doc).version = 1
  BY <1>3, SummaryIs DEF Reviewable
<1>5. PageOf(1, doc) \in Pages /\ PageFits(PageOf(1, doc), doc)
  BY <1>3, PageIs, ShownIs
<1>6. Typed
  BY <1>2, <1>3, <1>4, <1>5 DEF Typed, Calls
<1>7. DocFits(doc)
  BY <1>3 DEF DocFits
<1>8. \A s \in Slots : calls[s].step = "idle"
  BY <1>2, FetchSteps
<1>9. CallsFit /\ PagesFit /\ NextSeen /\ WaitInv
  BY <1>2, <1>3, <1>5, <1>8, FetchSteps
     DEF CallsFit, CallFits, Granted, PagesFit, PagesOf, NextSeen, WaitInv, Waiting
<1>10. SummariesFit
  BY <1>2, <1>3, <1>4, <1>8, FetchSteps DEF SummariesFit, SummaryFits, Granted
<1>11. SettledInv
  BY <1>2, <1>3, <1>4, FetchSteps DEF SettledInv, Recent
<1> QED  BY <1>6, <1>7, <1>9, <1>10, <1>11 DEF PageInv

\* Every step is the server's or the tab's.
LEMMA StepsAre ==
  ASSUME PageInv, [Next]_vars
  PROVE  ServerStep \/ TabStep
<1>1. CASE UNCHANGED vars
  <2>1. ScreenStays /\ Fetching /\ UNCHANGED calls
    BY <1>1, ScreenIs DEF vars, server, cache, reader, history, ScreenStays, Fetching
  <2> QED  BY <2>1, StayMoves, CallsOnly
<1>2. CASE Elsewhere
  BY <1>2, ElsewhereServed
<1>3. CASE Store
  BY <1>3, StoreServed
<1>4. CASE Reads
  BY <1>4, PollKeeps, ReadLibraryKeeps, LibraryKeeps, ReadRevisionKeeps, ReadContentKeeps,
     ReviewKeeps, FailKeeps DEF Reads, Fetches
<1>5. CASE Acts
  BY <1>5, PressKeeps, DialogKeeps, ConfirmKeeps, MountKeeps DEF Acts
<1>6. ASSUME NEW s \in Slots, Serve(s)  PROVE  ServerStep
  BY <1>6, DecisionServed, ApprovalServed, RejectionServed, DeletionServed DEF Serve
<1>7. ASSUME NEW s \in Slots, Assemble(s) \/ Arrives(s) \/ Lost(s)  PROVE  TabStep
  BY <1>7, AssembleKeeps, DecidedKeeps, SettledKeeps, RefusedKeeps, LostKeeps DEF Arrives
<1> QED  BY <1>1, <1>2, <1>3, <1>4, <1>5, <1>6, <1>7 DEF Next

LEMMA PageStays == PageInv /\ [Next]_vars => PageInv'
BY StepsAre, ServerKeeps, TabKeeps

LEMMA PageHolds == Spec => []PageInv
BY PageStarts, PageStays, PTL DEF Spec

\* The screen shows nothing the server did not give; no poll sets the library back
\* behind an approval, a rejection or a deletion it has shown, and what a late
\* answer set back the next poll repairs; nobody waits for a fetch that is not under
\* way (useDocuments, usePatchSummary, useReloadReview): for any document and any
\* number of decisions, tabs and losses.
THEOREM ScreenIsCurrent == Spec => []ScreenKeepsUp
<1>1. PageInv => ScreenKeepsUp
  <2> SUFFICES ASSUME PageInv  PROVE  ScreenKeepsUp
    OBVIOUS
  <2>1. PageTypeOK
    <3>1. doc.status \in Reviewable \cup {"rejected", "gone"} /\ doc.revision <= doc.version
      BY DEF PageInv, Typed, Documents, DocFits
    <3>2. fetchL.step \in {"idle", "sent", "ready"} /\ fetchR.step \in {"idle", "sent", "content", "ready"}
      BY ScreenIs, FetchSteps
    <3>3. \A s \in Slots : calls[s].step \in {"idle", "sent", "storing", "applied", "answered", "reloading"}
      BY ScreenIs, CallIs
    <3> QED  BY <3>1, <3>2, <3>3, ScreenIs DEF PageTypeOK
  <2>2. SettledStays
    BY DEF PageInv, SettledInv, Recent, SettledStays
  <2>3. WaitsAreServed
    BY DEF PageInv, WaitInv, WaitOf, WaitsAreServed
  <2> QED  BY <2>1, <2>2, <2>3 DEF ScreenKeepsUp
<1> QED  BY <1>1, PageHolds, PTL

LEMMA HitsWhatWasShown ==
  PageInv /\ [Next]_vars =>
    \A s \in Keys : Applies(s) /\ ~calls[s].shown.torn =>
       LET shown == calls[s].shown
           value == shown.at[calls[s].id]
       IN Target(calls[s]) = value /\ doc.state[value] = shown.state[value]
<1> SUFFICES ASSUME PageInv, [Next]_vars, NEW s \in Keys, Applies(s), ~calls[s].shown.torn
             PROVE  LET shown == calls[s].shown
                        value == shown.at[calls[s].id]
                    IN Target(calls[s]) = value /\ doc.state[value] = shown.state[value]
  OBVIOUS
<1>1. s \in Slots /\ calls[s].step = "sent" /\ calls'[s].step = "storing"
  BY DEF Slots, Applies
<1>2. calls[s].shown.revision = doc.revision
  <2>1. CASE ServerStep
    BY <1>1, <2>1 DEF ServerStep, Current
  <2>2. CASE TabStep
    BY <1>1, <2>2 DEF TabStep, AllMove, Moves
  <2> QED  BY <2>1, <2>2, StepsAre
<1>3. calls[s].shown.at = doc.at /\ calls[s].shown.state = doc.state
  BY <1>1, <1>2, SeenIs
<1> QED  BY <1>3 DEF Target

LEMMA ApprovesWhatWasSeen ==
  PageInv /\ [Next]_vars =>
    (doc.status # "approved" /\ doc'.status = "approved" /\ ~calls["approve"].shown.torn =>
       LET shown == calls["approve"].shown
       IN doc'.state = shown.state /\ Open(shown.state) = {})
<1> SUFFICES ASSUME PageInv, [Next]_vars, doc.status # "approved", doc'.status = "approved",
                    ~calls["approve"].shown.torn
             PROVE  doc'.state = calls["approve"].shown.state /\ Open(calls["approve"].shown.state) = {}
  OBVIOUS
<1>1. CASE ServerStep
  BY <1>1 DEF ServerStep, Approving
<1>2. CASE TabStep
  BY <1>2 DEF TabStep
<1> QED  BY <1>1, <1>2, StepsAre

LEMMA ShowsBeforeRefusing ==
  PageInv /\ [Next]_vars =>
    \A s \in Slots : Waiting(calls[s]) /\ calls'[s] = Nothing /\ ~calls[s].failed /\ faults' = faults =>
       \/ overtaken' \/ ~Mounted(list') \/ review' = Problem
       \/ review'.revision >= calls[s].revision
<1> SUFFICES ASSUME PageInv, [Next]_vars, NEW s \in Slots,
                    Waiting(calls[s]), calls'[s] = Nothing, ~calls[s].failed, faults' = faults
             PROVE  \/ overtaken' \/ ~Mounted(list') \/ review' = Problem
                    \/ review'.revision >= calls[s].revision
  OBVIOUS
<1>1. CASE ServerStep
  BY <1>1, FetchSteps DEF ServerStep, SlotStep, Waiting
<1>2. CASE TabStep
  <2>1. Woke(calls[s], calls'[s])
    BY <1>2 DEF TabStep
  <2> QED  BY <2>1 DEF Woke, Satisfies
<1> QED  BY <1>1, <1>2, StepsAre

\* Whatever other tabs do and whichever answers are lost or late: a decision
\* changes the value the reader saw as he saw it, an approval approves what was
\* on his screen, and a refusal comes after the page it is about (useDecide,
\* ApproveDialog), for a page that was not torn.
THEOREM ReaderIsObeyed == Spec => ActsOnWhatWasShown
<1>1. Spec => DecisionHitsWhatWasShown
  BY PageHolds, HitsWhatWasShown, PTL DEF Spec, DecisionHitsWhatWasShown
<1>2. Spec => ApprovedIsWhatWasSeen
  BY PageHolds, ApprovesWhatWasSeen, PTL DEF Spec, ApprovedIsWhatWasSeen
<1>3. Spec => RefusedSeesCurrent
  BY PageHolds, ShowsBeforeRefusing, PTL DEF Spec, RefusedSeesCurrent
<1> QED  BY <1>1, <1>2, <1>3 DEF ActsOnWhatWasShown
=============================================================================
