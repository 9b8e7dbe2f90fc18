------------------------- MODULE WebSessionsProofs -------------------------
(***************************************************************************)
(* Proofs about WebSessions, for any number of tabs and calls and any      *)
(* limits: the types, what the unlocked issues may do to the table, and    *)
(* that the client's one retry repairs whatever it meets.                  *)
(***************************************************************************)
EXTENDS WebSessions, FiniteSetTheorems, TLAPS

----------------------------------------------------------------------------
(* The inductive invariants.                                               *)

Running == {"filter", "evict", "pop", "insert"}

\* The table and its copies hold sessions that were issued, and nobody runs
\* ahead of the clock.
Known ==
  /\ table \subseteq 1..Len(born)
  /\ \A c \in Calls : issue[c].copy \subseteq 1..Len(born) /\ issue[c].now <= time

\* What an issue picked is the oldest of a full table, ...
PickedIsOld ==
  \A c \in Calls : issue[c].step = "pop" =>
    issue[c].sid \in 1..Len(born) /\ Len(born) - issue[c].sid >= MaxSessions - 1

\* ... and a copy misses what the table may miss.
CopiesKeep ==
  \A c \in Calls : issue[c].step = "filter" =>
    \A s \in 1..Len(born) : s \in issue[c].copy \/ Excused(s)

StoreInv == Known /\ PickedIsOld /\ CopiesKeep /\ SessionsAreKept /\ TableIsBounded

\* A fetch runs for the call that waits for it.
FetchesAreAwaited ==
  \A c \in Calls : issue[c].step # "none" => call[c].step = "wait" /\ call[c].on = c

\* A request that is not at rest is in its first or its second attempt.
AttemptsCount ==
  \A c \in Calls : call[c].step \notin {"idle", "accepted", "failed"} => call[c].attempt # 0

\* What the issue of an undisturbed second attempt has: nobody else moved the
\* table or the clock since it looked.
FreshIssue(c) ==
  /\ issue[c].step = "arrived" => issue[c].sid = jar
  /\ issue[c].step = "filter"  => issue[c].copy = table
  /\ issue[c].step \in Running => issue[c].now = time
  /\ issue[c].step = "pop"     => issue[c].sid \in table
  /\ issue[c].step = "issued"  => Live(issue[c].sid)
  /\ issue[c].step = "reused"  => Live(issue[c].sid) /\ issue[c].sid = jar
  /\ issue[c].step # "error"

\* What an undisturbed second attempt has at each of its steps.
Repairs(c) ==
  /\ call[c].step = "token" => promise[call[c].tab].token = NoSid
  /\ call[c].step = "wait" /\ call[c].on = c => FreshIssue(c)
  /\ call[c].step \in {"ready", "sent"} => call[c].token = jar /\ Live(jar)
  /\ call[c].step = "sent" => call[c].cookie = jar
  /\ call[c].step \notin {"refused", "failed"}

RetryInv ==
  /\ FetchesAreAwaited /\ AttemptsCount
  /\ \A c \in Calls : call[c].attempt = 2 /\ c \notin disturbed => Repairs(c)

WebInv == WebTypeOK /\ StoreInv /\ RetryInv

----------------------------------------------------------------------------
(* Types.                                                                  *)

LEMMA Constants ==
  /\ NoWork \in Works /\ NoPromise \in Promises /\ Unused \in Requests
  /\ AnyTab \in Tabs /\ IsFiniteSet(Calls) /\ Cardinality(Calls) \in Nat
  /\ TTL \in Nat \ {0} /\ MaxSessions \in Nat \ {0} /\ MaxSids \in Nat /\ MaxTime \in Nat
  /\ NoSid \notin Nat /\ NoCall \notin Calls
<1>1. AnyTab \in Tabs
  BY WebConstants DEF AnyTab
<1>2. Cardinality(Calls) \in Nat
  BY WebConstants, FS_CardinalityType
<1> QED  BY <1>1, <1>2, WebConstants DEF NoWork, Works, NoPromise, Promises, Unused, Requests,
                                       MaybeSid, Sids

\* What a thread's work becomes is again a work.
LEMMA WorkTyped ==
  ASSUME NEW w \in Works
  PROVE  /\ [w EXCEPT !.step = "reused"] \in Works /\ [w EXCEPT !.same = FALSE] \in Works
         /\ [w EXCEPT !.step = "insert", !.sid = NoSid] \in Works
         /\ \A s \in Sids : [w EXCEPT !.step = "pop", !.sid = s] \in Works
         /\ \A b \in BOOLEAN : [w EXCEPT !.same = b] \in Works
         /\ w.now \in 0..MaxTime /\ w.sid \in MaybeSid /\ w.copy \subseteq Sids
BY DEF Works, MaybeSid

LEMMA NewWorkTyped ==
  ASSUME NEW s \in MaybeSid, NEW n \in 0..MaxTime, NEW t \in SUBSET Sids
  PROVE  /\ [NoWork EXCEPT !.step = "filter", !.now = n, !.copy = t] \in Works
         /\ [NoWork EXCEPT !.step = "evict", !.now = n] \in Works
         /\ [NoWork EXCEPT !.step = "arrived", !.sid = s] \in Works
         /\ [NoWork EXCEPT !.step = "issued", !.sid = s] \in Works
         /\ [NoWork EXCEPT !.step = "error"] \in Works /\ NoWork \in Works
BY Constants DEF NoWork, Works, MaybeSid, Sids

\* What a request becomes is again a request.
LEMMA RequestTyped ==
  ASSUME NEW r \in Requests
  PROVE  /\ r.tab \in Tabs /\ r.attempt \in 0..2
         /\ [r EXCEPT !.step = "refused"] \in Requests
         /\ \A s \in MaybeSid : /\ [r EXCEPT !.step = "ready", !.token = s] \in Requests
                               /\ [r EXCEPT !.step = "ready", !.on = NoCall, !.token = s] \in Requests
                               /\ [r EXCEPT !.step = "sent", !.cookie = s] \in Requests
         /\ \A c \in Calls : [r EXCEPT !.step = "wait", !.on = c] \in Requests
BY DEF Requests

LEMMA NewRequestTyped ==
  ASSUME NEW n \in 0..2
  PROVE  /\ Ended("failed", n) \in Requests /\ Ended("accepted", n) \in Requests
         /\ \A t \in Tabs : [Unused EXCEPT !.step = "token", !.tab = t, !.attempt = n] \in Requests
BY Constants DEF Requests, Ended, Unused, MaybeSid

LEMMA OtherRequestsTyped ==
  /\ Ended("accepted", 0) \in Requests /\ Ended("failed", 2) \in Requests
  /\ \A t \in Tabs : /\ [Unused EXCEPT !.step = "token", !.tab = t, !.attempt = 1] \in Requests
                     /\ [Unused EXCEPT !.step = "token", !.tab = t, !.attempt = 2] \in Requests
<1>1. 0 \in 0..2 /\ 1 \in 0..2 /\ 2 \in 0..2
  OBVIOUS
<1>2. Ended("accepted", 0) \in Requests /\ Ended("failed", 2) \in Requests
  BY NewRequestTyped, <1>1
<1>3. ASSUME NEW n \in 0..2, NEW t \in Tabs
      PROVE  [Unused EXCEPT !.step = "token", !.tab = t, !.attempt = n] \in Requests
  BY NewRequestTyped
<1> QED  BY <1>1, <1>2, <1>3

LEMMA TypeInit == WebInit => WebTypeOK
<1> SUFFICES ASSUME WebInit PROVE WebTypeOK
  OBVIOUS
<1>1. lost \in BOOLEAN
  BY DEF WebInit
<1>2. born \in Seq(0..MaxTime) /\ Len(born) <= MaxSids /\ time \in 0..MaxTime /\ restored \in Nat
  BY Constants DEF WebInit
<1> QED  BY <1>1, <1>2, Constants DEF WebInit, WebTypeOK, MaybeSid

\* One thread's work is replaced by another.
LEMMA WorkStep ==
  ASSUME WebTypeOK, NEW c \in Calls, NEW w \in Works, Work(c, w)
  PROVE  issue' \in [Calls -> Works] /\ issue'[c] = w /\ \A d \in Calls \ {c} : issue'[d] = issue[d]
BY DEF WebTypeOK, Work

\* One request is replaced by another.
LEMMA GoesStep ==
  ASSUME WebTypeOK, NEW c \in Calls, NEW r \in Requests, Goes(c, r)
  PROVE  call' \in [Calls -> Requests] /\ call'[c] = r /\ \A d \in Calls \ {c} : call'[d] = call[d]
BY DEF WebTypeOK, Goes

LEMMA ServerTyped ==
  ASSUME WebTypeOK, NEW c \in Calls, ServerStep(c)
  PROVE  WebTypeOK'
<1>0. issue[c] \in Works /\ call[c] \in Requests /\ time \in 0..MaxTime /\ table \in SUBSET Sids
  BY DEF WebTypeOK
<1> USE Constants
<1>1. CASE IssueLooks(c)
  <2>1. PICK w \in Works : Reads(c, w)
    BY <1>0, <1>1, WorkTyped, NewWorkTyped DEF IssueLooks, MaybeSid
  <2>2. issue' \in [Calls -> Works]
    BY <2>1, WorkStep DEF Reads, Table
  <2> QED  BY <2>1, <2>2 DEF Reads, Table, WebTypeOK, history
<1>2. CASE IssueFilters(c)
  <2>1. /\ UNCHANGED <<time, jar, lost, promise, call, born, raced>> /\ disturbed' \subseteq Calls
    BY <1>2, WebTypeOK DEF IssueFilters, Table, Disturbs, WebTypeOK
  <2>2. CASE table' = {s \in issue[c].copy : issue[c].now - born[s] < TTL}
             /\ restored' = restored + Cardinality(table' \ table)
             /\ issue' = [d \in Calls |->
                           IF d = c THEN [NoWork EXCEPT !.step = "evict", !.now = issue[c].now]
                           ELSE [issue[d] EXCEPT !.same = issue[d].step # "filter"]]
    <3>1. table' \subseteq Sids
      BY <1>0, <2>2, WorkTyped
    <3>2. IsFiniteSet(Sids)
      BY FS_Interval DEF Sids
    <3>3. Cardinality(table' \ table) \in Nat
      BY <3>1, <3>2, FS_Subset, FS_CardinalityType
    <3>4. restored' \in Nat
      BY <2>2, <3>3 DEF WebTypeOK
    <3>5. ASSUME NEW d \in Calls PROVE issue'[d] \in Works
      BY <1>0, <2>2, WorkTyped, NewWorkTyped, WebTypeOK DEF WebTypeOK, MaybeSid
    <3>6. issue' \in [Calls -> Works]
      BY <2>2, <3>5
    <3> QED  BY <2>1, <3>1, <3>4, <3>6 DEF WebTypeOK
  <2>3. CASE Table(c, [NoWork EXCEPT !.step = "error"], table) /\ UNCHANGED restored
    <3>1. issue' \in [Calls -> Works]
      BY <1>0, <2>3, NewWorkTyped, WorkStep DEF Table, MaybeSid
    <3> QED  BY <2>1, <2>3, <3>1 DEF Table, WebTypeOK
  <2> QED  BY <1>2, <2>2, <2>3 DEF IssueFilters
<1>3. CASE IssuePicks(c)
  <2>1. PICK w \in Works : Reads(c, w)
    BY <1>0, <1>3, WorkTyped DEF IssuePicks, Picked, Proceeds
  <2>2. issue' \in [Calls -> Works]
    BY <2>1, WorkStep DEF Reads, Table
  <2> QED  BY <2>1, <2>2 DEF Reads, Table, WebTypeOK, history
<1>4. CASE IssuePops(c)
  <2>1. PICK w \in Works, t \in SUBSET Sids : Table(c, w, t)
    <3>1. Proceeds(c) \in Works /\ [NoWork EXCEPT !.step = "error"] \in Works
      BY <1>0, WorkTyped, NewWorkTyped DEF Proceeds, MaybeSid
    <3>2. table \ {issue[c].sid} \in SUBSET Sids
      BY <1>0
    <3> QED  BY <1>0, <1>4, <3>1, <3>2 DEF IssuePops
  <2>2. issue' \in [Calls -> Works]
    BY <2>1, WorkStep DEF Table
  <2> QED  BY <1>4, <2>1, <2>2 DEF IssuePops, Table, Disturbs, WebTypeOK
<1>5. CASE IssueInserts(c)
  <2> DEFINE sid == Len(born) + 1
  <2>1. born \in Seq(0..MaxTime) /\ Len(born) \in Nat /\ sid \in Sids
    BY <1>5 DEF IssueInserts, WebTypeOK, Sids
  <2>2. /\ Table(c, [NoWork EXCEPT !.step = "issued", !.sid = sid], table \cup {sid})
        /\ born' = Append(born, issue[c].now)
        /\ raced' = raced \cup {sid} \/ raced' = raced
        /\ UNCHANGED restored /\ disturbed' \subseteq Calls
    BY <1>5 DEF IssueInserts, Disturbs, WebTypeOK
  <2> HIDE DEF sid
  <2>3. [NoWork EXCEPT !.step = "issued", !.sid = sid] \in Works
    BY <1>0, <2>1, NewWorkTyped DEF MaybeSid
  <2>4. issue' \in [Calls -> Works]
    BY <2>2, <2>3, WorkStep DEF Table
  <2>5. born' \in Seq(0..MaxTime) /\ Len(born') <= MaxSids
    <3>1. issue[c].now \in 0..MaxTime /\ Len(born) < MaxSids
      BY <1>0, <1>5, WorkTyped DEF IssueInserts
    <3> QED  BY <2>1, <2>2, <3>1
  <2> QED  BY <2>1, <2>2, <2>4, <2>5 DEF Table, WebTypeOK
<1>6. CASE Check(c)
  <2>1. PICK r \in Requests : Goes(c, r)
    <3>1. Ended("accepted", 0) \in Requests /\ [call[c] EXCEPT !.step = "refused"] \in Requests
      BY <1>0, RequestTyped, OtherRequestsTyped
    <3>2. Goes(c, Ended("accepted", 0)) \/ Goes(c, [call[c] EXCEPT !.step = "refused"])
      BY <1>6 DEF Check
    <3> QED  BY <3>1, <3>2
  <2>2. call' \in [Calls -> Requests]
    BY <2>1, GoesStep
  <2> QED  BY <1>6, <2>2 DEF Check, WebTypeOK
<1> QED  BY <1>1, <1>2, <1>3, <1>4, <1>5, <1>6 DEF ServerStep

LEMMA ClientTyped ==
  ASSUME WebTypeOK, NEW c \in Calls, ClientStep(c) \/ Begin(c)
  PROVE  WebTypeOK'
<1>0. /\ issue[c] \in Works /\ call[c] \in Requests /\ time \in 0..MaxTime /\ jar \in MaybeSid
      /\ NoSid \in MaybeSid /\ issue[c].sid \in MaybeSid
  BY WorkTyped DEF WebTypeOK, MaybeSid
<1> USE Constants
<1>1. CASE Begin(c)
  <2>1. PICK r \in Requests : Goes(c, r)
    <3>1. PICK t \in Tabs : Goes(c, [Unused EXCEPT !.step = "token", !.tab = t, !.attempt = 1])
      BY <1>1 DEF Begin
    <3>2. [Unused EXCEPT !.step = "token", !.tab = t, !.attempt = 1] \in Requests
      BY OtherRequestsTyped
    <3> QED  BY <3>1, <3>2
  <2>2. call' \in [Calls -> Requests]
    BY <2>1, GoesStep
  <2> QED  BY <1>1, <2>2 DEF Begin, WebTypeOK
<1>2. CASE Token(c)
  <2>1. promise[call[c].tab] \in Promises /\ call[c].tab \in Tabs
    BY <1>0, RequestTyped DEF WebTypeOK
  <2>2. PICK r \in Requests : Goes(c, r)
    <3>1. CASE promise[call[c].tab].token # NoSid
      BY <1>0, <1>2, <2>1, <3>1, RequestTyped DEF Token, Promises
    <3>2. CASE promise[call[c].tab].token = NoSid /\ promise[call[c].tab] = NoPromise
      BY <1>0, <1>2, <2>1, <3>2, RequestTyped DEF Token, Promises
    <3>3. CASE promise[call[c].tab].token = NoSid /\ promise[call[c].tab] # NoPromise
      <4>1. promise[call[c].tab].by \in Calls
        BY <2>1, <3>3 DEF Promises, NoPromise
      <4> QED  BY <1>0, <1>2, <2>1, <3>3, <4>1, RequestTyped DEF Token
    <3> QED  BY <3>1, <3>2, <3>3
  <2>3. call' \in [Calls -> Requests]
    BY <2>2, GoesStep
  <2>4. CASE promise[call[c].tab] = NoPromise
    <3>1. promise' \in [Tabs -> Promises]
      BY SMTT(30), <1>2, <2>1, <2>4 DEF Token, WebTypeOK, Promises
    <3>2. issue' \in [Calls -> Works]
      BY <1>0, <1>2, <2>4, NewWorkTyped, WorkStep DEF Token
    <3> QED  BY <1>2, <2>3, <3>1, <3>2 DEF Token, WebTypeOK, history
  <2>5. CASE promise[call[c].tab] # NoPromise
    BY <1>2, <2>3, <2>5 DEF Token, WebTypeOK, history
  <2> QED  BY <2>4, <2>5
<1>3. CASE SessionAnswers(c) \/ SessionFails(c)
  <2>1. PICK token \in MaybeSid, kept \in Promises : Settle(c, token, kept)
    <3>1. [NoPromise EXCEPT !.token = issue[c].sid] \in Promises
      BY <1>0 DEF NoPromise, Promises
    <3> QED  BY <1>0, <1>3, <3>1 DEF SessionAnswers, SessionFails
  <2>2. jar' \in MaybeSid
    BY <1>0, <1>3 DEF SessionAnswers, SessionFails
  <2>3. ASSUME NEW d \in Calls PROVE call'[d] \in Requests
    <3>1. call[d] \in Requests
      BY DEF WebTypeOK
    <3> QED  BY <2>1, <3>1, RequestTyped, NewRequestTyped DEF Settle
  <2>4. call' \in [Calls -> Requests]
    BY <2>1, <2>3 DEF Settle
  <2>5. promise' \in [Tabs -> Promises]
    BY <2>1 DEF Settle, WebTypeOK
  <2>6. issue' \in [Calls -> Works]
    BY <2>1, WorkStep DEF Settle
  <2> QED  BY <2>1, <2>2, <2>4, <2>5, <2>6 DEF Settle, Disturbs, WebTypeOK
<1>4. CASE Send(c)
  <2>1. call' \in [Calls -> Requests]
    BY <1>0, <1>4, RequestTyped, GoesStep DEF Send
  <2> QED  BY <1>4, <2>1 DEF Send, WebTypeOK, history
<1>5. CASE Again(c)
  <2>1. PICK r \in Requests : Goes(c, r)
    <3>1. Retried(c) \in Requests /\ Ended("failed", 2) \in Requests
      BY <1>0, RequestTyped, OtherRequestsTyped DEF Retried
    <3>2. Goes(c, Retried(c)) \/ Goes(c, Ended("failed", 2))
      BY <1>5 DEF Again
    <3> QED  BY <3>1, <3>2
  <2>2. call' \in [Calls -> Requests]
    BY <2>1, GoesStep
  <2>3. promise' \in [Tabs -> Promises]
    BY <1>5 DEF Again, WebTypeOK
  <2> QED  BY <1>5, <2>2, <2>3 DEF Again, WebTypeOK, history
<1> QED  BY <1>1, <1>2, <1>3, <1>4, <1>5 DEF ClientStep

LEMMA ClockTyped == WebTypeOK /\ (Tick \/ CookieLost \/ ServerRestart) => WebTypeOK'
<1> SUFFICES ASSUME WebTypeOK, Tick \/ CookieLost \/ ServerRestart PROVE WebTypeOK'
  OBVIOUS
<1> USE Constants
<1>0. Passes => time + 1 \in 0..MaxTime
  BY DEF Passes, WebTypeOK
<1>1. CASE Tick
  BY <1>0, <1>1 DEF Tick, WebTypeOK
<1>3. CASE CookieLost
  BY <1>3 DEF CookieLost, WebTypeOK, MaybeSid, history
<1>2. CASE ServerRestart
  <2>1. ASSUME NEW c \in Calls PROVE issue'[c] \in Works /\ call'[c] \in Requests
    <3>1. call[c] \in Requests /\ NoSid \in MaybeSid /\ 0 \in 0..MaxTime /\ {} \in SUBSET Sids
      BY DEF WebTypeOK, MaybeSid
    <3> QED  BY <1>2, <3>1, RequestTyped, NewRequestTyped, NewWorkTyped DEF ServerRestart
  <2>2. issue' \in [Calls -> Works] /\ call' \in [Calls -> Requests]
    BY <1>2, <2>1 DEF ServerRestart
  <2> QED  BY <1>0, <1>2, <2>2 DEF ServerRestart, WebTypeOK
<1> QED  BY <1>1, <1>2, <1>3

\* The types, for any tabs, calls and limits.
THEOREM WebTyped == WebSpec => []WebTypeOK
<1>1. WebTypeOK /\ [WebNext]_webVars => WebTypeOK'
  <2> SUFFICES ASSUME WebTypeOK, [WebNext]_webVars PROVE WebTypeOK'
    OBVIOUS
  <2>1. CASE UNCHANGED webVars
    BY <2>1 DEF webVars, WebTypeOK
  <2> QED  BY <2>1, ServerTyped, ClientTyped, ClockTyped DEF WebNext, CallStep
<1> QED  BY TypeInit, <1>1, PTL DEF WebSpec

----------------------------------------------------------------------------
(* The table.                                                              *)

\* The issues about to insert, counted.
LEMMA InsertsCounted ==
  ASSUME WebTypeOK, NEW c \in Calls,
         \A d \in Calls \ {c} : issue'[d].step = issue[d].step
  PROVE  /\ Inserting \in Nat /\ Inserting <= Cardinality(Calls)
         /\ issue[c].step = "insert" /\ issue'[c].step # "insert" => Inserting' = Inserting - 1
         /\ issue[c].step # "insert" /\ issue'[c].step = "insert" =>
              Inserting' = Inserting + 1 /\ Inserting' <= Cardinality(Calls)
         /\ (issue[c].step = "insert" <=> issue'[c].step = "insert") => Inserting' = Inserting
<1>1. Inserts \subseteq Calls /\ IsFiniteSet(Inserts) /\ Inserting <= Cardinality(Calls)
  BY Constants, FS_Subset DEF Inserts, Inserting
<1>2. Inserts' \subseteq Calls /\ Inserting' <= Cardinality(Calls)
  BY Constants, FS_Subset DEF Inserts, Inserting
<1>3. CASE issue[c].step = "insert" /\ issue'[c].step # "insert"
  <2>1. Inserts' = Inserts \ {c} /\ c \in Inserts
    BY <1>3 DEF Inserts
  <2> QED  BY <1>1, <1>3, <2>1, FS_RemoveElement, FS_CardinalityType DEF Inserting
<1>4. CASE issue[c].step # "insert" /\ issue'[c].step = "insert"
  <2>1. Inserts' = Inserts \cup {c} /\ c \notin Inserts
    BY <1>4 DEF Inserts
  <2> QED  BY <1>1, <1>2, <1>4, <2>1, FS_AddElement, FS_CardinalityType DEF Inserting
<1>5. CASE issue[c].step = "insert" <=> issue'[c].step = "insert"
  <2>1. Inserts' = Inserts
    BY <1>5 DEF Inserts
  <2> QED  BY <1>1, <1>5, <2>1, FS_CardinalityType DEF Inserting
<1> QED  BY <1>3, <1>4, <1>5

\* Nothing takes an excuse away.
LEMMA ExcusesStay ==
  ASSUME WebTypeOK, WebTypeOK', Inserting \in Nat, Inserting' \in Nat,
         time' >= time, raced \subseteq raced',
         Len(born') + Inserting' >= Len(born) + Inserting,
         NEW s \in 1..Len(born), s \in 1..Len(born'), born'[s] = born[s], Excused(s)
  PROVE  Excused(s)'
<1>1. /\ born[s] \in Nat /\ time \in Nat /\ time' \in Nat /\ Len(born) \in Nat /\ Len(born') \in Nat
  BY SMTT(30), Constants DEF WebTypeOK
<1> QED  BY SMTT(30), <1>1, Constants DEF Excused

\* A step that leaves the table, and what the issues are about to do with it.
LEMMA QuietStore ==
  ASSUME WebTypeOK, WebTypeOK', StoreInv, UNCHANGED <<table, born, raced, restored>>,
         time' >= time,
         \A d \in Calls : \/ issue'[d] = issue[d]
                          \/ /\ issue[d].step # "insert" /\ issue'[d].now <= time'
                             /\ issue'[d].step \notin {"filter", "pop", "insert"}
                             /\ issue'[d].copy \subseteq 1..Len(born)
  PROVE  StoreInv'
<1>1. Inserts' = Inserts /\ Inserting' = Inserting
  BY DEF Inserts, Inserting
<1>2. IsFiniteSet(Inserts) /\ Inserting \in Nat
  BY Constants, FS_Subset, FS_CardinalityType DEF Inserts, Inserting
<1>3. ASSUME NEW s \in 1..Len(born), Excused(s) PROVE Excused(s)'
  <2>1. Len(born) \in Nat /\ Len(born') = Len(born)
    BY DEF WebTypeOK
  <2> QED  BY <1>1, <1>2, <1>3, <2>1, ExcusesStay
<1>4. SessionsAreKept' /\ CopiesKeep'
  BY <1>3 DEF StoreInv, SessionsAreKept, CopiesKeep
<1>5. Known'
  <2>1. ASSUME NEW c \in Calls PROVE issue'[c].now <= time'
    <3>1. issue[c].now <= time /\ issue[c].now \in Nat /\ time \in Nat /\ time' \in Nat
      <4>1. issue[c] \in Works /\ time \in 0..MaxTime /\ time' \in 0..MaxTime
        BY DEF WebTypeOK
      <4>2. issue[c].now \in 0..MaxTime
        BY <4>1 DEF Works
      <4> QED  BY <4>1, <4>2, Constants DEF StoreInv, Known
    <3> QED  BY <3>1
  <2> QED  BY <2>1 DEF StoreInv, Known
<1>6. PickedIsOld' /\ TableIsBounded'
  BY <1>1 DEF StoreInv, PickedIsOld, TableIsBounded
<1> QED  BY <1>4, <1>5, <1>6 DEF StoreInv

\* The oldest of a full table has as many younger ones as the table holds others.
LEMMA OldestHasYounger ==
  ASSUME WebTypeOK, Known, Full, NEW s \in table, Oldest(s)
  PROVE  Len(born) - s >= MaxSessions - 1
<1>1. Len(born) \in Nat /\ s \in 1..Len(born) /\ table \subseteq s..Len(born)
  BY DEF WebTypeOK, Known, Oldest
<1>2. IsFiniteSet(s..Len(born)) /\ Cardinality(s..Len(born)) = Len(born) - s + 1
  BY <1>1, FS_Interval
<1>3. Cardinality(table) <= Cardinality(s..Len(born)) /\ Cardinality(table) \in Nat
  BY <1>1, <1>2, FS_Subset, FS_CardinalityType
<1> QED  BY <1>1, <1>2, <1>3, Constants DEF Full

\* The size of the table.
LEMMA TableCounted ==
  ASSUME WebTypeOK
  PROVE  IsFiniteSet(table) /\ Cardinality(table) \in Nat
<1>1. IsFiniteSet(Sids)
  BY FS_Interval, Constants DEF Sids
<1> QED  BY <1>1, FS_Subset, FS_CardinalityType DEF WebTypeOK

\* A session that is dropped from a copy as too old is past its time.
LEMMA IssueKeepsStore ==
  ASSUME WebTypeOK, WebTypeOK', StoreInv, NEW c \in Calls,
         IssueLooks(c) \/ IssueFilters(c) \/ IssuePicks(c) \/ IssuePops(c) \/ IssueInserts(c)
  PROVE  StoreInv'
<1>0. /\ issue[c] \in Works /\ issue \in [Calls -> Works] /\ time \in Nat /\ time' = time
      /\ Len(born) \in Nat /\ born \in Seq(0..MaxTime) /\ table \subseteq 1..Len(born)
      /\ issue[c].now \in Nat /\ issue[c].now <= time /\ issue[c].copy \subseteq 1..Len(born)
      /\ restored \in Nat /\ restored' \in Nat
      /\ IsFiniteSet(table) /\ Cardinality(table) \in Nat
      /\ IsFiniteSet(table') /\ Cardinality(table') \in Nat
  <2>1. issue[c].now \in 0..MaxTime
    BY DEF WebTypeOK, Works
  <2>2. IsFiniteSet(table') /\ Cardinality(table') \in Nat
    <3>1. IsFiniteSet(Sids)
      BY FS_Interval, Constants DEF Sids
    <3> QED  BY <3>1, FS_Subset, FS_CardinalityType DEF WebTypeOK
  <2>3. time' = time
    BY DEF IssueLooks, IssueFilters, IssuePicks, IssuePops, IssueInserts, Reads, Table
  <2> QED  BY SMTT(30), <2>1, <2>2, <2>3, TableCounted, Constants DEF WebTypeOK, StoreInv, Known
<1> USE Constants
<1>1. CASE IssueLooks(c)
  <2>1. CASE Reads(c, [issue[c] EXCEPT !.step = "reused"])
    <3>1. /\ issue'[c] = [issue[c] EXCEPT !.step = "reused"]
          /\ \A d \in Calls \ {c} : issue'[d] = issue[d]
          /\ issue[c].step = "arrived" /\ UNCHANGED <<table, born, raced, restored>>
      BY <1>0, <1>1, <2>1 DEF IssueLooks, Reads, Table, Work, history
    <3>2. /\ issue'[c].now = issue[c].now /\ issue'[c].copy = issue[c].copy
          /\ issue'[c].step = "reused"
      BY <1>0, <3>1 DEF Works
    <3>3. \A d \in Calls : \/ issue'[d] = issue[d]
                          \/ /\ issue[d].step # "insert" /\ issue'[d].now <= time'
                             /\ issue'[d].step \notin {"filter", "pop", "insert"}
                             /\ issue'[d].copy \subseteq 1..Len(born)
      BY <1>0, <3>1, <3>2
    <3> QED  BY <1>0, <3>1, <3>3, QuietStore
  <2>2. CASE Reads(c, [NoWork EXCEPT !.step = "filter", !.now = time, !.copy = table])
    <3>1. /\ issue'[c] = [NoWork EXCEPT !.step = "filter", !.now = time, !.copy = table]
          /\ \A d \in Calls \ {c} : issue'[d] = issue[d]
          /\ issue[c].step = "arrived" /\ UNCHANGED <<table, born, raced, restored>>
      BY <1>0, <1>1, <2>2 DEF IssueLooks, Reads, Table, Work, history
    <3>2. issue'[c].step = "filter" /\ issue'[c].now = time /\ issue'[c].copy = table
      BY <3>1 DEF NoWork
    <3>3. Inserting' = Inserting
      BY <3>1, <3>2, InsertsCounted
    <3>4. \A s \in 1..Len(born) : Excused(s)' = Excused(s)
      BY <1>0, <3>1, <3>3 DEF Excused
    <3>5. Known' /\ PickedIsOld' /\ TableIsBounded'
      <4>1. Known'
        <5>1. ASSUME NEW d \in Calls PROVE issue'[d].copy \subseteq 1..Len(born) /\ issue'[d].now <= time
          <6>0. time <= time
            BY <1>0
          <6>1. CASE d = c
            BY <1>0, <3>2, <6>0, <6>1
          <6>2. CASE d # c
            BY <3>1, <6>2 DEF StoreInv, Known
          <6> QED  BY <6>1, <6>2
        <5> QED  BY <1>0, <3>1, <5>1 DEF Known
      <4>2. PickedIsOld'
        BY <1>0, <3>1, <3>2 DEF StoreInv, PickedIsOld
      <4>3. TableIsBounded'
        BY <1>0, <3>1, <3>3 DEF StoreInv, TableIsBounded
      <4> QED  BY <4>1, <4>2, <4>3
    <3>6. SessionsAreKept' /\ CopiesKeep'
      BY <1>0, <3>1, <3>2, <3>4 DEF StoreInv, CopiesKeep, SessionsAreKept
    <3> QED  BY <3>5, <3>6 DEF StoreInv
  <2> QED  BY <1>1, <2>1, <2>2 DEF IssueLooks
<1>2. CASE IssueFilters(c)
  <2>1. CASE /\ table' = {s \in issue[c].copy : issue[c].now - born[s] < TTL}
             /\ restored' = restored + Cardinality(table' \ table)
             /\ issue' = [d \in Calls |->
                           IF d = c THEN [NoWork EXCEPT !.step = "evict", !.now = issue[c].now]
                           ELSE [issue[d] EXCEPT !.same = issue[d].step # "filter"]]
    <3>1. /\ issue[c].step = "filter" /\ issue'[c].step = "evict" /\ issue'[c].now = issue[c].now
          /\ issue'[c].copy = {} /\ UNCHANGED <<born, raced>>
      BY <1>2, <2>1 DEF IssueFilters, NoWork
    <3>2. \A d \in Calls \ {c} : /\ issue'[d].step = issue[d].step /\ issue'[d].now = issue[d].now
                                 /\ issue'[d].copy = issue[d].copy /\ issue'[d].sid = issue[d].sid
      BY <1>0, <2>1 DEF Works
    <3>3. Inserting' = Inserting /\ Inserting \in Nat
      BY <3>1, <3>2, InsertsCounted
    <3>4. \A s \in 1..Len(born) : Excused(s)' = Excused(s)
      BY <1>0, <3>1, <3>3 DEF Excused
    <3>5. Known' /\ PickedIsOld' /\ CopiesKeep'
      BY <1>0, <2>1, <3>1, <3>2, <3>4 DEF StoreInv, Known, PickedIsOld, CopiesKeep
    <3>6. SessionsAreKept'
      <4>1. ASSUME NEW s \in 1..Len(born), s \notin table' PROVE Excused(s)
        <5>1. CASE s \notin issue[c].copy
          BY <3>1, <4>1, <5>1 DEF StoreInv, CopiesKeep
        <5>2. CASE s \in issue[c].copy
          <6>1. born[s] \in Nat /\ ~(issue[c].now - born[s] < TTL)
            BY <1>0, <2>1, <4>1, <5>2
          <6> QED  BY SMTT(30), <1>0, <6>1 DEF Excused
        <5> QED  BY <5>1, <5>2
      <4> QED  BY <1>0, <3>1, <3>4, <4>1 DEF SessionsAreKept
    <3>7. TableIsBounded'
      <4>1. Cardinality(table') <= Cardinality(table) + Cardinality(table' \ table)
        <5>1. /\ IsFiniteSet(table' \ table) /\ Cardinality(table' \ table) \in Nat
          BY <1>0, FS_Difference, FS_CardinalityType
        <5>2. /\ IsFiniteSet(table \cup (table' \ table))
              /\ Cardinality(table \cup (table' \ table)) =
                    Cardinality(table) + Cardinality(table' \ table)
                    - Cardinality(table \cap (table' \ table))
          BY <1>0, <5>1, FS_Union
        <5>3. table \cap (table' \ table) = {} /\ table' \subseteq table \cup (table' \ table)
          OBVIOUS
        <5>4. Cardinality(table \cap (table' \ table)) = 0
          BY <5>3, FS_EmptySet
        <5>5. Cardinality(table') <= Cardinality(table \cup (table' \ table))
          BY <5>2, <5>3, FS_Subset
        <5> QED  BY <1>0, <5>1, <5>2, <5>4, <5>5
      <4>2. Cardinality(table' \ table) \in Nat
        BY <1>0, FS_Difference, FS_CardinalityType
      <4> QED  BY SMTT(30), <1>0, <2>1, <3>3, <4>1, <4>2 DEF StoreInv, TableIsBounded
    <3> QED  BY <3>5, <3>6, <3>7 DEF StoreInv
  <2>2. CASE Table(c, [NoWork EXCEPT !.step = "error"], table) /\ UNCHANGED restored
    <3>1. /\ issue'[c] = [NoWork EXCEPT !.step = "error"] /\ issue[c].step = "filter"
          /\ \A d \in Calls \ {c} : issue'[d] = issue[d]
          /\ UNCHANGED <<table, born, raced, restored>>
      BY <1>0, <1>2, <2>2 DEF IssueFilters, Table, Work
    <3>2. issue'[c].step = "error" /\ issue'[c].now = 0 /\ issue'[c].copy = {}
      BY <3>1 DEF NoWork
    <3>3. \A d \in Calls : \/ issue'[d] = issue[d]
                          \/ /\ issue[d].step # "insert" /\ issue'[d].now <= time'
                             /\ issue'[d].step \notin {"filter", "pop", "insert"}
                             /\ issue'[d].copy \subseteq 1..Len(born)
      <4>1. 0 <= time' /\ {} \subseteq 1..Len(born)
        BY <1>0
      <4> QED  BY <3>1, <3>2, <4>1
    <3> QED  BY <1>0, <3>1, <3>3, QuietStore
  <2> QED  BY <1>2, <2>1, <2>2 DEF IssueFilters
<1>3. CASE IssuePicks(c)
  <2>1. /\ issue[c].step = "evict" /\ UNCHANGED <<table, born, raced, restored>>
        /\ \A d \in Calls \ {c} : issue'[d] = issue[d]
    BY <1>0, <1>3 DEF IssuePicks, Reads, Table, Work, history
  <2>2. CASE ~Full /\ Reads(c, Proceeds(c))
    <3>1. /\ issue'[c].step = "insert" /\ issue'[c].now = issue[c].now
          /\ issue'[c].copy = issue[c].copy
      BY <1>0, <2>2 DEF Reads, Table, Work, Proceeds, Works
    <3>2. Inserting' = Inserting + 1 /\ Inserting' <= Cardinality(Calls) /\ Inserting \in Nat
      BY <2>1, <3>1, InsertsCounted
    <3>3. \A s \in 1..Len(born) : Excused(s) => Excused(s)'
      BY <1>0, <2>1, <3>2 DEF Excused
    <3>4. TableIsBounded'
      BY <1>0, <2>1, <2>2, <3>2 DEF TableIsBounded, Full
    <3>5. Known' /\ PickedIsOld' /\ CopiesKeep' /\ SessionsAreKept'
      BY <1>0, <2>1, <3>1, <3>3 DEF StoreInv, Known, PickedIsOld, CopiesKeep, SessionsAreKept
    <3> QED  BY <3>4, <3>5 DEF StoreInv
  <2>3. CASE Full /\ \E s \in table : Oldest(s) /\ Reads(c, Picked(c, s))
    <3>1. PICK s \in table : Oldest(s) /\ Reads(c, Picked(c, s))
      BY <2>3
    <3>2. /\ issue'[c].step = "pop" /\ issue'[c].now = issue[c].now /\ issue'[c].sid = s
          /\ issue'[c].copy = issue[c].copy
      BY <1>0, <3>1 DEF Reads, Table, Work, Picked, Works
    <3>3. Len(born) - s >= MaxSessions - 1
      BY <2>3, <3>1, OldestHasYounger DEF StoreInv
    <3>4. Inserting' = Inserting
      BY <2>1, <3>2, InsertsCounted
    <3>5. \A r \in 1..Len(born) : Excused(r)' = Excused(r)
      BY <1>0, <2>1, <3>4 DEF Excused
    <3> QED  BY <1>0, <2>1, <3>2, <3>3, <3>4, <3>5
             DEF StoreInv, Known, PickedIsOld, CopiesKeep, SessionsAreKept, TableIsBounded
  <2> QED  BY <1>3, <2>2, <2>3 DEF IssuePicks
<1>4. CASE IssuePops(c)
  <2>1. issue[c].step = "pop" /\ UNCHANGED <<born, raced, restored>>
    BY <1>4 DEF IssuePops
  <2>2. CASE issue[c].sid \in table /\ Table(c, Proceeds(c), table \ {issue[c].sid})
    <3>1. /\ issue'[c].step = "insert" /\ issue'[c].now = issue[c].now
          /\ issue'[c].copy = issue[c].copy /\ table' = table \ {issue[c].sid}
          /\ \A d \in Calls \ {c} : issue'[d] = issue[d]
      BY <1>0, <2>2 DEF Table, Work, Proceeds, Works
    <3>2. Inserting' = Inserting + 1 /\ Inserting \in Nat
      BY <2>1, <3>1, InsertsCounted
    <3>3. \A s \in 1..Len(born) : Excused(s) => Excused(s)'
      BY <1>0, <2>1, <3>2 DEF Excused
    <3>4. \A s \in 1..Len(born) : s = issue[c].sid => Excused(s)'
      <4>1. Len(born) - issue[c].sid >= MaxSessions - 1
        BY <2>1 DEF StoreInv, PickedIsOld
      <4> QED  BY <1>0, <2>1, <3>1, <3>2, <4>1 DEF Excused
    <3>5. SessionsAreKept'
      BY <1>0, <2>1, <3>1, <3>3, <3>4 DEF StoreInv, SessionsAreKept
    <3>6. TableIsBounded'
      <4>1. Cardinality(table') = Cardinality(table) - 1
        BY <1>0, <2>2, <3>1, FS_RemoveElement
      <4> QED  BY <1>0, <2>1, <3>2, <4>1 DEF StoreInv, TableIsBounded
    <3>7. Known' /\ PickedIsOld' /\ CopiesKeep'
      BY <1>0, <2>1, <3>1, <3>3 DEF StoreInv, Known, PickedIsOld, CopiesKeep
    <3> QED  BY <3>5, <3>6, <3>7 DEF StoreInv
  <2>3. CASE Table(c, [NoWork EXCEPT !.step = "error"], table)
    <3>1. /\ issue'[c] = [NoWork EXCEPT !.step = "error"] /\ UNCHANGED <<table, born, raced, restored>>
          /\ \A d \in Calls \ {c} : issue'[d] = issue[d]
      BY <1>0, <2>1, <2>3 DEF Table, Work
    <3>2. issue'[c].step = "error" /\ issue'[c].now = 0 /\ issue'[c].copy = {}
      BY <3>1 DEF NoWork
    <3>3. \A d \in Calls : \/ issue'[d] = issue[d]
                          \/ /\ issue[d].step # "insert" /\ issue'[d].now <= time'
                             /\ issue'[d].step \notin {"filter", "pop", "insert"}
                             /\ issue'[d].copy \subseteq 1..Len(born)
      <4>1. 0 <= time' /\ {} \subseteq 1..Len(born)
        BY <1>0
      <4> QED  BY <2>1, <3>1, <3>2, <4>1
    <3> QED  BY <1>0, <3>1, <3>3, QuietStore
  <2> QED  BY <1>4, <2>2, <2>3 DEF IssuePops
<1>5. CASE IssueInserts(c)
  <2> DEFINE sid == Len(born) + 1
  <2>1. /\ Table(c, [NoWork EXCEPT !.step = "issued", !.sid = sid], table \cup {sid})
        /\ born' = Append(born, issue[c].now) /\ UNCHANGED restored /\ issue[c].step = "insert"
        /\ raced' = IF \E d \in Calls : issue[d].step = "filter" THEN raced \cup {sid} ELSE raced
    BY <1>5 DEF IssueInserts
  <2>2. /\ Len(born') = sid /\ \A s \in 1..Len(born) : born'[s] = born[s]
        /\ table' = table \cup {sid} /\ sid \notin table /\ sid \in Nat
    BY <1>0, <2>1 DEF Table
  <2>3. /\ issue'[c].step = "issued" /\ issue'[c].now = 0 /\ issue'[c].copy = {}
        /\ \A d \in Calls \ {c} : issue'[d] = issue[d]
    BY <1>0, <2>1 DEF Table, Work, NoWork
  <2>4. Inserting' = Inserting - 1 /\ Inserting \in Nat
    BY <2>1, <2>3, InsertsCounted
  <2>5. ASSUME NEW s \in 1..Len(born), Excused(s) PROVE Excused(s)'
    BY SMTT(30), <1>0, <2>1, <2>2, <2>4, <2>5 DEF Excused
  <2> HIDE DEF sid
  <2>6. CopiesKeep'
    <3>1. ASSUME NEW d \in Calls, issue'[d].step = "filter", NEW s \in 1..sid
          PROVE  s \in issue'[d].copy \/ Excused(s)'
      <4>1. d # c /\ issue[d].step = "filter" /\ issue'[d].copy = issue[d].copy
        BY <2>3, <3>1
      <4>2. CASE s = sid
        BY <2>1, <4>1, <4>2 DEF Excused
      <4>3. CASE s # sid
        <5>1. s \in 1..Len(born)
          BY <1>0, <4>3 DEF sid
        <5> QED  BY <2>5, <4>1, <5>1 DEF StoreInv, CopiesKeep
      <4> QED  BY <4>2, <4>3
    <3> QED  BY <2>2, <3>1 DEF CopiesKeep
  <2>7. SessionsAreKept'
    <3>1. ASSUME NEW s \in 1..sid PROVE s \in table' \/ Excused(s)'
      <4>1. CASE s = sid
        BY <2>2, <4>1
      <4>2. CASE s # sid
        <5>1. s \in 1..Len(born)
          BY <1>0, <4>2 DEF sid
        <5> QED  BY <2>2, <2>5, <5>1 DEF StoreInv, SessionsAreKept
      <4> QED  BY <4>1, <4>2
    <3> QED  BY <2>2, <3>1 DEF SessionsAreKept
  <2>8. TableIsBounded'
    <3>1. Cardinality(table') = Cardinality(table) + 1
      BY <1>0, <2>2, FS_AddElement
    <3> QED  BY <1>0, <2>1, <2>4, <3>1 DEF StoreInv, TableIsBounded
  <2>9. Known'
    <3>1. 1..Len(born) \subseteq 1..Len(born') /\ sid \in 1..Len(born')
      BY <1>0, <2>2 DEF sid
    <3>2. ASSUME NEW d \in Calls PROVE issue'[d].copy \subseteq 1..Len(born') /\ issue'[d].now <= time'
      BY <1>0, <2>3, <3>1 DEF StoreInv, Known
    <3> QED  BY <1>0, <2>2, <3>1, <3>2 DEF Known
  <2>10. PickedIsOld'
    <3>1. ASSUME NEW d \in Calls, issue'[d].step = "pop"
          PROVE  issue'[d].sid \in 1..Len(born') /\ Len(born') - issue'[d].sid >= MaxSessions - 1
      <4>1. issue'[d] = issue[d] /\ issue[d].step = "pop"
        BY <2>3, <3>1
      <4>2. Len(born) - issue[d].sid >= MaxSessions - 1 /\ issue[d].sid \in 1..Len(born)
        BY <4>1 DEF StoreInv, PickedIsOld
      <4> QED  BY <1>0, <2>2, <4>1, <4>2 DEF sid
    <3> QED  BY <3>1 DEF PickedIsOld
  <2> QED  BY <2>6, <2>7, <2>8, <2>9, <2>10 DEF StoreInv
<1> QED  BY <1>1, <1>2, <1>3, <1>4, <1>5

\* The client's steps do nothing to the table; of an issue they are the
\* beginning and the end.
LEMMA OthersKeepStore ==
  ASSUME WebTypeOK, WebTypeOK', StoreInv, FetchesAreAwaited, NEW c \in Calls,
         Check(c) \/ ClientStep(c) \/ Begin(c)
  PROVE  StoreInv'
<1>1. /\ UNCHANGED <<table, born, raced, restored>>
      /\ time \in Nat /\ time' \in Nat /\ time' >= time /\ issue \in [Calls -> Works]
  <2>1. UNCHANGED <<table, born, raced, restored>> /\ time' = time
    BY DEF Check, ClientStep, Begin, Token, SessionAnswers, SessionFails, Settle, Send, Again,
           history
  <2> QED  BY <2>1, Constants DEF WebTypeOK
<1>2. ASSUME NEW w, w.step \notin {"filter", "pop", "insert"}, w.now = 0, w.copy = {},
             issue[c].step # "insert", Work(c, w)
      PROVE  StoreInv'
  <2>1. issue'[c] = w /\ \A d \in Calls \ {c} : issue'[d] = issue[d]
    BY <1>1, <1>2 DEF Work
  <2>2. 0 <= time'
    BY <1>1
  <2> QED  BY <1>1, <1>2, <2>1, <2>2, QuietStore
<1>3. CASE UNCHANGED issue
  BY <1>1, <1>3, QuietStore
<1>4. CASE SessionAnswers(c) \/ SessionFails(c)
  <2>1. issue[c].step # "insert" /\ Work(c, NoWork)
    BY <1>4 DEF SessionAnswers, SessionFails, Settle
  <2>2. NoWork.step \notin {"filter", "pop", "insert"} /\ NoWork.now = 0 /\ NoWork.copy = {}
    BY DEF NoWork
  <2> QED  BY <1>2, <2>1, <2>2
<1>5. CASE Token(c) /\ ~UNCHANGED issue
  <2>1. Work(c, [NoWork EXCEPT !.step = "arrived", !.sid = jar])
    BY <1>5 DEF Token
  <2>2. issue[c].step # "insert"
    BY <1>5 DEF Token, FetchesAreAwaited
  <2> QED  BY <1>2, <2>1, <2>2 DEF NoWork
<1> QED  BY <1>3, <1>4, <1>5 DEF Check, ClientStep, Begin, Send, Again

\* A restart takes the table, and every session that there was is excused.
LEMMA RestartKeepsStore ==
  ASSUME WebTypeOK, WebTypeOK', StoreInv, ServerRestart
  PROVE  StoreInv'
<1>1. /\ table' = {} /\ born' = born /\ restored' = restored /\ restored \in Nat
      /\ Len(born) \in Nat /\ Len(born) <= MaxSids
      /\ \A s \in 1..Len(born) : s \in raced'
      /\ time' \in Nat /\ MaxSessions \in Nat \ {0}
  BY Constants DEF ServerRestart, WebTypeOK, Sids
<1>2. \A c \in Calls : /\ issue'[c].copy = {} /\ issue'[c].now = 0
                       /\ issue'[c].step \in {"none", "error"}
  BY <1>1 DEF ServerRestart, NoWork
<1>3. \A s \in 1..Len(born') : Excused(s)'
  BY <1>1 DEF Excused
<1>4. TableIsBounded'
  <2>1. Inserts' = {}
    BY <1>2 DEF Inserts
  <2>2. Inserting' = 0 /\ Cardinality(table') = 0
    BY <1>1, <2>1, FS_EmptySet DEF Inserting
  <2> QED  BY <1>1, <2>2, Constants DEF TableIsBounded
<1>5. Known' /\ PickedIsOld' /\ CopiesKeep' /\ SessionsAreKept'
  <2>1. Known'
    BY <1>1, <1>2 DEF Known
  <2> QED  BY <1>2, <1>3, <2>1 DEF PickedIsOld, CopiesKeep, SessionsAreKept
<1> QED  BY <1>4, <1>5 DEF StoreInv

----------------------------------------------------------------------------
(* The retry.                                                              *)

\* A fetch runs for the call that waits for it, whoever takes the step.
LEMMA FetchesKept ==
  ASSUME WebTypeOK, FetchesAreAwaited, NEW c \in Calls, CallStep(c) \/ Begin(c)
  PROVE  FetchesAreAwaited'
<1>0. issue \in [Calls -> Works] /\ call \in [Calls -> Requests]
  BY DEF WebTypeOK
<1>1. CASE IssueLooks(c) \/ IssueFilters(c) \/ IssuePicks(c) \/ IssuePops(c) \/ IssueInserts(c)
  <2>1. call' = call /\ issue[c].step # "none"
    BY <1>1 DEF IssueLooks, IssueFilters, IssuePicks, IssuePops, IssueInserts, Reads, Table
  <2>2. \A d \in Calls \ {c} : issue'[d].step = issue[d].step
    BY <1>0, <1>1 DEF IssueLooks, IssueFilters, IssuePicks, IssuePops, IssueInserts, Reads, Table,
                      Work, Works
  <2> QED  BY <2>1, <2>2 DEF FetchesAreAwaited
<1>2. CASE Check(c) \/ Begin(c) \/ Send(c) \/ Again(c)
  <2>1. issue' = issue /\ call[c].step # "wait" /\ \A d \in Calls \ {c} : call'[d] = call[d]
    BY <1>0, <1>2 DEF Check, Begin, Send, Again, Goes, AtRest
  <2> QED  BY <2>1 DEF FetchesAreAwaited
<1>3. CASE Token(c)
  <2>1. issue[c].step = "none" /\ \A d \in Calls \ {c} : call'[d] = call[d]
    BY <1>0, <1>3 DEF Token, Goes, FetchesAreAwaited
  <2>2. CASE promise[call[c].tab] = NoPromise
    <3>1. call'[c] = [call[c] EXCEPT !.step = "wait", !.on = c]
      BY <1>0, <1>3, <2>2 DEF Token, Goes, NoPromise
    <3>2. call'[c].step = "wait" /\ call'[c].on = c
      BY <1>0, <3>1 DEF Requests
    <3>3. \A d \in Calls \ {c} : issue'[d] = issue[d]
      BY <1>0, <1>3, <2>2 DEF Token, Work
    <3> QED  BY <2>1, <3>2, <3>3 DEF FetchesAreAwaited
  <2>3. CASE promise[call[c].tab] # NoPromise
    <3>1. issue' = issue
      BY <1>3, <2>3 DEF Token
    <3> QED  BY <2>1, <3>1 DEF FetchesAreAwaited
  <2> QED  BY <2>2, <2>3
<1>4. CASE SessionAnswers(c) \/ SessionFails(c)
  <2>1. PICK token, kept : Settle(c, token, kept)
    BY <1>4 DEF SessionAnswers, SessionFails
  <2>2. /\ issue'[c].step = "none" /\ \A d \in Calls \ {c} : issue'[d] = issue[d]
        /\ \A d \in Calls : call[d].on # c => call'[d] = call[d]
    BY <1>0, <2>1 DEF Settle, Work, NoWork
  <2> QED  BY <2>2 DEF FetchesAreAwaited
<1> QED  BY <1>1, <1>2, <1>3, <1>4 DEF CallStep, ServerStep, ClientStep

LEMMA FetchesOutlive ==
  ASSUME WebTypeOK, FetchesAreAwaited, Tick \/ CookieLost \/ ServerRestart
  PROVE  FetchesAreAwaited'
<1>1. CASE Tick \/ CookieLost
  BY <1>1 DEF Tick, CookieLost, FetchesAreAwaited
<1>2. CASE ServerRestart
  BY <1>2 DEF ServerRestart, FetchesAreAwaited, NoWork, WebTypeOK
<1> QED  BY <1>1, <1>2

\* What an undisturbed second attempt relies on, left alone.
LEMMA LeftAlone ==
  ASSUME NEW c \in Calls, Repairs(c), UNCHANGED <<time, table, born, jar>>,
         call'[c] = call[c], issue'[c] = issue[c],
         promise'[call[c].tab].token \in {promise[call[c].tab].token, NoSid}
  PROVE  Repairs(c)'
<1>1. \A s : Live(s)' = Live(s)
  BY DEF Live
<1>2. FreshIssue(c) => FreshIssue(c)'
  BY <1>1 DEF FreshIssue
<1> QED  BY <1>1, <1>2 DEF Repairs

\* A step of another call either disturbs a second attempt or leaves it alone.
LEMMA OthersDisturb ==
  ASSUME WebTypeOK, NEW c \in Calls, Repairs(c), call[c].attempt = 2,
         NEW d \in Calls \ {c}, CallStep(d) \/ Begin(d), c \notin disturbed'
  PROVE  call'[c] = call[c] /\ Repairs(c)'
<1>0. /\ issue \in [Calls -> Works] /\ call \in [Calls -> Requests]
      /\ promise \in [Tabs -> Promises] /\ call[c].tab \in Tabs
  BY RequestTyped DEF WebTypeOK
<1>1. ~Disturbs(d)
  BY DEF Disturbs
<1>2. CASE IssueLooks(d) \/ IssuePicks(d)
  <2>1. UNCHANGED <<time, table, born, jar, call, promise>> /\ issue'[c] = issue[c]
    BY <1>0, <1>2 DEF IssueLooks, IssuePicks, Reads, Table, Work
  <2> QED  BY <2>1, LeftAlone
<1>3. CASE Check(d) \/ Begin(d) \/ Send(d)
  <2>1. UNCHANGED <<time, table, born, jar, promise, issue>> /\ call'[c] = call[c]
    BY <1>0, <1>3 DEF Check, Begin, Send, Goes
  <2> QED  BY <2>1, LeftAlone
<1>4. CASE Token(d) \/ Again(d)
  <2>1. UNCHANGED <<time, table, born, jar>> /\ call'[c] = call[c] /\ issue'[c] = issue[c]
    BY <1>0, <1>4 DEF Token, Again, Goes, Work
  <2>2. promise'[call[c].tab].token \in {promise[call[c].tab].token, NoSid}
    <3>1. CASE UNCHANGED promise
      BY <3>1
    <3>2. CASE promise' = [promise EXCEPT ![call[d].tab].by = d]
      BY <1>0, <3>2 DEF Promises
    <3>3. CASE promise' = [promise EXCEPT ![call[d].tab] = NoPromise]
      BY <1>0, <3>3 DEF NoPromise
    <3> QED  BY <1>4, <3>1, <3>2, <3>3 DEF Token, Again
  <2> QED  BY <2>1, <2>2, LeftAlone
<1>5. ~(IssueFilters(d) \/ IssuePops(d) \/ IssueInserts(d) \/ SessionAnswers(d) \/ SessionFails(d))
  BY <1>1 DEF IssueFilters, IssuePops, IssueInserts, SessionAnswers, SessionFails, Settle
<1> QED  BY <1>2, <1>3, <1>4, <1>5 DEF CallStep, ServerStep, ClientStep

\* An undisturbed second attempt goes on to an accepted request.
LEMMA OwnStepRepairs ==
  ASSUME WebTypeOK, WebTypeOK', FetchesAreAwaited, AttemptsCount, NEW c \in Calls, CallStep(c),
         call[c].attempt = 2 => Repairs(c), call'[c].attempt = 2
  PROVE  Repairs(c)'
<1>0. /\ issue \in [Calls -> Works] /\ call \in [Calls -> Requests] /\ issue[c] \in Works
      /\ promise \in [Tabs -> Promises] /\ call[c].tab \in Tabs /\ call[c] \in Requests
      /\ time \in Nat /\ NoSid \notin Nat /\ TTL \in Nat
  <2>1. /\ issue \in [Calls -> Works] /\ call \in [Calls -> Requests]
        /\ promise \in [Tabs -> Promises] /\ time \in 0..MaxTime
    BY DEF WebTypeOK
  <2>2. issue[c] \in Works /\ call[c] \in Requests
    BY <2>1
  <2>3. call[c].tab \in Tabs
    BY <2>2 DEF Requests
  <2> QED  BY <2>1, <2>2, <2>3, Constants
<1>1. ASSUME issue[c].step # "none", UNCHANGED call, FreshIssue(c) => FreshIssue(c)'
      PROVE  Repairs(c)'
  BY <1>1 DEF FetchesAreAwaited, Repairs
<1>2. CASE IssueLooks(c)
  <2>1. UNCHANGED <<time, table, born, jar, call>> /\ issue[c].step = "arrived"
    BY <1>2 DEF IssueLooks, Reads, Table
  <2>2. \A s : Live(s)' = Live(s)
    BY <2>1 DEF Live
  <2>3. CASE Live(issue[c].sid) /\ issue'[c] = [issue[c] EXCEPT !.step = "reused"]
    <3>1. issue'[c].step = "reused" /\ issue'[c].sid = issue[c].sid
      BY <1>0, <2>3 DEF Works
    <3> QED  BY <1>1, <2>1, <2>2, <2>3, <3>1 DEF FreshIssue, Running
  <2>4. CASE issue'[c] = [NoWork EXCEPT !.step = "filter", !.now = time, !.copy = table]
    <3>1. issue'[c].step = "filter" /\ issue'[c].now = time /\ issue'[c].copy = table
      BY <2>4 DEF NoWork
    <3> QED  BY <1>1, <2>1, <3>1 DEF FreshIssue, Running
  <2> QED  BY <1>0, <1>2, <2>3, <2>4 DEF IssueLooks, Reads, Table, Work
<1>3. CASE IssueFilters(c)
  <2>1. UNCHANGED <<time, call>> /\ issue[c].step = "filter"
    BY <1>3 DEF IssueFilters, Table
  <2>2. FreshIssue(c) => /\ issue'[c].step = "evict" /\ issue'[c].now = time
    <3>1. FreshIssue(c) => table = issue[c].copy /\ issue[c].now = time
      BY <2>1 DEF FreshIssue, Running
    <3> QED  BY <1>0, <1>3, <3>1 DEF IssueFilters, NoWork
  <2> QED  BY <1>1, <2>1, <2>2 DEF FreshIssue
<1>4. CASE IssuePicks(c)
  <2>1. UNCHANGED <<time, table, call>> /\ issue[c].step = "evict"
    BY <1>4 DEF IssuePicks, Reads, Table
  <2>2. /\ issue'[c].now = issue[c].now
        /\ \/ issue'[c].step = "insert"
           \/ issue'[c].step = "pop" /\ issue'[c].sid \in table
    <3>1. CASE Reads(c, Proceeds(c))
      BY <1>0, <3>1 DEF Reads, Table, Work, Proceeds, Works
    <3>2. CASE \E s \in table : Reads(c, Picked(c, s))
      BY <1>0, <3>2 DEF Reads, Table, Work, Picked, Works
    <3> QED  BY <1>4, <3>1, <3>2 DEF IssuePicks
  <2> QED  BY <1>1, <2>1, <2>2 DEF FreshIssue, Running
<1>5. CASE IssuePops(c)
  <2>1. UNCHANGED <<time, call>> /\ issue[c].step = "pop"
    BY <1>5 DEF IssuePops, Table
  <2>2. FreshIssue(c) => issue'[c].step = "insert" /\ issue'[c].now = time
    <3>1. FreshIssue(c) => issue[c].sid \in table /\ issue[c].now = time
      BY <2>1 DEF FreshIssue, Running
    <3> QED  BY <1>0, <1>5, <3>1 DEF IssuePops, Table, Work, Proceeds, Works
  <2> QED  BY <1>1, <2>1, <2>2 DEF FreshIssue
<1>6. CASE IssueInserts(c)
  <2>1. UNCHANGED <<time, call>> /\ issue[c].step = "insert" /\ born' = Append(born, issue[c].now)
    BY <1>6 DEF IssueInserts, Table
  <2>2. issue'[c].step = "issued" /\ issue'[c].sid = Len(born) + 1 /\ Len(born) + 1 \in table'
    BY <1>0, <1>6 DEF IssueInserts, Table, Work, NoWork
  <2>3. born'[Len(born) + 1] = issue[c].now
    BY <2>1 DEF WebTypeOK
  <2>4. FreshIssue(c) => Live(issue[c].sid)'
    <3>1. FreshIssue(c) => issue[c].now = time
      BY <2>1 DEF FreshIssue, Running
    <3> QED  BY <1>0, <2>1, <2>2, <2>3, <3>1 DEF Live
  <2> QED  BY <1>1, <2>1, <2>2, <2>4 DEF FreshIssue, Running
<1>7. CASE Check(c)
  <2>1. call[c].step = "sent" /\ call[c].attempt = 2
    BY <1>0, <1>7 DEF Check, Goes, Ended, Unused, Requests
  <2>2. Live(call[c].cookie) /\ call[c].token = call[c].cookie
    BY <2>1 DEF Repairs
  <2>3. call'[c] = Ended("accepted", 0)
    BY <1>0, <1>7, <2>2 DEF Check, Goes, Accepts
  <2> QED  BY <2>3 DEF Ended, Unused
<1>8. CASE Token(c)
  <2>1. /\ call[c].step = "token" /\ call[c].attempt = 2 /\ UNCHANGED jar
        /\ promise[call[c].tab].token = NoSid /\ issue[c].step = "none"
    BY <1>0, <1>8 DEF Token, Goes, Requests, Repairs, FetchesAreAwaited
  <2>2. call'[c].step = "wait"
    BY <1>0, <1>8, <2>1 DEF Token, Goes, Requests
  <2>3. CASE promise[call[c].tab] = NoPromise
    <3>1. issue'[c] = [NoWork EXCEPT !.step = "arrived", !.sid = jar]
      BY <1>0, <1>8, <2>3 DEF Token, Work
    <3> QED  BY <2>1, <2>2, <3>1 DEF Repairs, FreshIssue, NoWork, Running
  <2>4. CASE promise[call[c].tab] # NoPromise
    <3>1. issue'[c] = issue[c]
      BY <1>8, <2>4 DEF Token
    <3> QED  BY <2>1, <2>2, <3>1 DEF Repairs, FreshIssue, Running
  <2> QED  BY <2>3, <2>4
<1>9. CASE SessionAnswers(c)
  <2>1. /\ issue[c].step \in {"reused", "issued"} /\ call[c].step = "wait" /\ call[c].on = c
        /\ UNCHANGED <<time, table, born>>
    BY <1>9 DEF SessionAnswers, Settle, FetchesAreAwaited
  <2>2. \A s : Live(s)' = Live(s)
    BY <2>1 DEF Live
  <2>3. Settle(c, issue[c].sid, [NoPromise EXCEPT !.token = issue[c].sid])
    BY <1>9 DEF SessionAnswers
  <2>4. /\ call'[c] = IF issue[c].sid = NoSid THEN Ended("failed", call[c].attempt)
                      ELSE [call[c] EXCEPT !.step = "ready", !.on = NoCall, !.token = issue[c].sid]
    BY <2>1, <2>3 DEF Settle
  <2>5. call[c].attempt = 2
    BY <1>0, <2>4 DEF Ended, Unused, Requests
  <2>6. FreshIssue(c)
    BY <2>1, <2>5 DEF Repairs
  <2>7. Live(issue[c].sid) /\ issue[c].sid # NoSid /\ jar' = issue[c].sid
    BY <1>0, <1>9, <2>1, <2>6 DEF SessionAnswers, FreshIssue, Live, WebTypeOK, Sids
  <2>8. call'[c].step = "ready" /\ call'[c].token = issue[c].sid
    BY <1>0, <2>4, <2>7 DEF Requests
  <2> QED  BY <2>2, <2>7, <2>8 DEF Repairs
<1>10. CASE SessionFails(c)
  <2>1. /\ issue[c].step = "error" /\ call[c].step = "wait" /\ call[c].on = c
    BY <1>10 DEF SessionFails, FetchesAreAwaited
  <2>2. call'[c] = Ended("failed", call[c].attempt)
    BY <1>10, <2>1 DEF SessionFails, Settle
  <2>3. call[c].attempt = 2
    BY <2>2 DEF Ended, Unused
  <2> QED  BY <2>1, <2>3 DEF Repairs, FreshIssue
<1>11. CASE Send(c)
  <2>1. UNCHANGED <<time, table, born, jar>> /\ call[c].step = "ready"
    BY <1>11 DEF Send
  <2>2. /\ call'[c].step = "sent" /\ call'[c].cookie = jar /\ call'[c].token = call[c].token
        /\ call[c].attempt = 2
    BY <1>0, <1>11 DEF Send, Goes, Requests
  <2>3. Live(jar)' = Live(jar)
    BY <2>1 DEF Live
  <2> QED  BY <2>1, <2>2, <2>3 DEF Repairs
<1>12. CASE Again(c)
  <2>1. call[c].step = "refused" /\ call[c].attempt # 2
    BY <1>12 DEF Again, Repairs
  <2>2. CASE call[c].attempt = 1
    <3>1. promise' = [promise EXCEPT ![call[c].tab] = NoPromise] /\ call'[c] = Retried(c)
      BY <1>0, <1>12, <2>2 DEF Again, Goes
    <3>2. call'[c].step = "token" /\ call'[c].tab = call[c].tab
      BY <3>1 DEF Retried, Unused
    <3> QED  BY <1>0, <3>1, <3>2 DEF Repairs, NoPromise
  <2>3. CASE call[c].attempt # 1
    BY <1>0, <2>1, <2>3 DEF Requests, AttemptsCount
  <2> QED  BY <2>2, <2>3
<1> QED  BY <1>2, <1>3, <1>4, <1>5, <1>6, <1>7, <1>8, <1>9, <1>10, <1>11, <1>12
         DEF CallStep, ServerStep, ClientStep

LEMMA AttemptsKept ==
  ASSUME WebTypeOK, AttemptsCount, WebNext
  PROVE  AttemptsCount'
<1>0. call \in [Calls -> Requests]
  BY DEF WebTypeOK
<1>1. ASSUME NEW c \in Calls, ServerStep(c) \/ ClientStep(c) \/ Begin(c), NEW d \in Calls
      PROVE  \/ call'[d].step \in {"idle", "accepted", "failed"}
             \/ call'[d].attempt # 0 \/ call'[d] = call[d]
  <2>1. CASE UNCHANGED call
    BY <2>1
  <2>2. CASE Check(c) \/ Begin(c) \/ Again(c)
    <3>1. call[c] \in Requests /\ (d # c => call'[d] = call[d])
      BY <1>0, <2>2 DEF Check, Begin, Again, Goes
    <3>2. CASE Check(c)
      <4>1. call[c].attempt # 0
        BY <3>2 DEF Check, AttemptsCount
      <4>2. \/ call'[c] = Ended("accepted", 0)
            \/ call'[c] = [call[c] EXCEPT !.step = "refused"]
        BY <1>0, <3>2 DEF Check, Goes
      <4>3. call'[c].step = "accepted" \/ call'[c].attempt = call[c].attempt
        BY <3>1, <4>2 DEF Ended, Unused, Requests
      <4> QED  BY <3>1, <4>1, <4>3
    <3>3. CASE Begin(c)
      <4>1. call'[c].attempt = 1
        BY <1>0, <3>3 DEF Begin, Goes, Unused
      <4> QED  BY <3>1, <4>1
    <3>4. CASE Again(c)
      <4>1. call'[c] = Retried(c) \/ call'[c] = Ended("failed", 2)
        BY <1>0, <3>4 DEF Again, Goes
      <4>2. call'[c].attempt = 2
        BY <4>1 DEF Retried, Ended, Unused
      <4> QED  BY <3>1, <4>2
    <3> QED  BY <2>2, <3>2, <3>3, <3>4
  <2>3. CASE Token(c) \/ Send(c)
    <3>1. call[c].attempt # 0 /\ (d # c => call'[d] = call[d])
      BY <1>0, <2>3 DEF Token, Send, Goes, AttemptsCount
    <3>2. call'[c].attempt = call[c].attempt
      <4>1. call[c] \in Requests
        BY <1>0
      <4>2. CASE Send(c)
        BY <1>0, <4>1, <4>2 DEF Send, Goes, Requests
      <4>3. CASE Token(c)
        <5>1. \/ call'[c] = [call[c] EXCEPT !.step = "ready", !.token = promise[call[c].tab].token]
              \/ \E o : call'[c] = [call[c] EXCEPT !.step = "wait", !.on = o]
          BY <1>0, <4>3 DEF Token, Goes
        <5> QED  BY <4>1, <5>1 DEF Requests
      <4> QED  BY <2>3, <4>2, <4>3
    <3> QED  BY <3>1, <3>2
  <2>4. CASE SessionAnswers(c) \/ SessionFails(c)
    <3>1. PICK token, kept : Settle(c, token, kept)
      BY <2>4 DEF SessionAnswers, SessionFails
    <3>2. CASE call[d].step # "wait" \/ call[d].on # c
      BY <3>1, <3>2 DEF Settle
    <3>3. CASE call[d].step = "wait" /\ call[d].on = c /\ token = NoSid
      BY <3>1, <3>3 DEF Settle, Ended, Unused
    <3>4. CASE call[d].step = "wait" /\ call[d].on = c /\ token # NoSid
      BY <1>0, <3>1, <3>4 DEF Settle, AttemptsCount, Requests
    <3> QED  BY <3>2, <3>3, <3>4
  <2> QED  BY <1>1, <2>1, <2>2, <2>3, <2>4
           DEF ServerStep, ClientStep, IssueLooks, IssueFilters, IssuePicks, IssuePops,
               IssueInserts, Reads, Table
<1>2. CASE Tick \/ CookieLost \/ ServerRestart
  BY <1>0, <1>2 DEF Tick, CookieLost, ServerRestart, AttemptsCount, Ended, Unused
<1> QED  BY <1>1, <1>2 DEF WebNext, CallStep, AttemptsCount

\* The history of disturbances forgets a call only when it is accepted or begins.
LEMMA DisturbedStays ==
  ASSUME WebTypeOK, NEW d \in Calls, CallStep(d) \/ Begin(d)
  PROVE  /\ disturbed \ {d} \subseteq disturbed'
         /\ CallStep(d) => \/ disturbed \subseteq disturbed'
                           \/ call'[d].attempt # 2
<1>1. CASE Begin(d) \/ Token(d) \/ Send(d) \/ Again(d) \/ IssueLooks(d) \/ IssuePicks(d)
  <2>1. CASE UNCHANGED disturbed
    BY <2>1
  <2>2. CASE Begin(d)
    <3>1. call'[d].attempt = 1 /\ disturbed' = disturbed \ {d}
      BY <2>2 DEF Begin, Goes, Unused, WebTypeOK
    <3> QED  BY <3>1
  <2> QED  BY <1>1, <2>1, <2>2 DEF Token, Send, Again, IssueLooks, IssuePicks, Reads, history
<1>2. CASE Check(d)
  <2>1. CASE UNCHANGED disturbed
    BY <2>1
  <2>2. CASE disturbed' = disturbed \ {d} /\ Goes(d, Ended("accepted", 0))
    BY <2>2 DEF Goes, Ended, Unused, WebTypeOK
  <2> QED  BY <1>2, <2>1, <2>2 DEF Check
<1>3. CASE \/ IssueFilters(d) \/ IssuePops(d) \/ IssueInserts(d)
           \/ SessionAnswers(d) \/ SessionFails(d)
  BY <1>3 DEF IssueFilters, IssuePops, IssueInserts, SessionAnswers, SessionFails, Settle, Disturbs
<1> QED  BY <1>1, <1>2, <1>3 DEF CallStep, ServerStep, ClientStep

LEMMA OthersKeepAttempt ==
  ASSUME WebTypeOK, NEW d \in Calls, CallStep(d) \/ Begin(d), NEW c \in Calls \ {d}
  PROVE  call'[c].attempt = call[c].attempt
<1>0. call \in [Calls -> Requests] /\ call[c] \in Requests
  BY DEF WebTypeOK
<1>1. CASE SessionAnswers(d) \/ SessionFails(d)
  <2>1. PICK token, kept : Settle(d, token, kept)
    BY <1>1 DEF SessionAnswers, SessionFails
  <2>2. \/ call'[c] = call[c] \/ call'[c] = Ended("failed", call[c].attempt)
        \/ call'[c] = [call[c] EXCEPT !.step = "ready", !.on = NoCall, !.token = token]
    BY <2>1 DEF Settle
  <2> QED  BY <1>0, <2>2 DEF Ended, Unused, Requests
<1>2. CASE Token(d) \/ Send(d) \/ Again(d) \/ Check(d) \/ Begin(d)
  BY <1>0, <1>2 DEF Token, Send, Again, Check, Begin, Goes
<1>3. CASE IssueLooks(d) \/ IssueFilters(d) \/ IssuePicks(d) \/ IssuePops(d) \/ IssueInserts(d)
  BY <1>3 DEF IssueLooks, IssueFilters, IssuePicks, IssuePops, IssueInserts, Reads, Table
<1> QED  BY <1>1, <1>2, <1>3 DEF CallStep, ServerStep, ClientStep

LEMMA RetryKept ==
  ASSUME WebTypeOK, WebTypeOK', RetryInv, WebNext
  PROVE  RetryInv'
<1>1. FetchesAreAwaited' /\ AttemptsCount'
  BY FetchesKept, FetchesOutlive, AttemptsKept DEF WebNext, RetryInv
<1>2. ASSUME NEW c \in Calls, call'[c].attempt = 2, c \notin disturbed' PROVE Repairs(c)'
  <2>0. call \in [Calls -> Requests] /\ call[c] \in Requests
    BY DEF WebTypeOK
  <2>1. CASE \E d \in Calls \ {c} : CallStep(d) \/ Begin(d)
    <3>1. PICK d \in Calls \ {c} : CallStep(d) \/ Begin(d)
      BY <2>1
    <3>2. c \notin disturbed
      BY <1>2, <3>1, DisturbedStays
    <3>3. call[c].attempt = 2
      BY <1>2, <3>1, OthersKeepAttempt DEF RetryInv
    <3> QED  BY <1>2, <3>1, <3>2, <3>3, OthersDisturb DEF RetryInv
  <2>2. CASE CallStep(c)
    <3>1. c \notin disturbed
      BY <1>2, <2>2, DisturbedStays
    <3> QED  BY <1>2, <2>2, <3>1, OwnStepRepairs DEF RetryInv
  <2>3. CASE Begin(c)
    <3>1. call'[c].attempt = 1
      BY <2>0, <2>3 DEF Begin, Goes, Unused
    <3> QED  BY <1>2, <3>1
  <2>4. CASE Tick
    BY <1>2, <2>4 DEF Tick
  <2>6. CASE CookieLost
    <3>1. call' = call /\ disturbed' = disturbed /\ call[c].step \in AtRest
      BY <2>6 DEF CookieLost, history
    <3> QED  BY <1>2, <3>1 DEF RetryInv, Repairs, AtRest
  <2>5. CASE ServerRestart
    <3>1. call[c].attempt = 2
      BY <1>2, <2>5 DEF ServerRestart, Ended, Unused
    <3> QED  BY <1>2, <2>5, <3>1 DEF ServerRestart
  <2> QED  BY <2>1, <2>2, <2>3, <2>4, <2>5, <2>6 DEF WebNext
<1> QED  BY <1>1, <1>2 DEF RetryInv

----------------------------------------------------------------------------
LEMMA InvInit == WebInit => WebInv
<1> SUFFICES ASSUME WebInit PROVE WebInv
  OBVIOUS
<1>1. Len(born) = 0 /\ table = {} /\ \A c \in Calls : issue[c] = NoWork /\ call[c] = Unused
  BY DEF WebInit
<1>2. TableIsBounded
  <2>1. Inserts = {}
    BY <1>1 DEF Inserts, NoWork
  <2>2. Inserting = 0 /\ Cardinality(table) = 0
    BY <1>1, <2>1, FS_EmptySet DEF Inserting
  <2> QED  BY <2>2, Constants DEF TableIsBounded, WebInit
<1>3. StoreInv
  BY <1>1, <1>2 DEF StoreInv, Known, PickedIsOld, CopiesKeep, SessionsAreKept, WebInit, NoWork
<1>4. RetryInv
  BY <1>1 DEF RetryInv, FetchesAreAwaited, AttemptsCount, NoWork, Unused
<1> QED  BY <1>3, <1>4, TypeInit DEF WebInv

LEMMA InvKept == WebInv /\ [WebNext]_webVars => WebInv'
<1> SUFFICES ASSUME WebInv, [WebNext]_webVars PROVE WebInv'
  OBVIOUS
<1>1. CASE UNCHANGED webVars
  <2>1. WebTypeOK' /\ StoreInv'
    BY <1>1 DEF webVars, history, WebInv, WebTypeOK, StoreInv, Known, PickedIsOld, CopiesKeep, SessionsAreKept,
                TableIsBounded, Excused, Inserting, Inserts
  <2>2. RetryInv'
    BY <1>1 DEF webVars, history, WebInv, RetryInv, FetchesAreAwaited, AttemptsCount, Repairs, FreshIssue, Live
  <2> QED  BY <2>1, <2>2 DEF WebInv
<1>2. CASE WebNext
  <2>1. WebTypeOK'
    BY <1>2, ServerTyped, ClientTyped, ClockTyped DEF WebInv, WebNext, CallStep
  <2>2. StoreInv'
    <3>1. WebTypeOK /\ StoreInv /\ FetchesAreAwaited
      BY DEF WebInv, RetryInv
    <3>2. ASSUME NEW c \in Calls, ServerStep(c) PROVE StoreInv'
      BY <2>1, <3>1, <3>2, IssueKeepsStore, OthersKeepStore DEF ServerStep
    <3>3. ASSUME NEW c \in Calls, ClientStep(c) \/ Begin(c) PROVE StoreInv'
      BY <2>1, <3>1, <3>3, OthersKeepStore
    <3>4. CASE Tick \/ CookieLost
      <4>1. UNCHANGED <<table, born, raced, restored, issue>> /\ time' >= time
        BY <3>1, <3>4, Constants DEF Tick, CookieLost, WebTypeOK, history
      <4> QED  BY <2>1, <3>1, <4>1, QuietStore
    <3>5. CASE ServerRestart
      BY <2>1, <3>1, <3>5, RestartKeepsStore
    <3> QED  BY <1>2, <3>2, <3>3, <3>4, <3>5 DEF WebNext, CallStep
  <2>3. RetryInv'
    BY <1>2, <2>1, RetryKept DEF WebInv
  <2> QED  BY <2>1, <2>2, <2>3 DEF WebInv
<1> QED  BY <1>1, <1>2

\* A session lasts as long as it may, the table passes its limit only by the
\* issues that run at once and by what they put back, and one retry repairs a lost session
\* (SessionStore.issue, resetSession).
THEOREM SessionsHeld == WebSpec => []SessionsHold
<1>1. WebInv => SessionsHold
  <2>1. WebInv => RetryIsEnough
    BY DEF WebInv, RetryInv, Repairs, RetryIsEnough
  <2> QED  BY <2>1 DEF WebInv, StoreInv, SessionsHold
<1> QED  BY InvInit, InvKept, <1>1, PTL DEF WebSpec
=============================================================================
