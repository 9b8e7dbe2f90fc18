---------------------------- MODULE WebSessions ----------------------------
(***************************************************************************)
(* The browser's session with the local server: SessionStore and its check *)
(* in security/web.py, GET /api/session in api/system.py, and the client   *)
(* in frontend/src/api/client.ts, which keeps one token per tab and tries  *)
(* a refused request once more.  GET /api/session runs in the thread pool, *)
(* and SessionStore has no lock: issues of several requests interleave at  *)
(* every access to the table.                                              *)
(***************************************************************************)
EXTENDS Integers, FiniteSets, Sequences

CONSTANTS Tabs, Calls,         \* tabs of a browser, and what it can have under way
          Writes,              \* the mutating ones
          NoSid, NoCall,
          TTL, MaxSessions,    \* SESSION_TTL_S, _MAX_SESSIONS
          MaxSids, MaxTime     \* bounds; a restart takes time

ASSUME WebConstants == /\ NoSid \notin Nat /\ NoCall \notin Calls /\ Writes \subseteq Calls
                       /\ IsFiniteSet(Calls) /\ Tabs # {}
                       /\ {TTL, MaxSessions} \subseteq Nat \ {0}
                       /\ {MaxSids, MaxTime} \subseteq Nat

\* A session is known by a number, its id and its CSRF token together; the
\* numbers grow, as the ids are random and never the same, so that the order of
\* the numbers is the order in which the table took them in.
Sids == 1..MaxSids
MaybeSid == Sids \cup {NoSid}

VARIABLES time,
          table,      \* _sessions: the sessions that it holds
          born,       \* when each session was issued, as its entry says
          issue,      \* GET /api/session for a call: what its thread knows
          jar,        \* the cookie of the browser
          lost,       \* whether the browser dropped it once
          promise,    \* csrfPromise of each tab: the call that fetches, or its token
          call,       \* the requests
          restored,   \* history: how many sessions an issue put back that another took out
          raced,      \* history: inserted while another issue was copying the table
          disturbed   \* history: second attempts that met something else

webVars == <<time, table, born, issue, jar, lost, promise, call, restored, raced, disturbed>>
history == <<restored, raced, disturbed>>

NoWork == [step |-> "none", sid |-> NoSid, now |-> 0, copy |-> {}, same |-> TRUE]
Works == [step : {"none", "arrived", "filter", "evict", "pop", "insert", "reused",
                  "issued", "error"},
          sid : MaybeSid, now : 0..MaxTime, copy : SUBSET Sids, same : BOOLEAN]
NoPromise == [by |-> NoCall, token |-> NoSid]
Promises == [by : Calls \cup {NoCall}, token : MaybeSid]
AtRest == {"idle", "accepted", "failed"}
AnyTab == CHOOSE t \in Tabs : TRUE
Unused == [step |-> "idle", tab |-> AnyTab, attempt |-> 0,
           on |-> NoCall, token |-> NoSid, cookie |-> NoSid]
Requests == [step : {"idle", "token", "wait", "ready", "sent", "refused", "accepted",
                     "failed"},
             tab : Tabs, attempt : 0..2,
             on : Calls \cup {NoCall}, token : MaybeSid, cookie : MaybeSid]

\* The types of the session table, the requests and the shared fetches (web.py).
WebTypeOK ==
  /\ time \in 0..MaxTime
  /\ table \subseteq Sids /\ issue \in [Calls -> Works] /\ jar \in MaybeSid
  /\ lost \in BOOLEAN
  /\ promise \in [Tabs -> Promises] /\ call \in [Calls -> Requests]
  /\ born \in Seq(0..MaxTime) /\ Len(born) <= MaxSids
  /\ restored \in Nat /\ raced \subseteq Sids /\ disturbed \subseteq Calls

WebInit ==
  /\ time = 0 /\ table = {} /\ jar = NoSid /\ lost = FALSE
  /\ issue = [c \in Calls |-> NoWork] /\ promise = [t \in Tabs |-> NoPromise]
  /\ call = [c \in Calls |-> Unused]
  /\ born = <<>> /\ restored = 0 /\ raced = {} /\ disturbed = {}

----------------------------------------------------------------------------
(* SessionStore.                                                           *)

Live(sid) == sid \in table /\ time - born[sid] <= TTL

\* Mutant: a session ends an instant before issue() stops handing it out.
AcceptsShorter(sid) == sid \in table /\ time - born[sid] < TTL

\* csrf_for: a session and its token, or nothing.
Accepts(sid) == Live(sid)

Work(c, w) == issue' = [issue EXCEPT ![c] = w]
Table(c, w, t) == /\ Work(c, w) /\ table' = t
                  /\ UNCHANGED <<time, jar, lost, promise, call>>
\* A step that only reads the table: the thread goes on to w.
Reads(c, w) == Table(c, w, table) /\ UNCHANGED <<born, history>>

\* What meets the second attempts of other calls.
Disturbs(c) == disturbed' = disturbed \cup {d \in Calls \ {c} : call[d].attempt = 2}

\* issue: a live session of this browser is handed out again.  now is read
\* here and used below.
IssueLooks(c) ==
  /\ issue[c].step = "arrived"
  /\ \/ Live(issue[c].sid) /\ Reads(c, [issue[c] EXCEPT !.step = "reused"])
     \/ /\ ~Live(issue[c].sid)
        /\ Reads(c, [NoWork EXCEPT !.step = "filter", !.now = time, !.copy = table])

\* The filtered copy replaces the table.  A table that changed under the
\* comprehension is an error of the interpreter, unless the change came after
\* the last entry was read; one that another issue replaced stays as it was.
IssueFilters(c) ==
  /\ issue[c].step = "filter"
  /\ \/ /\ table' = {s \in issue[c].copy : issue[c].now - born[s] < TTL}
        /\ restored' = restored + Cardinality(table' \ table)
        /\ issue' = [d \in Calls |->
                       IF d = c THEN [NoWork EXCEPT !.step = "evict", !.now = issue[c].now]
                       ELSE [issue[d] EXCEPT !.same = issue[d].step # "filter"]]
        /\ UNCHANGED <<time, jar, lost, promise, call>>
     \/ /\ issue[c].same /\ table # issue[c].copy
        /\ Table(c, [NoWork EXCEPT !.step = "error"], table) /\ UNCHANGED restored
  /\ Disturbs(c)
  /\ UNCHANGED <<born, raced>>

Picked(c, s) == [issue[c] EXCEPT !.step = "pop", !.sid = s]
Proceeds(c) == [issue[c] EXCEPT !.step = "insert", !.sid = NoSid]

Full == Cardinality(table) >= MaxSessions
Oldest(s) == \A r \in table : s <= r

\* Mutant: the youngest is picked.
PicksLast(c) ==
  /\ issue[c].step = "evict"
  /\ \/ ~Full /\ Reads(c, Proceeds(c))
     \/ Full /\ \E s \in table : (\A r \in table : s >= r) /\ Reads(c, Picked(c, s))

\* Mutant: a table at the limit is not full.
PicksLate(c) ==
  /\ issue[c].step = "evict"
  /\ \/ Cardinality(table) <= MaxSessions /\ Reads(c, Proceeds(c))
     \/ Cardinality(table) > MaxSessions /\ \E s \in table : Oldest(s) /\ Reads(c, Picked(c, s))

\* At the limit the oldest goes, also one that is live: it is picked here ...
IssuePicks(c) ==
  /\ issue[c].step = "evict"
  /\ \/ ~Full /\ Reads(c, Proceeds(c))
     \/ Full /\ \E s \in table : Oldest(s) /\ Reads(c, Picked(c, s))

\* ... and taken out here; a KeyError when another thread took the same one.
IssuePops(c) ==
  /\ issue[c].step = "pop"
  /\ IF issue[c].sid \in table THEN Table(c, Proceeds(c), table \ {issue[c].sid})
     ELSE Table(c, [NoWork EXCEPT !.step = "error"], table)
  /\ Disturbs(c)
  /\ UNCHANGED <<born, restored, raced>>

IssueInserts(c) ==
  /\ issue[c].step = "insert" /\ Len(born) < MaxSids
  /\ LET sid == Len(born) + 1
     IN /\ Table(c, [NoWork EXCEPT !.step = "issued", !.sid = sid],
                 table \cup {sid})
        /\ born' = Append(born, issue[c].now)
        /\ raced' = IF \E d \in Calls : issue[d].step = "filter" THEN raced \cup {sid}
                    ELSE raced
  /\ Disturbs(c) /\ UNCHANGED restored

----------------------------------------------------------------------------
(* The client.                                                             *)

Goes(c, r) == call' = [call EXCEPT ![c] = r]
Ended(step, attempt) == [Unused EXCEPT !.step = step, !.attempt = attempt]

Begin(c) ==
  /\ call[c].step \in AtRest
  /\ \E tab \in Tabs : Goes(c, [Unused EXCEPT !.step = "token", !.tab = tab, !.attempt = 1])
  /\ disturbed' = disturbed \ {c}
  /\ UNCHANGED <<time, table, issue, jar, lost, promise, born, restored, raced>>

\* csrfToken(): the tab's token or promise, or a new one.
Token(c) ==
  LET p == promise[call[c].tab]
  IN /\ call[c].step = "token"
     /\ Goes(c, IF p.token # NoSid THEN [call[c] EXCEPT !.step = "ready", !.token = p.token]
                ELSE [call[c] EXCEPT !.step = "wait", !.on = IF p = NoPromise THEN c ELSE p.by])
     /\ IF p = NoPromise
        THEN /\ promise' = [promise EXCEPT ![call[c].tab].by = c]
             /\ Work(c, [NoWork EXCEPT !.step = "arrived", !.sid = jar])
        ELSE UNCHANGED <<issue, promise>>
     /\ UNCHANGED <<time, table, jar, lost, born, history>>

\* The promise of call c's fetch ends with a token, or with none.
Settle(c, token, kept) ==
  /\ call' = [d \in Calls |->
       IF call[d].step # "wait" \/ call[d].on # c THEN call[d]
       ELSE IF token = NoSid THEN Ended("failed", call[d].attempt)
       ELSE [call[d] EXCEPT !.step = "ready", !.on = NoCall, !.token = token]]
  /\ promise' = [t \in Tabs |-> IF promise[t].by = c THEN kept ELSE promise[t]]
  /\ Work(c, NoWork) /\ Disturbs(c)
  /\ UNCHANGED <<time, table, lost, born, restored, raced>>

\* The answer of GET /api/session: a new session comes with its cookie.
SessionAnswers(c) ==
  /\ issue[c].step \in {"reused", "issued"}
  /\ jar' = IF issue[c].step = "issued" THEN issue[c].sid ELSE jar
  /\ Settle(c, issue[c].sid, [NoPromise EXCEPT !.token = issue[c].sid])

\* Mutant: a failed promise stays the tab's promise.
SessionSticks(c) ==
  /\ issue[c].step = "error"
  /\ Settle(c, NoSid, [NoPromise EXCEPT !.by = c]) /\ UNCHANGED jar

\* An error is not kept, so that the next call fetches again.
SessionFails(c) ==
  /\ issue[c].step = "error"
  /\ Settle(c, NoSid, NoPromise) /\ UNCHANGED jar

\* The request itself, with the cookie of this moment.
Send(c) ==
  /\ call[c].step = "ready"
  /\ Goes(c, [call[c] EXCEPT !.step = "sent", !.cookie = jar])
  /\ UNCHANGED <<time, table, issue, jar, lost, promise, born, history>>

\* local_security: a session for the cookie, and for a write its token.
Check(c) ==
  /\ call[c].step = "sent"
  /\ LET ok == /\ Accepts(call[c].cookie)
               /\ c \in Writes => call[c].token = call[c].cookie
     IN /\ Goes(c, IF ok THEN Ended("accepted", 0) ELSE [call[c] EXCEPT !.step = "refused"])
        /\ disturbed' = IF ok THEN disturbed \ {c} ELSE disturbed
  /\ UNCHANGED <<time, table, issue, jar, lost, promise, born, restored, raced>>

Retried(c) == [Unused EXCEPT !.step = "token", !.tab = call[c].tab, !.attempt = 2]

\* Mutant: again and again.
AgainAndAgain(c) ==
  /\ call[c].step = "refused"
  /\ promise' = [promise EXCEPT ![call[c].tab] = NoPromise]
  /\ Goes(c, [Retried(c) EXCEPT !.attempt = call[c].attempt + 1])
  /\ UNCHANGED <<time, table, issue, jar, lost, born, history>>

\* session_required or csrf_failed: once more, with a session fetched anew.
Again(c) ==
  /\ call[c].step = "refused"
  /\ IF call[c].attempt = 1
     THEN /\ promise' = [promise EXCEPT ![call[c].tab] = NoPromise]
          /\ Goes(c, Retried(c))
     ELSE Goes(c, Ended("failed", 2)) /\ UNCHANGED promise
  /\ UNCHANGED <<time, table, issue, jar, lost, born, history>>

----------------------------------------------------------------------------
\* A lost cookie leaves less of the time.
Passes == time + (IF lost THEN 1 ELSE 0) < MaxTime

Tick == /\ Passes /\ time' = time + 1
        /\ disturbed' = disturbed \cup {d \in Calls : call[d].attempt = 2}
        /\ UNCHANGED <<table, issue, jar, lost, promise, call, born, restored, raced>>

\* The browser drops its cookies, once and between two requests; its tabs keep
\* their tokens.
CookieLost ==
  /\ \A c \in Calls : call[c].step \in AtRest
  /\ jar # NoSid /\ jar' = NoSid
  /\ ~lost /\ Passes /\ lost' = TRUE
  /\ UNCHANGED <<time, table, born, issue, promise, call, history>>

\* The server is started again: the sessions are gone, the browser's cookie and
\* tokens are not, requests under way end in a network error.
ServerRestart ==
  /\ Passes /\ time' = time + 1
  /\ table' = {}
  /\ issue' = [c \in Calls |-> IF issue[c].step = "none" THEN NoWork
                                ELSE [NoWork EXCEPT !.step = "error"]]
  /\ call' = [c \in Calls |-> IF call[c].step = "sent" THEN Ended("failed", call[c].attempt)
                               ELSE call[c]]
  /\ disturbed' = disturbed \cup {d \in Calls : call[d].attempt = 2}
  /\ raced' = {s \in Sids : s <= Len(born)}
  /\ UNCHANGED <<jar, lost, promise, born, restored>>

ServerStep(c) == \/ IssueLooks(c) \/ IssueFilters(c) \/ IssuePicks(c) \/ IssuePops(c)
                 \/ IssueInserts(c) \/ Check(c)
ClientStep(c) == \/ Token(c) \/ SessionAnswers(c) \/ SessionFails(c) \/ Send(c) \/ Again(c)
CallStep(c) == ServerStep(c) \/ ClientStep(c)

WebNext == \/ \E c \in Calls : CallStep(c) \/ Begin(c)
           \/ Tick \/ CookieLost \/ ServerRestart

WebSpec == WebInit /\ [][WebNext]_webVars

\* Server threads and the event loop of the browser go on.
FairWebSpec == /\ WebSpec
               /\ \A c \in Calls : WF_webVars(CallStep(c))

----------------------------------------------------------------------------
\* One retry is enough: a request is refused for good only when something else
\* (the clock, a restart, an issue for another request) came into its second
\* attempt.  Stale tokens, an expired, evicted or lost session and a cookie of
\* another tab are all repaired by it.
RetryIsEnough ==
  \A c \in Calls : call[c].step = "failed" /\ call[c].attempt = 2 => c \in disturbed

Inserts == {c \in Calls : issue[c].step = "insert"}
Inserting == Cardinality(Inserts)

\* A session may be missing: it was inserted into a table somebody was just
\* copying, it is past its time, or as many younger ones pushed it out.
Excused(s) == \/ s \in raced
              \/ time - born[s] >= TTL
              \/ Len(born) - s + Inserting >= MaxSessions

\* A session that was issued works as long as nothing excuses that it is gone.
SessionsAreKept == \A s \in 1..Len(born) : s \in table \/ Excused(s)

\* The limit of sessions is passed by the issues that run at once, and by the
\* sessions that an issue put back with its copy of the table.
TableIsBounded ==
  Cardinality(table) + Inserting < MaxSessions + Cardinality(Calls) + restored

\* Nothing waits for a promise that will not come: every request is answered,
\* also when the fetch it shares with another request fails or the server is
\* restarted under it.
CallsEnd == \A c \in Calls :
              call[c].step = "token" ~> \/ call[c].step \in {"accepted", "failed"}
                                       \/ Len(born) = MaxSids

----------------------------------------------------------------------------
\* A session lasts as long as it may, its table stays within its limit, and a
\* tab that lost it gets another with one retry (SessionStore, resetSession).
SessionsHold == WebTypeOK /\ RetryIsEnough /\ SessionsAreKept /\ TableIsBounded
=============================================================================
