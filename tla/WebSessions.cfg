SPECIFICATION FairWebSpec
CONSTANTS
  Tabs = {t1, t2}
  Calls = {c1, c2}
  Writes = {c1}
  NoSid = NoSid
  NoCall = NoCall
  TTL = 1
  MaxSessions = 2
  MaxSids = 3
  MaxTime = 2
CHECK_DEADLOCK FALSE
INVARIANTS
  SessionsHold
PROPERTIES
  CallsEnd
