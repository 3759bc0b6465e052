SPECIFICATION MCSpec
CONSTANTS
  Sessions = {s1, s2}
  MaxConns = 3
  MaxMessages = 1
  s_io_once_listen_session_count = 1
  IoPrompt = FALSE
  WritesDone = FALSE
  BadPackets = {"length", "check_sum"}
  o1 = o1
  Objects = {o1, o2}
  Types = {t1}
  Times = {1, 3}
  Diffs = {1, 2}
  MaxEvents = 3
  MaxShared = 2
INVARIANT UsedOnce
INVARIANT RefsExact
PROPERTY OneConnection
PROPERTY CalledWhenDue
