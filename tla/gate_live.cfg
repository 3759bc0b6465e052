\* Liveness for both kinds of clients, and for the gate server's own connections.
SPECIFICATION LiveSpec
CONSTANTS
  t1 = t1
  t2 = t2
  a1 = a1
  Trans = {t1}
  Accounts = {a1}
  Sessions = {s1, s2}
  Games = {g1}
  Owner <- OneOwner
  NoTran = NoTran
  NoAccount = NoAccount
  NoSession = NoSession
  NoGame = NoGame
  Reissue = FALSE
  LateLogin = FALSE
  MaxTimers = 2
  MaxBreaks = 2
  MaxSends = 2
INVARIANT WaitNotOnline
PROPERTIES GhostsUnregistered RefusedIsClosed ClientReturns
