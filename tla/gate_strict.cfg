\* Fresh ids, one LoginGame per connection, two game servers.
SPECIFICATION Spec
CONSTANTS
  t1 = t1
  t2 = t2
  a1 = a1
  Trans = {t1, t2}
  Accounts = {a1}
  Sessions = {s1, s2}
  Games = {g1, g2}
  Owner <- OneOwner
  NoTran = NoTran
  NoAccount = NoAccount
  NoSession = NoSession
  NoGame = NoGame
  Reissue = FALSE
  LateLogin = FALSE
  MaxTimers = 2
SYMMETRY SessionSymmetry
INVARIANTS EntriesExpire OnlinesOwn Routable
PROPERTIES LeaveIsTold
