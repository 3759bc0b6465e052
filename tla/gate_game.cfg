\* A gate server and a game server; the account logs in twice.
SPECIFICATION GameSpec
CONSTANTS
  t1 = t1
  t2 = t2
  a1 = a1
  Trans = {t1, t2}
  Accounts = {a1}
  Sessions = {s1, s2}
  Games = {g1}
  Owner <- OneOwner
  NoTran = NoTran
  NoAccount = NoAccount
  NoSession = NoSession
  NoGame = NoGame
  Reissue = FALSE
  LateLogin = FALSE
  MaxTimers = 1
  MaxChan = 2
  MaxLate = 1
  Spare = {o1}
VIEW CoreView
SYMMETRY GameSymmetry
INVARIANTS NoOrphan
PROPERTIES KeepsPromise
