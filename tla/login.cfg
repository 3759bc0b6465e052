\* Two gate servers on connections that hold, with and without repeated ids, or
\* one whose connection may break.
SPECIFICATION AllSpec
CONSTANTS
  a1 = a1
  s1 = s1
  g1 = g1
  Sessions = {s1, s2}
  Conns = {c1, c2}
  Gates = {g1, g2}
  Accounts = {a1}
  Trans = {t1, t2}
  FewIds = {t1}
  Owner <- OneOwner
  NoTran = NoTran
  NoGate = NoGate
  NoConn = NoConn
  NoSession = NoSession
  LinkLoss = FALSE
  Reissue = TRUE
  MaxTasks = 2
  MaxQueue = 2
INVARIANT GatesAlive
PROPERTIES KeepsOrder LoginAnswered
