\* Two gate servers, one loses its connection while its player logs in again.
SPECIFICATION Spec
CONSTANTS
  a1 = a1
  Sessions = {s1}
  Conns = {c1, c2, c3}
  Gates = {g1, g2}
  Accounts = {a1}
  Trans = {t1, t2}
  Owner <- OneOwner
  NoTran = NoTran
  NoGate = NoGate
  NoConn = NoConn
  NoSession = NoSession
  LinkLoss = TRUE
  Reissue = FALSE
  MaxTasks = 1
SYMMETRY PoolSymmetry
INVARIANTS AssertHolds
