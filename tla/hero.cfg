\* One login per account at a time, in both environments.
SPECIFICATION BothSpec
CONSTANTS
  a1 = a1
  g1 = g1
  Trans = {t1, t2}
  Accounts = {a1}
  Owner <- OneOwner
  Gates = {g1}
  HomeGate <- OneGate
  Conns = {c1}
  NoTran = NoTran
  NoGate = NoGate
  NoConn = NoConn
  Serial = TRUE
  Reuse = FALSE
  SavesFirst = TRUE
  DbLoss = TRUE
  DbFails = FALSE
  MaxQueue = 2
  MaxProgress = 3
INVARIANTS TypeOK SessionAlive HeldHeroSafe NotBehindRow
PROPERTIES HeroArrives DetachedGoes
