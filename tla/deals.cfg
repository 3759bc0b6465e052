SPECIFICATION MCSpec
CONSTANTS
  Accounts = {a1}
  Orders = {o1, o2}
  Sold = {o1, o2}
  NoAccount = NoAccount
  NoOrder = NoOrder
  FinishOnce = TRUE
  AnswerLoss = TRUE
  Patient = FALSE
  SavesFirst = TRUE
  SavedAtDestroy = TRUE
  Crash = FALSE
  MaxTasks = 1
  MaxQueue = 3
  MaxCredit = 2
  FewOrders = {o1}
INVARIANT NoUnpaidCredit
PROPERTY KeepsPayment
PROPERTY Settled
