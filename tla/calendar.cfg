SPECIFICATION MCSpec
VIEW MCView
CONSTANTS
  a1 = a1
  a2 = a2
  Accounts = {a1, a2, a3}
  Scores = {1, 2}
  _daily_max_rank_size = 2
  _max_daily_progress = 1
  PaidRanks = 2
  MaxResets = 1
  Batch = 2
  MaxDay = 3
  Promos = {1, 2}
  Grids = {0, 1}
  DayLength = 2
  WeekLength = 3
  TimerRange = 9
  Late = FALSE
  Configs <- PairConfigs
  Unset = {0, 7}
  MaxNow = 8
INVARIANT RanksAgree
INVARIANT PrizeOnce
INVARIANT InPeriod
INVARIANT Effects
