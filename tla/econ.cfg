SPECIFICATION MCSpec
CONSTANTS
  Tasks = {"t1", "t3"}
  NoTask = "none"
  TaskCount <- MCTaskCount
  TaskStage <- MCTaskStage
  TaskGift <- MCTaskGift
  Chapters <- MCChapters
  MaxSection = 2
  Played <- MCPlayed
  Drops = {0}
  ChapterStage <- MCChapterStage
  ChapterCount <- MCChapterCount
  ChapterGold <- MCChapterGold
  Grids = {0, 1}
  UnlockedGrids = {0}
  GridStage <- MCGridStage
  GridGold <- MCGridGold
  CheapGold = {0}
  Lotions = {0, 1}
  LotionPrice <- MCLotionPrice
  Packs <- MCPacks
  Boxes <- MCBoxes
  config_gold_ = 0
  config_jewel_ = 2
  config_max_spirit_ = 1
  config_recover_spirit_ = 1
  config_recover_spirit_minute_ = 1
  config_enter_game_use_spirit_ = 1
  config_day_buy_spirit_ = 1
  config_weixin_gold = 0
  hero_max_tasks_count_ = 0
  day_free_task_count_ = 0
  day_task_advertisement_task_cd_ = 0
  refresh_task_gold_ = 1
  relive_gold_ = 1
  day_Refresh_time_ = 0
  DayLength = 2
  FreeRefresh = FALSE
  Gm = FALSE
  Amounts = {}
  MaxNow = 4
  MaxGold = 2
  MaxDone = 0
INVARIANT ChaptersEarned
INVARIANT StageEntered
INVARIANT NoDebt
PROPERTY DayLottery
