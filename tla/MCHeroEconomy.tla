--------------------------- MODULE MCHeroEconomy ---------------------------
(* HeroEconomy for TLC.  Four games that differ in their configuration; a    *)
(* behaviour is chosen at the start.  The configuration's constants are a    *)
(* game about days and daily limits; in the others stages and tasks matter,  *)
(* or the shop, or a game master is at work.                                 *)
EXTENDS HeroEconomy

MCChapters == {0, 1, 2}
MCTaskCount == [t \in Tasks |-> 0]
MCTaskStage == [t \in Tasks |-> IF t = "t3" THEN <<1, 2>> ELSE <<0, 0>>]
MCTaskGift == [t \in Tasks |-> 1]
MCChapterStage == [c \in Chapters |-> IF c = 2 THEN <<1, 2>> ELSE <<0, 0>>]
MCChapterCount == [c \in Chapters |-> IF c = 2 THEN 1 ELSE 0]
MCChapterGold == [c \in Chapters |-> IF c = 2 THEN 1 ELSE 0]
MCGridStage == [g \in Grids |-> IF g = 1 THEN <<1, 1>> ELSE <<0, 0>>]
MCGridGold == [g \in Grids |-> 1]
MCLotionPrice == [l \in Lotions |-> [use |-> IF l = 0 THEN "jewel" ELSE "gold", count |-> 1]]
MCPlayed == {<<1, 1>>}
MCPacks == {[jewel |-> 1, spirit |-> 1]}
MCBoxes == {[type |-> "gold", count |-> 0, lotion |-> 0]}
ShopBoxes == {[type |-> "gold", count |-> 1, lotion |-> 0], [type |-> "jewel", count |-> 1, lotion |-> 0],
              [type |-> "lotion", count |-> 0, lotion |-> 1]}

VARIABLE game

Quests == INSTANCE HeroEconomy WITH
  hero_max_tasks_count_ <- 1, Played <- {<<1, 2>>, <<2, 1>>}, Drops <- {-1, 0},
  Grids <- {0}, Lotions <- {}, Packs <- {}, Boxes <- {},
  config_jewel_ <- 0, config_weixin_gold <- 9,
  MaxNow <- 3, MaxGold <- 1, MaxDone <- 1

Shop == INSTANCE HeroEconomy WITH
  Tasks <- {}, CheapGold <- {0, 1}, Boxes <- ShopBoxes,
  config_gold_ <- 1, config_jewel_ <- 1, config_weixin_gold <- 9, MaxNow <- 2

Master == INSTANCE HeroEconomy WITH
  hero_max_tasks_count_ <- 1, Played <- {}, Drops <- {0, 1}, Grids <- {0}, Lotions <- {}, Packs <- {},
  config_jewel_ <- 0, config_max_spirit_ <- 0, config_weixin_gold <- 9, refresh_task_gold_ <- 0,
  FreeRefresh <- TRUE, Gm <- TRUE, Amounts <- {-1}, MaxNow <- 2, MaxGold <- 1, MaxDone <- 1

Days == INSTANCE HeroEconomy WITH Tasks <- {}, Grids <- {0}, Lotions <- {}

DaysSpec == game = "days" /\ Days!Init /\ [][Days!Next /\ UNCHANGED game]_<<vars, game>>

MCInit ==
  \/ game = "quests" /\ Quests!Init
  \/ game = "shop" /\ Shop!Init
  \/ game = "master" /\ Master!Init
  \/ game = "days" /\ Days!Init
MCNext ==
  \/ game = "quests" /\ Quests!Next /\ UNCHANGED game
  \/ game = "shop" /\ Shop!Next /\ UNCHANGED game
  \/ game = "master" /\ Master!Next /\ UNCHANGED game
  \/ game = "days" /\ Days!Next /\ UNCHANGED game
MCSpec == MCInit /\ [][MCNext]_<<vars, game>>
=============================================================================
