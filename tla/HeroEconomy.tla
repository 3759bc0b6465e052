----------------------------- MODULE HeroEconomy -----------------------------
(***************************************************************************)
(* What a player owns and how requests change it: class DreamHero             *)
(* (src/gameserver/DreamHero.cpp) behind the handlers of class Session       *)
(* (src/gameserver/session.cpp), the daily refresh and the recovery of       *)
(* spirit of class DreamHeroManager, and GameConfig::isInToday.              *)
(*                                                                          *)
(* One hero, from its creation through requests, saves, Destroy and reloads.  *)
(* Its data is the record info; row is its copy in the database.  Times are  *)
(* hours.  Kills, special creatures, the arguments of a task, the tutorial   *)
(* and the notified grids are data that nothing else depends on and are left *)
(* out; the daily game is in DailyGame, orders are in Deals.                 *)
(***************************************************************************)
EXTENDS Integers, FiniteSets

CONSTANTS
  Tasks,            \* task ids of the configuration
  NoTask,           \* task id 0
  TaskCount,        \* task -> require_unlock_complete_task_count
  TaskStage,        \* task -> stage that must be passed
  TaskGift,         \* task -> gift_gold
  Chapters,         \* chapters with a configuration; 0 and 1 are open from the start
  MaxSection,
  Played,           \* stages that clients enter and leave
  Drops,            \* what clients report as the gold found in a stage: any int32
  ChapterStage,     \* chapter -> stage that unlocks it
  ChapterCount,     \* chapter -> required_task_complete_count
  ChapterGold,      \* chapter -> require_gold
  Grids,            \* heroes of the shop
  UnlockedGrids,    \* the first hero_unlock_count_ of them
  GridStage,        \* grid -> stage that must be passed
  GridGold,         \* grid -> require_gold
  CheapGold,        \* reductions a promotion may grant
  Lotions,          \* lotions of the shop
  LotionPrice,      \* lotion -> [use, count]
  Packs,            \* offers of the spirit shop: [jewel, spirit]
  Boxes,            \* lottery boxes: [type, count, lotion]
  config_gold_, config_jewel_, config_max_spirit_, config_recover_spirit_,
  config_recover_spirit_minute_, config_enter_game_use_spirit_, config_day_buy_spirit_,
  config_weixin_gold, hero_max_tasks_count_, day_free_task_count_,
  day_task_advertisement_task_cd_, refresh_task_gold_, relive_gold_,
  day_Refresh_time_,  \* hour of the daily refresh
  DayLength,        \* hours of a day
  FreeRefresh,      \* do clients ask for a task without paying?
  Gm,               \* are the commands for game masters used?
  Amounts,          \* what the commands add
  MaxNow,           \* bound on the time
  MaxGold,          \* bound on gold and jewels, also below 0; no int32 overflows
  MaxDone           \* bound on complete_task_count

NoStage == <<-1, -1>>
Stages == {<<0, 0>>} \cup Chapters \X (1..MaxSection)

ASSUME EconomyConstants ==
  /\ NoTask \notin Tasks
  /\ {0, 1} \subseteq Chapters /\ Chapters \subseteq Nat
  /\ MaxSection \in Nat \ {0}
  /\ Played \subseteq Stages /\ Drops \subseteq Int
  /\ TaskCount \in [Tasks -> Nat] /\ TaskGift \in [Tasks -> Nat]
  /\ TaskStage \in [Tasks -> Stages] /\ GridStage \in [Grids -> Stages]
  /\ ChapterStage \in [Chapters -> Stages]
  /\ ChapterGold \in [Chapters -> Nat] /\ ChapterCount \in [Chapters -> Nat]
  /\ UnlockedGrids \subseteq Grids /\ 0 \in UnlockedGrids
  /\ GridGold \in [Grids -> Nat] /\ CheapGold \subseteq Nat
  /\ LotionPrice \in [Lotions -> [use : {"gold", "jewel"}, count : Nat]]
  /\ Packs \subseteq [jewel : Nat, spirit : Nat]
  /\ \A b \in Boxes : b.type \in {"gold", "jewel", "lotion"} /\ b.count \in Nat
                      /\ (b.type = "lotion" => b.lotion \in Lotions)
  /\ {config_gold_, config_jewel_, config_max_spirit_, config_recover_spirit_,
      config_enter_game_use_spirit_, config_day_buy_spirit_, config_weixin_gold,
      hero_max_tasks_count_, day_free_task_count_, day_task_advertisement_task_cd_,
      refresh_task_gold_, relive_gold_, MaxNow, MaxGold, MaxDone} \subseteq Nat
  /\ {config_recover_spirit_minute_, DayLength} \subseteq Nat \ {0}
  /\ day_Refresh_time_ \in 0..(DayLength - 1)
  /\ {FreeRefresh, Gm} \subseteq BOOLEAN /\ Amounts \subseteq Int

VARIABLES
  info,   \* the hero's data
  row,    \* its row
  inMem,  \* the hero is in memory
  now     \* g_server_time

vars == <<info, row, inMem, now>>

-----------------------------------------------------------------------------
(* Helpers.  Definitions named ..._bug are variants of the definition after  *)
(* them with a plausible mistake; no action uses them.                        *)

smaller(x, y) == IF x <= y THEN x ELSE y
larger(x, y) == IF x >= y THEN x ELSE y

\* The moment of the refresh belongs to the day before.
isInToday_bug(t) ==
  LET today == (now \div DayLength) * DayLength + day_Refresh_time_
  IN  t > today /\ t <= today + DayLength

\* GameConfig::isInToday: between today's refresh and tomorrow's, where today is the
\* calendar day: before the refresh hour both lie in the future.
isInToday(t) ==
  LET today == (now \div DayLength) * DayLength + day_Refresh_time_
  IN  t >= today /\ t < today + DayLength

\* The day a player sees: from one daily refresh to the next.
gameDay(t) == (t - day_Refresh_time_) \div DayLength

\* A record says that the stage was passed.
passed(i, stage) == i.records[stage[1]] >= 0 /\ stage[2] <= i.records[stage[1]]

\* RadnomTaskInfo: the tasks it chooses from.  The given up task is only left out while
\* the hero holds another one.
candidates(i, giveUp) ==
  {t \in Tasks : /\ t \notin i.tasks
                 /\ t = giveUp => i.tasks = {}
                 /\ i.complete_task_count >= TaskCount[t]
                 /\ TaskStage[t][1] # 0 => passed(i, TaskStage[t])}

RadnomTaskInfo(i, giveUp) ==
  IF candidates(i, giveUp) = {} THEN {NoTask} ELSE candidates(i, giveUp)

addTask(i, t) == IF t = NoTask THEN i ELSE [i EXCEPT !.tasks = @ \cup {t}]

\* DreamHero::dayRefresh: the possible results.
dayRefresh(i) ==
  LET due == i._last_task_advertisement_time = 0 \/ ~isInToday(i._last_task_advertisement_time)
      reset == i._last_buy_spirit_time = 0 \/ ~isInToday(i._last_buy_spirit_time)
      fresh == [i EXCEPT !._current_task_count = IF due THEN 0 ELSE @,
                         !.day_buy_spirit = IF reset THEN 0 ELSE @]
  IN  {addTask(fresh, t) :
         t \in IF due /\ Cardinality(i.tasks) < hero_max_tasks_count_
               THEN RadnomTaskInfo(i, NoTask) ELSE {NoTask}}

\* DreamHero::set_info: the spirit that came back while the hero was away; more than
\* the maximum is cut off.
set_info(i) ==
  LET times == (now - i._last_recover_spirit_time) \div config_recover_spirit_minute_
  IN  IF now <= i._last_recover_spirit_time THEN i
      ELSE [i EXCEPT
             !.spirit = smaller(@ + config_recover_spirit_ * times, config_max_spirit_),
             !._last_recover_spirit_time = @ + times * config_recover_spirit_minute_]

\* DreamHero::LoadFromConfig.  The current stage becomes (0, 0); the spirit bought today
\* stays.  entered and unchecked are not in the code: the stage that was entered and not
\* left, and that something was taken from the hero without a look at what it has.
LoadFromConfig(bought_spirit) ==
  [gold |-> config_gold_, jewel |-> config_jewel_, spirit |-> config_max_spirit_,
   lotions |-> {}, heroes |-> UnlockedGrids, current_hero |-> 0, tasks |-> {},
   records |-> [c \in Chapters |-> IF c \in {0, 1} THEN c ELSE -1],
   complete_task_count |-> 0, concern_weixin |-> FALSE, day_buy_spirit |-> bought_spirit,
   _current |-> <<0, 0>>, _current_task_count |-> 0, _last_task_advertisement_time |-> 0,
   _last_buy_spirit_time |-> 0, _last_day_lottery_time |-> 0,
   _last_recover_spirit_time |-> 0,
   entered |-> NoStage, unchecked |-> FALSE]

Init ==
  /\ inMem = TRUE
  /\ now = DayLength
  /\ info \in dayRefresh(LoadFromConfig(0))
  /\ row = info

\* A request changes the hero in memory only.
become(i) == info' = i /\ UNCHANGED <<row, inMem, now>>

-----------------------------------------------------------------------------
(* Stages, tasks and heroes *)

\* EnterGame from ReqEnterGame or, with admin, from the command.  The stage need not be
\* open; (-1, -1) is free of the check, and all pay what they have.
EnterGame(stage, admin) ==
  /\ inMem
  /\ admin => Gm
  /\ \/ admin \/ stage = NoStage
     \/ config_enter_game_use_spirit_ = 0 \/ info.spirit >= config_enter_game_use_spirit_
  /\ become([info EXCEPT !._current = stage, !.entered = stage,
                         !.spirit = larger(0, @ - config_enter_game_use_spirit_)])

\* The current stage is kept.
ReqExitGame_bug(stage, success, complete, drops, used) ==
  LET held == complete \cap info.tasks
      gifts == IF held = {} THEN 0 ELSE TaskGift[CHOOSE t \in held : TRUE]
      gained == larger(0, info.gold) + drops + gifts
  IN  /\ inMem
      /\ stage = info._current /\ stage # NoStage /\ used \subseteq info.lotions
      /\ gained \in -MaxGold..MaxGold
      /\ info.complete_task_count + Cardinality(held) <= MaxDone
      /\ become([info EXCEPT
           !.lotions = @ \ used, !.tasks = @ \ held, !.gold = gained,
           !.complete_task_count = @ + Cardinality(held), !.entered = NoStage,
           !.unchecked = @ \/ drops < 0,
           !.records = [c \in Chapters |->
             IF success /\ c = stage[1] /\ stage[2] = @[c] + 1 THEN stage[2] ELSE @[c]]])

\* ReqExitGame: the loot and the gifts of completed tasks that the hero holds (one at a
\* time here), the next section of a chapter.  Nobody looks at the loot, which the client
\* reports and which may be negative.  A refused request, too, ends the stage.
ReqExitGame(stage, success, complete, drops, used) ==
  LET held == complete \cap info.tasks
      gifts == IF held = {} THEN 0 ELSE TaskGift[CHOOSE t \in held : TRUE]
      gained == larger(0, info.gold) + drops + gifts
      left == [info EXCEPT !._current = NoStage, !.entered = NoStage]
  IN  /\ inMem
      /\ \/ /\ stage = info._current /\ stage # NoStage /\ used \subseteq info.lotions
            /\ gained \in -MaxGold..MaxGold
            /\ info.complete_task_count + Cardinality(held) <= MaxDone
            /\ become([left EXCEPT
                 !.lotions = @ \ used, !.tasks = @ \ held, !.gold = gained,
                 !.complete_task_count = @ + Cardinality(held), !.unchecked = @ \/ drops < 0,
                 !.records = [c \in Chapters |->
                   IF success /\ c = stage[1] /\ stage[2] = @[c] + 1 THEN stage[2] ELSE @[c]]])
         \/ /\ stage # info._current \/ ~(used \subseteq info.lotions)
            /\ become(left)

\* The stage that unlocks the chapter is not asked for.
ReqUnlockChapter_bug(c) ==
  /\ inMem
  /\ info.complete_task_count >= ChapterCount[c]
  /\ info.records[c] = -1
  /\ info.gold >= ChapterGold[c]
  /\ become([info EXCEPT !.records[c] = 0, !.gold = @ - ChapterGold[c]])

\* ReqUnlockChapter: the chapter has no record yet, its stage is passed and it is paid.
ReqUnlockChapter(c) ==
  /\ inMem
  /\ info.complete_task_count >= ChapterCount[c]
  /\ info.records[c] = -1
  /\ passed(info, ChapterStage[c])
  /\ info.gold >= ChapterGold[c]
  /\ become([info EXCEPT !.records[c] = 0, !.gold = @ - ChapterGold[c]])

\* RefreshTask of ReqAdvertisementApplyTask (giveUp = NoTask) and
\* ReqAdvertisementRefreshTask.  gold says that the client pays; only then is the balance
\* checked, but the price is always taken.  The task given up is lost if no other is found.
\* Of _current_task_count only whether it exceeds day_free_task_count_ matters.
RefreshTask(giveUp, gold) ==
  LET kept == [info EXCEPT !.tasks = @ \ {giveUp}]
      counted == [kept EXCEPT !._current_task_count = smaller(@ + 1, day_free_task_count_ + 1),
                              !._last_task_advertisement_time = now]
  IN  /\ inMem
      /\ gold \/ FreeRefresh
      /\ gold => info.gold >= refresh_task_gold_
      /\ info._current_task_count > day_free_task_count_ =>
           now - info._last_task_advertisement_time >= day_task_advertisement_task_cd_
      /\ giveUp # NoTask => giveUp \in info.tasks
      /\ Cardinality(kept.tasks) < hero_max_tasks_count_
      /\ \E t \in RadnomTaskInfo(kept, giveUp) :
           /\ info.gold - refresh_task_gold_ >= -MaxGold
           /\ become([addTask(counted, t) EXCEPT
                !.gold = IF t = NoTask THEN @ ELSE @ - refresh_task_gold_,
                !.unchecked = @ \/ ~gold])

\* ReqBuyHero at the price the promotions make; a hero that is owned is sold again.
ReqBuyHero(g, cheap) ==
  LET price == larger(0, GridGold[g] - cheap)
  IN  /\ inMem
      /\ GridStage[g][1] # 0 /\ GridStage[g][2] # 0 => passed(info, GridStage[g])
      /\ info.gold >= price
      /\ become([info EXCEPT !.gold = @ - price, !.heroes = @ \cup {g}])

ReqModifyCurrentHero(g) ==
  /\ inMem
  /\ g \in info.heroes
  /\ become([info EXCEPT !.current_hero = g])

-----------------------------------------------------------------------------
(* The shop *)

ReqReliveReq ==
  /\ inMem
  /\ info.gold >= relive_gold_
  /\ become([info EXCEPT !.gold = @ - relive_gold_])

\* ReqBuySpirit: up to config_day_buy_spirit_ times a day; the maximum does not bind.
ReqBuySpirit(p) ==
  /\ inMem
  /\ info.day_buy_spirit < config_day_buy_spirit_
  /\ info.jewel >= p.jewel
  /\ info.spirit + p.spirit <= MaxGold
  /\ become([info EXCEPT !.jewel = @ - p.jewel, !.spirit = @ + p.spirit,
       !.day_buy_spirit = @ + 1, !._last_buy_spirit_time = now])

\* The balance is not checked for jewels.
ReqBuyLotion_bug(l) ==
  LET price == LotionPrice[l]
  IN  /\ inMem
      /\ l \notin info.lotions
      /\ \/ price.use = "jewel" /\ become([info EXCEPT
                !.jewel = @ - price.count, !.lotions = @ \cup {l}])
         \/ price.use = "gold" /\ info.gold >= price.count
             /\ become([info EXCEPT !.gold = @ - price.count, !.lotions = @ \cup {l}])

\* ReqBuyLotion: one that the hero does not hold, for jewels or for gold.
ReqBuyLotion(l) ==
  LET price == LotionPrice[l]
  IN  /\ inMem
      /\ l \notin info.lotions
      /\ \/ price.use = "jewel" /\ info.jewel >= price.count
             /\ become([info EXCEPT !.jewel = @ - price.count, !.lotions = @ \cup {l}])
         \/ price.use = "gold" /\ info.gold >= price.count
             /\ become([info EXCEPT !.gold = @ - price.count, !.lotions = @ \cup {l}])

\* ReqDayLottery: any box but a lotion that the hero holds, once isInToday allows it.
ReqDayLottery(b) ==
  LET drawn == [info EXCEPT !._last_day_lottery_time = now]
  IN  /\ inMem
      /\ ~isInToday(info._last_day_lottery_time)
      /\ \/ /\ b.type = "lotion" /\ b.lotion \notin info.lotions
            /\ become([drawn EXCEPT !.lotions = @ \cup {b.lotion}])
         \/ /\ b.type = "gold" /\ info.gold + b.count <= MaxGold
            /\ become([drawn EXCEPT !.gold = @ + b.count])
         \/ /\ b.type = "jewel" /\ info.jewel + b.count <= MaxGold
            /\ become([drawn EXCEPT !.jewel = @ + b.count])

\* ReqConcernWeiXin with the right key.
ReqConcernWeiXin ==
  /\ inMem
  /\ ~info.concern_weixin
  /\ info.gold + config_weixin_gold <= MaxGold
  /\ become([info EXCEPT !.concern_weixin = TRUE, !.gold = @ + config_weixin_gold])

-----------------------------------------------------------------------------
(* Commands of game masters: Session::parseCmdReq... *)

parseCmdReqModifyGold(n) ==
  /\ Gm /\ inMem
  /\ info.gold + n <= MaxGold
  /\ become([info EXCEPT !.gold = larger(0, @ + n)])

\* parseCmdReqModifyJewel, parseCmdReqModifySpirit: unlike gold, without a floor.
parseCmdReqModifyJewel(n) ==
  /\ Gm /\ inMem
  /\ info.jewel + n \in -MaxGold..MaxGold
  /\ become([info EXCEPT !.jewel = @ + n, !.unchecked = TRUE])

parseCmdReqModifySpirit(n) ==
  /\ Gm /\ inMem
  /\ info.spirit + n \in -MaxGold..MaxGold
  /\ become([info EXCEPT !.spirit = @ + n, !.unchecked = TRUE])

parseCmdReqModifyTaskCompleteCount(n) ==
  /\ Gm /\ inMem
  /\ become([info EXCEPT !.complete_task_count = n])

\* ReqReplaceTask: that many new tasks, but no more than the maximum or than there are.
ReqReplaceTask(n) ==
  LET open == candidates([info EXCEPT !.tasks = {}], NoTask)
  IN  /\ Gm /\ inMem
      /\ \E S \in SUBSET open :
           /\ Cardinality(S) = smaller(smaller(n, hero_max_tasks_count_), Cardinality(open))
           /\ become([info EXCEPT !.tasks = S])

ResetDailyLottery == Gm /\ inMem /\ become([info EXCEPT !._last_day_lottery_time = 0])

ResetWeiXin == Gm /\ inMem /\ become([info EXCEPT !.concern_weixin = FALSE])

ResetGame == Gm /\ inMem /\ become(LoadFromConfig(info.day_buy_spirit))

-----------------------------------------------------------------------------
(* Time, saving and loading *)

\* An hour passes.
tick ==
  /\ now < MaxNow
  /\ now' = now + 1
  /\ UNCHANGED <<row, inMem, info>>

\* DreamHeroManager::eventPerMin at the refresh hour -> dayRefresh for the heroes in
\* memory.  An event that comes more than a minute late misses it for the day.
eventPerMin ==
  /\ inMem
  /\ now % DayLength = day_Refresh_time_
  /\ \E i \in dayRefresh(info) : become(i)

\* DreamHeroManager::recoverSpirit -> DreamHero::recoverSpirit
recoverSpirit ==
  /\ inMem
  /\ become([info EXCEPT
       !.spirit = IF @ < config_max_spirit_ THEN smaller(@ + config_recover_spirit_, config_max_spirit_) ELSE @,
       !._last_recover_spirit_time = now])

SaveHero ==
  /\ inMem
  /\ row' = info
  /\ UNCHANGED <<info, inMem, now>>

\* What was not saved is gone.
Destroy ==
  /\ inMem
  /\ inMem' = FALSE
  /\ info' = row
  /\ UNCHANGED <<row, now>>

\* The hero is loaded, and SendClientInit refreshes its day.
load ==
  /\ ~inMem
  /\ inMem' = TRUE
  /\ info' \in dayRefresh(set_info(row))
  /\ UNCHANGED <<row, now>>

\* A Session takes the hero that is still in memory: SendClientInit.
SendClientInit ==
  /\ inMem
  /\ \E i \in dayRefresh(info) : become(i)

-----------------------------------------------------------------------------
Next ==
  \/ \E st \in Played \cup {NoStage}, admin \in BOOLEAN : EnterGame(st, admin)
  \/ \E st \in Played \cup {NoStage, <<0, 0>>}, ok \in BOOLEAN,
        done \in {{}} \cup {{t} : t \in Tasks}, drops \in Drops, used \in {{}} \cup {{l} : l \in Lotions} :
       ReqExitGame(st, ok, done, drops, used)
  \/ \E c \in Chapters : ReqUnlockChapter(c)
  \/ \E t \in Tasks \cup {NoTask}, gold \in BOOLEAN : RefreshTask(t, gold)
  \/ \E g \in Grids : ReqModifyCurrentHero(g) \/ \E cheap \in CheapGold : ReqBuyHero(g, cheap)
  \/ ReqReliveReq \/ ReqConcernWeiXin
  \/ \E p \in Packs : ReqBuySpirit(p)
  \/ \E l \in Lotions : ReqBuyLotion(l)
  \/ \E b \in Boxes : ReqDayLottery(b)
  \/ \E n \in Amounts : parseCmdReqModifyGold(n) \/ parseCmdReqModifyJewel(n) \/ parseCmdReqModifySpirit(n)
  \/ \E n \in 0..MaxDone : parseCmdReqModifyTaskCompleteCount(n) \/ ReqReplaceTask(n)
  \/ ResetDailyLottery \/ ResetWeiXin \/ ResetGame
  \/ tick \/ eventPerMin \/ recoverSpirit
  \/ SaveHero \/ Destroy \/ load \/ SendClientInit

Spec == Init /\ [][Next]_vars

-----------------------------------------------------------------------------
(* Properties *)

\* A chapter is only open while the stage that unlocks it is passed: records are unlocked,
\* advanced, reset and reloaded, and never lose a section on the way.
ChaptersEarned ==
  \A i \in {info, row} : \A c \in Chapters \ {0, 1} :
    i.records[c] >= 0 => passed(i, ChapterStage[c])

\* The stage a hero can be rewarded for is one it has entered, and paid for, since its last
\* exit; only a new hero may leave stage (0, 0) without having entered it.
StageEntered ==
  \A i \in {info, row} : i._current \in {NoStage, <<0, 0>>, i.entered}

\* A hero owes nothing: no sequence of purchases, entries, tasks, days and reloads makes
\* gold, jewels or spirit negative.  Four operations take without a look at what is there:
\* a game master's commands on jewels and spirit, RefreshTask, which takes its price also
\* when the client asks for a free task, and ReqExitGame when the loot reported is negative.
NoDebt ==
  \A i \in {info, row} : ~i.unchecked => i.gold >= 0 /\ i.jewel >= 0 /\ i.spirit >= 0

\* A draw of the lottery is on a later game day than the draw before.
DayLottery ==
  [][\A b \in Boxes : ReqDayLottery(b) =>
       info._last_day_lottery_time = 0 \/ gameDay(info._last_day_lottery_time) < gameDay(now)]_vars
=============================================================================
