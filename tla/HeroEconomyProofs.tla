-------------------------- MODULE HeroEconomyProofs --------------------------
(***************************************************************************)
(* Proofs about HeroEconomy for every configuration of chapters, tasks,     *)
(* prices, offers and limits, and every bound.                              *)
(*                                                                          *)
(* The hero in memory and its row are the same kind of data at different    *)
(* times, so the inductive invariant is a predicate HeroInv on that data,   *)
(* which every operation on a hero keeps, and which holds of both copies.   *)
(***************************************************************************)
EXTENDS HeroEconomy, FiniteSetTheorems, TLAPS

\* The sections of the chapters that were passed.
Records == [Chapters -> Int]

\* The data of a hero.
Heroes ==
  [gold : Int, jewel : Int, spirit : Int, lotions : SUBSET Lotions, heroes : SUBSET Grids,
   current_hero : Grids, tasks : SUBSET Tasks, records : Records,
   complete_task_count : Nat, concern_weixin : BOOLEAN, day_buy_spirit : Nat,
   _current : Stages \cup {NoStage}, _current_task_count : Nat,
   _last_task_advertisement_time : Nat, _last_buy_spirit_time : Nat,
   _last_day_lottery_time : Nat, _last_recover_spirit_time : Nat,
   entered : Stages \cup {NoStage}, unchecked : BOOLEAN]

\* Chapters above the first two have a record only behind the stage that unlocks them.
EarnedInv(i) ==
  \A c \in Chapters \ {0, 1} : i.records[c] >= 0 => passed(i, ChapterStage[c])

\* What may be rewarded was entered.
EnteredInv(i) == i._current \in {NoStage, <<0, 0>>, i.entered}

\* Nothing is owed.
PaidInv(i) == ~i.unchecked => i.gold >= 0 /\ i.jewel >= 0 /\ i.spirit >= 0

\* What holds of a hero's data at a time t.
HeroInv(i, t) ==
  /\ i \in Heroes
  /\ EarnedInv(i)
  /\ EnteredInv(i)
  /\ PaidInv(i)
  /\ i._last_day_lottery_time <= t

\* The inductive invariant of the hero and its row.
EconomyInv ==
  /\ now \in Nat /\ inMem \in BOOLEAN
  /\ HeroInv(info, now)
  /\ HeroInv(row, now)

-----------------------------------------------------------------------------
(* Arithmetic *)

\* Division with a positive divisor rounds down.
LEMMA DivBounds ==
  ASSUME NEW n \in Nat, NEW d \in Nat \ {0}
  PROVE  n \div d \in Nat /\ d * (n \div d) <= n /\ n < d * (n \div d) + d
OBVIOUS

\* A time before the beginning of the day of n has a smaller day number.
LEMMA DayBefore ==
  ASSUME NEW n \in Nat, NEW t \in Nat, NEW d \in Nat \ {0}, t < d * (n \div d)
  PROVE  t \div d < n \div d
<1> DEFINE q == t \div d
           r == n \div d
<1>1. q \in Nat /\ r \in Nat /\ d * q < d * r
  BY DivBounds, SMT
<1> HIDE DEF q, r
<1>2. ASSUME q >= r PROVE FALSE
  <2>1. PICK k \in Nat : q = r + k
    BY <1>1, <1>2
  <2>2. d * q = d * r + d * k
    BY <1>1, <2>1
  <2>3. d * k >= 0
    OBVIOUS
  <2> QED
    BY <1>1, <2>2, <2>3
<1> QED
  BY <1>1, <1>2 DEF q, r

\* The smaller and the larger of two numbers.
LEMMA SmallerLarger ==
  ASSUME NEW x \in Int, NEW y \in Int
  PROVE  /\ smaller(x, y) \in {x, y} /\ smaller(x, y) <= x /\ smaller(x, y) <= y
         /\ larger(x, y) \in {x, y} /\ larger(x, y) >= x /\ larger(x, y) >= y
BY DEF smaller, larger

-----------------------------------------------------------------------------
(* What operations keep: the parts of a hero's data the invariant reads *)

\* A change of data that keeps records, balances, stage and lottery keeps the invariant.
LEMMA SameCore ==
  ASSUME NEW i, NEW j, NEW t, HeroInv(i, t), j \in Heroes,
         j.records = i.records, j._current = i._current, j.entered = i.entered,
         j.gold = i.gold, j.jewel = i.jewel, j.spirit = i.spirit, j.unchecked = i.unchecked,
         j._last_day_lottery_time = i._last_day_lottery_time
  PROVE  HeroInv(j, t)
BY DEF HeroInv, EarnedInv, EnteredInv, PaidInv, passed

\* A change of balances keeps the invariant if it leaves no debt.
LEMMA SameStages ==
  ASSUME NEW i, NEW j, NEW t, HeroInv(i, t), j \in Heroes,
         j.records = i.records, j._current = i._current, j.entered = i.entered,
         PaidInv(j), j._last_day_lottery_time <= t
  PROVE  HeroInv(j, t)
BY DEF HeroInv, EarnedInv, EnteredInv, passed

\* A balance may change if it does not become negative.
LEMMA BalanceChange ==
  ASSUME NEW i, NEW t, HeroInv(i, t), NEW x \in Int
  PROVE  /\ (i.gold >= 0 => x >= 0) => HeroInv([i EXCEPT !.gold = x], t)
         /\ (i.jewel >= 0 => x >= 0) => HeroInv([i EXCEPT !.jewel = x], t)
         /\ (i.spirit >= 0 => x >= 0) => HeroInv([i EXCEPT !.spirit = x], t)
BY DEF HeroInv, EarnedInv, EnteredInv, PaidInv, passed, Heroes

\* What the hero has besides is free to change ...
LEMMA GoodsChange ==
  ASSUME NEW i, NEW t, HeroInv(i, t), NEW x
  PROVE  /\ x \subseteq Lotions => HeroInv([i EXCEPT !.lotions = x], t)
         /\ x \subseteq Grids => HeroInv([i EXCEPT !.heroes = x], t)
         /\ x \subseteq Tasks => HeroInv([i EXCEPT !.tasks = x], t)
         /\ x \in Grids => HeroInv([i EXCEPT !.current_hero = x], t)
         /\ x \in BOOLEAN => HeroInv([i EXCEPT !.concern_weixin = x], t)
BY DEF HeroInv, EarnedInv, EnteredInv, PaidInv, passed, Heroes

\* ... and so are its counters and times.
LEMMA CountChange ==
  ASSUME NEW i, NEW t, HeroInv(i, t), NEW n \in Nat
  PROVE  /\ HeroInv([i EXCEPT !.day_buy_spirit = n], t)
         /\ HeroInv([i EXCEPT !.complete_task_count = n], t)
         /\ HeroInv([i EXCEPT !._last_buy_spirit_time = n], t)
         /\ HeroInv([i EXCEPT !._last_recover_spirit_time = n], t)
         /\ n <= t => HeroInv([i EXCEPT !._last_day_lottery_time = n], t)
BY DEF HeroInv, EarnedInv, EnteredInv, PaidInv, passed, Heroes

\* The invariant speaks of the past: it is kept by time.
LEMMA LaterToo ==
  ASSUME NEW i, NEW t \in Nat, HeroInv(i, t)
  PROVE  HeroInv(i, t + 1)
BY DEF HeroInv, Heroes

\* Tasks that are added are tasks of the configuration.
LEMMA AddTask ==
  ASSUME NEW i \in Heroes, NEW u \in Tasks \cup {NoTask}
  PROVE  /\ addTask(i, u) \in Heroes
         /\ addTask(i, u) = [i EXCEPT !.tasks = addTask(i, u).tasks]
<1>1. CASE u = NoTask
  BY <1>1 DEF addTask, Heroes
<1>2. CASE u # NoTask
  BY <1>2 DEF addTask, Heroes
<1> QED
  BY <1>1, <1>2

\* What is drawn is a task of the configuration or none.
LEMMA RandomTask ==
  ASSUME NEW i, NEW u, NEW v \in RadnomTaskInfo(i, u)
  PROVE  v \in Tasks \cup {NoTask}
BY DEF RadnomTaskInfo, candidates

\* The daily refresh keeps the invariant.
LEMMA DayRefreshKeeps ==
  ASSUME NEW i, NEW t, HeroInv(i, t), NEW j \in dayRefresh(i)
  PROVE  HeroInv(j, t)
<1> DEFINE due == i._last_task_advertisement_time = 0 \/ ~isInToday(i._last_task_advertisement_time)
           reset == i._last_buy_spirit_time = 0 \/ ~isInToday(i._last_buy_spirit_time)
           fresh == [i EXCEPT !._current_task_count = IF due THEN 0 ELSE @,
                              !.day_buy_spirit = IF reset THEN 0 ELSE @]
<1>1. i \in Heroes
  BY DEF HeroInv
<1>2. /\ fresh \in Heroes
      /\ fresh.records = i.records /\ fresh._current = i._current /\ fresh.entered = i.entered
      /\ fresh.gold = i.gold /\ fresh.jewel = i.jewel /\ fresh.spirit = i.spirit
      /\ fresh.unchecked = i.unchecked
      /\ fresh._last_day_lottery_time = i._last_day_lottery_time
  <2> HIDE DEF due, reset
  <2> QED
    BY <1>1 DEF Heroes
<1>3. PICK u \in Tasks \cup {NoTask} : j = addTask(fresh, u)
  <2>1. PICK u : /\ j = addTask(fresh, u)
                 /\ u \in RadnomTaskInfo(i, NoTask) \cup {NoTask}
    BY DEF dayRefresh
  <2> QED
    BY <2>1, RandomTask
<1> HIDE DEF fresh
<1>4. /\ addTask(fresh, u) \in Heroes
      /\ addTask(fresh, u) = [fresh EXCEPT !.tasks = addTask(fresh, u).tasks]
  BY <1>2, AddTask
<1>5. HeroInv(fresh, t)
  BY <1>2, SameCore
<1> QED
  BY <1>2, <1>3, <1>4, <1>5, SameCore DEF Heroes

\* The recovery of spirit at a load keeps the invariant.
LEMMA SetInfoKeeps ==
  ASSUME NEW i, HeroInv(i, now), now \in Nat
  PROVE  HeroInv(set_info(i), now)
<1> USE EconomyConstants
<1> DEFINE times == (now - i._last_recover_spirit_time) \div config_recover_spirit_minute_
<1>1. i \in Heroes
  BY DEF HeroInv
<1>2. CASE now <= i._last_recover_spirit_time
  BY <1>2 DEF set_info
<1>3. CASE ~(now <= i._last_recover_spirit_time)
  <2>1. now - i._last_recover_spirit_time \in Nat
    BY <1>1, <1>3 DEF Heroes
  <2>2. times \in Nat
    BY <2>1, DivBounds
  <2> HIDE DEF times
  <2>3. config_recover_spirit_ * times \in Nat /\ times * config_recover_spirit_minute_ \in Nat
    BY <2>2
  <2> DEFINE s == smaller(i.spirit + config_recover_spirit_ * times, config_max_spirit_)
             l == i._last_recover_spirit_time + times * config_recover_spirit_minute_
  <2>4. s \in Int /\ (i.spirit >= 0 => s >= 0)
    BY <1>1, <2>3 DEF Heroes, smaller
  <2>5. l \in Nat
    BY <1>1, <2>3 DEF Heroes
  <2>6. set_info(i) = [i EXCEPT !.spirit = s, !._last_recover_spirit_time = l]
    BY <1>3 DEF set_info, times
  <2> HIDE DEF s, l
  <2> QED
    BY <1>1, <2>4, <2>5, <2>6 DEF HeroInv, Heroes, EarnedInv, EnteredInv, PaidInv, passed
<1> QED
  BY <1>2, <1>3

\* A new hero, or one that a game master starts anew, satisfies the invariant.
LEMMA NewHeroHolds ==
  ASSUME NEW bought \in Nat, NEW t \in Nat
  PROVE  HeroInv(LoadFromConfig(bought), t)
<1> USE EconomyConstants
<1>1. LoadFromConfig(bought) \in Heroes
  <2>1. [c \in Chapters |-> IF c \in {0, 1} THEN c ELSE -1] \in Records
    BY DEF Records
  <2> QED
    BY <2>1 DEF LoadFromConfig, Heroes, Stages
<1> QED
  BY <1>1 DEF HeroInv, EarnedInv, EnteredInv, PaidInv, LoadFromConfig

-----------------------------------------------------------------------------
(* Requests *)

\* A stage that is entered is paid with what is there.
LEMMA EnterKeeps ==
  ASSUME HeroInv(info, now), NEW st \in Played \cup {NoStage}, NEW admin, EnterGame(st, admin)
  PROVE  HeroInv(info', now)
<1> USE EconomyConstants
<1> DEFINE s == larger(0, info.spirit - config_enter_game_use_spirit_)
<1>1. info \in Heroes
  BY DEF HeroInv
<1>2. s \in Int /\ s >= 0
  BY <1>1 DEF Heroes, larger
<1>3. info' = [info EXCEPT !._current = st, !.entered = st, !.spirit = s]
  BY DEF EnterGame, become
<1> HIDE DEF s
<1>4. st \in Stages \cup {NoStage}
  OBVIOUS
<1> QED
  BY <1>1, <1>2, <1>3, <1>4 DEF HeroInv, Heroes, EarnedInv, EnteredInv, PaidInv, passed

\* The record of a chapter that is played to its next section grows, and one that has not
\* been opened stays: sections are counted from 1.
LEMMA ExitRecords ==
  ASSUME NEW i \in Heroes, EarnedInv(i), NEW st \in Stages, NEW ok \in BOOLEAN,
         NEW r, r = [c \in Chapters |->
                       IF ok /\ c = st[1] /\ st[2] = i.records[c] + 1 THEN st[2] ELSE i.records[c]]
  PROVE  /\ r \in [Chapters -> Int]
         /\ \A c \in Chapters \ {0, 1} : r[c] >= 0 =>
              r[ChapterStage[c][1]] >= 0 /\ ChapterStage[c][2] <= r[ChapterStage[c][1]]
<1> USE EconomyConstants
<1>1. i.records \in [Chapters -> Int] /\ st[2] \in Int
  BY DEF Heroes, Records, Stages
<1>2. /\ r \in [Chapters -> Int]
      /\ \A c \in Chapters : i.records[c] <= r[c]
  BY <1>1
<1>3. ASSUME NEW c \in Chapters \ {0, 1}, r[c] >= 0
      PROVE  i.records[c] >= 0
  <2>1. st[1] = c => st[2] >= 1
    BY <1>3 DEF Stages
  <2> QED
    BY <1>1, <1>3, <2>1
<1>4. ASSUME NEW c \in Chapters
      PROVE  ChapterStage[c][1] \in Chapters /\ ChapterStage[c][2] \in Int
  BY DEF Stages
<1>5. ASSUME NEW c \in Chapters \ {0, 1}, r[c] >= 0
      PROVE  r[ChapterStage[c][1]] >= 0 /\ ChapterStage[c][2] <= r[ChapterStage[c][1]]
  <2> DEFINE d == ChapterStage[c][1]
             n == ChapterStage[c][2]
  <2>1. i.records[d] >= 0 /\ n <= i.records[d]
    BY <1>3, <1>5 DEF EarnedInv, passed
  <2>2. d \in Chapters /\ n \in Int
    BY <1>4
  <2> HIDE DEF d, n
  <2>3. i.records[d] <= r[d] /\ i.records[d] \in Int /\ r[d] \in Int
    BY <1>1, <1>2, <2>2
  <2>4. r[d] >= 0 /\ n <= r[d]
    BY <2>1, <2>2, <2>3
  <2> QED
    BY <2>4 DEF d, n
<1> QED
  BY <1>2, <1>5

\* What an exit pays and counts has its type.
LEMMA ExitTypes ==
  ASSUME NEW j \in Heroes, NEW g \in Int, NEW n \in Nat, NEW r \in Records
  PROVE  [j EXCEPT !.gold = g, !.complete_task_count = n, !.records = r] \in Heroes
BY DEF Heroes

\* An exit, rewarded or refused, leaves the stage and keeps the invariant.
LEMMA ExitKeeps ==
  ASSUME HeroInv(info, now), NEW st \in Played \cup {NoStage, <<0, 0>>}, NEW ok \in BOOLEAN,
         NEW done \in {{}} \cup {{t} : t \in Tasks}, NEW drops \in Drops,
         NEW used \in {{}} \cup {{l} : l \in Lotions},
         ReqExitGame(st, ok, done, drops, used)
  PROVE  HeroInv(info', now)
<1> USE EconomyConstants
<1> DEFINE held == done \cap info.tasks
           gifts == IF held = {} THEN 0 ELSE TaskGift[CHOOSE t \in held : TRUE]
           gained == larger(0, info.gold) + drops + gifts
           left == [info EXCEPT !._current = NoStage, !.entered = NoStage]
<1>1. info \in Heroes
  BY DEF HeroInv
<1>2. CASE info' = left
  BY <1>1, <1>2 DEF HeroInv, Heroes, EarnedInv, EnteredInv, PaidInv, passed
<1>3. CASE info' # left
  <2> DEFINE r == [c \in Chapters |->
                     IF ok /\ c = st[1] /\ st[2] = info.records[c] + 1 THEN st[2] ELSE info.records[c]]
             n == info.complete_task_count + Cardinality(held)
  <2>1. /\ st # NoStage
        /\ info' = [left EXCEPT !.lotions = @ \ used, !.tasks = @ \ held, !.gold = gained,
                                !.complete_task_count = @ + Cardinality(held),
                                !.unchecked = @ \/ drops < 0,
                                !.records = [c \in Chapters |->
                   IF ok /\ c = st[1] /\ st[2] = @[c] + 1 THEN st[2] ELSE @[c]]]
    BY <1>3 DEF ReqExitGame, become
  <2>2. st \in Stages
    BY <2>1 DEF Stages
  <2>3. gained \in Int /\ drops \in Int /\ (~(drops < 0) => gained >= 0)
    <3>1. held # {} => (CHOOSE t \in held : TRUE) \in Tasks
      BY <1>1 DEF Heroes
    <3>2. gifts \in Nat
      BY <3>1
    <3> HIDE DEF gifts
    <3> QED
      BY <1>1, <3>2 DEF Heroes, larger
  <2>4. n \in Nat
    <3>1. IsFiniteSet(done)
      <4>1. CASE done = {}
        BY <4>1, FS_EmptySet
      <4>2. CASE done # {}
        <5>1. PICK t \in Tasks : done = {t}
          BY <4>2
        <5> QED
          BY <5>1, FS_Singleton
      <4> QED
        BY <4>1, <4>2
    <3>2. IsFiniteSet(held)
      BY <3>1, FS_Subset
    <3>3. Cardinality(held) \in Nat
      BY <3>2, FS_CardinalityType
    <3> QED
      BY <1>1, <3>3 DEF Heroes
  <2>5. /\ r \in [Chapters -> Int]
        /\ \A c \in Chapters \ {0, 1} : r[c] >= 0 =>
             r[ChapterStage[c][1]] >= 0 /\ ChapterStage[c][2] <= r[ChapterStage[c][1]]
    BY <1>1, <2>2, ExitRecords DEF HeroInv
  <2> DEFINE w == info.unchecked \/ drops < 0
  <2>6. info' = [info EXCEPT !._current = NoStage, !.entered = NoStage, !.unchecked = w,
                             !.lotions = info.lotions \ used, !.tasks = info.tasks \ held,
                             !.gold = gained, !.complete_task_count = n, !.records = r]
    <3> HIDE DEF gained, held
    <3> QED
      BY <1>1, <2>1 DEF Heroes
  <2>9. w \in BOOLEAN
    BY <1>1 DEF Heroes
  <2> HIDE DEF gained, held, n, r, w
  <2>7. info' \in Heroes
    <3>1. info.lotions \ used \in SUBSET Lotions /\ info.tasks \ held \in SUBSET Tasks
      BY <1>1 DEF Heroes
    <3> DEFINE j == [left EXCEPT !.lotions = info.lotions \ used, !.tasks = info.tasks \ held,
                                 !.unchecked = w]
    <3>2. left \in Heroes
      BY <1>1 DEF Heroes
    <3> HIDE DEF left
    <3>3. j \in Heroes
      BY <2>9, <3>1, <3>2 DEF Heroes
    <3>4. info' = [j EXCEPT !.gold = gained, !.complete_task_count = n, !.records = r]
      BY <2>6 DEF left
    <3>5. r \in Records
      BY <2>5 DEF Records
    <3> HIDE DEF j
    <3>6. gained \in Int
      BY <2>3
    <3> QED
      BY <2>4, <3>3, <3>4, <3>5, <3>6, ExitTypes
  <2>8. /\ info'.records = r /\ info'._current = NoStage
        /\ info'.gold = gained /\ info'.jewel = info.jewel /\ info'.spirit = info.spirit
        /\ info'.unchecked = w
        /\ info'._last_day_lottery_time = info._last_day_lottery_time
    BY <1>1, <2>6 DEF Heroes
  <2>10. PaidInv(info')
    <3>1. /\ ~w => ~info.unchecked /\ ~(drops < 0)
          /\ ~info.unchecked => info.jewel >= 0 /\ info.spirit >= 0
      BY DEF w, HeroInv, PaidInv
    <3> QED
      BY <2>3, <2>8, <3>1 DEF PaidInv
  <2> QED
    BY <2>5, <2>7, <2>8, <2>10 DEF HeroInv, EarnedInv, EnteredInv, passed
<1> QED
  BY <1>2, <1>3

\* A chapter is unlocked behind its stage and for gold that is there.
LEMMA UnlockKeeps ==
  ASSUME HeroInv(info, now), NEW c \in Chapters, ReqUnlockChapter(c)
  PROVE  HeroInv(info', now)
<1> USE EconomyConstants
<1> DEFINE r == [info.records EXCEPT ![c] = 0]
           g == info.gold - ChapterGold[c]
<1>1. info \in Heroes /\ info.records \in [Chapters -> Int]
  BY DEF HeroInv, Heroes, Records
<1>2. r \in Records
  BY <1>1 DEF Records
<1>3. g \in Int /\ g >= 0
  BY <1>1 DEF Heroes, ReqUnlockChapter
<1>4. info' = [info EXCEPT !.records = r, !.gold = g]
  BY <1>1 DEF ReqUnlockChapter, become, Heroes
<1>5. ASSUME NEW d \in Chapters \ {0, 1}, r[d] >= 0
      PROVE  r[ChapterStage[d][1]] >= 0 /\ ChapterStage[d][2] <= r[ChapterStage[d][1]]
  <2> DEFINE e == ChapterStage[d][1]
             n == ChapterStage[d][2]
  <2>1. e \in Chapters /\ n \in Int
    BY DEF Stages
  <2>2. info.records[e] >= 0 /\ n <= info.records[e]
    <3>1. CASE d = c
      BY <3>1 DEF ReqUnlockChapter, passed
    <3>2. CASE d # c
      BY <1>1, <1>5, <3>2 DEF HeroInv, EarnedInv, passed
    <3> QED
      BY <3>1, <3>2
  <2> HIDE DEF e, n
  <2>3. r[e] >= 0 /\ n <= r[e]
    BY <1>1, <2>1, <2>2 DEF ReqUnlockChapter
  <2> QED
    BY <2>3 DEF e, n
<1> HIDE DEF r, g
<1>6. /\ info' \in Heroes
      /\ info'.records = r /\ info'._current = info._current /\ info'.entered = info.entered
      /\ info'.gold = g /\ info'.jewel = info.jewel /\ info'.spirit = info.spirit
      /\ info'.unchecked = info.unchecked
      /\ info'._last_day_lottery_time = info._last_day_lottery_time
  BY <1>1, <1>2, <1>3, <1>4 DEF Heroes
<1> QED
  BY <1>3, <1>5, <1>6 DEF HeroInv, EarnedInv, EnteredInv, PaidInv, passed

\* The price of a task is checked, or the hero is marked.
LEMMA RefreshTaskKeeps ==
  ASSUME HeroInv(info, now), now \in Nat, NEW u \in Tasks \cup {NoTask}, NEW gold \in BOOLEAN,
         RefreshTask(u, gold)
  PROVE  HeroInv(info', now)
<1> USE EconomyConstants
<1> DEFINE kept == [info EXCEPT !.tasks = @ \ {u}]
           n == smaller(info._current_task_count + 1, day_free_task_count_ + 1)
           counted == [kept EXCEPT !._current_task_count = n, !._last_task_advertisement_time = now]
<1>1. info \in Heroes
  BY DEF HeroInv
<1>2. n \in Nat
  BY <1>1 DEF Heroes, smaller
<1>3. PICK v \in RadnomTaskInfo(kept, u) :
        info' = [addTask([kept EXCEPT
                   !._current_task_count = smaller(@ + 1, day_free_task_count_ + 1),
                   !._last_task_advertisement_time = now], v) EXCEPT
                 !.gold = IF v = NoTask THEN @ ELSE @ - refresh_task_gold_,
                 !.unchecked = @ \/ ~gold]
  BY DEF RefreshTask, become
<1>4. v \in Tasks \cup {NoTask}
  BY RandomTask
<1>5. kept \in Heroes
  BY <1>1 DEF Heroes
<1>6. counted = [kept EXCEPT !._current_task_count = smaller(@ + 1, day_free_task_count_ + 1),
                             !._last_task_advertisement_time = now]
  BY <1>1 DEF Heroes
<1> HIDE DEF n
<1>7. /\ counted \in Heroes
      /\ counted.records = info.records /\ counted._current = info._current
      /\ counted.entered = info.entered /\ counted.gold = info.gold
      /\ counted.jewel = info.jewel /\ counted.spirit = info.spirit
      /\ counted.unchecked = info.unchecked
      /\ counted._last_day_lottery_time = info._last_day_lottery_time
  BY <1>1, <1>2, <1>5 DEF Heroes
<1> DEFINE j == addTask(counted, v)
<1> HIDE DEF kept, counted
<1>8. j \in Heroes /\ j = [counted EXCEPT !.tasks = j.tasks]
  BY <1>4, <1>7, AddTask
<1> HIDE DEF j
<1> DEFINE g == IF v = NoTask THEN info.gold ELSE info.gold - refresh_task_gold_
           w == info.unchecked \/ ~gold
<1>9. /\ j.records = info.records /\ j._current = info._current /\ j.entered = info.entered
      /\ j.gold = info.gold /\ j.jewel = info.jewel /\ j.spirit = info.spirit
      /\ j.unchecked = info.unchecked /\ j._last_day_lottery_time = info._last_day_lottery_time
  BY <1>7, <1>8 DEF Heroes
<1>10. info' = [j EXCEPT !.gold = g, !.unchecked = w]
  BY <1>3, <1>6, <1>9 DEF j
<1>11. g \in Int /\ w \in BOOLEAN /\ (~w /\ info.gold >= 0 => g >= 0)
  BY <1>1 DEF Heroes, RefreshTask
<1> HIDE DEF g, w
<1>12. /\ info' \in Heroes
       /\ info'.records = info.records /\ info'._current = info._current
       /\ info'.entered = info.entered /\ info'.gold = g /\ info'.jewel = info.jewel
       /\ info'.spirit = info.spirit /\ info'.unchecked = w
       /\ info'._last_day_lottery_time = info._last_day_lottery_time
  BY <1>8, <1>9, <1>10, <1>11 DEF Heroes
<1>13. PaidInv(info')
  BY <1>11, <1>12 DEF HeroInv, PaidInv, w
<1> QED
  BY <1>12, <1>13, SameStages DEF HeroInv

\* The shop checks what it takes.
LEMMA ShopKeeps ==
  ASSUME HeroInv(info, now), now \in Nat,
         \/ \E g \in Grids : ReqModifyCurrentHero(g) \/ \E cheap \in CheapGold : ReqBuyHero(g, cheap)
         \/ ReqReliveReq \/ ReqConcernWeiXin
         \/ \E p \in Packs : ReqBuySpirit(p)
         \/ \E l \in Lotions : ReqBuyLotion(l)
         \/ \E b \in Boxes : ReqDayLottery(b)
  PROVE  HeroInv(info', now)
<1> USE EconomyConstants
<1>0. /\ info \in Heroes /\ PaidInv(info)
      /\ info._last_day_lottery_time <= now
  BY DEF HeroInv
<1>1. ASSUME NEW g \in Grids, ReqModifyCurrentHero(g) PROVE HeroInv(info', now)
  BY <1>1, GoodsChange DEF ReqModifyCurrentHero, become
<1>2. ASSUME NEW g \in Grids, NEW cheap \in CheapGold, ReqBuyHero(g, cheap)
      PROVE  HeroInv(info', now)
  <2> DEFINE price == larger(0, GridGold[g] - cheap)
             j == [info EXCEPT !.gold = info.gold - price]
  <2>1. price \in Nat
    BY DEF larger
  <2>2. info.gold >= price /\ info' = [j EXCEPT !.heroes = @ \cup {g}]
    BY <1>2 DEF ReqBuyHero, become
  <2> HIDE DEF price
  <2>3. info.gold - price \in Int /\ info.gold - price >= 0
    BY <1>0, <2>1, <2>2 DEF Heroes
  <2>4. HeroInv(j, now)
    BY <2>3, BalanceChange
  <2>5. j.heroes \cup {g} \subseteq Grids
    BY <1>0 DEF Heroes
  <2> HIDE DEF j
  <2> QED
    BY <2>2, <2>4, <2>5, GoodsChange
<1>3. CASE ReqReliveReq
  <2>1. info.gold - relive_gold_ \in Int /\ info.gold - relive_gold_ >= 0
    BY <1>0, <1>3 DEF ReqReliveReq, Heroes
  <2> QED
    BY <1>3, <2>1, BalanceChange DEF ReqReliveReq, become
<1>4. CASE ReqConcernWeiXin
  <2> DEFINE j == [info EXCEPT !.concern_weixin = TRUE]
  <2>1. HeroInv(j, now) /\ j.gold = info.gold
    BY <1>0, GoodsChange DEF Heroes
  <2>2. info' = [j EXCEPT !.gold = @ + config_weixin_gold]
    BY <1>4 DEF ReqConcernWeiXin, become
  <2> HIDE DEF j
  <2>3. j.gold + config_weixin_gold \in Int /\ (j.gold >= 0 => j.gold + config_weixin_gold >= 0)
    BY <1>0, <2>1 DEF Heroes
  <2> QED
    BY <2>1, <2>2, <2>3, BalanceChange
<1>5. ASSUME NEW p \in Packs, ReqBuySpirit(p) PROVE HeroInv(info', now)
  <2> DEFINE j == [info EXCEPT !.jewel = info.jewel - p.jewel]
             k == [j EXCEPT !.spirit = info.spirit + p.spirit]
             l == [k EXCEPT !.day_buy_spirit = info.day_buy_spirit + 1]
  <2>1. p.jewel \in Nat /\ p.spirit \in Nat
    OBVIOUS
  <2>2. info.jewel >= p.jewel /\ info' = [l EXCEPT !._last_buy_spirit_time = now]
    BY <1>0, <1>5 DEF ReqBuySpirit, become, Heroes
  <2>3. /\ info.jewel - p.jewel \in Int /\ info.jewel - p.jewel >= 0
        /\ info.spirit + p.spirit \in Int /\ (info.spirit >= 0 => info.spirit + p.spirit >= 0)
        /\ info.day_buy_spirit + 1 \in Nat
    BY <1>0, <2>1, <2>2 DEF Heroes
  <2>4. HeroInv(j, now) /\ j.spirit = info.spirit
    BY <1>0, <2>3, BalanceChange DEF Heroes
  <2> HIDE DEF j
  <2>5. HeroInv(k, now)
    BY <2>3, <2>4, BalanceChange
  <2> HIDE DEF k
  <2>6. HeroInv(l, now)
    BY <2>3, <2>5, CountChange
  <2> HIDE DEF l
  <2> QED
    BY <2>2, <2>6, CountChange
<1>6. ASSUME NEW l \in Lotions, ReqBuyLotion(l) PROVE HeroInv(info', now)
  <2> DEFINE price == LotionPrice[l].count
             S == info.lotions \cup {l}
             j == [info EXCEPT !.jewel = info.jewel - price]
             k == [info EXCEPT !.gold = info.gold - price]
  <2>1. price \in Nat /\ S \subseteq Lotions
    BY <1>0 DEF Heroes
  <2>2. \/ info.jewel >= price /\ info' = [j EXCEPT !.lotions = S]
        \/ info.gold >= price /\ info' = [k EXCEPT !.lotions = S]
    BY <1>0, <1>6 DEF ReqBuyLotion, become, Heroes
  <2> HIDE DEF price, S
  <2>3. /\ info.jewel - price \in Int /\ (info.jewel >= price => info.jewel - price >= 0)
        /\ info.gold - price \in Int /\ (info.gold >= price => info.gold - price >= 0)
    BY <1>0, <2>1 DEF Heroes
  <2>4. /\ info.jewel >= price => HeroInv(j, now)
        /\ info.gold >= price => HeroInv(k, now)
    BY <2>3, BalanceChange
  <2> HIDE DEF j, k
  <2>5. CASE info.jewel >= price /\ info' = [j EXCEPT !.lotions = S]
    BY ONLY <2>1, <2>4, <2>5, GoodsChange
  <2>6. CASE info.gold >= price /\ info' = [k EXCEPT !.lotions = S]
    BY ONLY <2>1, <2>4, <2>6, GoodsChange
  <2> QED
    BY <2>2, <2>5, <2>6
<1>7. ASSUME NEW b \in Boxes, ReqDayLottery(b) PROVE HeroInv(info', now)
  <2> DEFINE drawn == [info EXCEPT !._last_day_lottery_time = now]
             S == info.lotions \cup {b.lotion}
  <2>1. b.count \in Nat /\ (b.type = "lotion" => b.lotion \in Lotions)
    OBVIOUS
  <2>2. /\ drawn.gold = info.gold /\ drawn.jewel = info.jewel /\ drawn.lotions = info.lotions
    BY <1>0 DEF Heroes
  <2>3. HeroInv(drawn, now)
    <3>1. now <= now
      OBVIOUS
    <3> QED
      BY ONLY HeroInv(info, now), now \in Nat, <3>1, CountChange
  <2>4. \/ b.type = "lotion" /\ info' = [drawn EXCEPT !.lotions = S]
        \/ info' = [drawn EXCEPT !.gold = info.gold + b.count]
        \/ info' = [drawn EXCEPT !.jewel = info.jewel + b.count]
    BY <1>7, <2>2 DEF ReqDayLottery, become
  <2> HIDE DEF drawn
  <2>5. /\ info.gold + b.count \in Int /\ (drawn.gold >= 0 => info.gold + b.count >= 0)
        /\ info.jewel + b.count \in Int /\ (drawn.jewel >= 0 => info.jewel + b.count >= 0)
        /\ b.type = "lotion" => S \subseteq Lotions
    BY <1>0, <2>1, <2>2 DEF Heroes
  <2> HIDE DEF S
  <2>6. b.type = "lotion" => HeroInv([drawn EXCEPT !.lotions = S], now)
    BY <2>3, <2>5, GoodsChange
  <2>7. /\ HeroInv([drawn EXCEPT !.gold = info.gold + b.count], now)
        /\ HeroInv([drawn EXCEPT !.jewel = info.jewel + b.count], now)
    BY <2>3, <2>5, BalanceChange
  <2> QED
    BY <2>4, <2>6, <2>7
<1> QED
  BY <1>1, <1>2, <1>3, <1>4, <1>5, <1>6, <1>7

\* The commands of game masters mark the hero, or leave no debt.
LEMMA MasterKeeps ==
  ASSUME HeroInv(info, now), now \in Nat,
         \/ \E n \in Amounts : parseCmdReqModifyGold(n) \/ parseCmdReqModifyJewel(n)
                              \/ parseCmdReqModifySpirit(n)
         \/ \E n \in 0..MaxDone : parseCmdReqModifyTaskCompleteCount(n) \/ ReqReplaceTask(n)
         \/ ResetDailyLottery \/ ResetWeiXin \/ ResetGame
  PROVE  HeroInv(info', now)
<1> USE EconomyConstants
<1>0. info \in Heroes
  BY DEF HeroInv
<1>1. ASSUME NEW n \in Amounts, parseCmdReqModifyGold(n) PROVE HeroInv(info', now)
  <2> DEFINE g == larger(0, info.gold + n)
  <2>1. g \in Int /\ g >= 0
    BY <1>0 DEF Heroes, larger
  <2>2. info' = [info EXCEPT !.gold = g]
    BY <1>1 DEF parseCmdReqModifyGold, become
  <2> HIDE DEF g
  <2> QED
    BY <2>1, <2>2, BalanceChange
<1>2. ASSUME NEW n \in Amounts, parseCmdReqModifyJewel(n) \/ parseCmdReqModifySpirit(n)
      PROVE  HeroInv(info', now)
  <2> DEFINE j == info.jewel + n
             s == info.spirit + n
  <2>1. j \in Int /\ s \in Int
    <3>1. n \in Int
      OBVIOUS
    <3> QED
      BY ONLY <1>0, <3>1 DEF Heroes
  <2>2. \/ info' = [info EXCEPT !.jewel = j, !.unchecked = TRUE]
        \/ info' = [info EXCEPT !.spirit = s, !.unchecked = TRUE]
    BY <1>2 DEF parseCmdReqModifyJewel, parseCmdReqModifySpirit, become
  <2> HIDE DEF j, s
  <2>3. /\ info' \in Heroes /\ info'.unchecked
        /\ info'.records = info.records /\ info'._current = info._current
        /\ info'.entered = info.entered
        /\ info'._last_day_lottery_time = info._last_day_lottery_time
    BY ONLY <1>0, <2>1, <2>2 DEF Heroes
  <2>4. PaidInv(info') /\ info'._last_day_lottery_time <= now
    BY <2>3 DEF HeroInv, PaidInv
  <2> QED
    BY ONLY HeroInv(info, now), <2>3, <2>4, SameStages
<1>3. ASSUME NEW n \in 0..MaxDone, parseCmdReqModifyTaskCompleteCount(n) PROVE HeroInv(info', now)
  <2>1. n \in Nat
    OBVIOUS
  <2>2. HeroInv([info EXCEPT !.complete_task_count = n], now)
    BY ONLY HeroInv(info, now), <2>1, CountChange
  <2> QED
    BY <1>3, <2>2 DEF parseCmdReqModifyTaskCompleteCount, become
<1>4. ASSUME NEW n \in 0..MaxDone, ReqReplaceTask(n) PROVE HeroInv(info', now)
  <2>1. PICK S \in SUBSET candidates([info EXCEPT !.tasks = {}], NoTask) :
          info' = [info EXCEPT !.tasks = S]
    BY <1>4 DEF ReqReplaceTask, become
  <2>2. S \subseteq Tasks
    BY DEF candidates
  <2> QED
    BY ONLY HeroInv(info, now), <2>1, <2>2, GoodsChange
<1>5. CASE ResetDailyLottery
  <2>1. 0 \in Nat /\ 0 <= now
    OBVIOUS
  <2>2. HeroInv([info EXCEPT !._last_day_lottery_time = 0], now)
    BY ONLY HeroInv(info, now), <2>1, CountChange
  <2> QED
    BY <1>5, <2>2 DEF ResetDailyLottery, become
<1>6. CASE ResetWeiXin
  <2>1. FALSE \in BOOLEAN
    OBVIOUS
  <2> QED
    BY ONLY HeroInv(info, now), <1>6, <2>1, GoodsChange DEF ResetWeiXin, become
<1>7. CASE ResetGame
  BY <1>0, <1>7, NewHeroHolds DEF ResetGame, become, Heroes
<1> QED
  BY <1>1, <1>2, <1>3, <1>4, <1>5, <1>6, <1>7

\* Spirit recovers up to its maximum.
LEMMA RecoverKeeps ==
  ASSUME HeroInv(info, now), now \in Nat, recoverSpirit
  PROVE  HeroInv(info', now)
<1> USE EconomyConstants
<1> DEFINE s == IF info.spirit < config_max_spirit_
                THEN smaller(info.spirit + config_recover_spirit_, config_max_spirit_) ELSE info.spirit
           j == [info EXCEPT !.spirit = s]
<1>1. s \in Int /\ (info.spirit >= 0 => s >= 0)
  BY DEF HeroInv, Heroes, smaller
<1>2. info' = [j EXCEPT !._last_recover_spirit_time = now]
  BY DEF recoverSpirit, become
<1> HIDE DEF s
<1>3. HeroInv(j, now)
  BY ONLY HeroInv(info, now), <1>1, BalanceChange
<1> HIDE DEF j
<1> QED
  BY ONLY now \in Nat, <1>2, <1>3, CountChange

-----------------------------------------------------------------------------
(* The theorems *)

\* A new hero begins within the invariant ...
LEMMA EconomyInit == Init => EconomyInv
<1> SUFFICES ASSUME Init PROVE EconomyInv
  OBVIOUS
<1>1. now \in Nat /\ inMem \in BOOLEAN
  BY EconomyConstants DEF Init
<1>2. HeroInv(LoadFromConfig(0), now)
  BY <1>1, NewHeroHolds
<1> QED
  BY <1>1, <1>2, DayRefreshKeeps DEF Init, EconomyInv

\* ... and every request, command, event, save and load keeps it.
LEMMA EconomyStep == EconomyInv /\ [Next]_vars => EconomyInv'
<1> SUFFICES ASSUME EconomyInv, [Next]_vars PROVE EconomyInv'
  OBVIOUS
<1>0. now \in Nat /\ inMem \in BOOLEAN /\ HeroInv(info, now) /\ HeroInv(row, now)
  BY DEF EconomyInv
<1>a. ASSUME HeroInv(info', now), UNCHANGED <<row, inMem, now>> PROVE EconomyInv'
  BY <1>0, <1>a DEF EconomyInv
<1>1. ASSUME NEW st \in Played \cup {NoStage}, NEW admin \in BOOLEAN, EnterGame(st, admin)
      PROVE  EconomyInv'
  BY <1>0, <1>1, <1>a, EnterKeeps DEF EnterGame, become
<1>2. ASSUME NEW st \in Played \cup {NoStage, <<0, 0>>}, NEW ok \in BOOLEAN,
             NEW done \in {{}} \cup {{t} : t \in Tasks}, NEW drops \in Drops,
             NEW used \in {{}} \cup {{l} : l \in Lotions},
             ReqExitGame(st, ok, done, drops, used)
      PROVE  EconomyInv'
  <2>1. UNCHANGED <<row, inMem, now>>
    BY <1>2 DEF ReqExitGame, become
  <2>2. HeroInv(info', now)
    BY <1>0, <1>2, ExitKeeps
  <2> QED
    BY <2>1, <2>2, <1>a
<1>3. ASSUME NEW c \in Chapters, ReqUnlockChapter(c) PROVE EconomyInv'
  BY <1>0, <1>3, <1>a, UnlockKeeps DEF ReqUnlockChapter, become
<1>4. ASSUME NEW t \in Tasks \cup {NoTask}, NEW gold \in BOOLEAN, RefreshTask(t, gold)
      PROVE  EconomyInv'
  BY <1>0, <1>4, <1>a, RefreshTaskKeeps DEF RefreshTask, become
<1>5. ASSUME \/ \E g \in Grids : ReqModifyCurrentHero(g) \/ \E cheap \in CheapGold : ReqBuyHero(g, cheap)
             \/ ReqReliveReq \/ ReqConcernWeiXin
             \/ \E p \in Packs : ReqBuySpirit(p)
             \/ \E l \in Lotions : ReqBuyLotion(l)
             \/ \E b \in Boxes : ReqDayLottery(b)
      PROVE  EconomyInv'
  <2>1. HeroInv(info', now)
    BY <1>0, <1>5, ShopKeeps
  <2> QED
    BY <1>5, <1>a, <2>1 DEF ReqModifyCurrentHero, ReqBuyHero, ReqReliveReq, ReqConcernWeiXin,
      ReqBuySpirit, ReqBuyLotion, ReqDayLottery, become
<1>6. ASSUME \/ \E n \in Amounts : parseCmdReqModifyGold(n) \/ parseCmdReqModifyJewel(n)
                                  \/ parseCmdReqModifySpirit(n)
             \/ \E n \in 0..MaxDone : parseCmdReqModifyTaskCompleteCount(n) \/ ReqReplaceTask(n)
             \/ ResetDailyLottery \/ ResetWeiXin \/ ResetGame
      PROVE  EconomyInv'
  <2>1. HeroInv(info', now)
    BY <1>0, <1>6, MasterKeeps
  <2> QED
    BY <1>6, <1>a, <2>1 DEF parseCmdReqModifyGold, parseCmdReqModifyJewel, parseCmdReqModifySpirit,
      parseCmdReqModifyTaskCompleteCount, ReqReplaceTask, ResetDailyLottery, ResetWeiXin,
      ResetGame, become
<1>7. CASE tick
  BY <1>0, <1>7, LaterToo DEF tick, EconomyInv
<1>8. CASE eventPerMin \/ SendClientInit
  BY <1>0, <1>8, <1>a, DayRefreshKeeps DEF eventPerMin, SendClientInit, become
<1>9. CASE recoverSpirit
  BY <1>0, <1>9, <1>a, RecoverKeeps DEF recoverSpirit, become
<1>10. CASE SaveHero
  BY <1>0, <1>10 DEF SaveHero, EconomyInv
<1>11. CASE Destroy
  BY <1>0, <1>11 DEF Destroy, EconomyInv
<1>12. CASE load
  <2>1. HeroInv(set_info(row), now)
    BY <1>0, SetInfoKeeps
  <2> QED
    BY <1>0, <1>12, <2>1, DayRefreshKeeps DEF load, EconomyInv
<1>13. CASE UNCHANGED vars
  BY <1>0, <1>13 DEF vars, EconomyInv
<1> QED
  BY <1>1, <1>2, <1>3, <1>4, <1>5, <1>6, <1>7, <1>8, <1>9, <1>10, <1>11, <1>12, <1>13 DEF Next

\* The hero in memory and its row have their types at all times, with open chapters behind
\* passed stages, entered stages and no unmarked debt.
THEOREM EconomyInvariant == Spec => []EconomyInv
BY EconomyInit, EconomyStep, PTL DEF Spec

\* A chapter above the first two is open only while the stage that unlocks it is passed
\* (ReqUnlockChapter, ReqExitGame, SaveHero, set_info).
THEOREM ChaptersAlwaysEarned == Spec => []ChaptersEarned
<1>1. EconomyInv => ChaptersEarned
  BY DEF EconomyInv, HeroInv, EarnedInv, ChaptersEarned
<1> QED
  BY <1>1, EconomyInvariant, PTL

\* The stage a hero can be rewarded for was entered since its last exit (EnterGame,
\* ReqExitGame).
THEOREM StagesAlwaysEntered == Spec => []StageEntered
<1>1. EconomyInv => StageEntered
  BY DEF EconomyInv, HeroInv, EnteredInv, StageEntered
<1> QED
  BY <1>1, EconomyInvariant, PTL

\* No balance of a hero is negative unless one of the four operations that do not look at
\* it took from the hero (ReqBuyHero, ReqBuyLotion, ReqBuySpirit, ReqExitGame, ...).
THEOREM NeverInDebt == Spec => []NoDebt
<1>1. EconomyInv => NoDebt
  BY DEF EconomyInv, HeroInv, PaidInv, NoDebt
<1> QED
  BY <1>1, EconomyInvariant, PTL

\* With the daily refresh at midnight the lottery is drawn at most once a day
\* (ReqDayLottery, isInToday).
THEOREM OneDrawADay ==
  ASSUME day_Refresh_time_ = 0
  PROVE  Spec => DayLottery
<1>1. ASSUME EconomyInv, NEW b \in Boxes, ReqDayLottery(b)
      PROVE  gameDay(info._last_day_lottery_time) < gameDay(now)
  <2> DEFINE t == info._last_day_lottery_time
  <2>1. now \in Nat /\ t \in Nat /\ t <= now /\ DayLength \in Nat \ {0}
    BY <1>1, EconomyConstants DEF EconomyInv, HeroInv, Heroes
  <2>2. ~isInToday(t)
    BY <1>1 DEF ReqDayLottery
  <2> HIDE DEF t
  <2>3. now \div DayLength \in Nat /\ now < DayLength * (now \div DayLength) + DayLength
    BY <2>1, DivBounds
  <2>4. t < DayLength * (now \div DayLength)
    BY <2>1, <2>2, <2>3 DEF isInToday
  <2>5. t \div DayLength < now \div DayLength
    BY <2>1, <2>4, DayBefore
  <2>6. gameDay(t) = t \div DayLength /\ gameDay(now) = now \div DayLength
    BY <2>1 DEF gameDay
  <2> QED
    BY <2>5, <2>6 DEF t
<1>2. EconomyInv /\ [Next]_vars =>
        [\A b \in Boxes : ReqDayLottery(b) =>
           info._last_day_lottery_time = 0 \/ gameDay(info._last_day_lottery_time) < gameDay(now)]_vars
  BY <1>1
<1> QED
  BY <1>2, EconomyInvariant, PTL DEF Spec, DayLottery
=============================================================================
