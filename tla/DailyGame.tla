------------------------------ MODULE DailyGame ------------------------------
(***************************************************************************)
(* The daily game: its ranking (class RankManager,                          *)
(* src/gameserver/RankManager.cpp), a hero's part in it (class DreamHero,     *)
(* src/gameserver/DreamHero.cpp) and the prize at the daily refresh.         *)
(*                                                                          *)
(* A game is named by its begin time, and a time is the day it lies in.     *)
(* Heroes play, leave, are saved and come back around the refresh, and the  *)
(* prize of a game reaches a hero in three ways: in memory, by an SQL       *)
(* statement on the row, or when the hero is loaded later.                  *)
(*                                                                          *)
(* day_Refresh_time_ is midnight, so that isInToday compares days; a saved  *)
(* row is in its table at once.  The name and the time of entry, by which   *)
(* equal scores are ordered, are left out: equal scores come in any order.  *)
(***************************************************************************)
EXTENDS Naturals, Sequences, FiniteSets, Functions

Seqs == INSTANCE SequencesExt

CONSTANTS
  Accounts,
  Scores,
  _daily_max_rank_size,
  _max_daily_progress,
  PaidRanks,      \* ranks 1..PaidRanks have a prize
  MaxResets,      \* size of daily_game_reset_jewel_config_
  Batch,          \* entries of the ranking that one statement saves
  MaxDay          \* bound on the days

ASSUME DailyGameConstants ==
  /\ IsFiniteSet(Accounts)
  /\ Scores \subseteq Nat \ {0}
  /\ {_daily_max_rank_size, _max_daily_progress, PaidRanks, MaxResets} \subseteq Nat
  /\ {Batch, MaxDay} \subseteq Nat \ {0}

VARIABLES
  day,                    \* g_server_time
  _daily_game_begin_time,
  _heroes_daily_rank,     \* list of [acc, score, rank, time]
  _heroes_rank,           \* map of ranks; 0 for an account that has none
  _min_daily_score,       \* never initialized
  hero,                   \* where a hero is: "out", "reply" (being loaded), "in"
  info,                   \* its data
  row,                    \* table `character'
  rankTable,              \* table `hero_daily_game_rank'
  beginRow,               \* table `heroes_status'
  final                   \* not in the code: game -> account -> its rank at the end

rankVars == <<_daily_game_begin_time, _heroes_daily_rank, _heroes_rank, _min_daily_score>>
dbVars == <<row, rankTable, beginRow>>
vars == <<day, rankVars, hero, info, dbVars, final>>

-----------------------------------------------------------------------------
(* Helpers.  Definitions named ..._bug are variants of the definition after  *)
(* them with a plausible mistake; no action uses them.                        *)

\* DreamHero::LoadFromConfig.  prize is daily_game_gold, named by the rank that earns it;
\* of and claimed are not in the code: the game of that prize, and the prizes in the
\* hero's gold.
NewHero ==
  [_daily_game_time |-> 0, _daily_game_prize_time |-> 0, prize |-> 0, of |-> 0,
   progress |-> 0, hp |-> TRUE, resets |-> 0, reset_time |-> 0,
   claimed |-> [d \in 0..MaxDay |-> 0]]

\* A hero without a part in the game in progress.
fresh(h) == [h EXCEPT !.progress = 0, !.hp = TRUE, !.resets = 0]

\* RankManager::GetDailyGamePrize
GetDailyGamePrize(rank) == IF rank <= PaidRanks THEN rank ELSE 0

\* The lists of some entries in the order of DailyRank.
orders(entries) ==
  {s \in Bijection(1..Cardinality(entries), entries) :
     \A i, j \in DOMAIN s : i < j => s[i].score >= s[j].score}

ranked(l) == [i \in DOMAIN l |-> [l[i] EXCEPT !.rank = i]]

\* The entry of an account, or 0.
entryOf(l, a) == IF \E i \in DOMAIN l : l[i].acc = a THEN CHOOSE i \in DOMAIN l : l[i].acc = a ELSE 0

\* The ranks that the entries of a list say.
ranksOf(l) == [a \in Accounts |-> IF entryOf(l, a) = 0 THEN 0 ELSE l[entryOf(l, a)].rank]

\* RankManager::save.  The statement after a full one lacks its head and fails.
saved(l) == SubSeq(l, 1, IF Len(l) < Batch THEN Len(l) ELSE Batch)

\* The game stays open after its prize.
DailyGamePrize_bug(h, gold) ==
  IF h._daily_game_prize_time = h._daily_game_time THEN h
  ELSE [h EXCEPT !.of = h._daily_game_time, !.prize = gold]

\* DreamHero::DailyGamePrize.  The game's time is set back to that of the last prize.
DailyGamePrize(h, gold) ==
  IF h._daily_game_prize_time = h._daily_game_time THEN h
  ELSE [h EXCEPT !.of = h._daily_game_time, !.prize = gold,
                 !._daily_game_time = h._daily_game_prize_time]

\* update `character' set `daily_game_gold', `daily_game_prize_time'
prizeRow(h, gold) ==
  [h EXCEPT !.of = _daily_game_begin_time, !.prize = gold,
            !._daily_game_prize_time = _daily_game_begin_time]

\* DreamHero::TryToGetGamePrize: an earlier game without a prize is paid by its progress.
TryToGetGamePrize(h) ==
  IF h._daily_game_time \in {_daily_game_begin_time, 0, h._daily_game_prize_time} THEN h
  ELSE [h EXCEPT !.of = h._daily_game_time, !.prize = GetDailyGamePrize(h.progress + 1),
                 !._daily_game_prize_time = h._daily_game_time]

\* DreamHero::set_info: the progress in an earlier game is gone before it is paid.
set_info(h) ==
  TryToGetGamePrize(IF h._daily_game_time = _daily_game_begin_time THEN h ELSE fresh(h))

-----------------------------------------------------------------------------
\* An empty database: RankManager::Init begins the first game.
Init ==
  /\ day = 1
  /\ _daily_game_begin_time = 1
  /\ _heroes_daily_rank = <<>>
  /\ _heroes_rank = [a \in Accounts |-> 0]
  /\ _min_daily_score \in {0} \cup Scores
  /\ hero = [a \in Accounts |-> "out"]
  /\ info = [a \in Accounts |-> NewHero]
  /\ row = [a \in Accounts |-> NewHero]
  /\ rankTable = <<>>
  /\ beginRow = 0
  /\ final = [d \in 0..MaxDay |-> [a \in Accounts |-> 0]]

-----------------------------------------------------------------------------
(* The ranking *)

\* The map is not filled again.
updateHeroDailyRank_bug(a, score) ==
  LET l == _heroes_daily_rank
      known == entryOf(l, a) # 0
      full == Cardinality({b \in Accounts : _heroes_rank[b] # 0}) >= _daily_max_rank_size
      need_rank == score > _min_daily_score
      need_add == ~known /\ (need_rank \/ ~full)
      next == IF known THEN [l EXCEPT ![entryOf(l, a)].score = score]
              ELSE IF need_add
              THEN Append(l, [acc |-> a, score |-> score, rank |-> Len(l) + 1, time |-> day])
              ELSE l
  IN  /\ _min_daily_score' = IF need_add THEN score ELSE _min_daily_score
      /\ _heroes_daily_rank' \in IF need_rank THEN {ranked(s) : s \in orders(Range(next))} ELSE {next}
      /\ _heroes_rank' = IF need_add THEN [_heroes_rank EXCEPT ![a] = Len(l) + 1] ELSE _heroes_rank

\* RankManager::updateHeroDailyRank: a known entry gets the score, a new one is appended
\* unless the ranking is full and the score not above _min_daily_score, which is the score
\* last added.  Only a score above it makes the list sorted again.
updateHeroDailyRank(a, score) ==
  LET l == _heroes_daily_rank
      known == entryOf(l, a) # 0
      full == Cardinality({b \in Accounts : _heroes_rank[b] # 0}) >= _daily_max_rank_size
      need_rank == score > _min_daily_score
      need_add == ~known /\ (need_rank \/ ~full)
      next == IF known THEN [l EXCEPT ![entryOf(l, a)].score = score]
              ELSE IF need_add
              THEN Append(l, [acc |-> a, score |-> score, rank |-> Len(l) + 1, time |-> day])
              ELSE l
  IN  /\ _min_daily_score' = IF need_add THEN score ELSE _min_daily_score
      /\ _heroes_daily_rank' \in IF need_rank THEN {ranked(s) : s \in orders(Range(next))} ELSE {next}
      /\ _heroes_rank' = IF need_rank THEN ranksOf(_heroes_daily_rank')
                         ELSE IF need_add THEN [_heroes_rank EXCEPT ![a] = Len(l) + 1]
                         ELSE _heroes_rank

\* RankManager::removeHero.  The map is one ahead of the list, the removed account stays
\* in it, and the entry after the removed one is passed over.  Removing the last entry
\* increments end(), which leads a list of libstdc++ back to its beginning.
removeHero(a) ==
  LET l == _heroes_daily_rank
      k == entryOf(l, a)
      last == k # 0 /\ k = Len(l)
      rankAt(i) == IF last THEN k + i - 1 ELSE IF k = 0 \/ i < k THEN i ELSE i - 2
      renumbered == [i \in DOMAIN l |-> IF k # 0 /\ i = k + 1 THEN l[i]
                                        ELSE [l[i] EXCEPT !.rank = rankAt(i)]]
  IN  /\ _heroes_daily_rank' = IF k = 0 THEN renumbered ELSE Seqs!RemoveAt(renumbered, k)
      /\ _heroes_rank' = [b \in Accounts |->
           LET i == entryOf(l, b)
           IN  IF i = 0 \/ (k # 0 /\ i = k + 1) THEN 0 ELSE IF i = k THEN k ELSE rankAt(i) + 1]
      /\ UNCHANGED _min_daily_score

-----------------------------------------------------------------------------
(* Requests *)

\* DreamHero::ReqUpdateDailyGameProgress: the next step or the first, with the hero alive
\* before.  A refused request, too, takes the hero into the game in progress.
\* (daily_game_record_progress is never other than 0.)
ReqUpdateDailyGameProgress(a, progress, hp, score) ==
  LET h == IF info[a]._daily_game_time = _daily_game_begin_time THEN info[a]
           ELSE [fresh(info[a]) EXCEPT !._daily_game_time = _daily_game_begin_time]
      valid == /\ h.progress # _max_daily_progress
               /\ h.hp
               /\ progress \in {1, IF hp THEN h.progress + 1 ELSE h.progress}
  IN  /\ hero[a] = "in"
      /\ \/ /\ valid
            /\ info' = [info EXCEPT ![a] = [h EXCEPT !.progress = IF hp THEN progress ELSE @, !.hp = hp]]
            /\ updateHeroDailyRank(a, score)
         \/ /\ ~valid
            /\ info' = [info EXCEPT ![a] = h]
            /\ UNCHANGED <<_heroes_daily_rank, _heroes_rank, _min_daily_score>>
      /\ UNCHANGED <<day, _daily_game_begin_time, hero, dbVars, final>>

\* DreamHero::ReqResetDailyGameProgress, with enough jewels.
ReqResetDailyGameProgress(a) ==
  LET h == info[a]
      count == IF h.reset_time = day THEN h.resets + 1 ELSE 1
  IN  /\ hero[a] = "in"
      /\ h._daily_game_time = day /\ h.progress # 0
      /\ count <= MaxResets
      /\ info' = [info EXCEPT ![a] = [h EXCEPT
           !.progress = 0, !.hp = TRUE, !.resets = count, !.reset_time = day]]
      /\ UNCHANGED <<day, rankVars, hero, dbVars, final>>

ReqReceiveDailyGamePrize(a) ==
  /\ hero[a] = "in"
  /\ info[a].prize # 0
  /\ info' = [info EXCEPT ![a].claimed[info[a].of] = @ + 1, ![a].prize = 0]
  /\ UNCHANGED <<day, rankVars, hero, dbVars, final>>

\* Session::parseCmdReqResetResetDailyGame -> DreamHero::ResetDailyGame
ResetDailyGame(a) ==
  /\ hero[a] = "in"
  /\ info' = [info EXCEPT ![a] = [fresh(@) EXCEPT
       !._daily_game_time = 0, !._daily_game_prize_time = 0, !.reset_time = 0]]
  /\ removeHero(a)
  /\ UNCHANGED <<day, _daily_game_begin_time, hero, dbVars, final>>

\* Session::parseCmdReqClearDailyRankList
ClearRankList ==
  /\ _heroes_daily_rank' = <<>>
  /\ _heroes_rank' = [a \in Accounts |-> 0]
  /\ UNCHANGED <<day, _daily_game_begin_time, _min_daily_score, hero, info, dbVars, final>>

-----------------------------------------------------------------------------
(* The daily refresh *)

\* RankManager::DailyGameUpdate: the entries get the prize of their rank, in memory or in
\* their row; then every hero in memory is asked about an earlier game, while the begin
\* time is still that of the game that ends.
DailyGameUpdate ==
  LET l == _heroes_daily_rank
      gold(a) == GetDailyGamePrize(l[entryOf(l, a)].rank)
      listed(a) == entryOf(l, a) # 0
  IN  /\ info' = [a \in Accounts |->
           IF hero[a] # "in" THEN info[a]
           ELSE TryToGetGamePrize(IF listed(a) THEN DailyGamePrize(info[a], gold(a)) ELSE info[a])]
      /\ row' = [a \in Accounts |->
           IF hero[a] # "in" /\ listed(a) THEN prizeRow(row[a], gold(a)) ELSE row[a]]
      /\ rankTable' = saved(l)
      /\ final' = [final EXCEPT ![_daily_game_begin_time] = ranksOf(l)]
      /\ _heroes_daily_rank' = <<>>
      /\ _heroes_rank' = [a \in Accounts |-> 0]

\* DreamHeroManager::dayRefresh, from eventPerMin at the refresh hour
dayRefresh ==
  /\ day < MaxDay
  /\ DailyGameUpdate
  /\ day' = day + 1
  /\ _daily_game_begin_time' = day'
  /\ UNCHANGED <<_min_daily_score, hero, beginRow>>

\* eventPerMin comes more than a minute late, and the day passes without a refresh.
missRefresh ==
  /\ day < MaxDay
  /\ day' = day + 1
  /\ UNCHANGED <<rankVars, hero, info, dbVars, final>>

-----------------------------------------------------------------------------
(* Saving, loading, restarts *)

\* The database reads the row ...
login(a) ==
  /\ hero[a] = "out"
  /\ hero' = [hero EXCEPT ![a] = "reply"]
  /\ info' = [info EXCEPT ![a] = row[a]]
  /\ UNCHANGED <<day, rankVars, dbVars, final>>

\* ... and the hero is made of its answer.
CreateHero(a) ==
  /\ hero[a] = "reply"
  /\ hero' = [hero EXCEPT ![a] = "in"]
  /\ info' = [info EXCEPT ![a] = set_info(@)]
  /\ UNCHANGED <<day, rankVars, dbVars, final>>

SaveHero(a) ==
  /\ hero[a] = "in"
  /\ row' = [row EXCEPT ![a] = info[a]]
  /\ UNCHANGED <<day, rankVars, hero, info, rankTable, beginRow, final>>

Destroy(a) ==
  /\ hero[a] = "in"
  /\ hero' = [hero EXCEPT ![a] = "out"]
  /\ info' = [info EXCEPT ![a] = NewHero]
  /\ UNCHANGED <<day, rankVars, dbVars, final>>

\* RankManager::save, every five minutes
save ==
  /\ rankTable' = saved(_heroes_daily_rank)
  /\ UNCHANGED <<day, rankVars, hero, info, row, beginRow, final>>

\* DreamHeroManager::save, every minute: the begin time.
saveStatus ==
  /\ beginRow' = _daily_game_begin_time
  /\ UNCHANGED <<day, rankVars, hero, info, row, rankTable, final>>

\* DreamHeroManager::Load, RankManager::Load and RankManager::Init on these tables.
Load(table, begin) ==
  LET today == {e \in Range(table) : e.time = day}
  IN  /\ \E s \in orders(today) : _heroes_daily_rank' = s /\ _heroes_rank' = ranksOf(s)
      /\ _daily_game_begin_time' = IF begin = 0 THEN day ELSE begin
      /\ _min_daily_score' \in {0} \cup Scores
      /\ hero' = [a \in Accounts |-> "out"]
      /\ info' = [a \in Accounts |-> NewHero]
      /\ rankTable' = IF begin = 0 THEN saved(<<>>) ELSE table
      /\ beginRow' = begin
      /\ UNCHANGED <<day, final>>

\* The server is stopped (DreamHeroManager::SaveDreamHeroes) and started again.
restart ==
  /\ Load(saved(_heroes_daily_rank), _daily_game_begin_time)
  /\ row' = [a \in Accounts |-> IF hero[a] = "in" THEN info[a] ELSE row[a]]

\* The server crashes and is started again.
crash ==
  /\ Load(rankTable, beginRow)
  /\ UNCHANGED row

-----------------------------------------------------------------------------
HeroNext(a) ==
  \/ \E p \in 1.._max_daily_progress + 1, hp \in BOOLEAN, s \in Scores :
       ReqUpdateDailyGameProgress(a, p, hp, s)
  \/ ReqResetDailyGameProgress(a) \/ ReqReceiveDailyGamePrize(a)
  \/ login(a) \/ CreateHero(a) \/ SaveHero(a)
  \/ Destroy(a)

DayNext == dayRefresh \/ missRefresh \/ save \/ saveStatus \/ restart

\* The commands of game masters
GmNext == ClearRankList \/ \E a \in Accounts : ResetDailyGame(a)

Next == (\E a \in Accounts : HeroNext(a)) \/ DayNext \/ GmNext \/ crash

Spec == Init /\ [][Next]_vars

\* Without commands of game masters and crashes, and where a hero is saved between its last
\* change and Destroy.
savedFirst == \A a \in Accounts : hero[a] = "in" /\ hero'[a] = "out" => row'[a] = info[a]

NormalNext == ((\E a \in Accounts : HeroNext(a)) \/ DayNext) /\ savedFirst

NormalSpec == Init /\ [][NormalNext]_vars

\* Besides, no refresh is missed, and no hero is being loaded while the day is refreshed.
quiet ==
  day' # day => _daily_game_begin_time' = day' /\ \A a \in Accounts : hero[a] # "reply"

QuietSpec == Init /\ [][NormalNext /\ quiet]_vars

-----------------------------------------------------------------------------
(* Properties *)

\* No account is in the list twice.
ListedOnce ==
  \A i, j \in DOMAIN _heroes_daily_rank :
    _heroes_daily_rank[i].acc = _heroes_daily_rank[j].acc => i = j

\* The list is ranked, and _heroes_rank says the same.  The commands of game masters
\* break it (see removeHero), and so does a missed refresh followed by a restart.
MapAgrees ==
  /\ {_heroes_daily_rank[i].rank : i \in DOMAIN _heroes_daily_rank} = 1..Len(_heroes_daily_rank)
  /\ _heroes_rank = ranksOf(_heroes_daily_rank)

\* No prize of a game was given twice to a hero.
OnePrize ==
  \A a \in Accounts : \A h \in {info[a], row[a]} : \A d \in 1..MaxDay : h.claimed[d] <= 1

\* The prize that waits for a hero that was in the ranking at the end of that game is the
\* one of its rank.  A reload pays the prize of rank 1, also to those who were not in the
\* ranking: DailyGamePrize and DailyGameUpdate must have marked the game by then.
PrizeOfRank ==
  \A a \in Accounts : \A h \in {info[a], row[a]} :
    h.prize # 0 => final[h.of][a] \in {0, h.prize}
=============================================================================
