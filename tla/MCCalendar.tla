------------------------------ MODULE MCCalendar ------------------------------
(* The two parts of the game server that DreamHeroManager::eventPerMin drives *)
(* by the calendar, for TLC: the daily game and the sales promotions.  They   *)
(* share no state.  A behaviour is chosen at the start: one of the two, and   *)
(* its environment.                                                           *)
EXTENDS DailyGame, Promotions

CONSTANTS a1, a2

VARIABLE part

-----------------------------------------------------------------------------
(* The daily game: three players compete for a rank on one day, so that the   *)
(* ranking gets longer than _daily_max_rank_size and than the statement that *)
(* saves it; two compete across a refresh; one player collects prizes for     *)
(* several days, with refreshes that are missed; one plays while a game      *)
(* master is at work, heroes are destroyed unsaved and the process crashes.  *)

\* The accounts, scores, days and resets of a part.
bounds(accounts, score, days, resets) ==
  /\ day <= days /\ _min_daily_score <= score
  /\ \A i \in DOMAIN _heroes_daily_rank : _heroes_daily_rank[i].score <= score
  /\ \A a \in Accounts : info[a].resets <= resets /\ (a \notin accounts => hero[a] = "out")

limits ==
  \/ part = "scores" /\ bounds(Accounts, 2, 1, 0)
  \/ part = "refresh" /\ bounds({a1, a2}, 1, 2, 0)
  \/ part = "prizes" /\ bounds({a1}, 1, 3, 1)
  \/ part = "faults" /\ bounds({a1}, 1, 2, 1)

DailyInit == part \in {"scores", "refresh", "prizes", "faults"} /\ Init /\ limits
DailyNext ==
  /\ \/ part \in {"scores", "refresh"} /\ NormalNext /\ quiet
     \/ part = "prizes" /\ NormalNext
     \/ part = "faults" /\ Next
  /\ limits'

-----------------------------------------------------------------------------
(* Pairs of promotions, the first with any times, the second with a few; on  *)
(* time, or with midnights that are missed and timers that wrap around.      *)
promotions(time, show, begin, end, kind, grid) ==
  [time : time, show : show, begin : begin, end : end, kind : kind, grid : grid, amount : {1}]

PairConfigs ==
  {[p \in Promos |-> IF p = 1 THEN c ELSE d] :
     c \in promotions({"normal", "week", "offset"}, 0..2, 0..3, 0..3, {"hero"}, {0})
            \cup promotions({"week", "offset"}, {0}, {0, 1}, {1, 2}, {"open"}, {1}),
     d \in promotions({"normal"}, {1}, {1, 2}, {1, 4}, {"hero", "recharge"}, {0})
            \cup promotions({"week", "offset"}, {0}, {1}, {1, 2}, {"recharge", "open"}, {1})}

Missed == INSTANCE Promotions WITH Late <- TRUE, TimerRange <- 3

PromoInit == part \in {"timely", "late"} /\ PromotionsInit
PromoNext ==
  \/ part = "timely" /\ PromotionsNext
  \/ part = "late" /\ Missed!PromotionsNext

-----------------------------------------------------------------------------
\* A part that is not chosen keeps one of its initial states.
idleConfig == CHOOSE c \in Configs : TRUE

MCInit ==
  \/ /\ DailyInit
     /\ PromotionsInit /\ config = idleConfig /\ unset = 0
  \/ /\ PromoInit
     /\ Init /\ _min_daily_score = 0
MCNext ==
  \/ UNCHANGED <<part, promotionVars>> /\ DailyNext
  \/ UNCHANGED <<part, vars>> /\ PromoNext
MCSpec == MCInit /\ [][MCNext]_<<vars, part, promotionVars>>

\* The tables of the ranking are read after a crash only, and no property reads them.
MCView ==
  <<part, promotionVars, day, rankVars, hero, info, row, final,
    IF part = "faults" THEN <<rankTable, beginRow>> ELSE <<>>>>

-----------------------------------------------------------------------------
\* An account is in the ranking once, in every environment.  Without a game master, and
\* without missed refreshes and crashes, the ranks of the entries are 1, 2, ... and the map
\* tells a player the rank that the prize will be paid by, through updates with and without
\* sorting, refreshes, saves and restarts (updateHeroDailyRank, dayRefresh, Load).
RanksAgree ==
  /\ ListedOnce
  /\ part \in {"scores", "refresh"} => MapAgrees

\* A hero gets the prize of a game once, although it comes from the ranking, from its row
\* or from a reload (DailyGamePrize, DailyGameUpdate, TryToGetGamePrize).  A hero that is
\* destroyed unsaved can lose the mark of an earlier game to the statement on its row.
\* And the prize is the one of the rank the hero had at the end, even if it was away.
PrizeOnce ==
  /\ part = "prizes" => OnePrize
  /\ part = "refresh" => PrizeOfRank

\* A promotion runs only in its period, and one with fixed times or days since the opening
\* runs whenever it is its period, however often the server is restarted (init, DayPass,
\* apply, excute); with timers that fit in 32 bits, a DayPass every midnight and weeks that
\* do not begin after their end.
InPeriod == part = "timely" => RunsInPeriod

\* Every promotion counts exactly once while it runs and not at all before and after, along
\* timers, DayPass and the calls that apply, excute and DayPass make of each other, each of
\* which adds or subtracts by itself, late or not: the reductions, the rate (above what the
\* memory held) and the open grids are those of the promotions that run
\* (TimeShopPromotion::DayPass, apply, excute, exit).
Effects == EffectsExact
=============================================================================
