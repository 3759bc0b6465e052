----------------------------- MODULE Promotions ------------------------------
(***************************************************************************)
(* Sales promotions: ShopSalesPromotionManager and TimeShopPromotion         *)
(* (src/gameserver/ShopSalesPromotionManager.cpp).                           *)
(*                                                                          *)
(* A promotion waits, is shown (Apply), runs (Excute) and is destroyed.  One *)
(* with fixed times is driven by timers; one with days of the week or days   *)
(* since the server was opened by DayPass at midnight.  While it runs it     *)
(* lowers the price of a hero, raises the rate of a recharge or opens a grid *)
(* of the shop, by adding to counters when it begins and subtracting when it *)
(* ends.                                                                     *)
(*                                                                          *)
(* Time is in ticks; the server was opened at time 0, a midnight.  Timers    *)
(* fire on time (see Timers).                                                *)
(***************************************************************************)
EXTENDS Integers, FiniteSetsExt

CONSTANTS
  Promos,     \* sales_promotion_id, by which the list is ordered
  Configs,    \* tables time_shop_sales_promotion: promotion -> [time, show, begin, end, kind, grid, amount]
  Grids,      \* grids of the shop
  DayLength,  \* ticks of a day
  WeekLength, \* days of a week
  TimerRange, \* the range of the u32 that a timer's milliseconds are kept in, in ticks
  Unset,      \* the values that _recharge_gold_ratting may have, as no constructor sets it
  Late,       \* may eventPerMin miss midnight?
  MaxNow      \* bound on the time

ASSUME PromotionConstants ==
  /\ Promos \subseteq Int
  /\ \A c \in Configs : \A p \in Promos :
       /\ c[p].time \in {"normal", "week", "offset"}
       /\ {c[p].show, c[p].begin, c[p].end, c[p].amount} \subseteq Nat
       /\ c[p].kind \in {"hero", "recharge", "open"}
       /\ c[p].grid \in Grids
  /\ {DayLength, WeekLength, TimerRange} \subseteq Nat \ {0}
  /\ Unset \subseteq Int /\ Late \in BOOLEAN /\ MaxNow \in Nat

VARIABLES
  config,                 \* the table
  _type,                  \* of each promotion: "Wait", "Apply", "Excute", "Destroy"
  _shopSalesPromotions,   \* the list
  timer,                  \* timers of a promotion: a set of [call, at]
  _cheap_gold,            \* grid -> reduction
  _recharge_gold_ratting,
  unset,                  \* not in the code: its value before the first promotion
  open,                   \* grids that promotions have opened
  now,                    \* g_server_time
  midnight,               \* DayPass is due
  up                      \* the game server runs

promoVars == <<_type, _shopSalesPromotions, timer, _cheap_gold, _recharge_gold_ratting, unset, open>>
promotionVars == <<config, promoVars, now, midnight, up>>

PromotionsInit ==
  /\ config \in Configs
  /\ up = FALSE
  /\ now = 0
  /\ midnight = FALSE
  /\ _type = [p \in Promos |-> "Wait"]
  /\ _shopSalesPromotions = {}
  /\ timer = [p \in Promos |-> {}]
  /\ _cheap_gold = [g \in Grids |-> 0]
  /\ unset \in Unset
  /\ _recharge_gold_ratting = unset
  /\ open = {}

-----------------------------------------------------------------------------
(* The days of a promotion *)

normal(p) == config[p].time = "normal"

\* tm_wday, or GameConfig::getOpenServerPassedDay
dayOf(p) == LET passed_day == now \div DayLength
          IN  IF config[p].time = "week" THEN passed_day % WeekLength ELSE passed_day

\* The days from one to another; in a week that begins after it ends, the code takes every day.
within(p, from) ==
  LET to == config[p].end
  IN  IF config[p].time = "week" /\ from > to
      THEN dayOf(p) <= from \/ dayOf(p) >= to
      ELSE from <= dayOf(p) /\ dayOf(p) <= to

-----------------------------------------------------------------------------
(* The changes of one promotion.  apply, excute and DayPass call each other,  *)
(* and each call goes on with what the call before it has left: h is the     *)
(* promotion between two calls, its state, its timers and what excute(bool)  *)
(* has done so far: in sum (count) and last.                                 *)

between(type, ts) == [type |-> type, timer |-> ts, count |-> 0, last |-> {}]

\* addEvent with delay_time * 1000 as u32
after(call, time) == {[call |-> call, at |-> now + ((time - now) % TimerRange)]}

\* TimeShopPromotion::excute(bool): the effect is added, or subtracted again.
effect(h, b) ==
  [h EXCEPT !.type = "Excute", !.count = IF b THEN @ + 1 ELSE @ - 1, !.last = {b}]

\* TimeShopPromotion::exit
exit(h) == [effect(h, FALSE) EXCEPT !.type = "Destroy"]

\* The end of the period is not asked for.
passEnd_bug(p, h) ==
  IF h.type = "Excute" /\ dayOf(p) < config[p].begin THEN exit(h) ELSE h

\* The last part of TimeShopPromotion::DayPass, and all that it does when excute calls it
passEnd(p, h) ==
  IF h.type = "Excute" /\ ~within(p, config[p].begin) THEN exit(h) ELSE h

\* TimeShopPromotion::excute
excute(p, h) ==
  LET begun == effect(h, TRUE)
  IN  IF ~normal(p) THEN passEnd(p, begun)
      ELSE IF config[p].end > now THEN [begun EXCEPT !.timer = after("exit", config[p].end)]
      ELSE exit(begun)

\* DayPass asks whether a promotion has been shown, not whether it is still only shown.
passBegin_bug(p, h) ==
  IF h.type \in {"Apply", "Excute"} /\ within(p, config[p].begin) THEN excute(p, h) ELSE h

\* The second part of DayPass
passBegin(p, h) ==
  IF h.type = "Apply" /\ within(p, config[p].begin) THEN excute(p, h) ELSE h

\* TimeShopPromotion::apply: its DayPass has two parts to do, and what they have done is
\* seen by the DayPass that has called apply.
apply(p, h) ==
  LET shown == [h EXCEPT !.type = "Apply"]
  IN  IF ~normal(p) THEN passEnd(p, passBegin(p, shown))
      ELSE IF config[p].begin > now THEN [shown EXCEPT !.timer = after("excute", config[p].begin)]
      ELSE excute(p, shown)

\* The first part of DayPass
passShow(p, h) ==
  IF h.type = "Wait" /\ within(p, config[p].show) THEN apply(p, h) ELSE h

\* TimeShopPromotion::DayPass
pass(p, h) == passEnd(p, passBegin(p, passShow(p, h)))

\* TimeShopPromotion::init; a promotion that is shown after its end is not created.
inited(p) ==
  LET h == between("Wait", {})
  IN  IF ~normal(p) THEN pass(p, h)
      ELSE IF config[p].show > now THEN [h EXCEPT !.timer = after("apply", config[p].show)]
      ELSE apply(p, h)

created == {p \in Promos : normal(p) => config[p].show <= config[p].end}

-----------------------------------------------------------------------------
(* What promotions add up to *)

ofKind(S, k) == {p \in S : config[p].kind = k}

\* The promotions that open or close a grid in this step, one after the other
switched(g, next) == {p \in ofKind(Promos, "open") : config[p].grid = g /\ next[p].last # {}}

\* The promotions become what their calls have made of them, and the counters of the manager
\* get what these calls added and subtracted; a grid is open or not as the last of the list
\* left it.  The switch over the kind of a recharge reads PromotionType_, which is GOLD for
\* all of them: whatever the recharge is for, _recharge_gold_ratting changes and the other
\* rates never do.
become(next) ==
  LET change(p) == config[p].amount * next[p].count
  IN  /\ _type' = [p \in Promos |-> next[p].type]
      /\ timer' = [p \in Promos |-> next[p].timer]
      /\ _cheap_gold' = [g \in Grids |->
           _cheap_gold[g] + MapThenSumSet(change, {p \in ofKind(Promos, "hero") : config[p].grid = g})]
      /\ _recharge_gold_ratting' = _recharge_gold_ratting + MapThenSumSet(change, ofKind(Promos, "recharge"))
      /\ open' = {g \in Grids : IF switched(g, next) = {} THEN g \in open
                                ELSE next[Max(switched(g, next))].last = {TRUE}}

\* A promotion that nothing happens to
kept(p) == between(_type[p], timer[p])

\* ShopSalesPromotionManager::init in a new process
init ==
  /\ ~up
  /\ up' = TRUE
  /\ _shopSalesPromotions' = created
  /\ become([p \in Promos |-> IF p \in created THEN inited(p) ELSE kept(p)])
  /\ UNCHANGED <<config, unset, now, midnight>>

\* The timer of a promotion calls apply, excute or exit.
call(p) ==
  /\ up
  /\ \E t \in timer[p] :
       /\ t.at <= now
       /\ LET h == between(_type[p], {})
              next == CASE t.call = "apply" -> apply(p, h)
                        [] t.call = "excute" -> excute(p, h)
                        [] t.call = "exit" -> exit(h)
          IN  become([q \in Promos |-> IF q = p THEN next ELSE kept(q)])
  /\ UNCHANGED <<config, _shopSalesPromotions, unset, now, midnight, up>>

-----------------------------------------------------------------------------
(* The day, the loop and the process *)

\* DreamHeroManager::eventPerMin at midnight -> ShopSalesPromotionManager::DayPass
DayPass ==
  /\ up
  /\ midnight
  /\ midnight' = FALSE
  /\ become([p \in Promos |->
       IF p \in _shopSalesPromotions /\ ~normal(p) THEN pass(p, kept(p)) ELSE kept(p)])
  /\ UNCHANGED <<config, _shopSalesPromotions, unset, now, up>>

\* ShopSalesPromotionManager::update
update ==
  /\ up
  /\ \E p \in _shopSalesPromotions : _type[p] = "Destroy"
  /\ _shopSalesPromotions' = {p \in _shopSalesPromotions : _type[p] # "Destroy"}
  /\ UNCHANGED <<config, _type, timer, _cheap_gold, _recharge_gold_ratting, unset, open, now, midnight, up>>

\* What the time asks for has been done.
settled == (midnight => Late) /\ \A p \in Promos : \A t \in timer[p] : t.at > now

\* Time goes on.  A DayPass that comes too late is left out.
tick ==
  /\ now < MaxNow
  /\ up => settled
  /\ now' = now + 1
  /\ midnight' = (up /\ now' % DayLength = 0)
  /\ UNCHANGED <<config, promoVars, up>>

\* The game server ends; a new process knows nothing of the old one.
newProcess ==
  /\ up
  /\ up' = FALSE
  /\ midnight' = FALSE
  /\ _type' = [p \in Promos |-> "Wait"]
  /\ _shopSalesPromotions' = {}
  /\ timer' = [p \in Promos |-> {}]
  /\ _cheap_gold' = [g \in Grids |-> 0]
  /\ unset' \in Unset
  /\ _recharge_gold_ratting' = unset'
  /\ open' = {}
  /\ UNCHANGED <<config, now>>

-----------------------------------------------------------------------------
PromotionsNext ==
  \/ init \/ DayPass \/ update \/ tick \/ newProcess
  \/ \E p \in Promos : call(p)

PromotionsSpec == PromotionsInit /\ [][PromotionsNext]_promotionVars

-----------------------------------------------------------------------------
(* Properties *)

running == {p \in Promos : _type[p] = "Excute"}

\* What the promotions that run add up to.  A grid that several promotions open is closed by
\* the first of them that ends, and none of it is said here.
EffectsExact ==
  LET amount(p) == config[p].amount
      openers(g) == {p \in ofKind(Promos, "open") : config[p].grid = g}
  IN  /\ \A g \in Grids :
           _cheap_gold[g] = MapThenSumSet(amount, {p \in ofKind(running, "hero") : config[p].grid = g})
      /\ _recharge_gold_ratting = unset + MapThenSumSet(amount, ofKind(running, "recharge"))
      /\ \A g \in Grids : Cardinality(openers(g)) = 1 => (g \in open <=> openers(g) \subseteq running)

\* The period of a promotion as it is configured.
period(p) ==
  LET c == config[p]
  IN  IF normal(p) THEN c.begin <= now /\ now < c.end ELSE c.begin <= dayOf(p) /\ dayOf(p) <= c.end

\* What runs is what should run now.
RunsInPeriod ==
  up /\ settled =>
    \A p \in created :
      /\ p \in running /\ (config[p].time = "week" => config[p].begin <= config[p].end) => period(p)
      /\ config[p].time # "week" /\ config[p].show <= config[p].begin /\ period(p) => p \in running
=============================================================================
