-------------------------------- MODULE Deals --------------------------------
(***************************************************************************)
(* Orders for gold and jewels, from the client's request to the credit on    *)
(* its hero: class DreamHero (src/gameserver/DreamHero.cpp) with its map      *)
(* _deals_wait_to_pay, the HTTP tasks that create and verify an order at the *)
(* platform (src/gameserver/GSHttpManager.cpp, src/common/HttpManager.cpp),  *)
(* the platform's own notice (src/gameserver/platform_client.cpp),           *)
(* and the rows of the tables `character' and `deal_wait_to_pay' behind the  *)
(* two database threads (src/databaseserver/db_quest.cpp).                    *)
(*                                                                          *)
(* An order is in three places that change at different times: the hero's   *)
(* map, the row of the order and the gold of the hero, which is here the    *)
(* number of times each order was added to it.                              *)
(***************************************************************************)
EXTENDS Naturals, Sequences, FiniteSets, SequencesExt

CONSTANTS
  Accounts,
  Orders,         \* order ids of the platform
  Sold,           \* orders whose product is in the shop's configuration
  NoAccount,      \* account_id of a row that was written without one
  NoOrder,        \* _order_id of a task that has none
  FinishOnce,     \* the platform confirms an order once and refuses it afterwards
  AnswerLoss,     \* may an answer of the platform be lost?
  Patient,        \* a client waits for the answer before it acts or comes back, and verifies
                  \* only orders that wait for payment
  SavesFirst,     \* no query overtakes an earlier save of the same account
  SavedAtDestroy, \* a hero is saved between its last credit and Destroy
  Crash,          \* may the game server crash, or the database connection break?
  MaxTasks,       \* bound on the HTTP tasks in a queue
  MaxQueue,       \* bound on the statements in the save queue
  MaxCredit       \* bound on the credits of one order

ASSUME DealsConstants ==
  /\ IsFiniteSet(Orders)
  /\ Sold \subseteq Orders
  /\ NoAccount \notin Accounts
  /\ NoOrder \notin Orders
  /\ {FinishOnce, AnswerLoss, Patient, SavesFirst, SavedAtDestroy, Crash} \subseteq BOOLEAN
  /\ {MaxTasks, MaxQueue, MaxCredit} \subseteq Nat \ {0}

VARIABLES
  hero,                \* where the hero of an account is
  _deals_wait_to_pay,  \* DreamHero's map; the answer being built while hero loads
  gold,                \* likewise: how often each order is in the hero's gold
  owner,               \* platform: the account an order was created for
  finished,            \* platform: orders closed as paid
  _https,              \* HttpManager: tasks for the HTTP thread
  _complete_task,      \* HttpManager: tasks for the main thread
  saveQ,               \* statements for the database thread _SAVE_HERO_INFO_
  rowGold,             \* table `character'
  dealType, dealAcc    \* table `deal_wait_to_pay': complete_status, account_id

memVars == <<hero, _deals_wait_to_pay, gold>>
platVars == <<owner, finished>>
httpVars == <<_https, _complete_task>>
rowVars == <<rowGold, dealType, dealAcc>>
vars == <<memVars, platVars, httpVars, saveQ, rowVars>>

\* DealStatusType; "none" is an order that is not there
Types == {"none", "WaitToPay", "WaitPrepareToPay", "Complete", "WaitPrepareToVerify", "Failed"}

InMemory == {"online", "offline"}

NoDeals == [o \in Orders |-> "none"]
NoGold == [o \in Orders |-> 0]

-----------------------------------------------------------------------------
(* Helpers.  Definitions named ..._bug are variants of the definition after  *)
(* them with a plausible mistake; no action uses them.                        *)

\* DreamHeroManager::GetHero(a) # NULL
GetHero(a) == hero[a] \in InMemory

\* replace into `character'
characterSql(a) == [table |-> "character", acc |-> a, gold |-> gold[a]]

\* replace into deal_wait_to_pay, for the orders of types that are not "none".
\* Columns that the statement does not name get their default.
dealSql(a, types) == [table |-> "deal_wait_to_pay", acc |-> a, types |-> types]

\* What SaveHero sends: the hero, then its orders if it has any.
heroSql(a) ==
  IF _deals_wait_to_pay[a] = NoDeals THEN <<characterSql(a)>>
  ELSE <<characterSql(a), dealSql(a, _deals_wait_to_pay[a])>>

only(o, type) == [p \in Orders |-> IF p = o THEN type ELSE "none"]

task(k, a, o, r) == [kind |-> k, acc |-> a, order |-> o, result |-> r]

\* The account waits for an answer of the platform.
waiting(a) ==
  \/ \E i \in DOMAIN _https : _https[i].acc = a
  \/ \E i \in DOMAIN _complete_task : _complete_task[i].acc = a

\* The gold of the hero of a as it was last sent to the database.
lastSaved(a) ==
  LET saves == {i \in DOMAIN saveQ : saveQ[i].table = "character" /\ saveQ[i].acc = a}
  IN  IF saves = {} THEN rowGold[a]
      ELSE saveQ[CHOOSE i \in saves : \A j \in saves : j <= i].gold

\* What the hero of a owns.
worth(a) == IF GetHero(a) THEN gold[a] ELSE lastSaved(a)

\* addDealPay's condition for status 0: the product is configured, and the order is
\* in the map and not complete.
payable(o, type) == o \in Sold /\ type \in {"WaitToPay", "WaitPrepareToPay"}

-----------------------------------------------------------------------------
Init ==
  /\ hero = [a \in Accounts |-> "out"]
  /\ _deals_wait_to_pay = [a \in Accounts |-> NoDeals]
  /\ gold = [a \in Accounts |-> NoGold]
  /\ owner = [o \in Orders |-> NoAccount]
  /\ finished = {}
  /\ _https = <<>>
  /\ _complete_task = <<>>
  /\ saveQ = <<>>
  /\ rowGold = [a \in Accounts |-> NoGold]
  /\ dealType = NoDeals
  /\ dealAcc = [o \in Orders |-> NoAccount]

-----------------------------------------------------------------------------
(* The player comes and goes *)

\* A login: the hero still in memory stops its destroy clock, or the database is asked.
login(a) ==
  /\ hero[a] \in {"out", "offline"}
  /\ Patient => ~waiting(a)
  /\ hero' = [hero EXCEPT ![a] = IF @ = "offline" THEN "online" ELSE "query"]
  /\ UNCHANGED <<_deals_wait_to_pay, gold, platVars, httpVars, saveQ, rowVars>>

\* The Session ends: the hero starts its destroy clock; an answer of the database
\* for a Session that is gone is dropped.
logout(a) ==
  /\ hero[a] \notin {"out", "offline"}
  /\ hero' = [hero EXCEPT ![a] = IF @ = "online" THEN "offline" ELSE "out"]
  /\ gold' = [gold EXCEPT ![a] = IF hero[a] = "online" THEN @ ELSE NoGold]
  /\ _deals_wait_to_pay' = [_deals_wait_to_pay EXCEPT ![a] = IF hero[a] = "online" THEN @ ELSE NoDeals]
  /\ UNCHANGED <<platVars, httpVars, saveQ, rowVars>>

\* DreamHero::Destroy, three seconds after the Session went.  Nothing is saved.
Destroy(a) ==
  /\ hero[a] = "offline"
  /\ SavedAtDestroy => lastSaved(a) = gold[a]
  /\ hero' = [hero EXCEPT ![a] = "out"]
  /\ gold' = [gold EXCEPT ![a] = NoGold]
  /\ _deals_wait_to_pay' = [_deals_wait_to_pay EXCEPT ![a] = NoDeals]
  /\ UNCHANGED <<platVars, httpVars, saveQ, rowVars>>

-----------------------------------------------------------------------------
(* Requests of the client *)

\* DreamHero::ReqCrearteDeal: gives up the orders that wait for payment, verified
\* or not, and asks the platform for a new one.
ReqCrearteDeal(a) ==
  /\ hero[a] = "online"
  /\ Patient => ~waiting(a)
  /\ Len(_https) < MaxTasks
  /\ _deals_wait_to_pay' = [_deals_wait_to_pay EXCEPT
       ![a] = [o \in Orders |-> IF @[o] = "WaitToPay" THEN "none" ELSE @[o]]]
  /\ _https' = Append(_https, task("CreateDeal", a, NoOrder, "none"))
  /\ UNCHANGED <<hero, gold, platVars, _complete_task, saveQ, rowVars>>

\* DreamHero::ReqVerifyDeal for an order of the map, whatever its type.  The row
\* is written without the account, the type in memory stays.
ReqVerifyDeal(a, o) ==
  /\ hero[a] = "online"
  /\ Patient => ~waiting(a) /\ _deals_wait_to_pay[a][o] = "WaitToPay"
  /\ _deals_wait_to_pay[a][o] # "none"
  /\ Len(_https) < MaxTasks
  /\ Len(saveQ) < MaxQueue
  /\ saveQ' = Append(saveQ, dealSql(NoAccount, only(o, "WaitPrepareToVerify")))
  /\ _https' = Append(_https, task("VerifyDeal", a, o, "none"))
  /\ UNCHANGED <<memVars, platVars, _complete_task, rowVars>>

-----------------------------------------------------------------------------
(* The HTTP thread and the platform *)

\* What the platform makes of a task: the order it names and the result.
\* CreateDealHttpTask::excute gets a new order or an error;
\* VerifyDealHttpTaskIOS::excute confirms the order and closes it ("paid"), is refused
\* with a status other than 0, or gets no usable answer, perhaps after the order was closed.
answer(t, o, r) ==
  \/ /\ t.kind = "CreateDeal"
     /\ \/ /\ r = "created" /\ o \in Orders /\ owner[o] = NoAccount
           /\ owner' = [owner EXCEPT ![o] = t.acc]
        \/ r = "error" /\ o = t.order /\ UNCHANGED owner
     /\ UNCHANGED finished
  \/ /\ t.kind = "VerifyDeal"
     /\ o = t.order
     /\ \/ /\ r \in {"paid"} \cup (IF AnswerLoss THEN {"error"} ELSE {})
           /\ FinishOnce => o \notin finished
           /\ finished' = finished \cup {o}
        \/ r \in {"refused", "error"} /\ UNCHANGED finished
     /\ UNCHANGED owner

\* HttpManager::update, one task: its result goes to the main thread.
update ==
  /\ _https # <<>>
  /\ Len(_complete_task) < MaxTasks
  /\ \E o \in Orders \cup {NoOrder}, r \in {"created", "paid", "refused", "error"} :
       /\ answer(Head(_https), o, r)
       /\ _complete_task' = Append(_complete_task,
                                  task(Head(_https).kind, Head(_https).acc, o, r))
  /\ _https' = Tail(_https)
  /\ UNCHANGED <<memVars, saveQ, rowVars>>

-----------------------------------------------------------------------------
(* HttpManager::logicUpdate: results on the main thread *)

\* CreateDealHttpTask::logicExcute -> DreamHero::addDealWaitToPay; without the hero,
\* or with an error, the order is dropped.
addDealWaitToPay(t) ==
  /\ t.kind = "CreateDeal"
  /\ _deals_wait_to_pay' =
       IF GetHero(t.acc) /\ t.result = "created" /\ _deals_wait_to_pay[t.acc][t.order] = "none"
       THEN [_deals_wait_to_pay EXCEPT ![t.acc][t.order] = "WaitToPay"]
       ELSE _deals_wait_to_pay
  /\ UNCHANGED <<gold, saveQ>>

\* The result is not looked at.
addDealPay_bug(t) ==
  /\ t.kind = "VerifyDeal"
  /\ GetHero(t.acc)
  /\ \/ /\ payable(t.order, _deals_wait_to_pay[t.acc][t.order])
        /\ gold[t.acc][t.order] < MaxCredit
        /\ _deals_wait_to_pay' = [_deals_wait_to_pay EXCEPT ![t.acc][t.order] = "Complete"]
        /\ gold' = [gold EXCEPT ![t.acc][t.order] = @ + 1]
     \/ /\ ~payable(t.order, _deals_wait_to_pay[t.acc][t.order])
        /\ UNCHANGED <<_deals_wait_to_pay, gold>>
  /\ UNCHANGED saveQ

\* VerifyDealHttpTaskIOS::logicExcute -> DreamHero::addDealPay for a hero in memory.
\* A refusal names no product, so the configuration has nothing for it and the order stays.
addDealPay(t) ==
  /\ t.kind = "VerifyDeal"
  /\ GetHero(t.acc)
  /\ \/ /\ t.result = "paid"
        /\ payable(t.order, _deals_wait_to_pay[t.acc][t.order])
        /\ gold[t.acc][t.order] < MaxCredit
        /\ _deals_wait_to_pay' = [_deals_wait_to_pay EXCEPT ![t.acc][t.order] = "Complete"]
        /\ gold' = [gold EXCEPT ![t.acc][t.order] = @ + 1]
     \/ /\ ~(t.result = "paid" /\ payable(t.order, _deals_wait_to_pay[t.acc][t.order]))
        /\ UNCHANGED <<_deals_wait_to_pay, gold>>
  /\ UNCHANGED saveQ

\* The order of a player who is away is dropped, as for a new order.
OfflineHeroDealWaitToPay_bug(t) ==
  /\ t.kind = "VerifyDeal"
  /\ ~GetHero(t.acc)
  /\ UNCHANGED <<saveQ, _deals_wait_to_pay, gold>>

\* VerifyDealHttpTaskIOS::logicExcute without the hero ->
\* DreamHeroManager::OfflineHeroDealWaitToPay
OfflineHeroDealWaitToPay(t) ==
  /\ t.kind = "VerifyDeal"
  /\ ~GetHero(t.acc)
  /\ \/ /\ t.result \in {"paid", "refused"}
        /\ Len(saveQ) < MaxQueue
        /\ saveQ' = Append(saveQ, dealSql(t.acc,
             only(t.order, IF t.result = "paid" THEN "WaitPrepareToPay" ELSE "Failed")))
     \/ t.result = "error" /\ UNCHANGED saveQ
  /\ UNCHANGED <<_deals_wait_to_pay, gold>>

logicUpdate ==
  /\ _complete_task # <<>>
  /\ LET t == Head(_complete_task) IN
       addDealWaitToPay(t) \/ addDealPay(t) \/ OfflineHeroDealWaitToPay(t)
  /\ _complete_task' = Tail(_complete_task)
  /\ UNCHANGED <<hero, platVars, _https, rowVars>>

\* PlatformClient::parseClinchADealNotify: the platform closes the order and says so
\* by itself, in place of an answer to a verification.  A patient client pays an order
\* that waits for payment, and when it has left, not while a verification is under way:
\* its refusal would overwrite the row of the paid order.
parseClinchADealNotify(o) ==
  LET a == owner[o]
      t == task("VerifyDeal", a, o, "paid") IN
  /\ a # NoAccount
  /\ FinishOnce => o \notin finished
  /\ Patient => \/ GetHero(a) /\ payable(o, _deals_wait_to_pay[a][o])
                \/ hero[a] = "out" /\ ~waiting(a)
  /\ finished' = finished \cup {o}
  /\ addDealPay(t) \/ OfflineHeroDealWaitToPay(t)
  /\ UNCHANGED <<hero, owner, httpVars, rowVars>>

-----------------------------------------------------------------------------
(* Saving and loading *)

\* DreamHero::SaveHero, every ten seconds.  The loop that should drop completed orders
\* from the map starts at its end and drops none.
SaveHero(a) ==
  /\ GetHero(a)
  /\ Len(saveQ) + 2 <= MaxQueue
  /\ saveQ' = saveQ \o heroSql(a)
  /\ UNCHANGED <<memVars, platVars, httpVars, rowVars>>

\* The database thread _SAVE_HERO_INFO_ executes a statement.
dbSave ==
  /\ saveQ # <<>>
  /\ saveQ' = Tail(saveQ)
  /\ LET s == Head(saveQ) IN
       \/ /\ s.table = "character"
          /\ rowGold' = [rowGold EXCEPT ![s.acc] = s.gold]
          /\ UNCHANGED <<dealType, dealAcc>>
       \/ /\ s.table = "deal_wait_to_pay"
          /\ dealType' = [o \in Orders |-> IF s.types[o] = "none" THEN dealType[o] ELSE s.types[o]]
          /\ dealAcc' = [o \in Orders |-> IF s.types[o] = "none" THEN dealAcc[o] ELSE s.acc]
          /\ UNCHANGED rowGold
  /\ UNCHANGED <<memVars, platVars, httpVars>>

\* No statement of the account waits in the save queue.
quiet(a) == SavesFirst => \A i \in DOMAIN saveQ : saveQ[i].acc # a

\* The database thread _QUERY_HERO_INFO_ reads the hero ...
dbDoQueryHeroInfo(a) ==
  /\ hero[a] = "query"
  /\ quiet(a)
  /\ hero' = [hero EXCEPT ![a] = "queryDeals"]
  /\ gold' = [gold EXCEPT ![a] = rowGold[a]]
  /\ UNCHANGED <<_deals_wait_to_pay, platVars, httpVars, saveQ, rowVars>>

\* ... and in a second query its orders that are not complete.
dbDoQueryHeroDeals(a) ==
  /\ hero[a] = "queryDeals"
  /\ quiet(a)
  /\ hero' = [hero EXCEPT ![a] = "reply"]
  /\ _deals_wait_to_pay' = [_deals_wait_to_pay EXCEPT
       ![a] = [o \in Orders |-> IF dealAcc[o] = a /\ dealType[o] # "Complete"
                                THEN dealType[o] ELSE "none"]]
  /\ UNCHANGED <<gold, platVars, httpVars, saveQ, rowVars>>

\* The order is credited but not marked.
set_info_bug(a) ==
  LET due == {o \in Orders : _deals_wait_to_pay[a][o] = "WaitPrepareToPay"
                             /\ payable(o, _deals_wait_to_pay[a][o])}
  IN  /\ \A o \in due : gold[a][o] < MaxCredit
      /\ gold' = [gold EXCEPT ![a] = [o \in Orders |-> IF o \in due THEN @[o] + 1 ELSE @[o]]]
      /\ UNCHANGED <<_deals_wait_to_pay, _https>>

\* DreamHero::set_info: orders that were paid while the hero was away are credited
\* (addDealPay), orders that were being verified are verified again.
set_info(a) ==
  LET due == {o \in Orders : _deals_wait_to_pay[a][o] = "WaitPrepareToPay"
                             /\ payable(o, _deals_wait_to_pay[a][o])}
      again == {o \in Orders : _deals_wait_to_pay[a][o] = "WaitPrepareToVerify"}
  IN  /\ \A o \in due : gold[a][o] < MaxCredit
      /\ gold' = [gold EXCEPT ![a] = [o \in Orders |-> IF o \in due THEN @[o] + 1 ELSE @[o]]]
      /\ _deals_wait_to_pay' = [_deals_wait_to_pay EXCEPT
           ![a] = [o \in Orders |-> IF o \in due THEN "Complete" ELSE @[o]]]
      /\ _https' = _https \o SetToSeq({task("VerifyDeal", a, o, "none") : o \in again})

\* Session::praseDBQueryHeroInfo -> DreamHeroManager::CreateHero
CreateHero(a) ==
  /\ hero[a] = "reply"
  /\ hero' = [hero EXCEPT ![a] = "online"]
  /\ set_info(a)
  /\ UNCHANGED <<platVars, _complete_task, saveQ, rowVars>>

-----------------------------------------------------------------------------
(* Faults *)

\* The connection to the database server breaks and comes back: the statements and
\* queries on their way are lost.
dbLoss ==
  /\ Crash
  /\ \E n \in 0..Len(saveQ) : saveQ' = SubSeq(saveQ, 1, n)
  /\ \E S \in SUBSET {a \in Accounts : hero[a] \in {"query", "queryDeals", "reply"}} :
       /\ hero' = [a \in Accounts |-> IF a \in S THEN "out" ELSE hero[a]]
       /\ gold' = [a \in Accounts |-> IF a \in S THEN NoGold ELSE gold[a]]
       /\ _deals_wait_to_pay' = [a \in Accounts |-> IF a \in S THEN NoDeals ELSE _deals_wait_to_pay[a]]
  /\ UNCHANGED <<platVars, httpVars, rowVars>>

\* The game server crashes and is started again.
crash ==
  /\ Crash
  /\ hero' = [a \in Accounts |-> "out"]
  /\ gold' = [a \in Accounts |-> NoGold]
  /\ _deals_wait_to_pay' = [a \in Accounts |-> NoDeals]
  /\ _https' = <<>>
  /\ _complete_task' = <<>>
  /\ \E n \in 0..Len(saveQ) : saveQ' = SubSeq(saveQ, 1, n)
  /\ UNCHANGED <<platVars, rowVars>>

-----------------------------------------------------------------------------
Next ==
  \/ \E a \in Accounts :
       \/ login(a) \/ logout(a) \/ Destroy(a)
       \/ ReqCrearteDeal(a)
       \/ \E o \in Orders : ReqVerifyDeal(a, o)
       \/ SaveHero(a)
       \/ dbDoQueryHeroInfo(a) \/ dbDoQueryHeroDeals(a) \/ CreateHero(a)
  \/ update \/ logicUpdate \/ dbSave
  \/ \E o \in Orders : parseClinchADealNotify(o)
  \/ dbLoss \/ crash

Spec == Init /\ [][Next]_vars

-----------------------------------------------------------------------------
(* Properties *)

\* A hero, in memory or saved, has gold only from orders that were created for its own
\* account and that the platform has closed as paid: whatever is lost, repeated or
\* overtaken between the requests, the HTTP answers, the rows and the reloads
\* (addDealPay, OfflineHeroDealWaitToPay, set_info).
NoUnpaidCredit ==
  \A a \in Accounts, o \in Orders :
    gold[a][o] > 0 \/ rowGold[a][o] > 0 => o \in finished /\ owner[o] = a

\* The buyer's gold as a map of the state of Payment.
credits == [o \in Orders |-> IF owner[o] = NoAccount THEN 0 ELSE worth(owner[o])[o]]

\* The buyer of o has the goods, or gets them with the next load of the hero.
settled(o) ==
  \/ credits[o] > 0
  \/ dealType[o] = "WaitPrepareToPay" /\ dealAcc[o] = owner[o]
=============================================================================
