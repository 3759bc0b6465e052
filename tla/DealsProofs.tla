----------------------------- MODULE DealsProofs -----------------------------
(***************************************************************************)
(* Proofs about Deals for every set of accounts and every finite set of     *)
(* orders and every bound.  That no unpaid order is credited holds in every  *)
(* environment: the switches FinishOnce, AnswerLoss, Patient, SavesFirst,    *)
(* SavedAtDestroy and Crash are arbitrary.  That selling implements Payment  *)
(* needs four of them, which the theorem names.                              *)
(*                                                                          *)
(* The first invariant says of every place that holds gold or an order (the  *)
(* hero, its map, the tasks of the two HTTP queues, the statements of the    *)
(* save queue, the rows) that what it holds is backed by the platform.  Each *)
(* of these is a set that depends on the platform's state, own and fin.      *)
(* The second says that an order is at one stage of its way at a time.       *)
(***************************************************************************)
EXTENDS MCDeals, FiniteSetTheorems, WellFoundedInduction, TLAPS

\* Gold of the hero of a: from orders that are its own and closed as paid.
GoldOf(own, fin, a) ==
  {g \in [Orders -> Nat] : \A o \in Orders : g[o] > 0 => o \in fin /\ own[o] = a}

\* Orders kept for a: they are its own, and one that waits for its credit is paid.
\* A row may be without an account.
DealsOf(own, fin, a) ==
  {d \in [Orders -> Types] : \A o \in Orders :
     /\ d[o] # "none" /\ a # NoAccount => own[o] = a
     /\ d[o] = "WaitPrepareToPay" => o \in fin}

\* HTTP tasks: an order that is verified, or was created, is the account's own, and
\* a result "paid" is true.
TasksOf(own, fin) ==
  {t \in [kind : {"CreateDeal", "VerifyDeal"}, acc : Accounts, order : Orders \cup {NoOrder},
          result : {"none", "created", "paid", "refused", "error"}] :
     /\ t.kind = "VerifyDeal" \/ t.result = "created" => t.order \in Orders /\ own[t.order] = t.acc
     /\ t.result = "paid" => t.order \in fin}

\* Statements of the save queue
CharacterSqls(own, fin) ==
  {s \in [table : {"character"}, acc : Accounts, gold : [Orders -> Nat]] :
     s.gold \in GoldOf(own, fin, s.acc)}
DealSqls(own, fin) ==
  {s \in [table : {"deal_wait_to_pay"}, acc : Accounts \cup {NoAccount}, types : [Orders -> Types]] :
     s.types \in DealsOf(own, fin, s.acc)}
SqlsOf(own, fin) == CharacterSqls(own, fin) \cup DealSqls(own, fin)

\* The hero in memory, or the answer being built
HeroBacked ==
  /\ hero \in [Accounts -> {"out", "query", "queryDeals", "reply", "online", "offline"}]
  /\ _deals_wait_to_pay \in [Accounts -> [Orders -> Types]]
  /\ gold \in [Accounts -> [Orders -> Nat]]
  /\ \A a \in Accounts : /\ _deals_wait_to_pay[a] \in DealsOf(owner, finished, a)
                         /\ gold[a] \in GoldOf(owner, finished, a)

PlatformTyped ==
  /\ owner \in [Orders -> Accounts \cup {NoAccount}]
  /\ finished \subseteq Orders

TasksBacked ==
  /\ _https \in Seq(TasksOf(owner, finished))
  /\ _complete_task \in Seq(TasksOf(owner, finished))

SavesBacked == saveQ \in Seq(SqlsOf(owner, finished))

RowsBacked ==
  /\ rowGold \in [Accounts -> [Orders -> Nat]]
  /\ \A a \in Accounts : rowGold[a] \in GoldOf(owner, finished, a)
  /\ dealType \in [Orders -> Types]
  /\ dealAcc \in [Orders -> Accounts \cup {NoAccount}]
  /\ \A o \in Orders : /\ dealAcc[o] # NoAccount => owner[o] = dealAcc[o]
                       /\ dealType[o] = "WaitPrepareToPay" => o \in finished

\* The inductive invariant
DealsInv == HeroBacked /\ PlatformTyped /\ TasksBacked /\ SavesBacked /\ RowsBacked

-----------------------------------------------------------------------------
(* Facts about the places *)

\* What the platform may do: close orders, and give orders to accounts.
Grows(own, fin, own2, fin2) ==
  fin \subseteq fin2 /\ \A o \in Orders : own[o] # NoAccount => own2[o] = own[o]

\* A hero without gold or orders is backed.
LEMMA NothingBacked ==
  \A own, fin : \A a : NoGold \in GoldOf(own, fin, a) /\ NoDeals \in DealsOf(own, fin, a)
BY DEF NoGold, NoDeals, GoldOf, DealsOf, Types

\* What is backed stays backed when the platform goes on.
LEMMA StaysBacked ==
  ASSUME NEW own, NEW fin, NEW own2, NEW fin2, Grows(own, fin, own2, fin2)
  PROVE  /\ \A a \in Accounts : GoldOf(own, fin, a) \subseteq GoldOf(own2, fin2, a)
         /\ \A a \in Accounts \cup {NoAccount} : DealsOf(own, fin, a) \subseteq DealsOf(own2, fin2, a)
         /\ TasksOf(own, fin) \subseteq TasksOf(own2, fin2)
         /\ SqlsOf(own, fin) \subseteq SqlsOf(own2, fin2)
<1> USE DealsConstants
<1>1. \A a \in Accounts : GoldOf(own, fin, a) \subseteq GoldOf(own2, fin2, a)
  BY DEF GoldOf, Grows
<1>2. \A a \in Accounts \cup {NoAccount} : DealsOf(own, fin, a) \subseteq DealsOf(own2, fin2, a)
  BY DEF DealsOf, Grows
<1>3. TasksOf(own, fin) \subseteq TasksOf(own2, fin2)
  BY DEF TasksOf, Grows
<1>4. CharacterSqls(own, fin) \subseteq CharacterSqls(own2, fin2)
  BY <1>1 DEF CharacterSqls
<1>5. DealSqls(own, fin) \subseteq DealSqls(own2, fin2)
  BY <1>2 DEF DealSqls
<1> QED
  BY <1>1, <1>2, <1>3, <1>4, <1>5 DEF SqlsOf

\* When the platform goes on and nothing else changes, the invariant stays.
LEMMA PlatformStep ==
  ASSUME DealsInv, PlatformTyped', Grows(owner, finished, owner', finished')
  PROVE  /\ UNCHANGED memVars => HeroBacked'
         /\ _https \in Seq(TasksOf(owner', finished'))
         /\ _complete_task \in Seq(TasksOf(owner', finished'))
         /\ saveQ \in Seq(SqlsOf(owner', finished'))
         /\ UNCHANGED rowVars => RowsBacked'
<1>1. /\ \A a \in Accounts : GoldOf(owner, finished, a) \subseteq GoldOf(owner', finished', a)
      /\ \A a \in Accounts : DealsOf(owner, finished, a) \subseteq DealsOf(owner', finished', a)
      /\ TasksOf(owner, finished) \subseteq TasksOf(owner', finished')
      /\ SqlsOf(owner, finished) \subseteq SqlsOf(owner', finished')
  BY StaysBacked
<1>2. ASSUME NEW S, NEW T, S \subseteq T PROVE Seq(S) \subseteq Seq(T)
  BY <1>2
<1>3. UNCHANGED memVars => HeroBacked'
  BY <1>1 DEF memVars, HeroBacked, DealsInv
<1>4. UNCHANGED rowVars => RowsBacked'
  BY <1>1, DealsConstants DEF rowVars, RowsBacked, DealsInv, Grows
<1> QED
  BY <1>1, <1>2, <1>3, <1>4 DEF DealsInv, TasksBacked, SavesBacked

\* The sequence of a finite set holds members of the set.
LEMMA SetToSeqType == ASSUME NEW S, IsFiniteSet(S) PROVE SetToSeq(S) \in Seq(S)
<1>1. Cardinality(S) \in Nat /\ \E f \in [1..Cardinality(S) -> S] : IsInjective(f)
  BY FS_CardinalityType DEF ExistsBijection, Bijection, Injection
<1>2. SetToSeq(S) \in [1..Cardinality(S) -> S]
  BY <1>1 DEF SetToSeq
<1> QED
  BY <1>1, <1>2
-----------------------------------------------------------------------------
(* Steps *)

\* The statements of SaveHero are backed when the hero is.
LEMMA HeroSqlBacked ==
  ASSUME DealsInv, NEW a \in Accounts PROVE heroSql(a) \in Seq(SqlsOf(owner, finished))
<1>1. characterSql(a) \in SqlsOf(owner, finished)
  BY DEF DealsInv, HeroBacked, characterSql, SqlsOf, CharacterSqls
<1>2. dealSql(a, _deals_wait_to_pay[a]) \in SqlsOf(owner, finished)
  BY DEF DealsInv, HeroBacked, dealSql, SqlsOf, DealSqls
<1> HIDE DEF characterSql, dealSql
<1> QED
  BY <1>1, <1>2 DEF heroSql

\* A member of the map of one account is its own.
LEMMA OwnOrder ==
  ASSUME DealsInv, NEW a \in Accounts, NEW o \in Orders, _deals_wait_to_pay[a][o] # "none"
  PROVE  owner[o] = a
BY DealsConstants DEF DealsInv, HeroBacked, DealsOf

\* addDealPay, from an answer or from the platform's notice, keeps the hero backed:
\* a paid order is the account's own.  The notice closes the order in the same step.
LEMMA CreditBacked ==
  ASSUME HeroBacked, Grows(owner, finished, owner', finished'),
         NEW t \in TasksOf(owner', finished'), addDealPay(t), UNCHANGED hero
  PROVE  HeroBacked'
<1> DEFINE a == t.acc
           o == t.order
<1>1. /\ a \in Accounts /\ o \in Orders /\ owner'[o] = a
      /\ t.result = "paid" => o \in finished'
  BY DEF TasksOf, addDealPay
<1>2. \A b \in Accounts : /\ _deals_wait_to_pay[b] \in DealsOf(owner', finished', b)
                          /\ gold[b] \in GoldOf(owner', finished', b)
  BY StaysBacked DEF HeroBacked
<1>3. CASE UNCHANGED <<_deals_wait_to_pay, gold>>
  BY <1>2, <1>3 DEF HeroBacked
<1>4. CASE /\ t.result = "paid"
           /\ _deals_wait_to_pay' = [_deals_wait_to_pay EXCEPT ![a][o] = "Complete"]
           /\ gold' = [gold EXCEPT ![a][o] = @ + 1]
  <2> HIDE DEF a, o
  <2>1. /\ [_deals_wait_to_pay[a] EXCEPT ![o] = "Complete"] \in DealsOf(owner', finished', a)
        /\ [gold[a] EXCEPT ![o] = @ + 1] \in GoldOf(owner', finished', a)
    BY <1>1, <1>2, <1>4 DEF DealsOf, GoldOf, Types
  <2>2. /\ \A b \in Accounts : _deals_wait_to_pay'[b] =
             IF b = a THEN [_deals_wait_to_pay[a] EXCEPT ![o] = "Complete"] ELSE _deals_wait_to_pay[b]
        /\ \A b \in Accounts : gold'[b] = IF b = a THEN [gold[a] EXCEPT ![o] = @ + 1] ELSE gold[b]
    BY <1>1, <1>4 DEF HeroBacked
  <2>3. /\ _deals_wait_to_pay' \in [Accounts -> [Orders -> Types]]
        /\ gold' \in [Accounts -> [Orders -> Nat]]
    BY <1>1, <1>4 DEF HeroBacked, Types
  <2> QED
    BY <1>2, <2>1, <2>2, <2>3 DEF HeroBacked
<1> QED
  BY <1>3, <1>4 DEF addDealPay

\* OfflineHeroDealWaitToPay writes a paid order for its own account.
LEMMA OfflineBacked ==
  ASSUME saveQ \in Seq(SqlsOf(owner', finished')), NEW t \in TasksOf(owner', finished'),
         OfflineHeroDealWaitToPay(t)
  PROVE  SavesBacked'
<1>1. /\ t.acc \in Accounts /\ t.order \in Orders /\ owner'[t.order] = t.acc
      /\ t.result = "paid" => t.order \in finished'
  BY DEF TasksOf, OfflineHeroDealWaitToPay
<1> DEFINE d == only(t.order, IF t.result = "paid" THEN "WaitPrepareToPay" ELSE "Failed")
<1>2. d \in DealsOf(owner', finished', t.acc)
  BY <1>1 DEF only, DealsOf, Types
<1>3. dealSql(t.acc, d) \in SqlsOf(owner', finished')
  <2> HIDE DEF d
  <2> QED
    BY <1>1, <1>2 DEF dealSql, SqlsOf, DealSqls, DealsOf
<1>4. saveQ' \in {saveQ, Append(saveQ, dealSql(t.acc, d))}
  BY DEF OfflineHeroDealWaitToPay
<1> HIDE DEF d
<1> QED
  BY <1>3, <1>4 DEF SavesBacked

\* What the head of a queue of tasks is.
LEMMA HeadTask ==
  ASSUME NEW S, NEW q \in Seq(S), q # <<>> PROVE Head(q) \in S /\ Tail(q) \in Seq(S)
OBVIOUS

\* One step of any environment keeps everything backed.
LEMMA DealsStep == DealsInv /\ [Next]_vars => DealsInv'
<1> SUFFICES ASSUME DealsInv, [Next]_vars PROVE DealsInv'
  OBVIOUS
<1> USE DealsConstants
<1>0. /\ \A a : NoGold \in GoldOf(owner, finished, a) /\ NoDeals \in DealsOf(owner, finished, a)
      /\ NoGold \in [Orders -> Nat] /\ NoDeals \in [Orders -> Types]
  BY NothingBacked DEF NoGold, NoDeals, Types
<1>1. ASSUME NEW a \in Accounts, login(a) \/ logout(a) \/ Destroy(a) PROVE DealsInv'
  <2>1. /\ hero' \in [Accounts -> {"out", "query", "queryDeals", "reply", "online", "offline"}]
        /\ UNCHANGED <<platVars, httpVars, saveQ, rowVars>>
    BY <1>1 DEF login, logout, Destroy, DealsInv, HeroBacked
  <2>2. /\ _deals_wait_to_pay' \in {_deals_wait_to_pay, [_deals_wait_to_pay EXCEPT ![a] = NoDeals]}
        /\ gold' \in {gold, [gold EXCEPT ![a] = NoGold]}
    BY <1>1 DEF login, logout, Destroy, DealsInv, HeroBacked
  <2>3. HeroBacked'
    <3>1. /\ _deals_wait_to_pay' \in [Accounts -> [Orders -> Types]]
          /\ \A b \in Accounts : _deals_wait_to_pay'[b] \in {_deals_wait_to_pay[b], NoDeals}
      BY <1>0, <2>2 DEF DealsInv, HeroBacked
    <3>2. /\ gold' \in [Accounts -> [Orders -> Nat]]
          /\ \A b \in Accounts : gold'[b] \in {gold[b], NoGold}
      BY <1>0, <2>2 DEF DealsInv, HeroBacked
    <3>3. owner' = owner /\ finished' = finished
      BY <2>1 DEF platVars
    <3>4. \A b \in Accounts : _deals_wait_to_pay[b] \in DealsOf(owner, finished, b)
                             /\ gold[b] \in GoldOf(owner, finished, b)
      BY DEF DealsInv, HeroBacked
    <3>5. \A b \in Accounts : _deals_wait_to_pay'[b] \in DealsOf(owner, finished, b)
                             /\ gold'[b] \in GoldOf(owner, finished, b)
      BY <1>0, <3>1, <3>2, <3>4
    <3> QED
      BY <2>1, <3>1, <3>2, <3>3, <3>5 DEF HeroBacked
  <2> QED
    BY <2>1, <2>3 DEF DealsInv, PlatformTyped, TasksBacked, SavesBacked, RowsBacked,
                      platVars, httpVars, rowVars
<1>2. ASSUME NEW a \in Accounts, ReqCrearteDeal(a) PROVE DealsInv'
  <2> DEFINE d == [o \in Orders |-> IF _deals_wait_to_pay[a][o] = "WaitToPay" THEN "none"
                                    ELSE _deals_wait_to_pay[a][o]]
  <2>1. d \in DealsOf(owner, finished, a) /\ d \in [Orders -> Types]
    BY DEF DealsInv, HeroBacked, DealsOf, Types
  <2>2. /\ _deals_wait_to_pay' = [_deals_wait_to_pay EXCEPT ![a] = d]
        /\ _https' = Append(_https, task("CreateDeal", a, NoOrder, "none"))
        /\ UNCHANGED <<hero, gold, platVars, _complete_task, saveQ, rowVars>>
    BY <1>2 DEF ReqCrearteDeal, DealsInv, HeroBacked
  <2> HIDE DEF d
  <2>3. HeroBacked'
    BY <2>1, <2>2 DEF DealsInv, HeroBacked, platVars
  <2>4. task("CreateDeal", a, NoOrder, "none") \in TasksOf(owner, finished)
    BY DEF task, TasksOf
  <2>5. TasksBacked'
    BY <2>2, <2>4 DEF DealsInv, TasksBacked, platVars
  <2> QED
    BY <2>2, <2>3, <2>5 DEF DealsInv, PlatformTyped, SavesBacked, RowsBacked, platVars, rowVars
<1>3. ASSUME NEW a \in Accounts, NEW o \in Orders, ReqVerifyDeal(a, o) PROVE DealsInv'
  <2>1. /\ saveQ' = Append(saveQ, dealSql(NoAccount, only(o, "WaitPrepareToVerify")))
        /\ _https' = Append(_https, task("VerifyDeal", a, o, "none"))
        /\ UNCHANGED <<memVars, platVars, _complete_task, rowVars>>
        /\ owner[o] = a
    BY <1>3, OwnOrder DEF ReqVerifyDeal
  <2>2. task("VerifyDeal", a, o, "none") \in TasksOf(owner, finished)
    BY <2>1 DEF task, TasksOf
  <2>3. dealSql(NoAccount, only(o, "WaitPrepareToVerify")) \in SqlsOf(owner, finished)
    <3>1. only(o, "WaitPrepareToVerify") \in DealsOf(owner, finished, NoAccount)
      BY DEF only, DealsOf, Types
    <3> QED
      BY <3>1 DEF dealSql, SqlsOf, DealSqls, DealsOf
  <2>4. TasksBacked' /\ SavesBacked'
    BY <2>1, <2>2, <2>3 DEF DealsInv, TasksBacked, SavesBacked, platVars
  <2> QED
    BY <2>1, <2>4 DEF DealsInv, HeroBacked, PlatformTyped, RowsBacked, memVars, platVars, rowVars
<1>4. ASSUME NEW a \in Accounts, SaveHero(a) PROVE DealsInv'
  <2>1. saveQ' = saveQ \o heroSql(a) /\ UNCHANGED <<memVars, platVars, httpVars, rowVars>>
    BY <1>4 DEF SaveHero
  <2>2. SavesBacked'
    BY <2>1, HeroSqlBacked DEF DealsInv, SavesBacked, platVars
  <2> QED
    BY <2>1, <2>2 DEF DealsInv, HeroBacked, PlatformTyped, TasksBacked, RowsBacked,
                      memVars, platVars, httpVars, rowVars
<1>5. ASSUME NEW a \in Accounts, dbDoQueryHeroInfo(a) PROVE DealsInv'
  <2>1. HeroBacked'
    BY <1>5 DEF dbDoQueryHeroInfo, DealsInv, HeroBacked, RowsBacked, platVars
  <2> QED
    BY <1>5, <2>1 DEF dbDoQueryHeroInfo, DealsInv, PlatformTyped, TasksBacked, SavesBacked, RowsBacked,
                      platVars, httpVars, rowVars
<1>6. ASSUME NEW a \in Accounts, dbDoQueryHeroDeals(a) PROVE DealsInv'
  <2> DEFINE d == [o \in Orders |-> IF dealAcc[o] = a /\ dealType[o] # "Complete"
                                    THEN dealType[o] ELSE "none"]
  <2>1. d \in DealsOf(owner, finished, a) /\ d \in [Orders -> Types]
    BY DEF DealsInv, RowsBacked, DealsOf, Types
  <2>2. /\ _deals_wait_to_pay' = [_deals_wait_to_pay EXCEPT ![a] = d]
        /\ hero' = [hero EXCEPT ![a] = "reply"]
        /\ UNCHANGED <<gold, platVars, httpVars, saveQ, rowVars>>
    BY <1>6 DEF dbDoQueryHeroDeals
  <2> HIDE DEF d
  <2>3. HeroBacked'
    BY <2>1, <2>2 DEF DealsInv, HeroBacked, platVars
  <2> QED
    BY <2>2, <2>3 DEF DealsInv, PlatformTyped, TasksBacked, SavesBacked, RowsBacked,
                      platVars, httpVars, rowVars
<1>7. ASSUME NEW a \in Accounts, CreateHero(a) PROVE DealsInv'
  <2> DEFINE due == {o \in Orders : _deals_wait_to_pay[a][o] = "WaitPrepareToPay"
                                    /\ payable(o, _deals_wait_to_pay[a][o])}
             again == {o \in Orders : _deals_wait_to_pay[a][o] = "WaitPrepareToVerify"}
             g == [o \in Orders |-> IF o \in due THEN gold[a][o] + 1 ELSE gold[a][o]]
             d == [o \in Orders |-> IF o \in due THEN "Complete" ELSE _deals_wait_to_pay[a][o]]
             tasks == {task("VerifyDeal", a, o, "none") : o \in again}
  <2>1. /\ gold' = [gold EXCEPT ![a] = g]
        /\ _deals_wait_to_pay' = [_deals_wait_to_pay EXCEPT ![a] = d]
        /\ _https' = _https \o SetToSeq(tasks)
        /\ hero' = [hero EXCEPT ![a] = "online"]
        /\ UNCHANGED <<platVars, _complete_task, saveQ, rowVars>>
    BY <1>7 DEF CreateHero, set_info, DealsInv, HeroBacked
  <2>2. \A o \in due : owner[o] = a /\ o \in finished
    BY DEF DealsInv, HeroBacked, DealsOf
  <2>3. g \in GoldOf(owner, finished, a) /\ g \in [Orders -> Nat]
    <3> HIDE DEF due
    <3>1. gold[a] \in GoldOf(owner, finished, a)
      BY DEF DealsInv, HeroBacked
    <3> QED
      BY <2>2, <3>1 DEF GoldOf
  <2>4. d \in DealsOf(owner, finished, a) /\ d \in [Orders -> Types]
    <3> HIDE DEF due
    <3>1. _deals_wait_to_pay[a] \in DealsOf(owner, finished, a)
      BY DEF DealsInv, HeroBacked
    <3> QED
      BY <2>2, <3>1 DEF DealsOf, Types
  <2>5. HeroBacked'
    <3> HIDE DEF d, g
    <3> QED
      BY <2>1, <2>3, <2>4 DEF DealsInv, HeroBacked, platVars
  <2>6. tasks \subseteq TasksOf(owner, finished)
    BY OwnOrder DEF task, TasksOf
  <2>7. IsFiniteSet(tasks)
    <3>1. IsFiniteSet(again)
      BY FS_Subset
    <3> DEFINE f == [o \in again |-> task("VerifyDeal", a, o, "none")]
    <3>2. f \in Surjection(again, tasks)
      BY DEF Surjection
    <3> HIDE DEF again, f, tasks
    <3> QED
      BY <3>1, <3>2, FS_Surjection
  <2>8. TasksBacked'
    <3> HIDE DEF tasks
    <3>1. SetToSeq(tasks) \in Seq(TasksOf(owner, finished))
      BY <2>6, <2>7, SetToSeqType
    <3> QED
      BY <2>1, <3>1 DEF DealsInv, TasksBacked, platVars
  <2> QED
    BY <2>1, <2>5, <2>8 DEF DealsInv, PlatformTyped, SavesBacked, RowsBacked, platVars, rowVars
<1>8. CASE update
  <2> DEFINE t == Head(_https)
  <2>1. t \in TasksOf(owner, finished) /\ Tail(_https) \in Seq(TasksOf(owner, finished))
    BY <1>8, HeadTask DEF update, DealsInv, TasksBacked
  <2>2. PICK o \in Orders \cup {NoOrder}, r \in {"created", "paid", "refused", "error"} :
          /\ answer(t, o, r)
          /\ _complete_task' = Append(_complete_task, task(t.kind, t.acc, o, r))
    BY <1>8 DEF update
  <2>3. _https' = Tail(_https) /\ UNCHANGED <<memVars, saveQ, rowVars>>
    BY <1>8 DEF update
  <2> HIDE DEF t
  <2>4. PlatformTyped' /\ Grows(owner, finished, owner', finished')
    BY <2>1, <2>2 DEF answer, PlatformTyped, DealsInv, Grows, TasksOf
  <2>5. task(t.kind, t.acc, o, r) \in TasksOf(owner', finished')
    BY <2>1, <2>2 DEF answer, TasksOf, task, DealsInv, PlatformTyped
  <2>6. /\ _complete_task \in Seq(TasksOf(owner', finished'))
        /\ _https \in Seq(TasksOf(owner', finished'))
        /\ HeroBacked' /\ RowsBacked' /\ SavesBacked'
    BY <2>3, <2>4, PlatformStep DEF SavesBacked
  <2>7. TasksBacked'
    <3>1. Tail(_https) \in Seq(TasksOf(owner', finished'))
      BY <2>6, <1>8, HeadTask DEF update
    <3> QED
      BY <2>2, <2>3, <2>5, <2>6, <3>1 DEF TasksBacked
  <2> QED
    BY <2>4, <2>6, <2>7 DEF DealsInv
<1>9. CASE logicUpdate
  <2> DEFINE t == Head(_complete_task)
  <2>1. t \in TasksOf(owner, finished) /\ Tail(_complete_task) \in Seq(TasksOf(owner, finished))
    BY <1>9, HeadTask DEF logicUpdate, DealsInv, TasksBacked
  <2>2. /\ addDealWaitToPay(t) \/ addDealPay(t) \/ OfflineHeroDealWaitToPay(t)
        /\ _complete_task' = Tail(_complete_task)
        /\ UNCHANGED <<hero, platVars, _https, rowVars>>
    BY <1>9 DEF logicUpdate
  <2> HIDE DEF t
  <2>a. owner' = owner /\ finished' = finished /\ Grows(owner, finished, owner', finished')
    BY <2>2 DEF platVars, Grows
  <2>3. CASE addDealWaitToPay(t)
    <3>1. UNCHANGED <<gold, saveQ>>
      BY <2>3 DEF addDealWaitToPay
    <3>a. HeroBacked' /\ SavesBacked' => DealsInv'
      BY <2>1, <2>2 DEF DealsInv, PlatformTyped, TasksBacked, RowsBacked, platVars, rowVars
    <3>2. CASE _deals_wait_to_pay' = _deals_wait_to_pay
      BY <2>2, <3>1, <3>2, <3>a DEF HeroBacked, SavesBacked, DealsInv, platVars
    <3>3. CASE /\ t.result = "created"
               /\ _deals_wait_to_pay' = [_deals_wait_to_pay EXCEPT ![t.acc][t.order] = "WaitToPay"]
      <4>1. t.acc \in Accounts /\ t.order \in Orders /\ owner[t.order] = t.acc
        BY <2>1, <3>3 DEF TasksOf
      <4>2. [_deals_wait_to_pay[t.acc] EXCEPT ![t.order] = "WaitToPay"] \in DealsOf(owner, finished, t.acc)
        BY <4>1 DEF DealsInv, HeroBacked, DealsOf, Types
      <4>3. /\ \A b \in Accounts : _deals_wait_to_pay'[b] =
                 IF b = t.acc THEN [_deals_wait_to_pay[t.acc] EXCEPT ![t.order] = "WaitToPay"]
                 ELSE _deals_wait_to_pay[b]
            /\ _deals_wait_to_pay' \in [Accounts -> [Orders -> Types]]
        BY <3>3, <4>1 DEF DealsInv, HeroBacked, Types
      <4> QED
        BY <2>2, <3>1, <3>a, <4>2, <4>3 DEF HeroBacked, SavesBacked, DealsInv, platVars
    <3> QED
      BY <2>3, <3>2, <3>3 DEF addDealWaitToPay
  <2>4. CASE addDealPay(t)
    <3>1. HeroBacked' /\ saveQ' = saveQ
      BY <2>1, <2>2, <2>4, <2>a, CreditBacked DEF DealsInv, addDealPay
    <3> QED
      BY <2>1, <2>2, <3>1 DEF DealsInv, PlatformTyped, TasksBacked, SavesBacked, RowsBacked, platVars, rowVars
  <2>5. CASE OfflineHeroDealWaitToPay(t)
    <3>1. SavesBacked' /\ UNCHANGED memVars
      BY <2>1, <2>2, <2>5, <2>a, OfflineBacked
         DEF DealsInv, SavesBacked, OfflineHeroDealWaitToPay, memVars
    <3> QED
      BY <2>1, <2>2, <3>1 DEF DealsInv, HeroBacked, PlatformTyped, TasksBacked, RowsBacked,
                              memVars, platVars, rowVars
  <2> QED
    BY <2>2, <2>3, <2>4, <2>5
<1>10. ASSUME NEW o \in Orders, parseClinchADealNotify(o) PROVE DealsInv'
  <2> DEFINE t == task("VerifyDeal", owner[o], o, "paid")
  <2>1. /\ owner[o] # NoAccount /\ finished' = finished \cup {o}
        /\ addDealPay(t) \/ OfflineHeroDealWaitToPay(t)
        /\ UNCHANGED <<hero, owner, httpVars, rowVars>>
    BY <1>10 DEF parseClinchADealNotify
  <2>2. PlatformTyped' /\ Grows(owner, finished, owner', finished')
    BY <2>1 DEF PlatformTyped, DealsInv, Grows
  <2>3. t.acc = owner[o] /\ t.order = o /\ owner[o] \in Accounts /\ t.result = "paid"
    BY <2>1 DEF task, DealsInv, PlatformTyped
  <2>4. /\ TasksBacked' /\ RowsBacked' /\ saveQ \in Seq(SqlsOf(owner', finished'))
        /\ UNCHANGED memVars => HeroBacked'
    BY <2>1, <2>2, PlatformStep DEF TasksBacked, httpVars
  <2>a. t \in TasksOf(owner', finished')
    BY <2>1, <2>3 DEF TasksOf, task
  <2> HIDE DEF t
  <2>5. CASE addDealPay(t)
    <3>1. HeroBacked' /\ saveQ' = saveQ
      BY <2>1, <2>2, <2>5, <2>a, CreditBacked DEF DealsInv, addDealPay
    <3> QED
      BY <2>2, <2>4, <3>1 DEF DealsInv, SavesBacked
  <2>6. CASE OfflineHeroDealWaitToPay(t)
    <3>1. SavesBacked' /\ UNCHANGED memVars
      BY <2>1, <2>4, <2>6, <2>a, OfflineBacked DEF OfflineHeroDealWaitToPay, memVars
    <3> QED
      BY <2>2, <2>4, <3>1 DEF DealsInv
  <2> QED
    BY <2>1, <2>5, <2>6
<1>11. CASE dbSave
  <2> DEFINE s == Head(saveQ)
  <2>1. s \in SqlsOf(owner, finished) /\ Tail(saveQ) \in Seq(SqlsOf(owner, finished))
    BY <1>11, HeadTask DEF dbSave, DealsInv, SavesBacked
  <2>2. saveQ' = Tail(saveQ) /\ UNCHANGED <<memVars, platVars, httpVars>>
    BY <1>11 DEF dbSave
  <2>3. CASE /\ s.table = "character"
             /\ rowGold' = [rowGold EXCEPT ![s.acc] = s.gold]
             /\ UNCHANGED <<dealType, dealAcc>>
    <3> HIDE DEF s
    <3>1. s.acc \in Accounts /\ s.gold \in GoldOf(owner, finished, s.acc) /\ s.gold \in [Orders -> Nat]
      BY <2>1, <2>3 DEF SqlsOf, CharacterSqls, DealSqls
    <3>2. RowsBacked'
      BY <2>2, <2>3, <3>1 DEF DealsInv, RowsBacked, platVars
    <3> QED
      BY <2>1, <2>2, <3>2 DEF DealsInv, HeroBacked, PlatformTyped, TasksBacked, SavesBacked,
                              memVars, platVars, httpVars
  <2>4. CASE /\ s.table = "deal_wait_to_pay"
             /\ dealType' = [o \in Orders |-> IF s.types[o] = "none" THEN dealType[o] ELSE s.types[o]]
             /\ dealAcc' = [o \in Orders |-> IF s.types[o] = "none" THEN dealAcc[o] ELSE s.acc]
             /\ UNCHANGED rowGold
    <3> HIDE DEF s
    <3>1. /\ s.acc \in Accounts \cup {NoAccount} /\ s.types \in [Orders -> Types]
          /\ s.types \in DealsOf(owner, finished, s.acc)
      BY <2>1, <2>4 DEF SqlsOf, CharacterSqls, DealSqls
    <3>2. \A o \in Orders : s.types[o] # "none" =>
            /\ s.acc # NoAccount => owner[o] = s.acc
            /\ s.types[o] = "WaitPrepareToPay" => o \in finished
      BY <3>1 DEF DealsOf
    <3>3. RowsBacked'
      BY <2>2, <2>4, <3>1, <3>2 DEF DealsInv, RowsBacked, platVars
    <3> QED
      BY <2>1, <2>2, <3>3 DEF DealsInv, HeroBacked, PlatformTyped, TasksBacked, SavesBacked,
                              memVars, platVars, httpVars
  <2> QED
    BY <1>11, <2>3, <2>4 DEF dbSave
<1>12. CASE dbLoss
  <2>1. SavesBacked' /\ UNCHANGED <<platVars, httpVars, rowVars>>
    BY <1>12 DEF dbLoss, DealsInv, SavesBacked, platVars
  <2>2. PICK S \in SUBSET {a \in Accounts : hero[a] \in {"query", "queryDeals", "reply"}} :
          /\ hero' = [a \in Accounts |-> IF a \in S THEN "out" ELSE hero[a]]
          /\ gold' = [a \in Accounts |-> IF a \in S THEN NoGold ELSE gold[a]]
          /\ _deals_wait_to_pay' = [a \in Accounts |-> IF a \in S THEN NoDeals ELSE _deals_wait_to_pay[a]]
    BY <1>12 DEF dbLoss
  <2>3. HeroBacked'
    BY <1>0, <2>1, <2>2 DEF DealsInv, HeroBacked, platVars
  <2> QED
    BY <2>1, <2>3 DEF DealsInv, PlatformTyped, TasksBacked, RowsBacked, platVars, httpVars, rowVars
<1>13. CASE crash
  <2>1. SavesBacked' /\ UNCHANGED <<platVars, rowVars>>
    BY <1>13 DEF crash, DealsInv, SavesBacked, platVars
  <2>2. HeroBacked' /\ TasksBacked'
    BY <1>0, <1>13, <2>1 DEF crash, DealsInv, HeroBacked, TasksBacked, platVars
  <2> QED
    BY <2>1, <2>2 DEF DealsInv, PlatformTyped, RowsBacked, platVars, rowVars
<1>14. CASE UNCHANGED vars
  BY <1>14 DEF vars, memVars, platVars, httpVars, rowVars, DealsInv, HeroBacked, PlatformTyped,
               TasksBacked, SavesBacked, RowsBacked
<1> QED
  BY <1>1, <1>2, <1>3, <1>4, <1>5, <1>6, <1>7, <1>8, <1>9, <1>10, <1>11, <1>12, <1>13, <1>14 DEF Next

\* Whatever is lost, repeated or overtaken, every hero, HTTP task, statement and row
\* holds only gold and orders that the platform backs.
THEOREM DealsInvariant == Spec => []DealsInv
<1>1. Init => DealsInv
  <2> SUFFICES ASSUME Init PROVE DealsInv
    OBVIOUS
  <2>1. /\ \A own, fin : \A a : NoGold \in GoldOf(own, fin, a) /\ NoDeals \in DealsOf(own, fin, a)
        /\ NoGold \in [Orders -> Nat] /\ NoDeals \in [Orders -> Types]
    BY NothingBacked DEF NoGold, NoDeals, Types
  <2>2. HeroBacked
    BY <2>1 DEF Init, HeroBacked
  <2>3. PlatformTyped /\ TasksBacked /\ SavesBacked
    BY DEF Init, PlatformTyped, TasksBacked, SavesBacked
  <2>4. RowsBacked
    <3>1. \A o \in Orders : NoDeals[o] = "none"
      BY DEF NoDeals
    <3> QED
      BY <2>1, <3>1 DEF Init, RowsBacked
  <2> QED
    BY <2>2, <2>3, <2>4 DEF DealsInv
<1> QED
  BY <1>1, DealsStep, PTL DEF Spec

\* No hero, in memory or saved, ever has gold from an order that is another's or that
\* the platform has not closed as paid: in every environment, with crashes, lost
\* answers, overtaken saves and a platform that confirms an order again.
THEOREM NeverUnpaidCredit == Spec => []NoUnpaidCredit
<1>1. DealsInv => NoUnpaidCredit
  BY DEF DealsInv, HeroBacked, RowsBacked, GoldOf, NoUnpaidCredit
<1> QED
  BY <1>1, DealsInvariant, PTL

-----------------------------------------------------------------------------
(* The gold that was last sent to the database *)

\* A set of places in a queue has a last one.
LEMMA LastOf ==
  ASSUME NEW n \in Nat, NEW S \in SUBSET (1..n), S # {}
  PROVE  \E i \in S : \A j \in S : j <= i
<1> DEFINE T == {n - i : i \in S}
<1>0. PICK k \in S : TRUE
  OBVIOUS
<1>1. T \subseteq Nat /\ T # {}
  <2>1. \A i \in S : n - i \in Nat
    OBVIOUS
  <2>2. n - k \in T
    BY <1>0
  <2> QED
    BY <2>1, <2>2
<1>2. PICK x \in T : \A y \in T : ~(<<y, x>> \in OpToRel(<, Nat))
  <2> HIDE DEF T
  <2> QED
    BY <1>1, NatLessThanWellFounded, WFMin, Zenon
<1>3. \A y \in T : ~(y < x)
  <2> HIDE DEF T
  <2>1. x \in Nat
    BY <1>1
  <2> QED
    BY <1>1, <1>2, <2>1 DEF OpToRel
<1>4. PICK i \in S : x = n - i
  OBVIOUS
<1>5. \A j \in S : j <= i
  <2> SUFFICES ASSUME NEW j \in S PROVE j <= i
    OBVIOUS
  <2>1. n - j \in T /\ i \in Nat /\ j \in Nat
    OBVIOUS
  <2>2. ~(n - j < x)
    BY <1>3, <2>1
  <2> HIDE DEF T
  <2> QED
    BY <1>4, <2>1, <2>2
<1> QED
  BY <1>5

\* The statements of a queue q that save the hero of a, and the gold of the last of
\* them, or g if there is none.
isSave(s, a) == s.table = "character" /\ s.acc = a
savesOf(q, a) == {i \in DOMAIN q : isSave(q[i], a)}
lastOf(q, g, a) ==
  IF savesOf(q, a) = {} THEN g
  ELSE q[CHOOSE i \in savesOf(q, a) : \A j \in savesOf(q, a) : j <= i].gold

\* lastSaved is lastOf of the queue and the row.
LEMMA LastSavedIs ==
  ASSUME NEW a PROVE lastSaved(a) = lastOf(saveQ, rowGold[a], a)
BY DEF lastSaved, lastOf, savesOf, isSave

\* What lastOf returns, by the last save.
LEMMA LastOfIs ==
  ASSUME NEW X, NEW q \in Seq(X), NEW g, NEW a, NEW m \in DOMAIN q, isSave(q[m], a),
         \A j \in DOMAIN q : isSave(q[j], a) => j <= m
  PROVE  lastOf(q, g, a) = q[m].gold
<1> DEFINE S == savesOf(q, a)
<1>1. m \in S /\ (\A j \in S : j <= m) /\ S \subseteq Nat
  BY DEF savesOf
<1>2. \A i \in S : (\A j \in S : j <= i) => i = m
  <2> HIDE DEF S
  <2> QED
    BY <1>1
<1>3. (CHOOSE i \in S : \A j \in S : j <= i) = m
  <2> HIDE DEF S
  <2> QED
    BY <1>1, <1>2
<1>4. lastOf(q, g, a) = q[CHOOSE i \in S : \A j \in S : j <= i].gold
  BY <1>1 DEF lastOf
<1> HIDE DEF S
<1> QED
  BY <1>3, <1>4

\* There is no save, or a last one.
LEMMA LastOfCases ==
  ASSUME NEW X, NEW q \in Seq(X), NEW g, NEW a
  PROVE  \/ (\A j \in DOMAIN q : ~isSave(q[j], a)) /\ lastOf(q, g, a) = g
         \/ \E m \in DOMAIN q : /\ isSave(q[m], a)
                                /\ \A j \in DOMAIN q : isSave(q[j], a) => j <= m
                                /\ lastOf(q, g, a) = q[m].gold
<1>1. CASE savesOf(q, a) = {}
  <2>1. \A j \in DOMAIN q : ~isSave(q[j], a)
    BY <1>1 DEF savesOf
  <2> QED
    BY <1>1, <2>1 DEF lastOf
<1>2. CASE savesOf(q, a) # {}
  <2>1. savesOf(q, a) \in SUBSET (1..Len(q)) /\ Len(q) \in Nat
    BY DEF savesOf
  <2>2. PICK m \in savesOf(q, a) : \A j \in savesOf(q, a) : j <= m
    BY <1>2, <2>1, LastOf
  <2>3. m \in DOMAIN q /\ isSave(q[m], a) /\ \A j \in DOMAIN q : isSave(q[j], a) => j <= m
    BY <2>2 DEF savesOf
  <2> QED
    BY <2>3, LastOfIs
<1> QED
  BY <1>1, <1>2

\* A statement that is not a save of a does not change what was last saved of a.
LEMMA LastOfAppend ==
  ASSUME NEW X, NEW q \in Seq(X), NEW s \in X, NEW g, NEW a, ~isSave(s, a)
  PROVE  lastOf(Append(q, s), g, a) = lastOf(q, g, a)
<1> DEFINE r == Append(q, s)
<1>1. r \in Seq(X) /\ DOMAIN r = DOMAIN q \cup {Len(q) + 1} /\ r[Len(q) + 1] = s
      /\ \A i \in DOMAIN q : r[i] = q[i]
  OBVIOUS
<1> HIDE DEF r
<1>2. \A i \in DOMAIN r : isSave(r[i], a) <=> i \in DOMAIN q /\ isSave(q[i], a)
  BY <1>1
<1>3. CASE (\A j \in DOMAIN q : ~isSave(q[j], a)) /\ lastOf(q, g, a) = g
  <2>1. savesOf(r, a) = {}
    BY <1>2, <1>3 DEF savesOf
  <2> QED
    BY <1>3, <2>1 DEF lastOf, r
<1>4. ASSUME NEW m \in DOMAIN q, isSave(q[m], a), \A j \in DOMAIN q : isSave(q[j], a) => j <= m,
             lastOf(q, g, a) = q[m].gold
      PROVE  lastOf(r, g, a) = lastOf(q, g, a)
  <2>1. m \in DOMAIN r /\ isSave(r[m], a) /\ \A j \in DOMAIN r : isSave(r[j], a) => j <= m
    BY <1>1, <1>2, <1>4
  <2>2. lastOf(r, g, a) = r[m].gold
    BY <1>1, <2>1, LastOfIs
  <2> QED
    BY <1>1, <1>4, <2>2
<1> QED
  BY <1>3, <1>4, LastOfCases DEF r

\* Executing the first statement does not change what was last saved of a.
LEMMA LastOfTail ==
  ASSUME NEW X, NEW q \in Seq(X), q # <<>>, NEW g, NEW h, NEW a,
         h = IF isSave(q[1], a) THEN q[1].gold ELSE g
  PROVE  lastOf(Tail(q), h, a) = lastOf(q, g, a)
<1> DEFINE r == Tail(q)
<1>1. /\ r \in Seq(X) /\ Len(q) \in Nat \ {0} /\ DOMAIN q = 1..Len(q) /\ DOMAIN r = 1..(Len(q) - 1)
      /\ \A i \in 1..(Len(q) - 1) : r[i] = q[i + 1]
  OBVIOUS
<1> HIDE DEF r
<1>2. CASE \A j \in DOMAIN r : ~isSave(r[j], a)
  <2>1. savesOf(r, a) = {}
    BY <1>2 DEF savesOf
  <2>2. lastOf(r, h, a) = h
    BY <2>1 DEF lastOf
  <2>3. \A j \in DOMAIN q : isSave(q[j], a) => j = 1
    <3> SUFFICES ASSUME NEW j \in DOMAIN q, isSave(q[j], a), j # 1 PROVE FALSE
      OBVIOUS
    <3>1. j - 1 \in DOMAIN r /\ r[j - 1] = q[(j - 1) + 1] /\ (j - 1) + 1 = j
      BY <1>1
    <3> QED
      BY <1>2, <3>1
  <2>4. CASE isSave(q[1], a)
    <3>1. 1 \in DOMAIN q /\ \A j \in DOMAIN q : isSave(q[j], a) => j <= 1
      BY <1>1, <2>3
    <3>2. lastOf(q, g, a) = q[1].gold
      BY <2>4, <3>1, LastOfIs
    <3> QED
      BY <2>2, <2>4, <3>2 DEF r
  <2>5. CASE ~isSave(q[1], a)
    <3>1. savesOf(q, a) = {}
      BY <2>3, <2>5 DEF savesOf
    <3> QED
      BY <2>2, <2>5, <3>1 DEF lastOf, r
  <2> QED
    BY <2>4, <2>5
<1>3. ASSUME NEW m \in DOMAIN r, isSave(r[m], a), \A j \in DOMAIN r : isSave(r[j], a) => j <= m,
             lastOf(r, h, a) = r[m].gold
      PROVE  lastOf(r, h, a) = lastOf(q, g, a)
  <2>1. m + 1 \in DOMAIN q /\ isSave(q[m + 1], a) /\ r[m] = q[m + 1]
    BY <1>1, <1>3
  <2>2. \A j \in DOMAIN q : isSave(q[j], a) => j <= m + 1
    <3> SUFFICES ASSUME NEW j \in DOMAIN q, isSave(q[j], a), j # 1 PROVE j <= m + 1
      BY <1>1
    <3>1. j - 1 \in DOMAIN r /\ r[j - 1] = q[(j - 1) + 1] /\ (j - 1) + 1 = j
      BY <1>1
    <3>2. j - 1 <= m
      BY <1>3, <3>1
    <3> QED
      BY <1>1, <3>2
  <2>3. lastOf(q, g, a) = q[m + 1].gold
    BY <2>1, <2>2, LastOfIs
  <2> QED
    BY <1>3, <2>1, <2>3
<1> QED
  BY <1>1, <1>2, <1>3, LastOfCases DEF r

-----------------------------------------------------------------------------
(* An order is credited once.  The environment closes an order once, keeps    *)
(* the order of saves and queries, saves a hero before Destroy and does not    *)
(* crash.  Of the places an order passes through, "owed" are those that will   *)
(* have it credited at the next load, and "given" those that hold its gold;    *)
(* place 0 is the row, place i the i-th statement of the save queue.           *)

owes(s, o) == s.table = "deal_wait_to_pay" /\ s.types[o] = "WaitPrepareToPay"
gives(s, o) == s.table = "character" /\ s.gold[o] > 0
closes(s, a, o) == s.table = "deal_wait_to_pay" /\ s.acc = a /\ s.types[o] = "Complete"

Places == 0..Len(saveQ)
owed(o, i) == IF i = 0 THEN dealType[o] = "WaitPrepareToPay" ELSE owes(saveQ[i], o)
given(o, i) == IF i = 0 THEN \E a \in Accounts : rowGold[a][o] > 0 ELSE gives(saveQ[i], o)
closed(o, i) == i \in Places \ {0} /\ closes(saveQ[i], owner[o], o)

anyOwed(o) == \E i \in Places : owed(o, i)
anyGiven(o) == \E i \in Places : given(o, i)

\* Nobody has the gold of o, and nobody gets it at a load.
Untouched(o) ==
  /\ ~anyOwed(o) /\ ~anyGiven(o)
  /\ \A a \in Accounts : _deals_wait_to_pay[a][o] # "WaitPrepareToPay" /\ gold[a][o] = 0

\* A result "paid" of o waits for the main thread.
paid(o, i) == _complete_task[i].result = "paid" /\ _complete_task[i].order = o
pending(o) == \E i \in DOMAIN _complete_task : paid(o, i)

once(o) == \A i, j \in DOMAIN _complete_task : paid(o, i) /\ paid(o, j) => i = j

\* While a result "paid" is under way it is the only one, and nothing else is.
OneAnswer == \A o \in Orders : once(o) /\ (pending(o) => Untouched(o))

\* Gold follows what was owed, and the statement after it closes the order.
InTurn ==
  \A o \in Orders : \A i, j \in Places :
    owed(o, i) /\ given(o, j) => i <= j /\ closed(o, j + 1)

\* A hero with the gold of an order that is still owed somewhere has it as complete.
Marked ==
  \A a \in Accounts, o \in Orders :
    GetHero(a) /\ gold[a][o] > 0 /\ anyOwed(o) => _deals_wait_to_pay[a][o] = "Complete"

\* An order that waits for its credit was not credited.
Unspent ==
  \A a \in Accounts, o \in Orders :
    _deals_wait_to_pay[a][o] = "WaitPrepareToPay" => gold[a][o] = 0 /\ ~anyGiven(o)

\* While a hero loads, its gold is that of the row, no save of it is under way, and none
\* of its orders is both credited and owed.
Loading ==
  \A a \in Accounts : hero[a] \in {"queryDeals", "reply"} =>
    /\ gold[a] = rowGold[a]
    /\ \A i \in DOMAIN saveQ : ~isSave(saveQ[i], a)
    /\ \A o \in Orders : gold[a][o] > 0 => ~anyOwed(o)

\* The inductive invariant, beside DealsInv
PayInv == OneAnswer /\ InTurn /\ Marked /\ Unspent /\ Loading

\* Gold of an order belongs to the account it was created for.
LEMMA GoldOwner ==
  ASSUME DealsInv, NEW a \in Accounts, NEW o \in Orders, gold[a][o] > 0
  PROVE  owner[o] = a /\ o \in finished
BY DEF DealsInv, HeroBacked, GoldOf

\* The type of a statement in the queue.
LEMMA SqlTypes ==
  ASSUME NEW own, NEW fin, NEW s \in SqlsOf(own, fin)
  PROVE  \/ /\ s.table = "character" /\ s.acc \in Accounts /\ s.gold \in GoldOf(own, fin, s.acc)
            /\ s.gold \in [Orders -> Nat]
         \/ /\ s.table = "deal_wait_to_pay" /\ s.acc \in Accounts \cup {NoAccount}
            /\ s.types \in DealsOf(own, fin, s.acc)
            /\ s.types \in [Orders -> Types]
BY DEF SqlsOf, CharacterSqls, DealSqls

\* What is owed or given of an order was paid; given is given to its owner.
LEMMA PlacesBacked ==
  ASSUME DealsInv, NEW o \in Orders
  PROVE  /\ anyOwed(o) => o \in finished
         /\ anyGiven(o) => o \in finished /\ owner[o] \in Accounts
         /\ \A i \in DOMAIN saveQ : gives(saveQ[i], o) => saveQ[i].acc = owner[o]
         /\ \A a \in Accounts : rowGold[a][o] > 0 => a = owner[o]
<1>1. /\ dealType[o] = "WaitPrepareToPay" => o \in finished
      /\ \A a \in Accounts : rowGold[a][o] > 0 => o \in finished /\ owner[o] = a
  BY DEF DealsInv, RowsBacked, GoldOf
<1>2. ASSUME NEW i \in DOMAIN saveQ
      PROVE  /\ owes(saveQ[i], o) => o \in finished
             /\ gives(saveQ[i], o) => o \in finished /\ owner[o] = saveQ[i].acc /\ owner[o] \in Accounts
  <2>1. saveQ[i] \in SqlsOf(owner, finished)
    BY DEF DealsInv, SavesBacked
  <2>2. PICK s : s = saveQ[i]
    OBVIOUS
  <2>3. owes(s, o) => o \in finished
    BY <2>1, <2>2, SqlTypes DEF owes, DealsOf
  <2>4. gives(s, o) => o \in finished /\ owner[o] = s.acc /\ owner[o] \in Accounts
    BY <2>1, <2>2, SqlTypes DEF gives, GoldOf
  <2> QED
    BY <2>2, <2>3, <2>4
<1>3. DOMAIN saveQ = Places \ {0}
  <2>1. DOMAIN saveQ = 1..Len(saveQ) /\ Len(saveQ) \in Nat
    BY DEF DealsInv, SavesBacked
  <2> QED
    BY <2>1 DEF Places
<1> QED
  BY <1>1, <1>2, <1>3 DEF anyOwed, anyGiven, owed, given

\* An order that is not closed is untouched, and no result "paid" is under way.
LEMMA UnpaidUntouched ==
  ASSUME DealsInv, NEW o \in Orders, o \notin finished
  PROVE  Untouched(o) /\ ~pending(o)
<1>1. ~anyOwed(o) /\ ~anyGiven(o)
  BY PlacesBacked
<1>2. \A a \in Accounts : _deals_wait_to_pay[a][o] # "WaitPrepareToPay" /\ gold[a][o] = 0
  BY DEF DealsInv, HeroBacked, DealsOf, GoldOf
<1>3. ASSUME NEW i \in DOMAIN _complete_task PROVE ~paid(o, i)
  <2>1. _complete_task[i] \in TasksOf(owner, finished)
    BY DEF DealsInv, TasksBacked
  <2>2. PICK t : t = _complete_task[i]
    OBVIOUS
  <2> QED
    BY <2>1, <2>2 DEF TasksOf, paid
<1> QED
  BY <1>1, <1>2, <1>3 DEF Untouched, pending

-----------------------------------------------------------------------------
(* How steps change the places *)

\* Nothing changes in the queue and the rows.
LEMMA PlacesSame ==
  ASSUME UNCHANGED <<saveQ, rowVars>>
  PROVE  /\ \A o : anyOwed(o)' <=> anyOwed(o)
         /\ \A o : anyGiven(o)' <=> anyGiven(o)
         /\ UNCHANGED owner /\ InTurn => InTurn'
BY DEF rowVars, anyOwed, anyGiven, owed, given, Places, InTurn, closed

\* A statement that saves no hero goes into the queue; nothing is given of the orders it
\* makes owed.
LEMMA PlacesAppend ==
  ASSUME DealsInv, InTurn, NEW s, s.table = "deal_wait_to_pay", saveQ' = Append(saveQ, s),
         UNCHANGED <<rowVars, owner>>, \A o \in Orders : owes(s, o) => ~anyGiven(o)
  PROVE  /\ \A o : anyOwed(o)' <=> anyOwed(o) \/ owes(s, o)
         /\ \A o : anyGiven(o)' <=> anyGiven(o)
         /\ InTurn'
<1>1. /\ saveQ \in Seq(SqlsOf(owner, finished)) /\ Len(saveQ) \in Nat
      /\ Len(saveQ') = Len(saveQ) + 1 /\ saveQ'[Len(saveQ) + 1] = s
      /\ \A i \in 1..Len(saveQ) : saveQ'[i] = saveQ[i]
  BY DEF DealsInv, SavesBacked
<1>n. PICK n \in Nat : n = Len(saveQ)
  BY <1>1
<1>2. Places' = Places \cup {n + 1} /\ n + 1 # 0 /\ n + 1 \notin Places
  BY <1>1, <1>n DEF Places
<1>3. ~\E o : gives(s, o)
  BY DEF gives
<1>4. \A o : \A i \in Places : (owed(o, i)' <=> owed(o, i)) /\ (given(o, i)' <=> given(o, i))
  BY <1>1 DEF owed, given, Places, rowVars
<1>5. \A o : (owed(o, n + 1)' <=> owes(s, o)) /\ ~given(o, n + 1)'
  BY <1>1, <1>n, <1>3 DEF owed, given
<1>6. \A o : \A i \in Places : closed(o, i) => closed(o, i)'
  BY <1>1, <1>2 DEF closed, Places
<1>7. \A o, i : closed(o, i) => i \in Places
  BY DEF closed
<1>8. Places \subseteq Nat /\ \A i \in Places : i <= n + 1
  BY <1>1, <1>n DEF Places
<1>9. \A o : anyOwed(o)' <=> anyOwed(o) \/ owes(s, o)
  BY <1>2, <1>4, <1>5 DEF anyOwed
<1>10. \A o : anyGiven(o)' <=> anyGiven(o)
  BY <1>2, <1>4, <1>5 DEF anyGiven
<1>11. InTurn'
  <2> SUFFICES ASSUME NEW o \in Orders, NEW i \in Places', NEW j \in Places', owed(o, i)', given(o, j)'
               PROVE  i <= j /\ closed(o, j + 1)'
    BY DEF InTurn
  <2>1. j \in Places /\ given(o, j) /\ anyGiven(o)
    BY <1>2, <1>4, <1>5 DEF anyGiven
  <2>2. i \in Places /\ owed(o, i)
    BY <1>2, <1>4, <1>5, <2>1
  <2> QED
    BY <1>6, <1>7, <2>1, <2>2 DEF InTurn
<1> QED
  BY <1>9, <1>10, <1>11

\* SaveHero sends the hero and, in the next statement, its orders.
LEMMA PlacesSave ==
  ASSUME DealsInv, PayInv, NEW a \in Accounts, SaveHero(a)
  PROVE  /\ \A o \in Orders : anyOwed(o)' => anyOwed(o) \/ _deals_wait_to_pay[a][o] = "WaitPrepareToPay"
         /\ \A o \in Orders : anyGiven(o)' => anyGiven(o) \/ gold[a][o] > 0
         /\ \A i \in DOMAIN saveQ', b \in Accounts :
              isSave(saveQ'[i], b) => b = a \/ (i \in DOMAIN saveQ /\ isSave(saveQ[i], b))
         /\ InTurn'
<1>1. PICK n \in Nat : n = Len(saveQ)
  BY DEF DealsInv, SavesBacked
<1>2. PICK c, d : c = characterSql(a) /\ d = dealSql(a, _deals_wait_to_pay[a])
  OBVIOUS
<1>3. /\ \A i \in 1..n : saveQ'[i] = saveQ[i]
      /\ saveQ'[n + 1] = c
      /\ \/ Len(saveQ') = n + 1 /\ _deals_wait_to_pay[a] = NoDeals
         \/ Len(saveQ') = n + 2 /\ saveQ'[n + 2] = d
      /\ DOMAIN saveQ' = 1..Len(saveQ') /\ DOMAIN saveQ = 1..n
  <2>1. saveQ \in Seq(SqlsOf(owner, finished))
    BY DEF DealsInv, SavesBacked
  <2>2. PICK h \in Seq(SqlsOf(owner, finished)) : h = heroSql(a)
    BY HeroSqlBacked
  <2>3. saveQ' = saveQ \o h
    BY <2>2 DEF SaveHero
  <2>4. CASE h = <<c>> /\ _deals_wait_to_pay[a] = NoDeals
    BY ONLY <1>1, <2>1, <2>2, <2>3, <2>4
  <2>5. CASE h = <<c, d>>
    BY ONLY <1>1, <2>1, <2>2, <2>3, <2>5
  <2> QED
    BY <1>2, <2>2, <2>4, <2>5 DEF heroSql
<1>4. /\ \A o \in Orders : gives(c, o) <=> gold[a][o] > 0
      /\ \A o \in Orders : ~owes(c, o) /\ ~gives(d, o)
      /\ \A o \in Orders : owes(d, o) <=> _deals_wait_to_pay[a][o] = "WaitPrepareToPay"
      /\ \A o \in Orders : _deals_wait_to_pay[a][o] = "Complete" => closes(d, a, o)
      /\ \A b : isSave(c, b) => b = a
      /\ \A b : ~isSave(d, b)
  BY <1>2 DEF characterSql, dealSql, gives, owes, closes, isSave
<1>5. UNCHANGED <<hero, _deals_wait_to_pay, gold, owner, rowGold, dealType>>
  BY DEF SaveHero, memVars, platVars, rowVars
<1>6. Places = 0..n /\ Places' = 0..Len(saveQ')
  BY <1>1 DEF Places
<1>a. \A i \in 1..Len(saveQ') : i \in 1..n \/ i = n + 1 \/ (i = n + 2 /\ saveQ'[n + 2] = d)
  <2>1. CASE Len(saveQ') = n + 1
    BY <1>1, <2>1
  <2>2. CASE Len(saveQ') = n + 2 /\ saveQ'[n + 2] = d
    BY <1>1, <2>2
  <2> QED
    BY <1>3, <2>1, <2>2
<1>b. /\ \A i \in Places : i = 0 \/ i \in 1..n
      /\ \A i \in Places' \ Places : i # 0 /\ i \in 1..Len(saveQ')
  <2>0. PICK m : m = Len(saveQ')
    OBVIOUS
  <2>1. m \in {n + 1, n + 2}
    BY <1>3, <2>0, Zenon
  <2>2. Places = 0..n /\ Places' = 0..m
    BY <1>6, <2>0
  <2>3. 1..m = 1..Len(saveQ')
    BY <2>0
  <2> QED
    BY ONLY <1>1, <2>1, <2>2, <2>3
<1>7. \A o : \A i \in Places : (owed(o, i)' <=> owed(o, i)) /\ (given(o, i)' <=> given(o, i))
  <2> SUFFICES ASSUME NEW o, NEW i \in Places
               PROVE  (owed(o, i)' <=> owed(o, i)) /\ (given(o, i)' <=> given(o, i))
    OBVIOUS
  <2>1. CASE i = 0
    BY <1>5, <2>1 DEF owed, given
  <2>2. CASE i # 0 /\ i \in 1..n
    <3>1. saveQ'[i] = saveQ[i]
      BY <1>3, <2>2
    <3> QED
      BY <2>2, <3>1 DEF owed, given
  <2> QED
    BY <1>1, <1>b, <2>1, <2>2
<1>8. \A o \in Orders : \A i \in Places' \ Places :
        /\ owed(o, i)' => i = n + 2 /\ _deals_wait_to_pay[a][o] = "WaitPrepareToPay"
        /\ given(o, i)' => i = n + 1 /\ gold[a][o] > 0
  <2> SUFFICES ASSUME NEW o \in Orders, NEW i \in Places' \ Places
               PROVE  /\ owed(o, i)' => i = n + 2 /\ _deals_wait_to_pay[a][o] = "WaitPrepareToPay"
                      /\ given(o, i)' => i = n + 1 /\ gold[a][o] > 0
    OBVIOUS
  <2>1. i # 0 /\ (i = n + 1 \/ (i = n + 2 /\ saveQ'[n + 2] = d))
    <3>1. i # 0 /\ i \in 1..Len(saveQ') /\ i \notin 1..n
      <4>1. 1..n \subseteq Places
        BY <1>6
      <4> QED
        BY <1>b, <4>1
    <3> QED
      BY <1>a, <3>1
  <2>2. (owed(o, i)' <=> owes(saveQ'[i], o)) /\ (given(o, i)' <=> gives(saveQ'[i], o))
    BY <2>1 DEF owed, given
  <2>3. CASE i = n + 1
    BY <1>3, <1>4, <2>2, <2>3
  <2>4. CASE i = n + 2 /\ saveQ'[n + 2] = d
    BY <1>4, <2>2, <2>4
  <2> QED
    BY <2>1, <2>3, <2>4
<1>9. \A o : \A i \in Places : closed(o, i) => closed(o, i)'
  <2>1. Places \subseteq Places' /\ Places \ {0} = 1..n
    BY <1>3, <1>6
  <2> QED
    BY <1>3, <1>5, <2>1 DEF closed
<1>10. \A o \in Orders : anyOwed(o)' => anyOwed(o) \/ _deals_wait_to_pay[a][o] = "WaitPrepareToPay"
  BY <1>7, <1>8 DEF anyOwed
<1>11. \A o \in Orders : anyGiven(o)' => anyGiven(o) \/ gold[a][o] > 0
  BY <1>7, <1>8 DEF anyGiven
<1>12. \A i \in DOMAIN saveQ', b \in Accounts :
         isSave(saveQ'[i], b) => b = a \/ (i \in DOMAIN saveQ /\ isSave(saveQ[i], b))
  <2> SUFFICES ASSUME NEW i \in DOMAIN saveQ', NEW b \in Accounts, isSave(saveQ'[i], b), b # a
               PROVE  i \in DOMAIN saveQ /\ isSave(saveQ[i], b)
    OBVIOUS
  <2>1. i # n + 1 /\ ~(i = n + 2 /\ saveQ'[n + 2] = d)
    BY <1>3, <1>4
  <2>2. i \in 1..n
    BY <1>3, <1>a, <2>1
  <2> QED
    BY <1>3, <2>2
<1>13. InTurn'
  <2> SUFFICES ASSUME NEW o \in Orders, NEW i \in Places', NEW j \in Places', owed(o, i)', given(o, j)'
               PROVE  i <= j /\ closed(o, j + 1)'
    BY DEF InTurn
  <2>1. anyGiven(o) \/ gold[a][o] > 0
    BY <1>11 DEF anyGiven
  <2>2. i \in Places /\ owed(o, i) /\ anyOwed(o)
    <3>1. i \in Places
      BY <1>8, <2>1 DEF PayInv, Unspent, DealsInv, HeroBacked
    <3> QED
      BY <1>7, <3>1 DEF anyOwed
  <2>3. CASE j \in Places
    <3>1. given(o, j)
      BY <1>7, <2>3
    <3>2. i <= j /\ closed(o, j + 1)
      BY <2>2, <2>3, <3>1 DEF PayInv, InTurn
    <3>3. j + 1 \in Places
      BY <3>2 DEF closed
    <3> QED
      BY <1>9, <3>2, <3>3
  <2>4. CASE j \notin Places
    <3>1. j = n + 1 /\ gold[a][o] > 0
      BY <1>8, <2>4
    <3>2. _deals_wait_to_pay[a][o] = "Complete" /\ owner[o] = a
      BY <2>2, <3>1, GoldOwner DEF PayInv, Marked, SaveHero
    <3>3. Len(saveQ') = n + 2 /\ saveQ'[n + 2] = d /\ closes(d, a, o)
      BY <1>3, <1>4, <3>2 DEF NoDeals
    <3>4. closed(o, n + 2)'
      BY <1>5, <1>6, <3>2, <3>3 DEF closed
    <3>5. i <= j /\ j + 1 = n + 2
      BY <1>6, <2>2, <3>1
    <3> QED
      BY <3>4, <3>5
  <2> QED
    BY <2>3, <2>4
<1> QED
  BY <1>10, <1>11, <1>12, <1>13

\* The database thread executes the first statement.
LEMMA PlacesTail ==
  ASSUME DealsInv, InTurn, dbSave
  PROVE  /\ \A o \in Orders : anyOwed(o)' => anyOwed(o)
         /\ \A o \in Orders : anyGiven(o)' => anyGiven(o)
         /\ \A i \in DOMAIN saveQ' : i + 1 \in DOMAIN saveQ /\ saveQ'[i] = saveQ[i + 1]
         /\ 1 \in DOMAIN saveQ
         /\ \A a \in Accounts : rowGold'[a] = IF isSave(saveQ[1], a) THEN saveQ[1].gold ELSE rowGold[a]
         /\ InTurn'
<1>1. PICK n \in Nat \ {0} : n = Len(saveQ)
  BY DEF DealsInv, SavesBacked, dbSave
<1>2. PICK s : s = saveQ[1]
  OBVIOUS
<1>3. /\ Len(saveQ') = n - 1 /\ DOMAIN saveQ = 1..n /\ DOMAIN saveQ' = 1..(n - 1)
      /\ \A i \in 1..(n - 1) : saveQ'[i] = saveQ[i + 1]
      /\ s = Head(saveQ) /\ s \in SqlsOf(owner, finished)
  BY <1>1, <1>2 DEF dbSave, DealsInv, SavesBacked
<1>4. Places = 0..n /\ Places' = 0..(n - 1)
  BY <1>1, <1>3 DEF Places
<1>5. owner' = owner
  BY DEF dbSave, platVars
<1>6. \A i \in 1..(n - 1) : \A o :
        /\ owed(o, i)' <=> owed(o, i + 1)
        /\ given(o, i)' <=> given(o, i + 1)
        /\ closed(o, i + 1) => closed(o, i)'
  BY <1>3, <1>4, <1>5 DEF owed, given, closed
<1>7. \A a \in Accounts : rowGold'[a] = IF isSave(s, a) THEN s.gold ELSE rowGold[a]
  BY <1>3 DEF dbSave, isSave, DealsInv, RowsBacked
<1>8. \A o \in Orders : dealType'[o] =
        IF s.table = "deal_wait_to_pay" /\ s.types[o] # "none" THEN s.types[o] ELSE dealType[o]
  BY <1>3 DEF dbSave, DealsInv, RowsBacked
<1>9. \A o \in Orders : owed(o, 0)' => owed(o, 1) \/ (owed(o, 0) /\ ~closed(o, 1))
  BY <1>2, <1>8 DEF owed, owes, closed, closes
<1>10. \A o \in Orders : given(o, 0)' => given(o, 1) \/ given(o, 0)
  <2> SUFFICES ASSUME NEW o \in Orders, given(o, 0)' PROVE given(o, 1) \/ given(o, 0)
    OBVIOUS
  <2>1. PICK a \in Accounts : rowGold'[a][o] > 0
    BY DEF given
  <2>2. CASE isSave(s, a)
    <3>1. gives(s, o)
      BY <1>7, <2>1, <2>2 DEF isSave, gives
    <3> QED
      BY <1>2, <3>1 DEF given
  <2>3. CASE ~isSave(s, a)
    BY <1>7, <2>1, <2>3 DEF given
  <2> QED
    BY <2>2, <2>3
<1>11. \A o \in Orders : ~(owed(o, 1) /\ given(o, 1))
  BY DEF owed, given, owes, gives
<1>12. \A o \in Orders : anyOwed(o)' => anyOwed(o)
  <2> SUFFICES ASSUME NEW o \in Orders, NEW i \in Places', owed(o, i)' PROVE anyOwed(o)
    BY DEF anyOwed
  <2>1. \E k \in Places : owed(o, k)
    <3>1. CASE i = 0
      BY <1>1, <1>4, <1>9, <3>1
    <3>2. CASE i # 0
      <4>1. i \in 1..(n - 1) /\ i + 1 \in Places
        BY <1>4, <3>2
      <4> QED
        BY <1>6, <4>1
    <3> QED
      BY <3>1, <3>2
  <2> QED
    BY <2>1 DEF anyOwed
<1>13. \A o \in Orders : anyGiven(o)' => anyGiven(o)
  <2> SUFFICES ASSUME NEW o \in Orders, NEW i \in Places', given(o, i)' PROVE anyGiven(o)
    BY DEF anyGiven
  <2>1. \E k \in Places : given(o, k)
    <3>1. CASE i = 0
      BY <1>1, <1>4, <1>10, <3>1
    <3>2. CASE i # 0
      <4>1. i \in 1..(n - 1) /\ i + 1 \in Places
        BY <1>4, <3>2
      <4> QED
        BY <1>6, <4>1
    <3> QED
      BY <3>1, <3>2
  <2> QED
    BY <2>1 DEF anyGiven
<1>14. InTurn'
  <2> SUFFICES ASSUME NEW o \in Orders, NEW i \in Places', NEW j \in Places', owed(o, i)', given(o, j)'
               PROVE  i <= j /\ closed(o, j + 1)'
    BY DEF InTurn
  <2>0. \A k, m \in Places : owed(o, k) /\ given(o, m) => k <= m /\ closed(o, m + 1)
    BY DEF InTurn
  <2>1. \A k : closed(o, k) => k \in 1..n
    BY <1>4 DEF closed
  <2>2. \A m \in 0..(n - 1) : closed(o, m + 2) => closed(o, m + 1)'
    <3> SUFFICES ASSUME NEW m \in 0..(n - 1), closed(o, m + 2) PROVE closed(o, m + 1)'
      OBVIOUS
    <3>1. m + 2 \in 1..n /\ (m + 1) + 1 = m + 2
      BY <2>1
    <3>2. PICK h \in 1..(n - 1) : h = m + 1
      BY <3>1
    <3> QED
      BY <1>6, <3>1, <3>2
  <2>3. CASE i # 0 /\ j # 0
    <3>1. /\ i \in 1..(n - 1) /\ j \in 1..(n - 1) /\ i + 1 \in Places /\ j + 1 \in Places
          /\ (j + 1) + 1 = j + 2
      BY <1>4, <2>3
    <3>2. i + 1 <= j + 1 /\ closed(o, j + 2)
      BY <1>6, <2>0, <3>1
    <3> QED
      BY <2>2, <3>1, <3>2
  <2>4. CASE i # 0 /\ j = 0
    <3>1. i \in 1..(n - 1) /\ i + 1 \in Places /\ 0 \in Places /\ 1 \in Places
      BY <1>4, <2>4
    <3>2. owed(o, i + 1) /\ (given(o, 0) \/ given(o, 1))
      BY <1>6, <1>10, <2>4, <3>1
    <3>3. i + 1 <= 1
      BY <2>0, <3>1, <3>2
    <3> QED
      BY <3>1, <3>3
  <2>5. CASE i = 0 /\ j # 0
    <3>1. j \in 1..(n - 1) /\ j + 1 \in Places /\ 0 \in Places /\ 1 \in Places /\ (j + 1) + 1 = j + 2
      BY <1>4, <2>5
    <3>2. given(o, j + 1) /\ (owed(o, 0) \/ owed(o, 1))
      BY <1>6, <1>9, <2>5, <3>1
    <3>3. closed(o, j + 2)
      BY <2>0, <3>1, <3>2
    <3> QED
      BY <2>2, <2>5, <3>1, <3>3
  <2>6. CASE i = 0 /\ j = 0
    <3>1. 0 \in Places /\ 1 \in Places /\ 0 + 1 = 1 /\ 1 + 1 = 2 /\ ~(1 <= 0)
      BY <1>1, <1>4
    <3>2. owed(o, 1) \/ (owed(o, 0) /\ ~closed(o, 1))
      BY <1>9, <2>6
    <3>3. given(o, 1) /\ owed(o, 0)
      BY <1>10, <1>11, <2>0, <2>6, <3>1, <3>2
    <3>4. closed(o, 0 + 2)
      BY <2>0, <3>1, <3>3
    <3>5. 0 \in 0..(n - 1)
      BY <1>1
    <3>6. PICK z : z = 0
      OBVIOUS
    <3>7. closed(o, z + 1)'
      BY <2>2, <3>4, <3>5, <3>6
    <3> QED
      BY <2>6, <3>6, <3>7
  <2> QED
    BY <2>3, <2>4, <2>5, <2>6
<1>15. \A i \in DOMAIN saveQ' : i + 1 \in DOMAIN saveQ /\ saveQ'[i] = saveQ[i + 1]
  BY <1>3
<1>16. 1 \in DOMAIN saveQ
  BY <1>3
<1> QED
  BY <1>2, <1>7, <1>12, <1>13, <1>14, <1>15, <1>16

\* A statement of orders is no save of a hero.
LEMMA SavesAppend ==
  ASSUME DealsInv, NEW s, s.table = "deal_wait_to_pay", saveQ' = Append(saveQ, s)
  PROVE  \A i \in DOMAIN saveQ', b \in Accounts :
           isSave(saveQ'[i], b) => i \in DOMAIN saveQ /\ isSave(saveQ[i], b)
<1>1. \A b : ~isSave(s, b)
  BY DEF isSave
<1> QED
  BY <1>1 DEF DealsInv, SavesBacked

-----------------------------------------------------------------------------
(* How steps change the results under way *)

\* A result is taken from the queue.
LEMMA TasksTail ==
  ASSUME DealsInv, _complete_task # <<>>, _complete_task' = Tail(_complete_task)
  PROVE  /\ \A o : pending(o)' => pending(o)
         /\ \A o : once(o) => once(o)'
         /\ \A o : once(o) /\ paid(o, 1) => ~pending(o)'
<1>1. PICK n \in Nat \ {0} : n = Len(_complete_task)
  BY DEF DealsInv, TasksBacked
<1>2. /\ DOMAIN _complete_task = 1..n /\ DOMAIN _complete_task' = 1..(n - 1)
      /\ \A i \in 1..(n - 1) : _complete_task'[i] = _complete_task[i + 1]
  BY <1>1 DEF DealsInv, TasksBacked
<1>3. \A o : \A i \in 1..(n - 1) : paid(o, i)' <=> paid(o, i + 1)
  BY <1>2 DEF paid
<1>4. \A i \in 1..(n - 1) : i + 1 \in 1..n /\ i + 1 # 1
  BY <1>1
<1>5. \A o : pending(o)' => pending(o)
  BY <1>2, <1>3, <1>4 DEF pending
<1>6. \A o : once(o) => once(o)'
  BY <1>2, <1>3, <1>4 DEF once
<1>7. \A o : once(o) /\ paid(o, 1) => ~pending(o)'
  BY <1>1, <1>2, <1>3, <1>4 DEF once, pending
<1> QED
  BY <1>5, <1>6, <1>7

\* A result is appended to the queue.
LEMMA TasksAppend ==
  ASSUME DealsInv, NEW t, _complete_task' = Append(_complete_task, t)
  PROVE  /\ \A o : pending(o)' => pending(o) \/ (t.result = "paid" /\ t.order = o)
         /\ \A o : once(o) /\ ~(pending(o) /\ t.result = "paid" /\ t.order = o) => once(o)'
<1>1. PICK n \in Nat : n = Len(_complete_task)
  BY DEF DealsInv, TasksBacked
<1>2. /\ DOMAIN _complete_task = 1..n /\ DOMAIN _complete_task' = 1..(n + 1)
      /\ \A i \in 1..n : _complete_task'[i] = _complete_task[i]
      /\ _complete_task'[n + 1] = t
  BY <1>1 DEF DealsInv, TasksBacked
<1>3. /\ \A o : \A i \in 1..n : paid(o, i)' <=> paid(o, i)
      /\ \A o : paid(o, n + 1)' <=> t.result = "paid" /\ t.order = o
  BY <1>2 DEF paid
<1>4. \A i \in 1..(n + 1) : i \in 1..n \/ i = n + 1
  BY <1>1
<1>5. \A o : pending(o)' => pending(o) \/ (t.result = "paid" /\ t.order = o)
  BY <1>2, <1>3, <1>4 DEF pending
<1>6. \A o : once(o) /\ ~(pending(o) /\ t.result = "paid" /\ t.order = o) => once(o)'
  <2> SUFFICES ASSUME NEW o, once(o), ~(pending(o) /\ t.result = "paid" /\ t.order = o),
                      NEW i \in 1..(n + 1), NEW j \in 1..(n + 1), paid(o, i)', paid(o, j)'
               PROVE  i = j
    BY <1>2 DEF once
  <2>1. CASE pending(o)
    <3>1. i \in 1..n /\ j \in 1..n
      BY <1>3, <1>4, <2>1
    <3> QED
      BY <1>2, <1>3, <3>1 DEF once
  <2>2. CASE ~pending(o)
    <3>1. i = n + 1 /\ j = n + 1
      BY <1>2, <1>3, <1>4, <2>2 DEF pending
    <3> QED
      BY <3>1
  <2> QED
    BY <2>1, <2>2
<1> QED
  BY <1>5, <1>6

\* OneAnswer holds on when orders with a result under way stay untouched.
LEMMA AnswersKept ==
  ASSUME OneAnswer, \A o \in Orders : once(o) => once(o)', \A o \in Orders : pending(o)' => pending(o),
         \A o \in Orders : pending(o)' /\ Untouched(o) => Untouched(o)'
  PROVE  OneAnswer'
BY DEF OneAnswer

\* Steps that leave the results alone.
LEMMA AnswersSame ==
  ASSUME UNCHANGED _complete_task
  PROVE  \A o \in Orders : (once(o) => once(o)') /\ (pending(o)' => pending(o))
BY DEF once, pending, paid

-----------------------------------------------------------------------------
(* Steps *)

\* A paid order that is untouched is credited to its hero in memory (addDealPay).
LEMMA CreditOnce ==
  ASSUME DealsInv, PayInv, NEW t, t.acc \in Accounts, t.order \in Orders, addDealPay(t),
         t.result = "paid" => Untouched(t.order), UNCHANGED <<hero, owner, rowVars>>
  PROVE  /\ InTurn' /\ Marked' /\ Unspent' /\ Loading'
         /\ \A p \in Orders : Untouched(p) /\ ~(t.result = "paid" /\ p = t.order) => Untouched(p)'
<1> DEFINE a == t.acc
           o == t.order
<1>1. /\ InTurn' /\ saveQ' = saveQ
      /\ \A p : anyOwed(p)' <=> anyOwed(p)
      /\ \A p : anyGiven(p)' <=> anyGiven(p)
  BY PlacesSame DEF addDealPay, PayInv
<1>2. \A b \in Accounts : GetHero(b)' <=> GetHero(b)
  BY DEF GetHero
<1>3. CASE UNCHANGED <<_deals_wait_to_pay, gold>>
  BY <1>1, <1>2, <1>3 DEF PayInv, Marked, Unspent, Loading, Untouched, rowVars
<1>4. CASE /\ t.result = "paid" /\ GetHero(a)
           /\ _deals_wait_to_pay' = [_deals_wait_to_pay EXCEPT ![a][o] = "Complete"]
           /\ gold' = [gold EXCEPT ![a][o] = @ + 1]
  <2> HIDE DEF a, o
  <2>1. /\ \A b \in Accounts, p \in Orders : _deals_wait_to_pay'[b][p] =
             IF b = a /\ p = o THEN "Complete" ELSE _deals_wait_to_pay[b][p]
        /\ \A b \in Accounts, p \in Orders : gold'[b][p] =
             IF b = a /\ p = o THEN gold[b][p] + 1 ELSE gold[b][p]
        /\ \A b \in Accounts : b # a => gold'[b] = gold[b]
    BY <1>4 DEF DealsInv, HeroBacked
  <2>2. Untouched(o) /\ o \in Orders /\ a \in Accounts
    BY <1>4 DEF a, o
  <2>3. Marked'
    BY <1>1, <1>2, <2>1, <2>2 DEF PayInv, Marked
  <2>4. Unspent'
    BY <1>1, <2>1, <2>2 DEF PayInv, Unspent, Untouched
  <2>5. \A b \in Accounts : hero[b] \in {"queryDeals", "reply"} => b # a
    BY <1>4 DEF GetHero, InMemory
  <2>6. Loading'
    BY <1>1, <2>1, <2>5 DEF PayInv, Loading, rowVars
  <2>7. \A p \in Orders : Untouched(p) /\ p # o => Untouched(p)'
    BY <1>1, <2>1 DEF Untouched
  <2> QED
    BY <1>1, <1>4, <2>3, <2>4, <2>6, <2>7 DEF o
<1> QED
  BY <1>3, <1>4 DEF addDealPay

\* Without the hero, a paid order that is untouched is written to be credited at the
\* next load (OfflineHeroDealWaitToPay).
LEMMA OfflineOnce ==
  ASSUME DealsInv, PayInv, NEW t, t.acc \in Accounts, t.order \in Orders, OfflineHeroDealWaitToPay(t),
         t.result = "paid" => Untouched(t.order), UNCHANGED <<hero, owner, rowVars>>
  PROVE  /\ InTurn' /\ Marked' /\ Unspent' /\ Loading'
         /\ \A p \in Orders : Untouched(p) /\ ~(t.result = "paid" /\ p = t.order) => Untouched(p)'
<1>1. UNCHANGED memVars
  BY DEF OfflineHeroDealWaitToPay, memVars
<1>2. CASE UNCHANGED saveQ
  <2>1. /\ InTurn'
        /\ \A p : anyOwed(p)' <=> anyOwed(p)
        /\ \A p : anyGiven(p)' <=> anyGiven(p)
    BY <1>2, PlacesSame DEF PayInv
  <2>2. Marked' /\ Unspent'
    BY <1>1, <2>1 DEF PayInv, memVars, Marked, Unspent, GetHero
  <2>3. Loading'
    BY <1>1, <1>2, <2>1 DEF PayInv, memVars, rowVars, Loading
  <2>4. \A p \in Orders : Untouched(p) => Untouched(p)'
    BY <1>1, <2>1 DEF memVars, Untouched
  <2> QED
    BY <2>1, <2>2, <2>3, <2>4
<1>3. CASE saveQ' = Append(saveQ, dealSql(t.acc,
             only(t.order, IF t.result = "paid" THEN "WaitPrepareToPay" ELSE "Failed")))
  <2>1. PICK s : s = dealSql(t.acc,
             only(t.order, IF t.result = "paid" THEN "WaitPrepareToPay" ELSE "Failed"))
    OBVIOUS
  <2>2. /\ s.table = "deal_wait_to_pay"
        /\ \A p \in Orders : owes(s, p) <=> t.result = "paid" /\ p = t.order
    BY <2>1 DEF dealSql, only, owes
  <2>3. saveQ' = Append(saveQ, s)
    BY <1>3, <2>1
  <2>4. \A p \in Orders : owes(s, p) => ~anyGiven(p)
    BY <2>2 DEF Untouched
  <2>5. /\ \A p : anyOwed(p)' <=> anyOwed(p) \/ owes(s, p)
        /\ \A p : anyGiven(p)' <=> anyGiven(p)
        /\ InTurn'
    BY <2>2, <2>3, <2>4, PlacesAppend DEF PayInv
  <2>6. \A i \in DOMAIN saveQ', b \in Accounts :
          isSave(saveQ'[i], b) => i \in DOMAIN saveQ /\ isSave(saveQ[i], b)
    BY <2>2, <2>3, SavesAppend
  <2>7. \A p \in Orders : owes(s, p) => \A b \in Accounts : gold[b][p] = 0
    BY <2>2 DEF Untouched
  <2>8. Marked'
    BY <1>1, <2>5, <2>7 DEF PayInv, Marked, memVars, GetHero
  <2>9. Unspent'
    BY <1>1, <2>5 DEF PayInv, Unspent, memVars
  <2>10. Loading'
    BY <1>1, <2>5, <2>6, <2>7 DEF PayInv, Loading, memVars, rowVars
  <2>11. \A p \in Orders : Untouched(p) /\ ~(t.result = "paid" /\ p = t.order) => Untouched(p)'
    BY <1>1, <2>2, <2>5 DEF Untouched, memVars
  <2> QED
    BY <2>5, <2>8, <2>9, <2>10, <2>11
<1> QED
  BY <1>2, <1>3 DEF OfflineHeroDealWaitToPay

\* Steps that leave the queue, the rows and the results alone and bring no hero into
\* memory: they only take gold and orders out of memory, or nothing.
LEMMA MemoryShrinks ==
  ASSUME DealsInv, PayInv, UNCHANGED <<saveQ, rowVars, owner>>,
         \A o \in Orders : (once(o) => once(o)') /\ (pending(o)' => pending(o)),
         \A a \in Accounts :
           /\ \/ UNCHANGED <<_deals_wait_to_pay[a], gold[a]>>
              \/ _deals_wait_to_pay'[a] = NoDeals /\ gold'[a] = NoGold /\ hero'[a] = "out"
           /\ GetHero(a)' => GetHero(a)
           /\ hero'[a] \in {"queryDeals", "reply"} => hero[a] = hero'[a]
  PROVE  PayInv'
<1>1. /\ InTurn'
      /\ \A p : anyOwed(p)' <=> anyOwed(p)
      /\ \A p : anyGiven(p)' <=> anyGiven(p)
  BY PlacesSame DEF PayInv
<1>2. \A a \in Accounts, o \in Orders :
        \/ _deals_wait_to_pay'[a][o] = _deals_wait_to_pay[a][o] /\ gold'[a][o] = gold[a][o]
        \/ _deals_wait_to_pay'[a][o] = "none" /\ gold'[a][o] = 0 /\ ~GetHero(a)'
  BY DEF NoDeals, NoGold, GetHero, InMemory
<1>3. Marked' /\ Unspent'
  BY <1>1, <1>2 DEF PayInv, Marked, Unspent
<1>4. Loading'
  BY <1>1 DEF PayInv, Loading, rowVars
<1>5. \A o \in Orders : Untouched(o) => Untouched(o)'
  BY <1>1, <1>2 DEF Untouched
<1> QED
  BY <1>1, <1>3, <1>4, <1>5, AnswersKept DEF PayInv

\* SaveHero sends what is in memory.
LEMMA SaveOnce ==
  ASSUME DealsInv, PayInv, NEW a \in Accounts, SaveHero(a)
  PROVE  PayInv'
<1>1. UNCHANGED <<hero, _deals_wait_to_pay, gold, _complete_task, rowGold>> /\ GetHero(a)
  BY DEF SaveHero, memVars, httpVars, rowVars
<1>2. /\ \A o \in Orders : anyOwed(o)' => anyOwed(o) \/ _deals_wait_to_pay[a][o] = "WaitPrepareToPay"
      /\ \A o \in Orders : anyGiven(o)' => anyGiven(o) \/ gold[a][o] > 0
      /\ \A i \in DOMAIN saveQ', b \in Accounts :
           isSave(saveQ'[i], b) => b = a \/ (i \in DOMAIN saveQ /\ isSave(saveQ[i], b))
      /\ InTurn'
  BY PlacesSave
<1>3. \A b \in Accounts, o \in Orders : gold[b][o] > 0 => owner[o] = b
  BY GoldOwner
<1>4. \A b \in Accounts, o \in Orders : gold[b][o] \in Nat
  BY DEF DealsInv, HeroBacked
<1>5. \A b \in Accounts, o \in Orders :
        _deals_wait_to_pay[b][o] # "none" => owner[o] = b
  BY OwnOrder
<1>6. Marked'
  <2> SUFFICES ASSUME NEW b \in Accounts, NEW o \in Orders, GetHero(b), gold[b][o] > 0, anyOwed(o)'
               PROVE  _deals_wait_to_pay[b][o] = "Complete"
    BY <1>1 DEF Marked, GetHero
  <2>1. CASE anyOwed(o)
    BY <2>1 DEF PayInv, Marked
  <2>2. CASE _deals_wait_to_pay[a][o] = "WaitPrepareToPay"
    <3>1. b = a
      BY <1>3, <1>5, <2>2
    <3> QED
      BY <2>2, <3>1 DEF PayInv, Unspent
  <2> QED
    BY <1>2, <2>1, <2>2
<1>7. Unspent'
  <2> SUFFICES ASSUME NEW b \in Accounts, NEW o \in Orders, _deals_wait_to_pay[b][o] = "WaitPrepareToPay"
               PROVE  gold[b][o] = 0 /\ ~anyGiven(o)'
    BY <1>1 DEF Unspent
  <2>1. gold[b][o] = 0 /\ ~anyGiven(o)
    BY DEF PayInv, Unspent
  <2>2. ~(gold[a][o] > 0)
    BY <1>3, <1>5, <2>1
  <2> QED
    BY <1>2, <2>1, <2>2
<1>8. Loading'
  <2> SUFFICES ASSUME NEW b \in Accounts, hero[b] \in {"queryDeals", "reply"}
               PROVE  /\ gold[b] = rowGold[b]
                      /\ \A i \in DOMAIN saveQ' : ~isSave(saveQ'[i], b)
                      /\ \A o \in Orders : gold[b][o] > 0 => ~anyOwed(o)'
    BY <1>1 DEF Loading
  <2>1. b # a
    BY <1>1 DEF GetHero, InMemory
  <2>2. \A o \in Orders : gold[b][o] > 0 => _deals_wait_to_pay[a][o] # "WaitPrepareToPay"
    BY <1>3, <1>5, <2>1
  <2> QED
    BY <1>2, <2>1, <2>2 DEF PayInv, Loading
<1>9. \A o \in Orders : Untouched(o) => Untouched(o)'
  BY <1>1, <1>2, <1>4 DEF Untouched
<1> QED
  BY <1>1, <1>2, <1>6, <1>7, <1>8, <1>9, AnswersSame, AnswersKept DEF PayInv

\* The first statement is executed: what was on its way is in the rows.
LEMMA ExecuteOnce ==
  ASSUME DealsInv, PayInv, dbSave
  PROVE  PayInv'
<1>1. UNCHANGED <<hero, _deals_wait_to_pay, gold, _complete_task>>
  BY DEF dbSave, memVars, httpVars
<1>2. /\ \A o \in Orders : anyOwed(o)' => anyOwed(o)
      /\ \A o \in Orders : anyGiven(o)' => anyGiven(o)
      /\ \A i \in DOMAIN saveQ' : i + 1 \in DOMAIN saveQ /\ saveQ'[i] = saveQ[i + 1]
      /\ 1 \in DOMAIN saveQ
      /\ \A a \in Accounts : rowGold'[a] = IF isSave(saveQ[1], a) THEN saveQ[1].gold ELSE rowGold[a]
      /\ InTurn'
  BY PlacesTail DEF PayInv
<1>3. Marked' /\ Unspent'
  BY <1>1, <1>2 DEF PayInv, Marked, Unspent, GetHero
<1>4. Loading'
  <2> SUFFICES ASSUME NEW a \in Accounts, hero[a] \in {"queryDeals", "reply"}
               PROVE  /\ gold[a] = rowGold'[a]
                      /\ \A i \in DOMAIN saveQ' : ~isSave(saveQ'[i], a)
                      /\ \A o \in Orders : gold[a][o] > 0 => ~anyOwed(o)'
    BY <1>1 DEF Loading
  <2>1. /\ gold[a] = rowGold[a]
        /\ \A i \in DOMAIN saveQ : ~isSave(saveQ[i], a)
        /\ \A o \in Orders : gold[a][o] > 0 => ~anyOwed(o)
    BY DEF PayInv, Loading
  <2> QED
    BY <1>2, <2>1
<1>5. \A o \in Orders : Untouched(o) => Untouched(o)'
  BY <1>1, <1>2 DEF Untouched
<1> QED
  BY <1>1, <1>2, <1>3, <1>4, <1>5, AnswersSame, AnswersKept DEF PayInv

\* No query overtakes a save: the row with the gold of a hero that is loaded is not
\* followed by a statement of its orders.
LEMMA QuietRow ==
  ASSUME DealsInv, InTurn, SavesFirst, NEW a \in Accounts, quiet(a)
  PROVE  /\ \A i \in DOMAIN saveQ : ~isSave(saveQ[i], a)
         /\ \A o \in Orders : rowGold[a][o] > 0 => ~anyOwed(o)
         /\ \A o \in Orders : owner[o] = a /\ rowGold[a][o] = 0 => ~anyGiven(o)
<1>1. \A i \in DOMAIN saveQ : saveQ[i].acc # a
  BY DEF quiet
<1>2. DOMAIN saveQ = Places \ {0} /\ 0 \in Places
  <2>1. DOMAIN saveQ = 1..Len(saveQ) /\ Len(saveQ) \in Nat
    BY DEF DealsInv, SavesBacked
  <2> QED
    BY <2>1 DEF Places
<1>3. ASSUME NEW o \in Orders, rowGold[a][o] > 0, anyOwed(o) PROVE FALSE
  <2>1. given(o, 0) /\ owner[o] = a
    BY <1>3, PlacesBacked DEF given
  <2>2. PICK i \in Places : owed(o, i)
    BY <1>3 DEF anyOwed
  <2>3. closed(o, 0 + 1)
    BY <1>2, <2>1, <2>2 DEF InTurn
  <2>4. 1 \in DOMAIN saveQ /\ saveQ[1].acc = a
    BY <1>2, <2>1, <2>3 DEF closed, closes
  <2> QED
    BY <1>1, <2>4
<1>4. ASSUME NEW o \in Orders, owner[o] = a, rowGold[a][o] = 0, anyGiven(o) PROVE FALSE
  <2>1. PICK i \in Places : given(o, i)
    BY <1>4 DEF anyGiven
  <2>2. CASE i = 0
    <3>1. PICK b \in Accounts : rowGold[b][o] > 0
      BY <2>1, <2>2 DEF given
    <3>2. b = a
      BY <1>4, <3>1, PlacesBacked
    <3> QED
      BY <1>4, <3>1, <3>2
  <2>3. CASE i # 0
    <3>1. i \in DOMAIN saveQ /\ gives(saveQ[i], o)
      BY <1>2, <2>1, <2>3 DEF given
    <3>2. saveQ[i].acc = a
      BY <1>4, <3>1, PlacesBacked
    <3> QED
      BY <1>1, <3>1, <3>2
  <2> QED
    BY <2>2, <2>3
<1>5. \A i \in DOMAIN saveQ : ~isSave(saveQ[i], a)
  BY <1>1 DEF isSave
<1> QED
  BY <1>3, <1>4, <1>5

\* The hero is read from its row ...
LEMMA QueryOnce ==
  ASSUME DealsInv, PayInv, SavesFirst, NEW a \in Accounts, dbDoQueryHeroInfo(a)
  PROVE  PayInv'
<1>1. /\ hero[a] = "query" /\ hero' = [hero EXCEPT ![a] = "queryDeals"]
      /\ gold' = [gold EXCEPT ![a] = rowGold[a]] /\ quiet(a)
      /\ UNCHANGED <<_deals_wait_to_pay, _complete_task, owner, saveQ, rowVars>>
  BY DEF dbDoQueryHeroInfo, platVars, httpVars
<1>2. /\ InTurn'
      /\ \A p : anyOwed(p)' <=> anyOwed(p)
      /\ \A p : anyGiven(p)' <=> anyGiven(p)
  BY <1>1, PlacesSame DEF PayInv
<1>3. /\ \A i \in DOMAIN saveQ : ~isSave(saveQ[i], a)
      /\ \A o \in Orders : rowGold[a][o] > 0 => ~anyOwed(o)
  BY <1>1, QuietRow DEF PayInv
<1>4. \A b \in Accounts : gold'[b] = IF b = a THEN rowGold[a] ELSE gold[b]
  BY <1>1 DEF DealsInv, HeroBacked
<1>5. \A b \in Accounts : hero'[b] = IF b = a THEN "queryDeals" ELSE hero[b]
  BY <1>1 DEF DealsInv, HeroBacked
<1>6. \A o \in Orders : ~anyGiven(o) => rowGold[a][o] = 0
  <2>1. \A o \in Orders : rowGold[a][o] \in Nat
    BY DEF DealsInv, RowsBacked
  <2>2. 0 \in Places
    BY DEF DealsInv, SavesBacked, Places
  <2> QED
    BY <2>1, <2>2 DEF anyGiven, given
<1>7. Marked'
  BY <1>1, <1>2, <1>4, <1>5 DEF PayInv, Marked, GetHero, InMemory
<1>8. Unspent'
  BY <1>1, <1>2, <1>4, <1>6 DEF PayInv, Unspent
<1>9. Loading'
  BY <1>1, <1>2, <1>3, <1>4, <1>5 DEF PayInv, Loading, rowVars
<1>10. \A o \in Orders : Untouched(o) => Untouched(o)'
  BY <1>1, <1>2, <1>4, <1>6 DEF Untouched
<1> QED
  BY <1>1, <1>2, <1>7, <1>8, <1>9, <1>10, AnswersSame, AnswersKept DEF PayInv

\* ... and its orders from theirs.
LEMMA QueryDealsOnce ==
  ASSUME DealsInv, PayInv, SavesFirst, NEW a \in Accounts, dbDoQueryHeroDeals(a)
  PROVE  PayInv'
<1>1. /\ hero[a] = "queryDeals" /\ hero' = [hero EXCEPT ![a] = "reply"] /\ quiet(a)
      /\ UNCHANGED <<gold, _complete_task, owner, saveQ, rowVars>>
  BY DEF dbDoQueryHeroDeals, platVars, httpVars
<1>2. /\ InTurn'
      /\ \A p : anyOwed(p)' <=> anyOwed(p)
      /\ \A p : anyGiven(p)' <=> anyGiven(p)
  BY <1>1, PlacesSame DEF PayInv
<1>3. \A o \in Orders : owner[o] = a /\ rowGold[a][o] = 0 => ~anyGiven(o)
  BY <1>1, QuietRow DEF PayInv
<1>4. /\ \A b \in Accounts : b # a => _deals_wait_to_pay'[b] = _deals_wait_to_pay[b]
      /\ \A o \in Orders : _deals_wait_to_pay'[a][o] =
           IF dealAcc[o] = a /\ dealType[o] # "Complete" THEN dealType[o] ELSE "none"
  BY DEF dbDoQueryHeroDeals, DealsInv, HeroBacked
<1>5. \A b \in Accounts : hero'[b] = IF b = a THEN "reply" ELSE hero[b]
  BY <1>1 DEF DealsInv, HeroBacked
<1>6. \A o \in Orders : _deals_wait_to_pay'[a][o] = "WaitPrepareToPay" => owner[o] = a /\ anyOwed(o)
  <2>1. 0 \in Places
    BY DEF DealsInv, SavesBacked, Places
  <2> QED
    BY <1>4, <2>1, DealsConstants DEF DealsInv, RowsBacked, anyOwed, owed
<1>7. Marked'
  BY <1>1, <1>2, <1>4, <1>5 DEF PayInv, Marked, GetHero, InMemory
<1>8. Unspent'
  <2>1. \A o \in Orders : gold[a][o] \in Nat /\ gold[a] = rowGold[a] /\ (gold[a][o] > 0 => ~anyOwed(o))
    BY <1>1 DEF PayInv, Loading, DealsInv, HeroBacked
  <2>2. \A o \in Orders : _deals_wait_to_pay'[a][o] = "WaitPrepareToPay" => gold[a][o] = 0 /\ ~anyGiven(o)
    BY <1>3, <1>6, <2>1
  <2> QED
    BY <1>1, <1>2, <1>4, <2>2 DEF PayInv, Unspent
<1>9. Loading'
  BY <1>1, <1>2, <1>5 DEF PayInv, Loading, rowVars
<1>10. \A o \in Orders : Untouched(o) => Untouched(o)'
  BY <1>1, <1>2, <1>4, <1>6 DEF Untouched
<1> QED
  BY <1>1, <1>2, <1>7, <1>8, <1>9, <1>10, AnswersSame, AnswersKept DEF PayInv

\* The hero comes into memory, with the credit of its orders that were owed (set_info).
LEMMA CreateOnce ==
  ASSUME DealsInv, PayInv, NEW a \in Accounts, CreateHero(a)
  PROVE  PayInv'
<1>1. /\ hero[a] = "reply" /\ hero' = [hero EXCEPT ![a] = "online"]
      /\ UNCHANGED <<_complete_task, owner, saveQ, rowVars>>
  BY DEF CreateHero, platVars
<1>2. /\ InTurn'
      /\ \A p : anyOwed(p)' <=> anyOwed(p)
      /\ \A p : anyGiven(p)' <=> anyGiven(p)
  BY <1>1, PlacesSame DEF PayInv
<1>3. /\ \A b \in Accounts : b # a => /\ _deals_wait_to_pay'[b] = _deals_wait_to_pay[b]
                                      /\ gold'[b] = gold[b]
      /\ \A o \in Orders :
           \/ /\ _deals_wait_to_pay'[a][o] = _deals_wait_to_pay[a][o] /\ gold'[a][o] = gold[a][o]
           \/ /\ _deals_wait_to_pay[a][o] = "WaitPrepareToPay" /\ _deals_wait_to_pay'[a][o] = "Complete"
              /\ gold'[a][o] = gold[a][o] + 1
  <2> DEFINE due == {o \in Orders : _deals_wait_to_pay[a][o] = "WaitPrepareToPay"
                                    /\ payable(o, _deals_wait_to_pay[a][o])}
  <2>1. /\ gold' = [gold EXCEPT ![a] = [o \in Orders |-> IF o \in due THEN gold[a][o] + 1 ELSE gold[a][o]]]
        /\ _deals_wait_to_pay' = [_deals_wait_to_pay EXCEPT ![a] =
             [o \in Orders |-> IF o \in due THEN "Complete" ELSE _deals_wait_to_pay[a][o]]]
    BY DEF CreateHero, set_info, DealsInv, HeroBacked
  <2>2. \A o \in due : _deals_wait_to_pay[a][o] = "WaitPrepareToPay"
    OBVIOUS
  <2> HIDE DEF due
  <2> QED
    BY <2>1, <2>2 DEF DealsInv, HeroBacked
<1>4. \A b \in Accounts : hero'[b] = IF b = a THEN "online" ELSE hero[b]
  BY <1>1 DEF DealsInv, HeroBacked
<1>5. Marked'
  <2> SUFFICES ASSUME NEW b \in Accounts, NEW o \in Orders, GetHero(b)', gold'[b][o] > 0, anyOwed(o)
               PROVE  _deals_wait_to_pay'[b][o] = "Complete"
    BY <1>2 DEF Marked
  <2>1. CASE b = a
    <3>1. gold[a][o] > 0 => ~anyOwed(o)
      BY <1>1 DEF PayInv, Loading
    <3> QED
      BY <1>3, <2>1, <3>1
  <2>2. CASE b # a
    BY <1>3, <1>4, <2>2 DEF PayInv, Marked, GetHero
  <2> QED
    BY <2>1, <2>2
<1>6. Unspent'
  BY <1>2, <1>3 DEF PayInv, Unspent
<1>7. Loading'
  BY <1>1, <1>2, <1>3, <1>4 DEF PayInv, Loading, rowVars
<1>8. \A o \in Orders : Untouched(o) => Untouched(o)'
  BY <1>2, <1>3 DEF Untouched
<1> QED
  BY <1>1, <1>2, <1>5, <1>6, <1>7, <1>8, AnswersSame, AnswersKept DEF PayInv

\* ReqVerifyDeal writes a row that is owed by nobody.
LEMMA VerifyOnce ==
  ASSUME DealsInv, PayInv, NEW a \in Accounts, NEW o \in Orders, ReqVerifyDeal(a, o)
  PROVE  PayInv'
<1>1. UNCHANGED <<memVars, owner, _complete_task, rowVars>>
  BY DEF ReqVerifyDeal, platVars
<1>2. PICK s : s = dealSql(NoAccount, only(o, "WaitPrepareToVerify"))
  OBVIOUS
<1>3. /\ s.table = "deal_wait_to_pay" /\ \A p \in Orders : ~owes(s, p)
      /\ saveQ' = Append(saveQ, s)
  BY <1>2 DEF dealSql, only, owes, ReqVerifyDeal
<1>4. /\ \A p \in Orders : anyOwed(p)' <=> anyOwed(p)
      /\ \A p : anyGiven(p)' <=> anyGiven(p)
      /\ InTurn'
  BY <1>1, <1>3, PlacesAppend DEF PayInv
<1>5. \A i \in DOMAIN saveQ', b \in Accounts :
        isSave(saveQ'[i], b) => i \in DOMAIN saveQ /\ isSave(saveQ[i], b)
  BY <1>3, SavesAppend
<1>6. Marked' /\ Unspent'
  BY <1>1, <1>4 DEF PayInv, Marked, Unspent, memVars, GetHero
<1>7. Loading'
  BY <1>1, <1>4, <1>5 DEF PayInv, Loading, memVars, rowVars
<1>8. \A p \in Orders : Untouched(p) => Untouched(p)'
  BY <1>1, <1>4 DEF Untouched, memVars
<1> QED
  BY <1>1, <1>4, <1>6, <1>7, <1>8, AnswersSame, AnswersKept DEF PayInv

\* A map in memory in which orders that wait for payment come and go.
LEMMA MapOnce ==
  ASSUME DealsInv, PayInv, UNCHANGED <<hero, gold, saveQ, rowVars, owner>>,
         \A o \in Orders : (once(o) => once(o)') /\ (pending(o)' => pending(o)),
         \A a \in Accounts, o \in Orders :
           \/ _deals_wait_to_pay'[a][o] = _deals_wait_to_pay[a][o]
           \/ {_deals_wait_to_pay[a][o], _deals_wait_to_pay'[a][o]} \subseteq {"none", "WaitToPay"}
  PROVE  PayInv'
<1>1. /\ InTurn'
      /\ \A p : anyOwed(p)' <=> anyOwed(p)
      /\ \A p : anyGiven(p)' <=> anyGiven(p)
  BY PlacesSame DEF PayInv
<1>2. \A a \in Accounts, o \in Orders :
        /\ _deals_wait_to_pay'[a][o] = "WaitPrepareToPay" <=> _deals_wait_to_pay[a][o] = "WaitPrepareToPay"
        /\ _deals_wait_to_pay'[a][o] = "Complete" <=> _deals_wait_to_pay[a][o] = "Complete"
  OBVIOUS
<1>3. Marked' /\ Unspent'
  BY <1>1, <1>2 DEF PayInv, Marked, Unspent, GetHero
<1>4. Loading'
  BY <1>1 DEF PayInv, Loading, rowVars
<1>5. \A p \in Orders : Untouched(p) => Untouched(p)'
  BY <1>1, <1>2 DEF Untouched
<1> QED
  BY <1>1, <1>3, <1>4, <1>5, AnswersKept DEF PayInv

\* ReqCrearteDeal gives up orders that wait for payment.
LEMMA GiveUpOnce ==
  ASSUME DealsInv, PayInv, NEW a \in Accounts, ReqCrearteDeal(a)
  PROVE  PayInv'
<1>1. UNCHANGED <<hero, gold, saveQ, rowVars, owner, _complete_task>>
  BY DEF ReqCrearteDeal, platVars
<1>2. \A b \in Accounts, o \in Orders : _deals_wait_to_pay'[b][o] =
        IF b = a /\ _deals_wait_to_pay[b][o] = "WaitToPay" THEN "none" ELSE _deals_wait_to_pay[b][o]
  BY DEF ReqCrearteDeal, DealsInv, HeroBacked
<1>3. \A b \in Accounts, o \in Orders :
        \/ _deals_wait_to_pay'[b][o] = _deals_wait_to_pay[b][o]
        \/ {_deals_wait_to_pay[b][o], _deals_wait_to_pay'[b][o]} \subseteq {"none", "WaitToPay"}
  BY <1>2
<1> QED
  BY <1>1, <1>3, AnswersSame, MapOnce

\* The platform closes an order once, and creates an order that nobody had.
LEMMA PlatformOnce ==
  ASSUME FinishOnce, DealsInv, PayInv, update
  PROVE  PayInv'
<1> DEFINE t == Head(_https)
<1>1. t \in TasksOf(owner, finished)
  BY HeadTask DEF update, DealsInv, TasksBacked
<1>2. PICK o \in Orders \cup {NoOrder}, r \in {"created", "paid", "refused", "error"} :
        /\ answer(t, o, r)
        /\ _complete_task' = Append(_complete_task, task(t.kind, t.acc, o, r))
  BY DEF update
<1>3. UNCHANGED <<hero, _deals_wait_to_pay, gold, saveQ, rowVars>>
  BY DEF update, memVars
<1>4. r = "paid" => o \in Orders /\ o \notin finished
  BY <1>1, <1>2 DEF answer, TasksOf
<1>5. \A p \in Orders : owner[p] # NoAccount => owner'[p] = owner[p]
  BY <1>2 DEF answer, DealsInv, PlatformTyped
<1> HIDE DEF t
<1>6. PICK u : u = task(t.kind, t.acc, o, r)
  OBVIOUS
<1>7. u.result = r /\ u.order = o /\ _complete_task' = Append(_complete_task, u)
  BY <1>2, <1>6 DEF task
<1>8. /\ \A p : anyOwed(p)' <=> anyOwed(p)
      /\ \A p : anyGiven(p)' <=> anyGiven(p)
      /\ \A p, i : owed(p, i)' <=> owed(p, i)
      /\ \A p, i : given(p, i)' <=> given(p, i)
      /\ Places' = Places
  BY <1>3 DEF rowVars, anyOwed, anyGiven, owed, given, Places
<1>9. InTurn'
  <2> SUFFICES ASSUME NEW p \in Orders, NEW i \in Places, NEW j \in Places, owed(p, i), given(p, j)
               PROVE  i <= j /\ closed(p, j + 1)'
    BY <1>8 DEF InTurn
  <2>1. i <= j /\ closed(p, j + 1)
    BY DEF PayInv, InTurn
  <2>2. owner'[p] = owner[p]
    <3>1. owner[p] \in Accounts
      BY PlacesBacked DEF anyGiven
    <3> QED
      BY <1>5, <3>1, DealsConstants
  <2> QED
    BY <1>3, <2>1, <2>2 DEF closed, Places
<1>10. Marked' /\ Unspent'
  BY <1>3, <1>8 DEF PayInv, Marked, Unspent, GetHero
<1>11. Loading'
  BY <1>3, <1>8 DEF PayInv, Loading, rowVars
<1>12. \A p : Untouched(p) => Untouched(p)'
  BY <1>3, <1>8 DEF Untouched
<1>13. r = "paid" => Untouched(o) /\ ~pending(o)
  BY <1>4, UnpaidUntouched
<1>14. \A p \in Orders : /\ pending(p)' => pending(p) \/ (r = "paid" /\ p = o)
                         /\ once(p) /\ ~(pending(p) /\ r = "paid" /\ p = o) => once(p)'
  BY <1>7, TasksAppend
<1>15. OneAnswer'
  BY <1>12, <1>13, <1>14 DEF PayInv, OneAnswer
<1> QED
  BY <1>9, <1>10, <1>11, <1>15 DEF PayInv

\* The result of a task reaches the main thread.
LEMMA ResultOnce ==
  ASSUME DealsInv, PayInv, logicUpdate
  PROVE  PayInv'
<1>0. PICK t : t = Head(_complete_task)
  OBVIOUS
<1>1. t \in TasksOf(owner, finished) /\ t = _complete_task[1]
  BY <1>0, HeadTask DEF logicUpdate, DealsInv, TasksBacked
<1>2. /\ addDealWaitToPay(t) \/ addDealPay(t) \/ OfflineHeroDealWaitToPay(t)
      /\ _complete_task # <<>> /\ _complete_task' = Tail(_complete_task)
      /\ UNCHANGED <<hero, owner, rowVars>>
  BY <1>0 DEF logicUpdate, platVars
<1>3. \A o \in Orders : (once(o) => once(o)') /\ (pending(o)' => pending(o))
  BY <1>2, TasksTail
<1>4. t.acc \in Accounts /\ (t.kind = "VerifyDeal" => t.order \in Orders)
  BY <1>1 DEF TasksOf
<1>5. CASE addDealWaitToPay(t)
  <2>1. UNCHANGED <<gold, saveQ>>
    BY <1>5 DEF addDealWaitToPay
  <2>2. \A a \in Accounts, o \in Orders :
          \/ _deals_wait_to_pay'[a][o] = _deals_wait_to_pay[a][o]
          \/ {_deals_wait_to_pay[a][o], _deals_wait_to_pay'[a][o]} \subseteq {"none", "WaitToPay"}
    <3>1. CASE _deals_wait_to_pay' = _deals_wait_to_pay
      BY <3>1
    <3>2. CASE /\ _deals_wait_to_pay[t.acc][t.order] = "none"
               /\ _deals_wait_to_pay' = [_deals_wait_to_pay EXCEPT ![t.acc][t.order] = "WaitToPay"]
      <4>1. PICK b, p : b = t.acc /\ p = t.order
        OBVIOUS
      <4>2. \A a \in Accounts, o \in Orders : _deals_wait_to_pay'[a][o] =
              IF a = b /\ o = p THEN "WaitToPay" ELSE _deals_wait_to_pay[a][o]
        BY <3>2, <4>1 DEF DealsInv, HeroBacked
      <4> QED
        BY <3>2, <4>1, <4>2
    <3> QED
      BY <1>5, <3>1, <3>2 DEF addDealWaitToPay
  <2> QED
    BY <1>2, <1>3, <2>1, <2>2, MapOnce
<1>6. CASE addDealPay(t) \/ OfflineHeroDealWaitToPay(t)
  <2>1. t.order \in Orders
    BY <1>4, <1>6 DEF addDealPay, OfflineHeroDealWaitToPay
  <2>2. 1 \in DOMAIN _complete_task
    BY <1>2 DEF DealsInv, TasksBacked
  <2>3. t.result = "paid" => paid(t.order, 1) /\ pending(t.order) /\ Untouched(t.order)
    BY <1>1, <2>1, <2>2 DEF paid, pending, PayInv, OneAnswer
  <2>4. /\ InTurn' /\ Marked' /\ Unspent' /\ Loading'
        /\ \A p \in Orders : Untouched(p) /\ ~(t.result = "paid" /\ p = t.order) => Untouched(p)'
    BY <1>2, <1>4, <1>6, <2>1, <2>3, CreditOnce, OfflineOnce
  <2>5. t.result = "paid" => ~pending(t.order)'
    BY <1>2, <2>1, <2>3, TasksTail DEF PayInv, OneAnswer
  <2>6. OneAnswer'
    BY <1>3, <2>4, <2>5, AnswersKept DEF PayInv
  <2> QED
    BY <2>4, <2>6 DEF PayInv
<1> QED
  BY <1>2, <1>5, <1>6

\* The platform's own notice closes the order and credits it in one step.
LEMMA NoticeOnce ==
  ASSUME FinishOnce, DealsInv, PayInv, NEW o \in Orders, parseClinchADealNotify(o)
  PROVE  PayInv'
<1>1. PICK t : t = task("VerifyDeal", owner[o], o, "paid")
  OBVIOUS
<1>2. /\ owner[o] # NoAccount /\ o \notin finished
      /\ addDealPay(t) \/ OfflineHeroDealWaitToPay(t)
      /\ UNCHANGED <<hero, owner, _complete_task, rowVars>>
  BY <1>1 DEF parseClinchADealNotify, httpVars
<1>3. t.acc \in Accounts /\ t.order = o /\ t.result = "paid"
  BY <1>1, <1>2 DEF task, DealsInv, PlatformTyped
<1>4. Untouched(o) /\ ~pending(o)
  BY <1>2, UnpaidUntouched
<1>5. /\ InTurn' /\ Marked' /\ Unspent' /\ Loading'
      /\ \A p \in Orders : Untouched(p) /\ p # o => Untouched(p)'
  BY <1>2, <1>3, <1>4, CreditOnce, OfflineOnce
<1>6. OneAnswer'
  BY <1>2, <1>4, <1>5, AnswersSame, AnswersKept DEF PayInv
<1> QED
  BY <1>5, <1>6 DEF PayInv

\* A step of the environment that keeps its word.
LEMMA PayStep ==
  ASSUME FinishOnce, SavesFirst, ~Crash, DealsInv, PayInv, [Next]_vars
  PROVE  PayInv'
<1>1. ASSUME NEW a \in Accounts, login(a) \/ logout(a) \/ Destroy(a) PROVE PayInv'
  <2>1. UNCHANGED <<saveQ, rowVars, owner, _complete_task>>
    BY <1>1 DEF login, logout, Destroy, platVars, httpVars
  <2>2. \A b \in Accounts :
          /\ \/ UNCHANGED <<_deals_wait_to_pay[b], gold[b]>>
             \/ _deals_wait_to_pay'[b] = NoDeals /\ gold'[b] = NoGold /\ hero'[b] = "out"
          /\ GetHero(b)' => GetHero(b)
          /\ hero'[b] \in {"queryDeals", "reply"} => hero[b] = hero'[b]
    BY <1>1 DEF login, logout, Destroy, GetHero, InMemory, DealsInv, HeroBacked
  <2> QED
    BY <2>1, <2>2, AnswersSame, MemoryShrinks
<1>2. CASE UNCHANGED vars
  <2>1. UNCHANGED <<hero, _deals_wait_to_pay, gold, saveQ, rowVars, owner, _complete_task>>
    BY <1>2 DEF vars, memVars, platVars, httpVars
  <2> QED
    BY <2>1, AnswersSame, MapOnce
<1> QED
  BY <1>1, <1>2, GiveUpOnce, VerifyOnce, SaveOnce, QueryOnce, QueryDealsOnce, CreateOnce,
     PlatformOnce, ResultOnce, ExecuteOnce, NoticeOnce
     DEF Next, dbLoss, crash

\* Where the platform closes an order once, no query overtakes a save and nothing is lost,
\* an order that was paid is at one stage at a time of its way to the hero's gold: in a
\* result, in a row or statement that owes it, in a hero or statement that has it.
THEOREM PaymentInvariant ==
  ASSUME FinishOnce, SavesFirst, ~Crash
  PROVE  Spec => []PayInv
<1>1. Init => PayInv
  <2> SUFFICES ASSUME Init PROVE PayInv
    OBVIOUS
  <2>1. /\ \A o \in Orders : NoDeals[o] = "none" /\ NoGold[o] = 0
        /\ Places = {0}
    BY DEF Init, NoDeals, NoGold, Places
  <2>2. \A o \in Orders : ~anyOwed(o) /\ ~anyGiven(o)
    BY <2>1 DEF Init, anyOwed, anyGiven, owed, given
  <2>3. \A o \in Orders : ~pending(o) /\ once(o)
    BY DEF Init, pending, once
  <2>4. OneAnswer /\ Marked /\ Unspent /\ Loading
    BY <2>1, <2>2, <2>3 DEF OneAnswer, Marked, Unspent, Loading, Init
  <2>5. InTurn
    BY <2>2 DEF InTurn, anyOwed
  <2> QED
    BY <2>4, <2>5 DEF PayInv
<1>2. DealsInv /\ PayInv /\ [Next]_vars => PayInv'
  BY PayStep
<1> QED
  BY <1>1, <1>2, DealsInvariant, PTL DEF Spec

-----------------------------------------------------------------------------
(* Selling implements Payment *)

Pay == INSTANCE Payment WITH credited <- credits

\* What the hero of a owns, before and after a step.
LEMMA WorthIs ==
  ASSUME NEW a \in Accounts
  PROVE  /\ worth(a) = IF GetHero(a) THEN gold[a] ELSE lastOf(saveQ, rowGold[a], a)
         /\ worth(a)' = IF GetHero(a)' THEN gold'[a] ELSE lastOf(saveQ', rowGold'[a], a)
BY DEF worth, lastSaved, lastOf, savesOf, isSave

\* What a hero owns comes from its own orders, which are paid.
LEMMA WorthBacked ==
  ASSUME DealsInv, NEW a \in Accounts
  PROVE  worth(a) \in GoldOf(owner, finished, a)
<1>1. gold[a] \in GoldOf(owner, finished, a) /\ rowGold[a] \in GoldOf(owner, finished, a)
  BY DEF DealsInv, HeroBacked, RowsBacked
<1>2. lastOf(saveQ, rowGold[a], a) \in GoldOf(owner, finished, a)
  <2>1. saveQ \in Seq(SqlsOf(owner, finished))
    BY DEF DealsInv, SavesBacked
  <2>2. ASSUME NEW m \in DOMAIN saveQ, isSave(saveQ[m], a)
        PROVE  saveQ[m].gold \in GoldOf(owner, finished, a)
    <3>1. PICK s : s = saveQ[m]
      OBVIOUS
    <3>2. s \in SqlsOf(owner, finished)
      BY <2>1, <3>1
    <3> QED
      BY <2>2, <3>1, <3>2, SqlTypes DEF isSave
  <2> QED
    BY <1>1, <2>1, <2>2, LastOfCases
<1> QED
  BY <1>1, <1>2, WorthIs

\* The credits are what the owners of the orders own.
LEMMA CreditsAre ==
  ASSUME DealsInv, DealsInv'
  PROVE  /\ credits \in [Orders -> Nat] /\ credits' \in [Orders -> Nat]
         /\ \A o \in Orders :
              /\ owner[o] = NoAccount => credits[o] = 0
              /\ owner'[o] = NoAccount => credits'[o] = 0
              /\ \A a \in Accounts :
                   /\ owner[o] = a => credits[o] = worth(a)[o]
                   /\ owner'[o] = a => credits'[o] = worth(a)'[o]
<1>1. /\ \A a \in Accounts : worth(a) \in [Orders -> Nat]
      /\ owner \in [Orders -> Accounts \cup {NoAccount}]
  BY WorthBacked DEF GoldOf, DealsInv, PlatformTyped
<1>2. /\ \A a \in Accounts : (worth(a) \in [Orders -> Nat])'
      /\ owner' \in [Orders -> Accounts \cup {NoAccount}]
  <2>1. ASSUME NEW a \in Accounts PROVE (worth(a) \in GoldOf(owner, finished, a))'
    BY WorthBacked, PTL
  <2> QED
    BY <2>1 DEF GoldOf, DealsInv, PlatformTyped
<1>3. /\ credits \in [Orders -> Nat]
      /\ \A o \in Orders :
           /\ owner[o] = NoAccount => credits[o] = 0
           /\ \A a \in Accounts : owner[o] = a => credits[o] = worth(a)[o]
  BY <1>1, DealsConstants DEF credits
<1>4. /\ credits' \in [Orders -> Nat]
      /\ \A o \in Orders :
           /\ owner'[o] = NoAccount => credits'[o] = 0
           /\ \A a \in Accounts : owner'[o] = a => credits'[o] = worth(a)'[o]
  BY <1>2, DealsConstants DEF credits
<1> QED
  BY <1>3, <1>4

\* A statement of orders saves no hero.
LEMMA SavedAppend ==
  ASSUME DealsInv, NEW s, s.table = "deal_wait_to_pay", saveQ' = Append(saveQ, s), UNCHANGED rowGold
  PROVE  \A a : lastOf(saveQ', rowGold'[a], a) = lastOf(saveQ, rowGold[a], a)
<1>1. PICK X : saveQ \in Seq(X)
  BY DEF DealsInv, SavesBacked
<1>2. saveQ \in Seq(X \cup {s})
  BY <1>1
<1>3. \A a : ~isSave(s, a)
  BY DEF isSave
<1> QED
  BY <1>2, <1>3, LastOfAppend

\* SaveHero saves one hero.
LEMMA SavedHero ==
  ASSUME DealsInv, NEW a \in Accounts, SaveHero(a)
  PROVE  \A b \in Accounts \ {a} : lastOf(saveQ', rowGold'[b], b) = lastOf(saveQ, rowGold[b], b)
<1> SUFFICES ASSUME NEW b \in Accounts, b # a
             PROVE  lastOf(saveQ', rowGold'[b], b) = lastOf(saveQ, rowGold[b], b)
  OBVIOUS
<1>1. PICK c, d : c = characterSql(a) /\ d = dealSql(a, _deals_wait_to_pay[a])
  OBVIOUS
<1>2. ~isSave(c, b) /\ ~isSave(d, b)
  BY <1>1 DEF isSave, characterSql, dealSql
<1>3. PICK X : saveQ \in Seq(X)
  BY DEF DealsInv, SavesBacked
<1>4. PICK Y : Y = X \cup {c, d}
  OBVIOUS
<1>5. saveQ \in Seq(Y) /\ c \in Y /\ d \in Y
  BY <1>3, <1>4
<1>6. PICK e : e = Append(saveQ, c)
  OBVIOUS
<1>7. e \in Seq(Y)
  BY <1>5, <1>6
<1>8. rowGold' = rowGold /\ saveQ' \in {e, Append(e, d)}
  BY <1>1, <1>5, <1>6 DEF SaveHero, heroSql, rowVars
<1>9. lastOf(e, rowGold[b], b) = lastOf(saveQ, rowGold[b], b)
  BY <1>2, <1>5, <1>6, LastOfAppend
<1>10. lastOf(Append(e, d), rowGold[b], b) = lastOf(e, rowGold[b], b)
  BY <1>2, <1>5, <1>7, LastOfAppend
<1> QED
  BY <1>8, <1>9, <1>10

\* Executing a statement changes nothing of what was last saved.
LEMMA SavedTail ==
  ASSUME DealsInv, InTurn, dbSave
  PROVE  \A a \in Accounts : lastOf(saveQ', rowGold'[a], a) = lastOf(saveQ, rowGold[a], a)
<1> SUFFICES ASSUME NEW a \in Accounts
             PROVE  lastOf(saveQ', rowGold'[a], a) = lastOf(saveQ, rowGold[a], a)
  OBVIOUS
<1>1. PICK X : saveQ \in Seq(X)
  BY DEF DealsInv, SavesBacked
<1>2. saveQ # <<>> /\ saveQ' = Tail(saveQ)
  BY DEF dbSave
<1>3. rowGold'[a] = IF isSave(saveQ[1], a) THEN saveQ[1].gold ELSE rowGold[a]
  BY PlacesTail
<1> QED
  BY <1>1, <1>2, <1>3, LastOfTail

\* Nobody's goods change: nothing is credited, even if the platform creates an order.
LEMMA NothingCredited ==
  ASSUME DealsInv, DealsInv', \A a \in Accounts : worth(a)' = worth(a),
         \A o \in Orders : owner[o] # NoAccount => owner'[o] = owner[o]
  PROVE  credits' = credits
<1>1. \A o \in Orders : credits'[o] = credits[o]
  <2> SUFFICES ASSUME NEW o \in Orders PROVE credits'[o] = credits[o]
    OBVIOUS
  <2>1. owner[o] \in Accounts \cup {NoAccount} /\ owner'[o] \in Accounts \cup {NoAccount}
    BY DEF DealsInv, PlatformTyped
  <2>2. CASE owner[o] # NoAccount
    BY <2>1, <2>2, CreditsAre
  <2>3. CASE owner[o] = NoAccount /\ owner'[o] = NoAccount
    BY <2>3, CreditsAre
  <2>4. CASE owner[o] = NoAccount /\ owner'[o] \in Accounts
    <3>1. PICK a \in Accounts : a = owner'[o]
      BY <2>4
    <3>2. credits[o] = 0 /\ credits'[o] = worth(a)[o]
      BY <2>4, <3>1, CreditsAre
    <3>3. worth(a)[o] = 0
      BY <2>4, WorthBacked, DealsConstants DEF GoldOf
    <3> QED
      BY <3>2, <3>3
  <2> QED
    BY <2>1, <2>2, <2>3, <2>4
<1> QED
  BY <1>1, CreditsAre

\* The hero of a gets the goods of the orders in S, which it did not have.
LEMMA SomeCredited ==
  ASSUME DealsInv, DealsInv', UNCHANGED owner, NEW a \in Accounts, NEW S \in SUBSET Orders,
         \A o \in S : owner[o] = a /\ worth(a)[o] = 0,
         \A o \in Orders : worth(a)'[o] = IF o \in S THEN 1 ELSE worth(a)[o],
         \A b \in Accounts \ {a} : worth(b)' = worth(b)
  PROVE  /\ \A o \in S : credits[o] = 0
         /\ credits' = [o \in Orders |-> IF o \in S THEN 1 ELSE credits[o]]
<1>1. \A o \in S : credits[o] = 0 /\ credits'[o] = 1
  BY CreditsAre
<1>2. \A o \in Orders \ S : credits'[o] = credits[o]
  <2> SUFFICES ASSUME NEW o \in Orders, o \notin S PROVE credits'[o] = credits[o]
    OBVIOUS
  <2>1. owner[o] \in Accounts \cup {NoAccount}
    BY DEF DealsInv, PlatformTyped
  <2>2. CASE owner[o] = NoAccount
    BY <2>2, CreditsAre
  <2>3. CASE owner[o] = a
    BY <2>3, CreditsAre
  <2>4. CASE owner[o] \in Accounts \ {a}
    <3>1. PICK b \in Accounts \ {a} : b = owner[o]
      BY <2>4
    <3> QED
      BY <3>1, CreditsAre
  <2> QED
    BY <2>1, <2>2, <2>3, <2>4
<1> QED
  BY <1>1, <1>2, CreditsAre

\* A paid order that is untouched is credited to its hero in memory.
LEMMA CreditWorth ==
  ASSUME DealsInv, DealsInv', NEW t, t.acc \in Accounts, t.order \in Orders, addDealPay(t),
         t.result = "paid" => Untouched(t.order) /\ owner[t.order] = t.acc,
         UNCHANGED <<hero, owner, rowVars>>
  PROVE  \/ UNCHANGED credits
         \/ /\ t.result = "paid" /\ credits[t.order] = 0
            /\ credits' = [o \in Orders |-> IF o \in {t.order} THEN 1 ELSE credits[o]]
<1>1. /\ UNCHANGED <<saveQ, rowGold>>
      /\ \A b \in Accounts : GetHero(b)' <=> GetHero(b)
  BY DEF addDealPay, rowVars, GetHero
<1>2. CASE UNCHANGED gold
  <2>1. \A b \in Accounts : worth(b)' = worth(b)
    BY <1>1, <1>2, WorthIs
  <2> QED
    BY <2>1, NothingCredited
<1>3. CASE t.result = "paid" /\ gold' = [gold EXCEPT ![t.acc][t.order] = @ + 1]
  <2>1. PICK a \in Accounts, o \in Orders : a = t.acc /\ o = t.order
    OBVIOUS
  <2>2. /\ GetHero(a) /\ owner[o] = a /\ gold[a][o] = 0
    BY <1>3, <2>1 DEF addDealPay, Untouched
  <2>3. /\ \A b \in Accounts : b # a => gold'[b] = gold[b]
        /\ \A p \in Orders : gold'[a][p] = IF p \in {o} THEN 1 ELSE gold[a][p]
    BY <1>3, <2>1, <2>2 DEF DealsInv, HeroBacked
  <2>4. worth(a) = gold[a] /\ worth(a)' = gold'[a]
    BY <1>1, <2>2, WorthIs
  <2>5. \A b \in Accounts \ {a} : worth(b)' = worth(b)
    BY <1>1, <2>3, WorthIs
  <2>6. /\ \A p \in {o} : owner[p] = a /\ worth(a)[p] = 0
        /\ \A p \in Orders : worth(a)'[p] = IF p \in {o} THEN 1 ELSE worth(a)[p]
    BY <2>2, <2>3, <2>4
  <2>7. {o} \in SUBSET Orders
    OBVIOUS
  <2>8. /\ \A p \in {o} : credits[p] = 0
        /\ credits' = [p \in Orders |-> IF p \in {o} THEN 1 ELSE credits[p]]
    BY <2>5, <2>6, <2>7, SomeCredited
  <2> QED
    BY <1>3, <2>1, <2>8
<1> QED
  BY <1>2, <1>3 DEF addDealPay

\* Without the hero, nothing is credited yet.
LEMMA OfflineWorth ==
  ASSUME DealsInv, DealsInv', NEW t, OfflineHeroDealWaitToPay(t), UNCHANGED <<hero, owner, rowVars>>
  PROVE  UNCHANGED credits
<1>1. UNCHANGED <<gold, rowGold>> /\ \A b \in Accounts : GetHero(b)' <=> GetHero(b)
  BY DEF OfflineHeroDealWaitToPay, rowVars, GetHero
<1>2. \A b \in Accounts : lastOf(saveQ', rowGold'[b], b) = lastOf(saveQ, rowGold[b], b)
  <2>1. CASE UNCHANGED saveQ
    BY <1>1, <2>1
  <2>2. CASE saveQ' = Append(saveQ, dealSql(t.acc,
               only(t.order, IF t.result = "paid" THEN "WaitPrepareToPay" ELSE "Failed")))
    <3>1. PICK s : s = dealSql(t.acc,
               only(t.order, IF t.result = "paid" THEN "WaitPrepareToPay" ELSE "Failed"))
      OBVIOUS
    <3>2. s.table = "deal_wait_to_pay"
      BY <3>1 DEF dealSql
    <3> QED
      BY <1>1, <2>2, <3>1, <3>2, SavedAppend
  <2> QED
    BY <2>1, <2>2 DEF OfflineHeroDealWaitToPay
<1>3. \A b \in Accounts : worth(b)' = worth(b)
  BY <1>1, <1>2, WorthIs
<1> QED
  BY <1>3, NothingCredited

\* A hero that comes into memory gets the goods of its paid orders.
LEMMA CreateWorth ==
  ASSUME DealsInv, DealsInv', PayInv, NEW a \in Accounts, CreateHero(a)
  PROVE  \E S \in SUBSET Orders :
           /\ S \subseteq finished /\ \A o \in S : credits[o] = 0
           /\ credits' = [o \in Orders |-> IF o \in S THEN 1 ELSE credits[o]]
<1>1. /\ hero[a] = "reply" /\ \A b \in Accounts : hero'[b] = IF b = a THEN "online" ELSE hero[b]
      /\ UNCHANGED <<owner, saveQ, rowGold>>
  BY DEF CreateHero, platVars, rowVars, DealsInv, HeroBacked
<1>2. PICK S : S = {o \in Orders : _deals_wait_to_pay[a][o] = "WaitPrepareToPay"
                                   /\ payable(o, _deals_wait_to_pay[a][o])}
  OBVIOUS
<1>3. \A o \in S : o \in Orders /\ _deals_wait_to_pay[a][o] = "WaitPrepareToPay"
  BY <1>2
<1>4. \A o \in S : o \in finished /\ owner[o] = a /\ gold[a][o] = 0
  BY <1>3, OwnOrder DEF PayInv, Unspent, DealsInv, HeroBacked, DealsOf
<1>5. gold' = [gold EXCEPT ![a] = [o \in Orders |-> IF o \in S THEN gold[a][o] + 1 ELSE gold[a][o]]]
  BY <1>2 DEF CreateHero, set_info, DealsInv, HeroBacked
<1>6. /\ \A b \in Accounts : b # a => gold'[b] = gold[b]
      /\ \A o \in Orders : gold'[a][o] = IF o \in S THEN 1 ELSE gold[a][o]
  BY <1>4, <1>5 DEF DealsInv, HeroBacked
<1>7. worth(a) = gold[a]
  <2>1. gold[a] = rowGold[a] /\ \A i \in DOMAIN saveQ : ~isSave(saveQ[i], a)
    BY <1>1 DEF PayInv, Loading
  <2>2. lastOf(saveQ, rowGold[a], a) = rowGold[a]
    <3>1. savesOf(saveQ, a) = {}
      BY <2>1 DEF savesOf
    <3> QED
      BY <3>1 DEF lastOf
  <2> QED
    BY <1>1, <2>1, <2>2, WorthIs DEF GetHero, InMemory
<1>8. worth(a)' = gold'[a]
  BY <1>1, WorthIs DEF GetHero, InMemory
<1>9. \A b \in Accounts \ {a} : worth(b)' = worth(b)
  BY <1>1, <1>6, WorthIs DEF GetHero
<1>10. /\ S \in SUBSET Orders
       /\ \A o \in S : owner[o] = a /\ worth(a)[o] = 0
       /\ \A o \in Orders : worth(a)'[o] = IF o \in S THEN 1 ELSE worth(a)[o]
  BY <1>3, <1>4, <1>6, <1>7, <1>8
<1>11. /\ \A o \in S : credits[o] = 0
       /\ credits' = [o \in Orders |-> IF o \in S THEN 1 ELSE credits[o]]
  BY <1>1, <1>9, <1>10, SomeCredited
<1> QED
  BY <1>4, <1>10, <1>11

\* What a step of Payment may be.
PayStutter == UNCHANGED <<finished, credits>>
PayFinish ==
  \E o \in Orders : o \notin finished /\ finished' = finished \cup {o} /\ UNCHANGED credits
PayCredit ==
  \E S \in SUBSET Orders :
    /\ S \subseteq finished /\ \A o \in S : credits[o] = 0
    /\ credits' = [o \in Orders |-> IF o \in S THEN 1 ELSE credits[o]]
    /\ UNCHANGED finished
PaySell ==
  \E o \in Orders : /\ o \notin finished /\ credits[o] = 0 /\ finished' = finished \cup {o}
                    /\ credits' = [p \in Orders |-> IF p \in {o} THEN 1 ELSE credits[p]]

\* A step of the environment that keeps its word credits a paid order that was not
\* credited, or closes an order, or nothing.
LEMMA PayRefines ==
  ASSUME FinishOnce, SavedAtDestroy, ~Crash, DealsInv, DealsInv', PayInv, [Next]_vars
  PROVE  PayStutter \/ PayFinish \/ PayCredit \/ PaySell
<1>1. ASSUME NEW a \in Accounts,
             \/ login(a) \/ logout(a) \/ ReqCrearteDeal(a)
             \/ dbDoQueryHeroInfo(a) \/ dbDoQueryHeroDeals(a)
      PROVE  PayStutter
  <2>1. /\ UNCHANGED <<finished, owner, saveQ, rowGold>>
        /\ \A b \in Accounts : /\ GetHero(b)' <=> GetHero(b)
                               /\ GetHero(b) => gold'[b] = gold[b]
    BY <1>1 DEF login, logout, ReqCrearteDeal, dbDoQueryHeroInfo, dbDoQueryHeroDeals,
                platVars, rowVars, GetHero, InMemory, DealsInv, HeroBacked
  <2>2. \A b \in Accounts : worth(b)' = worth(b)
    BY <2>1, WorthIs
  <2> QED
    BY <2>1, <2>2, NothingCredited DEF PayStutter
<1>2. ASSUME NEW a \in Accounts, Destroy(a) PROVE PayStutter
  <2>1. /\ UNCHANGED <<finished, owner, saveQ, rowGold>>
        /\ \A b \in Accounts \ {a} : hero'[b] = hero[b] /\ gold'[b] = gold[b]
        /\ hero[a] = "offline" /\ hero'[a] = "out" /\ lastSaved(a) = gold[a]
    BY <1>2 DEF Destroy, platVars, rowVars, DealsInv, HeroBacked
  <2>2. \A b \in Accounts \ {a} : worth(b)' = worth(b)
    BY <2>1, WorthIs DEF GetHero
  <2>3. worth(a)' = worth(a)
    BY <2>1, WorthIs, LastSavedIs DEF GetHero, InMemory
  <2> QED
    BY <2>1, <2>2, <2>3, NothingCredited DEF PayStutter
<1>3. ASSUME NEW a \in Accounts, NEW o \in Orders, ReqVerifyDeal(a, o) PROVE PayStutter
  <2>1. PICK s : s = dealSql(NoAccount, only(o, "WaitPrepareToVerify"))
    OBVIOUS
  <2>2. s.table = "deal_wait_to_pay" /\ saveQ' = Append(saveQ, s)
    BY <1>3, <2>1 DEF dealSql, ReqVerifyDeal
  <2>3. UNCHANGED <<hero, gold, rowGold, owner, finished>>
    BY <1>3 DEF ReqVerifyDeal, memVars, rowVars, platVars
  <2>4. \A b \in Accounts : worth(b)' = worth(b)
    BY <2>2, <2>3, SavedAppend, WorthIs DEF GetHero
  <2> QED
    BY <2>3, <2>4, NothingCredited DEF PayStutter
<1>4. ASSUME NEW a \in Accounts, SaveHero(a) PROVE PayStutter
  <2>1. UNCHANGED <<hero, gold, rowGold, owner, finished>> /\ GetHero(a)
    BY <1>4 DEF SaveHero, memVars, rowVars, platVars
  <2>2. \A b \in Accounts : worth(b)' = worth(b)
    BY <1>4, <2>1, SavedHero, WorthIs DEF GetHero
  <2> QED
    BY <2>1, <2>2, NothingCredited DEF PayStutter
<1>5. ASSUME NEW a \in Accounts, CreateHero(a) PROVE PayCredit
  <2>1. UNCHANGED finished
    BY <1>5 DEF CreateHero, platVars
  <2> QED
    BY <1>5, <2>1, CreateWorth DEF PayCredit
<1>6. CASE update
  <2>1. UNCHANGED <<hero, gold, saveQ, rowGold>>
    BY <1>6 DEF update, memVars, rowVars
  <2>2. \A b \in Accounts : worth(b)' = worth(b)
    BY <2>1, WorthIs DEF GetHero
  <2>3. PICK t : t = Head(_https)
    OBVIOUS
  <2>4. t \in TasksOf(owner, finished)
    BY <1>6, <2>3, HeadTask DEF update, DealsInv, TasksBacked
  <2>5. PICK o \in Orders \cup {NoOrder}, r \in {"created", "paid", "refused", "error"} : answer(t, o, r)
    BY <1>6, <2>3 DEF update
  <2>6. \A p \in Orders : owner[p] # NoAccount => owner'[p] = owner[p]
    BY <2>5 DEF answer, DealsInv, PlatformTyped
  <2>7. UNCHANGED credits
    BY <2>2, <2>6, NothingCredited
  <2>8. \/ UNCHANGED finished
        \/ o \in Orders /\ o \notin finished /\ finished' = finished \cup {o}
    BY <2>4, <2>5 DEF answer, TasksOf
  <2> QED
    BY <2>7, <2>8 DEF PayStutter, PayFinish
<1>7. CASE logicUpdate
  <2>1. PICK t : t = Head(_complete_task)
    OBVIOUS
  <2>2. t \in TasksOf(owner, finished) /\ t = _complete_task[1] /\ 1 \in DOMAIN _complete_task
    BY <1>7, <2>1, HeadTask DEF logicUpdate, DealsInv, TasksBacked
  <2>3. /\ addDealWaitToPay(t) \/ addDealPay(t) \/ OfflineHeroDealWaitToPay(t)
        /\ UNCHANGED <<hero, owner, finished, rowVars>>
    BY <1>7, <2>1 DEF logicUpdate, platVars
  <2>4. CASE addDealWaitToPay(t)
    <3>1. UNCHANGED <<hero, gold, saveQ, rowGold>>
      BY <2>3, <2>4 DEF addDealWaitToPay, rowVars
    <3>2. \A b \in Accounts : worth(b)' = worth(b)
      BY <3>1, WorthIs DEF GetHero
    <3> QED
      BY <2>3, <3>2, NothingCredited DEF PayStutter
  <2>5. CASE addDealPay(t)
    <3>1. t.acc \in Accounts /\ t.order \in Orders /\ owner[t.order] = t.acc
      BY <2>2, <2>5 DEF TasksOf, addDealPay
    <3>2. t.result = "paid" => Untouched(t.order) /\ t.order \in finished
      BY <2>2, <3>1 DEF paid, pending, PayInv, OneAnswer, TasksOf
    <3>3. \/ UNCHANGED credits
          \/ /\ t.result = "paid" /\ credits[t.order] = 0
             /\ credits' = [o \in Orders |-> IF o \in {t.order} THEN 1 ELSE credits[o]]
      BY <2>3, <2>5, <3>1, <3>2, CreditWorth
    <3>4. t.result = "paid" => {t.order} \in SUBSET Orders /\ {t.order} \subseteq finished
      BY <3>1, <3>2
    <3> QED
      BY <2>3, <3>3, <3>4 DEF PayStutter, PayCredit
  <2>6. CASE OfflineHeroDealWaitToPay(t)
    BY <2>3, <2>6, OfflineWorth DEF PayStutter
  <2> QED
    BY <2>3, <2>4, <2>5, <2>6
<1>8. CASE dbSave
  <2>1. UNCHANGED <<hero, gold, owner, finished>>
    BY <1>8 DEF dbSave, memVars, platVars
  <2>2. \A b \in Accounts : worth(b)' = worth(b)
    BY <1>8, <2>1, SavedTail, WorthIs DEF GetHero, PayInv
  <2> QED
    BY <2>1, <2>2, NothingCredited DEF PayStutter
<1>9. ASSUME NEW o \in Orders, parseClinchADealNotify(o) PROVE PayFinish \/ PaySell
  <2>1. PICK t : t = task("VerifyDeal", owner[o], o, "paid")
    OBVIOUS
  <2>2. /\ owner[o] # NoAccount /\ o \notin finished /\ finished' = finished \cup {o}
        /\ addDealPay(t) \/ OfflineHeroDealWaitToPay(t)
        /\ UNCHANGED <<hero, owner, rowVars>>
    BY <1>9, <2>1 DEF parseClinchADealNotify
  <2>3. t.acc \in Accounts /\ t.order = o /\ owner[t.order] = t.acc
    BY <2>1, <2>2 DEF task, DealsInv, PlatformTyped
  <2>4. Untouched(o)
    BY <2>2, UnpaidUntouched
  <2>5. \/ UNCHANGED credits
        \/ /\ credits[o] = 0
           /\ credits' = [p \in Orders |-> IF p \in {o} THEN 1 ELSE credits[p]]
    BY <2>2, <2>3, <2>4, CreditWorth, OfflineWorth
  <2> QED
    BY <2>2, <2>5 DEF PayFinish, PaySell
<1>10. CASE UNCHANGED vars
  <2>1. UNCHANGED <<hero, gold, saveQ, rowGold, owner, finished>>
    BY <1>10 DEF vars, memVars, platVars, rowVars
  <2>2. \A b \in Accounts : worth(b)' = worth(b)
    BY <2>1, WorthIs DEF GetHero
  <2> QED
    BY <2>1, <2>2, NothingCredited DEF PayStutter
<1> QED
  BY <1>1, <1>2, <1>3, <1>4, <1>5, <1>6, <1>7, <1>8, <1>9, <1>10 DEF Next, dbLoss, crash

\* Selling implements Payment: where the platform closes an order once, no query overtakes
\* a save, a hero is saved before Destroy and nothing is lost, an order is credited at most
\* once across logout, Destroy and reload, and a credit is not taken back.
THEOREM PaymentKept ==
  ASSUME FinishOnce, SavesFirst, SavedAtDestroy, ~Crash
  PROVE  Spec => Pay!Spec
<1>1. Init => Pay!Init
  BY DEF Init, Pay!Init, credits
<1>2. DealsInv /\ DealsInv' /\ PayInv /\ [Next]_vars => [Pay!Next]_<<finished, credits>>
  <2> SUFFICES ASSUME DealsInv, DealsInv', PayInv, [Next]_vars
               PROVE  [Pay!Next]_<<finished, credits>>
    OBVIOUS
  <2>1. credits \in [Orders -> Nat]
    BY CreditsAre
  <2>2. PayFinish => Pay!Next
    BY DEF PayFinish, Pay!Next, Pay!Finish
  <2>3. PayCredit => Pay!Next
    BY DEF PayCredit, Pay!Next, Pay!Credit
  <2>4. PaySell => Pay!Next
    <3> SUFFICES ASSUME NEW o \in Orders, o \notin finished, credits[o] = 0, finished' = finished \cup {o},
                        credits' = [p \in Orders |-> IF p \in {o} THEN 1 ELSE credits[p]]
                 PROVE  Pay!Next
      BY DEF PaySell
    <3>1. credits' = [credits EXCEPT ![o] = 1]
      BY <2>1
    <3> QED
      BY <3>1 DEF Pay!Next, Pay!Sell
  <2> QED
    BY <2>2, <2>3, <2>4, PayRefines DEF PayStutter
<1> QED
  BY <1>1, <1>2, DealsInvariant, PaymentInvariant, PTL DEF Spec, Pay!Spec

-----------------------------------------------------------------------------
(* The specification that is model-checked *)

\* The sequence of a set is that of any instance.
LEMMA SameSequence == ASSUME NEW S PROVE SetToSeq(S) = Calm!SetToSeq(S)
<1>1. Cardinality(S) = Calm!Cardinality(S)
  BY DEF Cardinality, Calm!Cardinality, IsFiniteSet, Calm!IsFiniteSet
<1>2. \A f : IsInjective(f) <=> Calm!IsInjective(f)
  BY DEF IsInjective, Calm!IsInjective
<1> HIDE DEF Cardinality, IsInjective
<1> QED
  BY <1>1, <1>2, Zenon DEF SetToSeq, Calm!SetToSeq

\* Patient clients and answers that arrive are a case of any clients and answers.
LEMMA CalmIsNext == Calm!Next => Next
<1>1. ASSUME NEW a \in Accounts
      PROVE  /\ Calm!login(a) => login(a)
             /\ Calm!logout(a) => logout(a)
             /\ Calm!Destroy(a) => Destroy(a)
             /\ Calm!ReqCrearteDeal(a) => ReqCrearteDeal(a)
             /\ Calm!SaveHero(a) => SaveHero(a)
             /\ Calm!dbDoQueryHeroInfo(a) => dbDoQueryHeroInfo(a)
             /\ Calm!dbDoQueryHeroDeals(a) => dbDoQueryHeroDeals(a)
             /\ Calm!CreateHero(a) => CreateHero(a)
  <2>1. Calm!login(a) => login(a)
    BY DEF Calm!login, login, Calm!waiting, waiting, Calm!platVars, platVars,
           Calm!httpVars, httpVars, Calm!rowVars, rowVars
  <2>2. Calm!logout(a) => logout(a)
    BY DEF Calm!logout, logout, Calm!platVars, platVars, Calm!httpVars, httpVars,
           Calm!rowVars, rowVars, Calm!NoGold, NoGold, Calm!NoDeals, NoDeals
  <2>3. Calm!Destroy(a) => Destroy(a)
    BY DEF Calm!Destroy, Destroy, Calm!lastSaved, lastSaved, Calm!platVars, platVars,
           Calm!httpVars, httpVars, Calm!rowVars, rowVars, Calm!NoGold, NoGold, Calm!NoDeals, NoDeals
  <2>4. Calm!ReqCrearteDeal(a) => ReqCrearteDeal(a)
    BY DEF Calm!ReqCrearteDeal, ReqCrearteDeal, Calm!waiting, waiting, Calm!task, task,
           Calm!platVars, platVars, Calm!rowVars, rowVars
  <2>5. Calm!SaveHero(a) => SaveHero(a)
    BY DEF Calm!SaveHero, SaveHero, Calm!GetHero, GetHero, Calm!InMemory, InMemory,
           Calm!heroSql, heroSql, Calm!characterSql, characterSql, Calm!dealSql, dealSql,
           Calm!NoDeals, NoDeals, Calm!memVars, memVars, Calm!platVars, platVars,
           Calm!httpVars, httpVars, Calm!rowVars, rowVars
  <2>6. Calm!dbDoQueryHeroInfo(a) => dbDoQueryHeroInfo(a)
    BY DEF Calm!dbDoQueryHeroInfo, dbDoQueryHeroInfo, Calm!quiet, quiet,
           Calm!platVars, platVars, Calm!httpVars, httpVars, Calm!rowVars, rowVars
  <2>7. Calm!dbDoQueryHeroDeals(a) => dbDoQueryHeroDeals(a)
    BY DEF Calm!dbDoQueryHeroDeals, dbDoQueryHeroDeals, Calm!quiet, quiet,
           Calm!platVars, platVars, Calm!httpVars, httpVars, Calm!rowVars, rowVars
  <2>8. Calm!CreateHero(a) => CreateHero(a)
    <3>1. Calm!set_info(a) => set_info(a)
      <4>1. \A o, t : Calm!payable(o, t) <=> payable(o, t)
        BY DEF Calm!payable, payable
      <4>2. \A k, b, o, r : Calm!task(k, b, o, r) = task(k, b, o, r)
        BY DEF Calm!task, task
      <4> HIDE DEF payable, task
      <4> QED
        BY <4>1, <4>2, SameSequence DEF Calm!set_info, set_info
    <3> QED
      BY <3>1 DEF Calm!CreateHero, CreateHero, Calm!platVars, platVars, Calm!rowVars, rowVars
  <2> QED
    BY <2>1, <2>2, <2>3, <2>4, <2>5, <2>6, <2>7, <2>8
<1>2. ASSUME NEW a \in Accounts, NEW o \in Orders, Calm!ReqVerifyDeal(a, o)
      PROVE  ReqVerifyDeal(a, o)
  BY <1>2 DEF Calm!ReqVerifyDeal, ReqVerifyDeal, Calm!dealSql, dealSql, Calm!only, only,
              Calm!task, task, Calm!waiting, waiting, Calm!memVars, memVars,
              Calm!platVars, platVars, Calm!rowVars, rowVars
<1>3. Calm!update => update
  <2>1. \A t, o, r : Calm!answer(t, o, r) => answer(t, o, r)
    BY DEF Calm!answer, answer
  <2>2. \A k, b, o, r : Calm!task(k, b, o, r) = task(k, b, o, r)
    BY DEF Calm!task, task
  <2> QED
    BY <2>1, <2>2 DEF Calm!update, update, Calm!memVars, memVars, Calm!rowVars, rowVars
<1>4. \A t : /\ Calm!addDealWaitToPay(t) => addDealWaitToPay(t)
             /\ Calm!addDealPay(t) => addDealPay(t)
             /\ Calm!OfflineHeroDealWaitToPay(t) => OfflineHeroDealWaitToPay(t)
  <2>1. /\ \A a : Calm!GetHero(a) <=> GetHero(a)
        /\ \A o, t : Calm!payable(o, t) <=> payable(o, t)
        /\ \A a, d : Calm!dealSql(a, d) = dealSql(a, d)
        /\ \A o, d : Calm!only(o, d) = only(o, d)
    BY DEF Calm!GetHero, GetHero, Calm!InMemory, InMemory, Calm!payable, payable,
           Calm!dealSql, dealSql, Calm!only, only
  <2>2. \A t : Calm!addDealWaitToPay(t) => addDealWaitToPay(t)
    BY <2>1 DEF Calm!addDealWaitToPay, addDealWaitToPay
  <2>3. \A t : Calm!addDealPay(t) => addDealPay(t)
    BY <2>1 DEF Calm!addDealPay, addDealPay
  <2>4. \A t : Calm!OfflineHeroDealWaitToPay(t) => OfflineHeroDealWaitToPay(t)
    BY <2>1 DEF Calm!OfflineHeroDealWaitToPay, OfflineHeroDealWaitToPay
  <2> QED
    BY <2>2, <2>3, <2>4
<1>5. Calm!logicUpdate => logicUpdate
  BY <1>4 DEF Calm!logicUpdate, logicUpdate, Calm!platVars, platVars, Calm!rowVars, rowVars
<1>6. ASSUME NEW o \in Orders, Calm!parseClinchADealNotify(o) PROVE parseClinchADealNotify(o)
  <2>1. /\ \A a : Calm!GetHero(a) <=> GetHero(a)
        /\ \A p, t : Calm!payable(p, t) <=> payable(p, t)
        /\ \A a : Calm!waiting(a) <=> waiting(a)
        /\ \A k, b, p, r : Calm!task(k, b, p, r) = task(k, b, p, r)
    BY DEF Calm!GetHero, GetHero, Calm!InMemory, InMemory, Calm!payable, payable,
           Calm!waiting, waiting, Calm!task, task
  <2> QED
    BY <1>4, <1>6, <2>1 DEF Calm!parseClinchADealNotify, parseClinchADealNotify,
                            Calm!httpVars, httpVars, Calm!rowVars, rowVars
<1>7. Calm!dbSave => dbSave
  BY DEF Calm!dbSave, dbSave, Calm!memVars, memVars, Calm!platVars, platVars, Calm!httpVars, httpVars
<1>8. Calm!dbLoss => dbLoss
  BY DEF Calm!dbLoss, dbLoss, Calm!platVars, platVars, Calm!httpVars, httpVars,
         Calm!rowVars, rowVars, Calm!NoGold, NoGold, Calm!NoDeals, NoDeals
<1>9. Calm!crash => crash
  BY DEF Calm!crash, crash, Calm!platVars, platVars, Calm!rowVars, rowVars,
         Calm!NoGold, NoGold, Calm!NoDeals, NoDeals
<1> QED
  BY <1>1, <1>2, <1>3, <1>5, <1>6, <1>7, <1>8, <1>9 DEF Calm!Next, Next

\* The same of the specification that is model-checked, with patient clients or without:
\* in an environment that keeps its word its behaviours implement Payment.
THEOREM SellingKept ==
  ASSUME FinishOnce, SavesFirst, SavedAtDestroy, ~Crash
  PROVE  MCSpec => KeepsPayment
<1> DEFINE kept == env # "any"
<1>1. MCInit => Init
  BY DEF MCInit
<1>2. kept /\ [MCNext]_<<vars, env>> => kept' /\ [Next]_vars
  BY CalmIsNext DEF MCNext
<1>3. ~kept /\ [MCNext]_<<vars, env>> => ~kept'
  BY DEF MCNext
<1>4. Init => P!Init
  BY DEF Init, P!Init, credits, NoGold
<1>5. ~kept /\ ~kept' => [P!Next]_<<IF env = "any" THEN {} ELSE finished,
                                    IF env = "any" THEN NoGold ELSE credits>>
  BY DEF NoGold
<1>6. kept /\ kept' /\ [Pay!Next]_<<finished, credits>>
        => [P!Next]_<<IF env = "any" THEN {} ELSE finished,
                      IF env = "any" THEN NoGold ELSE credits>>
  <2>1. ASSUME kept, kept', NEW o \in Orders, Pay!Finish(o) PROVE P!Finish(o)
    BY <2>1 DEF Pay!Finish, P!Finish
  <2>2. ASSUME kept, kept', NEW o \in Orders, Pay!Sell(o) PROVE P!Sell(o)
    BY <2>2 DEF Pay!Sell, P!Sell
  <2>3. ASSUME kept, kept', NEW S \in SUBSET Orders, Pay!Credit(S) PROVE P!Credit(S)
    BY <2>3 DEF Pay!Credit, P!Credit
  <2> QED
    BY <2>1, <2>2, <2>3 DEF Pay!Next, P!Next
<1> HIDE DEF kept
<1> QED
  BY <1>1, <1>2, <1>3, <1>4, <1>5, <1>6, PaymentKept, PTL
  DEF MCSpec, Spec, KeepsPayment, Pay!Spec, P!Spec
=============================================================================
