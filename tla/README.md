# DreamHeroes servers: TLA+ models, checks and proofs

DreamHeroes is the server side of a mobile game. Four processes talk over TCP:
clients log in at the **login server**, are handed to a **gate server** that
relays their messages, and play on a **game server** that loads and saves its
players through the **database server**. This directory models how a player
travels through the four, what it earns and pays on the way, and what the servers
are built on: the tables, raw pointers, timers, threads and queues that have to
stay consistent while connections break, timers fire late, an account logs in
again and processes stop.

Paths below are relative to `src/`.

## 1. Inventory

| Component | State | Operations | Talks to |
|---|---|---|---|
| login server: client connections (`login/user_session.cpp`) | pooled `UserLoginSession`, `m_state` | accept, close, login, register, platform verification | database thread, HTTP thread, gate managers |
| login server: accounts (`login/account_manager.cpp`) | `m_Accts`: account -> (transaction id, gate) | `checkAccount`, `checkAccountCall`, `CreateNewAccount`, `makeTransId` | `GateManager` |
| login server: gates (`login/gate_manager.cpp`, `gate_session.cpp`) | `m_Gates`, `m_WaitSessions`, pooled `GateSession` | register, kick, give a user to a gate, prepared, close | gate servers, over TCP |
| gate server: players (`gateserver/user_manager.cpp`) | `m_onlines`, `m_onlineaccs`, `m_wait_map`, `m_recon_map`, timers | announce, kick, `checkConn`, `checkClose`, expiry, loss of a game server | login server, game servers |
| gate server: connections (`gateserver/user_session.cpp`) | pooled `UserSession`, state, id, game server, two timers | accept, LoginGame, ping, close | `UserManager` |
| gate server: game servers (`gateserver/game_manager.cpp`, `game_client.cpp`) | `m_activeGames` | register, close, choose, hand over | game servers |
| game server: gates and Sessions (`gameserver/gate_manager.cpp`, `gate_session.cpp`, `session.cpp`) | `m_Gates`, `m_Onlines`, `Session` | add, remove, offline, message, gate loss | heroes, database client |
| game server: heroes in memory (`gameserver/DreamHeroManager.cpp`, `DreamHero.cpp`) | `_heroes`, `_session`, save and destroy timers | create, attach, save, destroy | database server |
| database server (`databaseserver/db_quest.cpp`) | one queue per task type, the rows | query, save | MySQL |
| hero economy (`gameserver/DreamHero.cpp`, `GameConfig.cpp`) | gold, jewels, spirit, stages, chapters, tasks, heroes, lotions, lottery | about thirty requests and commands, the daily refresh, save and load | clients, calendar |
| deals (`gameserver/GSHttpManager.cpp`, `platform_client.cpp`, `DreamHero.cpp`) | orders and their status in memory and in rows | create, verify, notice, credit, offline row, load | platform over HTTP and TCP |
| daily game (`gameserver/RankManager.cpp`, `DreamHeroManager.cpp`) | sorted ranking, map of ranks, prizes | play, reset, refresh, prize, save, load | heroes, rows, calendar |
| sales promotions (`gameserver/ShopSalesPromotionManager.cpp`) | states, timers, reductions, rates, open grids | init, `DayPass`, timers, begin, end | timers, calendar |
| shutdown (`gameserver/server.cpp`, `databaseserver/server.cpp`) | stop states, saves under way | signal, save all, answer, stop | database threads |
| database threads (`common/database.cpp`) | one queue per thread, `_task`, results | add, take, execute, retry, callback, stop | MySQL |
| network (`common/tcpsession.cpp`, `tcpserver.cpp`, `tcpclient.cpp`) | pool of sessions, outstanding reads and writes, queued calls and messages | accept, read, write, close, connect, reconnect | all servers |
| timers (`common/event_table_object.cpp`) | list and maps of events with reference counts | add, remove, modify, update, delete the object | all servers |

How they interact. Every server handles messages, timers and callbacks on one
main thread (`runOnce`), so a handler is atomic; what interleaves are the
connections, the timers, the database and HTTP threads and the processes. A
login travels: client -> login server -> (database thread) -> kick to the old
gate server, announcement to the new one -> `Prepar` back -> client opens a
gate connection and names the transaction id -> `addNewPlayer` to a game server
-> query to the database -> hero.

What is hard, and what makes each part correct:

* *Transaction ids join four processes.* A gate server must not let two clients
  in on one announcement, must not keep ids nobody will remove, and must tell
  the game server of everyone who leaves. (`GateUsers`, `GateGame`)
* *Raw pointers between objects released by different events*: heroes and
  Sessions, `m_onlines` and pooled sessions, `m_Gates` and pooled connections.
  (`HeroSessions`, `GateUsers`, `LoginServer`)
* *Timers that nobody cancels*: wait and reconnect timers of the gate server,
  the destroy clock of a hero. (`GateUsers`, `HeroSessions`)
* *Saves and queries in different threads, connections that lose messages.*
  (`HeroSessions`)
* *The order of kicks and announcements across gate servers, and the rebuilding
  of the accounts after a restart.* (`LoginServer`, `LoginOrder`)
* *A payment that the platform has closed meets a player who is there, leaving,
  away or loading*, on three ways that each credit it. (`Deals`, `Payment`)
* *Limits and prizes per day* against a refresh that is driven by a minute timer,
  heroes that are away and rows that are days old. (`HeroEconomy`, `DailyGame`,
  `Promotions`)
* *Two processes that stop together* while statements are queued, fail and are
  repeated. (`ServerStop`)
* *Objects shared by threads and callbacks*: pooled sessions whose handlers outlive
  their connection, a client that reuses its socket, timers that callbacks add and
  delete while the list is gone through. (`TcpPool`, `TcpClient`, `Timers`)

`PROJECT.json` lists every component, and every hazard at the line where it
bites with the properties that cover it.

## 2. Modules

| Module | Models | Abstract specification |
|---|---|---|
| `GateUsers` | `UserManager`, `UserSession`, active game servers of a gate server | |
| `HeroSessions` | Sessions, heroes, timers, database queues of a game server | |
| `LoginServer` | login server with its gate servers | implements `LoginOrder` |
| `GateGame` | `GateUsers` composed with the Session tables of game servers, over connections that break; its login server is `LoginOrder` | implements `Presence` |
| `Deals` | orders of a player: creation, verification, notice, credit, save and load | implements `Payment` |
| `HeroEconomy` | one hero's requests, days and rows | |
| `DailyGame` | the daily game, its ranking and prizes | |
| `Promotions` | the sales promotions | |
| `ServerStop` | stop of game and database servers, database threads | |
| `TcpPool` | session pool, I/O threads and main thread of a `tcp_server` | |
| `TcpClient` | a `tcp_client`: connections that break and come back | |
| `Timers` | `EventableObject`, `EventableObjectHolder` | |
| `Payment` | what a buyer relies on: one credit per closed order, for good | |
| `LoginOrder` | what the login server promises to a gate server | |
| `Presence` | what gate servers promise to a game server | |
| `MC...` | instances for TLC | |
| `HeroSessionsProofs`, `LoginServerProofs`, `HeroEconomyProofs`, `DealsProofs`, `ServerStopProofs` | proofs about the module of that name and its refinement | |
| `GateProofs` | proofs about `GateUsers` and `GateGame` | |
| `CommonProofs` | proofs about `TcpPool` and `Timers` | |
| `CalendarProofs` | proofs about `DailyGame` and `Promotions` | |

The specifications form a chain. `LoginServer` shows that every gate server sees
an account's old login kicked before a new one (`KeepsOrder`). `GateGame` takes
only that (`L!Announce`, `L!Kick`) as its environment and shows that a game server
never has two Sessions of one account (`KeepsPromise`), except next to what a
connection has left that was replaced in `m_Gates`. `HeroSessions` takes that
as `Serial = TRUE` and shows that heroes are neither freed under a player nor
forgotten: so it stands for a game server whose gate servers come back only after
their last connection is closed at both ends. What the exception leaves open is a
weakness of the code (section 3).

### MC modules: environments in one run

Most properties hold only in some environment: a database that keeps the order of
saves and queries, connections that hold, a platform that closes an order once.
An MC module therefore instantiates its component several times with different
constants and chooses between them once, at the start, by a variable that never
changes (`part` in `MCGateLive`, `MCCalendar` and
`MCCommon`, `orderly` in `MCHeroSessions`, `around` in `MCLogin`, `env` in `MCDeals`
and `MCServerStop`, `game` in `MCHeroEconomy`). A property names the environments
it holds in; what it does not restrict holds in all of them. `MCCalendar`,
`MCCommon` and `MCGateLive` hold two components each that share no state: a
behaviour moves one of them and leaves the other in its initial state.

One environment has the constants of the configuration, the others are instances
that change some of them. (`MCCalendar` extends `DailyGame`, whose environments are
next-state relations, see section 3; what bounds an environment there is `limits`.) In
`MCHeroSessions` it is the orderly one, in `MCLogin`
connections that hold, with ids that may repeat (of which `"fresh"` leaves out those that
do), in `MCDeals` a hero that is saved before `Destroy`
(`kept`), in `MCCalendar` the daily game in all its environments and promotions on time, in
`MCCommon` the timers and the pool with any order of threads. These are the
environments in which the properties hold that name one, so the proof modules of
these five extend the MC module and end with theorems about the run's own
specification, for all values of the constants.

### Conventions

An action has the name of the handler it models; variables have the names of
the members. A map of the code is a total function with the code's `INVALID_...`
or `NULL` at absent keys. Definitions named `..._bug` are variants with a
plausible mistake; no action uses them, each shows that a property rules the
mistake out (`PROJECT.json`, "mutants").

### GateUsers

| Action | Code |
|---|---|
| `parseLoginUser`, `parseLoginKick` | `UserManager::addToWait`, `kickUser` on messages of the login server |
| `on_accept`, `parseLoginGame`, `parsePingMsg`, `on_close` | `UserSession`, with `UserManager::checkConn` and `checkClose` |
| `eventCallRemoveWait`, `eventCallRemoveReconn` | timers per transaction id; a count, because a new timer does not cancel the old one |
| `setClose`, `noPing` | timers of a connection |
| `parseGameRegister`, `gameClientClose`, `parseChangeGS` | game servers come, go, and hand players over |

`sent` holds the messages of the last step; they matter for `LeaveIsTold` and are
what `GateGame` puts on the wire. `closing` says that `close()` was called and
`on_close` will follow from the socket.

`obj_map::eraseValue` and `UserManager::removeUsers` have a branch for Windows,
which erases all matching entries, and one for other systems, which advances an
iterator that was just erased (undefined behaviour). The Windows branch is
modelled. `UserSession::parseExitGame` is not registered as a handler and
therefore has no action.

### HeroSessions

A hero's data is a number that grows with each request that changes it; that is
what "newer" means in `NotBehindRow`. `_dream_hero[t]` becomes `"freed"` when the
hero a Session points at is deleted. `attach` is `set_session`,
`StopDestroyClock` and `SendClientInit`; `release` is the destructor of
`Session`. `queryQ` and `saveQ` are the queues of two database threads
(`_QUERY_HERO_INFO_`, `_SAVE_HERO_INFO_`), so a query may overtake a save.

### LoginServer

`tasks` is the one database thread's queue (all login tasks are
`_NORMAL_THREAD`), `httpTasks` the platform's. `m_Accts[a]` is a set with at most
one account. Each gate server is modelled as far as it answers: the ids it waits
for and the accounts it will list when it registers again. `UserLoginSession`'s
`_platform_user_id` is never assigned, so the platform check only adds a message,
and `setClose` is empty, so the session's timers do nothing. Which gate server
`getIdleGate` picks depends on load figures; any registered one may be picked.

`makeTransId` returns, where `Reissue` holds, any id of the account, one that was
handed out before included: the checksum is over the request and the time in seconds.
`m_WaitSessions.addData` then keeps the session that has the id already, and the
other one is answered by nobody; the gate server, for which the id may be online,
kicks that player first (`addToWait`). `MCLogin` has three surroundings: `"fresh"` and
`"repeated"`, in which connections hold and every login has an id of its own or not,
and `"lossy"`, in which connections break and the process may die. `told` remembers
what each gate server was told of and not told to kick; `LoginOrder` is about it.

### GateGame

`link` is the game server's end of the connection that is in `m_Gates`, `active` the gate
server's; they change separately. Messages sent on a connection the other end has closed
are lost. A gate server that has noticed the end of its connection comes back when it
likes (`addGate`). If the game server has not noticed, the old connection is overwritten
in `m_Gates` and stays open (`replaced`), what is under way on it still arrives (`late`,
`receiveLate`), and its close drops no Session (`removeReplaced`). The ids with a Session
at that moment, and those that the old connection will still add, are `strays` until the
game server drops this gate server's Sessions with none of its old connections open; what
becomes of them is what the code does, and neither property of the run speaks of them.
The game server's table is kept to which Sessions exist. A step of the gate
server sends at most two messages to a game server. `changeGS` is `parseChangeGS` asked
for by a game server that has the player (nothing in the repository sends the message).

### HeroEconomy

Stages, chapters, tasks, shop, lottery and spirit of one hero, with the prices and
limits of the configuration as constants, and time in hours. `isInToday` is
translated as it stands: the day begins at the refresh hour of the current calendar
day. `set_info` is the load with its recovery for the time away. `MCHeroEconomy`
splits the requests into four games: quests (stages, chapters, tasks), shop, master
(the commands of game masters) and days (lottery, spirit, refresh). Two fields of the
hero are not in the code: `entered` remembers the stage that was entered and not left,
`unchecked` that an operation has taken something without a look at the balance. Four do:
a game master's commands on jewels and on spirit, `RefreshTask`, which takes its price also
from a player who asked for a free task, and `ReqExitGame`, which adds the loot that the
client reports with its sign. `NoDebt` speaks of heroes that have met none of these.
Balances are kept within `MaxGold` on both sides; that they could leave the 32 bits of the
code is not modelled.

### Deals

An order lives in up to four places: the platform (`finished`), the HTTP queues, the
hero's map and the row of `deal_wait_to_pay`. `gold[a][o]` counts what the account got
for order `o`. `addDealPay` is the credit with the hero in memory,
`OfflineHeroDealWaitToPay` the row for a hero that is away, `set_info` the credit at
the load. `parseClinchADealNotify` is the platform's own notice, which takes the first
two ways without a verification. `SaveHero` sends the hero's statement and those of
its orders separately, and a load takes two queries.

### DailyGame and Promotions

`updateHeroDailyRank` inserts, sorts only above `_min_daily_score` and renumbers; the
ranking is kept as the code keeps it, a list and a map of ranks. The prize of a day
comes on three ways: from the refresh to heroes in memory, by a statement on rows, and
at the next load. `orders` is any list of the entries with the scores in descending
order, so that equal scores come in any order. A ranking may get longer than
`_daily_max_rank_size` by an entry, and longer than the statement that saves it (`Batch`):
`saved` is what a restart reads back.

In `Promotions` a timer's delay is taken modulo `TimerRange`, as the code passes
milliseconds in 32 bits. `apply`, `excute` and `DayPass` call each other, and each
`excute(bool)` adds or subtracts on its own. They are therefore operators from a promotion
between two of its calls to the same promotion after the call: `[type, timer, count, last]`,
where `count` sums up what was added and subtracted so far. `passShow`, `passBegin` and
`passEnd` are the three parts of `DayPass`, each of which asks for the state that the calls
of the part before it have left. `become` gives the counters of the manager what the calls
of all promotions of the step have summed up; a grid is left as the last promotion of the
list has set it. A promotion that began twice, or ended without a begin, shows in the sums.

### ServerStop

The game server's `setStop`/`checkStop` against `saveToClose` of the database server
and `Database::checkStop` of its threads. `checkStop` closes the connection as soon as it
has sent the last saves, and `close()` drops what is queued: any part at the end of what is
under way is lost, and `cut` remembers the game servers that lost a save by it. A hero
query is answered at once if it fails or finds no row, and otherwise followed by the query
for its orders (`callback`). A thread takes a task (`getTask`), assigns
it to `_task`, executes it, and meets three kinds of errors: a lost connection
(executed again), a refused statement and one that cannot be repeated.

### TcpPool, TcpClient and Timers

`TcpPool` has the three kinds of threads of `tcp_server`: main, acceptor, I/O. Nothing
cancels what is outstanding when a session is reset, and a handler can only look at
`m_isvalid`. `TcpClient` is the same `tcp_session` code without a pool: one object and
one socket for all connections. Its handlers are atomic, `_on_close` included (it sets
`m_isconnected` an instant before it adds the callback). `Timers` goes through the list
event by event, with the callbacks' additions, removals, changes and deletions between
any two.

## 3. What is assumed of the environment

These are constants, so that each run and theorem says which it needs.

| Constant | Meaning | Why |
|---|---|---|
| `Reissue` | the login server may hand out an id again | `makeTransId` is a CRC over the request and the time in seconds: two logins of one second may share an id |
| `LateLogin` | a client may send LoginGame again on a refused connection | the repository's client sends it once (`virtualclient/client.cpp:141`) |
| `Serial` | an account's old Session is removed before the new one is added | `KeepsPromise` of `GateGame`, where no connection of a gate server was replaced while it was open |
| `Reuse` | an id may be added again after it was removed | as `Reissue` |
| `SavesFirst` | no query overtakes a save of the same account | not guaranteed by the code; `NotBehindRow` needs it |
| `DbLoss`, `DbFails` | the database connection breaks, a query fails | |
| `FinishOnce` | the platform closes an order once | the code keeps no record of closed orders |
| `Patient`, `AnswerLoss` | clients wait for an answer; answers may be lost | a lost answer is not asked for again |
| `SavedAtDestroy` | a hero is saved between its last change and `Destroy` | not guaranteed: `Destroy` comes after 3 s, the save every 10 s |
| `Crash` | the game server may crash | |
| `Gm` | game masters' commands are used | |
| `Late`, `TimerRange` | a midnight may be missed; range of a timer | `eventPerMin`, `u32` milliseconds |
| `Prompt`, `BadSaves`, `AtomicTake`, `Loss` | see `ServerStop` | the 15 s of `onSaveToClose`, refused statements, `isDone` |
| `IoPrompt`, `WritesDone`, `BadPackets` | see `TcpPool` | no handler is cancelled |
| `Told` | the application of a `tcp_client` sends only between `on_connect` and `on_close` | so do the gate server's clients of game servers |
| `LinkLoss` | connections to gate servers break and the login server restarts | |

`DailyGame` says the same by its next-state relations. `Next` has everything: commands of
game masters, crashes, missed refreshes, heroes destroyed unsaved. `NormalNext` has neither
the commands nor crashes, and a hero is saved before `Destroy` (`savedFirst`, as
`SavedAtDestroy`). `NormalNext /\ quiet` has, besides, no missed refresh (the minute timer
may miss its minute) and no load while the day is refreshed.

Without its assumption a property is false, and the hazard in `PROJECT.json` says
so: for instance, with `LinkLoss` a kick that is lost is never repeated, so
`KeepsOrder` fails; with `DbFails` a failed query is answered like a missing row
and a new hero is made.

Three properties name an exception instead, because no constant tells it apart, and what
they leave out is what the code does:

* `NoOrphan` and `KeepsPromise`: a gate server that returns before the game server has
  noticed the end of its last connection leaves that connection's Sessions behind
  (`gameserver/gate_manager.cpp:28` overwrites the pointer, line 60 then finds another).
  They stay until this gate server's current connection closes, and a new login of such a
  player is added next to the old Session.
* `LoginAnswered`: of two clients that were given one id, the second waits for ever
  (`login/gate_manager.cpp:79`); nothing times out.
* `SavedAtStop` (in `HeroesSaved`): the last save of a game server may be cut off by the
  close that follows it (`gameserver/server.cpp:135`).

## 4. Runs

| Run | Instance | Distinct states | Checks |
|---|---|---|---|
| `gate_strict` | 2 ids of 1 account, 2 connections, 2 game servers, 2 timers per id | 1.75 M | `EntriesExpire` `OnlinesOwn` `Routable` `LeaveIsTold` |
| `gate_live` | 1 id, 2 connections, 2 timers per id, clients that do or do not repeat LoginGame; a `tcp_client` with 2 breaks and 2 messages | 81 k | `WaitNotOnline` `GhostsUnregistered` `RefusedIsClosed` `ClientReturns` |
| `gate_game` | 2 logins of 1 account, 2 connections, 1 timer per id, 1 game server, 2 messages under way, 1 replaced connection with 1 more | 0.6 M | `NoOrphan` `KeepsPromise` |
| `hero` | 2 serial logins of 1 account, queues of 2, loss; with and without reuse, failures and overtaking | 0.3 M | `TypeOK` `SessionAlive` `HeldHeroSafe` `NotBehindRow` `HeroArrives` `DetachedGoes` |
| `login` | 1 account, 2 connections; 2 gate servers and 2 ids on connections that hold, 1 and 1 that is handed out again to 2 clients, or 1 and 1 with loss and restarts | 0.38 M | `GatesAlive` `KeepsOrder` `LoginAnswered` |
| `login_assert` | 2 gate servers, 3 connections, loss | - | `AssertHolds`, **violated** |
| `deals` | 1 account, 2 orders (1 where anything may be lost), three environments | 0.24 M | `NoUnpaidCredit` `KeepsPayment` `Settled` |
| `econ` | 1 hero, 2 tasks, 2 heroes and 2 lotions of the shop, two days of two hours, loot of either sign | 0.66 M | `ChaptersEarned` `StageEntered` `DayLottery` `NoDebt` |
| `econ_early` | the days of `econ` with a refresh hour after midnight | - | `DayLottery`, **violated** |
| `calendar` | 3 players on a day (a ranking and a statement of 2), 2 over a refresh, 1 over three days or with faults; pairs of promotions over 8 ticks | 0.89 M | `RanksAgree` `PrizeOnce` `InPeriod` `Effects` |
| `stop` | 1 or 2 game servers, 1 MySQL error, 1 message of its own; four environments | 0.34 M | `NoTaskLeft` `HeroesSaved` `RowsForward` `BothStop` |
| `common` | 2 sessions, 3 connections, 1 message each way; 2 objects with 2 timers or 1 with 3 | 2.9 M | `UsedOnce` `OneConnection` `RefsExact` `CalledWhenDue` |

Bounds. Two connections are what a takeover or a recycled pointer needs, two ids
of one account a second login. `MaxTimers` bounds the timers pending for an id: 2 lets
a leftover timer meet the timer of a later close; a further close waits. (`gate_game` has 1:
what timers do to each other is `gate_strict`'s. There `Spare`, `MaxLate` and `limits` let
a connection be replaced once at a time, with one message under way on it and one on the
connection that replaced it.) `MaxQueue`,
`MaxTasks`, `MaxChan` let one message overtake or follow another; `MaxProgress` gives a
hero an old, a saved and an unsaved state. Two days show a limit reset, three days a
prize that is still to be collected when the next one is due. Three players fill a ranking
of two and let one more in, and a statement of two cuts the third off. Two promotions overlap,
follow each other and share a grid. Three connections on two sessions force a reuse
while another session is in use; two breaks let a `tcp_client` lose the connection it
came back with. Deadlock is checked in every run but `stop`, in which both servers end.

Symmetry. Pooled objects (connections) are interchangeable and no action chooses
between them; the safety runs with several of them are checked up to
permutation. In `gate_game` the two ids are interchangeable too: they have one owner, and
nothing else tells them apart. The liveness runs use no symmetry.

`gate_game` uses a `VIEW` without `closeTimer`, `pingTimer`, `closing` and
`sent`. This is sound: no property of the run mentions them, and in `GateGame`
they do not decide what the rest of the state may do. A client may close at any
moment, so `on_close` is enabled for every open connection whether or not
`closing` is set; the two timers only set `closing`; and `sent` is overwritten by
each step of the gate server and copied to `chan` in that step.
`calendar` leaves the ranking's two tables out of its `VIEW` in the environments
without a crash: nothing reads them there, a restart writes them first.

### Fairness

Each liveness property assumes only what the main loops and threads do by
themselves: pending timers fire and a socket that was closed reports it
(`GateUsers`), the database threads take tasks, the connection to the database
delivers, the destroy clock fires (`HeroSessions`), the database answers and
sockets deliver (`LoginServer`), the HTTP thread, the main thread and the save thread
run (`Deals`), both servers' loops and the threads run (`ServerStop`). Clients,
players, gate servers and game servers need not do anything. All of this is weak
fairness: an event that is due stays due. `noPing` is not assumed, since a client
that pings restarts it. `TcpClient` adds strong fairness of two steps: an attempt to
connect is made when its time has come, though the loop passes that point many times
before, and the server behind can be reached again and again, though attempts fail.

### The findings

`GateSession::parseGateRegister` of the login server asserts
`p->nGateId == m_GateInfo.gate_id` for every account a registering gate server
lists (`login/gate_session.cpp:96`), and on the next line handles the case that
it is different. `CMakeLists.txt` builds with `-DDEBUG` and without `NDEBUG`. The
run `login_assert` finds: an account is at gate server 1, whose connection to
the login server breaks; the player logs in again, the kick is skipped because
gate server 1 is away, and the account goes to gate server 2; gate server 1
reconnects and lists the account; the assert ends the login server.

`GameConfig::isInToday` takes the refresh hour of the current calendar day as the
beginning of today (`gameserver/GameConfig.cpp:281`). Between midnight and that hour
today lies in the future, and a moment just passed is not in it. `ReqDayLottery` asks
it whether the player has drawn today and otherwise answers
`Error_FailedToLotteryTodayHaveBeenLotteried`. The run `econ_early` finds a player who
draws twice within one day. Where the day is refreshed at midnight there are no such
hours, and the lottery is drawn once a day (`econ`).

## 5. Proofs

Every theorem holds for any number of ids, accounts, connections, servers, sessions
and orders, any configuration and any bound, from the named assumptions on the
constants (`OwnerAssumption`, `NullAssumption`, `BoundAssumption`, `EconomyConstants`,
`DealsConstants`, `TcpPoolConstants`, `TimersConstants`, `PromotionConstants`,
`ServerStopConstants`). These only give the constants their types, keep the null values
apart and make the pool, the set of orders and the lengths of an update finite; what a
theorem needs of the environment (section 3) is a hypothesis of the theorem.

**GateProofs, the gate server.** `TypeCorrect` first. `WaitNotOnline`, `EntriesExpire` and
`ReconActive` are proved together as `MapInv` (`MapsConsistent`): an account entry
can be shown to have a timer or a session only if it is known that the account
is registered under an id of its own (`AccountsOwn`), because `kickUser` and
`eventCallRemoveReconn` erase *by id* what `checkConn` entered *by account*.
`EverySessionWatched` is inductive with the types alone: each state has the timer
that `setState` starts for it. `OnlinesNeverStale` assumes `~LateLogin`: the
session registered under an id carries that id, so erasing by the session's id
(`checkClose`) cannot leave another entry behind. `PlayersRoutable` and `EveryLeaveTold`
assume `~Reissue` and `~LateLogin`. `Routable` looks at sessions, `OnlinesOwn` at ids;
what joins them is `IdOwned`: an id is carried by at most one session, and by none while
it may still enter, by its wait entry or its reconnect entry and never by both.

**GateProofs, the two servers.** `SysImplementsGate`: a step of `GateGame` is a step of
`GateUsers` or leaves the gate server alone, so all of the above holds with the connections
added. `NoSessionOrphaned` and `PromiseKept` (the refinement of `Presence`) assume
`~Reissue` and `~LateLogin`. A game server knows what it has read, the gate server decides
by its own maps and by `active`, and the two ends of a connection close at different
moments. The invariant `MsgInv` therefore speaks of what a game server will know once it has
read what is under way (`Gone`): whoever will then still have a Session is online there or
waiting to reconnect (`Known`), each message on the way finds it ready, an id being added
only when no id of its account has a Session (`InOrder`), and a connection that is not used
by both ends carries nothing (`Links`). Why an add cannot meet an older login of the account
is `LoginInv`: of two logins one was kicked (`OneLogin`), and one that was kicked cannot
enter any more, although a connection that still carries its id may leave a reconnect entry
behind (`KickedGone`, `Carried`). All this is said of the Sessions that are no strays
(`Own`); what is under way on a connection that was replaced adds strays only, which is
why the moment of the replacement has to count the ids of the adds under way among them.

**HeroSessionsProofs.** `TypeInvariant` strengthens the types with `HeldInMemory`
(a Session that holds a hero exists, and the hero is in memory): without it a
pending destroy event could belong to no hero. `SessionAlwaysAlive` holds in
every order of logins, timers and answers: each step that ends a Session clears
its hero's pointer. `SessionsAlwaysHaveGate` follows from the types: the step
that drops a gate server releases its Sessions, and a connection that was
replaced in `m_Gates` drops nothing when it closes. `SerialInvariant` assumes `Serial`:
with at most one Session per account (`OneLogin`), a hero's clock runs exactly while no
Session holds it; `HeroesSafe` follows. `StepKinds` sorts the actions once into those that
change heroes and those that do not. `MemoryNeverBehind` assumes `Serial`, `~Reuse`,
`SavesFirst` and `~DbFails`, and lets the connection to the database break. Its invariant
`LoadInv` follows a load through the queues: a Session that waits for its hero waits for
one that is not in memory (`WaitedForAway`), only ids that were added are asked for and
answered, so that a new Session meets no earlier answer (`AskedOnce`), and an answer that a
Session waits for carries the row as it is now, with no save under way (`AnswerFresh`).
`OrderlyNotBehind` carries it to the specification of the run `hero`.

**LoginServerProofs.** `LoginTypes`, then `GatesAlwaysAlive`: the table of gate
servers never leads to a pooled connection or to another gate server's. The
strengthening is `RegisterFirst`: only the first message of a connection is a
registration, and until it is read the table does not know the connection.
Without it, registering twice on one connection under two ids would leave the
first entry with a wrong id, and closing would remove only one of them.

**LoginServerProofs, the order.** On connections that hold (`~LinkLoss`), whether or not
`makeTransId` repeats an id. `OrderKept` is the refinement of `LoginOrder`. `LoginOrder` sees what a gate server has *read*, the login server decides by
what it has *sent*; the invariant `OrderInv` closes the gap. `AllOrdered` says of each gate
server and the messages under way to it that they keep the order when they are read one
after the other, and that an id of an account that the gate server will have been told of
and not told to kick is the one in `m_Accts`. The rest makes the messages under way well
defined: one connection per gate server (`OneLink`), nobody listed at a registration
(`NobodyListed`), accounts only at gate servers that have registered (`AtAGate`), and
nothing sent before (`NobodyYet`). An id that is handed out again was kicked before it is announced
again, as any other id of the account. With `LinkLoss` the theorem is false. `CalmOrderKept`
is the refinement of the run's specification, where connections hold.

**HeroEconomyProofs.** A hero in memory and its row are the same data at two times, so
`EconomyInv` is one predicate `HeroInv` of both. Each operation is shown to keep it as a
function from a hero to a hero, then each action. `ChaptersAlwaysEarned`,
`StagesAlwaysEntered` and `NeverInDebt` are its parts, for every table of prices, gifts,
chapters and tasks and any loot, negative or not. `OneDrawADay` assumes that the day is refreshed at midnight
(`day_Refresh_time_ = 0`; otherwise it is false, `econ_early`); it needs of the invariant
that the last draw is not in the future, which a row that is loaded days later keeps.

**DealsProofs.** `NeverUnpaidCredit` has no hypotheses: it holds with repeated notices,
lost answers, crashes and saves that are overtaken. `DealsInv` says of each place an order
passes through that what is there is backed by the platform: the gold and the map of the
hero (`HeroBacked`), the HTTP tasks (`TasksBacked`), the statements under way
(`SavesBacked`) and the rows (`RowsBacked`). Each place is a set that depends on which
orders the platform has closed and for whom; those only grow, so what was backed stays so
(`Grows`), and an action only has to be shown to move something from one backed place to
another.

`PaymentKept` is the refinement of `Payment`: an order is credited at most once, and its
credit is never taken back, over logout, `Destroy` and reload. It assumes `FinishOnce`,
`SavesFirst`, `SavedAtDestroy` and `~Crash`; the hazards of `PROJECT.json` say what happens
without each. `DealsInv` is not enough: it must be known of a paid order where it is *not*.
`PayInv` says that it is at one stage of its way at a time: a result `paid` under way
(`OneAnswer`), a row or a statement that owes it, or gold of the hero or in a statement that
will save it. `InTurn` is about the queue of the save thread, in which the statements of a
hero and of its orders are separate: the gold for an order follows the statement that owed
it, and the next statement about that order closes it. `Marked` and `Unspent` say the same
of the hero in memory and its row, `Loading` of a load, which takes two queries. What an
account has got (`Payment`'s state) is the gold in memory, or, while the hero is away, the
gold of the last statement under way, or of its row; the lemmas `LastOf...` follow that one
through the queue. `SellingKept` is the same of the specification of the run `deals`, with
clients that wait for answers and clients that do not.

**CommonProofs, the pool.** `SessionsUsedOnce` is a count: the pool, the asynchronous accepts and
the connection of a session add up to one. It has no hypotheses: no order of I/O threads,
double closes, bad packets or bans gives a session to two connections or loses it. The
count is not inductive by itself: a second accept posted to the main thread would not show
in it, so `OneAccept` excludes that one. The lemmas count the places of an element in a
queue: after `Append` (`CountAppend`), before a split (`CountSplit`), and in the initial
pool (`CountAll`).

**CommonProofs, the timers.** `ReferencesCounted` and `CallsOnlyAlive` have no hypotheses:
an event is freed exactly when no list and no running callback holds it, and a callback runs
only for a live event of a live object, whatever callbacks do to the list that is gone
through. Of `TimersInv`, `Held` says which of the list, the map and the callback holds an
event, and `Iterators` where the two iterators of the update may point. `EveryTimerWhenDue`
(and `NoTimerLate`) need two more parts: `Clocks` compares the time an event has left with
the moment it asked for, which differ by the length of the update as long as the update has
still to come to it; and `Ahead` says that every period lies ahead. It assumes that no timer
has period zero (`0 \notin Times`), which would be due when it is added.

**CalendarProofs.** The daily game is proved in four layers. `RankInv`: list and saved table
have an account once, in every environment (`AccountsListedOnce`, over `Next`), since
`updateHeroDailyRank` looks for the account before it adds it, sorting and renumbering keep
the accounts, and `removeHero`'s wrong ranks do not touch them. `AgreeInv`: every entry is of
today's game, the ranks are 1, 2, ... and `_heroes_rank` says the same (`MapTellsTheRank`, over
`NormalNext /\ quiet`). One statement saves `Batch` entries, the next one lacks its head and
fails: a restart reads back the first part of a long ranking. That the ranks of this part are
1, 2, ... again is `InPlace`: an entry behind the first `Batch` has the rank of its place,
since what is out of place (equal scores that a restart has read in another order) was read
back and comes first.
`PrizeInv`: of the data of each hero (`Sound`), no prize of the game in progress or a later
one is claimed, and a prize that waits, or that a reload would pay, is of an earlier game, not
claimed, and not two prizes of one game; and whoever is listed has the current game in the
copy that counts, the memory or the row (`data`). This makes `OnePrizeForAGame` inductive,
over `NormalNext` and so with missed refreshes too. `PaidInv`: a game that a reload would pay
ended without this account in its ranking (`unpaid`), which makes the prize of rank 1 that a
reload pays harmless (`PrizeFitsTheRank`, over `NormalNext /\ quiet`). `RanksAgreeInParts`
and `PrizeOnceInParts` are the run's `RanksAgree` and `PrizeOnce`. No hypothesis bounds
players, scores or days; that an order of the list is by score is used nowhere.

Of the promotions, `PromotionsInPeriod` assumes that no midnight is missed (`~Late`) and that
the times of the table fit in the 32 bits of a timer (`TimesFit`). `PromoInv` joins three
things that the code keeps apart: the state of a promotion, the timer that will change it,
and the tick at which the day decided on it (`Timed`, `Placed`). `TimelyInPeriod` is the same
of the specification of the run `calendar`.

**ServerStopProofs.** `RowsNeverBack` has no hypotheses. Its invariant `InOrder` is a
chain: a row is not newer than the save being executed, that one not than those queued,
those not than the ones in the connection, and those not than the hero in memory. It needs
that only one thread has saves (`OneSaver`) and that a connection carries its own game
server's messages (`OwnMessages`). `NoTaskLost` assumes that a task is taken in one step
(`AtomicTake`) or that MySQL has no error: a thread that is told to stop has a task only if
it will still execute it (`Working`), and a Database that stops has only threads that have
ended (`Joined`). `SignalSaved` adds `~BadSaves`: the save of the signal is in the row, at
the thread or in its queue once the game server's request to close was read, and is before
the request in the connection until then (`SignalInv`). `StopSaved` adds `Prompt` and
speaks of the saves of `checkStop` (`LastSave`): what `close()` has not cut off is in the
connection, in a queue, at the thread or in the row.

Two of the runs' properties name environments of their MC module that differ in more than
one constant, and are therefore proved in another form: `NoTaskLeft` as `NoTaskLost`,
`HeroesSaved` as `SignalSaved` and `StopSaved`. Conversely `TypeOK` of `GateUsers` and
`LoginServer`, `ReconActive`, `SessionWatched` and `SessionsHaveGate` are proved and not run.

What is only model-checked:

* the liveness properties (`GhostsUnregistered`, `RefusedIsClosed`, `ClientReturns`,
  `HeroArrives`, `DetachedGoes`, `LoginAnswered`, `Settled`, `BothStop`): fairness and
  `ENABLED` are out of this prover's reach;
* `OneConnection` of `TcpPool` and all of `TcpClient`;
* `Effects` of `Promotions`, a sum over a set: what a sum computes needs induction over data,
  which the provers cannot do.

## 6. Not modelled

* Generated protocol code (`common/message/*.pb.cc`, `*.pb.h`) is about four fifths of
  the lines of the repository and has no state of its own.
* Of the requests of a hero: `ReqResetMap`, the special creatures, the flags of the
  tutorial, the notification states of grids and the level of a game master, which are
  stored and read back by the client only; the tables that `GameConfig::Load` reads,
  which are constants here; the columns of a row.
* `RecordManager` and the statistics of logins: rows that nobody reads back.
* Load figures, channels, versions, wording of messages, logs.
* The bytes of a packet, its compression by a pool of threads, and the messages that a
  `tcp_client` has received. A client handles a message without a look at its
  connection (`tcpclient.cpp:208`), so one that was queued before `on_close` is handled
  after it.
* A transaction id that two gate servers add to one game server: every id has
  one home gate server in `HeroSessions`.
* libcurl, MySQL, boost::asio and the platform are external.
* Utilities, logging, crypto, crash dumps, the battle server (a skeleton), the test
  client.

## 7. Plan

Done: the path of a login over four servers, the economy, payments, the daily game,
promotions, shutdown, network and timers, and the proofs of section 5. What would come next:

1. `NoTaskLeft` and `HeroesSaved` of the run's own specification.
2. `OneConnection` of `TcpPool`, whose invariant has to follow a session's number of uses
   through the queues of three threads.
