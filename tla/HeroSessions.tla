----------------------------- MODULE HeroSessions -----------------------------
(***************************************************************************)
(* The game server's players: class GateManager with its Sessions           *)
(* (src/gameserver/gate_manager.cpp, session.cpp), the heroes kept in       *)
(* memory by class DreamHeroManager (src/gameserver/DreamHeroManager.cpp)   *)
(* with their save and destroy timers (DreamHero.cpp), and the loading and  *)
(* saving of a hero's row through the database server                       *)
(* (src/databaseserver/db_quest.cpp).                                       *)
(*                                                                          *)
(* A Session is one login of a player under a transaction id; a hero is the *)
(* player's data.  They point at each other with raw pointers, a hero       *)
(* outlives its Session by the destroy timer, and a Session outlives the    *)
(* request for its hero.  Handlers run on the game server's main thread;    *)
(* the two worker threads of the database run beside it.                    *)
(*                                                                          *)
(* A hero's data is a number that grows with every request that changes it; *)
(* 1 is a hero built from the configuration, 0 is no row.                   *)
(***************************************************************************)
EXTENDS Naturals, Sequences

CONSTANTS
  Trans,          \* transaction ids
  Accounts,       \* account ids
  Owner,          \* the account of a transaction id
  Gates,          \* gate server ids
  HomeGate,       \* the one gate server a transaction id was given to
  Conns,          \* GateSession objects
  NoTran,         \* NULL Session*
  NoGate,         \* INVALID_GATE_ID
  NoConn,         \* NULL GateSession*
  Serial,         \* a player's old login is removed before the new one is added
  Reuse,          \* may a transaction id be added again after it was removed?
  SavesFirst,     \* no query overtakes an earlier save of the same account
  DbLoss,         \* may the connection to the database server break?
  DbFails,        \* may a query of the database fail?
  MaxQueue,       \* bound on the length of each queue
  MaxProgress     \* bound on the changes of a hero

ASSUME OwnerAssumption ==
  /\ Owner \in [Trans -> Accounts]
  /\ HomeGate \in [Trans -> Gates]

ASSUME NullAssumption ==
  /\ NoTran \notin Trans
  /\ NoGate \notin Gates
  /\ NoConn \notin Conns

ASSUME BoundAssumption ==
  /\ MaxQueue \in Nat \ {0}
  /\ MaxProgress \in Nat \ {0}
  /\ {Serial, Reuse, SavesFirst, DbLoss, DbFails} \subseteq BOOLEAN

VARIABLES
  m_gate_id,      \* gate id a connected GateSession registered with
  m_Gates,        \* gate id -> GateSession
  added,          \* transaction ids the gate servers have added so far
  m_state,        \* Session::m_state, "none" when m_Onlines has no such Session
  _dream_hero,    \* Session::_dream_hero: NULL, the hero, or a hero since freed
  _heroes,        \* accounts with a hero in DreamHeroManager
  _session,       \* DreamHero::_session
  destroyEvent,   \* EVENT_DESTROY_PLAYER_ pending on the hero
  progress,       \* the hero's data
  dbUp,           \* the connection to the database server is up
  queryQ,         \* queue of the database thread _QUERY_HERO_INFO_
  saveQ,          \* queue of the database thread _SAVE_HERO_INFO_
  row,            \* the rows of table `character'
  replyQ          \* answers on their way to the game server

gateVars == <<m_gate_id, m_Gates, added>>
heroVars == <<_heroes, _session, destroyEvent, progress>>
dbVars == <<dbUp, queryQ, saveQ, row, replyQ>>
vars == <<gateVars, m_state, _dream_hero, heroVars, dbVars>>

SessionStates == {"none", "_session_online_", "_session_offline_"}

-----------------------------------------------------------------------------
(* Helpers.  Definitions named ..._bug are variants of the definition after them *)
(* with a plausible mistake; no action uses them.                              *)

\* GateManager::getUser(t) # NULL
getUser(t) == m_state[t] # "none"

\* DreamHeroManager::GetHero(a) # NULL
GetHero(a) == a \in _heroes

\* A message of the gate server that t was given to can arrive.  A connection
\* that was replaced in m_Gates is one its gate server has lost.
fromGate(t) == m_Gates[HomeGate[t]] # NoConn

\* The condition is inverted.
sendDB_bug(queue, msg) == IF dbUp THEN queue ELSE Append(queue, msg)

\* GameDBClient::sendPBMessage: dropped while there is no connection.
sendDB(queue, msg) == IF dbUp THEN Append(queue, msg) ELSE queue

\* The destroy clock is not stopped.
attach_bug(t) ==
  /\ _dream_hero' = [_dream_hero EXCEPT ![t] = "hero"]
  /\ _session' = [_session EXCEPT ![Owner[t]] = t]
  /\ UNCHANGED destroyEvent

\* The Session t takes the hero of its account: set_session, StopDestroyClock and
\* SendClientInit, which starts the periodic save if it is not running.
attach(t) ==
  LET a == Owner[t] IN
  /\ _dream_hero' = [_dream_hero EXCEPT ![t] = "hero"]
  /\ _session' = [_session EXCEPT ![a] = t]
  /\ destroyEvent' = destroyEvent \ {a}

\* The clock is not started when a Session goes.
release_bug(gone) ==
  LET left == {Owner[t] : t \in {u \in gone : _dream_hero[u] = "hero"}} IN
  /\ \A t \in gone : _dream_hero[t] # "freed"
  /\ m_state' = [t \in Trans |-> IF t \in gone THEN "none" ELSE m_state[t]]
  /\ _dream_hero' = [t \in Trans |-> IF t \in gone THEN "NULL" ELSE _dream_hero[t]]
  /\ _session' = [a \in Accounts |-> IF a \in left THEN NoTran ELSE _session[a]]
  /\ UNCHANGED destroyEvent

\* The hero keeps its pointer to the Session that is released.
release_keep_bug(gone) ==
  LET left == {Owner[t] : t \in {u \in gone : _dream_hero[u] = "hero"}} IN
  /\ \A t \in gone : _dream_hero[t] # "freed"
  /\ m_state' = [t \in Trans |-> IF t \in gone THEN "none" ELSE m_state[t]]
  /\ _dream_hero' = [t \in Trans |-> IF t \in gone THEN "NULL" ELSE _dream_hero[t]]
  /\ destroyEvent' = destroyEvent \cup left
  /\ UNCHANGED _session

\* Session::close and ~Session for the Sessions in gone: each hero they hold
\* starts its destroy clock and forgets its Session, whichever Session that is.
\* What a Session does with a freed hero is undefined; such a history ends here.
release(gone) ==
  LET left == {Owner[t] : t \in {u \in gone : _dream_hero[u] = "hero"}} IN
  /\ \A t \in gone : _dream_hero[t] # "freed"
  /\ m_state' = [t \in Trans |-> IF t \in gone THEN "none" ELSE m_state[t]]
  /\ _dream_hero' = [t \in Trans |-> IF t \in gone THEN "NULL" ELSE _dream_hero[t]]
  /\ _session' = [a \in Accounts |-> IF a \in left THEN NoTran ELSE _session[a]]
  /\ destroyEvent' = destroyEvent \cup left

-----------------------------------------------------------------------------
Init ==
  /\ m_gate_id = [c \in Conns |-> NoGate]
  /\ m_Gates = [g \in Gates |-> NoConn]
  /\ m_state = [t \in Trans |-> "none"]
  /\ _dream_hero = [t \in Trans |-> "NULL"]
  /\ _heroes = {}
  /\ _session = [a \in Accounts |-> NoTran]
  /\ destroyEvent = {}
  /\ added = {}
  /\ progress = [a \in Accounts |-> 0]
  /\ dbUp = TRUE
  /\ queryQ = <<>>
  /\ saveQ = <<>>
  /\ row = [a \in Accounts |-> 0]
  /\ replyQ = <<>>

-----------------------------------------------------------------------------
(* Gate servers *)

\* GateSession::parseGateRegister -> GateManager::addGate: the table entry is
\* overwritten even if an older connection of the same gate is still there.
parseGateRegister(c, g) ==
  /\ m_gate_id[c] = NoGate
  /\ m_gate_id' = [m_gate_id EXCEPT ![c] = g]
  /\ m_Gates' = [m_Gates EXCEPT ![g] = c]
  /\ UNCHANGED <<added, m_state, _dream_hero, heroVars, dbVars>>

\* GateSession::on_close -> GateManager::removeGate -> removeUserByGate
gateClose(c) ==
  LET g == m_gate_id[c] IN
  /\ g # NoGate
  /\ m_gate_id' = [m_gate_id EXCEPT ![c] = NoGate]
  /\ \/ /\ m_Gates[g] = c
        /\ m_Gates' = [m_Gates EXCEPT ![g] = NoConn]
        /\ release({t \in Trans : getUser(t) /\ HomeGate[t] = g})
     \/ /\ m_Gates[g] # c
        /\ UNCHANGED <<m_Gates, m_state, _dream_hero, _session, destroyEvent>>
  /\ UNCHANGED <<added, _heroes, progress, dbVars>>

\* GateSession::parseAddUser -> GateManager::addUser, no such Session: the Session
\* takes the hero that is still in memory, or asks the database for it.
addUser(t) ==
  LET a == Owner[t] IN
  /\ fromGate(t)
  /\ ~getUser(t)
  /\ Serial => \A u \in Trans : Owner[u] = a => ~getUser(u)
  /\ Reuse \/ t \notin added
  /\ added' = added \cup {t}
  /\ m_state' = [m_state EXCEPT ![t] = "_session_online_"]
  /\ \/ GetHero(a) /\ attach(t) /\ UNCHANGED queryQ
     \/ /\ ~GetHero(a)
        /\ Len(queryQ) < MaxQueue
        /\ queryQ' = sendDB(queryQ, t)
        /\ _dream_hero' = [_dream_hero EXCEPT ![t] = "NULL"]
        /\ UNCHANGED <<_session, destroyEvent>>
  /\ UNCHANGED <<m_gate_id, m_Gates, _heroes, progress, dbUp, saveQ, row, replyQ>>

\* addUser, the Session exists: Session::setReconnet.  Its gate and account are
\* those of the id, so the branch that returns NULL is not taken.
setReconnet(t) ==
  /\ fromGate(t)
  /\ getUser(t)
  /\ m_state' = [m_state EXCEPT ![t] = "_session_online_"]
  /\ UNCHANGED <<gateVars, _dream_hero, heroVars, dbVars>>

\* GateSession::parseRemoveUser -> GateManager::removeUser
parseRemoveUser(t) ==
  /\ fromGate(t)
  /\ getUser(t)
  /\ release({t})
  /\ UNCHANGED <<gateVars, _heroes, progress, dbVars>>

\* GateSession::parseOffline -> GateManager::offlineUser -> setWaitReconnet
parseOffline(t) ==
  /\ fromGate(t)
  /\ getUser(t)
  /\ m_state' = [m_state EXCEPT ![t] = "_session_offline_"]
  /\ UNCHANGED <<gateVars, _dream_hero, heroVars, dbVars>>

\* GateSession::parseUserMsg: a request of the client that changes its hero.
parseUserMsg(t) ==
  /\ fromGate(t)
  /\ getUser(t)
  /\ _dream_hero[t] = "hero"
  /\ progress[Owner[t]] < MaxProgress
  /\ progress' = [progress EXCEPT ![Owner[t]] = @ + 1]
  /\ UNCHANGED <<gateVars, m_state, _dream_hero, _heroes, _session, destroyEvent,
                 dbVars>>

-----------------------------------------------------------------------------
(* Timers of a hero *)

\* DreamHero::SaveHero, every 10 s: the row is sent to the database server.
SaveHero(a) ==
  /\ GetHero(a)
  /\ Len(saveQ) < MaxQueue
  /\ saveQ' = sendDB(saveQ, [acc |-> a, data |-> progress[a]])
  /\ UNCHANGED <<gateVars, m_state, _dream_hero, heroVars, dbUp, queryQ, row, replyQ>>

\* The destroy event survives the hero.
Destroy_bug(a) ==
  /\ a \in destroyEvent
  /\ _dream_hero' = [t \in Trans |-> IF _session[a] = t THEN "NULL" ELSE _dream_hero[t]]
  /\ _heroes' = _heroes \ {a}
  /\ _session' = [_session EXCEPT ![a] = NoTran]
  /\ progress' = [progress EXCEPT ![a] = 0]
  /\ UNCHANGED <<gateVars, m_state, destroyEvent, dbVars>>

\* DreamHero::Destroy -> DreamHeroManager::DestroyHero, 3 s after StartDestroyTime:
\* the Session the hero knows loses its pointer, the object is deleted with its
\* timers, and every other pointer to it is left behind.  The row is not saved.
Destroy(a) ==
  /\ a \in destroyEvent
  /\ _dream_hero' = [t \in Trans |->
       IF _session[a] = t THEN "NULL"
       ELSE IF Owner[t] = a /\ _dream_hero[t] = "hero" THEN "freed"
       ELSE _dream_hero[t]]
  /\ _heroes' = _heroes \ {a}
  /\ _session' = [_session EXCEPT ![a] = NoTran]
  /\ destroyEvent' = destroyEvent \ {a}
  /\ progress' = [progress EXCEPT ![a] = 0]
  /\ UNCHANGED <<gateVars, m_state, dbVars>>

-----------------------------------------------------------------------------
(* The database server *)

\* Database thread _SAVE_HERO_INFO_: `replace into character'
dbSave ==
  /\ saveQ # <<>>
  /\ row' = [row EXCEPT ![Head(saveQ).acc] = Head(saveQ).data]
  /\ saveQ' = Tail(saveQ)
  /\ UNCHANGED <<gateVars, m_state, _dream_hero, heroVars, dbUp, queryQ, replyQ>>

\* Database thread _QUERY_HERO_INFO_: DBQuestManager::dbDoQueryHeroInfo answers
\* MsgHeroDataDB2GS with the row or, when there is none, MsgNeedCreateHeroDB2GS
\* (data = 0).  A query that failed is answered like one that found no row.
dbDoQueryHeroInfo ==
  LET t == Head(queryQ)
      a == Owner[t] IN
  /\ queryQ # <<>>
  /\ SavesFirst => \A i \in 1..Len(saveQ) : saveQ[i].acc # a
  /\ Len(replyQ) < MaxQueue
  /\ queryQ' = Tail(queryQ)
  /\ \E data \in {row[a]} \cup (IF DbFails THEN {0} ELSE {}) :
       replyQ' = sendDB(replyQ, [tran |-> t, data |-> data])
  /\ UNCHANGED <<gateVars, m_state, _dream_hero, heroVars, dbUp, saveQ, row>>

\* The row that was loaded is not used.
CreateHero_row_bug(a, data) ==
  /\ _heroes' = _heroes \cup {a}
  /\ progress' = [progress EXCEPT ![a] = IF GetHero(a) THEN @ ELSE 1]

\* DreamHeroManager::CreateHero, both forms: a hero that is in memory is kept.
CreateHero(a, data) ==
  /\ _heroes' = _heroes \cup {a}
  /\ progress' = [progress EXCEPT ![a] =
       IF GetHero(a) THEN @ ELSE IF data = 0 THEN 1 ELSE data]

\* GameDBClient::parseQueryHeroInfo -> Session::praseDBQueryHeroInfo: a Session
\* that has its hero by now only sends the client its data again.
praseDBQueryHeroInfo(t, data) ==
  LET a == Owner[t] IN
  \/ /\ _dream_hero[t] = "NULL"
     /\ CreateHero(a, data)
     /\ attach(t)
  \/ /\ _dream_hero[t] = "hero"
     /\ destroyEvent' = destroyEvent \ {a}
     /\ UNCHANGED <<_dream_hero, _heroes, _session, progress>>

\* GameDBClient::parseNeedCreateHero -> Session::parseDBQueryNeedCreateHero
parseDBQueryNeedCreateHero(t) == CreateHero(Owner[t], 0) /\ attach(t)

\* The next answer of the database server; it is dropped when its Session is gone.
dbReply ==
  LET t == Head(replyQ).tran
      data == Head(replyQ).data IN
  /\ replyQ # <<>>
  /\ replyQ' = Tail(replyQ)
  /\ \/ ~getUser(t) /\ UNCHANGED <<_dream_hero, heroVars>>
     \/ getUser(t) /\ data > 0 /\ praseDBQueryHeroInfo(t, data)
     \/ getUser(t) /\ data = 0 /\ parseDBQueryNeedCreateHero(t)
  /\ UNCHANGED <<gateVars, m_state, dbUp, queryQ, saveQ, row>>

\* GameDBClient::on_close: answers on their way are lost.  The client reconnects.
dbClose ==
  /\ DbLoss /\ dbUp
  /\ dbUp' = FALSE
  /\ replyQ' = <<>>
  /\ UNCHANGED <<gateVars, m_state, _dream_hero, heroVars, queryQ, saveQ, row>>

\* GameDBClient::on_connect.  Nothing is asked or saved again.
dbConnect ==
  /\ ~dbUp
  /\ dbUp' = TRUE
  /\ UNCHANGED <<gateVars, m_state, _dream_hero, heroVars, queryQ, saveQ, row, replyQ>>

-----------------------------------------------------------------------------
GateNext ==
  \/ \E c \in Conns : gateClose(c) \/ \E g \in Gates : parseGateRegister(c, g)
  \/ \E t \in Trans : addUser(t) \/ setReconnet(t) \/ parseRemoveUser(t)
                        \/ parseOffline(t) \/ parseUserMsg(t)
TimerNext == \E a \in Accounts : SaveHero(a) \/ Destroy(a)
DbNext == dbSave \/ dbDoQueryHeroInfo \/ dbReply \/ dbClose \/ dbConnect

Next == GateNext \/ TimerNext \/ DbNext

(* The main loop keeps polling the database connection and its timers, and   *)
(* the database threads keep taking tasks; gate servers and clients need not *)
(* do anything.                                                              *)
Fairness ==
  /\ WF_vars(dbSave) /\ WF_vars(dbDoQueryHeroInfo) /\ WF_vars(dbReply)
  /\ \A a \in Accounts : WF_vars(Destroy(a))

Spec == Init /\ [][Next]_vars
FairSpec == Spec /\ Fairness

-----------------------------------------------------------------------------
(* Properties *)

\* Type correctness of the tables, the pointers and the queues.
TypeOK ==
  /\ m_gate_id \in [Conns -> Gates \cup {NoGate}]
  /\ m_Gates \in [Gates -> Conns \cup {NoConn}]
  /\ m_state \in [Trans -> SessionStates]
  /\ _dream_hero \in [Trans -> {"NULL", "hero", "freed"}]
  /\ _heroes \subseteq Accounts
  /\ _session \in [Accounts -> Trans \cup {NoTran}]
  /\ destroyEvent \subseteq _heroes
  /\ added \subseteq Trans
  /\ progress \in [Accounts -> Nat]
  /\ dbUp \in BOOLEAN
  /\ queryQ \in Seq(Trans)
  /\ saveQ \in Seq([acc : Accounts, data : Nat])
  /\ row \in [Accounts -> Nat]
  /\ replyQ \in Seq([tran : Trans, data : Nat])

\* A hero's pointer to its Session is never left behind: the Session is in
\* m_Onlines, belongs to the hero's account and points back at the hero.
SessionAlive ==
  \A a \in Accounts : _session[a] # NoTran =>
    /\ a \in _heroes
    /\ getUser(_session[a])
    /\ _dream_hero[_session[a]] = "hero"
    /\ Owner[_session[a]] = a

\* No hero is forgotten in memory: one without a Session is going to be destroyed.
\* Needs Serial.
NoHeroLeak == \A a \in _heroes : _session[a] = NoTran => a \in destroyEvent

\* Every Session's gate server is registered: what the game server sends to the
\* player reaches a gate (GateManager::sendMessage drops it otherwise).
SessionsHaveGate == \A t \in Trans : getUser(t) => m_Gates[HomeGate[t]] # NoConn

\* No Session points at a hero that was deleted, and the destroy clock of a hero
\* runs only while no Session holds the hero, so Destroy never takes the hero of
\* a player who is in the game.  Needs Serial.
HeldHeroSafe ==
  \A t \in Trans :
    /\ _dream_hero[t] # "freed"
    /\ _dream_hero[t] = "hero" => /\ Owner[t] \in _heroes \ destroyEvent
                                 /\ _session[Owner[t]] = t

\* The hero in memory is at least as new as its row and the saves on their way.
MemoryNotBehind ==
  \A a \in _heroes :
    /\ progress[a] >= row[a]
    /\ \A i \in 1..Len(saveQ) : saveQ[i].acc = a => progress[a] >= saveQ[i].data

\* A hero that lost its Session leaves the memory, or is taken by a new Session.
DetachedGoes ==
  \A a \in Accounts :
    a \in _heroes /\ _session[a] = NoTran ~> a \notin _heroes \/ _session[a] # NoTran
=============================================================================
