------------------------------ MODULE GateUsers ------------------------------
(***************************************************************************)
(* The gate server's bookkeeping of players: class UserManager              *)
(* (src/gateserver/user_manager.cpp) together with the connection state     *)
(* machine of class UserSession (src/gateserver/user_session.cpp) and the   *)
(* table of active game servers (src/gateserver/game_manager.cpp).          *)
(*                                                                          *)
(* The login server announces a player under a transaction id              *)
(* (parseLoginUser, parseLoginKick); the player's client then opens a       *)
(* connection and names that id (parseLoginGame).  Every handler runs on    *)
(* the gate's main thread, so one handler is one action; connections,       *)
(* timers, the login server and the game servers interleave freely.         *)
(*                                                                          *)
(* A map of the code is a function that is total on its keys, with the      *)
(* code's INVALID_... / NULL value at the keys that are absent.  Messages   *)
(* to game servers are the sequence `sent' of the step that sends them.     *)
(***************************************************************************)
EXTENDS Naturals, Sequences

CONSTANTS
  Trans,          \* transaction ids the login server hands out (not 0)
  Accounts,       \* account ids (not 0)
  Sessions,       \* the pooled UserSession objects
  Games,          \* ids of the game servers
  Owner,          \* the account a transaction id was made for
  NoTran,         \* INVALID_TRANS_ID
  NoAccount,      \* INVALID_ACCOUNT
  NoSession,      \* NULL UserSession*
  NoGame,         \* INVALID_GAME_ID
  Reissue,        \* may the login server hand out the same id again?
  LateLogin,      \* may a client send LoginGame on a session in _wait_close_?
  MaxTimers       \* bound on the pending timers of one kind for one id

ASSUME OwnerAssumption == Owner \in [Trans -> Accounts]

ASSUME NullAssumption ==
  /\ NoTran \notin Trans
  /\ NoAccount \notin Accounts
  /\ NoSession \notin Sessions
  /\ NoGame \notin Games

ASSUME BoundAssumption ==
  /\ MaxTimers \in Nat \ {0}
  /\ Reissue \in BOOLEAN
  /\ LateLogin \in BOOLEAN

VARIABLES
  m_onlines,      \* transaction id -> session it is online on
  m_onlineaccs,   \* account -> transaction id it is online under
  m_wait_map,     \* transaction id -> account the login server announced
  m_recon_map,    \* transaction id -> game server it may reconnect to
  waitTimers,     \* pending eventCallRemoveWait(t)
  reconTimers,    \* pending eventCallRemoveReconn(t)
  m_state,        \* UserSession::m_state
  m_tranid,       \* UserSession::m_tranid
  m_gs_id,        \* UserSession::m_gs_id
  closeTimer,     \* EVENT_USER_SESSION_CLOSE pending on the session
  pingTimer,      \* EVENT_WAIT_PING_INFO pending on the session
  closing,        \* close() was called: on_close will follow
  active,         \* ids with a client in m_activeGames
  issued,         \* ids the login server has announced so far
  sent            \* messages the last step sent to game servers

mapVars == <<m_onlines, m_onlineaccs, m_wait_map, m_recon_map>>
timerVars == <<waitTimers, reconTimers>>
sessVars == <<m_state, m_tranid, m_gs_id, closeTimer, pingTimer, closing>>
vars == <<mapVars, timerVars, sessVars, active, issued, sent>>

States == {"_disable_", "_wait_account_", "_connect_", "_wait_close_"}

Msgs == [to : Games, op : {"add", "remove", "offline"},
         tran : Trans \cup {NoTran}, acc : Accounts \cup {NoAccount}]

-----------------------------------------------------------------------------
(* Helpers *)

\* Definitions named ..._bug are variants of the definition after them with a
\* plausible mistake; no action uses them, they show what a property rules out.

\* obj_map::addData and obj_ptr_map::addData: a key that is present keeps its value.
addData(map, key, value, none) ==
  IF map[key] = none THEN [map EXCEPT ![key] = value] ELSE map

\* obj_map::eraseData and obj_ptr_map::eraseData.
eraseData(map, key, none) == [map EXCEPT ![key] = none]

\* obj_map::eraseValue: every key that holds the value is dropped.
eraseValue(map, value, none) ==
  [k \in DOMAIN map |-> IF map[k] = value THEN none ELSE map[k]]

\* GameManager::getGameClient(gs) # NULL
getGameClient(g) == g \in active

\* GateGameClient::addNewPlayer, removePlayer, offlinePlayer
addNewPlayer(g, t, a) == <<[to |-> g, op |-> "add", tran |-> t, acc |-> a]>>
removePlayer(g, t) == <<[to |-> g, op |-> "remove", tran |-> t, acc |-> NoAccount]>>
offlinePlayer(g, t) == <<[to |-> g, op |-> "offline", tran |-> t, acc |-> NoAccount]>>

\* removePlayer on the game server g when it has an active client.
removeIfActive(g, t) == IF getGameClient(g) THEN removePlayer(g, t) ELSE <<>>

\* The session is accepted: between on_accept and on_close.
open(s) == m_state[s] # "_disable_"

\* tcp_session::close(): on_close follows if there is a connection to close.
close(s) == closing' = [closing EXCEPT ![s] = open(s)]

-----------------------------------------------------------------------------
Init ==
  /\ m_onlines = [t \in Trans |-> NoSession]
  /\ m_onlineaccs = [a \in Accounts |-> NoTran]
  /\ m_wait_map = [t \in Trans |-> NoAccount]
  /\ m_recon_map = [t \in Trans |-> NoGame]
  /\ waitTimers = [t \in Trans |-> 0]
  /\ reconTimers = [t \in Trans |-> 0]
  /\ m_state = [s \in Sessions |-> "_disable_"]
  /\ m_tranid = [s \in Sessions |-> NoTran]
  /\ m_gs_id = [s \in Sessions |-> NoGame]
  /\ closeTimer = [s \in Sessions |-> FALSE]
  /\ pingTimer = [s \in Sessions |-> FALSE]
  /\ closing = [s \in Sessions |-> FALSE]
  /\ active = {}
  /\ issued = {}
  /\ sent = <<>>

-----------------------------------------------------------------------------
(* Messages of the login server *)

\* The kicked user stays in m_onlines.
kickOnline_bug(t, a) ==
  LET p == m_onlines[t] IN
  /\ p # NoSession
  /\ sent' = removeIfActive(m_gs_id[p], t)
  /\ close(p)
  /\ m_onlineaccs' = eraseData(m_onlineaccs, a, NoTran)
  /\ UNCHANGED m_onlines

\* The game server is not told of the kicked user.
kickOnline_silent_bug(t, a) ==
  LET p == m_onlines[t] IN
  /\ p # NoSession
  /\ sent' = <<>>
  /\ close(p)
  /\ m_onlines' = eraseData(m_onlines, t, NoSession)
  /\ m_onlineaccs' = eraseData(m_onlineaccs, a, NoTran)

\* The first branch of kickUser: t is online.  The session is told to close but
\* keeps its state and ids until on_close.
kickOnline(t, a) ==
  LET p == m_onlines[t] IN
  /\ p # NoSession
  /\ sent' = removeIfActive(m_gs_id[p], t)
  /\ close(p)
  /\ m_onlines' = eraseData(m_onlines, t, NoSession)
  /\ m_onlineaccs' = eraseData(m_onlineaccs, a, NoTran)

\* GateLoginClient::parseLoginUser -> UserManager::addToWait
parseLoginUser(t) ==
  LET a == Owner[t] IN
  /\ Reissue \/ t \notin issued
  /\ waitTimers[t] < MaxTimers
  /\ \/ kickOnline(t, a)
     \/ /\ m_onlines[t] = NoSession
        /\ sent' = <<>>
        /\ UNCHANGED <<closing, m_onlines, m_onlineaccs>>
  /\ m_wait_map' = addData(m_wait_map, t, a, NoAccount)
  /\ waitTimers' = [waitTimers EXCEPT ![t] = @ + 1]
  /\ issued' = issued \cup {t}
  /\ UNCHANGED <<m_recon_map, reconTimers, m_state, m_tranid, m_gs_id,
                 closeTimer, pingTimer, active>>

\* The second branch of kickUser: t is not online.
kickOffline(t) ==
  LET v == m_wait_map[t]
      gs == m_recon_map[t] IN
  /\ m_onlines[t] = NoSession
  /\ m_wait_map' = eraseData(m_wait_map, t, NoAccount)
  /\ m_onlineaccs' = IF v # NoAccount THEN eraseData(m_onlineaccs, v, NoTran)
                                      ELSE m_onlineaccs
  /\ m_recon_map' = eraseData(m_recon_map, t, NoGame)
  /\ sent' = IF gs # NoGame THEN removeIfActive(gs, t) ELSE <<>>
  /\ UNCHANGED <<m_onlines, closing>>

\* GateLoginClient::parseLoginKick -> UserManager::kickUser
parseLoginKick(t) ==
  /\ t \in issued
  /\ \/ kickOnline(t, Owner[t]) /\ UNCHANGED <<m_wait_map, m_recon_map>>
     \/ kickOffline(t)
  /\ UNCHANGED <<timerVars, m_state, m_tranid, m_gs_id, closeTimer, pingTimer,
                 active, issued>>

-----------------------------------------------------------------------------
(* Connections of the clients *)

\* UserSession::on_accept
on_accept(s) ==
  /\ ~open(s)
  /\ m_state' = [m_state EXCEPT ![s] = "_wait_account_"]
  /\ closeTimer' = [closeTimer EXCEPT ![s] = TRUE]
  /\ sent' = <<>>
  /\ UNCHANGED <<mapVars, timerVars, m_tranid, m_gs_id, pingTimer, closing,
                 active, issued>>

\* GameManager::getIdleGameClient: the choice among the active game servers
\* depends on the loads they report, so any active one may be returned.
getIdleGameClient == active

\* The session's m_tranid is not assigned.
connect_bug(s, t, g) ==
  /\ m_state' = [m_state EXCEPT ![s] = "_connect_"]
  /\ closeTimer' = [closeTimer EXCEPT ![s] = FALSE]
  /\ m_gs_id' = [m_gs_id EXCEPT ![s] = g]
  /\ m_onlines' = addData(m_onlines, t, s, NoSession)
  /\ UNCHANGED m_tranid

\* setState(_connect_), setGSid and the assignment of m_tranid that follows
\* checkConn in parseLoginGame.
connect(s, t, g) ==
  /\ m_state' = [m_state EXCEPT ![s] = "_connect_"]
  /\ closeTimer' = [closeTimer EXCEPT ![s] = FALSE]
  /\ m_gs_id' = [m_gs_id EXCEPT ![s] = g]
  /\ m_tranid' = [m_tranid EXCEPT ![s] = t]
  /\ m_onlines' = addData(m_onlines, t, s, NoSession)

\* The pending close timer is removed, and not set again.
refuse_bug(s) ==
  /\ m_state' = [m_state EXCEPT ![s] = "_wait_close_"]
  /\ closeTimer' = [closeTimer EXCEPT ![s] = FALSE]
  /\ UNCHANGED <<m_gs_id, m_tranid, m_onlines>>

\* setState(_wait_close_): the close timer is set or restarted.
refuse(s) ==
  /\ m_state' = [m_state EXCEPT ![s] = "_wait_close_"]
  /\ closeTimer' = [closeTimer EXCEPT ![s] = TRUE]
  /\ UNCHANGED <<m_gs_id, m_tranid, m_onlines>>

\* checkConn, first branch: the login server announced t.
checkConnWait(s, t) ==
  LET v == m_wait_map[t] IN
  /\ v # NoAccount
  /\ m_wait_map' = eraseData(m_wait_map, t, NoAccount)
  /\ \/ \E g \in getIdleGameClient :
          /\ connect(s, t, g)
          /\ m_onlineaccs' = addData(m_onlineaccs, v, t, NoTran)
          /\ sent' = addNewPlayer(g, t, v)
     \/ /\ getIdleGameClient = {}
        /\ refuse(s)
        /\ sent' = <<>>
        /\ UNCHANGED m_onlineaccs
  /\ UNCHANGED m_recon_map

\* checkConn, second branch: t was connected and may reconnect.  The game server
\* is told nothing.
checkConnRecon(s, t) ==
  /\ m_wait_map[t] = NoAccount
  /\ m_recon_map[t] # NoGame
  /\ m_recon_map' = eraseData(m_recon_map, t, NoGame)
  /\ connect(s, t, m_recon_map[t])
  /\ sent' = <<>>
  /\ UNCHANGED <<m_wait_map, m_onlineaccs>>

\* checkConn, last branch: t is unknown.
checkConnRefuse(s, t) ==
  /\ m_wait_map[t] = NoAccount
  /\ m_recon_map[t] = NoGame
  /\ refuse(s)
  /\ sent' = <<>>
  /\ UNCHANGED <<m_wait_map, m_recon_map, m_onlineaccs>>

\* UserSession::parseLoginGame.  A session in _connect_ ignores the message.
\* LateLogin says whether clients repeat it on a session that was refused.
parseLoginGame(s, t) ==
  /\ \/ m_state[s] = "_wait_account_"
     \/ m_state[s] = "_wait_close_" /\ LateLogin
  /\ \/ checkConnWait(s, t)
     \/ checkConnRecon(s, t)
     \/ checkConnRefuse(s, t)
  /\ pingTimer' = [pingTimer EXCEPT ![s] = TRUE]
  /\ UNCHANGED <<timerVars, closing, active, issued>>

\* UserSession::parsePingMsg: the 60 s timer is restarted.
parsePingMsg(s) ==
  /\ open(s)
  /\ pingTimer' = [pingTimer EXCEPT ![s] = TRUE]
  /\ sent' = <<>>
  /\ UNCHANGED <<mapVars, timerVars, m_state, m_tranid, m_gs_id, closeTimer,
                 closing, active, issued>>

\* UserManager::checkClose.  m_onlines drops the session's id whatever session it
\* is registered for; a session still in _connect_ may reconnect.  The timer is
\* also set for a session without an id, where it finds nothing to remove.
checkClose(s) ==
  LET t == m_tranid[s]
      gs == m_gs_id[s] IN
  IF t = NoTran
  THEN sent' = <<>> /\ UNCHANGED <<m_onlines, m_onlineaccs, m_recon_map, reconTimers>>
  ELSE
  /\ m_onlines' = eraseData(m_onlines, t, NoSession)
  /\ \/ /\ getGameClient(gs) /\ m_state[s] = "_connect_"
        /\ m_recon_map' = addData(m_recon_map, t, gs, NoGame)
        /\ sent' = offlinePlayer(gs, t)
        /\ UNCHANGED m_onlineaccs
     \/ /\ ~(getGameClient(gs) /\ m_state[s] = "_connect_")
        /\ m_onlineaccs' = eraseValue(m_onlineaccs, t, NoTran)
        /\ sent' = removeIfActive(gs, t)
        /\ UNCHANGED m_recon_map
  /\ reconTimers[t] < MaxTimers
  /\ reconTimers' = [reconTimers EXCEPT ![t] = @ + 1]

\* UserSession::on_close: checkClose, setState(_disable_) and the return of the
\* object to the pool (reset).  It follows close(), or the peer went away.  The
\* ping timer stays.
on_close(s) ==
  /\ open(s)
  /\ checkClose(s)
  /\ m_state' = [m_state EXCEPT ![s] = "_disable_"]
  /\ m_tranid' = [m_tranid EXCEPT ![s] = NoTran]
  /\ m_gs_id' = [m_gs_id EXCEPT ![s] = NoGame]
  /\ closeTimer' = [closeTimer EXCEPT ![s] = FALSE]
  /\ closing' = [closing EXCEPT ![s] = FALSE]
  /\ UNCHANGED <<m_wait_map, waitTimers, pingTimer, active, issued>>

-----------------------------------------------------------------------------
(* Timers *)

\* UserManager::eventCallRemoveWait(t), 5 s after each addToWait(t)
eventCallRemoveWait(t) ==
  /\ waitTimers[t] > 0
  /\ waitTimers' = [waitTimers EXCEPT ![t] = @ - 1]
  /\ m_wait_map' = eraseData(m_wait_map, t, NoAccount)
  /\ sent' = <<>>
  /\ UNCHANGED <<m_onlines, m_onlineaccs, m_recon_map, reconTimers, sessVars,
                 active, issued>>

\* Accounts without a reconnect entry stay registered.
eventCallRemoveReconn_bug(t) ==
  LET gsid == m_recon_map[t] IN
  /\ reconTimers[t] > 0
  /\ reconTimers' = [reconTimers EXCEPT ![t] = @ - 1]
  /\ m_recon_map' = eraseData(m_recon_map, t, NoGame)
  /\ m_onlineaccs' = IF gsid # NoGame THEN eraseValue(m_onlineaccs, t, NoTran)
                                      ELSE m_onlineaccs
  /\ sent' = IF gsid # NoGame THEN removeIfActive(gsid, t) ELSE <<>>
  /\ UNCHANGED <<m_onlines, m_wait_map, waitTimers, sessVars, active, issued>>

\* UserManager::eventCallRemoveReconn(t), 5 s after each checkClose of t
eventCallRemoveReconn(t) ==
  LET gsid == m_recon_map[t] IN
  /\ reconTimers[t] > 0
  /\ reconTimers' = [reconTimers EXCEPT ![t] = @ - 1]
  /\ m_recon_map' = eraseData(m_recon_map, t, NoGame)
  /\ m_onlineaccs' = eraseValue(m_onlineaccs, t, NoTran)
  /\ sent' = IF gsid # NoGame THEN removeIfActive(gsid, t) ELSE <<>>
  /\ UNCHANGED <<m_onlines, m_wait_map, waitTimers, sessVars, active, issued>>

\* UserSession::setClose, called by EVENT_USER_SESSION_CLOSE
setClose(s) ==
  /\ closeTimer[s]
  /\ closeTimer' = [closeTimer EXCEPT ![s] = FALSE]
  /\ close(s)
  /\ sent' = <<>>
  /\ UNCHANGED <<mapVars, timerVars, m_state, m_tranid, m_gs_id, pingTimer,
                 active, issued>>

\* UserSession::noPing, called by EVENT_WAIT_PING_INFO.  On a session that is
\* back in the pool there is no connection to close.
noPing(s) ==
  /\ pingTimer[s]
  /\ pingTimer' = [pingTimer EXCEPT ![s] = FALSE]
  /\ close(s)
  /\ sent' = <<>>
  /\ UNCHANGED <<mapVars, timerVars, m_state, m_tranid, m_gs_id, closeTimer,
                 active, issued>>

-----------------------------------------------------------------------------
(* Game servers *)

\* GateGameClient::parseGameRegister -> GameManager::addActiveGameClient
parseGameRegister(g) ==
  /\ g \notin active
  /\ active' = active \cup {g}
  /\ sent' = <<>>
  /\ UNCHANGED <<mapVars, timerVars, sessVars, issued>>

\* The sessions that are online on g are left alone.
gameClientClose_bug(g) ==
  /\ g \in active
  /\ active' = active \ {g}
  /\ m_recon_map' = eraseValue(m_recon_map, g, NoGame)
  /\ sent' = <<>>
  /\ UNCHANGED <<m_onlines, m_onlineaccs, m_wait_map, timerVars, sessVars, issued>>

\* GateGameClient::on_close -> removeActiveGameClient -> UserManager::removeUsers:
\* the sessions that are online on g are told to close, nobody may reconnect to g.
gameClientClose(g) ==
  LET lost == {s \in Sessions : m_gs_id[s] = g /\ \E t \in Trans : m_onlines[t] = s} IN
  /\ g \in active
  /\ active' = active \ {g}
  /\ m_state' = [s \in Sessions |-> IF s \in lost THEN "_wait_close_" ELSE m_state[s]]
  /\ closeTimer' = [s \in Sessions |-> s \in lost \/ closeTimer[s]]
  /\ m_recon_map' = eraseValue(m_recon_map, g, NoGame)
  /\ sent' = <<>>
  /\ UNCHANGED <<m_onlines, m_onlineaccs, m_wait_map, timerVars, m_tranid,
                 m_gs_id, pingTimer, closing, issued>>

\* UserManager::getAccount: the accounts registered under t; {} is INVALID_ACCOUNT.
getAccount(t) == {a \in Accounts : t # NoTran /\ m_onlineaccs[a] = t}

\* GateGameClient::parseChangeGS: the game server g hands the player t over to g2.
parseChangeGS(g, t, g2) ==
  LET p == m_onlines[t]
      tt == m_tranid[p] IN
  /\ g \in active
  /\ p # NoSession
  /\ \/ /\ ~getGameClient(g2)
        /\ close(p)
        /\ sent' = <<>>
        /\ UNCHANGED m_gs_id
     \/ /\ getGameClient(g2)
        /\ \E a \in getAccount(tt) :
             /\ m_gs_id' = [m_gs_id EXCEPT ![p] = g2]
             /\ sent' = removePlayer(g, tt) \o addNewPlayer(g2, tt, a)
        /\ UNCHANGED closing
     \/ /\ getGameClient(g2)
        /\ getAccount(tt) = {}
        /\ close(p)
        /\ sent' = removePlayer(g, tt)
        /\ UNCHANGED m_gs_id
  /\ UNCHANGED <<mapVars, timerVars, m_state, m_tranid, closeTimer, pingTimer,
                 active, issued>>

-----------------------------------------------------------------------------
LoginNext == \E t \in Trans : parseLoginUser(t) \/ parseLoginKick(t)
ClientNext == \E s \in Sessions :
  \/ on_accept(s) \/ on_close(s) \/ parsePingMsg(s)
  \/ \E t \in Trans : parseLoginGame(s, t)
TimerNext ==
  \/ \E t \in Trans : eventCallRemoveWait(t) \/ eventCallRemoveReconn(t)
  \/ \E s \in Sessions : setClose(s) \/ noPing(s)
GameNext == \E g \in Games :
  \/ parseGameRegister(g) \/ gameClientClose(g)
  \/ \E t \in Trans, g2 \in Games : parseChangeGS(g, t, g2)

Next == LoginNext \/ ClientNext \/ TimerNext \/ GameNext

(* The event holder runs every main loop, so each pending timer fires; a     *)
(* socket that was told to close reports it.  Clients, the login server and  *)
(* the game servers need not do anything, and a client that keeps pinging    *)
(* postpones noPing for ever.                                                *)
Fairness ==
  /\ \A t \in Trans : /\ WF_vars(eventCallRemoveWait(t))
                      /\ WF_vars(eventCallRemoveReconn(t))
  /\ \A s \in Sessions : /\ WF_vars(setClose(s))
                         /\ WF_vars(closing[s] /\ on_close(s))

Spec == Init /\ [][Next]_vars
FairSpec == Spec /\ Fairness

-----------------------------------------------------------------------------
(* Properties *)

\* Type correctness: every map holds keys and values of its declared types, and
\* no timer count leaves its bound.
TypeOK ==
  /\ m_onlines \in [Trans -> Sessions \cup {NoSession}]
  /\ m_onlineaccs \in [Accounts -> Trans \cup {NoTran}]
  /\ m_wait_map \in [Trans -> Accounts \cup {NoAccount}]
  /\ m_recon_map \in [Trans -> Games \cup {NoGame}]
  /\ waitTimers \in [Trans -> 0..MaxTimers]
  /\ reconTimers \in [Trans -> 0..MaxTimers]
  /\ m_state \in [Sessions -> States]
  /\ m_tranid \in [Sessions -> Trans \cup {NoTran}]
  /\ m_gs_id \in [Sessions -> Games \cup {NoGame}]
  /\ closeTimer \in [Sessions -> BOOLEAN]
  /\ pingTimer \in [Sessions -> BOOLEAN]
  /\ closing \in [Sessions -> BOOLEAN]
  /\ active \subseteq Games
  /\ issued \subseteq Trans
  /\ sent \in Seq(Msgs)

\* A transaction id the gate waits for is not online at the same time: addToWait
\* kicks the online user first and checkConn consumes the wait entry before it
\* registers the session, so a client can never enter twice on one announcement.
WaitNotOnline ==
  \A t \in Trans : m_wait_map[t] # NoAccount => m_onlines[t] = NoSession

\* Nothing is left behind in UserManager's maps: a wait entry and a reconnect
\* entry each have a timer that will erase them, and an account stays registered
\* in m_onlineaccs only while its id is online or a reconnect timer is going to
\* unregister it (addToWait, checkClose, eventCallRemoveReconn).
EntriesExpire ==
  /\ \A t \in Trans : m_wait_map[t] # NoAccount => waitTimers[t] > 0
  /\ \A t \in Trans : m_recon_map[t] # NoGame => reconTimers[t] > 0
  /\ \A a \in Accounts, t \in Trans :
       m_onlineaccs[a] = t => m_onlines[t] # NoSession \/ reconTimers[t] > 0

\* Accounts are announced and registered only under ids that were issued for
\* them (addToWait, checkConn); EntriesExpire rests on this.
AccountsOwn ==
  /\ \A t \in Trans : m_wait_map[t] \in {NoAccount, Owner[t]}
  /\ \A a \in Accounts, t \in Trans : m_onlineaccs[a] = t => Owner[t] = a

\* A reconnect entry never leads to a game server that has gone: removeUsers
\* drops the entries of a game server in the step that deactivates it.
ReconActive == \A t \in Trans : m_recon_map[t] # NoGame => m_recon_map[t] \in active

\* The inductive invariant of UserManager's maps.
MapInv == WaitNotOnline /\ AccountsOwn /\ EntriesExpire /\ ReconActive

\* Every accepted session is going to be closed unless its client keeps it alive:
\* a session in _connect_ has the ping timer, any other one has the close timer,
\* or close() was already called (setState, parseLoginGame, setClose, noPing).
SessionWatched ==
  \A s \in Sessions : open(s) =>
    \/ closing[s]
    \/ m_state[s] = "_connect_" /\ pingTimer[s]
    \/ m_state[s] # "_connect_" /\ closeTimer[s]

\* m_onlines never leads to a pooled session or to another player's session:
\* the session registered under an id carries that id and belongs to a game
\* server.  This needs clients that send LoginGame once per connection.
OnlinesOwn ==
  \A t \in Trans : m_onlines[t] # NoSession =>
    /\ m_tranid[m_onlines[t]] = t
    /\ m_state[m_onlines[t]] \in {"_connect_", "_wait_close_"}
    /\ m_gs_id[m_onlines[t]] # NoGame

\* Every player that is connected and not being closed receives the messages of
\* its game server: the session is the one registered under its id
\* (parseGameMsg looks it up there) and its game server is active.  This needs
\* ids that are not reissued.
Routable ==
  \A s \in Sessions : m_state[s] = "_connect_" /\ ~closing[s] =>
    /\ m_tranid[s] # NoTran
    /\ m_onlines[m_tranid[s]] = s
    /\ m_gs_id[s] \in active

\* The game server learns of every player that leaves m_onlines: the step that
\* drops the id sends removePlayer or offlinePlayer to the player's game server
\* if that is active (kickUser, checkClose).
LeaveIsTold ==
  [][\A t \in Trans :
       /\ m_onlines[t] # NoSession /\ m_onlines'[t] = NoSession
       /\ m_gs_id[m_onlines[t]] \in active
       => \E i \in DOMAIN sent' :
            /\ sent'[i].to = m_gs_id[m_onlines[t]]
            /\ sent'[i].op \in {"remove", "offline"}
            /\ sent'[i].tran = t]_vars

\* An account whose id is no longer online is unregistered in the end, or its id
\* comes online again: the login server is not told of ghosts forever.
GhostsUnregistered ==
  \A a \in Accounts, t \in Trans :
    m_onlineaccs[a] = t /\ m_onlines[t] = NoSession
      ~> m_onlineaccs[a] # t \/ m_onlines[t] # NoSession
=============================================================================
