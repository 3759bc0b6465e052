------------------------------ MODULE LoginServer ------------------------------
(***************************************************************************)
(* The login server: the connections of clients (class UserLoginSession,    *)
(* src/login/user_session.cpp), the accounts and the check of a password    *)
(* (AccountManager, account_manager.cpp), and the gate servers that the     *)
(* accounts are given to (GateManager, GateSession), joined to the gate     *)
(* servers by TCP connections that deliver in order and may break.          *)
(*                                                                          *)
(* Handlers run on the login server's main thread.  The database and the    *)
(* platform's HTTP service answer later, from their own threads, with a raw  *)
(* pointer to the pooled UserLoginSession that asked.  A gate server is      *)
(* kept to the maps it answers with: m_wait_map and m_onlineaccs             *)
(* (src/gateserver/user_manager.cpp).                                        *)
(***************************************************************************)
EXTENDS Naturals, Sequences

CONSTANTS
  Sessions,       \* the pooled UserLoginSession objects
  Conns,          \* the pooled GateSession objects
  Gates,          \* gate server ids
  Accounts,       \* account ids
  Trans,          \* transaction ids
  Owner,          \* the account makeTransId is called for
  NoTran,         \* no entry of m_onlineaccs
  NoGate,         \* INVALID_GATE_ID
  NoConn,         \* NULL GateSession*
  NoSession,      \* NULL UserLoginSession*
  LinkLoss,       \* may connections to gate servers break and the process die?
  Reissue,        \* may two logins of an account within a second have one id?
  MaxTasks        \* bound on the answers the database or the platform owes

ASSUME OwnerAssumption == Owner \in [Trans -> Accounts]

ASSUME NullAssumption ==
  /\ NoTran \notin Trans
  /\ NoGate \notin Gates
  /\ NoConn \notin Conns
  /\ NoSession \notin Sessions

ASSUME BoundAssumption ==
  MaxTasks \in Nat \ {0} /\ LinkLoss \in BOOLEAN /\ Reissue \in BOOLEAN

VARIABLES
  m_state,        \* UserLoginSession::m_state
  is_valid,       \* sessions with a client
  tasks,          \* CheckAcct tasks of the database thread, in order
  httpTasks,      \* LoginHttpTask entries, in order
  issued,         \* ids that makeTransId has returned
  m_Accts,        \* account -> Account (its nTranId and nGateId); {} is NULL
  m_WaitSessions, \* transaction id -> session that waits for the gate
  m_gate_id,      \* GateSession::m_GateInfo.gate_id
  m_Gates,        \* gate id -> GateSession
  aborted,        \* an assert has failed
  gateConn,       \* the connection as the gate server's end sees it
  toGate,         \* messages under way to the gate server's end
  toLogin,        \* messages under way to the login server's end
  atLogin,        \* connections open at the login server's end
  m_wait_map,     \* gate server -> transaction ids it waits for
  m_onlineaccs,   \* gate server -> (account -> transaction id)
  told            \* gate server -> ids it was told of and not told to kick

sessVars == <<m_state, is_valid, tasks, httpTasks>>
acctVars == <<issued, m_Accts, m_WaitSessions>>
connVars == <<m_gate_id, m_Gates, aborted, gateConn, toGate, toLogin, atLogin>>
gateVars == <<m_wait_map, m_onlineaccs, told>>
vars == <<sessVars, acctVars, connVars, gateVars>>

States == {"_disable_", "_wait_data_", "_checking_data_", "_wait_gate_",
           "_wait_close_", "_wait_platform_", "_platform_success_"}

-----------------------------------------------------------------------------
(* Helpers.  Definitions named ..._bug are variants of the definition after them *)
(* with a plausible mistake; no action uses them.                              *)

setState(s, st) == m_state' = [m_state EXCEPT ![s] = st]

\* obj_ptr_map::addData: a key that is present keeps its value.
addData(map, key, value, none) ==
  IF map[key] = none THEN [map EXCEPT ![key] = value] ELSE map

\* AccountManager::makeTransId: a checksum of the request and of the time in
\* seconds, so that the ids of two logins of an account may be the same.
makeTransId(a) == {t \in Trans : Owner[t] = a /\ (Reissue \/ t \notin issued)}

\* AccountManager::getAccount(a): {} or the one Account.
getAccount(a) == m_Accts[a]

\* The messages queue up on connection c; a connection that the gate server's end
\* has closed delivers nothing.
alive(c) == \E g \in Gates : gateConn[g] = c
sendGate(queue, c, msg) == IF alive(c) THEN [queue EXCEPT ![c] = Append(@, msg)] ELSE queue

\* GateManager::kickUserFromGate: skipped when the account's gate server is away.
kickUserFromGate(queue, a) ==
  LET p == CHOOSE x \in getAccount(a) : TRUE IN
  IF getAccount(a) = {} \/ p.gate \notin Gates \/ m_Gates[p.gate] = NoConn THEN queue
  ELSE sendGate(queue, m_Gates[p.gate], [op |-> "kick", tran |-> p.tran])

\* GateManager::getIdleGate: the choice depends on the loads, so any registered one.
getIdleGate == {g \in Gates : m_Gates[g] # NoConn}

-----------------------------------------------------------------------------
Init ==
  /\ m_state = [s \in Sessions |-> "_disable_"]
  /\ is_valid = {}
  /\ tasks = <<>>
  /\ httpTasks = <<>>
  /\ issued = {}
  /\ m_Accts = [a \in Accounts |-> {}]
  /\ m_WaitSessions = [t \in Trans |-> NoSession]
  /\ m_gate_id = [c \in Conns |-> NoGate]
  /\ m_Gates = [g \in Gates |-> NoConn]
  /\ aborted = FALSE
  /\ gateConn = [g \in Gates |-> NoConn]
  /\ toGate = [c \in Conns |-> <<>>]
  /\ toLogin = [c \in Conns |-> <<>>]
  /\ atLogin = {}
  /\ m_wait_map = [g \in Gates |-> {}]
  /\ m_onlineaccs = [g \in Gates |-> [a \in Accounts |-> NoTran]]
  /\ told = [g \in Gates |-> {}]

-----------------------------------------------------------------------------
(* Clients *)

\* UserLoginSession::on_accept.  The timer it sets calls setClose, which is empty.
on_accept(s) ==
  /\ s \notin is_valid
  /\ is_valid' = is_valid \cup {s}
  /\ setState(s, "_wait_data_")
  /\ UNCHANGED <<tasks, httpTasks, acctVars, connVars, gateVars>>

\* UserLoginSession::on_close: the tasks and m_WaitSessions keep the pointer.
on_close(s) ==
  /\ s \in is_valid
  /\ is_valid' = is_valid \ {s}
  /\ setState(s, "_disable_")
  /\ UNCHANGED <<tasks, httpTasks, acctVars, connVars, gateVars>>

\* UserLoginSession::parseLoginGame (kind "login") and parseRegister ("new") ->
\* AccountManager::checkAccount, in every state of the session.  A request that
\* is refused for its version, channel or length changes nothing, and so does
\* the demand for a platform check, which only adds a message.
checkAccount(s, a, kind) ==
  /\ s \in is_valid
  /\ Len(tasks) < MaxTasks
  /\ tasks' = Append(tasks, [ower |-> s, acct |-> a, kind |-> kind])
  /\ setState(s, "_checking_data_")
  /\ UNCHANGED <<is_valid, httpTasks, acctVars, connVars, gateVars>>

\* UserLoginSession::parsePlatformVerify; _platform_user_id is always empty.
parsePlatformVerify(s) ==
  /\ s \in is_valid
  /\ Len(httpTasks) < MaxTasks
  /\ httpTasks' = Append(httpTasks, s)
  /\ setState(s, "_wait_platform_")
  /\ UNCHANGED <<is_valid, tasks, acctVars, connVars, gateVars>>

\* LoginHttpTask::logicExcute, on whatever the session is doing by now.
logicExcute(ok) ==
  LET s == Head(httpTasks) IN
  /\ httpTasks # <<>>
  /\ httpTasks' = Tail(httpTasks)
  /\ IF ok /\ m_state[s] = "_wait_platform_"
     THEN setState(s, "_platform_success_")
     ELSE UNCHANGED m_state
  /\ UNCHANGED <<is_valid, tasks, acctVars, connVars, gateVars>>

-----------------------------------------------------------------------------
(* Answers of the database *)

\* The check failed, or no such account: LoginResponse and setState(_wait_close_).
\* A session without a client is not answered.
refuse(s) ==
  /\ IF s \in is_valid THEN setState(s, "_wait_close_") ELSE UNCHANGED m_state
  /\ UNCHANGED <<acctVars, toGate>>

\* GateManager::giveUserToGate with a gate server that is there, after the kick: a
\* session that waits under the same id is the one that will be answered.
giveUserToGate(s, a, t, g) ==
  /\ setState(s, "_wait_gate_")
  /\ m_Accts' = [m_Accts EXCEPT ![a] = {[tran |-> t, gate |-> g]}]
  /\ m_WaitSessions' = addData(m_WaitSessions, t, s, NoSession)
  /\ toGate' = sendGate(kickUserFromGate(toGate, a), m_Gates[g],
                        [op |-> "announce", tran |-> t])

\* giveUserToGate fails: the account is removed again, after the kick.
noGate(s, a) ==
  /\ getIdleGate = {}
  /\ setState(s, "_wait_close_")
  /\ m_Accts' = [m_Accts EXCEPT ![a] = {}]
  /\ toGate' = kickUserFromGate(toGate, a)
  /\ UNCHANGED m_WaitSessions

\* The old login is not kicked.
accept_bug(s, a) ==
  \E t \in makeTransId(a) :
    /\ issued' = issued \cup {t}
    /\ \/ \E g \in getIdleGate :
            /\ setState(s, "_wait_gate_")
            /\ m_Accts' = [m_Accts EXCEPT ![a] = {[tran |-> t, gate |-> g]}]
            /\ m_WaitSessions' = addData(m_WaitSessions, t, s, NoSession)
            /\ toGate' = sendGate(toGate, m_Gates[g], [op |-> "announce", tran |-> t])
       \/ noGate(s, a)

\* checkAccountCall with a valid account: the id the account had is kicked, one is
\* made for this login and given to a gate server.
accept(s, a) ==
  \E t \in makeTransId(a) :
    /\ issued' = issued \cup {t}
    /\ \/ \E g \in getIdleGate : giveUserToGate(s, a, t, g)
       \/ noGate(s, a)

\* The refused client's state is left alone.
checkAccountCall_bug ==
  LET d == Head(tasks) IN
  /\ tasks # <<>> /\ d.kind = "login"
  /\ tasks' = Tail(tasks)
  /\ \/ UNCHANGED <<m_state, acctVars, toGate>>
     \/ d.ower \in is_valid /\ accept(d.ower, d.acct)
  /\ UNCHANGED <<is_valid, httpTasks, m_gate_id, m_Gates, aborted, gateConn,
                 toLogin, atLogin, gateVars>>

\* AccountManager::checkAccountCall
checkAccountCall ==
  LET d == Head(tasks) IN
  /\ tasks # <<>> /\ d.kind = "login"
  /\ tasks' = Tail(tasks)
  /\ \/ refuse(d.ower)
     \/ d.ower \in is_valid /\ accept(d.ower, d.acct)
  /\ UNCHANGED <<is_valid, httpTasks, m_gate_id, m_Gates, aborted, gateConn,
                 toLogin, atLogin, gateVars>>

\* AccountManager::CreateNewAccount: on success the new account logs in.
CreateNewAccount ==
  LET d == Head(tasks) IN
  /\ tasks # <<>> /\ d.kind = "new"
  /\ \/ refuse(d.ower) /\ tasks' = Tail(tasks)
     \/ /\ d.ower \in is_valid
        /\ tasks' = Append(Tail(tasks), [d EXCEPT !.kind = "login"])
        /\ UNCHANGED <<m_state, acctVars, toGate>>
  /\ UNCHANGED <<is_valid, httpTasks, m_gate_id, m_Gates, aborted, gateConn,
                 toLogin, atLogin, gateVars>>

-----------------------------------------------------------------------------
(* Gate servers, at the login server's end *)

\* GateManager::addGate: an older connection of the same gate server is replaced.
addGate(g, c) == m_Gates' = [m_Gates EXCEPT ![g] = c]

\* AccountManager::addAccount for each account the gate server lists.
addAccounts(g, accs) ==
  [a \in Accounts |-> IF accs[a] = NoTran THEN m_Accts[a]
                      ELSE {[tran |-> accs[a], gate |-> g]}]

\* The process ends and is started again with empty tables.
reset ==
  /\ m_state' = [s \in Sessions |-> "_disable_"]
  /\ is_valid' = {}
  /\ tasks' = <<>>
  /\ httpTasks' = <<>>
  /\ m_Accts' = [a \in Accounts |-> {}]
  /\ m_WaitSessions' = [t \in Trans |-> NoSession]
  /\ m_gate_id' = [c \in Conns |-> NoGate]
  /\ m_Gates' = [g \in Gates |-> NoConn]
  /\ toLogin' = [c \in Conns |-> <<>>]
  /\ atLogin' = {}

crash ==
  /\ LinkLoss
  /\ reset
  /\ UNCHANGED <<issued, aborted, gateConn, toGate, gateVars>>

\* GateSession::parseGateRegister: the accounts that are online at the gate server
\* are entered; the assert fails when one is known to be at another gate server.
parseGateRegister(c) ==
  LET m == Head(toLogin[c]) IN
  /\ c \in atLogin
  /\ toLogin[c] # <<>> /\ m.op = "register"
  /\ IF \E a \in Accounts : m.accs[a] # NoTran /\ \E p \in getAccount(a) : p.gate # m.gate
     THEN aborted' = TRUE /\ reset
     ELSE /\ m_gate_id' = [m_gate_id EXCEPT ![c] = m.gate]
          /\ addGate(m.gate, c)
          /\ m_Accts' = addAccounts(m.gate, m.accs)
          /\ toLogin' = [toLogin EXCEPT ![c] = Tail(@)]
          /\ UNCHANGED <<aborted, sessVars, m_WaitSessions, atLogin>>
  /\ UNCHANGED <<issued, gateConn, toGate, gateVars>>

\* GateSession::parseGateUserPrepar -> GateManager::receiveUserPrepar: the session is
\* answered and told to close even if its client has gone.
parseGateUserPrepar(c) ==
  LET m == Head(toLogin[c])
      s == m_WaitSessions[m.tran] IN
  /\ c \in atLogin
  /\ toLogin[c] # <<>> /\ m.op = "prepar"
  /\ toLogin' = [toLogin EXCEPT ![c] = Tail(@)]
  /\ m_state' = IF s = NoSession THEN m_state
                ELSE [m_state EXCEPT ![s] = "_wait_close_"]
  /\ m_WaitSessions' = [m_WaitSessions EXCEPT ![m.tran] = NoSession]
  /\ UNCHANGED <<is_valid, tasks, httpTasks, issued, m_Accts, m_gate_id, m_Gates,
                 aborted, gateConn, toGate, atLogin, gateVars>>

\* The table keeps the connection.
removeGate_bug(c) == UNCHANGED m_Gates

\* GateManager::removeGate: only if the gate server has not come back on another
\* connection.  A connection that never registered has the id of its last use.
removeGate(c) ==
  m_Gates' = [g \in Gates |->
    IF g = m_gate_id[c] /\ m_Gates[g] = c THEN NoConn ELSE m_Gates[g]]

\* GateSession::on_close at the login server.
gateClosed(c) ==
  /\ LinkLoss
  /\ c \in atLogin
  /\ atLogin' = atLogin \ {c}
  /\ removeGate(c)
  /\ toLogin' = [toLogin EXCEPT ![c] = <<>>]
  /\ UNCHANGED <<m_gate_id, sessVars, acctVars, aborted, gateConn, toGate, gateVars>>

-----------------------------------------------------------------------------
(* Gate servers, at their own end *)

\* GateLoginClient::on_connect: the first message lists m_onlineaccs
\* (UserManager::makeRegisterData), not m_wait_map.
gateConnect(g, c) ==
  /\ gateConn[g] = NoConn
  /\ c \notin atLogin /\ ~alive(c)
  /\ gateConn' = [gateConn EXCEPT ![g] = c]
  /\ atLogin' = atLogin \cup {c}
  /\ toLogin' = [toLogin EXCEPT ![c] =
       <<[op |-> "register", gate |-> g, accs |-> m_onlineaccs[g]]>>]
  /\ UNCHANGED <<sessVars, acctVars, m_gate_id, m_Gates, aborted, toGate, gateVars>>

\* GateLoginClient::on_close: what was under way to the gate server is lost.
gateLost(g) ==
  LET c == gateConn[g] IN
  /\ LinkLoss
  /\ c # NoConn
  /\ gateConn' = [gateConn EXCEPT ![g] = NoConn]
  /\ toGate' = [toGate EXCEPT ![c] = <<>>]
  /\ UNCHANGED <<sessVars, acctVars, m_gate_id, m_Gates, aborted, toLogin, atLogin,
                 gateVars>>

eraseAcc(g, a) == [m_onlineaccs EXCEPT ![g][a] = NoTran]

\* UserManager::addToWait; MsgGT2LNPrepar answers it.  Only an id that is handed out
\* again can be online, and is kicked.
addToWait(g, t) ==
  LET c == gateConn[g] IN
  /\ m_wait_map' = [m_wait_map EXCEPT ![g] = @ \cup {t}]
  /\ told' = [told EXCEPT ![g] = @ \cup {t}]
  /\ toLogin' = IF c \in atLogin
                THEN [toLogin EXCEPT ![c] = Append(@, [op |-> "prepar", tran |-> t])]
                ELSE toLogin
  /\ \/ UNCHANGED m_onlineaccs
     \/ Reissue /\ m_onlineaccs' = eraseAcc(g, Owner[t])

\* UserManager::kickUser: the account is unregistered if the id is online or
\* waited for; an id that waits for a reconnect leaves the account registered.
kickUser(g, t) ==
  /\ m_wait_map' = [m_wait_map EXCEPT ![g] = @ \ {t}]
  /\ told' = [told EXCEPT ![g] = @ \ {t}]
  /\ \/ m_onlineaccs' = eraseAcc(g, Owner[t])
     \/ t \notin m_wait_map[g] /\ UNCHANGED m_onlineaccs
  /\ UNCHANGED toLogin

\* The next message on the gate server's connection.
gateReceive(g) ==
  LET c == gateConn[g]
      m == Head(toGate[c]) IN
  /\ c # NoConn
  /\ toGate[c] # <<>>
  /\ toGate' = [toGate EXCEPT ![c] = Tail(@)]
  /\ \/ m.op = "announce" /\ addToWait(g, m.tran)
     \/ m.op = "kick" /\ kickUser(g, m.tran)
  /\ UNCHANGED <<sessVars, acctVars, m_gate_id, m_Gates, aborted, gateConn, atLogin>>

\* UserManager::checkConn: the player enters, or there is no game server for it.
checkConn(g, t) ==
  LET a == Owner[t] IN
  /\ t \in m_wait_map[g]
  /\ m_wait_map' = [m_wait_map EXCEPT ![g] = @ \ {t}]
  /\ \/ m_onlineaccs[g][a] = NoTran /\ m_onlineaccs' = [m_onlineaccs EXCEPT ![g][a] = t]
     \/ UNCHANGED m_onlineaccs
  /\ UNCHANGED <<sessVars, acctVars, connVars, told>>

\* UserManager::checkClose or eventCallRemoveReconn: the player is gone.
playerGone(g, a) ==
  /\ m_onlineaccs[g][a] # NoTran
  /\ m_onlineaccs' = eraseAcc(g, a)
  /\ UNCHANGED <<sessVars, acctVars, connVars, m_wait_map, told>>

-----------------------------------------------------------------------------
ClientNext == \E s \in Sessions :
  \/ on_accept(s) \/ on_close(s) \/ parsePlatformVerify(s)
  \/ \E a \in Accounts, kind \in {"login", "new"} : checkAccount(s, a, kind)
AnswerNext ==
  \/ \E ok \in BOOLEAN : logicExcute(ok)
  \/ checkAccountCall \/ CreateNewAccount
  \/ \E c \in Conns : parseGateRegister(c) \/ parseGateUserPrepar(c) \/ gateClosed(c)
GateNext == \E g \in Gates :
  \/ gateLost(g) \/ gateReceive(g)
  \/ \E c \in Conns : gateConnect(g, c)
  \/ \E t \in Trans : checkConn(g, t)
  \/ \E a \in Accounts : playerGone(g, a)

Next == ClientNext \/ AnswerNext \/ GateNext \/ crash

(* The database answers and the sockets deliver; clients and players need not *)
(* do anything.                                                               *)
Fairness ==
  /\ WF_vars(checkAccountCall \/ CreateNewAccount)
  /\ \A c \in Conns : WF_vars(parseGateRegister(c) \/ parseGateUserPrepar(c))
  /\ \A g \in Gates : WF_vars(gateReceive(g))

Spec == Init /\ [][Next]_vars
FairSpec == Spec /\ Fairness

-----------------------------------------------------------------------------
(* Properties *)

Account == [tran : Trans, gate : Gates \cup {NoGate}]
ToGate == [op : {"announce", "kick"}, tran : Trans]
ToLogin == [op : {"prepar"}, tran : Trans]
             \cup [op : {"register"}, gate : Gates,
                   accs : [Accounts -> Trans \cup {NoTran}]]
Tasks == [ower : Sessions, acct : Accounts, kind : {"login", "new"}]

\* Type correctness: every account, id and pointer in the tables and in the
\* messages is of its type, and no account is held twice.
TypeOK ==
  /\ m_state \in [Sessions -> States]
  /\ is_valid \subseteq Sessions
  /\ tasks \in Seq(Tasks)
  /\ httpTasks \in Seq(Sessions)
  /\ issued \subseteq Trans
  /\ m_Accts \in [Accounts -> {{}} \cup {{p} : p \in Account}]
  /\ m_WaitSessions \in [Trans -> Sessions \cup {NoSession}]
  /\ m_gate_id \in [Conns -> Gates \cup {NoGate}]
  /\ m_Gates \in [Gates -> Conns \cup {NoConn}]
  /\ aborted \in BOOLEAN
  /\ gateConn \in [Gates -> Conns \cup {NoConn}]
  /\ toGate \in [Conns -> Seq(ToGate)]
  /\ toLogin \in [Conns -> Seq(ToLogin)]
  /\ atLogin \subseteq Conns
  /\ m_wait_map \in [Gates -> SUBSET Trans]
  /\ m_onlineaccs \in [Gates -> [Accounts -> Trans \cup {NoTran}]]
  /\ told \in [Gates -> SUBSET Trans]

\* m_Gates never leads to a pooled GateSession or to another gate server's: kicks
\* and announcements reach a connection that is open at this end (addGate,
\* removeGate, on_close), although ids survive in pooled GateSessions.
GatesAlive ==
  \A g \in Gates : m_Gates[g] # NoConn =>
    m_Gates[g] \in atLogin /\ m_gate_id[m_Gates[g]] = g

\* What the assert in GateSession::parseGateRegister says: an account that a gate
\* server lists when it registers is at no other gate server.
AssertHolds == ~aborted
=============================================================================
