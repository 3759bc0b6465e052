------------------------------ MODULE GateProofs ------------------------------
(***************************************************************************)
(* Proofs about the gate server: first about GateUsers alone, then about    *)
(* GateGame, what game servers know of the gate server's players.  For      *)
(* every set of ids, accounts, sessions and game servers, every owner       *)
(* function and every bound on the timers and on the messages under way.    *)
(*                                                                          *)
(* The gate server decides by its own maps, a game server by the messages   *)
(* it has read; the invariant of GateGame says what a game server will know *)
(* once it has read what is under way, and that each message finds it       *)
(* ready.                                                                   *)
(***************************************************************************)
EXTENDS GateGame, TLAPS

-----------------------------------------------------------------------------
(* Type correctness *)

\* What the helpers on the maps return has the type of the map.
LEMMA MapTypes ==
  ASSUME NEW K, NEW V, NEW none, NEW map \in [K -> V \cup {none}], NEW key \in K,
         NEW value \in V
  PROVE  /\ addData(map, key, value, none) \in [K -> V \cup {none}]
         /\ eraseData(map, key, none) \in [K -> V \cup {none}]
         /\ \A w : eraseValue(map, w, none) \in [K -> V \cup {none}]
BY DEF addData, eraseData, eraseValue

\* The messages a handler sends are sequences of messages.
LEMMA MsgTypes ==
  ASSUME NEW g \in Games, NEW t \in Trans \cup {NoTran}
  PROVE  /\ removePlayer(g, t) \in Seq(Msgs)
         /\ offlinePlayer(g, t) \in Seq(Msgs)
         /\ \A a \in Accounts : addNewPlayer(g, t, a) \in Seq(Msgs)
<1>1. ASSUME NEW m \in Msgs PROVE <<m>> \in Seq(Msgs)
  OBVIOUS
<1>2. /\ [to |-> g, op |-> "remove", tran |-> t, acc |-> NoAccount] \in Msgs
      /\ [to |-> g, op |-> "offline", tran |-> t, acc |-> NoAccount] \in Msgs
      /\ \A a \in Accounts : [to |-> g, op |-> "add", tran |-> t, acc |-> a] \in Msgs
  BY DEF Msgs
<1> QED
  BY <1>1, <1>2 DEF removePlayer, offlinePlayer, addNewPlayer

\* The message to a game server that may be gone is a sequence of messages.
LEMMA RemoveIfActiveType ==
  ASSUME NEW g, NEW t \in Trans \cup {NoTran}, active \subseteq Games
  PROVE  removeIfActive(g, t) \in Seq(Msgs)
<1>1. <<>> \in Seq(Msgs)
  OBVIOUS
<1> QED
  BY <1>1, MsgTypes DEF removeIfActive, getGameClient

\* Every reachable state of UserManager and of the sessions is well typed.
THEOREM TypeCorrect == Spec => []TypeOK
<1>1. Init => TypeOK
  BY OwnerAssumption, NullAssumption, BoundAssumption DEF Init, TypeOK, States
<1>2. TypeOK /\ [Next]_vars => TypeOK'
  <2> SUFFICES ASSUME TypeOK, [Next]_vars PROVE TypeOK'
    OBVIOUS
  <2> USE OwnerAssumption, NullAssumption, BoundAssumption
  <2>1. ASSUME NEW t \in Trans, parseLoginUser(t) PROVE TypeOK'
    <3>1. Owner[t] \in Accounts
      OBVIOUS
    <3>2. m_wait_map' \in [Trans -> Accounts \cup {NoAccount}]
      BY <2>1, <3>1, MapTypes DEF parseLoginUser, TypeOK
    <3>3. waitTimers' \in [Trans -> 0..MaxTimers]
      BY <2>1 DEF parseLoginUser, TypeOK
    <3>4. /\ m_onlines' \in [Trans -> Sessions \cup {NoSession}]
          /\ m_onlineaccs' \in [Accounts -> Trans \cup {NoTran}]
          /\ closing' \in [Sessions -> BOOLEAN]
      BY <2>1, <3>1 DEF parseLoginUser, TypeOK, kickOnline, close, open, eraseData
    <3>5. sent' \in Seq(Msgs)
      <4>1. CASE kickOnline(t, Owner[t])
        BY <4>1, RemoveIfActiveType DEF TypeOK, kickOnline
      <4>2. CASE sent' = <<>>
        BY <4>2
      <4> QED
        BY <2>1, <4>1, <4>2 DEF parseLoginUser
    <3> QED
      BY <2>1, <3>2, <3>3, <3>4, <3>5 DEF parseLoginUser, TypeOK
  <2>2. ASSUME NEW t \in Trans, parseLoginKick(t) PROVE TypeOK'
    <3>1. CASE kickOnline(t, Owner[t]) /\ UNCHANGED <<m_wait_map, m_recon_map>>
      <4>1. /\ m_onlines' \in [Trans -> Sessions \cup {NoSession}]
            /\ m_onlineaccs' \in [Accounts -> Trans \cup {NoTran}]
            /\ closing' \in [Sessions -> BOOLEAN]
        BY <3>1 DEF TypeOK, kickOnline, close, open, eraseData
      <4>2. sent' \in Seq(Msgs)
        BY <3>1, RemoveIfActiveType DEF TypeOK, kickOnline
      <4> QED
        BY <2>2, <3>1, <4>1, <4>2 DEF parseLoginKick, TypeOK, timerVars
    <3>2. CASE kickOffline(t)
      <4>1. /\ m_wait_map' \in [Trans -> Accounts \cup {NoAccount}]
            /\ m_onlineaccs' \in [Accounts -> Trans \cup {NoTran}]
            /\ m_recon_map' \in [Trans -> Games \cup {NoGame}]
        BY <3>2 DEF TypeOK, kickOffline, eraseData
      <4>2. sent' \in Seq(Msgs)
        BY <3>2, RemoveIfActiveType DEF TypeOK, kickOffline
      <4> QED
        BY <2>2, <3>2, <4>1, <4>2 DEF parseLoginKick, kickOffline, TypeOK, timerVars
    <3> QED
      BY <2>2, <3>1, <3>2 DEF parseLoginKick
  <2>3. ASSUME NEW s \in Sessions, on_accept(s) PROVE TypeOK'
    BY <2>3 DEF on_accept, TypeOK, mapVars, timerVars, States
  <2>4. ASSUME NEW s \in Sessions, on_close(s) PROVE TypeOK'
    <3> DEFINE t == m_tranid[s]
               gs == m_gs_id[s]
    <3> /\ t \in Trans \cup {NoTran}
        /\ active \subseteq Games
      BY DEF TypeOK
    <3>a. checkClose(s)
      BY <2>4 DEF on_close
    <3>1. /\ m_onlines' \in [Trans -> Sessions \cup {NoSession}]
          /\ m_onlineaccs' \in [Accounts -> Trans \cup {NoTran}]
          /\ m_recon_map' \in [Trans -> Games \cup {NoGame}]
          /\ sent' \in Seq(Msgs)
      <4>1. CASE t = NoTran
        BY <3>a, <4>1 DEF checkClose, TypeOK
      <4>2. CASE t # NoTran /\ getGameClient(gs) /\ m_state[s] = "_connect_"
        <5>1. gs \in Games
          BY <4>2 DEF getGameClient
        <5>2. m_recon_map' = addData(m_recon_map, t, gs, NoGame) /\ sent' = offlinePlayer(gs, t)
          BY <3>a, <4>2 DEF checkClose
        <5>3. m_onlines' = eraseData(m_onlines, t, NoSession) /\ m_onlineaccs' = m_onlineaccs
          BY <3>a, <4>2 DEF checkClose
        <5> QED
          BY <4>2, <5>1, <5>2, <5>3, MsgTypes DEF TypeOK, eraseData, addData
      <4>3. CASE t # NoTran /\ ~(getGameClient(gs) /\ m_state[s] = "_connect_")
        <5>1. m_onlineaccs' = eraseValue(m_onlineaccs, t, NoTran) /\ sent' = removeIfActive(gs, t)
          BY <3>a, <4>3 DEF checkClose
        <5>2. m_onlines' = eraseData(m_onlines, t, NoSession) /\ m_recon_map' = m_recon_map
          BY <3>a, <4>3 DEF checkClose
        <5> QED
          BY <4>3, <5>1, <5>2, RemoveIfActiveType DEF TypeOK, eraseData, eraseValue
      <4> QED
        BY <4>1, <4>2, <4>3
    <3>b. reconTimers' \in [Trans -> 0..MaxTimers]
      BY <3>a DEF checkClose, TypeOK
    <3> QED
      BY <2>4, <3>1, <3>b DEF on_close, TypeOK, States
  <2>5. ASSUME NEW s \in Sessions, parsePingMsg(s) PROVE TypeOK'
    BY <2>5 DEF parsePingMsg, TypeOK, mapVars, timerVars
  <2>6. ASSUME NEW s \in Sessions, NEW t \in Trans, parseLoginGame(s, t) PROVE TypeOK'
    <3>1. ASSUME NEW g \in Games, connect(s, t, g)
          PROVE  /\ m_onlines' \in [Trans -> Sessions \cup {NoSession}]
                 /\ m_state' \in [Sessions -> States]
                 /\ m_tranid' \in [Sessions -> Trans \cup {NoTran}]
                 /\ m_gs_id' \in [Sessions -> Games \cup {NoGame}]
                 /\ closeTimer' \in [Sessions -> BOOLEAN]
      BY <3>1 DEF connect, addData, TypeOK, States
    <3>2. ASSUME refuse(s)
          PROVE  /\ m_onlines' \in [Trans -> Sessions \cup {NoSession}]
                 /\ m_state' \in [Sessions -> States]
                 /\ m_tranid' \in [Sessions -> Trans \cup {NoTran}]
                 /\ m_gs_id' \in [Sessions -> Games \cup {NoGame}]
                 /\ closeTimer' \in [Sessions -> BOOLEAN]
      BY <3>2 DEF refuse, TypeOK, States
    <3>3. /\ pingTimer' \in [Sessions -> BOOLEAN]
          /\ UNCHANGED <<waitTimers, reconTimers, closing, active, issued>>
      BY <2>6 DEF parseLoginGame, timerVars, TypeOK
    <3>4. CASE checkConnWait(s, t)
      <4>1. m_wait_map' \in [Trans -> Accounts \cup {NoAccount}] /\ m_recon_map' = m_recon_map
        BY <3>4 DEF checkConnWait, eraseData, TypeOK
      <4>2. m_wait_map[t] \in Accounts
        BY <3>4 DEF checkConnWait, TypeOK
      <4>3. CASE \E g \in getIdleGameClient :
                   /\ connect(s, t, g)
                   /\ m_onlineaccs' = addData(m_onlineaccs, m_wait_map[t], t, NoTran)
                   /\ sent' = addNewPlayer(g, t, m_wait_map[t])
        <5>1. PICK g \in Games :
                   /\ connect(s, t, g)
                   /\ m_onlineaccs' = addData(m_onlineaccs, m_wait_map[t], t, NoTran)
                   /\ sent' = addNewPlayer(g, t, m_wait_map[t])
          BY <4>3 DEF getIdleGameClient, TypeOK
        <5>2. m_onlineaccs' \in [Accounts -> Trans \cup {NoTran}]
          BY <4>2, <5>1 DEF addData, TypeOK
        <5>3. sent' \in Seq(Msgs)
          BY <4>2, <5>1, MsgTypes
        <5> QED
          BY <3>1, <3>3, <4>1, <5>1, <5>2, <5>3 DEF TypeOK
      <4>4. CASE refuse(s) /\ sent' = <<>> /\ UNCHANGED m_onlineaccs
        BY <3>2, <3>3, <4>1, <4>4 DEF TypeOK
      <4> QED
        BY <3>4, <4>3, <4>4 DEF checkConnWait
    <3>5. CASE checkConnRecon(s, t)
      <4>1. /\ m_recon_map[t] \in Games /\ connect(s, t, m_recon_map[t])
            /\ m_recon_map' \in [Trans -> Games \cup {NoGame}]
            /\ sent' = <<>> /\ UNCHANGED <<m_wait_map, m_onlineaccs>>
        BY <3>5 DEF checkConnRecon, eraseData, TypeOK
      <4> QED
        BY <3>1, <3>3, <4>1 DEF TypeOK
    <3>6. CASE checkConnRefuse(s, t)
      BY <3>2, <3>3, <3>6 DEF checkConnRefuse, TypeOK
    <3> QED
      BY <2>6, <3>4, <3>5, <3>6 DEF parseLoginGame
  <2>7. ASSUME NEW t \in Trans, eventCallRemoveWait(t) PROVE TypeOK'
    BY <2>7 DEF eventCallRemoveWait, eraseData, TypeOK, sessVars
  <2>8. ASSUME NEW t \in Trans, eventCallRemoveReconn(t) PROVE TypeOK'
    <3>1. /\ m_onlineaccs' \in [Accounts -> Trans \cup {NoTran}]
          /\ m_recon_map' \in [Trans -> Games \cup {NoGame}]
          /\ reconTimers' \in [Trans -> 0..MaxTimers]
      BY <2>8 DEF eventCallRemoveReconn, eraseData, eraseValue, TypeOK
    <3>2. sent' \in Seq(Msgs)
      BY <2>8, RemoveIfActiveType DEF eventCallRemoveReconn, TypeOK
    <3> QED
      BY <2>8, <3>1, <3>2 DEF eventCallRemoveReconn, TypeOK, sessVars
  <2>9. ASSUME NEW s \in Sessions, setClose(s) \/ noPing(s) PROVE TypeOK'
    <3>1. closing' \in [Sessions -> BOOLEAN]
      BY <2>9 DEF setClose, noPing, close, open, TypeOK
    <3>2. closeTimer' \in [Sessions -> BOOLEAN] /\ pingTimer' \in [Sessions -> BOOLEAN]
      BY <2>9 DEF setClose, noPing, TypeOK
    <3>3. /\ sent' = <<>>
          /\ UNCHANGED <<mapVars, timerVars, m_state, m_tranid, m_gs_id, active, issued>>
      BY <2>9 DEF setClose, noPing
    <3> QED
      BY <3>1, <3>2, <3>3 DEF TypeOK, mapVars, timerVars
  <2>10. ASSUME NEW g \in Games, parseGameRegister(g) PROVE TypeOK'
    BY <2>10 DEF parseGameRegister, TypeOK, mapVars, timerVars, sessVars
  <2>11. ASSUME NEW g \in Games, gameClientClose(g) PROVE TypeOK'
    BY <2>11 DEF gameClientClose, eraseValue, TypeOK, timerVars, States
  <2>12. ASSUME NEW g \in Games, NEW t \in Trans, NEW g2 \in Games, parseChangeGS(g, t, g2)
         PROVE TypeOK'
    <3>1. /\ m_onlines[t] \in Sessions
          /\ m_tranid[m_onlines[t]] \in Trans \cup {NoTran}
      BY <2>12 DEF parseChangeGS, TypeOK
    <3> DEFINE p == m_onlines[t]
               tt == m_tranid[p]
    <3>2. UNCHANGED <<mapVars, timerVars, m_state, m_tranid, closeTimer, pingTimer,
                      active, issued>>
      BY <2>12 DEF parseChangeGS
    <3>3. CASE ~getGameClient(g2) /\ close(p) /\ sent' = <<>> /\ UNCHANGED m_gs_id
      BY <3>1, <3>2, <3>3 DEF TypeOK, mapVars, timerVars, close, open
    <3>4. CASE /\ \E a \in getAccount(tt) :
                    /\ m_gs_id' = [m_gs_id EXCEPT ![p] = g2]
                    /\ sent' = removePlayer(g, tt) \o addNewPlayer(g2, tt, a)
               /\ UNCHANGED closing
      <4>1. sent' \in Seq(Msgs)
        BY <3>1, <3>4, MsgTypes DEF getAccount
      <4> QED
        BY <3>1, <3>2, <3>4, <4>1 DEF TypeOK, mapVars, timerVars
    <3>5. CASE close(p) /\ sent' = removePlayer(g, tt) /\ UNCHANGED m_gs_id
      <4>1. sent' \in Seq(Msgs)
        BY <3>1, <3>5, MsgTypes
      <4> QED
        BY <3>1, <3>2, <3>5, <4>1 DEF TypeOK, mapVars, timerVars, close, open
    <3> QED
      BY <2>12, <3>3, <3>4, <3>5 DEF parseChangeGS
  <2>13. CASE UNCHANGED vars
    BY <2>13 DEF vars, mapVars, timerVars, sessVars, TypeOK
  <2> QED
    BY <2>1, <2>2, <2>3, <2>4, <2>5, <2>6, <2>7, <2>8, <2>9, <2>10, <2>11, <2>12, <2>13
       DEF Next, LoginNext, ClientNext, TimerNext, GameNext
<1> QED
  BY <1>1, <1>2, PTL DEF Spec

-----------------------------------------------------------------------------
(* The maps of UserManager *)

\* One step keeps the invariant of the maps.  Only the actions that change a map,
\* a timer count or the set of active game servers can disturb it.
LEMMA MapStep == TypeOK /\ MapInv /\ [Next]_vars => MapInv'
<1> SUFFICES ASSUME TypeOK, MapInv, [Next]_vars PROVE MapInv'
  OBVIOUS
<1> USE OwnerAssumption, NullAssumption, BoundAssumption
<1> USE DEF MapInv, WaitNotOnline, AccountsOwn, EntriesExpire, ReconActive
<1>1. ASSUME NEW t \in Trans, parseLoginUser(t) PROVE MapInv'
  <2>1. m_onlines'[t] = NoSession /\ m_onlineaccs' \in {m_onlineaccs, eraseData(m_onlineaccs, Owner[t], NoTran)}
    BY <1>1 DEF parseLoginUser, kickOnline, TypeOK, eraseData
  <2>2. /\ \A u \in Trans \ {t} : m_onlines'[u] = m_onlines[u]
        /\ m_wait_map' = addData(m_wait_map, t, Owner[t], NoAccount)
        /\ waitTimers' = [waitTimers EXCEPT ![t] = @ + 1]
        /\ UNCHANGED <<m_recon_map, reconTimers, active>>
    BY <1>1 DEF parseLoginUser, kickOnline, TypeOK, eraseData
  <2>3. m_onlines[t] # NoSession => m_onlineaccs' = eraseData(m_onlineaccs, Owner[t], NoTran)
    BY <1>1 DEF parseLoginUser, kickOnline
  <2>4. WaitNotOnline' /\ ReconActive'
    BY <2>1, <2>2 DEF addData, TypeOK
  <2>5. AccountsOwn'
    BY <2>1, <2>2 DEF addData, eraseData, TypeOK
  <2>6. EntriesExpire'
    <3>1. waitTimers'[t] > 0 /\ \A u \in Trans \ {t} : waitTimers'[u] = waitTimers[u]
      BY <2>2 DEF TypeOK
    <3>2. \A u \in Trans \ {t} : m_wait_map'[u] = m_wait_map[u]
      BY <2>2 DEF addData, TypeOK
    <3>3. \A a \in Accounts : m_onlineaccs'[a] \in {m_onlineaccs[a], NoTran}
      BY <2>1 DEF eraseData, TypeOK
    <3>4. m_onlines[t] # NoSession => m_onlineaccs'[Owner[t]] = NoTran
      BY <2>3 DEF eraseData, TypeOK
    <3> QED
      BY <2>1, <2>2, <3>1, <3>2, <3>3, <3>4
  <2> QED
    BY <2>4, <2>5, <2>6
<1>2. ASSUME NEW t \in Trans, parseLoginKick(t) PROVE MapInv'
  <2>1. CASE kickOnline(t, Owner[t]) /\ UNCHANGED <<m_wait_map, m_recon_map>>
    BY <1>2, <2>1 DEF parseLoginKick, kickOnline, eraseData, TypeOK, timerVars
  <2>2. CASE kickOffline(t)
    BY <1>2, <2>2 DEF parseLoginKick, kickOffline, eraseData, TypeOK, timerVars
  <2> QED
    BY <1>2, <2>1, <2>2 DEF parseLoginKick
<1>3. ASSUME NEW s \in Sessions, on_accept(s) \/ parsePingMsg(s) \/ setClose(s) \/ noPing(s)
      PROVE MapInv'
  BY <1>3 DEF on_accept, parsePingMsg, setClose, noPing, mapVars, timerVars
<1>4. ASSUME NEW s \in Sessions, on_close(s) PROVE MapInv'
  <2> DEFINE t == m_tranid[s]
             gs == m_gs_id[s]
  <2>1. checkClose(s) /\ UNCHANGED <<m_wait_map, waitTimers, active>> /\ t \in Trans \cup {NoTran}
    BY <1>4 DEF on_close, TypeOK
  <2>2. CASE t = NoTran
    BY <2>1, <2>2 DEF checkClose
  <2>3. CASE t \in Trans
    <3>1. /\ m_onlines' = eraseData(m_onlines, t, NoSession)
          /\ reconTimers' = [reconTimers EXCEPT ![t] = @ + 1]
          /\ m_recon_map' = m_recon_map \/ (gs \in active /\ m_recon_map' = addData(m_recon_map, t, gs, NoGame))
          /\ m_onlineaccs' = m_onlineaccs \/ m_onlineaccs' = eraseValue(m_onlineaccs, t, NoTran)
      BY <2>1, <2>3 DEF checkClose, getGameClient
    <3>a. \A u \in Trans : m_onlines'[u] = IF u = t THEN NoSession ELSE m_onlines[u]
      BY <2>3, <3>1 DEF eraseData, TypeOK
    <3>b. \A u \in Trans : \/ m_recon_map'[u] = m_recon_map[u]
                           \/ u = t /\ m_recon_map'[u] = gs /\ gs \in active
      BY <2>3, <3>1 DEF addData, TypeOK
    <3>c. \A a \in Accounts : m_onlineaccs'[a] \in {m_onlineaccs[a], NoTran}
      BY <3>1 DEF eraseValue, TypeOK
    <3>d. reconTimers'[t] > 0 /\ \A u \in Trans \ {t} : reconTimers'[u] = reconTimers[u]
      BY <2>3, <3>1 DEF TypeOK
    <3>2. WaitNotOnline' /\ ReconActive'
      BY <2>1, <3>a, <3>b
    <3>3. AccountsOwn'
      BY <2>1, <3>c
    <3>4. EntriesExpire'
      BY <2>1, <3>a, <3>b, <3>c, <3>d
    <3> QED
      BY <3>2, <3>3, <3>4
  <2> QED
    BY <2>1, <2>2, <2>3
<1>5. ASSUME NEW s \in Sessions, NEW t \in Trans, parseLoginGame(s, t) PROVE MapInv'
  <2>1. UNCHANGED <<waitTimers, reconTimers, active>>
    BY <1>5 DEF parseLoginGame, timerVars
  <2>2. CASE checkConnWait(s, t)
    <3>1. /\ m_wait_map[t] = Owner[t]
          /\ m_wait_map' = eraseData(m_wait_map, t, NoAccount)
          /\ UNCHANGED m_recon_map
      BY <2>2 DEF checkConnWait
    <3>2. \/ UNCHANGED <<m_onlines, m_onlineaccs>>
          \/ /\ m_onlines' = addData(m_onlines, t, s, NoSession)
             /\ m_onlineaccs' = addData(m_onlineaccs, Owner[t], t, NoTran)
      BY <2>2, <3>1 DEF checkConnWait, connect, refuse
    <3>3. \A u \in Trans : m_wait_map'[u] = IF u = t THEN NoAccount ELSE m_wait_map[u]
      BY <3>1 DEF eraseData, TypeOK
    <3>4. /\ \A u \in Trans : m_onlines'[u] = m_onlines[u] \/ u = t
          /\ m_onlines[t] # NoSession => m_onlines'[t] # NoSession
          /\ \A a \in Accounts : \/ m_onlineaccs'[a] = m_onlineaccs[a]
                                 \/ /\ a = Owner[t] /\ m_onlineaccs'[a] = t
                                    /\ m_onlines'[t] # NoSession
      BY <3>2 DEF addData, TypeOK
    <3> QED
      BY <2>1, <3>1, <3>3, <3>4
  <2>3. CASE checkConnRecon(s, t)
    BY <2>1, <2>3 DEF checkConnRecon, connect, addData, eraseData, TypeOK
  <2>4. CASE checkConnRefuse(s, t)
    BY <2>1, <2>4 DEF checkConnRefuse, refuse
  <2> QED
    BY <1>5, <2>2, <2>3, <2>4 DEF parseLoginGame
<1>6. ASSUME NEW t \in Trans, eventCallRemoveWait(t) PROVE MapInv'
  BY <1>6 DEF eventCallRemoveWait, eraseData, TypeOK, sessVars
<1>7. ASSUME NEW t \in Trans, eventCallRemoveReconn(t) PROVE MapInv'
  BY <1>7 DEF eventCallRemoveReconn, eraseData, eraseValue, TypeOK, sessVars
<1>8. ASSUME NEW g \in Games, parseGameRegister(g) PROVE MapInv'
  BY <1>8 DEF parseGameRegister, mapVars, timerVars
<1>9. ASSUME NEW g \in Games, gameClientClose(g) PROVE MapInv'
  BY <1>9 DEF gameClientClose, eraseValue, timerVars, TypeOK
<1>10. ASSUME NEW g \in Games, NEW t \in Trans, NEW g2 \in Games, parseChangeGS(g, t, g2)
       PROVE MapInv'
  BY <1>10 DEF parseChangeGS, mapVars, timerVars
<1>11. CASE UNCHANGED vars
  BY <1>11 DEF vars, mapVars, timerVars
<1> QED
  BY <1>1, <1>2, <1>3, <1>4, <1>5, <1>6, <1>7, <1>8, <1>9, <1>10, <1>11
     DEF Next, LoginNext, ClientNext, TimerNext, GameNext

\* The maps of UserManager agree with each other in every reachable state: an id
\* is not awaited and online at once, every entry has a timer or a session that
\* will remove it, accounts appear under their own ids only, and nobody waits to
\* reconnect to a game server that has gone.
THEOREM MapsConsistent == Spec => []MapInv
<1>1. Init => MapInv
  BY NullAssumption DEF Init, MapInv, WaitNotOnline, AccountsOwn, EntriesExpire, ReconActive
<1> QED
  BY <1>1, MapStep, TypeCorrect, PTL DEF Spec

\* A transaction id the gate waits for is never online (addToWait, checkConn).
THEOREM NeverWaitingAndOnline == Spec => []WaitNotOnline
<1>1. MapInv => WaitNotOnline
  BY DEF MapInv
<1> QED
  BY <1>1, MapsConsistent, PTL

\* No entry of the wait map, the reconnect map or the account registry outlives
\* the timer or the session that removes it.
THEOREM NothingLeftBehind == Spec => []EntriesExpire
<1>1. MapInv => EntriesExpire
  BY DEF MapInv
<1> QED
  BY <1>1, MapsConsistent, PTL

-----------------------------------------------------------------------------
(* The sessions *)

\* One step keeps every accepted session under a timer or a pending close.
LEMMA WatchStep == TypeOK /\ SessionWatched /\ [Next]_vars => SessionWatched'
<1> SUFFICES ASSUME TypeOK, SessionWatched, [Next]_vars PROVE SessionWatched'
  OBVIOUS
<1> USE DEF SessionWatched, open
<1>1. ASSUME NEW t \in Trans, parseLoginUser(t) \/ parseLoginKick(t) PROVE SessionWatched'
  <2>1. UNCHANGED <<m_state, closeTimer, pingTimer>>
    BY <1>1 DEF parseLoginUser, parseLoginKick
  <2>2. \A s \in Sessions : closing[s] /\ m_state[s] # "_disable_" => closing'[s]
    BY <1>1 DEF parseLoginUser, parseLoginKick, kickOnline, kickOffline, close, TypeOK
  <2> QED
    BY <2>1, <2>2
<1>2. ASSUME NEW s \in Sessions, on_accept(s) \/ parsePingMsg(s) \/ on_close(s) PROVE SessionWatched'
  BY <1>2 DEF on_accept, parsePingMsg, on_close, TypeOK
<1>3. ASSUME NEW s \in Sessions, NEW t \in Trans, parseLoginGame(s, t) PROVE SessionWatched'
  <2>1. closing' = closing /\ pingTimer' = [pingTimer EXCEPT ![s] = TRUE]
    BY <1>3 DEF parseLoginGame
  <2>2. \/ /\ m_state' = [m_state EXCEPT ![s] = "_connect_"]
           /\ closeTimer' = [closeTimer EXCEPT ![s] = FALSE]
        \/ /\ m_state' = [m_state EXCEPT ![s] = "_wait_close_"]
           /\ closeTimer' = [closeTimer EXCEPT ![s] = TRUE]
    BY <1>3 DEF parseLoginGame, checkConnWait, checkConnRecon, checkConnRefuse, connect, refuse
  <2> QED
    BY <2>1, <2>2 DEF TypeOK
<1>4. ASSUME NEW t \in Trans, eventCallRemoveWait(t) \/ eventCallRemoveReconn(t)
      PROVE SessionWatched'
  BY <1>4 DEF eventCallRemoveWait, eventCallRemoveReconn, sessVars
<1>5. ASSUME NEW s \in Sessions, setClose(s) \/ noPing(s) PROVE SessionWatched'
  BY <1>5 DEF setClose, noPing, close, TypeOK
<1>6. ASSUME NEW g \in Games, parseGameRegister(g) PROVE SessionWatched'
  BY <1>6 DEF parseGameRegister, sessVars
<1>7. ASSUME NEW g \in Games, gameClientClose(g) PROVE SessionWatched'
  BY <1>7 DEF gameClientClose, TypeOK
<1>8. ASSUME NEW g \in Games, NEW t \in Trans, NEW g2 \in Games, parseChangeGS(g, t, g2)
      PROVE SessionWatched'
  <2>1. UNCHANGED <<m_state, closeTimer, pingTimer>>
    BY <1>8 DEF parseChangeGS
  <2>2. \A s \in Sessions : closing[s] /\ m_state[s] # "_disable_" => closing'[s]
    BY <1>8 DEF parseChangeGS, close, TypeOK
  <2> QED
    BY <2>1, <2>2
<1>9. CASE UNCHANGED vars
  BY <1>9 DEF vars, sessVars
<1> QED
  BY <1>1, <1>2, <1>3, <1>4, <1>5, <1>6, <1>7, <1>8, <1>9
     DEF Next, LoginNext, ClientNext, TimerNext, GameNext

\* Whatever clients, the login server and the game servers do, an accepted
\* session that nobody keeps alive is bound to be closed.
THEOREM EverySessionWatched == Spec => []SessionWatched
<1>1. Init => SessionWatched
  BY DEF Init, SessionWatched, open
<1> QED
  BY <1>1, WatchStep, TypeCorrect, PTL DEF Spec

\* One step keeps m_onlines pointing at the sessions that carry its ids, when
\* clients do not repeat LoginGame on a refused session.
LEMMA OnlinesStep == ~LateLogin /\ TypeOK /\ OnlinesOwn /\ [Next]_vars => OnlinesOwn'
<1> SUFFICES ASSUME ~LateLogin, TypeOK, OnlinesOwn, [Next]_vars PROVE OnlinesOwn'
  OBVIOUS
<1> USE NullAssumption DEF OnlinesOwn
<1>1. ASSUME NEW t \in Trans, parseLoginUser(t) \/ parseLoginKick(t) PROVE OnlinesOwn'
  <2>1. UNCHANGED <<m_state, m_tranid, m_gs_id>>
    BY <1>1 DEF parseLoginUser, parseLoginKick
  <2>2. \A u \in Trans : m_onlines'[u] \in {m_onlines[u], NoSession}
    BY <1>1 DEF parseLoginUser, parseLoginKick, kickOnline, kickOffline, eraseData, TypeOK
  <2> QED
    BY <2>1, <2>2
<1>2. ASSUME NEW s \in Sessions, on_accept(s) PROVE OnlinesOwn'
  BY <1>2 DEF on_accept, open, mapVars, TypeOK
<1>3. ASSUME NEW s \in Sessions, on_close(s) PROVE OnlinesOwn'
  <2>1. \A u \in Trans : m_onlines'[u] = IF u = m_tranid[s] THEN NoSession ELSE m_onlines[u]
    BY <1>3 DEF on_close, checkClose, eraseData, TypeOK
  <2>2. \A p \in Sessions \ {s} : /\ m_state'[p] = m_state[p]
                                  /\ m_tranid'[p] = m_tranid[p]
                                  /\ m_gs_id'[p] = m_gs_id[p]
    BY <1>3 DEF on_close, TypeOK
  <2> QED
    BY <2>1, <2>2 DEF TypeOK
<1>4. ASSUME NEW s \in Sessions, NEW t \in Trans, parseLoginGame(s, t) PROVE OnlinesOwn'
  <2>1. \A u \in Trans : m_onlines[u] # s
    BY <1>4 DEF parseLoginGame
  <2>2. CASE refuse(s)
    BY <2>1, <2>2 DEF refuse, TypeOK
  <2>3. ASSUME NEW g \in Games, connect(s, t, g) PROVE OnlinesOwn'
    BY <2>1, <2>3 DEF connect, addData, TypeOK
  <2>4. refuse(s) \/ \E g \in Games : connect(s, t, g)
    BY <1>4 DEF parseLoginGame, checkConnWait, checkConnRecon, checkConnRefuse,
                getIdleGameClient, TypeOK
  <2> QED
    BY <2>2, <2>3, <2>4
<1>5. ASSUME NEW s \in Sessions, parsePingMsg(s) \/ setClose(s) \/ noPing(s) PROVE OnlinesOwn'
  BY <1>5 DEF parsePingMsg, setClose, noPing, mapVars
<1>6. ASSUME NEW t \in Trans, eventCallRemoveWait(t) \/ eventCallRemoveReconn(t) PROVE OnlinesOwn'
  BY <1>6 DEF eventCallRemoveWait, eventCallRemoveReconn, sessVars
<1>7. ASSUME NEW g \in Games, parseGameRegister(g) PROVE OnlinesOwn'
  BY <1>7 DEF parseGameRegister, sessVars, mapVars
<1>8. ASSUME NEW g \in Games, gameClientClose(g) PROVE OnlinesOwn'
  BY <1>8 DEF gameClientClose, TypeOK
<1>9. ASSUME NEW g \in Games, NEW t \in Trans, NEW g2 \in Games, parseChangeGS(g, t, g2)
      PROVE OnlinesOwn'
  <2>1. UNCHANGED <<m_onlines, m_state, m_tranid>>
    BY <1>9 DEF parseChangeGS, mapVars
  <2>2. \A p \in Sessions : m_gs_id[p] # NoGame => m_gs_id'[p] # NoGame
    BY <1>9 DEF parseChangeGS, TypeOK
  <2> QED
    BY <2>1, <2>2 DEF TypeOK
<1>10. CASE UNCHANGED vars
  BY <1>10 DEF vars, mapVars, sessVars
<1> QED
  BY <1>1, <1>2, <1>3, <1>4, <1>5, <1>6, <1>7, <1>8, <1>9, <1>10
     DEF Next, LoginNext, ClientNext, TimerNext, GameNext

\* If clients send LoginGame once per connection, m_onlines never leads to a
\* pooled session or to the session of another player, for ids that are reissued
\* as well.
THEOREM OnlinesNeverStale ==
  ASSUME ~LateLogin PROVE Spec => []OnlinesOwn
<1>1. Init => OnlinesOwn
  BY DEF Init, OnlinesOwn
<1>2. TypeOK /\ OnlinesOwn /\ [Next]_vars => OnlinesOwn'
  BY OnlinesStep
<1> QED
  BY <1>1, <1>2, TypeCorrect, PTL DEF Spec

-----------------------------------------------------------------------------
(* Players and their game servers *)

\* The inductive invariant behind Routable, for ids that are announced once: an
\* id belongs to at most one session; while it may still enter, by its wait entry
\* or by its reconnect entry but never by both, it belongs to none.
IdOwned ==
  /\ \A s, p \in Sessions : m_tranid[s] = m_tranid[p] /\ m_tranid[s] # NoTran => s = p
  /\ \A s \in Sessions : m_tranid[s] # NoTran =>
       /\ m_tranid[s] \in issued
       /\ m_wait_map[m_tranid[s]] = NoAccount
       /\ m_recon_map[m_tranid[s]] = NoGame
  /\ \A t \in Trans : m_wait_map[t] # NoAccount => t \in issued
  /\ \A t \in Trans : m_recon_map[t] # NoGame => t \in issued /\ m_wait_map[t] = NoAccount

\* A session that enters under the id t has no rival: nobody carries t.
LEMMA EnterAlone ==
  ASSUME TypeOK, IdOwned, OnlinesOwn, NEW t \in Trans,
         m_wait_map[t] # NoAccount \/ m_recon_map[t] # NoGame
  PROVE  (\A p \in Sessions : m_tranid[p] # t) /\ m_onlines[t] = NoSession
BY NullAssumption DEF IdOwned, OnlinesOwn, TypeOK

\* What checkConn does to the maps and to the session it lets in or refuses.
LEMMA CheckConnCases ==
  ASSUME TypeOK, NEW s \in Sessions, NEW t \in Trans, parseLoginGame(s, t)
  PROVE  \/ refuse(s) /\ m_wait_map' \in {m_wait_map, eraseData(m_wait_map, t, NoAccount)}
                      /\ m_recon_map' = m_recon_map
         \/ \E g \in active : /\ m_wait_map[t] # NoAccount /\ connect(s, t, g)
                              /\ m_wait_map' = eraseData(m_wait_map, t, NoAccount)
                              /\ m_recon_map' = m_recon_map
         \/ /\ m_wait_map[t] = NoAccount /\ m_recon_map[t] # NoGame
            /\ connect(s, t, m_recon_map[t])
            /\ m_wait_map' = m_wait_map
            /\ m_recon_map' = eraseData(m_recon_map, t, NoGame)
<1>1. CASE checkConnWait(s, t)
  BY <1>1 DEF checkConnWait, getIdleGameClient
<1>2. CASE checkConnRecon(s, t)
  BY <1>2 DEF checkConnRecon
<1>3. CASE checkConnRefuse(s, t)
  BY <1>3 DEF checkConnRefuse
<1> QED
  BY <1>1, <1>2, <1>3 DEF parseLoginGame

\* One step keeps every id with at most one session, when the login server does
\* not announce an id twice.
LEMMA IdOwnedStep ==
  ~Reissue /\ TypeOK /\ OnlinesOwn /\ IdOwned /\ [Next]_vars => IdOwned'
<1> SUFFICES ASSUME ~Reissue, TypeOK, OnlinesOwn, IdOwned, [Next]_vars PROVE IdOwned'
  OBVIOUS
<1> USE NullAssumption
<1>1. ASSUME NEW t \in Trans, parseLoginUser(t) PROVE IdOwned'
  <2>1. /\ t \notin issued /\ issued' = issued \cup {t}
        /\ m_wait_map' = addData(m_wait_map, t, Owner[t], NoAccount)
        /\ UNCHANGED <<m_tranid, m_recon_map>>
    BY <1>1 DEF parseLoginUser
  <2>2. \A u \in Trans \ {t} : m_wait_map'[u] = m_wait_map[u]
    BY <2>1 DEF addData, TypeOK
  <2> QED
    BY <2>1, <2>2 DEF IdOwned, TypeOK
<1>2. ASSUME NEW t \in Trans, parseLoginKick(t) PROVE IdOwned'
  <2>1. UNCHANGED <<m_tranid, issued>>
    BY <1>2 DEF parseLoginKick
  <2>2. \A u \in Trans : /\ m_wait_map'[u] \in {m_wait_map[u], NoAccount}
                         /\ m_recon_map'[u] \in {m_recon_map[u], NoGame}
    BY <1>2 DEF parseLoginKick, kickOffline, eraseData, TypeOK
  <2> QED
    BY <2>1, <2>2 DEF IdOwned, TypeOK
<1>3. ASSUME NEW s \in Sessions, on_accept(s) \/ parsePingMsg(s) \/ setClose(s) \/ noPing(s)
      PROVE IdOwned'
  BY <1>3 DEF on_accept, parsePingMsg, setClose, noPing, mapVars, IdOwned
<1>4. ASSUME NEW s \in Sessions, on_close(s) PROVE IdOwned'
  <2>1. /\ m_tranid' = [m_tranid EXCEPT ![s] = NoTran]
        /\ UNCHANGED <<m_wait_map, issued>> /\ checkClose(s)
    BY <1>4 DEF on_close
  <2>2. \A u \in Trans : u = m_tranid[s] \/ m_recon_map'[u] = m_recon_map[u]
    BY <2>1 DEF checkClose, addData, TypeOK
  <2> QED
    BY <2>1, <2>2 DEF IdOwned, TypeOK
<1>5. ASSUME NEW s \in Sessions, NEW t \in Trans, parseLoginGame(s, t) PROVE IdOwned'
  <2>1. issued' = issued
    BY <1>5 DEF parseLoginGame
  <2>2. \A u \in Trans : /\ m_wait_map'[u] \in {m_wait_map[u], NoAccount}
                         /\ m_recon_map'[u] \in {m_recon_map[u], NoGame}
    BY <1>5, CheckConnCases DEF eraseData, TypeOK
  <2>3. CASE m_tranid' = m_tranid
    BY <2>1, <2>2, <2>3 DEF IdOwned, TypeOK
  <2>4. CASE /\ m_tranid' = [m_tranid EXCEPT ![s] = t]
             /\ m_wait_map[t] # NoAccount \/ m_recon_map[t] # NoGame
             /\ m_wait_map'[t] = NoAccount /\ m_recon_map'[t] = NoGame
    <3>1. (\A p \in Sessions : m_tranid[p] # t) /\ t \in issued
      BY <2>4, EnterAlone DEF IdOwned
    <3> QED
      BY <2>1, <2>2, <2>4, <3>1 DEF IdOwned, TypeOK
  <2> QED
    BY <1>5, <2>3, <2>4, CheckConnCases DEF connect, refuse, eraseData, TypeOK, IdOwned
<1>6. ASSUME NEW t \in Trans, eventCallRemoveWait(t) \/ eventCallRemoveReconn(t) PROVE IdOwned'
  <2>1. UNCHANGED <<m_tranid, issued>>
    BY <1>6 DEF eventCallRemoveWait, eventCallRemoveReconn, sessVars
  <2>2. \A u \in Trans : /\ m_wait_map'[u] \in {m_wait_map[u], NoAccount}
                         /\ m_recon_map'[u] \in {m_recon_map[u], NoGame}
    BY <1>6 DEF eventCallRemoveWait, eventCallRemoveReconn, eraseData, TypeOK
  <2> QED
    BY <2>1, <2>2 DEF IdOwned, TypeOK
<1>7. ASSUME NEW g \in Games, parseGameRegister(g) PROVE IdOwned'
  BY <1>7 DEF parseGameRegister, sessVars, mapVars, IdOwned
<1>8. ASSUME NEW g \in Games, gameClientClose(g) PROVE IdOwned'
  <2>1. \A u \in Trans : m_recon_map'[u] \in {m_recon_map[u], NoGame}
    BY <1>8 DEF gameClientClose, eraseValue, TypeOK
  <2> QED
    BY <1>8, <2>1 DEF gameClientClose, IdOwned, TypeOK
<1>9. ASSUME NEW g \in Games, NEW t \in Trans, NEW g2 \in Games, parseChangeGS(g, t, g2)
      PROVE IdOwned'
  BY <1>9 DEF parseChangeGS, mapVars, IdOwned
<1>10. CASE UNCHANGED vars
  BY <1>10 DEF vars, mapVars, sessVars, IdOwned
<1> QED
  BY <1>1, <1>2, <1>3, <1>4, <1>5, <1>6, <1>7, <1>8, <1>9, <1>10
     DEF Next, LoginNext, ClientNext, TimerNext, GameNext

\* One step keeps every connected player in reach of its game server.
LEMMA RoutableStep ==
  TypeOK /\ MapInv /\ OnlinesOwn /\ IdOwned /\ Routable /\ [Next]_vars => Routable'
<1> SUFFICES ASSUME TypeOK, MapInv, OnlinesOwn, IdOwned, Routable, [Next]_vars
             PROVE  Routable'
  OBVIOUS
<1> USE NullAssumption
<1>1. ASSUME NEW t \in Trans, parseLoginUser(t) \/ parseLoginKick(t) PROVE Routable'
  <2>1. UNCHANGED <<m_state, m_tranid, m_gs_id, active>>
    BY <1>1 DEF parseLoginUser, parseLoginKick
  <2>2. \/ UNCHANGED <<m_onlines, closing>>
        \/ kickOnline(t, Owner[t])
    BY <1>1 DEF parseLoginUser, parseLoginKick, kickOffline
  <2>3. CASE UNCHANGED <<m_onlines, closing>>
    BY <2>1, <2>3 DEF Routable
  <2>4. CASE kickOnline(t, Owner[t])
    <3>1. /\ m_onlines[t] \in Sessions /\ open(m_onlines[t]) /\ m_tranid[m_onlines[t]] = t
          /\ closing' = [closing EXCEPT ![m_onlines[t]] = open(m_onlines[t])]
          /\ m_onlines' = [m_onlines EXCEPT ![t] = NoSession]
      BY <2>4 DEF kickOnline, close, open, eraseData, OnlinesOwn, TypeOK
    <3> QED
      BY <2>1, <3>1 DEF Routable, TypeOK
  <2> QED
    BY <2>2, <2>3, <2>4
<1>2. ASSUME NEW s \in Sessions, on_accept(s) PROVE Routable'
  BY <1>2 DEF on_accept, mapVars, Routable, TypeOK
<1>3. ASSUME NEW s \in Sessions, on_close(s) PROVE Routable'
  <2>1. /\ m_state' = [m_state EXCEPT ![s] = "_disable_"]
        /\ m_tranid' = [m_tranid EXCEPT ![s] = NoTran]
        /\ m_gs_id' = [m_gs_id EXCEPT ![s] = NoGame]
        /\ closing' = [closing EXCEPT ![s] = FALSE]
        /\ active' = active
    BY <1>3 DEF on_close
  <2>2. \A u \in Trans : u # m_tranid[s] => m_onlines'[u] = m_onlines[u]
    BY <1>3 DEF on_close, checkClose, eraseData, TypeOK
  <2>3. \A p \in Sessions \ {s} : m_tranid[p] # NoTran => m_tranid[p] # m_tranid[s]
    BY DEF IdOwned
  <2> QED
    BY <2>1, <2>2, <2>3 DEF Routable, TypeOK
<1>4. ASSUME NEW s \in Sessions, NEW t \in Trans, parseLoginGame(s, t) PROVE Routable'
  <2>1. UNCHANGED <<closing, active>>
    BY <1>4 DEF parseLoginGame
  <2>2. CASE refuse(s)
    BY <2>1, <2>2 DEF refuse, Routable, TypeOK
  <2>3. ASSUME NEW g \in active, connect(s, t, g), m_wait_map[t] # NoAccount \/ m_recon_map[t] # NoGame
        PROVE  Routable'
    <3>1. (\A p \in Sessions : m_tranid[p] # t) /\ m_onlines[t] = NoSession
      BY <2>3, EnterAlone
    <3> QED
      BY <2>1, <2>3, <3>1 DEF connect, addData, Routable, TypeOK
  <2> QED
    BY <1>4, <2>2, <2>3, CheckConnCases DEF MapInv, ReconActive
<1>5. ASSUME NEW s \in Sessions, parsePingMsg(s) \/ setClose(s) \/ noPing(s) PROVE Routable'
  <2>1. \A p \in Sessions : closing[p] /\ open(p) => closing'[p]
    BY <1>5 DEF parsePingMsg, setClose, noPing, close, open, TypeOK
  <2> QED
    BY <1>5, <2>1 DEF parsePingMsg, setClose, noPing, mapVars, Routable, open
<1>6. ASSUME NEW t \in Trans, eventCallRemoveWait(t) \/ eventCallRemoveReconn(t) PROVE Routable'
  BY <1>6 DEF eventCallRemoveWait, eventCallRemoveReconn, sessVars, Routable
<1>7. ASSUME NEW g \in Games, parseGameRegister(g) PROVE Routable'
  BY <1>7 DEF parseGameRegister, sessVars, mapVars, Routable
<1>8. ASSUME NEW g \in Games, gameClientClose(g) PROVE Routable'
  BY <1>8 DEF gameClientClose, Routable, TypeOK
<1>9. ASSUME NEW g \in Games, NEW t \in Trans, NEW g2 \in Games, parseChangeGS(g, t, g2)
      PROVE Routable'
  <2>1. UNCHANGED <<m_onlines, m_state, m_tranid, active>>
    BY <1>9 DEF parseChangeGS, mapVars
  <2>2. \A p \in Sessions : closing[p] /\ open(p) => closing'[p]
    BY <1>9 DEF parseChangeGS, close, TypeOK
  <2>3. \A p \in Sessions : m_gs_id'[p] = m_gs_id[p] \/ m_gs_id'[p] \in active
    BY <1>9 DEF parseChangeGS, getGameClient, TypeOK
  <2> QED
    BY <2>1, <2>2, <2>3 DEF Routable, open
<1>10. CASE UNCHANGED vars
  BY <1>10 DEF vars, mapVars, sessVars, Routable
<1> QED
  BY <1>1, <1>2, <1>3, <1>4, <1>5, <1>6, <1>7, <1>8, <1>9, <1>10
     DEF Next, LoginNext, ClientNext, TimerNext, GameNext

\* If ids are announced once and clients send LoginGame once per connection, a
\* player that is connected and not being closed can always be reached by its
\* game server: parseGameMsg finds the player's session under its id, and the
\* game server is active.
THEOREM PlayersRoutable ==
  ASSUME ~Reissue, ~LateLogin PROVE Spec => []Routable
<1>1. Init => IdOwned /\ Routable
  BY NullAssumption DEF Init, IdOwned, Routable
<1>2. TypeOK /\ OnlinesOwn /\ IdOwned /\ [Next]_vars => IdOwned'
  BY IdOwnedStep
<1>3. Spec => []OnlinesOwn
  BY OnlinesNeverStale
<1> QED
  BY <1>1, <1>2, <1>3, RoutableStep, TypeCorrect, MapsConsistent, PTL DEF Spec

\* If ids are announced once and clients send LoginGame once per connection, no
\* player leaves m_onlines behind the back of its game server: kickUser and
\* checkClose send removePlayer or offlinePlayer in the step that drops the id.
THEOREM EveryLeaveTold ==
  ASSUME ~Reissue, ~LateLogin PROVE Spec => LeaveIsTold
<1> DEFINE Told(t) == \E i \in DOMAIN sent' :
                        /\ sent'[i].to = m_gs_id[m_onlines[t]]
                        /\ sent'[i].op \in {"remove", "offline"}
                        /\ sent'[i].tran = t
           Leaves(t) == /\ m_onlines[t] # NoSession /\ m_onlines'[t] = NoSession
                        /\ m_gs_id[m_onlines[t]] \in active
<1>1. TypeOK /\ OnlinesOwn /\ IdOwned /\ [Next]_vars
        => [\A t \in Trans : Leaves(t) => Told(t)]_vars
  <2> SUFFICES ASSUME TypeOK, OnlinesOwn, IdOwned, Next, NEW t \in Trans, Leaves(t)
               PROVE  Told(t)
    BY DEF vars
  <2> DEFINE gs == m_gs_id[m_onlines[t]]
  <2>1. ASSUME sent' = removePlayer(gs, t) \/ sent' = offlinePlayer(gs, t)
        PROVE  Told(t)
    <3>1. 1 \in DOMAIN sent' /\ sent'[1].to = gs /\ sent'[1].tran = t
          /\ sent'[1].op \in {"remove", "offline"}
      BY <2>1 DEF removePlayer, offlinePlayer
    <3> QED
      BY <3>1
  <2>2. ASSUME NEW u \in Trans, parseLoginUser(u) \/ parseLoginKick(u) PROVE Told(t)
    <3>1. kickOnline(u, Owner[u])
      BY <2>2 DEF parseLoginUser, parseLoginKick, kickOffline
    <3>2. u = t /\ sent' = removePlayer(gs, t)
      BY <3>1 DEF kickOnline, eraseData, removeIfActive, getGameClient, TypeOK
    <3> QED
      BY <2>1, <3>2
  <2>3. ASSUME NEW s \in Sessions, on_close(s) PROVE Told(t)
    <3>1. checkClose(s)
      BY <2>3 DEF on_close
    <3>2. m_tranid[s] = t /\ m_tranid[m_onlines[t]] = t /\ m_onlines[t] \in Sessions
      BY <3>1 DEF checkClose, eraseData, OnlinesOwn, TypeOK
    <3>3. t # NoTran /\ m_onlines[t] = s
      BY <3>2, NullAssumption DEF IdOwned
    <3>4. sent' = removePlayer(gs, t) \/ sent' = offlinePlayer(gs, t)
      BY <3>1, <3>2, <3>3 DEF checkClose, removeIfActive, getGameClient
    <3> QED
      BY <2>1, <3>4
  <2>4. ASSUME NEW s \in Sessions, NEW u \in Trans, parseLoginGame(s, u) PROVE Told(t)
    <3>1. m_onlines' = m_onlines \/ m_onlines' = addData(m_onlines, u, s, NoSession)
      BY <2>4, CheckConnCases DEF connect, refuse
    <3> QED
      BY <3>1, NullAssumption DEF addData, TypeOK
  <2>5. CASE m_onlines' = m_onlines
    BY <2>5
  <2> QED
    BY <2>2, <2>3, <2>4, <2>5
       DEF Next, LoginNext, ClientNext, TimerNext, GameNext, on_accept, parsePingMsg,
           setClose, noPing, eventCallRemoveWait, eventCallRemoveReconn, parseGameRegister,
           gameClientClose, parseChangeGS, mapVars
<1>2. TypeOK /\ OnlinesOwn /\ IdOwned /\ [Next]_vars => IdOwned'
  BY IdOwnedStep
<1>3. Init => IdOwned
  BY NullAssumption DEF Init, IdOwned
<1>4. Spec => []OnlinesOwn
  BY OnlinesNeverStale
<1> QED
  BY <1>1, <1>2, <1>3, <1>4, TypeCorrect, PTL DEF Spec, LeaveIsTold

-----------------------------------------------------------------------------
(* Messages under way: what the reader of a queue will have *)

adds(m, u) == m.op = "add" /\ m.tran = u
removes(m, u) == m.op = "remove" /\ m.tran = u

\* A game server that has Sessions for the ids present has none for u when it comes to
\* the i-th of the messages q under way to it.
GoneBefore(present, q, i, u) ==
  \/ \E k \in 1..Len(q) :
       /\ k < i /\ removes(q[k], u)
       /\ \A j \in 1..Len(q) : k < j /\ j < i => ~adds(q[j], u)
  \/ /\ u \notin present
     /\ \A j \in 1..Len(q) : j < i => ~adds(q[j], u)

\* It has none for u when it has read them all.
Gone(present, q, u) == GoneBefore(present, q, Len(q) + 1, u)

\* An id is added when no id of its account has a Session, itself included.
Ordered(present, q) ==
  \A i \in 1..Len(q) : q[i].op = "add" =>
    /\ q[i].tran \in Trans
    /\ \A u \in Trans : Owner[u] = Owner[q[i].tran] => GoneBefore(present, q, i, u)

-----------------------------------------------------------------------------
(* Messages under way *)

\* A message at the end does not change what is before it.
LEMMA GoneAppend ==
  ASSUME NEW S, NEW q \in Seq(S), NEW m \in S, NEW present, NEW u
  PROVE  /\ \A i \in 1..(Len(q) + 1) :
              GoneBefore(present, Append(q, m), i, u) <=> GoneBefore(present, q, i, u)
         /\ Gone(present, Append(q, m), u) <=>
              removes(m, u) \/ (Gone(present, q, u) /\ ~adds(m, u))
<1> DEFINE r == Append(q, m)
           n == Len(q)
<1>1. /\ n \in Nat /\ Len(r) = n + 1 /\ r[n + 1] = m
      /\ \A k \in 1..n : r[k] = q[k]
  OBVIOUS
<1> HIDE DEF r, n
<1>2. ASSUME NEW i \in 1..(n + 1)
      PROVE  GoneBefore(present, r, i, u) <=> GoneBefore(present, q, i, u)
  <2>1. \A k \in 1..(n + 1) : k < i => k \in 1..n
    BY <1>1
  <2>2. \A k \in 1..n : k \in 1..(n + 1)
    BY <1>1
  <2>3. GoneBefore(present, r, i, u) <=>
          \/ \E k \in 1..n : /\ k < i /\ removes(r[k], u)
                             /\ \A j \in 1..n : k < j /\ j < i => ~adds(r[j], u)
          \/ u \notin present /\ \A j \in 1..n : j < i => ~adds(r[j], u)
    BY <1>1, <2>1, <2>2 DEF GoneBefore
  <2> QED
    BY <1>1, <2>3 DEF GoneBefore, n
<1>3. Gone(present, r, u) <=> removes(m, u) \/ (Gone(present, q, u) /\ ~adds(m, u))
  <2>1. \A k \in 1..n : k \in 1..(n + 1) /\ k < n + 1 /\ k < n + 2
    BY <1>1
  <2>2. n + 1 \in 1..(n + 1) /\ n + 1 < n + 2 /\ \A k \in 1..(n + 1) : k \in 1..n \/ k = n + 1
    BY <1>1
  <2>3. ASSUME removes(m, u) PROVE GoneBefore(present, r, n + 2, u)
    <3>1. \A j \in 1..(n + 1) : ~(n + 1 < j)
      BY <1>1
    <3> QED
      BY <1>1, <2>2, <2>3, <3>1 DEF GoneBefore
  <2>4. ASSUME Gone(present, q, u), ~adds(m, u) PROVE GoneBefore(present, r, n + 2, u)
    <3>1. CASE \E k \in 1..n : /\ k < n + 1 /\ removes(q[k], u)
                               /\ \A j \in 1..n : k < j /\ j < n + 1 => ~adds(q[j], u)
      BY <1>1, <2>1, <2>2, <2>4, <3>1 DEF GoneBefore
    <3>2. CASE u \notin present /\ \A j \in 1..n : j < n + 1 => ~adds(q[j], u)
      BY <1>1, <2>1, <2>2, <2>4, <3>2 DEF GoneBefore
    <3> QED
      BY <2>4, <3>1, <3>2 DEF Gone, GoneBefore, n
  <2>5. ASSUME GoneBefore(present, r, n + 2, u), ~removes(m, u)
        PROVE  Gone(present, q, u) /\ ~adds(m, u)
    <3>1. CASE \E k \in 1..(n + 1) : /\ k < n + 2 /\ removes(r[k], u)
                                     /\ \A j \in 1..(n + 1) : k < j /\ j < n + 2 => ~adds(r[j], u)
      <4>1. PICK k \in 1..n : /\ removes(q[k], u)
                              /\ \A j \in 1..(n + 1) : k < j /\ j < n + 2 => ~adds(r[j], u)
        BY <1>1, <2>2, <2>5, <3>1
      <4>2. ~adds(m, u)
        BY <1>1, <2>1, <2>2, <4>1
      <4>3. \A j \in 1..n : k < j /\ j < n + 1 => ~adds(q[j], u)
        BY <1>1, <2>1, <4>1
      <4> QED
        BY <2>1, <4>1, <4>2, <4>3 DEF Gone, GoneBefore, n
    <3>2. CASE u \notin present /\ \A j \in 1..(n + 1) : j < n + 2 => ~adds(r[j], u)
      BY <1>1, <2>1, <2>2, <3>2 DEF Gone, GoneBefore, n
    <3> QED
      BY <1>1, <2>5, <3>1, <3>2 DEF GoneBefore
  <2>6. Gone(present, r, u) <=> GoneBefore(present, r, n + 2, u)
    BY <1>1 DEF Gone
  <2> QED
    BY <2>3, <2>4, <2>5, <2>6 DEF adds, removes
<1> QED
  BY <1>2, <1>3 DEF r, n

\* A message is added at the end.
LEMMA OrderedAppend ==
  ASSUME NEW S, NEW q \in Seq(S), NEW m \in S, NEW present, Ordered(present, q),
         m.op = "add" => /\ m.tran \in Trans
                         /\ \A u \in Trans : Owner[u] = Owner[m.tran] => Gone(present, q, u)
  PROVE  Ordered(present, Append(q, m))
<1> DEFINE r == Append(q, m)
           n == Len(q)
<1>1. /\ n \in Nat /\ Len(r) = n + 1 /\ r[n + 1] = m
      /\ \A k \in 1..n : r[k] = q[k]
  OBVIOUS
<1>2. \A u : \A i \in 1..(n + 1) : GoneBefore(present, r, i, u) <=> GoneBefore(present, q, i, u)
  BY GoneAppend
<1> HIDE DEF r
<1>3. \A i \in 1..(n + 1) : i \in 1..n \/ i = n + 1
  BY <1>1
<1>4. \A i \in 1..n : i \in 1..(n + 1)
  BY <1>1
<1>5. n + 1 \in 1..(n + 1)
  BY <1>1
<1> SUFFICES ASSUME NEW i \in 1..(n + 1), r[i].op = "add"
             PROVE  /\ r[i].tran \in Trans
                    /\ \A u \in Trans : Owner[u] = Owner[r[i].tran] => GoneBefore(present, r, i, u)
  BY <1>1 DEF Ordered, r
<1>6. CASE i \in 1..n
  BY <1>1, <1>2, <1>6 DEF Ordered
<1>7. CASE i = n + 1
  BY <1>1, <1>2, <1>5, <1>7 DEF Gone
<1> QED
  BY <1>3, <1>6, <1>7

\* Reading does not change what will be.
LEMMA GoneTail ==
  ASSUME NEW q \in Seq(Msgs), q # <<>>, NEW present, NEW u
  PROVE  /\ \A i \in 1..Len(q) :
              GoneBefore(handle(present, Head(q)), Tail(q), i, u) <=> GoneBefore(present, q, i + 1, u)
         /\ Gone(handle(present, Head(q)), Tail(q), u) <=> Gone(present, q, u)
<1> DEFINE r == Tail(q)
           n == Len(q)
           next == handle(present, Head(q))
<1>1. /\ n \in Nat \ {0} /\ Len(r) = n - 1 /\ Head(q) = q[1] /\ q[1] \in Msgs
      /\ \A k \in 1..(n - 1) : r[k] = q[k + 1]
  OBVIOUS
<1>a. \A k \in 1..n : k # 1 => k - 1 \in 1..(n - 1) /\ q[k] = r[k - 1]
  <2> SUFFICES ASSUME NEW k \in 1..n, k # 1 PROVE k - 1 \in 1..(n - 1) /\ q[k] = r[k - 1]
    OBVIOUS
  <2>1. PICK h \in 1..(n - 1) : h = k - 1 /\ h + 1 = k
    BY <1>1
  <2> QED
    BY <1>1, <2>1
<1>2. q[1].op \in {"add", "remove", "offline"}
  BY <1>1 DEF Msgs
<1>3. u \in next <=> adds(q[1], u) \/ (u \in present /\ ~removes(q[1], u))
  BY <1>1, <1>2 DEF handle, adds, removes
<1>4. ~(adds(q[1], u) /\ removes(q[1], u))
  BY DEF adds, removes
<1> HIDE DEF r, n, next
<1>5. ASSUME NEW i \in 1..n
      PROVE  GoneBefore(next, r, i, u) <=> GoneBefore(present, q, i + 1, u)
  <2>1. /\ \A k \in 1..(n - 1) : k + 1 \in 1..n /\ k + 1 > 1 /\ (k < i <=> k + 1 < i + 1)
        /\ \A k \in 1..n : k = 1 \/ (k - 1 \in 1..(n - 1) /\ (k - 1) + 1 = k)
        /\ 1 \in 1..n /\ 1 < i + 1
        /\ \A k, j \in 1..(n - 1) : k < j <=> k + 1 < j + 1
    BY <1>1
  <2>2. ASSUME GoneBefore(next, r, i, u) PROVE GoneBefore(present, q, i + 1, u)
    <3>1. CASE \E k \in 1..(n - 1) : /\ k < i /\ removes(r[k], u)
                                     /\ \A j \in 1..(n - 1) : k < j /\ j < i => ~adds(r[j], u)
      <4>1. PICK k \in 1..(n - 1) : /\ k < i /\ removes(r[k], u)
                                    /\ \A j \in 1..(n - 1) : k < j /\ j < i => ~adds(r[j], u)
        BY <3>1
      <4>2. k + 1 \in 1..n /\ k + 1 < i + 1 /\ removes(q[k + 1], u)
        BY <1>1, <2>1, <4>1
      <4>3. ASSUME NEW j \in 1..n, k + 1 < j, j < i + 1 PROVE ~adds(q[j], u)
        <5>1. j - 1 \in 1..(n - 1) /\ k < j - 1 /\ j - 1 < i /\ (j - 1) + 1 = j
          BY <1>1, <4>1, <4>3
        <5> QED
          BY <1>1, <1>a, <4>1, <4>3, <5>1
      <4>4. PICK h : h = k + 1
        OBVIOUS
      <4>5. /\ h \in 1..n /\ h < i + 1 /\ removes(q[h], u)
            /\ \A j \in 1..n : h < j /\ j < i + 1 => ~adds(q[j], u)
        BY <4>2, <4>3, <4>4
      <4> QED
        BY <4>5 DEF GoneBefore, n
    <3>2. CASE u \notin next /\ \A j \in 1..(n - 1) : j < i => ~adds(r[j], u)
      <4>1. ASSUME NEW j \in 1..n, j < i + 1 PROVE ~adds(q[j], u)
        <5>1. CASE j = 1
          BY <1>3, <3>2, <5>1
        <5>2. CASE j # 1
          <6>1. j - 1 \in 1..(n - 1) /\ j - 1 < i /\ (j - 1) + 1 = j
            BY <1>1, <4>1, <5>2
          <6> QED
            BY <1>a, <3>2, <5>2, <6>1
        <5> QED
          BY <5>1, <5>2
      <4>2. CASE u \notin present
        BY <4>1, <4>2 DEF GoneBefore, n
      <4>3. CASE removes(q[1], u)
        BY <2>1, <4>1, <4>3 DEF GoneBefore, n
      <4> QED
        BY <1>3, <3>2, <4>2, <4>3
    <3> QED
      BY <1>1, <2>2, <3>1, <3>2 DEF GoneBefore
  <2>3. ASSUME GoneBefore(present, q, i + 1, u) PROVE GoneBefore(next, r, i, u)
    <3>1. CASE \E k \in 1..n : /\ k < i + 1 /\ removes(q[k], u)
                               /\ \A j \in 1..n : k < j /\ j < i + 1 => ~adds(q[j], u)
      <4>1. PICK k \in 1..n : /\ k < i + 1 /\ removes(q[k], u)
                              /\ \A j \in 1..n : k < j /\ j < i + 1 => ~adds(q[j], u)
        BY <3>1
      <4>2. ASSUME NEW j \in 1..(n - 1), k < j + 1, j < i PROVE ~adds(r[j], u)
        BY <1>1, <2>1, <4>1, <4>2
      <4>3. CASE k = 1
        <5>1. u \notin next
          BY <1>3, <1>4, <4>1, <4>3
        <5>2. \A j \in 1..(n - 1) : j < i => ~adds(r[j], u)
          BY <1>1, <4>2, <4>3
        <5> QED
          BY <1>1, <5>1, <5>2 DEF GoneBefore
      <4>4. CASE k # 1
        <5>1. k - 1 \in 1..(n - 1) /\ k - 1 < i /\ (k - 1) + 1 = k
          BY <1>1, <4>1, <4>4
        <5>2. removes(r[k - 1], u)
          BY <1>a, <4>1, <4>4, <5>1
        <5>3. \A j \in 1..(n - 1) : k - 1 < j /\ j < i => ~adds(r[j], u)
          BY <1>1, <4>2
        <5>4. PICK h : h = k - 1
          OBVIOUS
        <5>5. /\ h \in 1..(n - 1) /\ h < i /\ removes(r[h], u)
              /\ \A j \in 1..(n - 1) : h < j /\ j < i => ~adds(r[j], u)
          BY <5>1, <5>2, <5>3, <5>4
        <5> QED
          BY <1>1, <5>5 DEF GoneBefore
      <4> QED
        BY <4>3, <4>4
    <3>2. CASE u \notin present /\ \A j \in 1..n : j < i + 1 => ~adds(q[j], u)
      <4>1. u \notin next
        BY <1>3, <2>1, <3>2
      <4>2. \A j \in 1..(n - 1) : j < i => ~adds(r[j], u)
        BY <1>1, <2>1, <3>2
      <4> QED
        BY <1>1, <4>1, <4>2 DEF GoneBefore
    <3> QED
      BY <2>3, <3>1, <3>2 DEF GoneBefore, n
  <2> QED
    BY <2>2, <2>3
<1>6. Gone(next, r, u) <=> Gone(present, q, u)
  <2>1. n \in 1..n /\ Len(r) + 1 = n
    BY <1>1
  <2> QED
    BY <1>5, <2>1 DEF Gone, n
<1> QED
  BY <1>5, <1>6 DEF r, n, next

\* ... nor the order, and an id that is added then has no rival.
LEMMA OrderedTail ==
  ASSUME NEW q \in Seq(Msgs), q # <<>>, NEW present, Ordered(present, q)
  PROVE  /\ Ordered(handle(present, Head(q)), Tail(q))
         /\ Head(q).op = "add" =>
              /\ Head(q).tran \in Trans
              /\ \A u \in Trans : Owner[u] = Owner[Head(q).tran] => u \notin present
<1> DEFINE r == Tail(q)
           n == Len(q)
           next == handle(present, Head(q))
<1>1. /\ n \in Nat \ {0} /\ Len(r) = n - 1 /\ Head(q) = q[1]
      /\ \A k \in 1..(n - 1) : r[k] = q[k + 1]
  OBVIOUS
<1>2. \A u : \A i \in 1..n : GoneBefore(next, r, i, u) <=> GoneBefore(present, q, i + 1, u)
  BY GoneTail
<1> HIDE DEF r, n, next
<1>3. Ordered(next, r)
  <2> SUFFICES ASSUME NEW i \in 1..(n - 1), r[i].op = "add"
               PROVE  /\ r[i].tran \in Trans
                      /\ \A u \in Trans : Owner[u] = Owner[r[i].tran] => GoneBefore(next, r, i, u)
    BY <1>1 DEF Ordered
  <2>1. i + 1 \in 1..n /\ i \in 1..n /\ r[i] = q[i + 1]
    BY <1>1
  <2> QED
    BY <1>2, <2>1 DEF Ordered, n
<1>4. ASSUME q[1].op = "add"
      PROVE  /\ q[1].tran \in Trans
             /\ \A u \in Trans : Owner[u] = Owner[q[1].tran] => u \notin present
  <2>1. 1 \in 1..n /\ \A k \in 1..n : ~(k < 1)
    BY <1>1
  <2> QED
    BY <1>4, <2>1 DEF Ordered, GoneBefore, n
<1> QED
  BY <1>1, <1>3, <1>4 DEF r, next

-----------------------------------------------------------------------------
(* The logins at the gate server *)

\* Of two logins of an account that were announced, one was kicked.
OneLogin ==
  /\ kicked \subseteq issued
  /\ \A t, u \in issued : t # u /\ Owner[t] = Owner[u] => t \in kicked \/ u \in kicked

\* A session that carries an id is the one online under it, or the account is no longer
\* registered under it.
Carried ==
  \A s \in Sessions : m_tranid[s] # NoTran =>
    m_onlines[m_tranid[s]] = s \/ m_onlineaccs[Owner[m_tranid[s]]] # m_tranid[s]

\* An id that was kicked cannot enter as a new player.  A session that still carries it may
\* close and let it reconnect, but the account is not registered under it by then, so it
\* cannot be handed over.
KickedGone ==
  \A t \in kicked :
    /\ m_wait_map[t] = NoAccount
    /\ \/ m_onlineaccs[Owner[t]] # t
       \/ (\A s \in Sessions : m_tranid[s] # t) /\ m_recon_map[t] = NoGame

LoginInv == OneLogin /\ Carried /\ KickedGone

\* What is known of the gate server alone
GateInv == TypeOK /\ MapInv /\ OnlinesOwn /\ IdOwned

\* The login server's messages keep the logins apart.
LEMMA AnnounceLogin ==
  ASSUME ~Reissue, GateInv, LoginInv, NEW t \in Trans, announce(t)
  PROVE  LoginInv'
<1> USE NullAssumption, OwnerAssumption
<1>1. /\ t \notin issued /\ issued' = issued \cup {t} /\ kicked' = kicked
      /\ m_wait_map' = addData(m_wait_map, t, Owner[t], NoAccount)
      /\ UNCHANGED <<m_tranid, m_recon_map>>
  BY DEF announce, parseLoginUser, LoginInv, OneLogin
<1>2. \A u \in issued \ {t} : Owner[u] = Owner[t] => u \in kicked
  BY DEF announce, L!Announce
<1>3. m_onlines[t] = NoSession
  BY <1>1 DEF GateInv, OnlinesOwn, IdOwned, TypeOK
<1>4. UNCHANGED <<m_onlines, m_onlineaccs>>
  BY <1>3 DEF announce, parseLoginUser, kickOnline
<1>5. \A u \in Trans \ {t} : m_wait_map'[u] = m_wait_map[u]
  BY <1>1 DEF addData, GateInv, TypeOK
<1>6. OneLogin'
  BY <1>1, <1>2 DEF LoginInv, OneLogin
<1>7. Carried'
  BY <1>1, <1>4 DEF LoginInv, Carried
<1>8. KickedGone'
  BY <1>1, <1>4, <1>5 DEF LoginInv, KickedGone, OneLogin, GateInv, TypeOK
<1> QED
  BY <1>6, <1>7, <1>8 DEF LoginInv

\* ... and a kick leaves the id no way in as a new player.
LEMMA KickLogin ==
  ASSUME GateInv, LoginInv, NEW t \in Trans, kick(t)
  PROVE  LoginInv'
<1> USE NullAssumption, OwnerAssumption
<1>1. t \in issued /\ issued' = issued /\ kicked' = kicked \cup {t} /\ m_tranid' = m_tranid
  BY DEF kick, parseLoginKick
<1>2. OneLogin'
  BY <1>1 DEF LoginInv, OneLogin
<1>3. CASE kickOnline(t, Owner[t]) /\ UNCHANGED <<m_wait_map, m_recon_map>>
  <2>1. /\ m_onlines' = [m_onlines EXCEPT ![t] = NoSession]
        /\ m_onlineaccs' = [m_onlineaccs EXCEPT ![Owner[t]] = NoTran]
        /\ m_onlines[t] # NoSession
    BY <1>3 DEF kickOnline, eraseData
  <2>2. Owner[t] \in Accounts /\ m_wait_map[t] = NoAccount
    BY <2>1 DEF GateInv, MapInv, WaitNotOnline
  <2>3. m_onlineaccs'[Owner[t]] # t
        /\ \A a \in Accounts : m_onlineaccs'[a] \in {m_onlineaccs[a], NoTran}
    BY <2>1, <2>2 DEF GateInv, TypeOK
  <2>4. Carried'
    BY <1>1, <2>1, <2>3 DEF LoginInv, Carried, GateInv, TypeOK
  <2>5. KickedGone'
    BY <1>1, <1>3, <2>2, <2>3 DEF LoginInv, KickedGone, OneLogin, GateInv, TypeOK
  <2> QED
    BY <1>2, <2>4, <2>5 DEF LoginInv
<1>4. CASE kickOffline(t)
  <2>1. /\ m_onlines[t] = NoSession /\ m_onlines' = m_onlines
        /\ m_wait_map' = [m_wait_map EXCEPT ![t] = NoAccount]
        /\ m_recon_map' = [m_recon_map EXCEPT ![t] = NoGame]
        /\ m_onlineaccs' = IF m_wait_map[t] # NoAccount
                           THEN [m_onlineaccs EXCEPT ![m_wait_map[t]] = NoTran] ELSE m_onlineaccs
    BY <1>4 DEF kickOffline, eraseData
  <2>2. \A a \in Accounts : m_onlineaccs'[a] \in {m_onlineaccs[a], NoTran}
    BY <2>1 DEF GateInv, TypeOK
  <2>3. m_onlineaccs'[Owner[t]] # t \/ \A s \in Sessions : m_tranid[s] # t
    BY <2>1, <2>2 DEF LoginInv, Carried, GateInv, TypeOK
  <2>4. Carried'
    BY <1>1, <2>1, <2>2 DEF LoginInv, Carried, GateInv, TypeOK
  <2>5. KickedGone'
    BY <1>1, <2>1, <2>2, <2>3 DEF LoginInv, KickedGone, OneLogin, GateInv, TypeOK
  <2> QED
    BY <1>2, <2>4, <2>5 DEF LoginInv
<1> QED
  BY <1>3, <1>4 DEF kick, parseLoginKick

\* A player closes: its id is carried by nobody then.
LEMMA CloseLogin ==
  ASSUME GateInv, LoginInv, NEW s \in Sessions, on_close(s), kicked' = kicked
  PROVE  LoginInv'
<1> USE NullAssumption, OwnerAssumption
<1>1. /\ m_tranid' = [m_tranid EXCEPT ![s] = NoTran]
      /\ UNCHANGED <<m_wait_map, issued>> /\ checkClose(s)
  BY DEF on_close
<1>2. \A u \in Trans : u # m_tranid[s] =>
        m_onlines'[u] = m_onlines[u] /\ m_recon_map'[u] = m_recon_map[u]
  BY <1>1 DEF checkClose, eraseData, addData, GateInv, TypeOK
<1>3. \A a \in Accounts : m_onlineaccs'[a] \in {m_onlineaccs[a], NoTran}
  BY <1>1 DEF checkClose, eraseValue, GateInv, TypeOK
<1>4. OneLogin'
  BY <1>1 DEF LoginInv, OneLogin
<1>5. Carried'
  <2>1. \A p \in Sessions \ {s} : m_tranid[p] # NoTran => m_tranid[p] # m_tranid[s]
    BY DEF GateInv, IdOwned
  <2> QED
    BY <1>1, <1>2, <1>3, <2>1 DEF LoginInv, Carried, GateInv, TypeOK
<1>6. KickedGone'
  BY <1>1, <1>2, <1>3 DEF LoginInv, KickedGone, OneLogin, GateInv, TypeOK
<1> QED
  BY <1>4, <1>5, <1>6 DEF LoginInv

\* A player enters.
LEMMA EnterLogin ==
  ASSUME GateInv, LoginInv, NEW s \in Sessions, NEW t \in Trans, parseLoginGame(s, t),
         kicked' = kicked
  PROVE  LoginInv'
<1> USE NullAssumption, OwnerAssumption
<1>1. issued' = issued
  BY DEF parseLoginGame
<1>2. OneLogin'
  BY <1>1 DEF LoginInv, OneLogin
<1>3. CASE refuse(s) /\ m_onlineaccs' = m_onlineaccs
  <2>1. /\ UNCHANGED <<m_tranid, m_onlines, m_onlineaccs>> /\ m_recon_map' = m_recon_map
        /\ \A u \in Trans : m_wait_map'[u] \in {m_wait_map[u], NoAccount}
    BY <1>3 DEF parseLoginGame, checkConnWait, checkConnRecon, checkConnRefuse, refuse, connect,
                eraseData, GateInv, TypeOK, States
  <2> QED
    BY <1>2, <2>1 DEF LoginInv, Carried, KickedGone, OneLogin, GateInv, TypeOK
<1>4. ASSUME NEW g, connect(s, t, g), m_wait_map[t] = Owner[t],
             m_onlineaccs' = addData(m_onlineaccs, Owner[t], t, NoTran),
             m_wait_map' = eraseData(m_wait_map, t, NoAccount), m_recon_map' = m_recon_map
      PROVE  LoginInv'
  <2>1. Owner[t] \in Accounts /\ t \notin kicked
    BY <1>4 DEF LoginInv, KickedGone
  <2>2. (\A p \in Sessions : m_tranid[p] # t) /\ m_onlines[t] = NoSession
    BY <1>4, <2>1, EnterAlone DEF GateInv
  <2>3. m_tranid' = [m_tranid EXCEPT ![s] = t] /\ m_onlines' = [m_onlines EXCEPT ![t] = s]
    BY <1>4, <2>2 DEF connect, addData
  <2>4. \A a \in Accounts : m_onlineaccs'[a] = m_onlineaccs[a] \/ (a = Owner[t] /\ m_onlineaccs'[a] = t)
    BY <1>4, <2>1 DEF addData, GateInv, TypeOK
  <2>5. Carried'
    <3> SUFFICES ASSUME NEW p \in Sessions, m_tranid'[p] # NoTran
                 PROVE  m_onlines'[m_tranid'[p]] = p \/ m_onlineaccs'[Owner[m_tranid'[p]]] # m_tranid'[p]
      BY DEF Carried
    <3>1. CASE p = s
      BY <2>3, <3>1 DEF GateInv, TypeOK
    <3>2. CASE p # s
      BY <2>2, <2>3, <2>4, <3>2 DEF GateInv, TypeOK, LoginInv, Carried
    <3> QED
      BY <3>1, <3>2
  <2>6. KickedGone'
    <3> SUFFICES ASSUME NEW u \in kicked
                 PROVE  /\ m_wait_map'[u] = NoAccount
                        /\ \/ m_onlineaccs'[Owner[u]] # u
                           \/ (\A p \in Sessions : m_tranid'[p] # u) /\ m_recon_map'[u] = NoGame
      BY DEF KickedGone
    <3>1. u \in Trans /\ u # t /\ Owner[u] \in Accounts
      BY <2>1 DEF LoginInv, OneLogin, GateInv, TypeOK
    <3> QED
      BY <1>4, <2>3, <2>4, <3>1 DEF eraseData, GateInv, TypeOK, LoginInv, KickedGone
  <2> QED
    BY <1>2, <2>5, <2>6 DEF LoginInv
<1>5. CASE checkConnRecon(s, t)
  <2>1. /\ m_wait_map[t] = NoAccount /\ m_recon_map[t] # NoGame /\ UNCHANGED <<m_wait_map, m_onlineaccs>>
        /\ m_recon_map' = [m_recon_map EXCEPT ![t] = NoGame] /\ connect(s, t, m_recon_map[t])
    BY <1>5 DEF checkConnRecon, eraseData
  <2>2. (\A p \in Sessions : m_tranid[p] # t) /\ m_onlines[t] = NoSession
    BY <2>1, EnterAlone DEF GateInv
  <2>3. m_tranid' = [m_tranid EXCEPT ![s] = t] /\ m_onlines' = [m_onlines EXCEPT ![t] = s]
    BY <2>1, <2>2 DEF connect, addData
  <2>4. Carried'
    BY <2>1, <2>2, <2>3 DEF LoginInv, Carried, GateInv, TypeOK
  <2>5. KickedGone'
    BY <2>1, <2>3 DEF LoginInv, KickedGone, OneLogin, GateInv, TypeOK
  <2> QED
    BY <1>2, <2>4, <2>5 DEF LoginInv
<1>6. CASE checkConnWait(s, t)
  <2>1. m_wait_map[t] # NoAccount => m_wait_map[t] = Owner[t]
    BY DEF GateInv, MapInv, AccountsOwn
  <2> QED
    BY <1>3, <1>4, <1>6, <2>1 DEF checkConnWait
<1>7. CASE checkConnRefuse(s, t)
  BY <1>3, <1>7 DEF checkConnRefuse
<1> QED
  BY <1>5, <1>6, <1>7 DEF parseLoginGame

\* The other steps take entries away, or leave the logins alone.
LEMMA OtherLogin ==
  ASSUME GateInv, LoginInv, UNCHANGED <<kicked, issued, m_tranid, m_onlines>>,
         \A u \in Trans : /\ m_wait_map'[u] \in {m_wait_map[u], NoAccount}
                          /\ m_recon_map'[u] \in {m_recon_map[u], NoGame},
         \A a \in Accounts : m_onlineaccs'[a] \in {m_onlineaccs[a], NoTran}
  PROVE  LoginInv'
<1> USE NullAssumption, OwnerAssumption
<1>1. OneLogin'
  BY DEF LoginInv, OneLogin
<1>2. Carried'
  BY DEF LoginInv, Carried, GateInv, TypeOK
<1>3. KickedGone'
  BY DEF LoginInv, KickedGone, OneLogin, GateInv, TypeOK
<1> QED
  BY <1>1, <1>2, <1>3 DEF LoginInv

\* One step keeps the logins apart.
LEMMA LoginStep ==
  ASSUME ~Reissue, GateInv, LoginInv, [SysNext]_allVars
  PROVE  LoginInv'
<1> USE NullAssumption, OwnerAssumption
<1>1. CASE UNCHANGED <<kicked, issued, m_tranid, mapVars>>
  BY <1>1, OtherLogin DEF mapVars
<1>2. ASSUME NEW t \in Trans, eventCallRemoveWait(t) \/ eventCallRemoveReconn(t), kicked' = kicked
      PROVE  LoginInv'
  <2>1. UNCHANGED <<issued, m_tranid, m_onlines>>
    BY <1>2 DEF eventCallRemoveWait, eventCallRemoveReconn, sessVars
  <2>2. \A u \in Trans : /\ m_wait_map'[u] \in {m_wait_map[u], NoAccount}
                         /\ m_recon_map'[u] \in {m_recon_map[u], NoGame}
    BY <1>2 DEF eventCallRemoveWait, eventCallRemoveReconn, eraseData, GateInv, TypeOK
  <2>3. \A a \in Accounts : m_onlineaccs'[a] \in {m_onlineaccs[a], NoTran}
    BY <1>2 DEF eventCallRemoveWait, eventCallRemoveReconn, eraseValue, GateInv, TypeOK
  <2> QED
    BY <1>2, <2>1, <2>2, <2>3, OtherLogin
<1>3. ASSUME NEW g \in Games, gateLost(g) PROVE LoginInv'
  <2>1. UNCHANGED <<kicked, issued, m_tranid, m_onlines, m_wait_map, m_onlineaccs>>
    BY <1>3 DEF gateLost, gameClientClose, sysVars
  <2>2. \A u \in Trans : m_recon_map'[u] \in {m_recon_map[u], NoGame}
    BY <1>3 DEF gateLost, gameClientClose, eraseValue, GateInv, TypeOK
  <2> QED
    BY <2>1, <2>2, OtherLogin
<1>4. ASSUME NEW s \in Sessions, on_accept(s) \/ parsePingMsg(s) \/ setClose(s) \/ noPing(s),
             kicked' = kicked
      PROVE  LoginInv'
  BY <1>1, <1>4 DEF on_accept, parsePingMsg, setClose, noPing
<1>5. ASSUME NEW g \in Games, NEW g2 \in Games, NEW t \in Trans, changeGS(g, t, g2) PROVE LoginInv'
  BY <1>1, <1>5 DEF changeGS, parseChangeGS
<1>6. ASSUME NEW g \in Games,
             \/ addGate(g) \/ gateRegister(g) \/ removeGate(g) \/ receive(g)
             \/ \E o \in Spare : removeReplaced(g, o) \/ receiveLate(g, o)
      PROVE  LoginInv'
  BY <1>1, <1>6 DEF addGate, gateRegister, parseGameRegister, removeGate, receive, removeReplaced,
                    receiveLate, vars, sessVars
<1>7. CASE gateStep
  BY <1>2, <1>4, <1>5, <1>7, AnnounceLogin, KickLogin, CloseLogin, EnterLogin
     DEF gateStep, ClientNext, TimerNext
<1>8. CASE UNCHANGED allVars
  BY <1>1, <1>8 DEF allVars, sysVars, vars, sessVars
<1> QED
  BY <1>3, <1>6, <1>7, <1>8 DEF SysNext

-----------------------------------------------------------------------------
(* The messages to the game servers *)

SysTyped ==
  /\ chan \in [Games -> Seq(Msgs)]
  /\ link \in [Games -> Links]
  /\ replaced \in [Games -> SUBSET Spare]
  /\ late \in [Games -> [Spare -> Seq(Msgs)]]
  /\ strays \in [Games -> SUBSET Trans]
  /\ m_Onlines \in [Games -> SUBSET Trans]

\* The Sessions of game server g that came over the connection in m_Gates
Own(g) == m_Onlines[g] \ strays[g]

\* A connection that the gate server does not use yet, or that the game server has closed,
\* carries nothing, and has brought no Session.
LinkInv ==
  \A g \in Games :
    /\ link[g] # "used" => chan[g] = <<>> /\ Own(g) = {}
    /\ link[g] \in {"new", "shut"} => g \notin active

\* What a replaced connection still brings is a stray, and a closed one brings nothing.
LateInv ==
  \A g \in Games, o \in Spare :
    /\ added(late[g][o]) \subseteq strays[g]
    /\ o \notin replaced[g] => late[g][o] = <<>>

\* Game server g has no Session for u once it has read what is under way on the connection
\* in m_Gates, but for one that a replaced connection brought.
GoneAt(g, u) == Gone(Own(g), chan[g], u)

\* The gate server has u online on g, or waiting to reconnect to it.
Here(g, u) ==
  \/ m_recon_map[u] = g
  \/ m_onlines[u] # NoSession /\ m_gs_id[m_onlines[u]] = g

\* What the gate server does not have on a game server, or was told to kick, will be gone.
Known == \A g \in active, u \in Trans : GoneAt(g, u) \/ (u \notin kicked /\ Here(g, u))

\* Each message finds the game server ready for it.
InOrder == \A g \in Games : Ordered(Own(g), chan[g])

ChanInv == SysTyped /\ LinkInv /\ LateInv /\ InOrder
MsgInv == ChanInv /\ Known

\* A connection that is down or new: nothing is known there.
LEMMA NothingThere == Ordered({}, <<>>) /\ \A u : Gone({}, <<>>, u)
BY DEF Gone, GoneBefore, Ordered

\* One message joins the messages under way to game server g, if it is for g.
LEMMA PutStep ==
  ASSUME NEW q \in Seq(Msgs), NEW m \in Msgs, NEW g, NEW present, Ordered(present, q),
         m.to = g /\ m.op = "add" =>
           /\ m.tran \in Trans
           /\ \A u \in Trans : Owner[u] = Owner[m.tran] => Gone(present, q, u)
  PROVE  /\ put(q, g, m) \in Seq(Msgs)
         /\ Ordered(present, put(q, g, m))
         /\ \A u : Gone(present, put(q, g, m), u) <=>
                     \/ m.to = g /\ removes(m, u)
                     \/ Gone(present, q, u) /\ ~(m.to = g /\ adds(m, u))
<1>1. CASE m.to # g
  BY <1>1 DEF put
<1>2. CASE m.to = g
  <2>1. put(q, g, m) = Append(q, m)
    BY <1>2 DEF put
  <2>2. Append(q, m) \in Seq(Msgs)
    OBVIOUS
  <2>3. Ordered(present, Append(q, m))
    BY <1>2, OrderedAppend
  <2>4. \A u : Gone(present, Append(q, m), u) <=>
                removes(m, u) \/ (Gone(present, q, u) /\ ~adds(m, u))
    BY GoneAppend
  <2> QED
    BY <1>2, <2>1, <2>2, <2>3, <2>4
<1> QED
  BY <1>1, <1>2

\* A step that sends nothing
LEMMA SendNone ==
  ASSUME ChanInv, sendAll, sent' = <<>>, UNCHANGED <<active, link, oldVars, m_Onlines>>
  PROVE  ChanInv' /\ \A g \in Games, u \in Trans : GoneAt(g, u)' <=> GoneAt(g, u)
<1>1. Len(sent') = 0
  OBVIOUS
<1>2. \A g \in Games : chan'[g] = chan[g]
  BY <1>1 DEF sendAll, deliver, connected, ChanInv, LinkInv
<1>o. UNCHANGED <<replaced, late, strays>> /\ \A g : Own(g)' = Own(g)
  BY DEF oldVars, Own
<1>3. chan' \in [Games -> Seq(Msgs)]
  BY <1>2 DEF sendAll, ChanInv, SysTyped
<1> QED
  BY <1>2, <1>3, <1>o DEF ChanInv, SysTyped, LinkInv, LateInv, InOrder, GoneAt

\* A step that sends one message
LEMMA SendOne ==
  ASSUME ChanInv, sendAll, UNCHANGED <<active, link, oldVars, m_Onlines>>,
         NEW m \in Msgs, sent' = <<m>>, m.to \in active, active \subseteq Games,
         m.op = "add" => /\ m.tran \in Trans
                         /\ \A u \in Trans : Owner[u] = Owner[m.tran] => GoneAt(m.to, u)
  PROVE  /\ ChanInv'
         /\ \A g \in Games, u \in Trans :
              \/ m.to = g /\ removes(m, u)
              \/ GoneAt(g, u) /\ ~(m.to = g /\ adds(m, u))
              => GoneAt(g, u)'
<1>1. Len(sent') = 1 /\ sent'[1] = m
  OBVIOUS
<1>2. \A g \in Games : chan'[g] = IF ~connected(g) THEN <<>> ELSE put(chan[g], g, m)
  BY <1>1 DEF sendAll, deliver
<1>3. ASSUME NEW g \in Games
      PROVE  /\ chan'[g] \in Seq(Msgs)
             /\ link[g] # "used" => chan'[g] = <<>>
             /\ Ordered(Own(g), chan'[g])
             /\ \A u \in Trans :
                  \/ m.to = g /\ removes(m, u)
                  \/ GoneAt(g, u) /\ ~(m.to = g /\ adds(m, u))
                  => Gone(Own(g), chan'[g], u)
  <2>1. CASE ~connected(g)
    <3>1. chan'[g] = <<>> /\ Own(g) = {}
      BY <1>2, <2>1 DEF ChanInv, LinkInv, connected
    <3>2. <<>> \in Seq(Msgs)
      OBVIOUS
    <3> QED
      BY <3>1, <3>2, NothingThere
  <2>2. CASE connected(g)
    <3>1. chan'[g] = put(chan[g], g, m) /\ chan[g] \in Seq(Msgs) /\ Ordered(Own(g), chan[g])
      BY <1>2, <2>2 DEF ChanInv, SysTyped, InOrder
    <3>2. m.to = g /\ m.op = "add" =>
            /\ m.tran \in Trans
            /\ \A u \in Trans : Owner[u] = Owner[m.tran] => Gone(Own(g), chan[g], u)
      BY DEF GoneAt
    <3>3. PICK q, present : q = chan[g] /\ present = Own(g)
      OBVIOUS
    <3>4. /\ put(q, g, m) \in Seq(Msgs)
          /\ Ordered(present, put(q, g, m))
          /\ \A u : Gone(present, put(q, g, m), u) <=>
                      \/ m.to = g /\ removes(m, u)
                      \/ Gone(present, q, u) /\ ~(m.to = g /\ adds(m, u))
      BY <3>1, <3>2, <3>3, PutStep
    <3>5. link[g] # "used" => chan'[g] = <<>>
      BY <2>2, <3>1 DEF ChanInv, SysTyped, Links, LinkInv, connected, put
    <3> QED
      BY <3>1, <3>3, <3>4, <3>5 DEF GoneAt
  <2> QED
    BY <2>1, <2>2
<1>4. chan' \in [Games -> Seq(Msgs)]
  BY <1>3 DEF sendAll
<1>o. UNCHANGED <<replaced, late, strays>> /\ \A g : Own(g)' = Own(g)
  BY DEF oldVars, Own
<1> QED
  BY <1>3, <1>4, <1>o DEF ChanInv, SysTyped, LinkInv, LateInv, InOrder, GoneAt

\* A step that hands the player t over from g0 to g2
LEMMA SendTwo ==
  ASSUME ChanInv, sendAll, UNCHANGED <<active, link, oldVars, m_Onlines>>, active \subseteq Games,
         NEW g0 \in active, NEW g2 \in active, NEW t \in Trans, NEW a \in Accounts,
         sent' = removePlayer(g0, t) \o addNewPlayer(g2, t, a),
         \A u \in Trans : Owner[u] = Owner[t] => (u = t /\ g0 = g2) \/ GoneAt(g2, u)
  PROVE  /\ ChanInv'
         /\ \A g \in Games, u \in Trans :
              ~(g = g2 /\ u = t) /\ ((g = g0 /\ u = t) \/ GoneAt(g, u)) => GoneAt(g, u)'
<1> DEFINE m1 == [to |-> g0, op |-> "remove", tran |-> t, acc |-> NoAccount]
           m2 == [to |-> g2, op |-> "add", tran |-> t, acc |-> a]
<1>1. Len(sent') = 2 /\ sent'[1] = m1 /\ sent'[2] = m2
  BY DEF removePlayer, addNewPlayer
<1>2. m1 \in Msgs /\ m2 \in Msgs
  BY DEF Msgs
<1>3. /\ m1.to = g0 /\ m2.to = g2 /\ m1.op = "remove" /\ m2.op = "add" /\ m2.tran = t
      /\ \A u : (removes(m1, u) <=> u = t) /\ ~adds(m1, u) /\ ~removes(m2, u) /\ (adds(m2, u) <=> u = t)
  BY DEF adds, removes
<1> HIDE DEF m1, m2
<1>4. \A g \in Games : chan'[g] = IF ~connected(g) THEN <<>> ELSE put(put(chan[g], g, m1), g, m2)
  BY <1>1 DEF sendAll, deliver
<1>5. ASSUME NEW g \in Games
      PROVE  /\ chan'[g] \in Seq(Msgs)
             /\ link[g] # "used" => chan'[g] = <<>>
             /\ Ordered(Own(g), chan'[g])
             /\ \A u \in Trans :
                  ~(g = g2 /\ u = t) /\ ((g = g0 /\ u = t) \/ GoneAt(g, u))
                  => Gone(Own(g), chan'[g], u)
  <2>1. CASE ~connected(g)
    <3>1. chan'[g] = <<>> /\ Own(g) = {}
      BY <1>4, <2>1 DEF ChanInv, LinkInv, connected
    <3>2. <<>> \in Seq(Msgs)
      OBVIOUS
    <3> QED
      BY <3>1, <3>2, NothingThere
  <2>2. CASE connected(g)
    <3>1. PICK q, present : q = chan[g] /\ present = Own(g)
      OBVIOUS
    <3>2. q \in Seq(Msgs) /\ Ordered(present, q)
      BY <3>1 DEF ChanInv, SysTyped, InOrder
    <3>3. PICK r : r = put(q, g, m1)
      OBVIOUS
    <3>4. /\ r \in Seq(Msgs) /\ Ordered(present, r)
          /\ \A u : Gone(present, r, u) <=> (g = g0 /\ u = t) \/ Gone(present, q, u)
      <4>1. /\ put(q, g, m1) \in Seq(Msgs)
            /\ Ordered(present, put(q, g, m1))
            /\ \A u : Gone(present, put(q, g, m1), u) <=>
                        \/ m1.to = g /\ removes(m1, u)
                        \/ Gone(present, q, u) /\ ~(m1.to = g /\ adds(m1, u))
        BY <1>2, <1>3, <3>2, PutStep
      <4> QED
        BY <1>3, <3>3, <4>1
    <3>5. m2.to = g /\ m2.op = "add" =>
            /\ m2.tran \in Trans
            /\ \A u \in Trans : Owner[u] = Owner[m2.tran] => Gone(present, r, u)
      BY <1>3, <3>1, <3>4 DEF GoneAt
    <3>6. /\ put(r, g, m2) \in Seq(Msgs)
          /\ Ordered(present, put(r, g, m2))
          /\ \A u : Gone(present, put(r, g, m2), u) <=>
                      \/ m2.to = g /\ removes(m2, u)
                      \/ Gone(present, r, u) /\ ~(m2.to = g /\ adds(m2, u))
      BY <1>2, <3>4, <3>5, PutStep
    <3>7. chan'[g] = put(r, g, m2)
      BY <1>4, <2>2, <3>1, <3>3
    <3>8. link[g] # "used" => chan'[g] = <<>>
      BY <1>3, <2>2, <3>1, <3>3, <3>7 DEF ChanInv, SysTyped, Links, LinkInv, connected, put
    <3> QED
      BY <1>3, <3>1, <3>4, <3>6, <3>7, <3>8 DEF GoneAt
  <2> QED
    BY <2>1, <2>2
<1>6. chan' \in [Games -> Seq(Msgs)]
  BY <1>5 DEF sendAll
<1>o. UNCHANGED <<replaced, late, strays>> /\ \A g : Own(g)' = Own(g)
  BY DEF oldVars, Own
<1> QED
  BY <1>5, <1>6, <1>o DEF ChanInv, SysTyped, LinkInv, LateInv, InOrder, GoneAt

-----------------------------------------------------------------------------
(* What the game servers know *)

\* A step that sends nothing and takes no player away
LEMMA QuietMsg ==
  ASSUME TypeOK, MsgInv, sendAll, sent' = <<>>, UNCHANGED <<active, link, oldVars, m_Onlines>>,
         \A g \in active, u \in Trans : u \notin kicked /\ Here(g, u) => u \notin kicked' /\ Here(g, u)'
  PROVE  MsgInv'
<1>1. active \subseteq Games
  BY DEF TypeOK
<1>2. ChanInv' /\ \A g \in Games, u \in Trans : GoneAt(g, u)' <=> GoneAt(g, u)
  BY SendNone DEF MsgInv
<1> QED
  BY <1>1, <1>2 DEF MsgInv, Known

\* A player's connection is lost; it stays here.
LEMMA OfflineMsg ==
  ASSUME TypeOK, MsgInv, sendAll, UNCHANGED <<active, link, oldVars, m_Onlines>>,
         NEW t \in Trans, NEW gs \in active, sent' = offlinePlayer(gs, t),
         \A g \in active, u \in Trans : u \notin kicked /\ Here(g, u) => u \notin kicked' /\ Here(g, u)'
  PROVE  MsgInv'
<1>1. active \subseteq Games
  BY DEF TypeOK
<1>2. PICK m : m = [to |-> gs, op |-> "offline", tran |-> t, acc |-> NoAccount]
  OBVIOUS
<1>3. m \in Msgs /\ m.to \in active /\ m.op # "add" /\ sent' = <<m>>
  BY <1>1, <1>2 DEF Msgs, offlinePlayer
<1>4. /\ ChanInv'
      /\ \A g \in Games, u \in Trans : GoneAt(g, u) /\ ~(m.to = g /\ adds(m, u)) => GoneAt(g, u)'
  BY <1>1, <1>3, SendOne DEF MsgInv
<1> QED
  BY <1>1, <1>3, <1>4 DEF MsgInv, Known, adds

\* The player t leaves gs, if it was here; its game server is told.
LEMMA LeaveMsg ==
  ASSUME TypeOK, MsgInv, sendAll, UNCHANGED <<active, link, oldVars, m_Onlines>>,
         NEW t \in Trans, NEW gs, sent' = removeIfActive(gs, t),
         \A g \in active, u \in Trans : u \notin kicked /\ Here(g, u) =>
           (u \notin kicked' /\ Here(g, u)') \/ (u = t /\ g = gs)
  PROVE  MsgInv'
<1>1. active \subseteq Games
  BY DEF TypeOK
<1>2. CASE gs \notin active
  <2>1. sent' = <<>>
    BY <1>2 DEF removeIfActive, getGameClient
  <2> QED
    BY <1>2, <2>1, QuietMsg
<1>3. CASE gs \in active
  <2>1. PICK m : m = [to |-> gs, op |-> "remove", tran |-> t, acc |-> NoAccount]
    OBVIOUS
  <2>2. m \in Msgs /\ m.to = gs /\ m.op = "remove" /\ m.tran = t /\ sent' = <<m>>
    BY <1>1, <1>3, <2>1 DEF Msgs, removePlayer, removeIfActive, getGameClient
  <2>3. /\ ChanInv'
        /\ \A g \in Games, u \in Trans :
             \/ m.to = g /\ removes(m, u)
             \/ GoneAt(g, u) /\ ~(m.to = g /\ adds(m, u))
             => GoneAt(g, u)'
    BY <1>1, <1>3, <2>2, SendOne DEF MsgInv
  <2>4. \A g \in active, u \in Trans : GoneAt(g, u) \/ (u = t /\ g = gs) => GoneAt(g, u)'
    BY <1>1, <2>2, <2>3 DEF adds, removes
  <2> QED
    BY <2>3, <2>4 DEF MsgInv, Known
<1> QED
  BY <1>2, <1>3

\* A player enters on game server g: no id of its account has a Session there by then.
LEMMA Alone ==
  ASSUME GateInv, LoginInv, MsgInv, NEW t \in Trans, t \in issued, t \notin kicked,
         NEW u \in Trans, Owner[u] = Owner[t], u # t, NEW g \in active
  PROVE  GoneAt(g, u)
<1>1. u \in issued => u \in kicked
  BY DEF LoginInv, OneLogin
<1>2. u \notin issued => ~Here(g, u)
  <2>1. g # NoGame
    BY NullAssumption DEF GateInv, TypeOK
  <2> QED
    BY <2>1, NullAssumption DEF GateInv, TypeOK, OnlinesOwn, IdOwned, Here
<1> QED
  BY <1>1, <1>2 DEF MsgInv, Known

\* The login server kicks.
LEMMA KickMsg ==
  ASSUME GateInv, LoginInv, MsgInv, NEW t \in Trans, kick(t), sendAll, UNCHANGED <<link, oldVars, m_Onlines>>
  PROVE  MsgInv'
<1> USE NullAssumption
<1>1. kicked' = kicked \cup {t} /\ UNCHANGED <<active, m_gs_id>>
  BY DEF kick, parseLoginKick
<1>2. CASE kickOnline(t, Owner[t]) /\ m_recon_map' = m_recon_map
  <2>1. /\ m_onlines[t] # NoSession /\ sent' = removeIfActive(m_gs_id[m_onlines[t]], t)
        /\ m_onlines' = [m_onlines EXCEPT ![t] = NoSession]
    BY <1>2 DEF kickOnline, eraseData
  <2>2. m_recon_map[t] = NoGame
    BY <2>1 DEF GateInv, OnlinesOwn, IdOwned, TypeOK
  <2>3. \A g \in active, u \in Trans : u \notin kicked /\ Here(g, u) =>
           (u \notin kicked' /\ Here(g, u)') \/ (u = t /\ g = m_gs_id[m_onlines[t]])
    BY <1>1, <1>2, <2>1, <2>2 DEF GateInv, TypeOK, Here
  <2> QED
    BY <1>1, <2>1, <2>3, LeaveMsg DEF GateInv
<1>3. CASE kickOffline(t)
  <2>1. /\ m_onlines[t] = NoSession /\ m_onlines' = m_onlines
        /\ m_recon_map' = [m_recon_map EXCEPT ![t] = NoGame]
        /\ sent' = IF m_recon_map[t] # NoGame THEN removeIfActive(m_recon_map[t], t) ELSE <<>>
    BY <1>3 DEF kickOffline, eraseData
  <2>2. sent' = removeIfActive(m_recon_map[t], t)
    BY <2>1 DEF removeIfActive, getGameClient, GateInv, TypeOK
  <2>3. \A g \in active, u \in Trans : u \notin kicked /\ Here(g, u) =>
           (u \notin kicked' /\ Here(g, u)') \/ (u = t /\ g = m_recon_map[t])
    BY <1>1, <2>1 DEF GateInv, TypeOK, Here
  <2> QED
    BY <1>1, <2>2, <2>3, LeaveMsg DEF GateInv
<1> QED
  BY <1>2, <1>3 DEF kick, parseLoginKick

\* The login server announces.
LEMMA AnnounceMsg ==
  ASSUME ~Reissue, GateInv, LoginInv, MsgInv, NEW t \in Trans, announce(t), sendAll,
         UNCHANGED <<link, oldVars, m_Onlines>>
  PROVE  MsgInv'
<1>1. t \notin issued /\ kicked' = kicked /\ UNCHANGED <<m_recon_map, m_gs_id, active>>
  BY DEF announce, parseLoginUser, LoginInv, OneLogin
<1>2. m_onlines[t] = NoSession
  BY <1>1, NullAssumption DEF GateInv, OnlinesOwn, IdOwned, TypeOK
<1>3. m_onlines' = m_onlines /\ sent' = <<>>
  BY <1>2 DEF announce, parseLoginUser, kickOnline
<1> QED
  BY <1>1, <1>3, QuietMsg DEF GateInv, Here

\* A connection closes.
LEMMA CloseMsg ==
  ASSUME GateInv, MsgInv, NEW s \in Sessions, on_close(s), sendAll,
         UNCHANGED <<kicked, link, oldVars, m_Onlines>>
  PROVE  MsgInv'
<1> USE NullAssumption
<1>1. m_gs_id' = [m_gs_id EXCEPT ![s] = NoGame] /\ active' = active /\ checkClose(s)
  BY DEF on_close
<1>2. \A u \in Trans : m_onlines[u] = s => u = m_tranid[s]
  BY DEF GateInv, OnlinesOwn
<1>3. CASE m_tranid[s] = NoTran
  <2>1. sent' = <<>> /\ UNCHANGED <<m_onlines, m_recon_map>>
    BY <1>1, <1>3 DEF checkClose
  <2>2. \A g \in active, u \in Trans : Here(g, u) => Here(g, u)'
    BY <1>1, <1>2, <1>3, <2>1 DEF GateInv, TypeOK, Here
  <2> QED
    BY <1>1, <2>1, <2>2, QuietMsg DEF GateInv
<1>4. CASE m_tranid[s] # NoTran
  <2>1. PICK t, gs : t = m_tranid[s] /\ gs = m_gs_id[s]
    OBVIOUS
  <2>2. t \in Trans /\ m_recon_map[t] = NoGame /\ m_onlines' = [m_onlines EXCEPT ![t] = NoSession]
    BY <1>1, <1>4, <2>1 DEF checkClose, eraseData, GateInv, TypeOK, IdOwned
  <2>3. m_onlines[t] \in {s, NoSession}
    BY <2>1, <2>2 DEF GateInv, TypeOK, OnlinesOwn, IdOwned
  <2>4. \A u \in Trans \ {t} : m_onlines[u] # NoSession => m_onlines[u] # s
    BY <1>2, <2>1
  <2>5. CASE gs \in active /\ m_recon_map' = [m_recon_map EXCEPT ![t] = gs] /\ sent' = offlinePlayer(gs, t)
    <3>1. \A g \in active, u \in Trans : Here(g, u) => Here(g, u)'
      BY <1>1, <2>1, <2>2, <2>3, <2>4, <2>5 DEF GateInv, TypeOK, Here
    <3> QED
      BY <1>1, <2>2, <2>5, <3>1, OfflineMsg DEF GateInv
  <2>6. CASE m_recon_map' = m_recon_map /\ sent' = removeIfActive(gs, t)
    <3>1. \A g \in active, u \in Trans : Here(g, u) => Here(g, u)' \/ (u = t /\ g = gs)
      BY <1>1, <2>1, <2>2, <2>3, <2>4, <2>6 DEF GateInv, TypeOK, Here
    <3> QED
      BY <1>1, <2>2, <2>6, <3>1, LeaveMsg DEF GateInv
  <2> QED
    BY <1>1, <1>4, <2>1, <2>2, <2>5, <2>6 DEF checkClose, getGameClient, addData
<1> QED
  BY <1>3, <1>4

\* A player enters.
LEMMA EnterMsg ==
  ASSUME ~LateLogin, GateInv, LoginInv, MsgInv, NEW s \in Sessions, NEW t \in Trans,
         parseLoginGame(s, t), sendAll, UNCHANGED <<kicked, link, oldVars, m_Onlines>>
  PROVE  MsgInv'
<1> USE NullAssumption
<1>1. active' = active /\ m_state[s] = "_wait_account_"
  BY DEF parseLoginGame
<1>2. \A u \in Trans : m_onlines[u] # NoSession => m_onlines[u] # s
  BY <1>1 DEF GateInv, OnlinesOwn
<1>3. CASE refuse(s) /\ sent' = <<>> /\ m_recon_map' = m_recon_map
  BY <1>1, <1>3, QuietMsg DEF refuse, GateInv, Here
<1>4. CASE checkConnRecon(s, t)
  <2>1. /\ m_recon_map[t] # NoGame /\ sent' = <<>> /\ connect(s, t, m_recon_map[t])
        /\ m_recon_map' = [m_recon_map EXCEPT ![t] = NoGame]
    BY <1>4 DEF checkConnRecon, eraseData
  <2>2. m_onlines[t] = NoSession
    BY <2>1, EnterAlone DEF GateInv
  <2>3. /\ m_onlines' = [m_onlines EXCEPT ![t] = s]
        /\ m_gs_id' = [m_gs_id EXCEPT ![s] = m_recon_map[t]]
    BY <2>1, <2>2 DEF connect, addData
  <2>4. \A g \in active, u \in Trans : Here(g, u) => Here(g, u)'
    BY <1>2, <2>1, <2>2, <2>3 DEF GateInv, TypeOK, Here
  <2> QED
    BY <1>1, <2>1, <2>4, QuietMsg DEF GateInv
<1>5. ASSUME NEW g0 \in active, m_wait_map[t] # NoAccount, connect(s, t, g0),
             sent' = addNewPlayer(g0, t, m_wait_map[t]), m_recon_map' = m_recon_map
      PROVE  MsgInv'
  <2>1. t \in issued /\ m_recon_map[t] = NoGame /\ m_onlines[t] = NoSession
    BY <1>5, EnterAlone DEF GateInv, IdOwned, TypeOK
  <2>2. t \notin kicked
    BY <1>5 DEF LoginInv, KickedGone
  <2>3. m_onlines' = [m_onlines EXCEPT ![t] = s] /\ m_gs_id' = [m_gs_id EXCEPT ![s] = g0]
    BY <1>5, <2>1 DEF connect, addData
  <2>4. ~Here(g0, t)
    BY <2>1 DEF Here, GateInv, TypeOK
  <2>5. \A u \in Trans : Owner[u] = Owner[t] => GoneAt(g0, u)
    BY <2>1, <2>2, <2>4, Alone DEF MsgInv, Known
  <2>6. active \subseteq Games /\ m_wait_map[t] \in Accounts
    BY <1>5 DEF GateInv, TypeOK
  <2>7. PICK m : m = [to |-> g0, op |-> "add", tran |-> t, acc |-> m_wait_map[t]]
    OBVIOUS
  <2>8. m \in Msgs /\ m.to = g0 /\ m.tran = t /\ m.op = "add" /\ sent' = <<m>>
    BY <1>5, <2>6, <2>7 DEF Msgs, addNewPlayer
  <2>9. /\ ChanInv'
        /\ \A g \in Games, u \in Trans : GoneAt(g, u) /\ ~(m.to = g /\ adds(m, u)) => GoneAt(g, u)'
    BY <1>1, <1>5, <2>5, <2>6, <2>8, SendOne DEF MsgInv
  <2>10. \A g \in active, u \in Trans : Here(g, u) => Here(g, u)'
    BY <1>2, <1>5, <2>1, <2>3 DEF GateInv, TypeOK, Here
  <2>11. Here(g0, t)'
    BY <2>3 DEF GateInv, TypeOK, Here
  <2>12. Known'
    BY <1>1, <2>2, <2>6, <2>8, <2>9, <2>10, <2>11 DEF MsgInv, Known, adds
  <2> QED
    BY <2>9, <2>12 DEF MsgInv
<1>6. CASE checkConnWait(s, t)
  BY <1>3, <1>5, <1>6 DEF checkConnWait, getIdleGameClient
<1>7. CASE checkConnRefuse(s, t)
  BY <1>3, <1>7 DEF checkConnRefuse
<1> QED
  BY <1>4, <1>6, <1>7 DEF parseLoginGame

\* A game server hands a player over.
LEMMA ChangeMsg ==
  ASSUME GateInv, LoginInv, MsgInv, NEW g0 \in Games, NEW g2 \in Games, NEW t \in Trans,
         changeGS(g0, t, g2), sendAll, UNCHANGED <<link, oldVars, m_Onlines>>
  PROVE  MsgInv'
<1> USE NullAssumption
<1>1. PICK p : p = m_onlines[t]
  OBVIOUS
<1>2. /\ p # NoSession /\ m_gs_id[p] = g0 /\ g0 \in active
      /\ UNCHANGED <<kicked, active, m_onlines, m_recon_map>>
  BY <1>1 DEF changeGS, parseChangeGS, mapVars
<1>3. p \in Sessions /\ m_tranid[p] = t /\ t \in issued /\ m_recon_map[t] = NoGame
  BY <1>1, <1>2 DEF GateInv, OnlinesOwn, IdOwned, TypeOK
<1>4. CASE sent' = <<>> /\ m_gs_id' = m_gs_id
  BY <1>2, <1>4, QuietMsg DEF GateInv, Here
<1>5. CASE sent' = removePlayer(g0, t) /\ m_gs_id' = m_gs_id
  <2>1. sent' = removeIfActive(g0, t)
    BY <1>2, <1>5 DEF removeIfActive, getGameClient
  <2> QED
    BY <1>2, <1>5, <2>1, LeaveMsg DEF GateInv, Here
<1>6. ASSUME NEW a \in getAccount(t), g2 \in active, m_gs_id' = [m_gs_id EXCEPT ![p] = g2],
             sent' = removePlayer(g0, t) \o addNewPlayer(g2, t, a)
      PROVE  MsgInv'
  <2>1. a \in Accounts /\ m_onlineaccs[Owner[t]] = t
    BY <1>6 DEF getAccount, GateInv, MapInv, AccountsOwn
  <2>2. t \notin kicked
    BY <1>3, <2>1 DEF LoginInv, KickedGone
  <2>3. g0 # g2 => ~Here(g2, t)
    BY <1>1, <1>2, <1>3 DEF Here
  <2>4. \A u \in Trans : Owner[u] = Owner[t] => (u = t /\ g0 = g2) \/ GoneAt(g2, u)
    <3> SUFFICES ASSUME NEW u \in Trans, Owner[u] = Owner[t]
                 PROVE  (u = t /\ g0 = g2) \/ GoneAt(g2, u)
      OBVIOUS
    <3>1. CASE u = t
      BY <1>6, <2>3, <3>1 DEF MsgInv, Known
    <3>2. CASE u # t
      BY <1>3, <1>6, <2>2, <3>2, Alone
    <3> QED
      BY <3>1, <3>2
  <2>5. active \subseteq Games
    BY DEF GateInv, TypeOK
  <2>6. /\ ChanInv'
        /\ \A g \in Games, u \in Trans :
             ~(g = g2 /\ u = t) /\ ((g = g0 /\ u = t) \/ GoneAt(g, u)) => GoneAt(g, u)'
    <3>1. ChanInv /\ UNCHANGED <<active, link, oldVars, m_Onlines>> /\ g0 \in active /\ g2 \in active
      BY <1>2, <1>6 DEF MsgInv
    <3>2. sendAll /\ t \in Trans
      OBVIOUS
    <3> QED
      BY ONLY <1>6, <2>1, <2>4, <2>5, <3>1, <3>2, SendTwo
  <2>7. Here(g2, t)'
    BY <1>1, <1>2, <1>3, <1>6 DEF Here, GateInv, TypeOK
  <2>8. \A g \in active, u \in Trans : u # t /\ Here(g, u) => Here(g, u)'
    BY <1>2, <1>3, <1>6 DEF Here, GateInv, TypeOK, OnlinesOwn
  <2>9. \A g \in active : Here(g, t) => g = g0
    BY <1>1, <1>2, <1>3, <2>5 DEF Here
  <2>10. Known'
    BY <1>2, <2>2, <2>5, <2>6, <2>7, <2>8, <2>9 DEF MsgInv, Known
  <2> QED
    BY <2>6, <2>10 DEF MsgInv
<1> QED
  BY <1>1, <1>3, <1>4, <1>5, <1>6 DEF changeGS, parseChangeGS, getGameClient

\* The player's time to reconnect is over.
LEMMA ExpireMsg ==
  ASSUME GateInv, MsgInv, NEW t \in Trans, eventCallRemoveReconn(t), sendAll,
         UNCHANGED <<kicked, link, oldVars, m_Onlines>>
  PROVE  MsgInv'
<1> USE NullAssumption
<1>1. /\ m_recon_map' = [m_recon_map EXCEPT ![t] = NoGame]
      /\ sent' = IF m_recon_map[t] # NoGame THEN removeIfActive(m_recon_map[t], t) ELSE <<>>
      /\ UNCHANGED <<m_onlines, m_gs_id, active>>
  BY DEF eventCallRemoveReconn, eraseData, sessVars
<1>2. sent' = removeIfActive(m_recon_map[t], t)
  BY <1>1 DEF removeIfActive, getGameClient, GateInv, TypeOK
<1>3. \A g \in active, u \in Trans : Here(g, u) => Here(g, u)' \/ (u = t /\ g = m_recon_map[t])
  BY <1>1 DEF GateInv, TypeOK, Here
<1> QED
  BY <1>1, <1>2, <1>3, LeaveMsg DEF GateInv

\* The steps of the gate server
LEMMA GateStepMsg ==
  ASSUME ~Reissue, ~LateLogin, GateInv, LoginInv, MsgInv, gateStep
  PROVE  MsgInv'
<1>1. sendAll /\ UNCHANGED <<link, oldVars, m_Onlines>>
  BY DEF gateStep
<1>2. ASSUME kicked' = kicked,
             \/ \E s \in Sessions : on_accept(s) \/ parsePingMsg(s) \/ setClose(s) \/ noPing(s)
             \/ \E t \in Trans : eventCallRemoveWait(t)
      PROVE  MsgInv'
  <2>1. sent' = <<>> /\ UNCHANGED <<active, m_onlines, m_recon_map, m_gs_id>>
    BY <1>2 DEF on_accept, parsePingMsg, setClose, noPing, eventCallRemoveWait, mapVars, sessVars
  <2> QED
    BY <1>1, <1>2, <2>1, QuietMsg DEF GateInv, Here
<1>3. CASE ClientNext /\ kicked' = kicked
  BY <1>1, <1>2, <1>3, CloseMsg, EnterMsg DEF ClientNext
<1>4. CASE TimerNext /\ kicked' = kicked
  BY <1>1, <1>2, <1>4, ExpireMsg DEF TimerNext
<1> QED
  BY <1>1, <1>3, <1>4, AnnounceMsg, KickMsg, ChangeMsg DEF gateStep

\* A game server with fewer Sessions has none for an id all the more.
LEMMA Fewer ==
  ASSUME NEW present, NEW fewer, fewer \subseteq present, NEW q
  PROVE  /\ \A u : Gone(present, q, u) => Gone(fewer, q, u)
         /\ Ordered(present, q) => Ordered(fewer, q)
BY DEF Gone, GoneBefore, Ordered

\* What is added, the head of a queue and all the rest
LEMMA AddedTail ==
  ASSUME NEW q \in Seq(Msgs), q # <<>>
  PROVE  /\ Head(q) \in Msgs /\ Tail(q) \in Seq(Msgs)
         /\ added(Tail(q)) \subseteq added(q)
         /\ Head(q).op = "add" => Head(q).tran \in added(q)
<1>1. /\ Head(q) = q[1] /\ 1 \in DOMAIN q
      /\ \A k \in DOMAIN Tail(q) : k + 1 \in DOMAIN q /\ Tail(q)[k] = q[k + 1]
  OBVIOUS
<1>2. Head(q) \in Msgs /\ Tail(q) \in Seq(Msgs)
  OBVIOUS
<1>3. added(Tail(q)) \subseteq added(q)
  <2> SUFFICES ASSUME NEW x \in added(Tail(q)) PROVE x \in added(q)
    OBVIOUS
  <2>1. PICK k \in DOMAIN Tail(q) : Tail(q)[k].op = "add" /\ Tail(q)[k].tran = x
    BY DEF added
  <2>2. PICK h : h = k + 1
    OBVIOUS
  <2>3. h \in DOMAIN q /\ q[h].op = "add" /\ q[h].tran = x
    BY <1>1, <2>1, <2>2
  <2> QED
    BY <2>3 DEF added
<1> QED
  BY <1>1, <1>2, <1>3 DEF added

\* A message is read on the connection in m_Gates.
LEMMA ReceiveMsg ==
  ASSUME MsgInv, NEW g0 \in Games, receive(g0)
  PROVE  ChanInv' /\ \A g \in Games, u \in Trans : GoneAt(g, u) => GoneAt(g, u)'
<1>1. PICK q, own : q = chan[g0] /\ own = Own(g0)
  OBVIOUS
<1>2. q \in Seq(Msgs) /\ q # <<>> /\ Ordered(own, q)
  BY <1>1 DEF receive, MsgInv, ChanInv, SysTyped, InOrder
<1>3. /\ chan' = [chan EXCEPT ![g0] = Tail(q)]
      /\ m_Onlines' = [m_Onlines EXCEPT ![g0] = handle(@, Head(q))]
      /\ UNCHANGED <<link, replaced, late, strays>>
  BY <1>1 DEF receive, oldVars
<1>4. Tail(q) \in Seq(Msgs) /\ Head(q) \in Msgs
  BY <1>2
<1>5. /\ Ordered(handle(own, Head(q)), Tail(q))
      /\ Head(q).op = "add" => Head(q).tran \in Trans
  BY <1>2, OrderedTail
<1>6. \A u \in Trans : Gone(own, q, u) => Gone(handle(own, Head(q)), Tail(q), u)
  BY <1>2, GoneTail
<1>7. m_Onlines'[g0] = handle(m_Onlines[g0], Head(q)) /\ chan'[g0] = Tail(q)
  BY <1>3 DEF MsgInv, ChanInv, SysTyped
<1>8. handle(m_Onlines[g0], Head(q)) \subseteq Trans
  BY <1>4, <1>5 DEF handle, Msgs, MsgInv, ChanInv, SysTyped
<1>9. SysTyped'
  BY <1>3, <1>4, <1>8 DEF MsgInv, ChanInv, SysTyped
<1>10. Own(g0)' \subseteq handle(own, Head(q))
  BY <1>1, <1>3, <1>4, <1>7 DEF Own, handle, Msgs
<1>11. \A g \in Games \ {g0} : chan'[g] = chan[g] /\ Own(g)' = Own(g)
  BY <1>3 DEF MsgInv, ChanInv, SysTyped, Own
<1>12. link[g0] = "used"
  BY <1>1, <1>2 DEF MsgInv, ChanInv, LinkInv
<1>13. LinkInv'
  <2>1. active' = active
    BY DEF receive, vars
  <2> QED
    BY <1>3, <1>11, <1>12, <2>1 DEF MsgInv, ChanInv, LinkInv
<1>14. LateInv'
  BY <1>3 DEF MsgInv, ChanInv, LateInv
<1>15. /\ Ordered(Own(g0)', Tail(q))
       /\ \A u \in Trans : Gone(own, q, u) => Gone(Own(g0)', Tail(q), u)
  BY <1>5, <1>6, <1>10, Fewer
<1>16. InOrder'
  BY <1>7, <1>11, <1>15 DEF InOrder, MsgInv, ChanInv
<1> QED
  BY <1>1, <1>7, <1>9, <1>11, <1>13, <1>14, <1>15, <1>16 DEF ChanInv, GoneAt

\* A message is read on a connection that was replaced: it adds strays only.
LEMMA LateMsg ==
  ASSUME MsgInv, NEW g0 \in Games, NEW o \in Spare, receiveLate(g0, o)
  PROVE  ChanInv' /\ \A g \in Games, u \in Trans : GoneAt(g, u) => GoneAt(g, u)'
<1>1. PICK q : q = late[g0][o]
  OBVIOUS
<1>2. q \in Seq(Msgs) /\ q # <<>> /\ added(q) \subseteq strays[g0]
  BY <1>1 DEF receiveLate, MsgInv, ChanInv, SysTyped, LateInv
<1>3. /\ late' = [late EXCEPT ![g0][o] = Tail(q)]
      /\ m_Onlines' = [m_Onlines EXCEPT ![g0] = handle(@, Head(q))]
      /\ UNCHANGED <<chan, link, replaced, strays, active>>
  BY <1>1 DEF receiveLate, vars
<1>4. /\ Tail(q) \in Seq(Msgs) /\ Head(q) \in Msgs /\ added(Tail(q)) \subseteq strays[g0]
      /\ Head(q).op = "add" => Head(q).tran \in strays[g0]
  BY <1>2, AddedTail
<1>5. m_Onlines'[g0] = handle(m_Onlines[g0], Head(q))
  BY <1>3 DEF MsgInv, ChanInv, SysTyped
<1>6. SysTyped'
  <2>1. handle(m_Onlines[g0], Head(q)) \subseteq Trans
    BY <1>4 DEF handle, Msgs, MsgInv, ChanInv, SysTyped
  <2> QED
    BY <1>3, <1>4, <2>1 DEF MsgInv, ChanInv, SysTyped
<1>7. \A g \in Games : Own(g)' \subseteq Own(g)
  <2>1. Own(g0)' \subseteq Own(g0)
    BY <1>3, <1>4, <1>5 DEF Own, handle, Msgs
  <2>2. \A g \in Games \ {g0} : Own(g)' = Own(g)
    BY <1>3 DEF MsgInv, ChanInv, SysTyped, Own
  <2> QED
    BY <2>1, <2>2
<1>8. LinkInv'
  BY <1>3, <1>7 DEF MsgInv, ChanInv, LinkInv
<1>9. LateInv'
  <2>1. \A g \in Games, p \in Spare :
          late'[g][p] = IF g = g0 /\ p = o THEN Tail(q) ELSE late[g][p]
    BY <1>3 DEF MsgInv, ChanInv, SysTyped
  <2>2. o \in replaced[g0]
    BY <1>1, <1>2 DEF MsgInv, ChanInv, LateInv
  <2> QED
    BY <1>3, <1>4, <2>1, <2>2 DEF MsgInv, ChanInv, LateInv
<1>10. \A g \in Games : /\ Ordered(Own(g)', chan[g])
                        /\ \A u \in Trans : Gone(Own(g), chan[g], u) => Gone(Own(g)', chan[g], u)
  BY <1>7, Fewer DEF MsgInv, ChanInv, InOrder
<1> QED
  BY <1>3, <1>6, <1>8, <1>9, <1>10 DEF ChanInv, InOrder, GoneAt

\* Ids that a queue will add are ids.
LEMMA AddedType ==
  ASSUME NEW q, NEW present, q \in Seq(Msgs), Ordered(present, q)
  PROVE  added(q) \subseteq Trans
<1>1. DOMAIN q = 1..Len(q)
  OBVIOUS
<1> QED
  BY <1>1 DEF added, Ordered

\* The gate server registers, whatever the game server knows of its last connection.
LEMMA AddGateMsg ==
  ASSUME TypeOK, MsgInv, NEW g0 \in Games, addGate(g0)
  PROVE  MsgInv'
<1>1. /\ g0 \notin active /\ link' = [link EXCEPT ![g0] = "new"]
      /\ UNCHANGED <<active, m_recon_map, m_onlines, m_gs_id, kicked, m_Onlines>>
  BY DEF addGate, vars, mapVars, sessVars
<1>2. link'[g0] = "new" /\ \A g \in Games \ {g0} : link'[g] = link[g]
  BY <1>1 DEF MsgInv, ChanInv, SysTyped
<1>3. <<>> \in Seq(Msgs)
  OBVIOUS
<1>4. CASE ~connected(g0) /\ UNCHANGED <<chan, oldVars>>
  <2>1. link[g0] # "used"
    BY <1>4 DEF connected
  <2>2. UNCHANGED <<chan, replaced, late, strays>> /\ \A g : Own(g)' = Own(g)
    BY <1>1, <1>4 DEF oldVars, Own
  <2>3. ChanInv'
    BY <1>1, <1>2, <2>1, <2>2 DEF MsgInv, ChanInv, SysTyped, Links, LinkInv, LateInv, InOrder
  <2> QED
    BY <1>1, <2>2, <2>3 DEF MsgInv, Known, GoneAt, Here
<1>5. ASSUME NEW o \in Spare \ replaced[g0],
             replaced' = [replaced EXCEPT ![g0] = @ \cup {o}],
             late' = [late EXCEPT ![g0][o] = chan[g0]],
             strays' = [strays EXCEPT ![g0] = @ \cup m_Onlines[g0] \cup added(chan[g0])],
             chan' = [chan EXCEPT ![g0] = <<>>]
      PROVE  MsgInv'
  <2>1. added(chan[g0]) \subseteq Trans
    BY AddedType DEF MsgInv, ChanInv, SysTyped, InOrder
  <2>2. /\ strays'[g0] = strays[g0] \cup m_Onlines[g0] \cup added(chan[g0])
        /\ chan'[g0] = <<>> /\ Own(g0)' = {}
        /\ \A g \in Games \ {g0} : strays'[g] = strays[g] /\ chan'[g] = chan[g] /\ Own(g)' = Own(g)
    BY <1>1, <1>5 DEF MsgInv, ChanInv, SysTyped, Own
  <2>3. SysTyped'
    BY <1>1, <1>3, <1>5, <2>1 DEF MsgInv, ChanInv, SysTyped, Links
  <2>4. LinkInv'
    BY <1>1, <1>2, <2>2 DEF MsgInv, ChanInv, LinkInv
  <2>5. LateInv'
    <3> SUFFICES ASSUME NEW g \in Games, NEW p \in Spare
                 PROVE  /\ added(late'[g][p]) \subseteq strays'[g]
                        /\ p \notin replaced'[g] => late'[g][p] = <<>>
      BY DEF LateInv, added
    <3>1. /\ late'[g][p] = IF g = g0 /\ p = o THEN chan[g0] ELSE late[g][p]
          /\ strays[g] \subseteq strays'[g]
      BY <1>5, <2>2 DEF MsgInv, ChanInv, SysTyped
    <3>2. p \notin replaced'[g] => p \notin replaced[g] /\ ~(g = g0 /\ p = o)
      BY <1>5 DEF MsgInv, ChanInv, SysTyped
    <3> QED
      BY <2>2, <3>1, <3>2 DEF MsgInv, ChanInv, LateInv
  <2>6. InOrder'
    BY <2>2, NothingThere DEF MsgInv, ChanInv, InOrder
  <2>7. Known'
    <3>1. active \subseteq Games
      BY DEF TypeOK
    <3>2. g0 \notin active' /\ \A g \in Games \ {g0}, u \in Trans : GoneAt(g, u) => GoneAt(g, u)'
      BY <1>1, <2>2 DEF GoneAt
    <3> QED
      BY <1>1, <3>1, <3>2 DEF MsgInv, Known, Here
  <2> QED
    BY <2>3, <2>4, <2>5, <2>6, <2>7 DEF MsgInv, ChanInv
<1> QED
  BY <1>4, <1>5 DEF addGate

\* The game server closes the connection in m_Gates.
LEMMA RemoveGateMsg ==
  ASSUME TypeOK, MsgInv, NEW g0 \in Games, removeGate(g0)
  PROVE  MsgInv'
<1>1. /\ connected(g0) /\ link' = [link EXCEPT ![g0] = IF @ = "new" THEN "shut" ELSE "down"]
      /\ chan' = [chan EXCEPT ![g0] = <<>>]
      /\ m_Onlines' = [m_Onlines EXCEPT ![g0] = {}]
      /\ strays' = [strays EXCEPT ![g0] = IF replaced[g0] = {} THEN {} ELSE @]
      /\ UNCHANGED <<active, m_recon_map, m_onlines, m_gs_id, kicked, replaced, late>>
  BY DEF removeGate, vars, mapVars, sessVars
<1>2. /\ chan'[g0] = <<>> /\ Own(g0)' = {}
      /\ link'[g0] = IF link[g0] = "new" THEN "shut" ELSE "down"
      /\ strays'[g0] = IF replaced[g0] = {} THEN {} ELSE strays[g0]
      /\ \A g \in Games \ {g0} : /\ chan'[g] = chan[g] /\ Own(g)' = Own(g)
                                 /\ link'[g] = link[g] /\ strays'[g] = strays[g]
  BY <1>1 DEF MsgInv, ChanInv, SysTyped, Own
<1>3. SysTyped'
  <2>1. <<>> \in Seq(Msgs)
    OBVIOUS
  <2> QED
    BY <1>1, <2>1 DEF MsgInv, ChanInv, SysTyped, Links
<1>4. LinkInv'
  BY <1>1, <1>2 DEF MsgInv, ChanInv, LinkInv
<1>5. LateInv'
  <2>1. added(<<>>) = {}
    BY DEF added
  <2> QED
    BY <1>1, <1>2, <2>1 DEF MsgInv, ChanInv, LateInv
<1>6. InOrder'
  BY <1>2, NothingThere DEF MsgInv, ChanInv, InOrder
<1>7. \A g \in Games, u \in Trans : GoneAt(g, u) => GoneAt(g, u)'
  BY <1>2, NothingThere DEF GoneAt
<1>8. active \subseteq Games
  BY DEF TypeOK
<1> QED
  BY <1>1, <1>3, <1>4, <1>5, <1>6, <1>7, <1>8 DEF MsgInv, ChanInv, Known, Here

\* One step keeps what the game servers know.
LEMMA MsgStep ==
  ASSUME ~Reissue, ~LateLogin, GateInv, LoginInv, MsgInv, [SysNext]_allVars
  PROVE  MsgInv'
<1> USE NullAssumption
<1>a. active \subseteq Games /\ TypeOK
  BY DEF GateInv, TypeOK
<1>1. CASE gateStep
  BY <1>1, GateStepMsg
<1>2. ASSUME NEW g0 \in Games, addGate(g0) \/ removeGate(g0) PROVE MsgInv'
  BY <1>a, <1>2, AddGateMsg, RemoveGateMsg
<1>3. ASSUME NEW g0 \in Games, gateRegister(g0) PROVE MsgInv'
  <2>1. /\ link[g0] \in {"new", "shut"} /\ active' = active \cup {g0}
        /\ link' = [link EXCEPT ![g0] = IF @ = "new" THEN "used" ELSE "down"]
        /\ UNCHANGED <<m_recon_map, m_onlines, m_gs_id, kicked, chan, m_Onlines,
                       replaced, late, strays>>
    BY <1>3 DEF gateRegister, parseGameRegister, mapVars, sessVars, oldVars
  <2>2. /\ link'[g0] \in {"used", "down"} /\ \A g \in Games \ {g0} : link'[g] = link[g]
        /\ \A g : Own(g)' = Own(g)
    BY <2>1 DEF MsgInv, ChanInv, SysTyped, Own
  <2>3. chan[g0] = <<>> /\ Own(g0) = {}
    BY <2>1 DEF MsgInv, ChanInv, LinkInv
  <2>4. ChanInv'
    BY <2>1, <2>2, <2>3 DEF MsgInv, ChanInv, SysTyped, Links, LinkInv, LateInv, InOrder
  <2>5. \A u \in Trans : GoneAt(g0, u)
    BY <2>3, NothingThere DEF GoneAt
  <2> QED
    BY <2>1, <2>2, <2>4, <2>5 DEF MsgInv, Known, GoneAt, Here
<1>4. ASSUME NEW g0 \in Games, gateLost(g0) PROVE MsgInv'
  <2>1. /\ active' = active \ {g0} /\ m_recon_map' = eraseValue(m_recon_map, g0, NoGame)
        /\ UNCHANGED <<m_onlines, m_gs_id, kicked, chan, m_Onlines, link, replaced, late, strays>>
    BY <1>4 DEF gateLost, gameClientClose, sysVars, oldVars
  <2>2. \A g : Own(g)' = Own(g)
    BY <2>1 DEF Own
  <2>3. ChanInv'
    BY <2>1, <2>2 DEF MsgInv, ChanInv, SysTyped, LinkInv, LateInv, InOrder
  <2>4. \A g \in active', u \in Trans : Here(g, u) => Here(g, u)'
    BY <1>a, <2>1 DEF Here, eraseValue, TypeOK
  <2> QED
    BY <2>1, <2>2, <2>3, <2>4 DEF MsgInv, Known, GoneAt
<1>5. ASSUME NEW g0 \in Games, NEW o \in Spare, removeReplaced(g0, o) PROVE MsgInv'
  <2>1. /\ replaced' = [replaced EXCEPT ![g0] = @ \ {o}] /\ late' = [late EXCEPT ![g0][o] = <<>>]
        /\ UNCHANGED <<active, m_recon_map, m_onlines, m_gs_id, kicked, chan, link, strays, m_Onlines>>
    BY <1>5 DEF removeReplaced, vars, mapVars, sessVars
  <2>2. \A g : Own(g)' = Own(g)
    BY <2>1 DEF Own
  <2>3. <<>> \in Seq(Msgs) /\ added(<<>>) = {}
    BY DEF added
  <2>4. SysTyped'
    BY <2>1, <2>3 DEF MsgInv, ChanInv, SysTyped
  <2>5. LateInv'
    <3> SUFFICES ASSUME NEW g \in Games, NEW p \in Spare
                 PROVE  /\ added(late'[g][p]) \subseteq strays[g]
                        /\ p \notin replaced'[g] => late'[g][p] = <<>>
      BY <2>1 DEF LateInv, added
    <3>1. late'[g][p] = IF g = g0 /\ p = o THEN <<>> ELSE late[g][p]
      BY <2>1 DEF MsgInv, ChanInv, SysTyped
    <3>2. p \notin replaced'[g] => p \notin replaced[g] \/ (g = g0 /\ p = o)
      BY <2>1
    <3> QED
      BY <2>3, <3>1, <3>2 DEF MsgInv, ChanInv, LateInv
  <2>6. ChanInv'
    BY <2>1, <2>2, <2>4, <2>5 DEF MsgInv, ChanInv, LinkInv, InOrder
  <2> QED
    BY <2>1, <2>2, <2>6 DEF MsgInv, Known, GoneAt, Here
<1>6. ASSUME NEW g0 \in Games, receive(g0) \/ \E o \in Spare : receiveLate(g0, o) PROVE MsgInv'
  <2>1. ChanInv' /\ \A g \in Games, u \in Trans : GoneAt(g, u) => GoneAt(g, u)'
    BY <1>6, ReceiveMsg, LateMsg
  <2>2. UNCHANGED <<active, m_recon_map, m_onlines, m_gs_id, kicked>>
    BY <1>6 DEF receive, receiveLate, vars, mapVars, sessVars
  <2> QED
    BY <1>a, <2>1, <2>2 DEF MsgInv, Known, Here
<1>7. CASE UNCHANGED allVars
  <2>1. UNCHANGED <<active, m_recon_map, m_onlines, m_gs_id, kicked, chan, link, m_Onlines,
                    replaced, late, strays>>
    BY <1>7 DEF allVars, sysVars, oldVars, vars, mapVars, sessVars
  <2>2. \A g : Own(g)' = Own(g)
    BY <2>1 DEF Own
  <2> QED
    BY <2>1, <2>2 DEF MsgInv, ChanInv, SysTyped, LinkInv, LateInv, InOrder, Known, GoneAt, Here
<1> QED
  BY <1>1, <1>2, <1>3, <1>4, <1>5, <1>6, <1>7 DEF SysNext

-----------------------------------------------------------------------------
(* Theorems *)

\* The gate server with the login server before it and the game servers behind it does
\* nothing that GateUsers does not allow: what is proved there holds here.
THEOREM SysImplementsGate == SysSpec => Spec
<1>1. SysInit => Init
  BY DEF SysInit
<1>2. [SysNext]_allVars => [Next]_vars
  <2> SUFFICES ASSUME [SysNext]_allVars PROVE [Next]_vars
    OBVIOUS
  <2>1. CASE gateStep
    BY <2>1 DEF gateStep, announce, kick, changeGS, Next, LoginNext, GameNext
  <2>2. ASSUME NEW g \in Games, gateRegister(g) \/ gateLost(g) PROVE Next
    BY <2>2 DEF gateRegister, gateLost, Next, GameNext
  <2>4. ASSUME NEW g \in Games,
               \/ addGate(g) \/ removeGate(g) \/ receive(g)
               \/ \E o \in Spare : removeReplaced(g, o) \/ receiveLate(g, o)
        PROVE  UNCHANGED vars
    BY <2>4 DEF addGate, removeGate, receive, removeReplaced, receiveLate
  <2>3. CASE UNCHANGED allVars
    BY <2>3 DEF allVars
  <2> QED
    BY <2>1, <2>2, <2>3, <2>4 DEF SysNext
<1> QED
  BY <1>1, <1>2, PTL DEF SysSpec, Spec

\* If ids are announced once and clients send LoginGame once per connection, the inductive
\* invariant of the gate server, the logins and the messages holds.
THEOREM SysInvariant ==
  ASSUME ~Reissue, ~LateLogin PROVE SysSpec => [](GateInv /\ LoginInv /\ MsgInv)
<1>1. SysInit => IdOwned /\ LoginInv /\ MsgInv
  <2> SUFFICES ASSUME SysInit PROVE IdOwned /\ LoginInv /\ MsgInv
    OBVIOUS
  <2>1. IdOwned
    BY NullAssumption DEF SysInit, Init, IdOwned
  <2>2. LoginInv
    BY NullAssumption, OwnerAssumption DEF SysInit, Init, LoginInv, OneLogin, Carried, KickedGone
  <2>3. <<>> \in Seq(Msgs)
    OBVIOUS
  <2>4. SysTyped /\ LinkInv /\ LateInv
    BY <2>3 DEF SysInit, Init, SysTyped, Links, LinkInv, LateInv, Own, added
  <2>5. InOrder
    <3>1. \A g \in Games : Own(g) = {} /\ chan[g] = <<>>
      BY DEF SysInit, Own
    <3> QED
      BY <3>1, NothingThere DEF InOrder
  <2>6. Known
    BY DEF SysInit, Init, Known
  <2> QED
    BY <2>1, <2>2, <2>4, <2>5, <2>6 DEF MsgInv, ChanInv
<1>2. TypeOK /\ OnlinesOwn /\ IdOwned /\ [Next]_vars => IdOwned'
  BY IdOwnedStep
<1>3. Spec /\ []TypeOK /\ []OnlinesOwn /\ IdOwned => []IdOwned
  BY <1>2, PTL DEF Spec
<1>4. Spec => []TypeOK /\ []MapInv /\ []OnlinesOwn
  BY TypeCorrect, MapsConsistent, OnlinesNeverStale, PTL
<1>5. SysSpec => []GateInv
  <2>1. TypeOK /\ MapInv /\ OnlinesOwn /\ IdOwned => GateInv
    BY DEF GateInv
  <2>2. SysSpec => IdOwned
    BY <1>1 DEF SysSpec
  <2> QED
    BY <1>3, <1>4, <2>1, <2>2, SysImplementsGate, PTL
<1>6. GateInv /\ LoginInv /\ MsgInv /\ [SysNext]_allVars => LoginInv' /\ MsgInv'
  BY LoginStep, MsgStep
<1>7. SysSpec => LoginInv /\ MsgInv
  BY <1>1 DEF SysSpec
<1>8. SysSpec => [][SysNext]_allVars
  BY DEF SysSpec
<1> QED
  BY <1>5, <1>6, <1>7, <1>8, PTL

\* If ids are announced once and clients send LoginGame once per connection, no Session is
\* orphaned, but for those of a connection that was replaced: what a game server still has
\* and the gate server does not is told to leave by a message under way (kickUser,
\* checkClose, eventCallRemoveReconn, parseChangeGS).
THEOREM NoSessionOrphaned ==
  ASSUME ~Reissue, ~LateLogin PROVE SysSpec => []NoOrphan
<1>1. GateInv /\ MsgInv => NoOrphan
  <2> SUFFICES ASSUME GateInv, MsgInv, NEW g \in active, NEW t \in Own(g)
               PROVE  \/ Here(g, t)
                      \/ \E i \in DOMAIN chan[g] : chan[g][i].op = "remove" /\ chan[g][i].tran = t
    BY DEF NoOrphan, Here, Own
  <2>1. t \in Trans /\ chan[g] \in Seq(Msgs)
    BY DEF GateInv, TypeOK, MsgInv, ChanInv, SysTyped, Own
  <2>2. DOMAIN chan[g] = 1..Len(chan[g])
    BY <2>1
  <2>3. CASE GoneAt(g, t)
    BY <2>2, <2>3 DEF GoneAt, Gone, GoneBefore, removes
  <2> QED
    BY <2>1, <2>3 DEF MsgInv, Known
<1> QED
  BY <1>1, SysInvariant, PTL

\* What the next message does to the Sessions of game server g.
LEMMA HandleCases ==
  ASSUME MsgInv, NEW g \in Games, NEW m \in Msgs,
         m_Onlines' = [m_Onlines EXCEPT ![g] = handle(@, m)]
  PROVE  \/ m.op = "add" /\ m_Onlines' = [m_Onlines EXCEPT ![g] = @ \cup {m.tran}]
         \/ m.tran \in Trans /\ m_Onlines' = [m_Onlines EXCEPT ![g] = @ \ {m.tran}]
         \/ m_Onlines' = m_Onlines
<1>1. CASE m.op = "remove" /\ m.tran \notin Trans
  <2>1. handle(m_Onlines[g], m) = m_Onlines[g]
    BY <1>1 DEF handle, MsgInv, ChanInv, SysTyped
  <2> QED
    BY <2>1 DEF MsgInv, ChanInv, SysTyped
<1>2. CASE m.op = "offline"
  BY <1>2 DEF handle, MsgInv, ChanInv, SysTyped
<1> QED
  BY <1>1, <1>2 DEF handle, Msgs

\* Under the same assumptions the gate server keeps a game server's promise about logins:
\* the Session tables of the game servers behave as Presence says, an account's new Session
\* appears on a game server only after its old one is gone, strays excepted.
THEOREM PromiseKept ==
  ASSUME ~Reissue, ~LateLogin PROVE SysSpec => KeepsPromise
<1>1. SysInit => P!Init
  BY DEF SysInit, P!Init
<1>2. GateInv /\ MsgInv /\ [SysNext]_allVars => [P!Next]_<<m_Onlines, strays>>
  <2> SUFFICES ASSUME GateInv, MsgInv, [SysNext]_allVars PROVE [P!Next]_<<m_Onlines, strays>>
    OBVIOUS
  <2>1. CASE gateStep \/ UNCHANGED allVars
    BY <2>1 DEF gateStep, allVars, sysVars, oldVars
  <2>2. ASSUME NEW g \in Games, gateRegister(g) \/ gateLost(g) \/ \E o \in Spare : removeReplaced(g, o)
        PROVE  UNCHANGED <<m_Onlines, strays>>
    BY <2>2 DEF gateRegister, gateLost, removeReplaced, sysVars, oldVars
  <2>3. ASSUME NEW g \in Games, addGate(g) PROVE [P!Next]_<<m_Onlines, strays>>
    <3>1. m_Onlines' = m_Onlines
      BY <2>3 DEF addGate
    <3>2. CASE UNCHANGED oldVars
      BY <3>1, <3>2 DEF oldVars
    <3>3. CASE strays' = [strays EXCEPT ![g] = @ \cup m_Onlines[g] \cup added(chan[g])]
      <4>1. PICK T : T = m_Onlines[g] \cup added(chan[g])
        OBVIOUS
      <4>2. T \in SUBSET Trans
        BY <4>1, AddedType DEF MsgInv, ChanInv, SysTyped, InOrder
      <4>3. strays' = [strays EXCEPT ![g] = @ \cup T]
        BY <3>3, <4>1
      <4>4. P!Replace(g, T)
        BY <3>1, <4>1, <4>3 DEF P!Replace
      <4> QED
        BY <4>2, <4>4 DEF P!Next
    <3> QED
      BY <2>3, <3>2, <3>3 DEF addGate
  <2>4. ASSUME NEW g \in Games, removeGate(g) PROVE P!Next
    <3>1. /\ m_Onlines' = [m_Onlines EXCEPT ![g] = {}]
          /\ strays' = [strays EXCEPT ![g] = {}] \/ strays' = [strays EXCEPT ![g] = @]
      BY <2>4 DEF removeGate
    <3>2. P!Clear(g)
      BY <3>1 DEF P!Clear, MsgInv, ChanInv, SysTyped
    <3> QED
      BY <3>2 DEF P!Next
  <2>5. ASSUME NEW g \in Games, receive(g) PROVE [P!Next]_<<m_Onlines, strays>>
    <3>1. PICK q, m : q = chan[g] /\ m = Head(q)
      OBVIOUS
    <3>2. q \in Seq(Msgs) /\ q # <<>> /\ Ordered(Own(g), q)
      BY <2>5, <3>1 DEF receive, MsgInv, ChanInv, SysTyped, InOrder
    <3>3. m \in Msgs /\ m_Onlines' = [m_Onlines EXCEPT ![g] = handle(@, m)] /\ strays' = strays
      BY <2>5, <3>1, <3>2 DEF receive, oldVars
    <3>4. CASE m.op = "add" /\ m_Onlines' = [m_Onlines EXCEPT ![g] = @ \cup {m.tran}]
      <4>1. m.tran \in Trans /\ \A u \in Trans : Owner[u] = Owner[m.tran] => u \notin Own(g)
        BY <3>1, <3>2, <3>4, OrderedTail
      <4>2. P!Add(g, m.tran)
        BY <3>3, <3>4, <4>1 DEF P!Add, Own, MsgInv, ChanInv, SysTyped
      <4> QED
        BY <4>1, <4>2 DEF P!Next
    <3>5. CASE m.tran \in Trans /\ m_Onlines' = [m_Onlines EXCEPT ![g] = @ \ {m.tran}]
      BY <3>3, <3>5 DEF P!Remove, P!Next
    <3> QED
      BY <3>3, <3>4, <3>5, HandleCases
  <2>6. ASSUME NEW g \in Games, NEW o \in Spare, receiveLate(g, o)
        PROVE  [P!Next]_<<m_Onlines, strays>>
    <3>1. PICK q, m : q = late[g][o] /\ m = Head(q)
      OBVIOUS
    <3>2. q \in Seq(Msgs) /\ q # <<>> /\ added(q) \subseteq strays[g]
      BY <2>6, <3>1 DEF receiveLate, MsgInv, ChanInv, SysTyped, LateInv
    <3>3. m \in Msgs /\ m_Onlines' = [m_Onlines EXCEPT ![g] = handle(@, m)] /\ strays' = strays
      BY <2>6, <3>1, <3>2 DEF receiveLate
    <3>4. CASE m.op = "add" /\ m_Onlines' = [m_Onlines EXCEPT ![g] = @ \cup {m.tran}]
      <4>1. m.tran \in strays[g] /\ m.tran \in Trans
        BY <3>1, <3>2, <3>4, AddedTail DEF MsgInv, ChanInv, SysTyped
      <4>2. P!Stray(g, m.tran)
        BY <3>3, <3>4, <4>1 DEF P!Stray
      <4> QED
        BY <4>1, <4>2 DEF P!Next
    <3>5. CASE m.tran \in Trans /\ m_Onlines' = [m_Onlines EXCEPT ![g] = @ \ {m.tran}]
      BY <3>3, <3>5 DEF P!Remove, P!Next
    <3> QED
      BY <3>3, <3>4, <3>5, HandleCases
  <2> QED
    BY <2>1, <2>2, <2>3, <2>4, <2>5, <2>6 DEF SysNext
<1> QED
  BY <1>1, <1>2, SysInvariant, PTL DEF SysSpec, KeepsPromise, P!Spec
=============================================================================
