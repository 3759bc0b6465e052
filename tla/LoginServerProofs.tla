-------------------------- MODULE LoginServerProofs --------------------------
(***************************************************************************)
(* Proofs about the login server's tables, for any number of gate servers,  *)
(* connections, clients and accounts, with connections that break and       *)
(* restarts of the process; then, on connections that hold, about the order *)
(* of its kicks and announcements (LoginOrder).                             *)
(***************************************************************************)
EXTENDS MCLogin, SequenceTheorems, TLAPS

\* A queue loses its head or gains an element and stays a queue of its type.
LEMMA QueueTypes ==
  ASSUME NEW S, NEW q \in Seq(S)
  PROVE  /\ q # <<>> => Head(q) \in S /\ Tail(q) \in Seq(S)
         /\ \A x \in S : Append(q, x) \in Seq(S)
  OBVIOUS

\* The queues towards the gate servers keep their types when a message is sent.
LEMMA SendGateType ==
  ASSUME NEW q \in [Conns -> Seq(ToGate)], NEW c, NEW m \in ToGate
  PROVE  sendGate(q, c, m) \in [Conns -> Seq(ToGate)]
  <1>1. CASE c \in Conns
    <2>1. Append(q[c], m) \in Seq(ToGate)
      BY <1>1, QueueTypes
    <2> QED BY <1>1, <2>1 DEF sendGate
  <1>2. CASE c \notin Conns
    BY <1>2 DEF sendGate
  <1> QED BY <1>1, <1>2

\* So they do when kickUserFromGate sends, or does not send, a kick.
LEMMA KickType ==
  ASSUME TypeOK, NEW q \in [Conns -> Seq(ToGate)], NEW a \in Accounts
  PROVE  kickUserFromGate(q, a) \in [Conns -> Seq(ToGate)]
  <1> DEFINE p == CHOOSE x \in m_Accts[a] : TRUE
  <1>1. CASE m_Accts[a] = {}
    BY <1>1 DEF kickUserFromGate, getAccount
  <1>2. CASE m_Accts[a] # {}
    <2>1. PICK x \in Account : m_Accts[a] = {x}
      BY <1>2 DEF TypeOK
    <2>2. p = x
      BY <2>1
    <2>3. p.tran \in Trans
      BY <2>2 DEF Account
    <2>5. [op |-> "kick", tran |-> p.tran] \in ToGate
      BY <2>3 DEF ToGate
    <2>4. sendGate(q, m_Gates[p.gate], [op |-> "kick", tran |-> p.tran]) \in [Conns -> Seq(ToGate)]
      BY <2>5, SendGateType
    <2> QED BY <2>4 DEF kickUserFromGate, getAccount
  <1> QED BY <1>1, <1>2

\* A login that is accepted leaves the accounts, the waiting sessions and the
\* queues well typed.
LEMMA AcceptType ==
  ASSUME TypeOK, NEW s \in Sessions, NEW a \in Accounts, accept(s, a)
  PROVE  /\ m_state' \in [Sessions -> States]
         /\ issued' \subseteq Trans
         /\ m_Accts' \in [Accounts -> {{}} \cup {{p} : p \in Account}]
         /\ m_WaitSessions' \in [Trans -> Sessions \cup {NoSession}]
         /\ toGate' \in [Conns -> Seq(ToGate)]
  <1>1. PICK t \in Trans : /\ issued' = issued \cup {t}
                           /\ \/ \E g \in getIdleGate : giveUserToGate(s, a, t, g)
                              \/ noGate(s, a)
    BY DEF accept, makeTransId
  <1>2. kickUserFromGate(toGate, a) \in [Conns -> Seq(ToGate)]
    BY KickType DEF TypeOK
  <1>3. [op |-> "announce", tran |-> t] \in ToGate
    BY DEF ToGate
  <1>4. CASE \E g \in getIdleGate : giveUserToGate(s, a, t, g)
    <2>1. PICK g \in Gates : giveUserToGate(s, a, t, g)
      BY <1>4 DEF getIdleGate
    <2>2. toGate' \in [Conns -> Seq(ToGate)]
      BY <2>1, <1>2, <1>3, SendGateType DEF giveUserToGate
    <2>3. [tran |-> t, gate |-> g] \in Account
      BY DEF Account
    <2>4. m_Accts' \in [Accounts -> {{}} \cup {{p} : p \in Account}]
      BY <2>1, <2>3 DEF giveUserToGate, TypeOK
    <2> QED
      BY <2>1, <2>2, <2>4, <1>1 DEF giveUserToGate, addData, setState, TypeOK, States
  <1>5. CASE noGate(s, a)
    BY <1>5, <1>1, <1>2 DEF noGate, setState, TypeOK, States
  <1> QED BY <1>1, <1>4, <1>5

\* Unregistering an account keeps the types of the gate servers' maps.
LEMMA EraseAccType ==
  ASSUME TypeOK, NEW g \in Gates, NEW a \in Accounts
  PROVE  eraseAcc(g, a) \in [Gates -> [Accounts -> Trans \cup {NoTran}]]
  <1>1. [m_onlineaccs[g] EXCEPT ![a] = NoTran] \in [Accounts -> Trans \cup {NoTran}]
    BY DEF TypeOK
  <1> QED BY <1>1 DEF eraseAcc, TypeOK

\* A restarted process has well typed tables.
LEMMA ResetType ==
  ASSUME TypeOK, reset
  PROVE  /\ m_state' \in [Sessions -> States]
         /\ is_valid' \subseteq Sessions
         /\ tasks' \in Seq(Tasks)
         /\ httpTasks' \in Seq(Sessions)
         /\ m_Accts' \in [Accounts -> {{}} \cup {{p} : p \in Account}]
         /\ m_WaitSessions' \in [Trans -> Sessions \cup {NoSession}]
         /\ m_gate_id' \in [Conns -> Gates \cup {NoGate}]
         /\ m_Gates' \in [Gates -> Conns \cup {NoConn}]
         /\ toLogin' \in [Conns -> Seq(ToLogin)]
         /\ atLogin' \subseteq Conns
  BY DEF reset, States

\* Every reachable state of the login server and of its connections is well typed.
THEOREM LoginTypes == Spec => []TypeOK
  <1>1. Init => TypeOK
    <2> SUFFICES ASSUME Init PROVE TypeOK
      OBVIOUS
    <2>1. /\ m_Accts \in [Accounts -> {{}} \cup {{p} : p \in Account}]
          /\ m_onlineaccs \in [Gates -> [Accounts -> Trans \cup {NoTran}]]
      BY DEF Init
    <2>2. /\ toGate \in [Conns -> Seq(ToGate)]
          /\ toLogin \in [Conns -> Seq(ToLogin)]
          /\ tasks \in Seq(Tasks) /\ httpTasks \in Seq(Sessions)
      BY DEF Init
    <2> QED BY <2>1, <2>2 DEF Init, TypeOK, States
  <1>2. TypeOK /\ [Next]_vars => TypeOK'
    <2> SUFFICES ASSUME TypeOK, [Next]_vars PROVE TypeOK'
      OBVIOUS
    <2> USE DEF sessVars, acctVars, connVars, gateVars
    <2>1. CASE ClientNext
      <3>1. ASSUME NEW s \in Sessions, on_accept(s) PROVE TypeOK'
        BY <3>1 DEF on_accept, setState, TypeOK, States
      <3>2. ASSUME NEW s \in Sessions, on_close(s) PROVE TypeOK'
        BY <3>2 DEF on_close, setState, TypeOK, States
      <3>3. ASSUME NEW s \in Sessions, parsePlatformVerify(s) PROVE TypeOK'
        <4>1. httpTasks' \in Seq(Sessions)
          BY <3>3, QueueTypes DEF parsePlatformVerify, TypeOK
        <4> QED BY <3>3, <4>1 DEF parsePlatformVerify, setState, TypeOK, States
      <3>4. ASSUME NEW s \in Sessions, NEW a \in Accounts,
                   NEW kind \in {"login", "new"}, checkAccount(s, a, kind)
            PROVE TypeOK'
        <4>1. [ower |-> s, acct |-> a, kind |-> kind] \in Tasks
          BY DEF Tasks
        <4>2. tasks' \in Seq(Tasks)
          BY <3>4, <4>1, QueueTypes DEF checkAccount, TypeOK
        <4> QED BY <3>4, <4>2 DEF checkAccount, setState, TypeOK, States
      <3> QED BY <2>1, <3>1, <3>2, <3>3, <3>4 DEF ClientNext
    <2>2. CASE AnswerNext
      <3>1. ASSUME NEW ok \in BOOLEAN, logicExcute(ok) PROVE TypeOK'
        <4>1. httpTasks' \in Seq(Sessions) /\ Head(httpTasks) \in Sessions
          BY <3>1, QueueTypes DEF logicExcute, TypeOK
        <4>2. m_state' \in [Sessions -> States]
          BY <3>1, <4>1 DEF logicExcute, setState, TypeOK, States
        <4> QED BY <3>1, <4>1, <4>2 DEF logicExcute, TypeOK
      <3>2. ASSUME checkAccountCall PROVE TypeOK'
        <4>1. Head(tasks) \in Tasks /\ tasks' \in Seq(Tasks)
          BY <3>2, QueueTypes DEF checkAccountCall, TypeOK
        <4>2. Head(tasks).ower \in Sessions /\ Head(tasks).acct \in Accounts
          BY <4>1 DEF Tasks
        <4>3. CASE refuse(Head(tasks).ower)
          BY <3>2, <4>1, <4>2, <4>3 DEF checkAccountCall, refuse, setState, TypeOK, States
        <4>4. CASE accept(Head(tasks).ower, Head(tasks).acct)
          BY <3>2, <4>1, <4>2, <4>4, AcceptType DEF checkAccountCall, TypeOK
        <4> QED BY <3>2, <4>3, <4>4 DEF checkAccountCall
      <3>3. ASSUME CreateNewAccount PROVE TypeOK'
        <4>1. Head(tasks) \in Tasks /\ Tail(tasks) \in Seq(Tasks)
          BY <3>3, QueueTypes DEF CreateNewAccount, TypeOK
        <4>2. Head(tasks).ower \in Sessions
          BY <4>1 DEF Tasks
        <4>3. [Head(tasks) EXCEPT !.kind = "login"] \in Tasks
          BY <4>1 DEF Tasks
        <4>4. tasks' \in Seq(Tasks)
          BY <3>3, <4>1, <4>3, QueueTypes DEF CreateNewAccount
        <4> QED
          BY <3>3, <4>2, <4>4 DEF CreateNewAccount, refuse, setState, TypeOK, States
      <3>4. ASSUME NEW c \in Conns, parseGateRegister(c) PROVE TypeOK'
        <4> DEFINE m == Head(toLogin[c])
        <4>1. m \in ToLogin /\ Tail(toLogin[c]) \in Seq(ToLogin)
          BY <3>4, QueueTypes DEF parseGateRegister, TypeOK
        <4>2. m.gate \in Gates /\ m.accs \in [Accounts -> Trans \cup {NoTran}]
          BY <3>4, <4>1 DEF parseGateRegister, ToLogin
        <4>3. CASE reset /\ aborted' = TRUE
          BY <3>4, <4>3, ResetType DEF parseGateRegister, TypeOK
        <4>4. CASE /\ m_gate_id' = [m_gate_id EXCEPT ![c] = m.gate]
                   /\ addGate(m.gate, c)
                   /\ m_Accts' = addAccounts(m.gate, m.accs)
                   /\ toLogin' = [toLogin EXCEPT ![c] = Tail(@)]
                   /\ UNCHANGED <<aborted, sessVars, m_WaitSessions, atLogin>>
          <5>1. m_Accts' \in [Accounts -> {{}} \cup {{p} : p \in Account}]
            BY <4>2, <4>4 DEF addAccounts, TypeOK, Account
          <5> QED
            BY <3>4, <4>1, <4>2, <4>4, <5>1 DEF parseGateRegister, addGate, TypeOK
        <4> QED BY <3>4, <4>3, <4>4 DEF parseGateRegister
      <3>5. ASSUME NEW c \in Conns, parseGateUserPrepar(c) PROVE TypeOK'
        <4>1. Head(toLogin[c]) \in ToLogin /\ Tail(toLogin[c]) \in Seq(ToLogin)
          BY <3>5, QueueTypes DEF parseGateUserPrepar, TypeOK
        <4>2. Head(toLogin[c]).tran \in Trans
          BY <3>5, <4>1 DEF parseGateUserPrepar, ToLogin
        <4>3. m_WaitSessions[Head(toLogin[c]).tran] \in Sessions \cup {NoSession}
          BY <4>2 DEF TypeOK
        <4>4. m_state' \in [Sessions -> States]
          BY <3>5, <4>3 DEF parseGateUserPrepar, TypeOK, States
        <4> QED BY <3>5, <4>1, <4>2, <4>4 DEF parseGateUserPrepar, TypeOK
      <3>6. ASSUME NEW c \in Conns, gateClosed(c) PROVE TypeOK'
        <4>1. toLogin' \in [Conns -> Seq(ToLogin)]
          BY <3>6 DEF gateClosed, TypeOK
        <4>2. m_Gates' \in [Gates -> Conns \cup {NoConn}]
          BY <3>6 DEF gateClosed, removeGate, TypeOK
        <4> QED BY <3>6, <4>1, <4>2 DEF gateClosed, TypeOK
      <3> QED BY <2>2, <3>1, <3>2, <3>3, <3>4, <3>5, <3>6 DEF AnswerNext
    <2>3. CASE GateNext
      <3>1. ASSUME NEW g \in Gates, gateLost(g) PROVE TypeOK'
        <4>1. /\ gateConn' \in [Gates -> Conns \cup {NoConn}]
              /\ toGate' \in [Conns -> Seq(ToGate)]
          BY <3>1 DEF gateLost, TypeOK
        <4> QED BY <3>1, <4>1 DEF gateLost, TypeOK
      <3>2. ASSUME NEW g \in Gates, gateReceive(g) PROVE TypeOK'
        <4> DEFINE c == gateConn[g]
                   m == Head(toGate[c])
        <4>1. c \in Conns
          BY <3>2 DEF gateReceive, TypeOK
        <4>2. m \in ToGate /\ Tail(toGate[c]) \in Seq(ToGate)
          BY <3>2, <4>1, QueueTypes DEF gateReceive, TypeOK
        <4>3. m.tran \in Trans /\ Owner[m.tran] \in Accounts
          BY <4>2, OwnerAssumption DEF ToGate
        <4>4. toGate' \in [Conns -> Seq(ToGate)]
          BY <3>2, <4>1, <4>2 DEF gateReceive, TypeOK
        <4>5. CASE addToWait(g, m.tran)
          <5>1. [op |-> "prepar", tran |-> m.tran] \in ToLogin
            BY <4>3 DEF ToLogin
          <5>2. Append(toLogin[c], [op |-> "prepar", tran |-> m.tran]) \in Seq(ToLogin)
            BY <5>1, <4>1, QueueTypes DEF TypeOK
          <5>3. toLogin' \in [Conns -> Seq(ToLogin)]
            BY <4>5, <4>1, <5>2 DEF addToWait, TypeOK
          <5>4. m_onlineaccs' \in [Gates -> [Accounts -> Trans \cup {NoTran}]]
            <6>1. eraseAcc(g, Owner[m.tran]) \in [Gates -> [Accounts -> Trans \cup {NoTran}]]
              BY <4>3, EraseAccType
            <6> QED BY <4>5, <6>1 DEF addToWait, TypeOK
          <5> QED BY <3>2, <4>3, <4>4, <4>5, <5>3, <5>4 DEF gateReceive, addToWait, TypeOK
        <4>6. CASE kickUser(g, m.tran)
          <5>1. m_onlineaccs' \in [Gates -> [Accounts -> Trans \cup {NoTran}]]
            <6>1. eraseAcc(g, Owner[m.tran]) \in [Gates -> [Accounts -> Trans \cup {NoTran}]]
              BY <4>3, EraseAccType
            <6> QED BY <4>6, <6>1 DEF kickUser, TypeOK
          <5> QED BY <3>2, <4>3, <4>4, <4>6, <5>1 DEF gateReceive, kickUser, TypeOK
        <4> QED BY <3>2, <4>5, <4>6 DEF gateReceive
      <3>3. ASSUME NEW g \in Gates, NEW c \in Conns, gateConnect(g, c) PROVE TypeOK'
        <4>1. [op |-> "register", gate |-> g, accs |-> m_onlineaccs[g]] \in ToLogin
          <5>1. m_onlineaccs[g] \in [Accounts -> Trans \cup {NoTran}]
            BY DEF TypeOK
          <5> QED BY <5>1 DEF ToLogin
        <4>2. toLogin' \in [Conns -> Seq(ToLogin)]
          BY <3>3, <4>1 DEF gateConnect, TypeOK
        <4> QED BY <3>3, <4>2 DEF gateConnect, TypeOK
      <3>4. ASSUME NEW g \in Gates, NEW t \in Trans, checkConn(g, t) PROVE TypeOK'
        <4>1. Owner[t] \in Accounts
          BY OwnerAssumption
        <4>2. [m_onlineaccs[g] EXCEPT ![Owner[t]] = t] \in [Accounts -> Trans \cup {NoTran}]
          BY <4>1 DEF TypeOK
        <4>3. m_onlineaccs' \in [Gates -> [Accounts -> Trans \cup {NoTran}]]
          BY <3>4, <4>2 DEF checkConn, TypeOK
        <4> QED BY <3>4, <4>3 DEF checkConn, TypeOK
      <3>5. ASSUME NEW g \in Gates, NEW a \in Accounts, playerGone(g, a) PROVE TypeOK'
        BY <3>5, EraseAccType DEF playerGone, TypeOK
      <3> QED BY <2>3, <3>1, <3>2, <3>3, <3>4, <3>5 DEF GateNext
    <2>4. CASE crash
      BY <2>4, ResetType DEF crash, TypeOK
    <2>5. CASE UNCHANGED vars
      BY <2>5 DEF vars, TypeOK
    <2> QED BY <2>1, <2>2, <2>3, <2>4, <2>5 DEF Next
  <1> QED BY <1>1, <1>2, PTL DEF Spec

-----------------------------------------------------------------------------
(* The table of gate servers *)

\* What a queue still holds after its head is taken.
LEMMA TailPart ==
  ASSUME NEW S, NEW q \in Seq(S), q # <<>>, NEW i \in 1..Len(Tail(q))
  PROVE  i + 1 \in 1..Len(q) /\ Tail(q)[i] = q[i + 1]
  OBVIOUS

\* What a queue holds after a message is added.
LEMMA AppendPart ==
  ASSUME NEW S, NEW q \in Seq(S), NEW x \in S, NEW i \in 1..Len(Append(q, x))
  PROVE  \/ i \in 1..Len(q) /\ Append(q, x)[i] = q[i]
         \/ Append(q, x)[i] = x
  OBVIOUS

\* A connection registers with its first message only, and until that message is
\* read no gate server is known under the connection (GateLoginClient::on_connect
\* sends it, GateSession::parseGateRegister reads it).
RegisterFirst ==
  \A c \in Conns : \A i \in 1..Len(toLogin[c]) :
    toLogin[c][i].op = "register" => i = 1 /\ \A h \in Gates : m_Gates[h] # c

\* What the invariant needs from a step that leaves the table of gate servers
\* and what is under way to the login server alone.
LEMMA GateFrame ==
  ASSUME GatesAlive, RegisterFirst,
         UNCHANGED <<m_gate_id, m_Gates, toLogin, atLogin>>
  PROVE  GatesAlive' /\ RegisterFirst'
  BY DEF GatesAlive, RegisterFirst

\* A restarted process knows no gate server and has nothing under way.
LEMMA GateReset ==
  ASSUME reset
  PROVE  GatesAlive' /\ RegisterFirst'
  <1>1. GatesAlive'
    BY DEF reset, GatesAlive
  <1>2. \A c \in Conns : toLogin'[c] = <<>>
    BY DEF reset
  <1>3. \A c \in Conns : 1..Len(toLogin'[c]) = {}
    BY <1>2
  <1> QED BY <1>1, <1>3 DEF RegisterFirst

\* The table of gate servers leads to open connections of the right gate server:
\* GatesAlive holds in every reachable state, whatever connections break, whenever
\* the process restarts and in whichever order gate servers come back.
THEOREM GatesAlwaysAlive == Spec => []GatesAlive
  <1>1. Init => GatesAlive /\ RegisterFirst
    <2> SUFFICES ASSUME Init PROVE GatesAlive /\ RegisterFirst
      OBVIOUS
    <2>1. \A c \in Conns : 1..Len(toLogin[c]) = {}
      BY DEF Init
    <2> QED BY <2>1 DEF Init, GatesAlive, RegisterFirst
  <1>2. TypeOK /\ GatesAlive /\ RegisterFirst /\ [Next]_vars
          => GatesAlive' /\ RegisterFirst'
    <2> SUFFICES ASSUME TypeOK, GatesAlive, RegisterFirst, [Next]_vars
                 PROVE  GatesAlive' /\ RegisterFirst'
      OBVIOUS
    <2> USE DEF sessVars, acctVars, connVars, gateVars
    <2>1. CASE ClientNext
      BY <2>1, GateFrame
         DEF ClientNext, on_accept, on_close, parsePlatformVerify, checkAccount
    <2>2. CASE AnswerNext
      <3>1. ASSUME NEW ok \in BOOLEAN, logicExcute(ok)
            PROVE  GatesAlive' /\ RegisterFirst'
        BY <3>1, GateFrame DEF logicExcute
      <3>2. ASSUME checkAccountCall \/ CreateNewAccount
            PROVE  GatesAlive' /\ RegisterFirst'
        BY <3>2, GateFrame DEF checkAccountCall, CreateNewAccount
      <3>3. ASSUME NEW c \in Conns, parseGateRegister(c)
            PROVE  GatesAlive' /\ RegisterFirst'
        <4> DEFINE m == Head(toLogin[c])
        <4>1. toLogin[c] \in Seq(ToLogin) /\ toLogin[c] # <<>>
          BY <3>3 DEF parseGateRegister, TypeOK
        <4>2. m.op = "register" /\ c \in atLogin
          BY <3>3 DEF parseGateRegister
        <4>3. 1 \in 1..Len(toLogin[c]) /\ toLogin[c][1] = m
          BY <4>1
        <4>4. \A h \in Gates : m_Gates[h] # c
          BY <4>2, <4>3 DEF RegisterFirst
        <4>5. m \in ToLogin
          BY <4>1, QueueTypes
        <4>6. m.gate \in Gates
          BY <4>2, <4>5 DEF ToLogin
        <4>7. CASE reset
          BY <4>7, GateReset
        <4>8. CASE /\ m_gate_id' = [m_gate_id EXCEPT ![c] = m.gate]
                   /\ addGate(m.gate, c)
                   /\ toLogin' = [toLogin EXCEPT ![c] = Tail(@)]
                   /\ atLogin' = atLogin
          <5>1. m_Gates' = [m_Gates EXCEPT ![m.gate] = c]
            BY <4>8 DEF addGate
          <5>2. GatesAlive'
            BY <4>2, <4>4, <4>6, <4>8, <5>1 DEF GatesAlive, TypeOK
          <5>3. ASSUME NEW d \in Conns, NEW i \in 1..Len(toLogin'[d]),
                       toLogin'[d][i].op = "register"
                PROVE  i = 1 /\ \A h \in Gates : m_Gates'[h] # d
            <6>1. d # c
              <7> SUFFICES ASSUME d = c PROVE FALSE
                OBVIOUS
              <7>1. toLogin'[d] = Tail(toLogin[c])
                BY <4>8 DEF TypeOK
              <7>2. i + 1 \in 1..Len(toLogin[c]) /\ toLogin'[d][i] = toLogin[c][i + 1]
                BY <7>1, <4>1, <5>3, TailPart
              <7>3. i + 1 = 1
                BY <7>2, <5>3 DEF RegisterFirst
              <7> QED BY <7>3, <5>3
            <6>2. toLogin'[d] = toLogin[d]
              BY <6>1, <4>8 DEF TypeOK
            <6>3. i = 1 /\ \A h \in Gates : m_Gates[h] # d
              BY <6>2, <5>3 DEF RegisterFirst
            <6> QED BY <6>1, <6>3, <5>1 DEF TypeOK
          <5> QED BY <5>2, <5>3 DEF RegisterFirst
        <4> QED BY <3>3, <4>7, <4>8 DEF parseGateRegister
      <3>4. ASSUME NEW c \in Conns, parseGateUserPrepar(c)
            PROVE  GatesAlive' /\ RegisterFirst'
        <4>1. toLogin[c] \in Seq(ToLogin) /\ toLogin[c] # <<>>
          BY <3>4 DEF parseGateUserPrepar, TypeOK
        <4>2. UNCHANGED <<m_gate_id, m_Gates, atLogin>>
          BY <3>4 DEF parseGateUserPrepar
        <4>3. ASSUME NEW d \in Conns, NEW i \in 1..Len(toLogin'[d]),
                     toLogin'[d][i].op = "register"
              PROVE  i = 1 /\ \A h \in Gates : m_Gates[h] # d
          <5>1. CASE d = c
            <6>1. toLogin'[d] = Tail(toLogin[c])
              BY <5>1, <3>4 DEF parseGateUserPrepar, TypeOK
            <6>2. i + 1 \in 1..Len(toLogin[c]) /\ toLogin'[d][i] = toLogin[c][i + 1]
              BY <6>1, <4>1, <4>3, TailPart
            <6>3. i + 1 = 1
              BY <6>2, <4>3 DEF RegisterFirst
            <6> QED BY <6>3, <4>3
          <5>2. CASE d # c
            <6>1. toLogin'[d] = toLogin[d]
              BY <5>2, <3>4 DEF parseGateUserPrepar, TypeOK
            <6> QED BY <6>1, <4>3 DEF RegisterFirst
          <5> QED BY <5>1, <5>2
        <4> QED BY <4>2, <4>3 DEF GatesAlive, RegisterFirst
      <3>5. ASSUME NEW c \in Conns, gateClosed(c)
            PROVE  GatesAlive' /\ RegisterFirst'
        <4>1. \A g \in Gates : m_Gates'[g] = m_Gates[g] \/ m_Gates'[g] = NoConn
          BY <3>5 DEF gateClosed, removeGate
        <4>2. \A g \in Gates : m_Gates'[g] # c
          BY <3>5, NullAssumption DEF gateClosed, removeGate, GatesAlive
        <4>3. GatesAlive'
          BY <3>5, <4>1, <4>2 DEF gateClosed, GatesAlive
        <4>4. ASSUME NEW d \in Conns, NEW i \in 1..Len(toLogin'[d]),
                     toLogin'[d][i].op = "register"
              PROVE  i = 1 /\ \A h \in Gates : m_Gates'[h] # d
          <5>1. d # c
            <6> SUFFICES ASSUME d = c PROVE FALSE
              OBVIOUS
            <6>1. toLogin'[d] = <<>>
              BY <3>5 DEF gateClosed, TypeOK
            <6> QED BY <6>1, <4>4
          <5>2. toLogin'[d] = toLogin[d]
            BY <5>1, <3>5 DEF gateClosed, TypeOK
          <5>3. i = 1 /\ \A h \in Gates : m_Gates[h] # d
            BY <5>2, <4>4 DEF RegisterFirst
          <5> QED BY <5>3, <4>1, NullAssumption
        <4> QED BY <4>3, <4>4 DEF RegisterFirst
      <3> QED BY <2>2, <3>1, <3>2, <3>3, <3>4, <3>5 DEF AnswerNext
    <2>3. CASE GateNext
      <3>1. ASSUME NEW g \in Gates, gateLost(g)
            PROVE  GatesAlive' /\ RegisterFirst'
        BY <3>1, GateFrame DEF gateLost
      <3>2. ASSUME NEW g \in Gates, gateReceive(g)
            PROVE  GatesAlive' /\ RegisterFirst'
        <4> DEFINE c == gateConn[g]
                   m == Head(toGate[c])
                   msg == [op |-> "prepar", tran |-> m.tran]
        <4>1. c \in Conns /\ toGate[c] # <<>> /\ UNCHANGED <<m_gate_id, m_Gates, atLogin>>
          BY <3>2 DEF gateReceive, TypeOK
        <4>2. m \in ToGate
          BY <4>1, QueueTypes DEF TypeOK
        <4>3. msg \in ToLogin
          BY <4>2 DEF ToGate, ToLogin
        <4>4. CASE toLogin' = [toLogin EXCEPT ![c] = Append(@, msg)]
          <5>1. toLogin[c] \in Seq(ToLogin)
            BY <4>1 DEF TypeOK
          <5>2. ASSUME NEW d \in Conns, NEW i \in 1..Len(toLogin'[d]),
                       toLogin'[d][i].op = "register"
                PROVE  i = 1 /\ \A h \in Gates : m_Gates[h] # d
            <6>1. CASE d = c
              <7>1. toLogin'[d] = Append(toLogin[c], msg)
                BY <4>1, <4>4, <6>1 DEF TypeOK
              <7>2. \/ i \in 1..Len(toLogin[c]) /\ toLogin'[d][i] = toLogin[c][i]
                    \/ toLogin'[d][i] = msg
                BY <7>1, <4>3, <5>1, <5>2, AppendPart
              <7>3. msg.op # "register"
                OBVIOUS
              <7> QED BY <6>1, <7>2, <7>3, <5>2 DEF RegisterFirst
            <6>2. CASE d # c
              <7>1. toLogin'[d] = toLogin[d]
                BY <6>2, <4>4 DEF TypeOK
              <7> QED BY <7>1, <5>2 DEF RegisterFirst
            <6> QED BY <6>1, <6>2
          <5> QED BY <4>1, <5>2 DEF GatesAlive, RegisterFirst
        <4>5. CASE UNCHANGED toLogin
          BY <4>1, <4>5, GateFrame
        <4> QED BY <3>2, <4>4, <4>5 DEF gateReceive, addToWait, kickUser
      <3>3. ASSUME NEW g \in Gates, NEW c \in Conns, gateConnect(g, c)
            PROVE  GatesAlive' /\ RegisterFirst'
        <4>1. \A h \in Gates : m_Gates[h] # c
          BY <3>3, NullAssumption DEF gateConnect, GatesAlive
        <4>2. GatesAlive'
          BY <3>3 DEF gateConnect, GatesAlive
        <4>3. ASSUME NEW d \in Conns, NEW i \in 1..Len(toLogin'[d]),
                     toLogin'[d][i].op = "register"
              PROVE  i = 1 /\ \A h \in Gates : m_Gates'[h] # d
          <5>1. CASE d = c
            <6>1. Len(toLogin'[d]) = 1
              BY <5>1, <3>3 DEF gateConnect, TypeOK
            <6> QED BY <6>1, <4>1, <4>3, <5>1, <3>3 DEF gateConnect
          <5>2. CASE d # c
            <6>1. toLogin'[d] = toLogin[d]
              BY <5>2, <3>3 DEF gateConnect, TypeOK
            <6> QED BY <6>1, <4>3, <3>3 DEF RegisterFirst, gateConnect
          <5> QED BY <5>1, <5>2
        <4> QED BY <4>2, <4>3 DEF RegisterFirst
      <3>4. ASSUME NEW g \in Gates, NEW t \in Trans, checkConn(g, t)
            PROVE  GatesAlive' /\ RegisterFirst'
        BY <3>4, GateFrame DEF checkConn
      <3>5. ASSUME NEW g \in Gates, NEW a \in Accounts, playerGone(g, a)
            PROVE  GatesAlive' /\ RegisterFirst'
        BY <3>5, GateFrame DEF playerGone
      <3> QED BY <2>3, <3>1, <3>2, <3>3, <3>4, <3>5 DEF GateNext
    <2>4. CASE crash
      BY <2>4, GateReset DEF crash
    <2>5. CASE UNCHANGED vars
      BY <2>5, GateFrame DEF vars
    <2> QED BY <2>1, <2>2, <2>3, <2>4, <2>5 DEF Next
  <1> QED BY <1>1, <1>2, LoginTypes, PTL DEF Spec

-----------------------------------------------------------------------------
(* The order of kicks and announcements *)

\* Before the i-th message of the queue q is read, u is among the ids that the gate
\* server was told of, which were the ids S before the first one: u was announced, or
\* was there, and was not told to be kicked since.
ToldBefore(S, q, i, u) ==
  \/ u \in S /\ \A k \in 1..Len(q) : k < i => ~(q[k].op = "kick" /\ q[k].tran = u)
  \/ \E j \in 1..Len(q) :
       /\ j < i /\ q[j].op = "announce" /\ q[j].tran = u
       /\ \A k \in 1..Len(q) : j < k /\ k < i => ~(q[k].op = "kick" /\ q[k].tran = u)

\* It will be among them when all that is under way has arrived.
Told(S, q, u) == ToldBefore(S, q, Len(q) + 1, u)

\* What is under way in q keeps LoginOrder's promise.
QueueOrdered(S, q) ==
  \A i \in 1..Len(q) :
    /\ q[i].op = "announce" =>
         \A u \in Trans : Owner[u] = Owner[q[i].tran] => ~ToldBefore(S, q, i, u)
    /\ q[i].op = "kick" => ToldBefore(S, q, i, q[i].tran)

\* Gate server g, which was told of the ids S, the messages q under way to it and the
\* table of accounts A agree: an id that g will have been told of is the account's id in
\* A, and the ids that A has at g are such ids.
GateOrdered(g, S, q, A) ==
  /\ QueueOrdered(S, q)
  /\ \A u \in Trans : Told(S, q, u) => A[Owner[u]] = {[tran |-> u, gate |-> g]}
  /\ \A a \in Accounts : \A p \in A[a] :
       p.gate = g => p.tran \in Trans /\ Owner[p.tran] = a /\ Told(S, q, p.tran)

\* What a queue says of the messages before the i-th one does not change when a message
\* is added at its end.
LEMMA BeforeAppend ==
  ASSUME NEW q \in Seq(ToGate), NEW m \in ToGate, NEW S, NEW u, NEW i \in 1..(Len(q) + 1)
  PROVE  ToldBefore(S, Append(q, m), i, u) <=> ToldBefore(S, q, i, u)
<1> DEFINE r == Append(q, m)
<1>1. /\ Len(r) = Len(q) + 1 /\ Len(q) \in Nat
      /\ \A j \in 1..Len(q) : r[j] = q[j]
  OBVIOUS
<1> HIDE DEF r
<1>2. \A j \in Int : j < i /\ j \in 1..Len(r) <=> j < i /\ j \in 1..Len(q)
  BY <1>1
<1> QED
  BY <1>1, <1>2 DEF ToldBefore, r

\* A message at the end of the queue is the last thing that the gate server is told.
LEMMA ToldAppend ==
  ASSUME NEW q \in Seq(ToGate), NEW m \in ToGate, NEW S, NEW u
  PROVE  Told(S, Append(q, m), u) <=>
           \/ m.op = "announce" /\ m.tran = u
           \/ Told(S, q, u) /\ ~(m.op = "kick" /\ m.tran = u)
<1> DEFINE r == Append(q, m)
           n == Len(q) + 1
<1>1. /\ Len(r) = n /\ r[n] = m /\ Len(q) \in Nat /\ n \in 1..Len(r)
      /\ \A j \in 1..Len(q) : r[j] = q[j] /\ j \in 1..Len(r) /\ j < n
      /\ \A j \in 1..Len(r) : j = n \/ j \in 1..Len(q)
  OBVIOUS
<1> HIDE DEF r
<1>2. CASE m.op = "announce" /\ m.tran = u
  <2>1. n < Len(r) + 1 /\ \A k \in 1..Len(r) : ~(n < k /\ k < Len(r) + 1)
    BY <1>1
  <2> QED
    BY <1>1, <1>2, <2>1 DEF Told, ToldBefore, r
<1>3. CASE m.op = "kick" /\ m.tran = u
  <2>1. m.op # "announce"
    BY <1>3
  <2>2. ~ToldBefore(S, r, Len(r) + 1, u)
    BY <1>1, <1>3, <2>1 DEF ToldBefore
  <2> QED
    BY <1>3, <2>1, <2>2 DEF Told, r
<1>4. CASE m.tran # u
  <2>1. ToldBefore(S, r, Len(r) + 1, u) <=> ToldBefore(S, q, n, u)
    BY <1>1, <1>4 DEF ToldBefore
  <2> QED
    BY <1>4, <2>1 DEF Told, r
<1> QED
  BY <1>2, <1>3, <1>4 DEF ToGate

\* When the head of the queue is read, what came before a message stays before it.
LEMMA BeforeTail ==
  ASSUME NEW q \in Seq(ToGate), q # <<>>, NEW S, NEW u, NEW i \in 1..Len(q), NEW S2,
         S2 = IF Head(q).op = "announce" THEN S \cup {Head(q).tran} ELSE S \ {Head(q).tran}
  PROVE  ToldBefore(S2, Tail(q), i, u) <=> ToldBefore(S, q, i + 1, u)
<1> DEFINE r == Tail(q)
           m == Head(q)
           kicks(x) == x.op = "kick" /\ x.tran = u
           tells(x) == x.op = "announce" /\ x.tran = u
<1>1. /\ Len(r) = Len(q) - 1 /\ Len(q) \in Nat \ {0} /\ q[1] = m /\ 1 \in 1..Len(q)
      /\ \A j \in 1..Len(r) : r[j] = q[j + 1] /\ j + 1 \in 1..Len(q)
      /\ \A j \in 1..Len(q) : j # 1 => j - 1 \in 1..Len(r) /\ r[j - 1] = q[j]
  OBVIOUS
<1>2. m \in ToGate
  BY QueueTypes
<1> HIDE DEF r, m
<1>3. u \in S2 <=> tells(m) \/ (u \in S /\ ~kicks(m))
  BY <1>2 DEF ToGate, m
<1>4. ASSUME NEW j \in Int
      PROVE  (\A k \in 1..Len(r) : j < k /\ k < i => ~kicks(r[k]))
               <=> \A k \in 1..Len(q) : k # 1 /\ j + 1 < k /\ k < i + 1 => ~kicks(q[k])
  <2> HIDE DEF kicks
  <2>1. ASSUME \A k \in 1..Len(r) : j < k /\ k < i => ~kicks(r[k]),
               NEW k \in 1..Len(q), k # 1, j + 1 < k, k < i + 1
        PROVE  ~kicks(q[k])
    <3>1. k - 1 \in 1..Len(r) /\ r[k - 1] = q[k] /\ j < k - 1 /\ k - 1 < i
      BY <1>1, <2>1
    <3> QED
      BY <2>1, <3>1
  <2>2. ASSUME \A k \in 1..Len(q) : k # 1 /\ j + 1 < k /\ k < i + 1 => ~kicks(q[k]),
               NEW k \in 1..Len(r), j < k, k < i
        PROVE  ~kicks(r[k])
    <3>1. k + 1 \in 1..Len(q) /\ q[k + 1] = r[k] /\ k + 1 # 1 /\ j + 1 < k + 1 /\ k + 1 < i + 1
      BY <1>1, <2>2
    <3> QED
      BY <2>2, <3>1
  <2> QED
    BY <2>1, <2>2
<1>5. ASSUME ToldBefore(S2, r, i, u) PROVE ToldBefore(S, q, i + 1, u)
  <2>1. CASE u \in S2 /\ \A k \in 1..Len(r) : k < i => ~kicks(r[k])
    <3>1. \A k \in 1..Len(q) : k # 1 /\ k < i + 1 => ~kicks(q[k])
      <4>1. \A k \in 1..Len(r) : 0 < k /\ k < i => ~kicks(r[k])
        BY <2>1
      <4>2. \A k \in 1..Len(q) : k # 1 /\ 0 + 1 < k /\ k < i + 1 => ~kicks(q[k])
        BY <1>4, <4>1
      <4> QED
        BY <4>2
    <3>2. CASE tells(m)
      <4>1. \A k \in 1..Len(q) : 1 < k /\ k < i + 1 => ~kicks(q[k])
        BY <3>1
      <4> QED
        BY <1>1, <3>2, <4>1 DEF ToldBefore
    <3>3. CASE u \in S /\ ~kicks(m)
      <4>1. \A k \in 1..Len(q) : k < i + 1 => ~kicks(q[k])
        BY <1>1, <3>1, <3>3
      <4> QED
        BY <3>3, <4>1 DEF ToldBefore
    <3> QED
      BY <1>3, <2>1, <3>2, <3>3
  <2>2. ASSUME NEW j \in 1..Len(r), j < i, tells(r[j]),
               \A k \in 1..Len(r) : j < k /\ k < i => ~kicks(r[k])
        PROVE  ToldBefore(S, q, i + 1, u)
    <3>1. j + 1 \in 1..Len(q) /\ j + 1 < i + 1 /\ tells(q[j + 1])
      BY <1>1, <2>2
    <3>2. \A k \in 1..Len(q) : k # 1 /\ j + 1 < k /\ k < i + 1 => ~kicks(q[k])
      BY <1>4, <2>2
    <3>3. \A k \in 1..Len(q) : j + 1 < k /\ k < i + 1 => ~kicks(q[k])
      BY <3>2
    <3> QED
      BY <3>1, <3>3 DEF ToldBefore
  <2> QED
    BY <1>5, <2>1, <2>2 DEF ToldBefore
<1>6. ASSUME ToldBefore(S, q, i + 1, u) PROVE ToldBefore(S2, r, i, u)
  <2>1. ASSUME \A k \in 1..Len(q) : 1 < k /\ k < i + 1 => ~kicks(q[k]), u \in S2
        PROVE  ToldBefore(S2, r, i, u)
    <3>1. \A k \in 1..Len(q) : k # 1 /\ 0 + 1 < k /\ k < i + 1 => ~kicks(q[k])
      BY <2>1
    <3>4. 0 \in Int
      OBVIOUS
    <3>2. \A k \in 1..Len(r) : 0 < k /\ k < i => ~kicks(r[k])
      BY <1>4, <3>1, <3>4, Zenon
    <3>3. \A k \in 1..Len(r) : k < i => ~kicks(r[k])
      BY <3>2
    <3> QED
      BY <2>1, <3>3 DEF ToldBefore
  <2>2. CASE u \in S /\ \A k \in 1..Len(q) : k < i + 1 => ~kicks(q[k])
    <3>1. u \in S2
      BY <1>1, <1>3, <2>2
    <3> QED
      BY <2>1, <2>2, <3>1
  <2>3. ASSUME NEW j \in 1..Len(q), j < i + 1, tells(q[j]),
               \A k \in 1..Len(q) : j < k /\ k < i + 1 => ~kicks(q[k])
        PROVE  ToldBefore(S2, r, i, u)
    <3>1. CASE j = 1
      BY <1>1, <1>3, <2>1, <2>3, <3>1
    <3>2. CASE j # 1
      <4>1. j - 1 \in 1..Len(r) /\ j - 1 < i /\ tells(r[j - 1])
        BY <1>1, <2>3, <3>2
      <4>2. \A k \in 1..Len(q) : k # 1 /\ (j - 1) + 1 < k /\ k < i + 1 => ~kicks(q[k])
        BY <2>3
      <4>4. j - 1 \in Int
        OBVIOUS
      <4>3. \A k \in 1..Len(r) : j - 1 < k /\ k < i => ~kicks(r[k])
        BY <1>4, <4>2, <4>4, Zenon
      <4> QED
        BY <4>1, <4>3 DEF ToldBefore
    <3> QED
      BY <3>1, <3>2
  <2> QED
    BY <1>6, <2>2, <2>3 DEF ToldBefore
<1> QED
  BY <1>5, <1>6 DEF r

\* A message that keeps the promise is added to a queue that keeps it.
LEMMA QueueGrows ==
  ASSUME NEW S, NEW q \in Seq(ToGate), QueueOrdered(S, q), NEW m \in ToGate,
         m.op = "announce" => \A u \in Trans : Owner[u] = Owner[m.tran] => ~Told(S, q, u),
         m.op = "kick" => Told(S, q, m.tran)
  PROVE  QueueOrdered(S, Append(q, m))
<1> DEFINE r == Append(q, m)
<1>1. /\ Len(r) = Len(q) + 1 /\ r[Len(q) + 1] = m /\ Len(q) \in Nat
      /\ \A j \in 1..Len(q) : r[j] = q[j]
  OBVIOUS
<1>2. ASSUME NEW u, NEW i \in 1..(Len(q) + 1)
      PROVE  ToldBefore(S, r, i, u) <=> ToldBefore(S, q, i, u)
  BY BeforeAppend
<1> HIDE DEF r
<1>3. ASSUME NEW i \in 1..Len(r)
      PROVE  /\ r[i].op = "announce" =>
                  \A u \in Trans : Owner[u] = Owner[r[i].tran] => ~ToldBefore(S, r, i, u)
             /\ r[i].op = "kick" => ToldBefore(S, r, i, r[i].tran)
  <2>1. CASE i \in 1..Len(q)
    BY <1>1, <1>2, <2>1 DEF QueueOrdered
  <2>2. CASE i = Len(q) + 1
    BY <1>1, <1>2, <2>2 DEF Told
  <2> QED
    BY <1>1, <1>3, <2>1, <2>2
<1> QED
  BY <1>3 DEF QueueOrdered, r

-----------------------------------------------------------------------------
(* What the login server does, seen from one gate server *)

\* kickUserFromGate, at the gate server that the account's id p is at: the kick follows
\* the announcement, and the account has no id any more.
LEMMA KickHere ==
  ASSUME NEW g, NEW S, NEW q \in Seq(ToGate), NEW A, GateOrdered(g, S, q, A),
         NEW a \in Accounts, NEW p \in Account, A[a] = {p}, p.gate = g,
         NEW m \in ToGate, m.op = "kick", m.tran = p.tran,
         NEW A2, \A b \in Accounts : A2[b] = IF b = a THEN {} ELSE A[b]
  PROVE  GateOrdered(g, S, Append(q, m), A2)
<1> DEFINE r == Append(q, m)
<1>1. p.tran \in Trans /\ Owner[p.tran] = a /\ Told(S, q, p.tran)
  BY DEF GateOrdered, Account
<1>2. ASSUME NEW u PROVE Told(S, r, u) <=> Told(S, q, u) /\ u # p.tran
  <2>1. m.op # "announce"
    OBVIOUS
  <2> QED
    BY <2>1, ToldAppend
<1>3. QueueOrdered(S, r)
  BY <1>1, QueueGrows DEF GateOrdered
<1> HIDE DEF r
<1>4. ASSUME NEW u \in Trans, Told(S, r, u)
      PROVE  A2[Owner[u]] = {[tran |-> u, gate |-> g]}
  <2>1. u # p.tran /\ A[Owner[u]] = {[tran |-> u, gate |-> g]}
    BY <1>2, <1>4 DEF GateOrdered
  <2>2. Owner[u] # a
    <3> SUFFICES ASSUME Owner[u] = a PROVE FALSE
      OBVIOUS
    <3>1. p = [tran |-> u, gate |-> g]
      BY <2>1
    <3> QED
      BY <2>1, <3>1
  <2> QED
    BY <2>1, <2>2, OwnerAssumption
<1>5. ASSUME NEW b \in Accounts, NEW x \in A2[b], x.gate = g
      PROVE  x.tran \in Trans /\ Owner[x.tran] = b /\ Told(S, r, x.tran)
  <2>1. b # a /\ x \in A[b]
    BY <1>5
  <2>2. x.tran \in Trans /\ Owner[x.tran] = b /\ Told(S, q, x.tran)
    BY <1>5, <2>1 DEF GateOrdered
  <2> QED
    BY <1>1, <1>2, <2>1, <2>2
<1> QED
  BY <1>3, <1>4, <1>5 DEF GateOrdered, r

\* giveUserToGate, at the gate server that is chosen for an account that has no id: no
\* id of the account is left at this gate server, not even the same one.
LEMMA AnnounceHere ==
  ASSUME NEW g, NEW S, NEW q \in Seq(ToGate), NEW A, GateOrdered(g, S, q, A),
         NEW a \in Accounts, A[a] = {}, NEW m \in ToGate, m.op = "announce",
         Owner[m.tran] = a, NEW e \in Account, e.tran = m.tran, e.gate = g,
         NEW A2, e \in A2[a], \A x \in A2[a] : x = e, \A b \in Accounts \ {a} : A2[b] = A[b]
  PROVE  GateOrdered(g, S, Append(q, m), A2)
<1> DEFINE r == Append(q, m)
<1>1. ASSUME NEW u PROVE Told(S, r, u) <=> Told(S, q, u) \/ u = m.tran
  <2>1. m.op # "kick"
    OBVIOUS
  <2>2. Told(S, r, u) <=> \/ m.op = "announce" /\ m.tran = u
                          \/ Told(S, q, u) /\ ~(m.op = "kick" /\ m.tran = u)
    BY ONLY ToldAppend, q \in Seq(ToGate), m \in ToGate
  <2> QED
    BY <2>1, <2>2
<1>2. ASSUME NEW u \in Trans, Owner[u] = a PROVE ~Told(S, q, u)
  BY <1>2 DEF GateOrdered
<1>3. QueueOrdered(S, r)
  BY <1>2, QueueGrows DEF GateOrdered
<1> HIDE DEF r
<1>4. ASSUME NEW u \in Trans, Told(S, r, u)
      PROVE  A2[Owner[u]] = {[tran |-> u, gate |-> g]}
  <2>1. CASE u = m.tran
    <3>1. e = [tran |-> u, gate |-> g]
      BY <2>1 DEF Account
    <3>2. A2[a] = {e}
      OBVIOUS
    <3> QED
      BY <2>1, <3>1, <3>2
  <2>2. CASE Told(S, q, u)
    <3>1. A[Owner[u]] = {[tran |-> u, gate |-> g]} /\ Owner[u] # a
      BY <1>2, <2>2 DEF GateOrdered
    <3> QED
      BY <3>1, OwnerAssumption
  <2> QED
    BY <1>1, <1>4, <2>1, <2>2
<1>5. ASSUME NEW b \in Accounts, NEW x \in A2[b], x.gate = g
      PROVE  x.tran \in Trans /\ Owner[x.tran] = b /\ Told(S, r, x.tran)
  <2>1. CASE b = a
    <3>1. x = e
      BY <1>5, <2>1
    <3>2. x.tran = m.tran /\ x.tran \in Trans
      BY <3>1 DEF Account
    <3> QED
      BY <1>1, <2>1, <3>2
  <2>2. CASE b # a
    <3>1. x \in A[b]
      BY <1>5, <2>2
    <3> QED
      BY <1>1, <1>5, <3>1 DEF GateOrdered
  <2> QED
    BY <2>1, <2>2
<1> QED
  BY <1>3, <1>4, <1>5 DEF GateOrdered, r

\* The account's entry changes and neither the old nor the new one is at gate server g:
\* nothing changes at g.
LEMMA Elsewhere ==
  ASSUME NEW g, NEW S, NEW q, NEW A, GateOrdered(g, S, q, A),
         NEW a \in Accounts, \A p \in A[a] : p.gate # g,
         NEW A2, \A b \in Accounts \ {a} : A2[b] = A[b], \A p \in A2[a] : p.gate # g
  PROVE  GateOrdered(g, S, q, A2)
<1>1. ASSUME NEW u \in Trans, Told(S, q, u)
      PROVE  A2[Owner[u]] = {[tran |-> u, gate |-> g]}
  <2>1. A[Owner[u]] = {[tran |-> u, gate |-> g]}
    BY <1>1 DEF GateOrdered
  <2>2. Owner[u] # a
    <3> SUFFICES ASSUME Owner[u] = a PROVE FALSE
      OBVIOUS
    <3>1. [tran |-> u, gate |-> g] \in A[a]
      BY <2>1
    <3> QED
      BY <3>1
  <2> QED
    BY <2>1, <2>2, OwnerAssumption
<1>2. ASSUME NEW b \in Accounts, NEW x \in A2[b], x.gate = g
      PROVE  x.tran \in Trans /\ Owner[x.tran] = b /\ Told(S, q, x.tran)
  <2>1. x \in A[b]
    BY <1>2
  <2> QED
    BY <1>2, <2>1 DEF GateOrdered
<1> QED
  BY <1>1, <1>2 DEF GateOrdered

\* The gate server reads the next message: what was under way has arrived.
LEMMA ReceiveHere ==
  ASSUME NEW g, NEW S, NEW q \in Seq(ToGate), q # <<>>, NEW A, GateOrdered(g, S, q, A), NEW S2,
         S2 = IF Head(q).op = "announce" THEN S \cup {Head(q).tran} ELSE S \ {Head(q).tran}
  PROVE  GateOrdered(g, S2, Tail(q), A)
<1> DEFINE r == Tail(q)
<1>1. /\ Len(r) = Len(q) - 1 /\ Len(q) \in Nat \ {0}
      /\ \A j \in 1..Len(r) : r[j] = q[j + 1] /\ j + 1 \in 1..Len(q) /\ j \in 1..Len(q)
  OBVIOUS
<1>2. ASSUME NEW u, NEW i \in 1..Len(q)
      PROVE  ToldBefore(S2, r, i, u) <=> ToldBefore(S, q, i + 1, u)
  BY BeforeTail
<1> HIDE DEF r
<1>3. QueueOrdered(S2, r)
  <2>1. QueueOrdered(S, q)
    BY DEF GateOrdered
  <2> SUFFICES ASSUME NEW i \in 1..Len(r)
               PROVE  /\ r[i].op = "announce" =>
                           \A u \in Trans : Owner[u] = Owner[r[i].tran] => ~ToldBefore(S2, r, i, u)
                      /\ r[i].op = "kick" => ToldBefore(S2, r, i, r[i].tran)
    BY DEF QueueOrdered
  <2>2. r[i] = q[i + 1] /\ i + 1 \in 1..Len(q) /\ i \in 1..Len(q)
    BY <1>1
  <2> QED
    BY <1>2, <2>1, <2>2 DEF QueueOrdered
<1>4. ASSUME NEW u PROVE Told(S2, r, u) <=> Told(S, q, u)
  <2>1. Len(r) + 1 \in 1..Len(q) /\ (Len(r) + 1) + 1 = Len(q) + 1 /\ Len(r) + 1 = Len(q)
    BY <1>1
  <2> QED
    BY <1>2, <2>1 DEF Told
<1> QED
  BY <1>3, <1>4 DEF GateOrdered, r

-----------------------------------------------------------------------------
(* The inductive invariant *)

\* The messages of the queues Q that are under way to gate server g
underWay(Q, g) == IF gateConn[g] = NoConn THEN <<>> ELSE Q[gateConn[g]]

\* A gate server that has not connected yet knows of nobody.
NobodyYet ==
  \A g \in Gates : gateConn[g] = NoConn =>
    /\ m_Gates[g] = NoConn
    /\ told[g] = {} /\ m_wait_map[g] = {}
    /\ \A a \in Accounts : m_onlineaccs[g][a] = NoTran

\* A gate server has one connection, the login server sends to no other, and nothing
\* is under way on a connection nobody has.
OneLink ==
  /\ \A g \in Gates : m_Gates[g] # NoConn => gateConn[g] = m_Gates[g]
  /\ \A g, h \in Gates : gateConn[g] = gateConn[h] /\ gateConn[g] # NoConn => g = h
  /\ \A c \in Conns : ~alive(c) => toGate[c] = <<>>

\* A gate server registers once, before any player: it lists no account.
NobodyListed ==
  \A c \in Conns : \A i \in 1..Len(toLogin[c]) :
    toLogin[c][i].op = "register" =>
      /\ gateConn[toLogin[c][i].gate] = c
      /\ \A a \in Accounts : toLogin[c][i].accs[a] = NoTran

\* An account's id is at a gate server that is there.
AtAGate ==
  \A a \in Accounts : \A p \in m_Accts[a] : p.gate \in Gates /\ m_Gates[p.gate] # NoConn

AllOrdered ==
  \A g \in Gates :
    GateOrdered(g, told[g], underWay(toGate, g), m_Accts)

OrderInv == NobodyYet /\ OneLink /\ NobodyListed /\ AtAGate /\ AllOrdered /\ AssertHolds

\* A step that leaves the accounts, the connections and the gate servers alone
LEMMA OrderFrame ==
  ASSUME OrderInv,
         UNCHANGED <<m_Accts, m_Gates, aborted, gateConn, toGate, toLogin,
                     m_wait_map, m_onlineaccs, told>>
  PROVE  OrderInv'
<1>1. AllOrdered'
  BY DEF OrderInv, AllOrdered, underWay
<1>2. NobodyYet' /\ OneLink' /\ NobodyListed' /\ AtAGate' /\ AssertHolds'
  BY DEF OrderInv, NobodyYet, OneLink, NobodyListed, AtAGate, AssertHolds, alive
<1> QED
  BY <1>1, <1>2 DEF OrderInv

\* What is under way to a gate server when a message is sent to gate server h
LEMMA SendUnderWay ==
  ASSUME TypeOK, OneLink, NEW Q \in [Conns -> Seq(ToGate)], NEW h \in Gates, m_Gates[h] # NoConn,
         NEW m \in ToGate, NEW Q1, Q1 = sendGate(Q, m_Gates[h], m),
         \A c \in Conns : ~alive(c) => Q[c] = <<>>
  PROVE  /\ Q1 \in [Conns -> Seq(ToGate)]
         /\ \A c \in Conns : ~alive(c) => Q1[c] = <<>>
         /\ underWay(Q, h) \in Seq(ToGate)
         /\ underWay(Q1, h) = Append(underWay(Q, h), m)
         /\ \A g \in Gates \ {h} : underWay(Q1, g) = underWay(Q, g)
<1> DEFINE c == gateConn[h]
<1>1. c = m_Gates[h] /\ c \in Conns /\ c # NoConn
  BY DEF OneLink, TypeOK
<1>2. alive(c)
  BY DEF alive
<1>3. \A g \in Gates \ {h} : gateConn[g] # c
  BY <1>1 DEF OneLink
<1> HIDE DEF c
<1>4. Q1 = [Q EXCEPT ![c] = Append(@, m)]
  BY <1>1, <1>2 DEF sendGate
<1>5. Q1 \in [Conns -> Seq(ToGate)]
  BY SendGateType
<1>6. Q1[c] = Append(Q[c], m) /\ \A d \in Conns \ {c} : Q1[d] = Q[d]
  BY <1>1, <1>4
<1>7. \A d \in Conns : ~alive(d) => Q1[d] = <<>>
  BY <1>2, <1>6
<1>8. underWay(Q, h) = Q[c] /\ underWay(Q1, h) = Q1[c]
  BY <1>1 DEF underWay, c
<1>9. ASSUME NEW g \in Gates \ {h} PROVE underWay(Q1, g) = underWay(Q, g)
  <2>1. gateConn[g] # c /\ gateConn[g] \in Conns \cup {NoConn}
    BY <1>3 DEF TypeOK
  <2> QED
    BY <1>6, <2>1 DEF underWay
<1> QED
  BY <1>1, <1>5, <1>6, <1>7, <1>8, <1>9

\* kickUserFromGate: afterwards the account has no id anywhere.
LEMMA KickAll ==
  ASSUME TypeOK, OrderInv, NEW a \in Accounts,
         NEW A1, \A b \in Accounts : A1[b] = IF b = a THEN {} ELSE m_Accts[b],
         NEW Q1, Q1 = kickUserFromGate(toGate, a)
  PROVE  /\ Q1 \in [Conns -> Seq(ToGate)]
         /\ \A c \in Conns : ~alive(c) => Q1[c] = <<>>
         /\ \A g \in Gates : GateOrdered(g, told[g], underWay(Q1, g), A1)
<1>1. CASE m_Accts[a] = {}
  <2>1. Q1 = toGate
    BY <1>1 DEF kickUserFromGate, getAccount
  <2>2. ASSUME NEW g \in Gates
        PROVE  GateOrdered(g, told[g], underWay(toGate, g), A1)
    <3>1. GateOrdered(g, told[g], underWay(toGate, g), m_Accts)
      BY DEF OrderInv, AllOrdered
    <3>2. A1[a] = {} /\ \A b \in Accounts \ {a} : A1[b] = m_Accts[b]
      OBVIOUS
    <3> QED
      BY <1>1, <3>1, <3>2, Elsewhere
  <2> QED
    BY <2>1, <2>2 DEF TypeOK, OrderInv, OneLink
<1>2. CASE m_Accts[a] # {}
  <2>1. PICK p \in Account : m_Accts[a] = {p}
    <3>1. m_Accts \in [Accounts -> {{}} \cup {{x} : x \in Account}]
      BY DEF TypeOK
    <3> QED
      BY ONLY <1>2, <3>1, a \in Accounts
  <2> DEFINE h == p.gate
             m == [op |-> "kick", tran |-> p.tran]
  <2>2. h \in Gates /\ m_Gates[h] # NoConn
    BY <2>1 DEF OrderInv, AtAGate
  <2>3. m \in ToGate /\ m.op = "kick" /\ m.tran = p.tran
    BY DEF ToGate, Account
  <2>4. (CHOOSE x \in m_Accts[a] : TRUE) = p
    BY <2>1
  <2>5. Q1 = sendGate(toGate, m_Gates[h], m)
    BY <1>2, <2>2, <2>4 DEF kickUserFromGate, getAccount
  <2> HIDE DEF m, h
  <2>6. toGate \in [Conns -> Seq(ToGate)] /\ OneLink /\ \A c \in Conns : ~alive(c) => toGate[c] = <<>>
    BY DEF OrderInv, OneLink, TypeOK
  <2>7. /\ Q1 \in [Conns -> Seq(ToGate)]
        /\ \A c \in Conns : ~alive(c) => Q1[c] = <<>>
        /\ underWay(toGate, h) \in Seq(ToGate)
        /\ underWay(Q1, h) = Append(underWay(toGate, h), m)
        /\ \A g \in Gates \ {h} : underWay(Q1, g) = underWay(toGate, g)
    BY <2>2, <2>3, <2>5, <2>6, SendUnderWay
  <2>8. ASSUME NEW g \in Gates
        PROVE  GateOrdered(g, told[g], underWay(Q1, g), A1)
    <3>1. GateOrdered(g, told[g], underWay(toGate, g), m_Accts)
      BY DEF OrderInv, AllOrdered
    <3>2. CASE g = h
      <4>1. p.gate = g
        BY <3>2 DEF h
      <4>2. GateOrdered(g, told[g], Append(underWay(toGate, g), m), A1)
        <5> DEFINE q == underWay(toGate, g)
                   S == told[g]
        <5>1. q \in Seq(ToGate) /\ GateOrdered(g, S, q, m_Accts)
          BY <2>7, <3>1, <3>2
        <5> HIDE DEF q, S
        <5>2. GateOrdered(g, S, Append(q, m), A1)
          BY ONLY <2>1, <2>3, <4>1, <5>1, KickHere, a \in Accounts,
                  \A b \in Accounts : A1[b] = IF b = a THEN {} ELSE m_Accts[b]
        <5> QED
          BY <5>2 DEF q, S
      <4> QED
        BY <2>7, <3>2, <4>2
    <3>3. CASE g # h
      <4>1. /\ \A x \in m_Accts[a] : x.gate # g
            /\ A1[a] = {} /\ \A b \in Accounts \ {a} : A1[b] = m_Accts[b]
        BY <2>1, <3>3 DEF h
      <4>2. GateOrdered(g, told[g], underWay(toGate, g), A1)
        BY <3>1, <4>1, Elsewhere
      <4> QED
        BY <2>7, <3>3, <4>2
    <3> QED
      BY <3>2, <3>3
  <2> QED
    BY <2>7, <2>8
<1> QED
  BY <1>1, <1>2

\* A login that is accepted: the old id is kicked before the new one is announced,
\* also when the two are at different gate servers or no gate server is there.
LEMMA AcceptOrdered ==
  ASSUME TypeOK, OrderInv, NEW s \in Sessions, NEW a \in Accounts, accept(s, a),
         UNCHANGED <<m_Gates, aborted, gateConn, toLogin, m_wait_map, m_onlineaccs, told>>
  PROVE  OrderInv'
<1>1. PICK t \in Trans : /\ Owner[t] = a
                         /\ \/ \E g \in getIdleGate : giveUserToGate(s, a, t, g)
                            \/ noGate(s, a)
  BY DEF accept, makeTransId
<1> DEFINE A1 == [b \in Accounts |-> IF b = a THEN {} ELSE m_Accts[b]]
           Q1 == kickUserFromGate(toGate, a)
<1>2. \A b \in Accounts : A1[b] = IF b = a THEN {} ELSE m_Accts[b]
  OBVIOUS
<1> HIDE DEF A1, Q1
<1>3. /\ Q1 \in [Conns -> Seq(ToGate)]
      /\ \A c \in Conns : ~alive(c) => Q1[c] = <<>>
      /\ \A g \in Gates : GateOrdered(g, told[g], underWay(Q1, g), A1)
  BY <1>2, KickAll DEF Q1
<1>4. ASSUME \A c \in Conns : ~alive(c) => toGate'[c] = <<>>,
             \A b \in Accounts : \A p \in m_Accts'[b] : p.gate \in Gates /\ m_Gates[p.gate] # NoConn,
             \A g \in Gates : GateOrdered(g, told[g], underWay(toGate', g), m_Accts')
      PROVE  OrderInv'
  <2>1. AllOrdered'
    BY <1>4 DEF AllOrdered, underWay
  <2>2. AtAGate' /\ OneLink'
    BY <1>4 DEF AtAGate, OneLink, OrderInv, alive
  <2>3. NobodyYet' /\ NobodyListed' /\ AssertHolds'
    BY DEF OrderInv, NobodyYet, NobodyListed, AssertHolds
  <2> QED
    BY <2>1, <2>2, <2>3 DEF OrderInv
<1>5. CASE noGate(s, a)
  <2>1. toGate' = Q1 /\ \A b \in Accounts : m_Accts'[b] = A1[b]
    BY <1>2, <1>5 DEF noGate, Q1, TypeOK
  <2>2. ASSUME NEW b \in Accounts, NEW p \in m_Accts'[b]
        PROVE  p.gate \in Gates /\ m_Gates[p.gate] # NoConn
    BY <1>2, <2>1, <2>2 DEF OrderInv, AtAGate
  <2>3. ASSUME NEW g \in Gates
        PROVE  GateOrdered(g, told[g], underWay(Q1, g), m_Accts')
    <3>1. /\ GateOrdered(g, told[g], underWay(Q1, g), A1)
          /\ A1[a] = {} /\ m_Accts'[a] = {}
          /\ \A b \in Accounts \ {a} : m_Accts'[b] = A1[b]
      BY <1>1, <1>2, <1>3, <2>1
    <3> QED
      BY <3>1, Elsewhere
  <2> QED
    BY <1>3, <1>4, <2>1, <2>2, <2>3
<1>6. ASSUME NEW h \in getIdleGate, giveUserToGate(s, a, t, h)
      PROVE  OrderInv'
  <2> DEFINE m == [op |-> "announce", tran |-> t]
  <2>1. h \in Gates /\ m_Gates[h] # NoConn
    BY DEF getIdleGate
  <2>2. m \in ToGate /\ m.op = "announce" /\ m.tran = t
    BY DEF ToGate
  <2>3. toGate' = sendGate(Q1, m_Gates[h], m)
    BY <1>6 DEF giveUserToGate, Q1
  <2>4. \A b \in Accounts : m_Accts'[b] = IF b = a THEN {[tran |-> t, gate |-> h]} ELSE m_Accts[b]
    BY <1>6 DEF giveUserToGate, TypeOK
  <2>5. \A b \in Accounts : m_Accts'[b] = IF b = a THEN {[tran |-> t, gate |-> h]} ELSE A1[b]
    BY <1>2, <2>4
  <2> HIDE DEF m
  <2>6. /\ \A c \in Conns : ~alive(c) => toGate'[c] = <<>>
        /\ underWay(Q1, h) \in Seq(ToGate)
        /\ underWay(toGate', h) = Append(underWay(Q1, h), m)
        /\ \A g \in Gates \ {h} : underWay(toGate', g) = underWay(Q1, g)
    BY <1>3, <2>1, <2>2, <2>3, SendUnderWay DEF OrderInv
  <2>7. ASSUME NEW b \in Accounts, NEW p \in m_Accts'[b]
        PROVE  p.gate \in Gates /\ m_Gates[p.gate] # NoConn
    <3>1. CASE b = a
      <4>1. p = [tran |-> t, gate |-> h]
        BY <2>4, <2>7, <3>1
      <4> QED
        BY <2>1, <4>1
    <3>2. CASE b # a
      BY <2>4, <2>7, <3>2 DEF OrderInv, AtAGate
    <3> QED
      BY <3>1, <3>2
  <2>8. ASSUME NEW g \in Gates
        PROVE  GateOrdered(g, told[g], underWay(toGate', g), m_Accts')
    <3> DEFINE q == underWay(Q1, g)
               S == told[g]
               A2 == m_Accts'
    <3>1. GateOrdered(g, S, q, A1) /\ A1[a] = {}
      BY <1>2, <1>3
    <3>2. CASE g = h
      <4>1. q \in Seq(ToGate) /\ underWay(toGate', g) = Append(q, m)
        BY <2>6, <3>2
      <4> DEFINE e == [tran |-> t, gate |-> h]
      <4>2. A2[a] = {e} /\ \A b \in Accounts \ {a} : A2[b] = A1[b]
        BY <2>5
      <4>5. e \in Account /\ e.tran = m.tran /\ e.gate = g
        BY <2>1, <2>2, <3>2 DEF Account
      <4>4. Owner[m.tran] = a
        BY <1>1, <2>2
      <4> HIDE DEF q, S, A2, e
      <4>3. GateOrdered(g, S, Append(q, m), A2)
        <5>1. /\ q \in Seq(ToGate) /\ GateOrdered(g, S, q, A1)
              /\ a \in Accounts /\ A1[a] = {} /\ m \in ToGate /\ m.op = "announce"
              /\ Owner[m.tran] = a
              /\ e \in Account /\ e.tran = m.tran /\ e.gate = g
              /\ e \in A2[a] /\ (\A x \in A2[a] : x = e) /\ \A b \in Accounts \ {a} : A2[b] = A1[b]
          BY <2>2, <3>1, <4>1, <4>2, <4>4, <4>5
        <5> QED
          BY ONLY <5>1, AnnounceHere
      <4> QED
        BY <3>1, <4>1, <4>3 DEF S, A2
    <3>3. CASE g # h
      <4>1. /\ \A b \in Accounts \ {a} : A2[b] = A1[b]
            /\ \A p \in A2[a] : p.gate # g
            /\ underWay(toGate', g) = q
        <5>1. A2[a] = {[tran |-> t, gate |-> h]} /\ \A b \in Accounts \ {a} : A2[b] = A1[b]
          BY <2>5
        <5>2. \A p \in A2[a] : p.gate = h
          BY <5>1
        <5> QED
          BY <2>6, <3>3, <5>1, <5>2
      <4> HIDE DEF q, S, A2
      <4>2. GateOrdered(g, S, q, A2)
        BY ONLY <3>1, <4>1, Elsewhere, a \in Accounts
      <4> QED
        BY <4>1, <4>2 DEF S, A2
    <3> QED
      BY <3>2, <3>3
  <2> QED
    BY <1>4, <2>6, <2>7, <2>8
<1> QED
  BY <1>1, <1>5, <1>6

\* parseGateRegister: the gate server becomes known, and since it lists nobody the
\* assert holds and the accounts stay as they are.
LEMMA RegisterOrdered ==
  ASSUME TypeOK, OrderInv, NEW c \in Conns, parseGateRegister(c)
  PROVE  OrderInv'
<1> USE DEF sessVars, acctVars, connVars, gateVars
<1> DEFINE m == Head(toLogin[c])
<1>1. toLogin[c] \in Seq(ToLogin) /\ toLogin[c] # <<>> /\ m.op = "register"
  BY DEF parseGateRegister, TypeOK
<1>2. m \in ToLogin /\ 1 \in 1..Len(toLogin[c]) /\ toLogin[c][1] = m
  BY <1>1, QueueTypes
<1>3. m.gate \in Gates
  BY <1>1, <1>2 DEF ToLogin
<1>4. gateConn[m.gate] = c /\ \A a \in Accounts : m.accs[a] = NoTran
  BY <1>1, <1>2 DEF OrderInv, NobodyListed
<1>5. /\ m_Gates' = [m_Gates EXCEPT ![m.gate] = c]
      /\ m_Accts' = [a \in Accounts |-> m_Accts[a]]
      /\ toLogin' = [toLogin EXCEPT ![c] = Tail(@)]
      /\ UNCHANGED <<aborted, gateConn, toGate, m_wait_map, m_onlineaccs, told>>
  BY <1>4 DEF parseGateRegister, addGate, addAccounts
<1> HIDE DEF m
<1>6. m_Accts' = m_Accts
  BY <1>5 DEF TypeOK
<1>7. \A g \in Gates : m_Gates'[g] = IF g = m.gate THEN c ELSE m_Gates[g]
  BY <1>3, <1>5 DEF TypeOK
<1>8. c # NoConn
  BY NullAssumption
<1>9. AllOrdered'
  BY <1>5, <1>6 DEF OrderInv, AllOrdered, underWay
<1>10. NobodyYet' /\ OneLink' /\ AtAGate' /\ AssertHolds'
  <2>1. NobodyYet'
    BY <1>4, <1>5, <1>7, <1>8 DEF OrderInv, NobodyYet
  <2>2. OneLink'
    BY <1>4, <1>5, <1>7 DEF OrderInv, OneLink, alive
  <2>3. AtAGate'
    BY <1>6, <1>7, <1>8 DEF OrderInv, AtAGate
  <2> QED
    BY <1>5, <2>1, <2>2, <2>3 DEF OrderInv, AssertHolds
<1>11. NobodyListed'
  <2> SUFFICES ASSUME NEW d \in Conns, NEW i \in 1..Len(toLogin'[d]), toLogin'[d][i].op = "register"
               PROVE  /\ gateConn[toLogin'[d][i].gate] = d
                      /\ \A a \in Accounts : toLogin'[d][i].accs[a] = NoTran
    BY <1>5 DEF NobodyListed
  <2>1. CASE d = c
    <3>1. toLogin'[d] = Tail(toLogin[c])
      BY <1>5, <2>1 DEF TypeOK
    <3>2. i + 1 \in 1..Len(toLogin[c]) /\ toLogin'[d][i] = toLogin[c][i + 1]
      BY <1>1, <3>1, TailPart
    <3> QED
      BY <2>1, <3>2 DEF OrderInv, NobodyListed
  <2>2. CASE d # c
    <3>1. toLogin'[d] = toLogin[d]
      BY <1>5, <2>2 DEF TypeOK
    <3> QED
      BY <3>1 DEF OrderInv, NobodyListed
  <2> QED
    BY <2>1, <2>2
<1> QED
  BY <1>9, <1>10, <1>11 DEF OrderInv

\* parseGateUserPrepar: an answer is read.
LEMMA PreparOrdered ==
  ASSUME TypeOK, OrderInv, NEW c \in Conns, parseGateUserPrepar(c)
  PROVE  OrderInv'
<1> USE DEF sessVars, acctVars, connVars, gateVars
<1>1. toLogin[c] \in Seq(ToLogin) /\ toLogin[c] # <<>>
  BY DEF parseGateUserPrepar, TypeOK
<1>2. /\ toLogin' = [toLogin EXCEPT ![c] = Tail(@)]
      /\ UNCHANGED <<m_Gates, m_Accts, aborted, gateConn, toGate, m_wait_map,
                     m_onlineaccs, told>>
  BY DEF parseGateUserPrepar
<1>3. AllOrdered'
  BY <1>2 DEF OrderInv, AllOrdered, underWay
<1>4. NobodyYet' /\ OneLink' /\ AtAGate' /\ AssertHolds'
  BY <1>2 DEF OrderInv, NobodyYet, OneLink, AtAGate, AssertHolds, alive
<1>5. NobodyListed'
  <2> SUFFICES ASSUME NEW d \in Conns, NEW i \in 1..Len(toLogin'[d]), toLogin'[d][i].op = "register"
               PROVE  /\ gateConn[toLogin'[d][i].gate] = d
                      /\ \A a \in Accounts : toLogin'[d][i].accs[a] = NoTran
    BY <1>2 DEF NobodyListed
  <2>1. CASE d = c
    <3>1. toLogin'[d] = Tail(toLogin[c])
      BY <1>2, <2>1 DEF TypeOK
    <3>2. i + 1 \in 1..Len(toLogin[c]) /\ toLogin'[d][i] = toLogin[c][i + 1]
      BY <1>1, <3>1, TailPart
    <3> QED
      BY <2>1, <3>2 DEF OrderInv, NobodyListed
  <2>2. CASE d # c
    <3>1. toLogin'[d] = toLogin[d]
      BY <1>2, <2>2 DEF TypeOK
    <3> QED
      BY <3>1 DEF OrderInv, NobodyListed
  <2> QED
    BY <2>1, <2>2
<1> QED
  BY <1>3, <1>4, <1>5 DEF OrderInv

\* GateLoginClient::on_connect: a gate server connects on a connection nobody has.
LEMMA ConnectOrdered ==
  ASSUME TypeOK, OrderInv, NEW g \in Gates, NEW c \in Conns, gateConnect(g, c)
  PROVE  OrderInv'
<1> USE DEF sessVars, acctVars, connVars, gateVars
<1> DEFINE m == [op |-> "register", gate |-> g, accs |-> m_onlineaccs[g]]
<1>1. /\ gateConn[g] = NoConn /\ ~alive(c) /\ c # NoConn
      /\ gateConn' = [gateConn EXCEPT ![g] = c]
      /\ toLogin' = [toLogin EXCEPT ![c] = <<m>>]
      /\ UNCHANGED <<m_Gates, m_Accts, aborted, toGate, m_wait_map, m_onlineaccs,
                     told>>
  BY NullAssumption DEF gateConnect
<1>2. \A h \in Gates : gateConn[h] # c
  BY <1>1 DEF alive
<1>3. \A h \in Gates : gateConn'[h] = IF h = g THEN c ELSE gateConn[h]
  BY <1>1 DEF TypeOK
<1>4. toGate[c] = <<>>
  BY <1>1 DEF OrderInv, OneLink
<1>5. ASSUME NEW h \in Gates PROVE underWay(toGate, h)' = underWay(toGate, h)
  BY <1>1, <1>3, <1>4 DEF underWay
<1>6. AllOrdered'
  <2> SUFFICES ASSUME NEW h \in Gates
               PROVE  GateOrdered(h, told'[h], underWay(toGate, h)', m_Accts')
    BY DEF AllOrdered
  <2>1. GateOrdered(h, told[h], underWay(toGate, h), m_Accts)
    BY DEF OrderInv, AllOrdered
  <2>2. /\ told'[h] = told[h] /\ m_Accts' = m_Accts
        /\ underWay(toGate, h)' = underWay(toGate, h)
    BY <1>1, <1>5
  <2> QED
    BY ONLY <2>1, <2>2
<1>7. NobodyYet'
  BY <1>1, <1>3 DEF OrderInv, NobodyYet
<1>8. OneLink'
  <2>1. m_Gates[g] = NoConn
    BY <1>1 DEF OrderInv, NobodyYet
  <2>2. \A h \in Gates : m_Gates[h] # NoConn => gateConn'[h] = m_Gates[h]
    BY <1>3, <2>1 DEF OrderInv, OneLink
  <2>3. \A h, k \in Gates : gateConn'[h] = gateConn'[k] /\ gateConn'[h] # NoConn => h = k
    BY <1>2, <1>3 DEF OrderInv, OneLink
  <2>4. ASSUME NEW d \in Conns, ~alive(d)' PROVE toGate[d] = <<>>
    <3>1. \A h \in Gates : gateConn'[h] # d
      BY <2>4 DEF alive
    <3>2. \A h \in Gates : gateConn[h] # d
      BY <1>1, <1>3, <3>1, NullAssumption
    <3> QED
      BY <3>2 DEF OrderInv, OneLink, alive
  <2> QED
    BY <1>1, <2>2, <2>3, <2>4 DEF OneLink
<1>9. AtAGate' /\ AssertHolds'
  BY <1>1 DEF OrderInv, AtAGate, AssertHolds
<1>10. NobodyListed'
  <2> SUFFICES ASSUME NEW d \in Conns, NEW i \in 1..Len(toLogin'[d]), toLogin'[d][i].op = "register"
               PROVE  /\ gateConn'[toLogin'[d][i].gate] = d
                      /\ \A a \in Accounts : toLogin'[d][i].accs[a] = NoTran
    BY DEF NobodyListed
  <2>1. CASE d = c
    <3>1. toLogin'[d] = <<m>>
      BY <1>1, <2>1 DEF TypeOK
    <3>2. toLogin'[d][i] = m
      BY <3>1
    <3>3. m.gate = g /\ \A a \in Accounts : m.accs[a] = NoTran
      BY <1>1 DEF OrderInv, NobodyYet
    <3> QED
      BY <1>3, <2>1, <3>2, <3>3
  <2>2. CASE d # c
    <3>1. toLogin'[d] = toLogin[d] /\ toLogin[d] \in Seq(ToLogin)
      BY <1>1, <2>2 DEF TypeOK
    <3>2. toLogin[d][i] \in ToLogin
      BY <3>1
    <3>3. toLogin[d][i].gate \in Gates
      BY <3>1, <3>2 DEF ToLogin
    <3>4. gateConn[toLogin[d][i].gate] = d /\ \A a \in Accounts : toLogin[d][i].accs[a] = NoTran
      BY <3>1 DEF OrderInv, NobodyListed
    <3> QED
      BY <1>1, <1>3, <3>1, <3>3, <3>4, NullAssumption
  <2> QED
    BY <2>1, <2>2
<1> QED
  BY <1>6, <1>7, <1>8, <1>9, <1>10 DEF OrderInv

\* A gate server reads an announcement or a kick: its own state agrees with what is
\* still under way, and the answer to an announcement is no registration.
LEMMA ReceiveOrdered ==
  ASSUME TypeOK, OrderInv, NEW g \in Gates, gateReceive(g)
  PROVE  OrderInv'
<1> USE DEF sessVars, acctVars, connVars, gateVars
<1> DEFINE c == gateConn[g]
           q == toGate[c]
           m == Head(q)
           msg == [op |-> "prepar", tran |-> m.tran]
<1>1. /\ c \in Conns /\ c # NoConn /\ q \in Seq(ToGate) /\ q # <<>>
      /\ toGate' = [toGate EXCEPT ![c] = Tail(@)]
      /\ UNCHANGED <<m_Gates, m_Accts, aborted, gateConn>>
  BY DEF gateReceive, TypeOK
<1>2. m \in ToGate
  BY <1>1, QueueTypes
<1>3. \/ m.op = "announce" /\ addToWait(g, m.tran)
      \/ m.op = "kick" /\ kickUser(g, m.tran)
  BY DEF gateReceive
<1>4. /\ \A h \in Gates \ {g} : /\ m_wait_map'[h] = m_wait_map[h] /\ told'[h] = told[h]
                                 /\ m_onlineaccs'[h] = m_onlineaccs[h]
      /\ told'[g] = IF m.op = "announce" THEN told[g] \cup {m.tran} ELSE told[g] \ {m.tran}
  <2>1. CASE m.op = "announce" /\ addToWait(g, m.tran)
    BY <2>1 DEF addToWait, eraseAcc, TypeOK
  <2>2. CASE m.op = "kick" /\ kickUser(g, m.tran)
    BY <2>2 DEF kickUser, eraseAcc, TypeOK
  <2> QED
    BY <1>3, <2>1, <2>2
<1>5. \/ toLogin' = toLogin
      \/ toLogin' = [toLogin EXCEPT ![c] = Append(@, msg)]
  BY <1>3 DEF addToWait, kickUser
<1>6. \A h \in Gates \ {g} : gateConn[h] # c
  BY <1>1 DEF OrderInv, OneLink
<1>7. /\ underWay(toGate, g) = q /\ underWay(toGate, g)' = Tail(q)
      /\ \A h \in Gates \ {g} : underWay(toGate, h)' = underWay(toGate, h)
  <2>1. underWay(toGate, g) = q /\ underWay(toGate, g)' = Tail(q)
    BY <1>1 DEF underWay, TypeOK
  <2>2. ASSUME NEW h \in Gates \ {g} PROVE underWay(toGate, h)' = underWay(toGate, h)
    <3>1. gateConn[h] # c /\ gateConn[h] \in Conns \cup {NoConn}
      BY <1>6 DEF TypeOK
    <3>2. gateConn[h] # NoConn => toGate'[gateConn[h]] = toGate[gateConn[h]]
      BY <1>1, <3>1 DEF TypeOK
    <3> QED
      BY <1>1, <3>2 DEF underWay
  <2> QED
    BY <2>1, <2>2
<1>8. AllOrdered'
  <2> SUFFICES ASSUME NEW h \in Gates
               PROVE  GateOrdered(h, told'[h], underWay(toGate, h)', m_Accts')
    BY DEF AllOrdered
  <2>1. GateOrdered(h, told[h], underWay(toGate, h), m_Accts)
    BY DEF OrderInv, AllOrdered
  <2>2. m_Accts' = m_Accts
    BY <1>1
  <2>3. CASE h = g
    <3> DEFINE S == told[g]
               S2 == told'[g]
    <3>1. /\ GateOrdered(g, S, q, m_Accts) /\ q \in Seq(ToGate) /\ q # <<>>
          /\ S2 = IF Head(q).op = "announce" THEN S \cup {Head(q).tran} ELSE S \ {Head(q).tran}
      BY <1>1, <1>4, <1>7, <2>1, <2>3
    <3> HIDE DEF q, S, S2
    <3>2. GateOrdered(g, S2, Tail(q), m_Accts)
      BY ONLY <3>1, ReceiveHere
    <3> QED
      BY <1>7, <2>2, <2>3, <3>2 DEF S, S2
  <2>4. CASE h # g
    <3>1. told'[h] = told[h] /\ underWay(toGate, h)' = underWay(toGate, h)
      BY <1>4, <1>7, <2>4
    <3> QED
      BY ONLY <2>1, <2>2, <3>1
  <2> QED
    BY <2>3, <2>4
<1>9. NobodyYet' /\ AtAGate' /\ AssertHolds'
  BY <1>1, <1>4 DEF OrderInv, NobodyYet, AtAGate, AssertHolds
<1>10. OneLink'
  <2>1. ASSUME NEW d \in Conns, ~alive(d)' PROVE toGate'[d] = <<>>
    <3>1. ~alive(d) /\ d # c
      BY <1>1, <2>1 DEF alive
    <3> QED
      BY <1>1, <3>1 DEF OrderInv, OneLink, TypeOK
  <2>2. /\ \A h \in Gates : m_Gates'[h] # NoConn => gateConn'[h] = m_Gates'[h]
        /\ \A h, k \in Gates : gateConn'[h] = gateConn'[k] /\ gateConn'[h] # NoConn => h = k
    BY <1>1 DEF OrderInv, OneLink
  <2> QED
    BY <2>1, <2>2 DEF OneLink
<1>11. NobodyListed'
  <2>1. CASE toLogin' = toLogin
    BY <1>1, <2>1 DEF OrderInv, NobodyListed
  <2>2. CASE toLogin' = [toLogin EXCEPT ![c] = Append(@, msg)]
    <3> SUFFICES ASSUME NEW d \in Conns, NEW i \in 1..Len(toLogin'[d]), toLogin'[d][i].op = "register"
                 PROVE  /\ gateConn[toLogin'[d][i].gate] = d
                        /\ \A a \in Accounts : toLogin'[d][i].accs[a] = NoTran
      BY <1>1 DEF NobodyListed
    <3>1. CASE d = c
      <4>1. toLogin'[d] = Append(toLogin[c], msg) /\ toLogin[c] \in Seq(ToLogin) /\ msg \in ToLogin
        BY <1>1, <1>2, <2>2, <3>1 DEF TypeOK, ToGate, ToLogin
      <4>2. \/ i \in 1..Len(toLogin[c]) /\ toLogin'[d][i] = toLogin[c][i]
            \/ toLogin'[d][i] = msg
        BY <4>1, AppendPart
      <4>3. msg.op # "register"
        OBVIOUS
      <4> QED
        BY <3>1, <4>2, <4>3 DEF OrderInv, NobodyListed
    <3>2. CASE d # c
      <4>1. toLogin'[d] = toLogin[d]
        BY <2>2, <3>2 DEF TypeOK
      <4> QED
        BY <4>1 DEF OrderInv, NobodyListed
    <3> QED
      BY <3>1, <3>2
  <2> QED
    BY <1>5, <2>1, <2>2
<1> QED
  BY <1>8, <1>9, <1>10, <1>11 DEF OrderInv

-----------------------------------------------------------------------------
(* Theorems *)

\* On connections that hold, the invariant holds in every reachable state of the login
\* server and the gate servers.
THEOREM OrderInvariant ==
  ASSUME ~LinkLoss
  PROVE  Spec => []OrderInv
<1>1. Init => OrderInv
  <2> SUFFICES ASSUME Init PROVE OrderInv
    OBVIOUS
  <2>1. \A c \in Conns : 1..Len(toLogin[c]) = {}
    BY DEF Init
  <2>2. NobodyYet /\ OneLink /\ AtAGate /\ AssertHolds
    BY DEF Init, NobodyYet, OneLink, AtAGate, AssertHolds
  <2>3. NobodyListed
    BY <2>1 DEF NobodyListed
  <2>4. AllOrdered
    <3> SUFFICES ASSUME NEW g \in Gates
                 PROVE  GateOrdered(g, told[g], underWay(toGate, g), m_Accts)
      BY DEF AllOrdered
    <3> DEFINE q == underWay(toGate, g)
    <3>1. q = <<>> /\ told[g] = {} /\ \A a \in Accounts : m_Accts[a] = {}
      BY DEF Init, underWay
    <3>2. 1..Len(q) = {}
      BY <3>1
    <3> HIDE DEF q
    <3>3. QueueOrdered(told[g], q)
      BY <3>2 DEF QueueOrdered
    <3>4. \A u \in Trans : ~Told(told[g], q, u)
      BY <3>1, <3>2 DEF Told, ToldBefore
    <3> QED
      BY <3>1, <3>3, <3>4 DEF GateOrdered, q
  <2> QED
    BY <2>2, <2>3, <2>4 DEF OrderInv
<1>2. TypeOK /\ OrderInv /\ [Next]_vars => OrderInv'
  <2> SUFFICES ASSUME TypeOK, OrderInv, [Next]_vars PROVE OrderInv'
    OBVIOUS
  <2> USE DEF sessVars, acctVars, connVars, gateVars
  <2>1. CASE ClientNext
    BY <2>1, OrderFrame DEF ClientNext, on_accept, on_close, parsePlatformVerify, checkAccount
  <2>2. CASE AnswerNext
    <3>1. ASSUME NEW ok \in BOOLEAN, logicExcute(ok) PROVE OrderInv'
      BY <3>1, OrderFrame DEF logicExcute
    <3>2. ASSUME checkAccountCall PROVE OrderInv'
      <4>1. Head(tasks) \in Tasks
        BY <3>2, QueueTypes DEF checkAccountCall, TypeOK
      <4>2. Head(tasks).ower \in Sessions /\ Head(tasks).acct \in Accounts
        BY <4>1 DEF Tasks
      <4>3. CASE refuse(Head(tasks).ower)
        BY <3>2, <4>3, OrderFrame DEF checkAccountCall, refuse
      <4>4. CASE accept(Head(tasks).ower, Head(tasks).acct)
        <5>1. UNCHANGED <<m_Gates, aborted, gateConn, toLogin, m_wait_map, m_onlineaccs, told>>
          BY <3>2 DEF checkAccountCall
        <5> QED
          BY <4>2, <4>4, <5>1, AcceptOrdered
      <4> QED
        BY <3>2, <4>3, <4>4 DEF checkAccountCall
    <3>3. ASSUME CreateNewAccount PROVE OrderInv'
      BY <3>3, OrderFrame DEF CreateNewAccount, refuse
    <3>4. ASSUME NEW c \in Conns, parseGateRegister(c) PROVE OrderInv'
      BY <3>4, RegisterOrdered
    <3>5. ASSUME NEW c \in Conns, parseGateUserPrepar(c) PROVE OrderInv'
      BY <3>5, PreparOrdered
    <3>6. ASSUME NEW c \in Conns, gateClosed(c) PROVE OrderInv'
      BY <3>6 DEF gateClosed
    <3> QED
      BY <2>2, <3>1, <3>2, <3>3, <3>4, <3>5, <3>6 DEF AnswerNext
  <2>3. CASE GateNext
    <3>1. ASSUME NEW g \in Gates, gateLost(g) PROVE OrderInv'
      BY <3>1 DEF gateLost
    <3>2. ASSUME NEW g \in Gates, gateReceive(g) PROVE OrderInv'
      BY <3>2, ReceiveOrdered
    <3>3. ASSUME NEW g \in Gates, NEW c \in Conns, gateConnect(g, c) PROVE OrderInv'
      BY <3>3, ConnectOrdered
    <3>4. ASSUME NEW g \in Gates, UNCHANGED <<m_Accts, m_Gates, aborted, gateConn, toGate,
                                              toLogin, told>>,
                 m_wait_map[g] # {} \/ \E a \in Accounts : m_onlineaccs[g][a] # NoTran,
                 \A h \in Gates \ {g} : m_wait_map'[h] = m_wait_map[h] /\ m_onlineaccs'[h] = m_onlineaccs[h]
          PROVE  OrderInv'
      <4>1. AllOrdered'
        BY <3>4 DEF OrderInv, AllOrdered, underWay
      <4>2. NobodyYet'
        BY <3>4 DEF OrderInv, NobodyYet
      <4>3. OneLink' /\ NobodyListed' /\ AtAGate' /\ AssertHolds'
        BY <3>4 DEF OrderInv, OneLink, NobodyListed, AtAGate, AssertHolds, alive
      <4> QED
        BY <4>1, <4>2, <4>3 DEF OrderInv
    <3>5. ASSUME NEW g \in Gates, NEW t \in Trans, checkConn(g, t) PROVE OrderInv'
      <4>1. /\ m_wait_map[g] # {}
            /\ \A h \in Gates \ {g} : m_wait_map'[h] = m_wait_map[h] /\ m_onlineaccs'[h] = m_onlineaccs[h]
        BY <3>5 DEF checkConn, TypeOK
      <4> QED
        BY <3>4, <3>5, <4>1 DEF checkConn
    <3>6. ASSUME NEW g \in Gates, NEW a \in Accounts, playerGone(g, a) PROVE OrderInv'
      <4>1. \A h \in Gates \ {g} : m_wait_map'[h] = m_wait_map[h] /\ m_onlineaccs'[h] = m_onlineaccs[h]
        BY <3>6 DEF playerGone, eraseAcc, TypeOK
      <4> QED
        BY <3>4, <3>6, <4>1 DEF playerGone
    <3> QED
      BY <2>3, <3>1, <3>2, <3>3, <3>5, <3>6 DEF GateNext
  <2>4. CASE crash
    BY <2>4 DEF crash
  <2>5. CASE UNCHANGED vars
    BY <2>5, OrderFrame DEF vars
  <2> QED
    BY <2>1, <2>2, <2>3, <2>4, <2>5 DEF Next
<1> QED
  BY <1>1, <1>2, LoginTypes, PTL DEF Spec

Order == INSTANCE LoginOrder

\* The login server keeps its promise to every gate server, on connections that hold:
\* an account's login is announced after all earlier ones announced to that gate server
\* were kicked there, the same id too if it was handed out before, and only announced
\* logins are kicked (checkAccountCall, kickUserFromGate, giveUserToGate, makeTransId).
THEOREM OrderKept ==
  ASSUME ~LinkLoss
  PROVE  Spec => Order!Spec
<1>1. Init => Order!Init
  BY DEF Init, Order!Init
<1>2. TypeOK /\ OrderInv /\ [Next]_vars => [Order!Next]_told
  <2> SUFFICES ASSUME TypeOK, OrderInv, [Next]_vars
               PROVE  Order!Next \/ UNCHANGED told
    OBVIOUS
  <2>1. ASSUME NEW g \in Gates, gateReceive(g)
        PROVE  Order!Next
    <3> DEFINE q == toGate[gateConn[g]]
               m == Head(q)
    <3>1. gateConn[g] \in Conns /\ gateConn[g] # NoConn /\ q \in Seq(ToGate) /\ q # <<>>
      BY <2>1 DEF gateReceive, TypeOK
    <3>2. m \in ToGate /\ 1 \in 1..Len(q) /\ q[1] = m
      BY <3>1, QueueTypes
    <3>3. m.tran \in Trans
      BY <3>2 DEF ToGate
    <3>4. QueueOrdered(told[g], q)
      BY <3>1 DEF OrderInv, AllOrdered, GateOrdered, underWay
    <3>5. CASE m.op = "announce" /\ addToWait(g, m.tran)
      <4>1. \A u \in Trans : Owner[u] = Owner[m.tran] => u \notin told[g]
        <5> HIDE DEF q, m
        <5> QED
          BY <3>2, <3>4, <3>5 DEF QueueOrdered, ToldBefore
      <4>2. \A u \in told[g] : Owner[u] # Owner[m.tran]
        BY <4>1 DEF TypeOK
      <4>3. Order!Announce(g, m.tran)
        BY <3>5, <4>2 DEF addToWait, Order!Announce
      <4> QED
        BY <3>3, <4>3 DEF Order!Next
    <3>6. CASE m.op = "kick" /\ kickUser(g, m.tran)
      <4>1. m.tran \in told[g]
        <5> HIDE DEF q, m
        <5> QED
          BY <3>2, <3>4, <3>6 DEF QueueOrdered, ToldBefore
      <4>2. Order!Kick(g, m.tran)
        BY <3>6, <4>1 DEF kickUser, Order!Kick
      <4> QED
        BY <3>3, <4>2 DEF Order!Next
    <3> QED
      BY <2>1, <3>5, <3>6 DEF gateReceive
  <2>2. CASE ClientNext \/ AnswerNext \/ crash \/ UNCHANGED vars
    BY <2>2 DEF ClientNext, on_accept, on_close, parsePlatformVerify, checkAccount,
                AnswerNext, logicExcute, checkAccountCall, CreateNewAccount, parseGateRegister,
                parseGateUserPrepar, gateClosed, crash, vars, gateVars
  <2>3. CASE GateNext
    BY <2>1, <2>3 DEF GateNext, gateLost, gateConnect, checkConn, playerGone, gateVars
  <2> QED
    BY <2>2, <2>3 DEF Next
<1> QED
  BY <1>1, <1>2, LoginTypes, OrderInvariant, PTL DEF Spec, Order!Spec

\* The same of the specification that is model-checked: where connections hold, with and
\* without ids that repeat, its behaviours implement LoginOrder.
THEOREM CalmOrderKept ==
  ASSUME ~LinkLoss
  PROVE  AllSpec => KeepsOrder
<1>1. AllInit => Init
  BY DEF AllInit
<1>2. calm /\ [AllNext]_<<vars, around>> => calm' /\ [Next]_vars
  BY DEF AllNext, calm, FreshNext, RepeatedNext
<1>3. ~calm /\ [AllNext]_<<vars, around>> => ~calm'
  BY DEF AllNext, calm
<1>4. Init => Heard!Init
  BY DEF Init, Heard!Init, heard
<1>5. ~calm /\ ~calm' => [Heard!Next]_heard
  BY DEF heard, calm
<1>6. calm /\ calm' /\ [Order!Next]_told => [Heard!Next]_heard
  <2>1. ASSUME calm, calm', NEW g \in Gates, NEW t \in Trans, Order!Announce(g, t)
        PROVE  Heard!Announce(g, t)
    BY <2>1 DEF heard, calm, Order!Announce, Heard!Announce
  <2>2. ASSUME calm, calm', NEW g \in Gates, NEW t \in Trans, Order!Kick(g, t)
        PROVE  Heard!Kick(g, t)
    BY <2>2 DEF heard, calm, Order!Kick, Heard!Kick
  <2>3. ASSUME calm, calm', UNCHANGED told
        PROVE  UNCHANGED heard
    BY <2>3 DEF heard, calm
  <2> QED
    BY <2>1, <2>2, <2>3 DEF Order!Next, Heard!Next
<1> QED
  BY <1>1, <1>2, <1>3, <1>4, <1>5, <1>6, OrderKept, PTL
  DEF AllSpec, Spec, KeepsOrder, Order!Spec, Heard!Spec
=============================================================================
