-------------------------- MODULE HeroSessionsProofs --------------------------
(* What holds of HeroSessions for every choice of its constants. *)
EXTENDS MCHeroSessions, TLAPS

-----------------------------------------------------------------------------
(* Types *)

\* sendDB keeps a queue a queue of its element type.
LEMMA SendDBType ==
  ASSUME NEW S, NEW q \in Seq(S), NEW m \in S
  PROVE  sendDB(q, m) \in Seq(S)
BY DEF sendDB

\* The tail of a nonempty queue is a queue, its head an element.
LEMMA QueueType ==
  ASSUME NEW S, NEW q \in Seq(S), q # <<>>
  PROVE  Head(q) \in S /\ Tail(q) \in Seq(S)
OBVIOUS

\* A Session that holds a hero is in m_Onlines, and the hero is in memory.
HeldInMemory ==
  \A t \in Trans : _dream_hero[t] = "hero" => getUser(t) /\ Owner[t] \in _heroes

\* TypeOK with what it needs to be inductive: that a pending destroy event belongs
\* to a hero in memory rests on HeldInMemory.
TypeInv == TypeOK /\ HeldInMemory

\* What release does to the tables: types are kept, and a Session that still holds
\* a hero afterwards was not released.
LEMMA ReleaseStep ==
  ASSUME TypeInv, NEW gone \in SUBSET Trans, release(gone)
  PROVE  /\ m_state' \in [Trans -> SessionStates]
         /\ _dream_hero' \in [Trans -> {"NULL", "hero", "freed"}]
         /\ _session' \in [Accounts -> Trans \cup {NoTran}]
         /\ destroyEvent' \subseteq _heroes
         /\ \A t \in Trans : _dream_hero'[t] = "hero" =>
              _dream_hero[t] = "hero" /\ m_state'[t] = m_state[t]
BY OwnerAssumption DEF TypeInv, TypeOK, HeldInMemory, SessionStates, release

\* What attach does to the tables.
LEMMA AttachStep ==
  ASSUME TypeInv, NEW t \in Trans, attach(t)
  PROVE  /\ _dream_hero' \in [Trans -> {"NULL", "hero", "freed"}]
         /\ _session' \in [Accounts -> Trans \cup {NoTran}]
         /\ destroyEvent' \subseteq _heroes
         /\ \A u \in Trans : _dream_hero'[u] = "hero" => u = t \/ _dream_hero[u] = "hero"
BY OwnerAssumption DEF TypeInv, TypeOK, attach

\* What CreateHero does to the heroes.
LEMMA CreateHeroStep ==
  ASSUME TypeInv, NEW a \in Accounts, NEW data \in Nat, CreateHero(a, data)
  PROVE  /\ _heroes' \subseteq Accounts
         /\ _heroes' = _heroes \cup {a}
         /\ progress' \in [Accounts -> Nat]
BY DEF TypeInv, TypeOK, CreateHero

\* TypeInv is an inductive invariant.
THEOREM TypeInvariant == Spec => []TypeInv
<1>1. Init => TypeInv
  BY NullAssumption DEF Init, TypeInv, HeldInMemory, TypeOK, SessionStates
<1>2. TypeInv /\ [Next]_vars => TypeInv'
  <2> SUFFICES ASSUME TypeInv, [Next]_vars PROVE TypeInv'
    OBVIOUS
  <2> USE OwnerAssumption DEF TypeInv, HeldInMemory, TypeOK, SessionStates, getUser
  <2>1. ASSUME NEW c \in Conns, gateClose(c) PROVE TypeInv'
    <3>1. CASE m_Gates[m_gate_id[c]] = c
      <4>1. m_gate_id[c] \in Gates
        BY <2>1 DEF gateClose
      <4>2. release({t \in Trans : getUser(t) /\ HomeGate[t] = m_gate_id[c]})
        BY <2>1, <3>1 DEF gateClose
      <4> QED
        BY <2>1, <3>1, <4>1, <4>2, ReleaseStep DEF gateClose, dbVars
    <3>2. CASE m_Gates[m_gate_id[c]] # c
      BY <2>1, <3>2 DEF gateClose, dbVars
    <3> QED
      BY <3>1, <3>2
  <2>2. ASSUME NEW c \in Conns, NEW g \in Gates, parseGateRegister(c, g)
        PROVE  TypeInv'
    BY <2>2 DEF parseGateRegister, heroVars, dbVars
  <2>3. ASSUME NEW t \in Trans, addUser(t) PROVE TypeInv'
    <3>1. sendDB(queryQ, t) \in Seq(Trans)
      BY SendDBType
    <3>2. CASE GetHero(Owner[t])
      BY <2>3, <3>2, AttachStep DEF addUser, GetHero
    <3>3. CASE ~GetHero(Owner[t])
      BY <2>3, <3>1, <3>3 DEF addUser, GetHero
    <3> QED
      BY <3>2, <3>3
  <2>4. ASSUME NEW t \in Trans, setReconnet(t) PROVE TypeInv'
    BY <2>4 DEF setReconnet, gateVars, heroVars, dbVars
  <2>5. ASSUME NEW t \in Trans, parseRemoveUser(t) PROVE TypeInv'
    BY <2>5, ReleaseStep DEF parseRemoveUser, gateVars, dbVars
  <2>6. ASSUME NEW t \in Trans, parseOffline(t) PROVE TypeInv'
    BY <2>6 DEF parseOffline, gateVars, heroVars, dbVars
  <2>7. ASSUME NEW t \in Trans, parseUserMsg(t) PROVE TypeInv'
    BY <2>7 DEF parseUserMsg, gateVars, dbVars
  <2>8. ASSUME NEW a \in Accounts, SaveHero(a) PROVE TypeInv'
    <3>1. sendDB(saveQ, [acc |-> a, data |-> progress[a]])
            \in Seq([acc : Accounts, data : Nat])
      BY SendDBType
    <3> QED
      BY <2>8, <3>1 DEF SaveHero, gateVars, heroVars
  <2>9. ASSUME NEW a \in Accounts, Destroy(a) PROVE TypeInv'
    BY <2>9 DEF Destroy, gateVars, dbVars
  <2>10. ASSUME dbSave PROVE TypeInv'
    <3>1. Head(saveQ) \in [acc : Accounts, data : Nat]
          /\ Tail(saveQ) \in Seq([acc : Accounts, data : Nat])
      BY <2>10, QueueType DEF dbSave
    <3> QED
      BY <2>10, <3>1 DEF dbSave, gateVars, heroVars
  <2>11. ASSUME dbDoQueryHeroInfo PROVE TypeInv'
    <3>1. Head(queryQ) \in Trans /\ Tail(queryQ) \in Seq(Trans)
      BY <2>11, QueueType DEF dbDoQueryHeroInfo
    <3>2. PICK data \in Nat :
            replyQ' = sendDB(replyQ, [tran |-> Head(queryQ), data |-> data])
      BY <2>11, <3>1 DEF dbDoQueryHeroInfo
    <3>3. replyQ' \in Seq([tran : Trans, data : Nat])
      BY <3>1, <3>2, SendDBType
    <3> QED
      BY <2>11, <3>1, <3>3 DEF dbDoQueryHeroInfo, gateVars, heroVars
  <2>12. ASSUME dbReply PROVE TypeInv'
    <3>1. Head(replyQ) \in [tran : Trans, data : Nat]
          /\ Tail(replyQ) \in Seq([tran : Trans, data : Nat])
      BY <2>12, QueueType DEF dbReply
    <3> DEFINE t == Head(replyQ).tran
               data == Head(replyQ).data
    <3>2. CASE UNCHANGED <<_dream_hero, heroVars>>
      BY <2>12, <3>1, <3>2 DEF dbReply, gateVars, heroVars
    <3>3. CASE \E d \in Nat : CreateHero(Owner[t], d) /\ attach(t) /\ getUser(t)
      <4>1. t \in Trans
        BY <3>1
      <4>2. /\ _heroes' \subseteq Accounts
            /\ _heroes' = _heroes \cup {Owner[t]}
            /\ progress' \in [Accounts -> Nat]
        BY <3>3, <4>1, CreateHeroStep
      <4>3. /\ _dream_hero' \in [Trans -> {"NULL", "hero", "freed"}]
            /\ _session' \in [Accounts -> Trans \cup {NoTran}]
            /\ destroyEvent' \subseteq _heroes
            /\ \A u \in Trans : _dream_hero'[u] = "hero" =>
                 u = t \/ _dream_hero[u] = "hero"
        BY <3>3, <4>1, AttachStep
      <4> QED
        BY <2>12, <3>1, <3>3, <4>1, <4>2, <4>3 DEF dbReply, gateVars
    <3>4. CASE /\ destroyEvent' = destroyEvent \ {Owner[t]}
               /\ UNCHANGED <<_dream_hero, _heroes, _session, progress>>
      BY <2>12, <3>1, <3>4 DEF dbReply, gateVars
    <3> QED
      BY <2>12, <3>1, <3>2, <3>3, <3>4
      DEF dbReply, praseDBQueryHeroInfo, parseDBQueryNeedCreateHero
  <2>13. ASSUME dbClose PROVE TypeInv'
    <3>1. replyQ' \in Seq([tran : Trans, data : Nat])
      BY <2>13 DEF dbClose
    <3>2. dbUp' \in BOOLEAN
      BY <2>13 DEF dbClose
    <3> QED
      BY <2>13, <3>1, <3>2 DEF dbClose, gateVars, heroVars
  <2>14. ASSUME dbConnect PROVE TypeInv'
    BY <2>14 DEF dbConnect, gateVars, heroVars
  <2>15. CASE UNCHANGED vars
    BY <2>15 DEF vars, gateVars, heroVars, dbVars
  <2> QED
    BY <2>1, <2>2, <2>3, <2>4, <2>5, <2>6, <2>7, <2>8, <2>9, <2>10, <2>11, <2>12,
       <2>13, <2>14, <2>15 DEF Next, GateNext, TimerNext, DbNext
<1> QED
  BY <1>1, <1>2, PTL DEF Spec

\* Every table of the game server and every queue of the database keeps its type.
THEOREM HeroTypes == Spec => []TypeOK
BY TypeInvariant, PTL DEF TypeInv

-----------------------------------------------------------------------------
(* Pointers between Sessions and heroes *)

\* The actions that leave every pointer, every hero and m_Onlines alone.
Quiet == /\ UNCHANGED <<_dream_hero, _heroes, _session, destroyEvent>>
         /\ \A t \in Trans : m_state'[t] = "none" <=> m_state[t] = "none"

\* An answer of the database does nothing, or its Session takes the hero, or its
\* Session has the hero and the destroy clock is stopped.
LEMMA ReplyStep ==
  ASSUME TypeInv, dbReply
  PROVE  \E t \in Trans :
           \/ Quiet
           \/ /\ m_state[t] # "none" /\ attach(t)
              /\ _heroes' = _heroes \cup {Owner[t]} /\ UNCHANGED m_state
           \/ /\ _dream_hero[t] = "hero"
              /\ destroyEvent' = destroyEvent \ {Owner[t]}
              /\ UNCHANGED <<_dream_hero, _heroes, _session, m_state>>
<1>1. Head(replyQ) \in [tran : Trans, data : Nat]
  BY QueueType DEF dbReply, TypeInv, TypeOK
<1> DEFINE t == Head(replyQ).tran
<1>2. t \in Trans
  BY <1>1
<1>3. \/ Quiet
      \/ /\ m_state[t] # "none" /\ attach(t)
         /\ _heroes' = _heroes \cup {Owner[t]} /\ UNCHANGED m_state
      \/ /\ _dream_hero[t] = "hero"
         /\ destroyEvent' = destroyEvent \ {Owner[t]}
         /\ UNCHANGED <<_dream_hero, _heroes, _session, m_state>>
  BY DEF dbReply, praseDBQueryHeroInfo, parseDBQueryNeedCreateHero, CreateHero,
         getUser, Quiet, heroVars
<1> QED
  BY <1>2, <1>3

\* Every step is quiet or one of the five kinds of step that move pointers.
LEMMA StepKinds ==
  ASSUME TypeInv, [Next]_vars
  PROVE  \/ Quiet
         \/ \E gone \in SUBSET Trans : release(gone) /\ UNCHANGED _heroes
         \/ \E t \in Trans : addUser(t)
         \/ \E a \in Accounts : Destroy(a)
         \/ dbReply
<1> USE DEF Quiet
<1>1. ASSUME NEW c \in Conns, gateClose(c)
      PROVE  Quiet \/ \E gone \in SUBSET Trans : release(gone) /\ UNCHANGED _heroes
  <2>1. CASE m_Gates[m_gate_id[c]] = c
    <3>1. {t \in Trans : getUser(t) /\ HomeGate[t] = m_gate_id[c]} \in SUBSET Trans
      OBVIOUS
    <3> QED
      BY <1>1, <2>1, <3>1 DEF gateClose
  <2>2. CASE m_Gates[m_gate_id[c]] # c
    BY <1>1, <2>2 DEF gateClose
  <2> QED
    BY <2>1, <2>2
<1>2. ASSUME NEW c \in Conns, NEW g \in Gates, parseGateRegister(c, g) PROVE Quiet
  BY <1>2 DEF parseGateRegister, heroVars
<1>3. ASSUME NEW t \in Trans, setReconnet(t) \/ parseOffline(t) PROVE Quiet
  BY <1>3 DEF setReconnet, parseOffline, heroVars, getUser, TypeInv, TypeOK
<1>4. ASSUME NEW t \in Trans, parseRemoveUser(t)
      PROVE  \E gone \in SUBSET Trans : release(gone) /\ UNCHANGED _heroes
  BY <1>4 DEF parseRemoveUser
<1>5. ASSUME NEW t \in Trans, parseUserMsg(t) PROVE Quiet
  BY <1>5 DEF parseUserMsg
<1>6. ASSUME NEW a \in Accounts, SaveHero(a) PROVE Quiet
  BY <1>6 DEF SaveHero, heroVars
<1>7. ASSUME dbSave \/ dbDoQueryHeroInfo \/ dbClose \/ dbConnect PROVE Quiet
  BY <1>7 DEF dbSave, dbDoQueryHeroInfo, dbClose, dbConnect, heroVars
<1>8. CASE UNCHANGED vars
  BY <1>8 DEF vars, heroVars
<1> QED
  BY <1>1, <1>2, <1>3, <1>4, <1>5, <1>6, <1>7, <1>8
  DEF Next, GateNext, TimerNext, DbNext

\* A hero's pointer to its Session is never left behind (Session::~Session clears
\* it, Destroy deletes the hero).
THEOREM SessionAlwaysAlive == Spec => []SessionAlive
<1>1. Init => SessionAlive
  BY DEF Init, SessionAlive
<1>2. TypeInv /\ SessionAlive /\ [Next]_vars => SessionAlive'
  <2> SUFFICES ASSUME TypeInv, SessionAlive, [Next]_vars PROVE SessionAlive'
    OBVIOUS
  <2> USE OwnerAssumption, NullAssumption DEF SessionAlive, getUser
  <2>1. CASE Quiet
    BY <2>1 DEF Quiet, TypeInv, TypeOK
  <2>2. ASSUME NEW gone \in SUBSET Trans, release(gone), UNCHANGED _heroes
        PROVE  SessionAlive'
    BY <2>2 DEF release, TypeInv, TypeOK
  <2>3. ASSUME NEW t \in Trans, addUser(t) PROVE SessionAlive'
    <3>1. CASE GetHero(Owner[t])
      BY <2>3, <3>1 DEF addUser, attach, GetHero, TypeInv, TypeOK
    <3>2. CASE ~GetHero(Owner[t])
      BY <2>3, <3>2 DEF addUser, GetHero, TypeInv, TypeOK
    <3> QED
      BY <3>1, <3>2
  <2>4. ASSUME NEW a \in Accounts, Destroy(a) PROVE SessionAlive'
    BY <2>4 DEF Destroy, TypeInv, TypeOK
  <2>5. CASE dbReply
    BY <2>5, ReplyStep DEF Quiet, attach, TypeInv, TypeOK
  <2> QED
    BY <2>1, <2>2, <2>3, <2>4, <2>5, StepKinds
<1> QED
  BY <1>1, <1>2, TypeInvariant, PTL DEF Spec

\* Every Session's gate server is registered: removeGate removes the Sessions of
\* the gate in the step that clears its table entry.
THEOREM SessionsAlwaysHaveGate == Spec => []SessionsHaveGate
<1>1. Init => SessionsHaveGate
  BY DEF Init, SessionsHaveGate, getUser
<1>2. TypeInv /\ SessionsHaveGate /\ [Next]_vars => SessionsHaveGate'
  <2> SUFFICES ASSUME TypeInv, SessionsHaveGate, [Next]_vars PROVE SessionsHaveGate'
    OBVIOUS
  <2> USE OwnerAssumption, NullAssumption DEF SessionsHaveGate, getUser, TypeInv, TypeOK
  <2>1. ASSUME NEW c \in Conns, gateClose(c) PROVE SessionsHaveGate'
    <3>1. m_gate_id[c] \in Gates
      BY <2>1 DEF gateClose
    <3>2. CASE m_Gates[m_gate_id[c]] = c
      BY <2>1, <3>1, <3>2 DEF gateClose, release
    <3>3. CASE m_Gates[m_gate_id[c]] # c
      BY <2>1, <3>3 DEF gateClose
    <3> QED
      BY <3>2, <3>3
  <2>2. ASSUME NEW c \in Conns, NEW g \in Gates, parseGateRegister(c, g)
        PROVE  SessionsHaveGate'
    BY <2>2 DEF parseGateRegister
  <2>3. ASSUME NEW t \in Trans,
               addUser(t) \/ setReconnet(t) \/ parseOffline(t)
        PROVE  SessionsHaveGate'
    BY <2>3 DEF addUser, setReconnet, parseOffline, fromGate, gateVars
  <2>4. ASSUME NEW t \in Trans, parseRemoveUser(t) PROVE SessionsHaveGate'
    BY <2>4 DEF parseRemoveUser, release, gateVars
  <2>5. ASSUME UNCHANGED <<m_Gates, m_state>> PROVE SessionsHaveGate'
    BY <2>5
  <2> QED
    BY <2>1, <2>2, <2>3, <2>4, <2>5
    DEF Next, GateNext, TimerNext, DbNext, vars, parseUserMsg, SaveHero, Destroy,
        dbSave, dbDoQueryHeroInfo, dbReply, dbClose, dbConnect, gateVars
<1> QED
  BY <1>1, <1>2, TypeInvariant, PTL DEF Spec

-----------------------------------------------------------------------------
(* One login per account at a time *)

\* At most one Session per account.
OneLogin ==
  \A t, u \in Trans : getUser(t) /\ getUser(u) /\ Owner[t] = Owner[u] => t = u

\* The inductive invariant: with one Session per account, the Session that holds
\* the hero is the one the hero knows, so only ~Session starts the clock.
SerialInv == OneLogin /\ HeldHeroSafe /\ NoHeroLeak

\* A Session that takes its hero while it is the only one of its account leaves
\* every held hero safe.
LEMMA AttachSafe ==
  ASSUME TypeInv, SerialInv, NEW t \in Trans, attach(t), OneLogin',
         getUser(t)', \A u \in Trans : getUser(u) => getUser(u)',
         _heroes' = _heroes \cup {Owner[t]}
  PROVE  HeldHeroSafe' /\ NoHeroLeak'
<1> USE OwnerAssumption, NullAssumption DEF TypeInv, TypeOK, attach
<1>1. ASSUME NEW u \in Trans, u # t, _dream_hero[u] = "hero" PROVE Owner[u] # Owner[t]
  BY <1>1 DEF HeldInMemory, OneLogin
<1>2. HeldHeroSafe'
  BY <1>1 DEF SerialInv, HeldHeroSafe
<1>3. NoHeroLeak'
  <2> SUFFICES ASSUME NEW a \in _heroes', _session'[a] = NoTran PROVE a \in destroyEvent'
    BY DEF NoHeroLeak
  <2>1. Owner[t] \in Accounts /\ a \in Accounts /\ t # NoTran
    OBVIOUS
  <2>2. a # Owner[t]
    BY <2>1
  <2>3. a \in destroyEvent
    BY <2>1, <2>2 DEF SerialInv, NoHeroLeak
  <2> QED
    BY <2>2, <2>3
<1> QED
  BY <1>2, <1>3

\* If a player's old login is removed before the new one is added, SerialInv holds.
THEOREM SerialInvariant ==
  ASSUME Serial
  PROVE  Spec => []SerialInv
<1>1. Init => SerialInv
  BY DEF Init, SerialInv, OneLogin, HeldHeroSafe, NoHeroLeak, getUser
<1>2. TypeInv /\ SerialInv /\ [Next]_vars => SerialInv'
  <2> SUFFICES ASSUME TypeInv, SerialInv, [Next]_vars PROVE SerialInv'
    OBVIOUS
  <2> USE OwnerAssumption, NullAssumption
      DEF SerialInv, OneLogin, HeldHeroSafe, NoHeroLeak, getUser
  <2>1. CASE Quiet
    BY <2>1 DEF Quiet, TypeInv, TypeOK
  <2>2. ASSUME NEW gone \in SUBSET Trans, release(gone), UNCHANGED _heroes
        PROVE  SerialInv'
    BY <2>2 DEF release, TypeInv, TypeOK
  <2>3. ASSUME NEW t \in Trans, addUser(t) PROVE SerialInv'
    <3>1. CASE GetHero(Owner[t])
      <4>1. OneLogin'
        BY <2>3, Serial DEF addUser, TypeInv, TypeOK
      <4>2. /\ attach(t) /\ _heroes' = _heroes \cup {Owner[t]}
            /\ getUser(t)' /\ \A u \in Trans : getUser(u) => getUser(u)'
        BY <2>3, <3>1 DEF addUser, GetHero, TypeInv, TypeOK
      <4> QED
        BY <4>1, <4>2, AttachSafe
    <3>2. CASE ~GetHero(Owner[t])
      BY <2>3, <3>2, Serial DEF addUser, GetHero, TypeInv, TypeOK
    <3> QED
      BY <3>1, <3>2
  <2>4. ASSUME NEW a \in Accounts, Destroy(a) PROVE SerialInv'
    BY <2>4 DEF Destroy, TypeInv, TypeOK
  <2>5. CASE dbReply
    <3>1. ASSUME NEW t \in Trans, m_state[t] # "none", attach(t),
                 _heroes' = _heroes \cup {Owner[t]}, UNCHANGED m_state
          PROVE  SerialInv'
      BY <3>1, AttachSafe
    <3>2. ASSUME NEW t \in Trans, _dream_hero[t] = "hero",
                 destroyEvent' = destroyEvent \ {Owner[t]},
                 UNCHANGED <<_dream_hero, _heroes, _session, m_state>>
          PROVE  SerialInv'
      BY <3>2 DEF TypeInv, TypeOK
    <3> QED
      BY <2>1, <2>5, <3>1, <3>2, ReplyStep
  <2> QED
    BY <2>1, <2>2, <2>3, <2>4, <2>5, StepKinds
<1> QED
  BY <1>1, <1>2, TypeInvariant, PTL DEF Spec

\* If a player's old login is removed before the new one is added, no Session ever
\* holds a freed hero or one about to be freed, and no hero is forgotten.
THEOREM HeroesSafe ==
  ASSUME Serial
  PROVE  Spec => [](HeldHeroSafe /\ NoHeroLeak)
BY SerialInvariant, PTL DEF SerialInv

-----------------------------------------------------------------------------
(* What is loaded is what was saved *)

\* What a queue still holds after its head is taken.
LEMMA TailPart ==
  ASSUME NEW S, NEW q \in Seq(S), q # <<>>, NEW i \in 1..Len(Tail(q))
  PROVE  i + 1 \in 1..Len(q) /\ Tail(q)[i] = q[i + 1]
OBVIOUS

\* What is in a queue is of its type.
LEMMA QueuePart ==
  ASSUME NEW S, NEW q \in Seq(S), NEW i \in 1..Len(q)
  PROVE  q[i] \in S
OBVIOUS

\* The answers and the saves under way are of their types.
LEMMA UnderWayTypes ==
  ASSUME TypeInv
  PROVE  /\ \A i \in 1..Len(replyQ) : replyQ[i].tran \in Trans /\ replyQ[i].data \in Nat
         /\ \A i \in 1..Len(saveQ) : saveQ[i].acc \in Accounts /\ saveQ[i].data \in Nat
<1>1. ASSUME NEW i \in 1..Len(replyQ)
      PROVE  replyQ[i].tran \in Trans /\ replyQ[i].data \in Nat
  <2>1. replyQ[i] \in [tran : Trans, data : Nat]
    BY QueuePart DEF TypeInv, TypeOK
  <2> QED
    BY <2>1
<1>2. ASSUME NEW i \in 1..Len(saveQ)
      PROVE  saveQ[i].acc \in Accounts /\ saveQ[i].data \in Nat
  <2>1. saveQ[i] \in [acc : Accounts, data : Nat]
    BY QueuePart DEF TypeInv, TypeOK
  <2> QED
    BY <2>1
<1> QED
  BY <1>1, <1>2

\* What a queue holds after a message is sent to the database server, or from it.
LEMMA SendDBPart ==
  ASSUME NEW S, NEW q \in Seq(S), NEW x \in S, NEW i \in 1..Len(sendDB(q, x))
  PROVE  \/ i \in 1..Len(q) /\ sendDB(q, x)[i] = q[i]
         \/ sendDB(q, x)[i] = x
BY DEF sendDB

\* No save of the account is on its way.
NoSave(a) == \A i \in 1..Len(saveQ) : saveQ[i].acc # a

\* The Session t waits for its hero.
waits(t) == getUser(t) /\ _dream_hero[t] # "hero"

\* A hero that a Session waits for is not in memory.
WaitedForAway == \A t \in Trans : waits(t) => Owner[t] \notin _heroes

\* Only ids that were added are asked for, and answered.
AskedOnce ==
  /\ \A i \in 1..Len(queryQ) : queryQ[i] \in added
  /\ \A i \in 1..Len(replyQ) : replyQ[i].tran \in added

\* An answer that a Session waits for is the row as it is now, and it will stay so.
AnswerFresh ==
  \A i \in 1..Len(replyQ) : waits(replyQ[i].tran) =>
    replyQ[i].data = row[Owner[replyQ[i].tran]] /\ NoSave(Owner[replyQ[i].tran])

\* The inductive invariant of the loads
LoadInv == WaitedForAway /\ AskedOnce /\ AnswerFresh /\ MemoryNotBehind

\* A step that leaves the rows, the queues and the heroes alone and makes no Session
\* wait
LEMMA LoadFrame ==
  ASSUME LoadInv, UNCHANGED <<_heroes, queryQ, saveQ, row>>, added \subseteq added',
         \A t \in Trans : waits(t)' => waits(t),
         replyQ' = replyQ \/ replyQ' = <<>>,
         \A a \in _heroes : progress'[a] >= progress[a],
         TypeInv, TypeInv'
  PROVE  LoadInv'
<1>1. WaitedForAway'
  BY DEF LoadInv, WaitedForAway
<1>2. \A i \in 1..Len(replyQ') : i \in 1..Len(replyQ) /\ replyQ'[i] = replyQ[i]
  <2>1. CASE replyQ' = <<>>
    <3>1. 1..Len(replyQ') = {}
      BY <2>1
    <3> QED
      BY <3>1
  <2> QED
    BY <2>1
<1>3. AskedOnce'
  BY <1>2 DEF LoadInv, AskedOnce
<1>4. AnswerFresh'
  <2> SUFFICES ASSUME NEW i \in 1..Len(replyQ'), NEW t, t = replyQ'[i].tran, waits(t)'
               PROVE  replyQ'[i].data = row'[Owner[t]] /\ NoSave(Owner[t])'
    BY DEF AnswerFresh, waits, getUser, NoSave
  <2>1. t \in Trans /\ i \in 1..Len(replyQ) /\ replyQ'[i] = replyQ[i]
    BY <1>2, UnderWayTypes
  <2>2. waits(t)
    BY <2>1
  <2>3. replyQ[i].data = row[Owner[t]] /\ NoSave(Owner[t])
    BY <2>1, <2>2 DEF LoadInv, AnswerFresh
  <2> QED
    BY <2>1, <2>3 DEF NoSave
<1>5. MemoryNotBehind'
  <2> SUFFICES ASSUME NEW a \in _heroes
               PROVE  /\ progress'[a] >= row[a]
                      /\ \A i \in 1..Len(saveQ) : saveQ[i].acc = a => progress'[a] >= saveQ[i].data
    BY DEF MemoryNotBehind
  <2>1. a \in Accounts /\ progress[a] \in Nat /\ progress'[a] \in Nat /\ row[a] \in Nat
    BY DEF TypeInv, TypeOK
  <2>2. \A i \in 1..Len(saveQ) : saveQ[i].data \in Nat
    BY UnderWayTypes
  <2>3. progress'[a] >= progress[a] /\ progress[a] >= row[a]
    BY DEF LoadInv, MemoryNotBehind
  <2>4. \A i \in 1..Len(saveQ) : saveQ[i].acc = a => progress[a] >= saveQ[i].data
    BY DEF LoadInv, MemoryNotBehind
  <2> QED
    BY <2>1, <2>2, <2>3, <2>4
<1> QED
  BY <1>1, <1>3, <1>4, <1>5 DEF LoadInv

\* SaveHero: a hero in memory is saved as it is; no Session waits for it.
LEMMA SaveFresh ==
  ASSUME TypeInv, LoadInv, NEW a \in Accounts, SaveHero(a)
  PROVE  LoadInv'
<1> DEFINE x == [acc |-> a, data |-> progress[a]]
<1>1. /\ a \in _heroes /\ saveQ' = sendDB(saveQ, x)
      /\ UNCHANGED <<added, m_state, _dream_hero, _heroes, progress, queryQ, row, replyQ>>
  BY DEF SaveHero, GetHero, gateVars, heroVars
<1>2. x \in [acc : Accounts, data : Nat] /\ saveQ \in Seq([acc : Accounts, data : Nat])
  BY DEF TypeInv, TypeOK
<1>3. \A i \in 1..Len(saveQ') : \/ i \in 1..Len(saveQ) /\ saveQ'[i] = saveQ[i]
                                \/ saveQ'[i] = x
  <2> DEFINE S == [acc : Accounts, data : Nat]
  <2>1. x \in S /\ saveQ \in Seq(S)
    BY <1>2
  <2> HIDE DEF S, x
  <2> QED
    BY <1>1, <2>1, SendDBPart
<1>4. x.acc = a /\ x.data = progress[a] /\ progress[a] \in Nat
  BY DEF TypeInv, TypeOK
<1> HIDE DEF x
<1>5. \A t : waits(t)' <=> waits(t)
  BY <1>1 DEF waits, getUser
<1>6. WaitedForAway' /\ AskedOnce'
  BY <1>1, <1>5 DEF LoadInv, WaitedForAway, AskedOnce
<1>7. AnswerFresh'
  <2> SUFFICES ASSUME NEW i \in 1..Len(replyQ), NEW t, t = replyQ[i].tran, waits(t)'
               PROVE  replyQ[i].data = row[Owner[t]] /\ NoSave(Owner[t])'
    BY <1>1 DEF AnswerFresh, waits, getUser, NoSave
  <2>1. t \in Trans /\ waits(t)
    BY <1>5, UnderWayTypes
  <2>2. Owner[t] # a
    BY <1>1, <2>1 DEF LoadInv, WaitedForAway
  <2>3. replyQ[i].data = row[Owner[t]] /\ NoSave(Owner[t])
    BY <2>1 DEF LoadInv, AnswerFresh
  <2> QED
    BY <1>3, <1>4, <2>2, <2>3 DEF NoSave
<1>8. MemoryNotBehind'
  <2> SUFFICES ASSUME NEW b \in _heroes
               PROVE  /\ progress[b] >= row[b]
                      /\ \A i \in 1..Len(saveQ') : saveQ'[i].acc = b => progress[b] >= saveQ'[i].data
    BY <1>1 DEF MemoryNotBehind
  <2>1. /\ progress[b] >= row[b]
        /\ \A i \in 1..Len(saveQ) : saveQ[i].acc = b => progress[b] >= saveQ[i].data
    BY DEF LoadInv, MemoryNotBehind
  <2> QED
    BY <1>3, <1>4, <2>1
<1> QED
  BY <1>6, <1>7, <1>8 DEF LoadInv

\* dbSave: the row becomes the oldest of the saves on their way.
LEMMA RowFresh ==
  ASSUME TypeInv, LoadInv, dbSave
  PROVE  LoadInv'
<1> DEFINE h == Head(saveQ)
<1>1. /\ saveQ # <<>> /\ saveQ' = Tail(saveQ) /\ row' = [row EXCEPT ![h.acc] = h.data]
      /\ UNCHANGED <<added, m_state, _dream_hero, _heroes, progress, queryQ, replyQ>>
  BY DEF dbSave, gateVars, heroVars
<1>2. /\ saveQ \in Seq([acc : Accounts, data : Nat])
      /\ h \in [acc : Accounts, data : Nat]
  BY <1>1, QueueType DEF TypeInv, TypeOK
<1>3. 1 \in 1..Len(saveQ) /\ saveQ[1] = h
  BY <1>1, <1>2
<1>4. \A i \in 1..Len(saveQ') : i + 1 \in 1..Len(saveQ) /\ saveQ'[i] = saveQ[i + 1]
  BY <1>1, <1>2, TailPart
<1>5. h.acc \in Accounts /\ \A b \in Accounts : row'[b] = IF b = h.acc THEN h.data ELSE row[b]
  BY <1>1, <1>2 DEF TypeInv, TypeOK
<1> HIDE DEF h
<1>6. \A t : waits(t)' <=> waits(t)
  BY <1>1 DEF waits, getUser
<1>7. WaitedForAway' /\ AskedOnce'
  BY <1>1, <1>6 DEF LoadInv, WaitedForAway, AskedOnce
<1>8. AnswerFresh'
  <2> SUFFICES ASSUME NEW i \in 1..Len(replyQ), NEW t, t = replyQ[i].tran, waits(t)'
               PROVE  replyQ[i].data = row'[Owner[t]] /\ NoSave(Owner[t])'
    BY <1>1 DEF AnswerFresh, waits, getUser, NoSave
  <2>1. t \in Trans /\ waits(t) /\ Owner[t] \in Accounts
    BY <1>6, UnderWayTypes, OwnerAssumption
  <2>2. replyQ[i].data = row[Owner[t]] /\ NoSave(Owner[t])
    BY <2>1 DEF LoadInv, AnswerFresh
  <2>3. Owner[t] # h.acc
    BY <1>3, <2>2 DEF NoSave
  <2> QED
    BY <1>4, <1>5, <2>1, <2>2, <2>3 DEF NoSave
<1>9. MemoryNotBehind'
  <2> SUFFICES ASSUME NEW a \in _heroes
               PROVE  /\ progress[a] >= row'[a]
                      /\ \A i \in 1..Len(saveQ') : saveQ'[i].acc = a => progress[a] >= saveQ'[i].data
    BY <1>1 DEF MemoryNotBehind
  <2>1. a \in Accounts
    BY DEF TypeInv, TypeOK
  <2>2. /\ progress[a] >= row[a]
        /\ \A i \in 1..Len(saveQ) : saveQ[i].acc = a => progress[a] >= saveQ[i].data
    BY DEF LoadInv, MemoryNotBehind
  <2> QED
    BY <1>3, <1>4, <1>5, <2>1, <2>2
<1> QED
  BY <1>7, <1>8, <1>9 DEF LoadInv

\* addUser: a new id finds the hero in memory, or waits for an answer of its own; no
\* answer to an earlier use of the id is on its way.
LEMMA AddFresh ==
  ASSUME ~Reuse, TypeInv, LoadInv, NEW t \in Trans, addUser(t)
  PROVE  LoadInv'
<1>1. /\ t \notin added /\ added' = added \cup {t}
      /\ m_state' = [m_state EXCEPT ![t] = "_session_online_"]
      /\ UNCHANGED <<_heroes, progress, saveQ, row, replyQ>>
  BY DEF addUser
<1>2. \/ GetHero(Owner[t]) /\ attach(t) /\ queryQ' = queryQ
      \/ /\ ~GetHero(Owner[t]) /\ queryQ' = sendDB(queryQ, t)
         /\ _dream_hero' = [_dream_hero EXCEPT ![t] = "NULL"]
  BY DEF addUser
<1>3. \A u \in Trans \ {t} : m_state'[u] = m_state[u] /\ _dream_hero'[u] = _dream_hero[u]
  BY <1>1, <1>2 DEF attach, TypeInv, TypeOK
<1>4. \A u \in Trans \ {t} : waits(u)' <=> waits(u)
  BY <1>3 DEF waits, getUser
<1>5. WaitedForAway'
  <2> SUFFICES ASSUME NEW u \in Trans, waits(u)' PROVE Owner[u] \notin _heroes
    BY <1>1 DEF WaitedForAway
  <2>1. CASE u # t
    BY <1>4, <2>1 DEF LoadInv, WaitedForAway
  <2>2. CASE u = t
    <3>1. _dream_hero'[t] # "hero"
      BY <2>2 DEF waits
    <3>2. ~attach(t)
      BY <3>1 DEF attach, TypeInv, TypeOK
    <3> QED
      BY <1>2, <2>2, <3>2 DEF GetHero
  <2> QED
    BY <2>1, <2>2
<1>6. AskedOnce'
  <2>1. \A i \in 1..Len(replyQ') : replyQ'[i].tran \in added'
    BY <1>1 DEF LoadInv, AskedOnce
  <2>2. ASSUME NEW i \in 1..Len(queryQ') PROVE queryQ'[i] \in added'
    <3>1. CASE queryQ' = queryQ
      BY <1>1, <2>2, <3>1 DEF LoadInv, AskedOnce
    <3>2. CASE queryQ' = sendDB(queryQ, t)
      <4>1. \/ i \in 1..Len(queryQ) /\ queryQ'[i] = queryQ[i]
            \/ queryQ'[i] = t
        BY <2>2, <3>2, SendDBPart DEF TypeInv, TypeOK
      <4> QED
        BY <1>1, <4>1 DEF LoadInv, AskedOnce
    <3> QED
      BY <1>2, <3>1, <3>2
  <2> QED
    BY <2>1, <2>2 DEF AskedOnce
<1>7. AnswerFresh'
  <2> SUFFICES ASSUME NEW i \in 1..Len(replyQ), NEW u, u = replyQ[i].tran, waits(u)'
               PROVE  replyQ[i].data = row[Owner[u]] /\ NoSave(Owner[u])
    BY <1>1 DEF AnswerFresh, waits, getUser, NoSave
  <2>1. u \in Trans /\ u # t
    BY <1>1, UnderWayTypes DEF LoadInv, AskedOnce
  <2>2. waits(u)
    BY <1>4, <2>1
  <2> QED
    BY <2>2 DEF LoadInv, AnswerFresh
<1>8. MemoryNotBehind'
  BY <1>1 DEF LoadInv, MemoryNotBehind
<1> QED
  BY <1>5, <1>6, <1>7, <1>8 DEF LoadInv

\* dbDoQueryHeroInfo: the answer is the row, and all saves of the account are in it.
LEMMA QueryFresh ==
  ASSUME SavesFirst, ~DbFails, TypeInv, LoadInv, dbDoQueryHeroInfo
  PROVE  LoadInv'
<1> DEFINE t == Head(queryQ)
           x == [tran |-> t, data |-> row[Owner[t]]]
           S == [tran : Trans, data : Nat]
<1>1. /\ queryQ # <<>> /\ queryQ' = Tail(queryQ) /\ NoSave(Owner[t])
      /\ replyQ' = sendDB(replyQ, x)
      /\ UNCHANGED <<added, m_state, _dream_hero, _heroes, progress, saveQ, row>>
  BY DEF dbDoQueryHeroInfo, gateVars, heroVars, NoSave
<1>2. queryQ \in Seq(Trans) /\ t \in Trans
  BY <1>1, QueueType DEF TypeInv, TypeOK
<1>3. x \in S /\ replyQ \in Seq(S) /\ x.tran = t /\ x.data = row[Owner[t]]
  BY <1>2, OwnerAssumption DEF TypeInv, TypeOK
<1>4. t \in added
  <2>1. 1 \in 1..Len(queryQ) /\ queryQ[1] = t
    BY <1>1, <1>2
  <2> QED
    BY <2>1 DEF LoadInv, AskedOnce
<1> HIDE DEF x, S, t
<1>5. \A i \in 1..Len(replyQ') : \/ i \in 1..Len(replyQ) /\ replyQ'[i] = replyQ[i]
                                 \/ replyQ'[i] = x
  BY <1>1, <1>3, SendDBPart
<1>6. \A u : waits(u)' <=> waits(u)
  BY <1>1 DEF waits, getUser
<1>7. WaitedForAway' /\ MemoryNotBehind'
  BY <1>1, <1>6 DEF LoadInv, WaitedForAway, MemoryNotBehind
<1>8. AskedOnce'
  <2>1. \A i \in 1..Len(replyQ') : replyQ'[i].tran \in added
    BY <1>3, <1>4, <1>5 DEF LoadInv, AskedOnce
  <2>2. ASSUME NEW i \in 1..Len(queryQ') PROVE queryQ'[i] \in added
    <3>1. i + 1 \in 1..Len(queryQ) /\ queryQ'[i] = queryQ[i + 1]
      BY <1>1, <1>2, TailPart
    <3> QED
      BY <3>1 DEF LoadInv, AskedOnce
  <2> QED
    BY <1>1, <2>1, <2>2 DEF AskedOnce
<1>9. AnswerFresh'
  <2> SUFFICES ASSUME NEW i \in 1..Len(replyQ'), NEW u, u = replyQ'[i].tran, waits(u)'
               PROVE  replyQ'[i].data = row[Owner[u]] /\ NoSave(Owner[u])
    BY <1>1 DEF AnswerFresh, waits, getUser, NoSave
  <2>1. CASE replyQ'[i] = x
    BY <1>1, <1>3, <2>1
  <2>2. CASE i \in 1..Len(replyQ) /\ replyQ'[i] = replyQ[i]
    BY <1>6, <2>2 DEF LoadInv, AnswerFresh
  <2> QED
    BY <1>5, <2>1, <2>2
<1> QED
  BY <1>7, <1>8, <1>9 DEF LoadInv

\* dbReply: a Session that waits gets a hero as it was saved last, or a new one if none
\* was ever saved; a hero in memory is kept.
LEMMA ReplyFresh ==
  ASSUME TypeInv, TypeInv', SerialInv, LoadInv, dbReply
  PROVE  LoadInv'
<1> DEFINE h == Head(replyQ)
           t == h.tran
           a == Owner[t]
<1>1. /\ replyQ # <<>> /\ replyQ' = Tail(replyQ)
      /\ UNCHANGED <<added, m_state, queryQ, saveQ, row>>
  BY DEF dbReply, gateVars
<1>2. replyQ \in Seq([tran : Trans, data : Nat]) /\ h \in [tran : Trans, data : Nat]
  BY <1>1, QueueType DEF TypeInv, TypeOK
<1>3. /\ t \in Trans /\ h.data \in Nat /\ a \in Accounts
      /\ 1 \in 1..Len(replyQ) /\ replyQ[1] = h
  BY <1>1, <1>2, OwnerAssumption
<1>4. \A i \in 1..Len(replyQ') : i + 1 \in 1..Len(replyQ) /\ replyQ'[i] = replyQ[i + 1]
  BY <1>1, <1>2, TailPart
<1>5. waits(t) => h.data = row[a] /\ NoSave(a)
  BY <1>3 DEF LoadInv, AnswerFresh
<1>6. ASSUME \A u \in Trans : waits(u)' => waits(u) /\ Owner[u] \notin _heroes',
             \A b \in _heroes' : /\ progress'[b] >= row[b]
                                  /\ \A i \in 1..Len(saveQ) : saveQ[i].acc = b => progress'[b] >= saveQ[i].data
      PROVE  LoadInv'
  <2>1. WaitedForAway' /\ MemoryNotBehind'
    BY <1>1, <1>6 DEF WaitedForAway, MemoryNotBehind
  <2>2. AskedOnce'
    BY <1>1, <1>4 DEF LoadInv, AskedOnce
  <2>3. AnswerFresh'
    <3> SUFFICES ASSUME NEW i \in 1..Len(replyQ'), NEW u, u = replyQ'[i].tran, waits(u)'
                 PROVE  replyQ'[i].data = row[Owner[u]] /\ NoSave(Owner[u])
      BY <1>1 DEF AnswerFresh, waits, getUser, NoSave
    <3>1. i + 1 \in 1..Len(replyQ) /\ replyQ'[i] = replyQ[i + 1] /\ u \in Trans
      BY <1>4, UnderWayTypes
    <3>2. waits(u)
      BY <1>6, <3>1
    <3> QED
      BY <3>1, <3>2 DEF LoadInv, AnswerFresh
  <2> QED
    BY <2>1, <2>2, <2>3 DEF LoadInv
<1>7. ASSUME UNCHANGED <<_dream_hero, _heroes, progress>> PROVE LoadInv'
  <2>1. \A u \in Trans : waits(u)' => waits(u) /\ Owner[u] \notin _heroes'
    BY <1>1, <1>7 DEF waits, getUser, LoadInv, WaitedForAway
  <2>2. \A b \in _heroes' : /\ progress'[b] >= row[b]
                             /\ \A i \in 1..Len(saveQ) : saveQ[i].acc = b => progress'[b] >= saveQ[i].data
    BY <1>7 DEF LoadInv, MemoryNotBehind
  <2> QED
    BY <1>6, <2>1, <2>2
<1>8. ASSUME getUser(t), attach(t), CreateHero(a, h.data) PROVE LoadInv'
  <2>1. \A u \in Trans : _dream_hero'[u] = IF u = t THEN "hero" ELSE _dream_hero[u]
    BY <1>3, <1>8 DEF attach, TypeInv, TypeOK
  <2>2. ASSUME NEW u \in Trans, waits(u)' PROVE waits(u) /\ Owner[u] \notin _heroes'
    <3>1. u # t /\ waits(u)
      BY <1>1, <2>1, <2>2 DEF waits, getUser
    <3>2. Owner[u] # a
      BY <1>3, <1>8, <3>1 DEF waits, SerialInv, OneLogin
    <3>3. Owner[u] \notin _heroes
      BY <3>1 DEF LoadInv, WaitedForAway
    <3> QED
      BY <1>8, <3>1, <3>2, <3>3 DEF CreateHero
  <2>3. \A b \in Accounts : progress'[b] = IF b = a /\ a \notin _heroes
                                            THEN IF h.data = 0 THEN 1 ELSE h.data ELSE progress[b]
    BY <1>3, <1>8 DEF CreateHero, GetHero, TypeInv, TypeOK
  <2>4. ASSUME NEW b \in _heroes'
        PROVE  /\ progress'[b] >= row[b]
               /\ \A i \in 1..Len(saveQ) : saveQ[i].acc = b => progress'[b] >= saveQ[i].data
    <3>1. b \in Accounts /\ row[b] \in Nat
      BY DEF TypeInv, TypeOK
    <3>2. CASE b \in _heroes
      <4>1. progress'[b] = progress[b]
        BY <2>3, <3>1, <3>2
      <4> QED
        BY <3>2, <4>1 DEF LoadInv, MemoryNotBehind
    <3>3. CASE b \notin _heroes
      <4>1. b = a
        BY <1>8, <2>4, <3>3 DEF CreateHero
      <4>2. waits(t)
        BY <1>3, <1>8, <3>3, <4>1 DEF waits, TypeInv, HeldInMemory
      <4>3. h.data = row[b] /\ NoSave(b)
        BY <1>5, <4>1, <4>2
      <4>4. progress'[b] >= row[b]
        BY <2>3, <3>1, <3>3, <4>1, <4>3
      <4> QED
        BY <4>3, <4>4 DEF NoSave
    <3> QED
      BY <3>2, <3>3
  <2> QED
    BY <1>6, <2>2, <2>4
<1>9. \/ UNCHANGED <<_dream_hero, _heroes, progress>>
      \/ getUser(t) /\ attach(t) /\ CreateHero(a, h.data)
  BY DEF dbReply, praseDBQueryHeroInfo, parseDBQueryNeedCreateHero, heroVars
<1> QED
  BY <1>7, <1>8, <1>9

\* If logins follow each other and no transaction id is used twice, no query overtakes a
\* save and none fails, then a load never brings back an earlier state of a hero: the hero
\* in memory is at least as new as its row and all saves on their way, also when the
\* connection to the database server breaks and saves, queries and answers are lost.
THEOREM MemoryNeverBehind ==
  ASSUME Serial, ~Reuse, SavesFirst, ~DbFails
  PROVE  Spec => []MemoryNotBehind
<1>1. Init => LoadInv
  <2> SUFFICES ASSUME Init PROVE LoadInv
    OBVIOUS
  <2>1. 1..Len(queryQ) = {} /\ 1..Len(replyQ) = {}
    BY DEF Init
  <2> QED
    BY <2>1 DEF Init, LoadInv, WaitedForAway, AskedOnce, AnswerFresh, MemoryNotBehind, waits, getUser
<1>2. TypeInv /\ TypeInv' /\ SessionAlive /\ SerialInv /\ LoadInv /\ [Next]_vars => LoadInv'
  <2> SUFFICES ASSUME TypeInv, TypeInv', SessionAlive, SerialInv, LoadInv, [Next]_vars
               PROVE  LoadInv'
    OBVIOUS
  <2>1. ASSUME UNCHANGED <<_heroes, queryQ, saveQ, row>>, added \subseteq added',
               \A t \in Trans : waits(t)' => waits(t),
               replyQ' = replyQ \/ replyQ' = <<>>, UNCHANGED progress
        PROVE  LoadInv'
    <3>1. \A a \in _heroes : progress'[a] >= progress[a]
      BY <2>1 DEF TypeInv, TypeOK
    <3> QED
      BY <2>1, <3>1, LoadFrame
  <2>2. ASSUME NEW gone \in SUBSET Trans, release(gone)
        PROVE  \A t \in Trans : waits(t)' => waits(t)
    BY <2>2 DEF release, waits, getUser
  <2>3. ASSUME NEW c \in Conns, gateClose(c) PROVE LoadInv'
    <3>1. \A t \in Trans : waits(t)' => waits(t)
      <4>1. CASE m_Gates[m_gate_id[c]] = c
        <5>1. {t \in Trans : getUser(t) /\ HomeGate[t] = m_gate_id[c]} \in SUBSET Trans
          OBVIOUS
        <5> QED
          BY <2>2, <2>3, <4>1, <5>1 DEF gateClose
      <4>2. CASE m_Gates[m_gate_id[c]] # c
        BY <2>3, <4>2 DEF gateClose, waits, getUser
      <4> QED
        BY <4>1, <4>2
    <3> QED
      BY <2>1, <2>3, <3>1 DEF gateClose, dbVars
  <2>4. ASSUME NEW c \in Conns, NEW g \in Gates, parseGateRegister(c, g) PROVE LoadInv'
    BY <2>1, <2>4 DEF parseGateRegister, dbVars, heroVars, waits, getUser
  <2>5. ASSUME NEW t \in Trans, setReconnet(t) \/ parseOffline(t) PROVE LoadInv'
    <3>1. \A u \in Trans : waits(u)' => waits(u)
      BY <2>5 DEF setReconnet, parseOffline, waits, getUser, TypeInv, TypeOK
    <3> QED
      BY <2>1, <2>5, <3>1 DEF setReconnet, parseOffline, gateVars, dbVars, heroVars
  <2>6. ASSUME NEW t \in Trans, parseRemoveUser(t) PROVE LoadInv'
    <3>1. \A u \in Trans : waits(u)' => waits(u)
      BY <2>2, <2>6 DEF parseRemoveUser
    <3> QED
      BY <2>1, <2>6, <3>1 DEF parseRemoveUser, gateVars, dbVars
  <2>7. ASSUME NEW t \in Trans, parseUserMsg(t) PROVE LoadInv'
    <3>1. \A a \in _heroes : progress'[a] >= progress[a]
      BY <2>7, OwnerAssumption DEF parseUserMsg, TypeInv, TypeOK
    <3>2. \A u \in Trans : waits(u)' => waits(u)
      BY <2>7 DEF parseUserMsg, waits, getUser
    <3> QED
      BY <2>7, <3>1, <3>2, LoadFrame DEF parseUserMsg, gateVars, dbVars
  <2>8. ASSUME NEW a \in Accounts, Destroy(a) PROVE LoadInv'
    <3>1. \A t \in Trans : Owner[t] = a => _dream_hero[t] # "hero"
      BY <2>8 DEF Destroy, SerialInv, HeldHeroSafe
    <3>2. _session[a] = NoTran
      BY <2>8, <3>1 DEF SessionAlive, TypeInv, TypeOK
    <3>3. \A t \in Trans : _dream_hero'[t] = _dream_hero[t]
      BY <2>8, <3>1, <3>2, NullAssumption DEF Destroy
    <3>4. /\ _heroes' = _heroes \ {a} /\ \A b \in Accounts \ {a} : progress'[b] = progress[b]
          /\ UNCHANGED <<added, m_state, queryQ, saveQ, row, replyQ>>
      BY <2>8 DEF Destroy, gateVars, dbVars, TypeInv, TypeOK
    <3>5. \A t \in Trans : waits(t)' <=> waits(t)
      BY <3>3, <3>4 DEF waits, getUser
    <3>6. WaitedForAway' /\ AskedOnce'
      BY <3>4, <3>5 DEF LoadInv, WaitedForAway, AskedOnce
    <3>7. MemoryNotBehind'
      BY <3>4 DEF LoadInv, MemoryNotBehind, TypeInv, TypeOK
    <3>8. AnswerFresh'
      <4> SUFFICES ASSUME NEW i \in 1..Len(replyQ), NEW u, u = replyQ[i].tran, waits(u)'
                   PROVE  replyQ[i].data = row[Owner[u]] /\ NoSave(Owner[u])
        BY <3>4 DEF AnswerFresh, waits, getUser, NoSave
      <4>1. u \in Trans /\ waits(u)
        BY <3>5, UnderWayTypes
      <4> QED
        BY <4>1 DEF LoadInv, AnswerFresh
    <3> QED
      BY <3>6, <3>7, <3>8 DEF LoadInv
  <2>9. CASE dbClose \/ dbConnect
    BY <2>1, <2>9 DEF dbClose, dbConnect, gateVars, heroVars, waits, getUser
  <2>10. CASE UNCHANGED vars
    BY <2>1, <2>10 DEF vars, gateVars, heroVars, dbVars, waits, getUser
  <2> QED
    BY <2>3, <2>4, <2>5, <2>6, <2>7, <2>8, <2>9, <2>10, AddFresh, SaveFresh, RowFresh, QueryFresh,
       ReplyFresh
    DEF Next, GateNext, TimerNext, DbNext
<1>3. LoadInv => MemoryNotBehind
  BY DEF LoadInv
<1> QED
  BY <1>1, <1>2, <1>3, TypeInvariant, SessionAlwaysAlive, SerialInvariant, PTL DEF Spec

\* The same of the specification that is model-checked: of its behaviours, those of an
\* orderly environment never load an earlier state of a hero.
THEOREM OrderlyNotBehind ==
  ASSUME Serial, ~Reuse, SavesFirst, ~DbFails
  PROVE  BothSpec => []NotBehindRow
<1>1. BothInit => Init
  BY DEF BothInit
<1>2. orderly /\ [BothNext]_<<vars, orderly>> => orderly' /\ [Next]_vars
  BY DEF BothNext
<1>3. ~orderly /\ [BothNext]_<<vars, orderly>> => ~orderly'
  BY DEF BothNext
<1>4. NotBehindRow <=> (orderly => MemoryNotBehind)
  BY DEF NotBehindRow
<1> QED
  BY <1>1, <1>2, <1>3, <1>4, MemoryNeverBehind, PTL DEF BothSpec, Spec
=============================================================================
