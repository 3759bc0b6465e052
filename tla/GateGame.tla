------------------------------- MODULE GateGame -------------------------------
(***************************************************************************)
(* A gate server (GateUsers) with the login server's order of kicks and     *)
(* announcements before it and the Session tables of its game servers       *)
(* behind it, joined by TCP connections that deliver in order and may       *)
(* break; the two ends notice a break at different times.  The gate server  *)
(* may therefore come back while its last connection is still open at the   *)
(* game server's end, where the new one replaces it in m_Gates.             *)
(*                                                                          *)
(* The login server is what module LoginOrder says of it: it kicks the      *)
(* login it knows of an account before it announces the next one            *)
(* (AccountManager::checkAccountCall, src/login/account_manager.cpp).       *)
(***************************************************************************)
EXTENDS GateUsers

CONSTANTS
  MaxChan,    \* bound on the messages under way to a game server
  Spare       \* the replaced connections of a game server that may be open at once

ASSUME ChanAssumption == MaxChan \in Nat \ {0}

VARIABLES
  kicked,     \* transaction ids the login server has kicked
  chan,       \* game server -> messages under way from the gate to it
  link,       \* the connection that is or was in m_Gates
  replaced,   \* game server -> replaced connections that are still open there
  late,       \* game server -> messages under way on each of these
  strays,     \* game server -> ids that these have brought or may still bring
  m_Onlines   \* game server -> transaction ids with a Session

\* The state of a connection: "new" until the gate server hears that it is
\* registered, then "used"; closed by the game server before that it is "shut".
Links == {"down", "new", "used", "shut"}

\* m_Gates[g] # NULL
connected(g) == link[g] \in {"new", "used"}

oldVars == <<replaced, late, strays>>
sysVars == <<kicked, chan, link, oldVars, m_Onlines>>
allVars == <<vars, sysVars>>

SysInit ==
  /\ Init
  /\ kicked = {}
  /\ chan = [g \in Games |-> <<>>]
  /\ link = [g \in Games |-> "down"]
  /\ replaced = [g \in Games |-> {}]
  /\ late = [g \in Games |-> [o \in Spare |-> <<>>]]
  /\ strays = [g \in Games |-> {}]
  /\ m_Onlines = [g \in Games |-> {}]

-----------------------------------------------------------------------------
\* The message m joins the messages q under way to game server g if it is for g.
put(q, g, m) == IF m.to = g THEN Append(q, m) ELSE q

\* The messages of this step, at most two, after those that are under way.  What is
\* sent on a connection the game server has already closed is lost.
deliver(g) ==
  IF ~connected(g) THEN <<>>
  ELSE CASE Len(sent') = 0 -> chan[g]
         [] Len(sent') = 1 -> put(chan[g], g, sent'[1])
         [] Len(sent') = 2 -> put(put(chan[g], g, sent'[1]), g, sent'[2])

sendAll ==
  /\ chan' = [g \in Games |-> deliver(g)]
  /\ \A g \in Games : Len(chan'[g]) <= MaxChan

\* What the login server promises to its one gate server (see LoginServer).
L == INSTANCE LoginOrder WITH
       Gates <- {"gate"},
       told <- [g \in {"gate"} |-> issued \ kicked]

\* The login is announced although an earlier one was not kicked.
announce_bug(t) ==
  /\ parseLoginUser(t)
  /\ kicked' = kicked \ {t}

\* AccountManager::checkAccountCall, giveUserToGate: earlier logins of the account
\* were kicked before the new one is announced.
announce(t) ==
  /\ parseLoginUser(t)
  /\ kicked' = kicked \ {t}
  /\ L!Announce("gate", t)

\* GateManager::kickUserFromGate
kick(t) ==
  /\ parseLoginKick(t)
  /\ kicked' = kicked \cup {t}
  /\ L!Kick("gate", t)

\* A game server hands a player over that it has.
changeGS(g, t, g2) ==
  /\ m_onlines[t] # NoSession /\ m_gs_id[m_onlines[t]] = g
  /\ parseChangeGS(g, t, g2)
  /\ UNCHANGED kicked

\* A step of the gate server on its own, or on a message of the login server.
gateStep ==
  /\ \/ \E t \in Trans : announce(t) \/ kick(t)
     \/ (ClientNext \/ TimerNext) /\ UNCHANGED kicked
     \/ \E g, g2 \in Games, t \in Trans : changeGS(g, t, g2)
  /\ sendAll
  /\ UNCHANGED <<link, oldVars, m_Onlines>>

\* Ids that a queue will add.
added(q) == {q[i].tran : i \in {j \in DOMAIN q : q[j].op = "add"}}

\* GateSession::parseGateRegister -> GateManager::addGate: the gate server, which has
\* noticed the end of its last connection, registers on a new one.  If the game server
\* has not, the last one is overwritten in m_Gates and stays open.
addGate(g) ==
  /\ g \notin active
  /\ link' = [link EXCEPT ![g] = "new"]
  /\ \/ ~connected(g) /\ UNCHANGED <<chan, oldVars>>
     \/ /\ connected(g)
        /\ \E o \in Spare \ replaced[g] :
             /\ replaced' = [replaced EXCEPT ![g] = @ \cup {o}]
             /\ late' = [late EXCEPT ![g][o] = chan[g]]
        /\ strays' = [strays EXCEPT ![g] = @ \cup m_Onlines[g] \cup added(chan[g])]
        /\ chan' = [chan EXCEPT ![g] = <<>>]
  /\ UNCHANGED <<vars, kicked, m_Onlines>>

\* The gate server hears of it, though the connection may be shut by then.
gateRegister(g) ==
  /\ link[g] \in {"new", "shut"}
  /\ link' = [link EXCEPT ![g] = IF @ = "new" THEN "used" ELSE "down"]
  /\ parseGameRegister(g)
  /\ UNCHANGED <<kicked, chan, oldVars, m_Onlines>>

\* The gate server's end of the connection closes.
gateLost(g) ==
  /\ gameClientClose(g)
  /\ UNCHANGED sysVars

\* The game server's end closes: GateManager::removeGate -> removeUserByGate drops the
\* Sessions of the gate server, whatever connection they came over.
removeGate(g) ==
  /\ connected(g)
  /\ link' = [link EXCEPT ![g] = IF @ = "new" THEN "shut" ELSE "down"]
  /\ chan' = [chan EXCEPT ![g] = <<>>]
  /\ m_Onlines' = [m_Onlines EXCEPT ![g] = {}]
  /\ strays' = [strays EXCEPT ![g] = IF replaced[g] = {} THEN {} ELSE @]
  /\ UNCHANGED <<vars, kicked, replaced, late>>

\* removeGate on a connection that was replaced: m_Gates leads to another one, and no
\* Session is dropped.
removeReplaced(g, o) ==
  /\ o \in replaced[g]
  /\ replaced' = [replaced EXCEPT ![g] = @ \ {o}]
  /\ late' = [late EXCEPT ![g][o] = <<>>]
  /\ UNCHANGED <<vars, kicked, chan, link, strays, m_Onlines>>

\* removeUser is forgotten.
handle_bug(present, m) ==
  CASE m.op = "add"     -> present \cup {m.tran}
    [] m.op = "remove"  -> present
    [] m.op = "offline" -> present

\* parseAddUser, parseRemoveUser and parseOffline of the game server: the Session
\* table, as far as it decides which Sessions exist.
handle(present, m) ==
  CASE m.op = "add"     -> present \cup {m.tran}
    [] m.op = "remove"  -> present \ {m.tran}
    [] m.op = "offline" -> present

\* The next message on the connection that is in m_Gates
receive(g) ==
  /\ chan[g] # <<>>
  /\ chan' = [chan EXCEPT ![g] = Tail(@)]
  /\ m_Onlines' = [m_Onlines EXCEPT ![g] = handle(@, Head(chan[g]))]
  /\ UNCHANGED <<vars, kicked, link, oldVars>>

\* ... and on one that was replaced: a message finds the tables, not its connection.
receiveLate(g, o) ==
  /\ late[g][o] # <<>>
  /\ late' = [late EXCEPT ![g][o] = Tail(@)]
  /\ m_Onlines' = [m_Onlines EXCEPT ![g] = handle(@, Head(late[g][o]))]
  /\ UNCHANGED <<vars, kicked, chan, link, replaced, strays>>

-----------------------------------------------------------------------------
SysNext ==
  \/ gateStep
  \/ \E g \in Games :
       \/ addGate(g) \/ gateRegister(g) \/ gateLost(g) \/ removeGate(g) \/ receive(g)
       \/ \E o \in Spare : removeReplaced(g, o) \/ receiveLate(g, o)

SysSpec == SysInit /\ [][SysNext]_allVars

-----------------------------------------------------------------------------
(* Properties *)

P == INSTANCE Presence WITH present <- m_Onlines

\* The gate server keeps a game server's promise about logins: on each game server
\* an account's new Session appears only after its old one is gone.  Next to it may be
\* only what a connection has left that the gate server's return has replaced.
KeepsPromise == P!Spec

\* A player's Session on a game server is never orphaned: while both ends of the
\* connection are up, the gate still has the player online or waiting to
\* reconnect on that server, or the message that removes the Session is under
\* way (kickUser, checkClose, eventCallRemoveReconn).  The Sessions of a connection
\* that was replaced are (GateManager::addGate, removeGate); nothing else is.
NoOrphan ==
  \A g \in active : \A t \in m_Onlines[g] \ strays[g] :
    \/ m_onlines[t] # NoSession /\ m_gs_id[m_onlines[t]] = g
    \/ m_recon_map[t] = g
    \/ \E i \in DOMAIN chan[g] : chan[g][i].op = "remove" /\ chan[g][i].tran = t
=============================================================================
