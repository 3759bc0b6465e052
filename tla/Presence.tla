------------------------------- MODULE Presence -------------------------------
(***************************************************************************)
(* What the login and gate servers promise to a game server about its       *)
(* players: logins come and go, and one account is never logged in twice at *)
(* the same time.  GateManager::addUser and the Session constructor          *)
(* (src/gameserver/gate_manager.cpp, session.cpp) rely on it: the hero of an *)
(* account has one pointer to one Session.                                   *)
(*                                                                          *)
(* The promise is about one connection.  A gate server may come back before *)
(* the game server has noticed the end of its last connection, which is then *)
(* replaced: what came over that one are strays.  Nobody answers for them    *)
(* until the connection in use closes as well.                              *)
(***************************************************************************)
CONSTANTS Trans, Owner, Games

VARIABLES
  present,   \* game server -> transaction ids with a Session on it
  strays     \* game server -> transaction ids that a replaced connection brought

Init ==
  /\ present = [g \in Games |-> {}]
  /\ strays = [g \in Games |-> {}]

\* A login is added once the account's earlier login is gone, strays excepted.
Add(g, t) ==
  /\ \A u \in present[g] \ strays[g] : Owner[u] # Owner[t]
  /\ present' = [present EXCEPT ![g] = @ \cup {t}]
  /\ UNCHANGED strays

Remove(g, t) ==
  /\ present' = [present EXCEPT ![g] = @ \ {t}]
  /\ UNCHANGED strays

\* A message of a replaced connection is read late.
Stray(g, t) ==
  /\ t \in strays[g]
  /\ present' = [present EXCEPT ![g] = @ \cup {t}]
  /\ UNCHANGED strays

\* The connection is replaced: all that is there has become a stray.
Replace(g, T) ==
  /\ present[g] \subseteq T
  /\ strays' = [strays EXCEPT ![g] = @ \cup T]
  /\ UNCHANGED present

\* The connection in use is lost, and with it every player of the gate server.
\* Messages of replaced connections may still be under way.
Clear(g) ==
  /\ present' = [present EXCEPT ![g] = {}]
  /\ strays' \in {strays, [strays EXCEPT ![g] = {}]}

Next == \E g \in Games :
  \/ Clear(g)
  \/ \E T \in SUBSET Trans : Replace(g, T)
  \/ \E t \in Trans : Add(g, t) \/ Remove(g, t) \/ Stray(g, t)

Spec == Init /\ [][Next]_<<present, strays>>
=============================================================================
