------------------------------ MODULE LoginOrder ------------------------------
(***************************************************************************)
(* What the login server promises to each gate server: an account's login   *)
(* is announced only after the login of that account which the gate server  *)
(* was told of before has been kicked there.  UserManager::checkConn         *)
(* (src/gateserver/user_manager.cpp) relies on it: m_onlineaccs has room for *)
(* one login of an account.  An id that is handed out a second time is       *)
(* kicked before it is announced again.                                     *)
(***************************************************************************)
CONSTANTS Trans, Owner, Gates

VARIABLE told   \* gate server -> transaction ids it was told of and not told to kick

Init == told = [g \in Gates |-> {}]

Announce(g, t) ==
  /\ \A u \in told[g] : Owner[u] # Owner[t]
  /\ told' = [told EXCEPT ![g] = @ \cup {t}]

Kick(g, t) ==
  /\ t \in told[g]
  /\ told' = [told EXCEPT ![g] = @ \ {t}]

Next == \E g \in Gates, t \in Trans : Announce(g, t) \/ Kick(g, t)

Spec == Init /\ [][Next]_told
=============================================================================
