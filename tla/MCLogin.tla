------------------------------- MODULE MCLogin -------------------------------
(* LoginServer for TLC in three surroundings, one of them chosen at the start: *)
(*   fresh     connections that hold, every login has an id of its own;        *)
(*   repeated  connections that hold, logins of one second share their id;     *)
(*   lossy     connections that break and a process that may die.              *)
(* The configuration gives the constants of the second; the first leaves out    *)
(* the steps that hand out an id again.                                       *)
EXTENDS MCLoginServer

CONSTANTS
  s1, g1,      \* bounds: the session and the gate server that are always there
  FewIds,      \* bound: the ids handed out where they repeat or connections break
  MaxQueue     \* bound: messages under way on a connection where ids repeat

VARIABLE around

Lossy == INSTANCE LoginServer WITH LinkLoss <- TRUE, Reissue <- FALSE

\* An answered check hands out an id that nobody had.
FreshIds == tasks' # tasks /\ issued' = issued => UNCHANGED <<m_Accts, toGate>>

FreshNext == Next /\ FreshIds /\ is_valid' \subseteq {s1}
RepeatedNext ==
  /\ Next
  /\ issued' \subseteq FewIds
  /\ \A g \in Gates \ {g1} : gateConn'[g] = NoConn
  /\ httpTasks' = <<>> /\ \A i \in 1..Len(tasks') : tasks'[i].kind = "login"
  /\ \A c \in Conns : Len(toGate'[c]) <= MaxQueue /\ Len(toLogin'[c]) <= MaxQueue
LossyNext ==
  /\ Lossy!Next
  /\ \A g \in Gates \ {g1} : gateConn'[g] = NoConn
  /\ issued' \subseteq FewIds
  /\ is_valid' \subseteq {s1}

AllInit == Init /\ around \in {"fresh", "repeated", "lossy"}
AllNext ==
  /\ UNCHANGED around
  /\ \/ around = "fresh" /\ FreshNext
     \/ around = "repeated" /\ RepeatedNext
     \/ around = "lossy" /\ LossyNext

\* Fairness names only what the database and the sockets do in any surroundings.
AllSpec == AllInit /\ [][AllNext]_<<vars, around>> /\ Fairness

-----------------------------------------------------------------------------
calm == around # "lossy"

\* What a gate server was told, where the connections hold; nothing elsewhere.
heard == IF calm THEN told ELSE [g \in Gates |-> {}]

Heard == INSTANCE LoginOrder WITH told <- heard

\* The login server keeps its promise to every gate server about the order of
\* kicks and announcements (checkAccountCall, kickUserFromGate, giveUserToGate),
\* on connections that do not break, whether or not ids repeat.
KeepsOrder == Heard!Spec

waits(s) == m_state[s] \in {"_checking_data_", "_wait_gate_"}

\* The session was given an id that another one waits for, and is not listed.
unlisted(s) ==
  m_state[s] = "_wait_gate_" /\ \A t \in Trans : m_WaitSessions[t] # s

\* Every login is answered: a session leaves the states in which it waits for the
\* database or for the gate server (checkAccountCall, parseGateUserPrepar), on
\* connections that do not break; of two clients with one id the second is not.
LoginAnswered ==
  \A s \in Sessions :
    (calm /\ waits(s))
      ~> (~waits(s) \/ (around = "repeated" /\ unlisted(s)))
=============================================================================
