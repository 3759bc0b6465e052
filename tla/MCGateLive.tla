------------------------------ MODULE MCGateLive ------------------------------
(* What must happen in the end in a gate server, for TLC: in UserManager and  *)
(* its sessions, and in the connections of the gate server to the login and   *)
(* the game servers.  The two share no state.  A behaviour is chosen at the   *)
(* start: the clients and the login server that the configuration's constants *)
(* describe, or clients that repeat LoginGame and a login server that reissues *)
(* its ids; or a tcp_client, whose connection breaks with or without writes   *)
(* outstanding.                                                               *)
EXTENDS MCGateUsers

CONSTANTS MaxBreaks, MaxSends

VARIABLES
  part,
  client, link, reads, writing, posted, first, m_cb_mgr, calls, pc, app, breaks, sends

clientVars == <<client, link, reads, writing, posted, first, m_cb_mgr, calls, pc, app, breaks, sends>>

Repeat == INSTANCE GateUsers WITH Reissue <- TRUE, LateLogin <- TRUE
AnyBreak == INSTANCE TcpClient WITH WritesDone <- FALSE, Told <- FALSE
Calm == INSTANCE TcpClient WITH WritesDone <- TRUE, Told <- TRUE

ASSUME AnyBreak!TcpClientConstants /\ Calm!TcpClientConstants

LiveInit == Init /\ Calm!Init /\ part \in {"once", "repeat", "any_break", "calm"}
UsersNext ==
  \/ part = "once" /\ Next
  \/ part = "repeat" /\ Repeat!Next
LinkNext ==
  \/ part = "any_break" /\ AnyBreak!Next
  \/ part = "calm" /\ Calm!Next
LiveNext ==
  \/ UsersNext /\ UNCHANGED <<part, clientVars>>
  \/ LinkNext /\ UNCHANGED <<part, vars>>

\* Both threads of a tcp_client run, an attempt is made when its time has come, and the
\* server behind can be reached again and again.
isLink == part \in {"any_break", "calm"}
LinkFairness ==
  /\ WF_clientVars(part = "any_break" /\ AnyBreak!io)
  /\ WF_clientVars(part = "calm" /\ Calm!io)
  /\ WF_clientVars(isLink /\ Calm!main)
  /\ SF_clientVars(isLink /\ Calm!reconnect)
  /\ SF_clientVars(isLink /\ Calm!connected)

\* Fairness of UserManager names only timers and closed sockets, which both kinds of
\* clients share.
LiveSpec ==
  LiveInit /\ [][LiveNext]_<<vars, part, clientVars>> /\ Fairness /\ LinkFairness

-----------------------------------------------------------------------------
\* A session that is told to close (_wait_close_) returns to the pool, if its
\* client does not repeat LoginGame: each repetition restarts the close timer
\* (parseLoginGame, setState).
RefusedIsClosed ==
  \A s \in Sessions :
    part = "once" /\ m_state[s] = "_wait_close_" ~> m_state[s] = "_disable_"

\* A tcp_client that lost its connection comes back: once the connection no longer breaks,
\* the client is connected for good, however reads, writes and attempts failed.  And if no
\* write is outstanding when a connection breaks, the application hears of connections and
\* closes in turn, and each connection begins with the registration, which is sent
\* (run_no_wait, handle_connect, _on_close, on_connect).
ClientReturns ==
  /\ [](part = "calm" => Calm!InTurn)
  /\ <>[](isLink => Calm!up)
  /\ <>[](part = "calm" => first = "register")
=============================================================================
