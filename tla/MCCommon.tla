------------------------------- MODULE MCCommon -------------------------------
(* The two parts of src/common that all servers are built on, for TLC: the    *)
(* pool of sessions of a tcp_server and the timers.  They share no state.  A  *)
(* behaviour is chosen at the start: one of the two, and its environment.     *)
EXTENDS TcpPool, Timers

CONSTANTS
  o1,
  MaxShared    \* bound on the timers of several objects

VARIABLE part

-----------------------------------------------------------------------------
(* The pool: with the constants of the configuration; with threads of the    *)
(* sessions that are prompt; with writes that are done when a connection ends *)
Prompt == INSTANCE TcpPool WITH IoPrompt <- TRUE
Done == INSTANCE TcpPool WITH
  WritesDone <- TRUE, MaxConns <- 2, s_io_once_listen_session_count <- 2

PoolNext ==
  \/ part = "any" /\ Next
  \/ part = "prompt" /\ Prompt!Next
  \/ part = "done" /\ Done!Next

-----------------------------------------------------------------------------
(* The timers: of several objects, or more timers of one object.             *)
PartNext ==
  /\ part \in {"objects", "one"}
  /\ TimersNext
  /\ \/ part = "objects" /\ \A e \in Ids : event'[e] # Free => e <= MaxShared
     \/ /\ part = "one"
        /\ alive' \cup {o1} = Objects
        /\ \A e \in Ids : event'[e] # Free => event'[e].obj = o1

-----------------------------------------------------------------------------
MCInit ==
  /\ Init
  /\ TimersInit
  /\ part \in {"any", "prompt", "done", "objects", "one"}
MCNext ==
  \/ PoolNext /\ UNCHANGED <<part, timerVars>>
  \/ PartNext /\ UNCHANGED <<part, vars>>
MCSpec == MCInit /\ [][MCNext]_<<vars, part, timerVars>>

-----------------------------------------------------------------------------
\* To the application a session is one connection at a time.  A message is handled only
\* while the session serves the connection that sent it, if the session's thread is prompt:
\* the pooled session is not in use again before the messages of its last connection are
\* through the queue (proc_message).  on_close is called once for a connection whose
\* on_accept was called, and before the next on_accept, if no write is outstanding when a
\* connection ends: a failed read and a failed write both call _on_close.
OneConnection ==
  [][/\ part \in {"prompt", "done"} => OwnMessage'
     /\ part = "done" => CloseOnceStep]_vars
=============================================================================
