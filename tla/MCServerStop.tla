---------------------------- MODULE MCServerStop -----------------------------
(* ServerStop for TLC.  A behaviour is chosen at the start: connections that  *)
(* break and MySQL errors of every kind (the configuration's constants); the  *)
(* same with saves that MySQL never refuses; two game servers, of which the   *)
(* first to ask stops in time; or connections that hold, with the assignment  *)
(* to _task as a step of its own.                                             *)
EXTENDS ServerStop

CONSTANTS g1, g2

VARIABLE env

Sound == INSTANCE ServerStop WITH
  BadSaves <- FALSE, Sends <- {"save"}, MaxVersion <- 2
InTime == INSTANCE ServerStop WITH
  Servers <- {g1, g2}, MaxSends <- 0, MaxErrors <- 0, Prompt <- TRUE, Loss <- FALSE
Holds == INSTANCE ServerStop WITH
  Sends <- {"query", "record"}, AtomicTake <- FALSE, Loss <- FALSE

MCInit ==
  \/ env \in {"faults", "sound", "holds"} /\ Init
  \/ env = "in_time" /\ InTime!Init
MCNext ==
  \/ env = "faults" /\ Next /\ UNCHANGED env
  \/ env = "sound" /\ Sound!Next /\ UNCHANGED env
  \/ env = "in_time" /\ InTime!Next /\ UNCHANGED env
  \/ env = "holds" /\ Holds!Next /\ UNCHANGED env

\* Fairness where the connections hold.
MCSpec == MCInit /\ [][MCNext]_<<vars, env>> /\ (env = "holds" => Holds!Fairness)

-----------------------------------------------------------------------------
\* Every task that a Database has accepted is executed before it stops: Database::checkStop
\* reads the queues and _task while the threads move tasks between them.  A thread that
\* loses its connection between getTask() and the assignment to _task may be stopped with
\* the task in hand, so this needs both in one step, or no error.
NoTaskLeft == env # "holds" \/ errors = 0 => QueuesDone

\* When the database server and the game server that asked first have stopped, the heroes
\* are in the database as they were at the signal, or later; and as they were at the end if
\* the game server stops within the 15 s and its close does not cut off the last save, which
\* is sent just before (setStop, checkStop, onSaveToClose).
HeroesSaved ==
  /\ env \in {"sound", "in_time"} => SavedAtSignal
  /\ env = "in_time" => SavedAtStop

\* Once both servers are signalled, both stop, over connections that hold and with a bounded
\* number of MySQL errors (GameServer::checkStop, onSaveToClose, Database::checkStop).
BothStop ==
  (env = "holds" /\ _wait_stop /\ \A g \in Servers : gs[g] # "run")
     ~> (_stop /\ \A g \in Servers : gs[g] = "stop")
=============================================================================
