----------------------------- MODULE ServerStop ------------------------------
(***************************************************************************)
(* How the game servers and the database server stop, and the threads of a  *)
(* Database (src/common/database.cpp) that execute what was queued.          *)
(*                                                                          *)
(* A signalled game server saves every hero and asks the database server to *)
(* save and close (GameServer::setStop); the answer makes it save again and *)
(* stop.  The first request starts a timer of 15 s in the database server,  *)
(* which then accepts no more tasks, waits for its threads and stops.       *)
(*                                                                          *)
(* The heroes of a game server are one version number, and the statements   *)
(* of a save are one.  Threads of type _NORMAL_THREAD have no tasks and are *)
(* left out.                                                                 *)
(***************************************************************************)
EXTENDS Naturals, Sequences

CONSTANTS
  Servers,     \* game servers
  MaxVersion,  \* bound on the changes of the heroes of a game server
  Sends,       \* what a game server sends of its own accord: kinds of messages
  MaxSends,    \* bound on them
  MaxErrors,   \* bound on the errors of MySQL
  Prompt,      \* the game server that asks first has stopped, and all that it sent is handled, within 15 s
  BadSaves,    \* may the statement of a save be refused by MySQL?
  AtomicTake,  \* getTask() and the assignment to _task are one step
  Loss         \* may connections break?

ASSUME ServerStopConstants ==
  /\ {MaxVersion, MaxSends, MaxErrors} \subseteq Nat
  /\ Sends \subseteq {"save", "query", "record"}
  /\ {Prompt, BadSaves, AtomicTake, Loss} \subseteq BOOLEAN

Databases == {"gDBCharDatabase", "gDBRecordDatabase"}
Threads == {"_QUERY_HERO_INFO_", "_SAVE_HERO_INFO_", "_SAVE_RECORD_"}

\* The Database that a thread belongs to.
_father(t) == IF t = "_SAVE_RECORD_" THEN "gDBRecordDatabase" ELSE "gDBCharDatabase"

NoTask == [kind |-> "none"]

VARIABLES
  gs,                  \* a game server: "run", "wait_stop" or "stop"
  _save_all_heroes_ok,
  version,             \* of the heroes in memory
  atSignal,            \* not in the code: the version when the signal came
  cut,                 \* not in the code: the game servers whose last save close() cut off
  sends,               \* bound
  toDb, toGs,          \* the connection, both ways
  _wait_stop, _stop,   \* of the database server
  _receive_cose_msg,
  closing,             \* event EVENT_SAVE_TO_CLOSE: "none", "timer", "done"
  _close_gs_id,        \* the game server of the first request, if any
  _obj_state,          \* of each Database
  _works,              \* the queue of each thread
  thread,              \* db_thread: [at, _task, _connect, _stop]
  _results,            \* of gDBCharDatabase; dbCallNothing, the callback of the saves, does nothing
  row,                 \* the version in table `character'
  errors               \* bound

gameVars == <<gs, _save_all_heroes_ok, version, atSignal, cut, sends>>
linkVars == <<toDb, toGs>>
mainVars == <<_wait_stop, _stop, _receive_cose_msg, closing, _close_gs_id>>
threadVars == <<_works, thread, _results>>
vars == <<gameVars, linkVars, mainVars, _obj_state, threadVars, row, errors>>

\* Everyone is connected and nothing has been sent.
Init ==
  /\ gs = [g \in Servers |-> "run"]
  /\ _save_all_heroes_ok = [g \in Servers |-> FALSE]
  /\ version = [g \in Servers |-> 0]
  /\ atSignal = [g \in Servers |-> 0]
  /\ cut = {}
  /\ sends = [g \in Servers |-> 0]
  /\ toDb = [g \in Servers |-> <<>>]
  /\ toGs = [g \in Servers |-> <<>>]
  /\ _wait_stop = FALSE
  /\ _stop = FALSE
  /\ _receive_cose_msg = FALSE
  /\ closing = "none"
  /\ _close_gs_id = {}
  /\ _obj_state = [d \in Databases |-> "_run_obj_"]
  /\ _works = [t \in Threads |-> <<>>]
  /\ thread = [t \in Threads |-> [at |-> "idle", _task |-> NoTask, _connect |-> TRUE, _stop |-> FALSE]]
  /\ _results = <<>>
  /\ row = [g \in Servers |-> 0]
  /\ errors = 0

-----------------------------------------------------------------------------
(* The game server *)

save(g) == [kind |-> "save", gs |-> g, ver |-> version[g]]

\* DreamHeroManager::SaveDreamHeroes
SaveDreamHeroes(g) == Append(Append(toDb[g], save(g)), [kind |-> "close", gs |-> g])

\* A request changes a hero.
change(g) ==
  /\ gs[g] # "stop"
  /\ version[g] < MaxVersion
  /\ version' = [version EXCEPT ![g] = @ + 1]
  /\ UNCHANGED <<gs, _save_all_heroes_ok, atSignal, cut, sends, linkVars, mainVars, _obj_state, threadVars, row, errors>>

\* A hero's own SaveHero, a query for a hero's data or a record.
send(g) ==
  /\ gs[g] # "stop"
  /\ sends[g] < MaxSends
  /\ sends' = [sends EXCEPT ![g] = @ + 1]
  /\ \E k \in Sends :
       toDb' = [toDb EXCEPT ![g] = Append(@, IF k = "save" THEN save(g) ELSE [kind |-> k, gs |-> g])]
  /\ UNCHANGED <<gs, _save_all_heroes_ok, version, atSignal, cut, toGs, mainVars, _obj_state, threadVars, row, errors>>

\* Nothing is saved at the signal.
setStop_bug(g) ==
  /\ gs[g] = "run"
  /\ gs' = [gs EXCEPT ![g] = "wait_stop"]
  /\ atSignal' = [atSignal EXCEPT ![g] = version[g]]
  /\ toDb' = [toDb EXCEPT ![g] = Append(@, [kind |-> "close", gs |-> g])]
  /\ UNCHANGED <<_save_all_heroes_ok, version, cut, sends, toGs, mainVars, _obj_state, threadVars, row, errors>>

\* ServerFrame::signalStop and GameServer::setStop
setStop(g) ==
  /\ gs[g] = "run"
  /\ gs' = [gs EXCEPT ![g] = "wait_stop"]
  /\ atSignal' = [atSignal EXCEPT ![g] = version[g]]
  /\ toDb' = [toDb EXCEPT ![g] = SaveDreamHeroes(g)]
  /\ UNCHANGED <<_save_all_heroes_ok, version, cut, sends, toGs, mainVars, _obj_state, threadVars, row, errors>>

\* GameDBClient: the next message of the database server.  A hero's data changes nothing here.
clientMessage(g) ==
  /\ gs[g] # "stop"
  /\ toGs[g] # <<>>
  /\ toGs' = [toGs EXCEPT ![g] = Tail(@)]
  /\ _save_all_heroes_ok' = [_save_all_heroes_ok EXCEPT ![g] = @ \/ Head(toGs[g]) = "closing"]
  /\ UNCHANGED <<gs, version, atSignal, cut, sends, toDb, mainVars, _obj_state, threadVars, row, errors>>

\* GameServer::checkStop and shutDown.  close() is posted to the network thread: of what
\* is still on its way, any part may arrive.
checkStop(g) ==
  /\ gs[g] = "wait_stop"
  /\ _save_all_heroes_ok[g]
  /\ gs' = [gs EXCEPT ![g] = "stop"]
  /\ LET sent == SaveDreamHeroes(g)
     IN  \E n \in 0..Len(sent) :
           /\ toDb' = [toDb EXCEPT ![g] = SubSeq(sent, 1, n)]
           /\ cut' = IF n <= Len(toDb[g]) THEN cut \cup {g} ELSE cut
  /\ toGs' = [toGs EXCEPT ![g] = <<>>]
  /\ UNCHANGED <<_save_all_heroes_ok, version, atSignal, sends, mainVars, _obj_state, threadVars, row, errors>>

\* The connection breaks and is made again; what was on its way is lost.
loss(g) ==
  /\ Loss
  /\ gs[g] # "stop"
  /\ toDb[g] # <<>> \/ toGs[g] # <<>>
  /\ toDb' = [toDb EXCEPT ![g] = <<>>]
  /\ toGs' = [toGs EXCEPT ![g] = <<>>]
  /\ UNCHANGED <<gameVars, mainVars, _obj_state, threadVars, row, errors>>

-----------------------------------------------------------------------------
(* The database server: its main thread *)

\* Database::checkStop waits in join() for a thread that it has told to stop.
mainRuns == ~_stop /\ \A t \in Threads : thread[t]._stop => thread[t].at = "end"

\* A Database that is closing still takes tasks.
addSQueryTask_bug(t, m) ==
  IF _obj_state[_father(t)] = "_stop_obj_" THEN _works ELSE [_works EXCEPT ![t] = Append(@, m)]

\* Database::addSQueryTask: a task is dropped without a word unless the Database runs.
addSQueryTask(t, m) ==
  IF _obj_state[_father(t)] = "_run_obj_" THEN [_works EXCEPT ![t] = Append(@, m)] ELSE _works

threadFor(m) == CASE m.kind = "save" -> "_SAVE_HERO_INFO_"
                  [] m.kind = "record" -> "_SAVE_RECORD_"
                  [] OTHER -> "_QUERY_HERO_INFO_"

\* DBQuestManager::queryHeroInfo, saveSqlData and saveSqlRecord
task(g) ==
  /\ mainRuns
  /\ toDb[g] # <<>>
  /\ LET m == Head(toDb[g])
     IN  /\ m.kind # "close"
         /\ _works' = addSQueryTask(threadFor(m), m)
  /\ toDb' = [toDb EXCEPT ![g] = Tail(@)]
  /\ UNCHANGED <<gameVars, toGs, mainVars, _obj_state, thread, _results, row, errors>>

\* DBQuestManager::saveToClose: only the first request of all game servers is answered.
saveToClose(g) ==
  /\ mainRuns
  /\ toDb[g] # <<>>
  /\ Head(toDb[g]).kind = "close"
  /\ IF _receive_cose_msg
     THEN UNCHANGED <<closing, _close_gs_id, toGs, _receive_cose_msg>>
     ELSE /\ closing' = "timer"
          /\ _close_gs_id' = {g}
          /\ _receive_cose_msg' = TRUE
          /\ toGs' = IF gs[g] = "stop" THEN toGs ELSE [toGs EXCEPT ![g] = Append(@, "closing")]
  /\ toDb' = [toDb EXCEPT ![g] = Tail(@)]
  /\ UNCHANGED <<gameVars, _wait_stop, _stop, _obj_state, threadVars, row, errors>>

\* The database of records is forgotten.
onSaveToClose_bug ==
  /\ mainRuns
  /\ closing = "timer"
  /\ Prompt => \A g \in _close_gs_id : gs[g] = "stop" /\ toDb[g] = <<>>
  /\ closing' = "done"
  /\ _obj_state' = [_obj_state EXCEPT !["gDBCharDatabase"] = "_wait_stop_"]
  /\ UNCHANGED <<gameVars, linkVars, _wait_stop, _stop, _receive_cose_msg, _close_gs_id, threadVars, row, errors>>

\* DBQuestManager::onSaveToClose, after 15 s
onSaveToClose ==
  /\ mainRuns
  /\ closing = "timer"
  /\ Prompt => \A g \in _close_gs_id : gs[g] = "stop" /\ toDb[g] = <<>>
  /\ closing' = "done"
  /\ _obj_state' = [d \in Databases |-> "_wait_stop_"]
  /\ UNCHANGED <<gameVars, linkVars, _wait_stop, _stop, _receive_cose_msg, _close_gs_id, threadVars, row, errors>>

\* The callbacks.  dbDoQueryHeroInfo asks for the deals of the hero that it has found, and
\* answers the game server at once if it has found none or the query failed;
\* dbDoQueryHeroDeals answers with the hero, whether its query failed or not.
callback(r) ==
  \/ /\ r.kind = "query"
     /\ _works' = addSQueryTask(threadFor(r), [r EXCEPT !.kind = "deals"])
     /\ UNCHANGED toGs
  \/ /\ r.kind \in {"query", "failed", "deals"}
     /\ toGs' = IF gs[r.gs] = "stop" THEN toGs ELSE [toGs EXCEPT ![r.gs] = Append(@, "hero")]
     /\ UNCHANGED _works

\* Database::run: the callback of a task that is done, unless the Database has stopped.
run ==
  /\ mainRuns
  /\ _obj_state["gDBCharDatabase"] # "_stop_obj_"
  /\ _results # <<>>
  /\ callback(Head(_results))
  /\ _results' = Tail(_results)
  /\ UNCHANGED <<gameVars, toDb, mainVars, _obj_state, thread, row, errors>>

\* Database::checkStop: with every queue empty, tells a thread without a task to stop.
stopThread(t) ==
  /\ mainRuns
  /\ _obj_state[_father(t)] = "_wait_stop_"
  /\ \A u \in Threads : _father(u) = _father(t) => _works[u] = <<>>
  /\ ~thread[t]._stop
  /\ thread[t]._task = NoTask \/ thread[t].at = "taken"
  /\ thread' = [thread EXCEPT ![t]._stop = TRUE]
  /\ UNCHANGED <<gameVars, linkVars, mainVars, _obj_state, _works, _results, row, errors>>

\* Database::checkStop, when all its threads are joined
stopDatabase(d) ==
  /\ mainRuns
  /\ _obj_state[d] = "_wait_stop_"
  /\ \A t \in Threads : _father(t) = d => thread[t]._stop
  /\ _obj_state' = [_obj_state EXCEPT ![d] = "_stop_obj_"]
  /\ UNCHANGED <<gameVars, linkVars, mainVars, threadVars, row, errors>>

\* ServerFrame::signalStop of the database server, whose setStop does nothing
signalStop ==
  /\ mainRuns
  /\ ~_wait_stop
  /\ _wait_stop' = TRUE
  /\ UNCHANGED <<gameVars, linkVars, _stop, _receive_cose_msg, closing, _close_gs_id, _obj_state, threadVars, row, errors>>

\* DBServer::checkStop
checkDbStop ==
  /\ mainRuns
  /\ _wait_stop
  /\ \A d \in Databases : _obj_state[d] = "_stop_obj_"
  /\ _stop' = TRUE
  /\ UNCHANGED <<gameVars, linkVars, _wait_stop, _receive_cose_msg, closing, _close_gs_id, _obj_state, threadVars, row, errors>>

-----------------------------------------------------------------------------
(* The threads: db_thread::run and work *)

effect(m) == IF m.kind = "save" THEN [row EXCEPT ![m.gs] = m.ver] ELSE row

\* Database::addDone
addDone(m) == IF m.kind \in {"query", "failed", "deals"} THEN Append(_results, m) ELSE _results

\* A query that has failed leaves no row of a hero.
failed(m) == IF m.kind = "query" THEN [m EXCEPT !.kind = "failed"] ELSE m

\* db_thread::connetDatabase
connetDatabase(t) ==
  /\ thread[t].at # "end"
  /\ ~thread[t]._connect
  /\ ~thread[t]._stop
  /\ thread' = [thread EXCEPT ![t]._connect = TRUE]
  /\ UNCHANGED <<gameVars, linkVars, mainVars, _obj_state, _works, _results, row, errors>>

\* db_thread::work: takes a task.  _task is assigned after getTask() has given up its lock;
\* until then the task is in no place where checkStop looks.
getTask(t) ==
  /\ thread[t].at = "idle"
  /\ thread[t]._connect
  /\ _works[t] # <<>>
  /\ thread' = [thread EXCEPT ![t].at = IF AtomicTake THEN "task" ELSE "taken",
                              ![t]._task = Head(_works[t])]
  /\ _works' = [_works EXCEPT ![t] = Tail(@)]
  /\ UNCHANGED <<gameVars, linkVars, mainVars, _obj_state, _results, row, errors>>

assign(t) ==
  /\ thread[t].at = "taken"
  /\ thread' = [thread EXCEPT ![t].at = "task"]
  /\ UNCHANGED <<gameVars, linkVars, mainVars, _obj_state, _works, _results, row, errors>>

\* A statement is executed; the next task is taken without a look at _stop.
execute(t) ==
  /\ thread[t].at = "task"
  /\ thread[t]._connect
  /\ LET m == thread[t]._task
         more == _works[t] # <<>>
     IN  /\ row' = effect(m)
         /\ _results' = addDone(m)
         /\ thread' = [thread EXCEPT ![t].at = IF more THEN "task" ELSE "idle",
                                     ![t]._task = IF more THEN Head(_works[t]) ELSE NoTask]
         /\ _works' = IF more THEN [_works EXCEPT ![t] = Tail(@)] ELSE _works
  /\ UNCHANGED <<gameVars, linkVars, mainVars, _obj_state, errors>>

\* The task goes back to the queue, behind the others.
connectionLost_bug(t) ==
  /\ errors < MaxErrors
  /\ errors' = errors + 1
  /\ thread[t].at = "task"
  /\ thread[t]._connect
  /\ row' \in {row, effect(thread[t]._task)}
  /\ thread' = [thread EXCEPT ![t]._connect = FALSE, ![t]._task = NoTask, ![t].at = "idle"]
  /\ _works' = [_works EXCEPT ![t] = Append(@, thread[t]._task)]
  /\ UNCHANGED <<gameVars, linkVars, mainVars, _obj_state, _results>>

\* Error 2006 or 2013: the statement may have been executed; the task is kept for the next
\* connection.
connectionLost(t) ==
  /\ errors < MaxErrors
  /\ errors' = errors + 1
  /\ thread[t].at = "task"
  /\ thread[t]._connect
  /\ row' \in {row, effect(thread[t]._task)}
  /\ thread' = [thread EXCEPT ![t]._connect = FALSE]
  /\ UNCHANGED <<gameVars, linkVars, mainVars, _obj_state, _works, _results>>

\* Another error: the task is over, as failed.
badQuery(t) ==
  /\ errors < MaxErrors
  /\ errors' = errors + 1
  /\ thread[t].at = "task"
  /\ thread[t]._connect
  /\ BadSaves \/ thread[t]._task.kind # "save"
  /\ _results' = addDone(failed(thread[t]._task))
  /\ thread' = [thread EXCEPT ![t]._connect = FALSE, ![t]._task = NoTask, ![t].at = "idle"]
  /\ UNCHANGED <<gameVars, linkVars, mainVars, _obj_state, _works, row>>

\* db_thread::run: the loop ends.
endThread(t) ==
  /\ thread[t]._stop
  /\ \/ thread[t].at = "idle"
     \/ thread[t].at = "task" /\ ~thread[t]._connect
  /\ thread' = [thread EXCEPT ![t].at = "end"]
  /\ UNCHANGED <<gameVars, linkVars, mainVars, _obj_state, _works, _results, row, errors>>

-----------------------------------------------------------------------------
game(g) == change(g) \/ send(g) \/ setStop(g) \/ clientMessage(g) \/ checkStop(g) \/ loss(g)
main == \/ \E g \in Servers : task(g) \/ saveToClose(g)
        \/ \E d \in Databases : stopDatabase(d)
        \/ \E t \in Threads : stopThread(t)
        \/ run \/ onSaveToClose \/ signalStop \/ checkDbStop
work(t) == \/ connetDatabase(t) \/ getTask(t) \/ assign(t) \/ execute(t)
           \/ connectionLost(t) \/ badQuery(t) \/ endThread(t)

Next ==
  \/ \E g \in Servers : game(g)
  \/ main
  \/ \E t \in Threads : work(t)

Spec == Init /\ [][Next]_vars

\* The loops of the servers and the threads go on, messages arrive and the timer expires;
\* no fairness for the signals, for errors (there are at most MaxErrors) or for what the
\* players do.
Fairness ==
  /\ \A g \in Servers : WF_vars(clientMessage(g)) /\ WF_vars(checkStop(g))
                        /\ WF_vars(task(g) \/ saveToClose(g))
  /\ \A d \in Databases : WF_vars(stopDatabase(d))
  /\ \A t \in Threads : WF_vars(stopThread(t)) /\ WF_vars(work(t))
  /\ WF_vars(run) /\ WF_vars(onSaveToClose) /\ WF_vars(checkDbStop)

-----------------------------------------------------------------------------
(* Properties *)

\* A Database that has stopped has no task left.
QueuesDone ==
  \A t \in Threads :
    _obj_state[_father(t)] = "_stop_obj_" => _works[t] = <<>> /\ thread[t]._task = NoTask

\* The game server that asked first, if it has stopped, has saved its heroes as they were
\* when the signal came ...
SavedAtSignal ==
  _stop => \A g \in _close_gs_id : gs[g] = "stop" => row[g] >= atSignal[g]

\* ... and as they were at the end, unless the close cut its last save off.
SavedAtStop ==
  _stop => \A g \in _close_gs_id : gs[g] = "stop" /\ g \notin cut => row[g] = version[g]

\* A save never puts back an older version: one thread executes the saves in their order,
\* whatever connections break in between, and a save tried again is the last one
\* (db_thread::work, connetDatabase).
RowsForward == [][\A g \in DOMAIN row : row'[g] >= row[g]]_vars
=============================================================================
