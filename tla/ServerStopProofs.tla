-------------------------- MODULE ServerStopProofs ---------------------------
(***************************************************************************)
(* The stop of the servers, for any number of game servers, changes, sends  *)
(* and errors: what the threads of a Database do with the tasks of a save,  *)
(* and what is saved when both servers have stopped.                        *)
(***************************************************************************)
EXTENDS ServerStop, TLAPS

Saver == "_SAVE_HERO_INFO_"

\* The messages of a game server and the tasks that they become
Save == [kind : {"save"}, gs : Servers, ver : Nat]
Other == [kind : {"query", "failed", "deals", "record", "close"}, gs : Servers]
Message == Save \cup Other
Result == [kind : {"query", "failed", "deals"}, gs : Servers]
Thread == [at : {"idle", "taken", "task", "end"}, _task : Message \cup {NoTask},
           _connect : BOOLEAN, _stop : BOOLEAN]

\* What is in a queue
Elems(q) == {q[i] : i \in DOMAIN q}

\* Of two saves of one game server's heroes, m may come before n.
notAfter(m, n) == m.kind = "save" /\ n.kind = "save" /\ m.gs = n.gs => m.ver <= n.ver
ordered(q) == \A i, j \in DOMAIN q : i < j => notAfter(q[i], q[j])

-----------------------------------------------------------------------------
(* The inductive invariant *)

Typed ==
  /\ gs \in [Servers -> {"run", "wait_stop", "stop"}]
  /\ _save_all_heroes_ok \in [Servers -> BOOLEAN]
  /\ version \in [Servers -> Nat]
  /\ atSignal \in [Servers -> Nat]
  /\ cut \in SUBSET Servers
  /\ toDb \in [Servers -> Seq(Message)]
  /\ toGs \in [Servers -> Seq({"closing", "hero"})]
  /\ _stop \in BOOLEAN
  /\ _receive_cose_msg \in BOOLEAN
  /\ closing \in {"none", "timer", "done"}
  /\ _close_gs_id \in SUBSET Servers
  /\ _obj_state \in [Databases -> {"_run_obj_", "_wait_stop_", "_stop_obj_"}]
  /\ _works \in [Threads -> Seq(Message)]
  /\ thread \in [Threads -> Thread]
  /\ _results \in Seq(Result)
  /\ row \in [Servers -> Nat]
  /\ errors \in Nat

\* Only one thread saves heroes, and that is all it does; a thread at work has a task.
OneSaver ==
  \A t \in Threads :
    /\ \A m \in Elems(_works[t]) : m.kind = "save" <=> t = Saver
    /\ thread[t]._task # NoTask => (thread[t]._task.kind = "save" <=> t = Saver)
    /\ thread[t].at \in {"taken", "task"} => thread[t]._task # NoTask

\* A game server's messages are its own.
OwnMessages == \A g \in Servers : \A m \in Elems(toDb[g]) : m.gs = g

\* The row of a game server's heroes, the save that is being executed, those that are queued,
\* those that are under way and the heroes in memory follow each other.
fits(m) == m.kind = "save" => row[m.gs] <= m.ver /\ m.ver <= version[m.gs]

InOrder ==
  /\ \A g \in Servers : row[g] <= version[g]
  /\ fits(thread[Saver]._task)
  /\ \A m \in Elems(_works[Saver]) : fits(m) /\ notAfter(thread[Saver]._task, m)
  /\ ordered(_works[Saver])
  /\ \A g \in Servers :
       /\ ordered(toDb[g])
       /\ \A n \in Elems(toDb[g]) :
            /\ fits(n) /\ notAfter(thread[Saver]._task, n)
            /\ \A m \in Elems(_works[Saver]) : notAfter(m, n)

OrderInv == Typed /\ OneSaver /\ OwnMessages /\ InOrder

\* A thread that is told to stop has no task, or one that it will still execute: its queue,
\* and the queues of its Database, take nothing more.
Working(t) ==
  /\ thread[t]._task = NoTask <=> thread[t].at \in {"idle", "end"}
  /\ AtomicTake => thread[t].at # "taken" /\ (thread[t]._stop => thread[t]._task = NoTask)
  /\ MaxErrors = 0 => thread[t]._connect
Joined(t) ==
  /\ thread[t]._stop =>
       /\ _obj_state[_father(t)] # "_run_obj_"
       /\ \A u \in Threads : _father(u) = _father(t) => _works[u] = <<>>
  /\ _obj_state[_father(t)] = "_stop_obj_" => thread[t]._stop /\ thread[t].at = "end"
Ends == \A t \in Threads : Working(t) /\ Joined(t)

\* The heroes of g are in the database as of version v, or will be when the thread is through.
Secured(g, v) ==
  \/ row[g] >= v
  \/ \E m \in Elems(_works[Saver]) \cup {thread[Saver]._task} :
       m.kind = "save" /\ m.gs = g /\ m.ver >= v

\* In a connection, a request to close is behind a save of version v or later.
saveFirst(q, v) ==
  \A i \in DOMAIN q :
    q[i].kind = "close" => \E j \in DOMAIN q : j < i /\ q[j].kind = "save" /\ q[j].ver >= v

\* Who has asked to close, who is answered and who has stopped
Stops ==
  /\ _receive_cose_msg <=> closing # "none"
  /\ _close_gs_id # {} => _receive_cose_msg
  /\ closing # "done" => \A d \in Databases : _obj_state[d] = "_run_obj_"
  /\ _stop => \A d \in Databases : _obj_state[d] = "_stop_obj_"
Asks(g) ==
  /\ gs[g] = "run" => g \notin _close_gs_id /\ \A m \in Elems(toDb[g]) : m.kind # "close"
  /\ _save_all_heroes_ok[g] \/ "closing" \in Elems(toGs[g]) => g \in _close_gs_id
  /\ gs[g] = "stop" => _save_all_heroes_ok[g]
Asked == Stops /\ \A g \in Servers : Asks(g)

\* The heroes of the game server that is answered are secured as of the signal; until one is,
\* a request to close is behind the save of the signal.
SignalInv ==
  \A g \in Servers :
    /\ g \in _close_gs_id => Secured(g, atSignal[g])
    /\ ~_receive_cose_msg => Secured(g, atSignal[g]) \/ saveFirst(toDb[g], atSignal[g])

\* The last save of a game server that has stopped, if it got out, is on its way until the timer is over,
\* and the timer is not over before the game server that asked has stopped.
LastSave ==
  /\ closing = "done" => \A g \in _close_gs_id : gs[g] = "stop"
  /\ \A g \in Servers :
       gs[g] = "stop" /\ g \notin cut =>
         \/ Secured(g, version[g])
         \/ closing # "done" /\ \E m \in Elems(toDb[g]) : m.kind = "save" /\ m.ver = version[g]

-----------------------------------------------------------------------------
(* Queues *)

\* Appending to a queue
LEMMA AppendQueue ==
  ASSUME NEW S, NEW q \in Seq(S), NEW m \in S
  PROVE  /\ Append(q, m) \in Seq(S)
         /\ Elems(Append(q, m)) = Elems(q) \cup {m}
         /\ ordered(q) /\ (\A n \in Elems(q) : notAfter(n, m)) => ordered(Append(q, m))
<1> DEFINE r == Append(q, m)
           k == Len(q) + 1
<1>1. /\ DOMAIN q = 1..Len(q) /\ Len(q) \in Nat /\ DOMAIN r = 1..k /\ r[k] = m
      /\ \A i \in 1..Len(q) : r[i] = q[i]
      /\ r \in Seq(S)
  OBVIOUS
<1> HIDE DEF r
<1>2. Elems(r) = Elems(q) \cup {m}
  BY <1>1 DEF Elems
<1>3. ASSUME ordered(q), \A n \in Elems(q) : notAfter(n, m)
      PROVE  ordered(r)
  <2> SUFFICES ASSUME NEW i \in DOMAIN r, NEW j \in DOMAIN r, i < j
               PROVE  notAfter(r[i], r[j])
    BY DEF ordered
  <2>1. i \in 1..Len(q) /\ r[i] = q[i] /\ i \in DOMAIN q
    BY <1>1
  <2>2. CASE j = k
    BY <1>1, <1>3, <2>1, <2>2 DEF Elems
  <2>3. CASE j # k
    <3>1. j \in DOMAIN q /\ r[j] = q[j]
      BY <1>1, <2>3
    <3> QED
      BY <1>3, <2>1, <3>1 DEF ordered
  <2> QED
    BY <2>2, <2>3
<1> QED
  BY <1>1, <1>2, <1>3 DEF r

\* Taking the first of a queue
LEMMA TailQueue ==
  ASSUME NEW S, NEW q \in Seq(S), q # <<>>
  PROVE  /\ Head(q) \in S /\ Tail(q) \in Seq(S)
         /\ Elems(q) = {Head(q)} \cup Elems(Tail(q))
         /\ ordered(q) => ordered(Tail(q)) /\ \A n \in Elems(Tail(q)) : notAfter(Head(q), n)
<1> DEFINE r == Tail(q)
<1>1. /\ DOMAIN q = 1..Len(q) /\ Len(q) \in Nat \ {0} /\ DOMAIN r = 1..(Len(q) - 1)
      /\ \A i \in 1..(Len(q) - 1) : r[i] = q[i + 1]
      /\ r \in Seq(S) /\ Head(q) = q[1] /\ q[1] \in S
  OBVIOUS
<1> HIDE DEF r
<1>2. \A i \in DOMAIN q : i = 1 \/ (i - 1 \in DOMAIN r /\ r[i - 1] = q[i])
  BY <1>1
<1>3. \A i \in DOMAIN r : i + 1 \in DOMAIN q /\ 1 < i + 1 /\ r[i] = q[i + 1]
  BY <1>1
<1>4. 1 \in DOMAIN q
  BY <1>1
<1>5. Elems(q) = {Head(q)} \cup Elems(r)
  BY <1>1, <1>2, <1>3, <1>4 DEF Elems
<1>6. ordered(q) => \A n \in Elems(r) : notAfter(Head(q), n)
  BY <1>1, <1>3, <1>4 DEF ordered, Elems
<1>7. ASSUME ordered(q) PROVE ordered(r)
  <2> SUFFICES ASSUME NEW i \in DOMAIN r, NEW j \in DOMAIN r, i < j
               PROVE  notAfter(r[i], r[j])
    BY DEF ordered
  <2>1. i + 1 < j + 1
    BY <1>1
  <2> QED
    BY <1>3, <1>7, <2>1 DEF ordered
<1> QED
  BY <1>1, <1>5, <1>6, <1>7 DEF r

\* The front of a queue
LEMMA FrontQueue ==
  ASSUME NEW S, NEW q \in Seq(S), NEW n \in 0..Len(q)
  PROVE  /\ SubSeq(q, 1, n) \in Seq(S)
         /\ Elems(SubSeq(q, 1, n)) \subseteq Elems(q)
         /\ ordered(q) => ordered(SubSeq(q, 1, n))
<1> DEFINE r == SubSeq(q, 1, n)
<1>1. /\ DOMAIN q = 1..Len(q) /\ Len(q) \in Nat /\ DOMAIN r = 1..n /\ r \in Seq(S)
      /\ \A i \in 1..n : r[i] = q[i]
  OBVIOUS
<1> HIDE DEF r
<1>2. \A i \in DOMAIN r : i \in DOMAIN q /\ r[i] = q[i]
  BY <1>1
<1>3. Elems(r) \subseteq Elems(q)
  BY <1>2 DEF Elems
<1>4. ordered(q) => ordered(r)
  BY <1>2 DEF ordered
<1> QED
  BY <1>1, <1>3, <1>4 DEF r

\* What the front of a queue has
LEMMA FrontHas ==
  ASSUME NEW S, NEW q \in Seq(S), NEW n \in 0..Len(q), NEW i \in 1..n
  PROVE  q[i] \in Elems(SubSeq(q, 1, n))
<1>1. SubSeq(q, 1, n)[i] = q[i] /\ i \in DOMAIN SubSeq(q, 1, n)
  OBVIOUS
<1> QED
  BY <1>1 DEF Elems

\* A queue without elements
LEMMA EmptyQueue ==
  ASSUME NEW S
  PROVE  <<>> \in Seq(S) /\ Elems(<<>>) = {} /\ ordered(<<>>)
  BY DEF Elems, ordered

\* What is in a queue of messages is a message.
LEMMA ElemsTyped ==
  ASSUME NEW S, NEW q \in Seq(S)
  PROVE  Elems(q) \subseteq S
  BY DEF Elems

\* A message that is a save has a version; another task has none.
LEMMA MessageKinds ==
  /\ \A m \in Message : m.kind = "save" => m \in Save
  /\ \A m \in Message : m.gs \in Servers /\ m # NoTask
  /\ NoTask.kind = "none" /\ NoTask \notin Message
  /\ \A m \in Save : m \in Message /\ m.kind = "save" /\ m.ver \in Nat /\ m.gs \in Servers
<1>1. \A m \in Save : m.kind = "save" /\ m.ver \in Nat /\ m.gs \in Servers
  BY DEF Save
<1>2. \A m \in Other : m.kind \in {"query", "failed", "deals", "record", "close"} /\ m.gs \in Servers
  BY DEF Other
<1>3. NoTask.kind = "none"
  BY DEF NoTask
<1> QED
  BY <1>1, <1>2, <1>3 DEF Message

-----------------------------------------------------------------------------
(* Types *)

\* The names of the threads and of the Databases
LEMMA Names ==
  /\ Saver \in Threads
  /\ \A t \in Threads : _father(t) \in Databases
  /\ \A m \in Message : threadFor(m) \in Threads /\ (threadFor(m) = Saver <=> m.kind = "save")
  BY DEF Saver, Threads, Databases, _father, threadFor

\* What a game server saves and asks
LEMMA Sent ==
  ASSUME Typed, NEW g \in Servers
  PROVE  /\ save(g) \in Save /\ save(g).gs = g /\ save(g).ver = version[g] /\ save(g).kind = "save"
         /\ save(g) \in Message
         /\ [kind |-> "close", gs |-> g] \in Message
         /\ Append(toDb[g], save(g)) \in Seq(Message)
         /\ SaveDreamHeroes(g) \in Seq(Message)
<1>1. version[g] \in Nat /\ toDb[g] \in Seq(Message)
  BY DEF Typed
<1>2. /\ save(g) \in Save /\ save(g).gs = g /\ save(g).ver = version[g] /\ save(g).kind = "save"
      /\ [kind |-> "close", gs |-> g] \in Other
  BY <1>1 DEF save, Save, Other
<1>3. save(g) \in Message /\ [kind |-> "close", gs |-> g] \in Message
  BY <1>2 DEF Message
<1>4. Append(toDb[g], save(g)) \in Seq(Message) /\ SaveDreamHeroes(g) \in Seq(Message)
  BY <1>1, <1>3, AppendQueue DEF SaveDreamHeroes
<1> QED
  BY <1>2, <1>3, <1>4

\* A Database takes a task into the queue of a thread, or drops it.
LEMMA TaskTyped ==
  ASSUME Typed, NEW t \in Threads, NEW m \in Message
  PROVE  addSQueryTask(t, m) \in [Threads -> Seq(Message)]
<1>1. Append(_works[t], m) \in Seq(Message)
  BY AppendQueue DEF Typed
<1> QED
  BY <1>1 DEF addSQueryTask, Typed

\* A task that is done may have a result.
LEMMA DoneTyped ==
  ASSUME Typed, NEW t \in Threads, thread[t]._task # NoTask
  PROVE  addDone(thread[t]._task) \in Seq(Result) /\ addDone(failed(thread[t]._task)) \in Seq(Result)
<1> DEFINE m == thread[t]._task
<1>1. m \in Message /\ _results \in Seq(Result)
  BY DEF Typed, Thread
<1> HIDE DEF m
<1>2. m.kind \in {"query", "failed", "deals"} => m \in Result
  BY <1>1 DEF Message, Save, Other, Result
<1>3. m.kind = "query" => failed(m) \in Result
  BY <1>2 DEF Result, failed
<1>4. m.kind # "query" => failed(m) = m
  BY DEF failed
<1>5. addDone(m) \in Seq(Result)
  BY <1>1, <1>2 DEF addDone
<1>6. addDone(failed(m)) \in Seq(Result)
  BY <1>1, <1>3, <1>4, <1>5 DEF addDone
<1> QED
  BY <1>5, <1>6 DEF m

\* The row that a statement leaves
LEMMA EffectTyped ==
  ASSUME Typed, NEW t \in Threads
  PROVE  effect(thread[t]._task) \in [Servers -> Nat]
<1> DEFINE m == thread[t]._task
<1>1. m \in Message \/ m = NoTask
  BY DEF Typed, Thread
<1> HIDE DEF m
<1>2. m.kind = "save" => m \in Save
  BY <1>1, MessageKinds
<1>3. effect(m) \in [Servers -> Nat]
  BY <1>2, MessageKinds DEF effect, Typed
<1> QED
  BY <1>3 DEF m

\* A change of a thread's fields
LEMMA ThreadTyped ==
  ASSUME Typed, NEW t \in Threads
  PROVE  /\ thread \in [Threads -> Thread] /\ thread[t] \in Thread
         /\ \A x \in Thread : [thread EXCEPT ![t] = x] \in [Threads -> Thread]
  BY DEF Typed, Thread

\* The steps of the game servers keep the types.
LEMMA GameTyped ==
  ASSUME Typed, NEW g \in Servers, game(g)
  PROVE  Typed'
<1> USE DEF gameVars, linkVars, mainVars, threadVars
<1>1. CASE change(g)
  BY <1>1 DEF change, Typed
<1>2. CASE send(g)
  <2>1. PICK k \in Sends : toDb' = [toDb EXCEPT ![g] =
               Append(@, IF k = "save" THEN save(g) ELSE [kind |-> k, gs |-> g])]
    BY <1>2 DEF send
  <2> DEFINE m == IF k = "save" THEN save(g) ELSE [kind |-> k, gs |-> g]
  <2>2. m \in Message
    <3>1. k # "save" => [kind |-> k, gs |-> g] \in Other
      BY ServerStopConstants DEF Other
    <3> QED
      BY <3>1, Sent DEF Message
  <2>3. toDb' = [toDb EXCEPT ![g] = Append(toDb[g], m)]
    BY <2>1
  <2> HIDE DEF m
  <2>4. toDb' \in [Servers -> Seq(Message)]
    BY <2>2, <2>3, AppendQueue DEF Typed
  <2> QED
    BY <1>2, <2>4 DEF send, Typed
<1>3. CASE setStop(g)
  <2>1. toDb' \in [Servers -> Seq(Message)]
    BY <1>3, Sent DEF setStop, Typed
  <2> QED
    BY <1>3, <2>1 DEF setStop, Typed
<1>4. CASE clientMessage(g)
  <2>1. Tail(toGs[g]) \in Seq({"closing", "hero"})
    BY <1>4 DEF clientMessage, Typed
  <2>2. toGs' \in [Servers -> Seq({"closing", "hero"})]
    BY <1>4, <2>1 DEF clientMessage, Typed
  <2>3. _save_all_heroes_ok' \in [Servers -> BOOLEAN]
    BY <1>4 DEF clientMessage, Typed
  <2> QED
    BY <1>4, <2>2, <2>3 DEF clientMessage, Typed
<1>5. CASE checkStop(g)
  <2> DEFINE sent == SaveDreamHeroes(g)
  <2>1. sent \in Seq(Message)
    BY Sent
  <2>2. PICK n \in 0..Len(sent) : toDb' = [toDb EXCEPT ![g] = SubSeq(sent, 1, n)]
    BY <1>5 DEF checkStop
  <2> HIDE DEF sent
  <2>3. SubSeq(sent, 1, n) \in Seq(Message)
    BY <2>1, FrontQueue
  <2>4. toDb' \in [Servers -> Seq(Message)]
    BY <2>2, <2>3 DEF Typed
  <2>5. toGs' \in [Servers -> Seq({"closing", "hero"})]
    BY <1>5 DEF checkStop, Typed
  <2> QED
    BY <1>5, <2>4, <2>5 DEF checkStop, Typed
<1>6. CASE loss(g)
  BY <1>6 DEF loss, Typed
<1> QED
  BY <1>1, <1>2, <1>3, <1>4, <1>5, <1>6 DEF game

\* The steps of the database server's main thread keep the types.
LEMMA MainTyped ==
  ASSUME Typed, main
  PROVE  Typed'
<1> USE DEF gameVars, linkVars, mainVars, threadVars
<1>1. ASSUME NEW g \in Servers, task(g) PROVE Typed'
  <2> DEFINE m == Head(toDb[g])
  <2>1. m \in Message /\ Tail(toDb[g]) \in Seq(Message)
    BY <1>1, TailQueue DEF task, Typed
  <2>2. toDb' \in [Servers -> Seq(Message)]
    BY <1>1, <2>1 DEF task, Typed
  <2>3. _works' = addSQueryTask(threadFor(m), m)
    BY <1>1 DEF task
  <2> HIDE DEF m
  <2>4. _works' \in [Threads -> Seq(Message)]
    BY <2>1, <2>3, Names, TaskTyped
  <2> QED
    BY <1>1, <2>2, <2>4 DEF task, Typed
<1>2. ASSUME NEW g \in Servers, saveToClose(g) PROVE Typed'
  <2>1. Tail(toDb[g]) \in Seq(Message)
    BY <1>2, TailQueue DEF saveToClose, Typed
  <2>2. toDb' \in [Servers -> Seq(Message)]
    BY <1>2, <2>1 DEF saveToClose, Typed
  <2>3. toGs' \in [Servers -> Seq({"closing", "hero"})]
    <3>1. Append(toGs[g], "closing") \in Seq({"closing", "hero"})
      BY DEF Typed
    <3> QED
      BY <1>2, <3>1 DEF saveToClose, Typed
  <2>4. /\ closing' \in {"none", "timer", "done"} /\ _close_gs_id' \in SUBSET Servers
        /\ _receive_cose_msg' \in BOOLEAN
    BY <1>2 DEF saveToClose, Typed
  <2> QED
    BY <1>2, <2>2, <2>3, <2>4 DEF saveToClose, Typed
<1>3. ASSUME NEW d \in Databases, stopDatabase(d) PROVE Typed'
  BY <1>3 DEF stopDatabase, Typed
<1>4. ASSUME NEW t \in Threads, stopThread(t) PROVE Typed'
  <2> DEFINE x == [thread[t] EXCEPT !._stop = TRUE]
  <2>1. x \in Thread /\ thread' = [thread EXCEPT ![t] = x]
    BY <1>4, ThreadTyped DEF stopThread, Thread
  <2> HIDE DEF x
  <2>2. thread' \in [Threads -> Thread]
    BY <2>1, ThreadTyped
  <2> QED
    BY <1>4, <2>2 DEF stopThread, Typed, Thread
<1>5. CASE run
  <2> DEFINE r == Head(_results)
  <2>1. r \in Result /\ Tail(_results) \in Seq(Result)
    BY <1>5 DEF run, Typed
  <2>2. callback(r) /\ _results' = Tail(_results)
    BY <1>5 DEF run
  <2> HIDE DEF r
  <2>3. r \in Message /\ [r EXCEPT !.kind = "deals"] \in Message /\ r.gs \in Servers
    BY <2>1 DEF Result, Message, Other
  <2>4. _works' \in [Threads -> Seq(Message)]
    <3> DEFINE m == [r EXCEPT !.kind = "deals"]
               t == threadFor(r)
    <3>1. m \in Message /\ t \in Threads
      BY <2>3, Names
    <3>2. _works' = _works \/ _works' = addSQueryTask(t, m)
      BY <2>2 DEF callback
    <3> HIDE DEF m, t
    <3> QED
      BY <3>1, <3>2, TaskTyped DEF Typed
  <2>5. toGs' \in [Servers -> Seq({"closing", "hero"})]
    <3>1. Append(toGs[r.gs], "hero") \in Seq({"closing", "hero"})
      BY <2>3 DEF Typed
    <3> QED
      BY <2>2, <2>3, <3>1 DEF callback, Typed
  <2> QED
    BY <1>5, <2>1, <2>2, <2>4, <2>5 DEF run, Typed
<1>6. CASE onSaveToClose
  BY <1>6 DEF onSaveToClose, Typed
<1>7. CASE signalStop
  BY <1>7 DEF signalStop, Typed
<1>8. CASE checkDbStop
  BY <1>8 DEF checkDbStop, Typed
<1> QED
  BY <1>1, <1>2, <1>3, <1>4, <1>5, <1>6, <1>7, <1>8 DEF main

\* The steps of a thread keep the types.
LEMMA WorkTyped ==
  ASSUME Typed, NEW t \in Threads, work(t), thread[t].at = "task" => thread[t]._task # NoTask
  PROVE  Typed'
<1> USE DEF gameVars, linkVars, mainVars, threadVars
<1>1. /\ thread[t] \in Thread /\ NoTask \in Message \cup {NoTask}
      /\ _works[t] # <<>> => Head(_works[t]) \in Message /\ Tail(_works[t]) \in Seq(Message)
  BY ThreadTyped, TailQueue DEF Typed
<1>2. CASE connetDatabase(t) \/ assign(t) \/ endThread(t)
  <2>1. PICK x \in Thread : thread' = [thread EXCEPT ![t] = x]
    <3>1. CASE connetDatabase(t)
      <4>1. [thread[t] EXCEPT !._connect = TRUE] \in Thread
        BY <1>1 DEF Thread
      <4> QED
        BY <3>1, <4>1, ThreadTyped DEF connetDatabase
    <3>2. CASE assign(t)
      <4>1. [thread[t] EXCEPT !.at = "task"] \in Thread
        BY <1>1 DEF Thread
      <4> QED
        BY <3>2, <4>1, ThreadTyped DEF assign
    <3>3. CASE endThread(t)
      <4>1. [thread[t] EXCEPT !.at = "end"] \in Thread
        BY <1>1 DEF Thread
      <4> QED
        BY <3>3, <4>1, ThreadTyped DEF endThread
    <3> QED
      BY <1>2, <3>1, <3>2, <3>3
  <2>2. thread' \in [Threads -> Thread]
    BY <2>1, ThreadTyped
  <2> QED
    BY <1>2, <2>2 DEF connetDatabase, assign, endThread, Typed, Thread
<1>3. CASE getTask(t)
  <2> DEFINE x == [thread[t] EXCEPT !.at = IF AtomicTake THEN "task" ELSE "taken",
                                    !._task = Head(_works[t])]
  <2>1. x \in Thread
    BY <1>1, <1>3 DEF Thread, getTask
  <2>2. thread' = [thread EXCEPT ![t] = x]
    BY <1>3, ThreadTyped DEF getTask
  <2> HIDE DEF x
  <2>3. thread' \in [Threads -> Thread]
    BY <2>1, <2>2, ThreadTyped
  <2>4. _works' \in [Threads -> Seq(Message)]
    BY <1>1, <1>3 DEF getTask, Typed
  <2> QED
    BY <1>3, <2>3, <2>4 DEF getTask, Typed, Thread
<1>4. CASE execute(t)
  <2> DEFINE more == _works[t] # <<>>
             x == [thread[t] EXCEPT !.at = IF more THEN "task" ELSE "idle",
                                    !._task = IF more THEN Head(_works[t]) ELSE NoTask]
  <2>1. x \in Thread
    BY <1>1 DEF Thread
  <2>2. thread' = [thread EXCEPT ![t] = x]
    BY <1>4, ThreadTyped DEF execute
  <2> HIDE DEF x
  <2>3. thread' \in [Threads -> Thread]
    BY <2>1, <2>2, ThreadTyped
  <2>4. _works' \in [Threads -> Seq(Message)]
    BY <1>1, <1>4 DEF execute, Typed
  <2>5. _results' \in Seq(Result) /\ row' \in [Servers -> Nat]
    BY <1>4, DoneTyped, EffectTyped DEF execute
  <2> QED
    BY <1>4, <2>3, <2>4, <2>5 DEF execute, Typed, Thread
<1>5. CASE connectionLost(t)
  <2> DEFINE x == [thread[t] EXCEPT !._connect = FALSE]
  <2>1. x \in Thread
    BY <1>1 DEF Thread
  <2>2. thread' = [thread EXCEPT ![t] = x]
    BY <1>5, ThreadTyped DEF connectionLost
  <2> HIDE DEF x
  <2>3. thread' \in [Threads -> Thread]
    BY <2>1, <2>2, ThreadTyped
  <2>4. row' \in [Servers -> Nat] /\ errors' \in Nat
    <3>1. effect(thread[t]._task) \in [Servers -> Nat]
      BY <1>5, EffectTyped DEF connectionLost
    <3>2. row' = row \/ row' = effect(thread[t]._task)
      BY <1>5 DEF connectionLost
    <3>3. errors' = errors + 1
      BY <1>5 DEF connectionLost
    <3> QED
      BY <3>1, <3>2, <3>3 DEF Typed
  <2> QED
    BY <1>5, <2>3, <2>4 DEF connectionLost, Typed, Thread
<1>6. CASE badQuery(t)
  <2> DEFINE x == [thread[t] EXCEPT !._connect = FALSE, !._task = NoTask, !.at = "idle"]
  <2>1. x \in Thread
    BY <1>1 DEF Thread
  <2>2. thread' = [thread EXCEPT ![t] = x]
    BY <1>6, ThreadTyped DEF badQuery
  <2> HIDE DEF x
  <2>3. thread' \in [Threads -> Thread]
    BY <2>1, <2>2, ThreadTyped
  <2>4. _results' \in Seq(Result) /\ errors' \in Nat
    BY <1>6, DoneTyped DEF badQuery, Typed
  <2> QED
    BY <1>6, <2>3, <2>4 DEF badQuery, Typed, Thread
<1> QED
  BY <1>2, <1>3, <1>4, <1>5, <1>6 DEF work

-----------------------------------------------------------------------------
(* The order of the saves *)

\* The initial states
LEMMA InitOrder == Init => OrderInv
<1> SUFFICES ASSUME Init PROVE OrderInv
  OBVIOUS
<1>1. Typed
  BY EmptyQueue DEF Init, Typed, Thread
<1>2. \A t \in Threads : _works[t] = <<>> /\ thread[t]._task = NoTask /\ thread[t].at = "idle"
  BY DEF Init
<1>3. \A g \in Servers : toDb[g] = <<>> /\ row[g] = 0 /\ version[g] = 0
  BY DEF Init
<1>4. OneSaver /\ OwnMessages
  BY <1>2, <1>3, EmptyQueue DEF OneSaver, OwnMessages
<1>5. InOrder
  BY <1>2, <1>3, EmptyQueue, Names, MessageKinds DEF InOrder, fits
<1> QED
  BY <1>1, <1>4, <1>5 DEF OrderInv

\* A step that only takes messages off a connection, in order, keeps the order.
LEMMA Kept ==
  ASSUME OrderInv, Typed', UNCHANGED <<row, version, _works>>,
         \A t \in Threads : /\ thread'[t]._task = thread[t]._task
                            /\ thread'[t].at \in {"taken", "task"} => thread[t].at \in {"taken", "task"},
         \A g \in Servers : /\ Elems(toDb'[g]) \subseteq Elems(toDb[g])
                            /\ ordered(toDb[g]) => ordered(toDb'[g])
  PROVE  OrderInv'
<1>1. OneSaver'
  BY DEF OneSaver, OrderInv
<1>2. OwnMessages'
  BY DEF OwnMessages, OrderInv
<1>3. ASSUME NEW m PROVE fits(m)' <=> fits(m)
  BY DEF fits
<1>4. thread'[Saver]._task = thread[Saver]._task
  BY Names
<1>5. InOrder'
  BY <1>3, <1>4 DEF InOrder, OrderInv
<1> QED
  BY <1>1, <1>2, <1>5 DEF OrderInv

\* What a game server sends is the newest of its saves, or none.
LEMMA SendsNewest ==
  ASSUME OrderInv, NEW g \in Servers, NEW q, Typed',
         UNCHANGED <<row, version, _works, thread>>,
         toDb' = [toDb EXCEPT ![g] = q], ordered(q),
         \A n \in Elems(q) : n \in Elems(toDb[g]) \/ n = save(g) \/ (n.gs = g /\ n.kind # "save")
  PROVE  OrderInv'
<1> DEFINE K == thread[Saver]._task
           W == Elems(_works[Saver])
<1>1. Typed /\ InOrder /\ OwnMessages /\ OneSaver
  BY DEF OrderInv
<1>2. /\ save(g).gs = g /\ save(g).ver = version[g] /\ save(g).kind = "save"
      /\ row[g] <= version[g] /\ version[g] \in Nat
  BY <1>1, Sent DEF InOrder, Typed
<1>3. fits(K) /\ \A m \in W : fits(m)
  BY <1>1 DEF InOrder
<1>4. \A h \in Servers : h # g => toDb'[h] = toDb[h]
  BY <1>1 DEF Typed
<1>5. toDb'[g] = q
  BY <1>1 DEF Typed
<1>6. OneSaver'
  BY <1>1 DEF OneSaver
<1>7. OwnMessages'
  BY <1>1, <1>2, <1>4, <1>5 DEF OwnMessages
<1>8. ASSUME NEW m PROVE fits(m)' <=> fits(m)
  BY DEF fits
<1>9. ASSUME NEW n \in Elems(q)
      PROVE  fits(n) /\ notAfter(K, n) /\ \A m \in W : notAfter(m, n)
  <2>1. CASE n \in Elems(toDb[g])
    BY <1>1, <2>1 DEF InOrder
  <2>2. CASE n = save(g)
    <3>1. fits(n)
      BY <1>2, <2>2 DEF fits
    <3>2. \A m : fits(m) => notAfter(m, n)
      BY <1>2, <2>2 DEF fits, notAfter
    <3> QED
      BY <1>3, <3>1, <3>2
  <2>3. CASE n.kind # "save"
    BY <2>3 DEF fits, notAfter
  <2> QED
    BY <1>9, <2>1, <2>2, <2>3
<1>10. ASSUME NEW h \in Servers
       PROVE  /\ ordered(toDb'[h])
              /\ \A n \in Elems(toDb'[h]) :
                   fits(n)' /\ notAfter(K, n) /\ \A m \in W : notAfter(m, n)
  BY <1>1, <1>4, <1>5, <1>8, <1>9 DEF InOrder
<1>11. /\ \A h \in Servers : row'[h] <= version'[h]
       /\ fits(K)' /\ (\A m \in W : fits(m)' /\ notAfter(K, m)) /\ ordered(_works[Saver])
  BY <1>1, <1>8 DEF InOrder
<1>12. InOrder'
  BY <1>10, <1>11 DEF InOrder
<1> QED
  BY <1>6, <1>7, <1>12 DEF OrderInv

\* The steps of the game servers keep the order.
LEMMA GameOrder ==
  ASSUME OrderInv, NEW g \in Servers, game(g)
  PROVE  OrderInv'
<1> USE DEF gameVars, linkVars, mainVars, threadVars
<1>1. Typed /\ Typed' /\ InOrder /\ OwnMessages /\ OneSaver
  BY GameTyped DEF OrderInv
<1>2. toDb[g] \in Seq(Message) /\ ordered(toDb[g])
  BY <1>1 DEF Typed, InOrder
<1>3. CASE change(g)
  <2>1. /\ version' \in [Servers -> Nat] /\ \A h \in Servers : version[h] <= version'[h]
        /\ UNCHANGED <<row, toDb, _works, thread>>
    BY <1>1, <1>3 DEF change, Typed
  <2>2. OneSaver' /\ OwnMessages'
    BY <1>1, <2>1 DEF OneSaver, OwnMessages
  <2>3. ASSUME NEW m \in Message \cup {NoTask}, fits(m) PROVE fits(m)'
    <3>1. m.kind = "save" => m.gs \in Servers /\ m.ver \in Nat
      BY MessageKinds
    <3>2. CASE m.kind = "save"
      <4>1. /\ version[m.gs] \in Nat /\ version'[m.gs] \in Nat /\ version[m.gs] <= version'[m.gs]
            /\ m.ver \in Nat /\ row'[m.gs] = row[m.gs]
        BY <1>1, <2>1, <3>1, <3>2 DEF Typed
      <4>2. row[m.gs] <= m.ver /\ m.ver <= version[m.gs]
        BY <2>3, <3>2 DEF fits
      <4>3. row'[m.gs] <= m.ver /\ m.ver <= version'[m.gs]
        BY ONLY <4>1, <4>2
      <4> QED
        BY <4>3 DEF fits
    <3> QED
      BY <3>2 DEF fits
  <2>4. thread[Saver]._task \in Message \cup {NoTask}
    BY <1>1, Names DEF Typed, Thread
  <2>5. \A n \in Elems(_works[Saver]) : n \in Message
    BY <1>1, Names, ElemsTyped DEF Typed
  <2>6. \A h \in Servers : \A n \in Elems(toDb[h]) : n \in Message
    BY <1>1, ElemsTyped DEF Typed
  <2>7. \A h \in Servers : row'[h] <= version'[h]
    <3> SUFFICES ASSUME NEW h \in Servers PROVE row'[h] <= version'[h]
      OBVIOUS
    <3>1. /\ row[h] \in Nat /\ version[h] \in Nat /\ version'[h] \in Nat /\ row'[h] = row[h]
          /\ version[h] <= version'[h] /\ row[h] <= version[h]
      BY <1>1, <2>1 DEF Typed, InOrder
    <3> QED
      BY ONLY <3>1
  <2>8. InOrder'
    BY <1>1, <2>1, <2>3, <2>4, <2>5, <2>6, <2>7 DEF InOrder
  <2> QED
    BY <1>1, <2>2, <2>8 DEF OrderInv
<1>4. ASSUME NEW m \in Message, m = save(g) \/ (m.gs = g /\ m.kind # "save")
      PROVE  /\ Append(toDb[g], m) \in Seq(Message) /\ ordered(Append(toDb[g], m))
             /\ Elems(Append(toDb[g], m)) = Elems(toDb[g]) \cup {m}
  <2>1. \A n \in Elems(toDb[g]) : n.gs = g /\ fits(n)
    BY <1>1 DEF OwnMessages, InOrder
  <2>2. save(g).kind = "save" /\ save(g).ver = version[g] /\ save(g).gs = g
    BY <1>1, Sent
  <2>3. \A n \in Elems(toDb[g]) : notAfter(n, m)
    BY <1>4, <2>1, <2>2 DEF notAfter, fits
  <2> QED
    BY <1>2, <2>3, AppendQueue
<1>5. CASE send(g)
  <2>1. PICK k \in Sends : toDb' = [toDb EXCEPT ![g] =
               Append(@, IF k = "save" THEN save(g) ELSE [kind |-> k, gs |-> g])]
    BY <1>5 DEF send
  <2> DEFINE m == IF k = "save" THEN save(g) ELSE [kind |-> k, gs |-> g]
  <2>2. m \in Message /\ (m = save(g) \/ (m.gs = g /\ m.kind # "save"))
    <3>1. k # "save" => [kind |-> k, gs |-> g] \in Other
      BY ServerStopConstants DEF Other
    <3> QED
      BY <1>1, <3>1, Sent DEF Message
  <2> DEFINE q == Append(toDb[g], m)
  <2>3. toDb' = [toDb EXCEPT ![g] = q]
    BY <2>1
  <2> HIDE DEF m
  <2>4. ordered(q) /\ Elems(q) = Elems(toDb[g]) \cup {m}
    BY <1>4, <2>2
  <2>5. UNCHANGED <<row, version, _works, thread>>
    BY <1>5 DEF send
  <2> HIDE DEF q
  <2> QED
    BY <1>1, <2>2, <2>3, <2>4, <2>5, SendsNewest
<1> DEFINE r == Append(toDb[g], save(g))
           c == [kind |-> "close", gs |-> g]
           s == Append(r, c)
<1>6. s = SaveDreamHeroes(g)
  BY DEF SaveDreamHeroes
<1>7. /\ s \in Seq(Message) /\ ordered(s) /\ c.gs = g /\ c.kind = "close"
      /\ \A n \in Elems(s) : n \in Elems(toDb[g]) \/ n = save(g) \/ (n.gs = g /\ n.kind # "save")
  <2>1. r \in Seq(Message) /\ ordered(r) /\ Elems(r) = Elems(toDb[g]) \cup {save(g)}
    BY <1>1, <1>4, Sent
  <2>2. c \in Message /\ c.gs = g /\ c.kind = "close"
    BY <1>1, Sent
  <2> HIDE DEF r, c
  <2>3. \A n : notAfter(n, c)
    BY <2>2 DEF notAfter
  <2>4. s \in Seq(Message) /\ Elems(s) = Elems(r) \cup {c} /\ ordered(s)
    BY <2>1, <2>2, <2>3, AppendQueue
  <2> HIDE DEF s
  <2> QED
    BY <2>1, <2>2, <2>4
<1> HIDE DEF s
<1>8. CASE setStop(g)
  <2>1. toDb' = [toDb EXCEPT ![g] = s] /\ UNCHANGED <<row, version, _works, thread>>
    BY <1>6, <1>8 DEF setStop
  <2> QED
    BY <1>1, <1>7, <2>1, SendsNewest
<1>9. CASE clientMessage(g)
  BY <1>1, <1>9, Kept DEF clientMessage
<1>10. CASE checkStop(g)
  <2>1. Len(s) \in 0..Len(s)
    BY <1>7
  <2>2. PICK n \in 0..Len(s) : toDb' = [toDb EXCEPT ![g] = SubSeq(s, 1, n)]
    BY <1>6, <1>10, <2>1 DEF checkStop
  <2> DEFINE q == SubSeq(s, 1, n)
  <2>3. ordered(q) /\ Elems(q) \subseteq Elems(s)
    BY <1>7, FrontQueue
  <2>4. toDb' = [toDb EXCEPT ![g] = q] /\ UNCHANGED <<row, version, _works, thread>>
    BY <1>10, <2>2 DEF checkStop
  <2> HIDE DEF q
  <2>5. \A x \in Elems(q) : x \in Elems(toDb[g]) \/ x = save(g) \/ (x.gs = g /\ x.kind # "save")
    BY <1>7, <2>3
  <2> QED
    BY <1>1, <2>3, <2>4, <2>5, SendsNewest
<1>11. CASE loss(g)
  <2>1. \A h \in Servers : toDb'[h] = toDb[h] \/ toDb'[h] = <<>>
    BY <1>1, <1>11 DEF loss, Typed
  <2>2. UNCHANGED <<row, version, _works, thread>>
    BY <1>11 DEF loss
  <2> QED
    BY <1>1, <2>1, <2>2, Kept, EmptyQueue
<1> QED
  BY <1>3, <1>5, <1>8, <1>9, <1>10, <1>11 DEF game

\* A task that a Database takes: only a save goes to the thread that saves.
LEMMA TaskQueued ==
  ASSUME Typed, NEW m \in Message, _works' = addSQueryTask(threadFor(m), m)
  PROVE  /\ \A t \in Threads : t # threadFor(m) => _works'[t] = _works[t]
         /\ \A n \in Elems(_works'[threadFor(m)]) : n \in Elems(_works[threadFor(m)]) \/ n = m
         /\ \/ _works' = _works
            \/ /\ _obj_state[_father(threadFor(m))] = "_run_obj_"
               /\ _works' = [_works EXCEPT ![threadFor(m)] = Append(@, m)]
               /\ _works'[threadFor(m)] = Append(_works[threadFor(m)], m)
<1> DEFINE t == threadFor(m)
<1>1. t \in Threads /\ _works[t] \in Seq(Message)
  BY Names DEF Typed
<1>2. \/ _works' = _works
      \/ /\ _obj_state[_father(t)] = "_run_obj_"
         /\ _works' = [_works EXCEPT ![t] = Append(@, m)]
         /\ _works'[t] = Append(_works[t], m)
  BY <1>1 DEF addSQueryTask, Typed
<1>3. Elems(Append(_works[t], m)) = Elems(_works[t]) \cup {m}
  BY <1>1, AppendQueue
<1> HIDE DEF t
<1>4. \A u \in Threads : u # t => _works'[u] = _works[u]
  BY <1>2 DEF Typed
<1>5. \A n \in Elems(_works'[t]) : n \in Elems(_works[t]) \/ n = m
  BY <1>2, <1>3
<1> QED
  BY <1>2, <1>4, <1>5 DEF t

\* The first message of a connection becomes a task, or is dropped.
LEMMA TaskOrder ==
  ASSUME OrderInv, NEW g \in Servers, task(g)
  PROVE  OrderInv'
<1> USE DEF gameVars, linkVars, mainVars, threadVars
<1> DEFINE q == toDb[g]
           m == Head(q)
           r == Tail(q)
           s == threadFor(m)
           K == thread[Saver]._task
<1>1. Typed /\ InOrder /\ OwnMessages /\ OneSaver
  BY DEF OrderInv
<1>2. Typed'
  BY <1>1, MainTyped DEF main
<1>3. /\ q # <<>> /\ q \in Seq(Message) /\ ordered(q) /\ UNCHANGED <<row, version, thread>>
      /\ toDb' = [toDb EXCEPT ![g] = r] /\ _works' = addSQueryTask(s, m)
  BY <1>1 DEF task, Typed, InOrder
<1>4. /\ m \in Message /\ Elems(q) = {m} \cup Elems(r) /\ ordered(r)
      /\ \A n \in Elems(r) : notAfter(m, n)
  BY <1>3, TailQueue
<1>5. toDb'[g] = r /\ \A h \in Servers : h # g => toDb'[h] = toDb[h]
  BY <1>1, <1>3 DEF Typed
<1>6. m.gs = g /\ fits(m) /\ notAfter(K, m) /\ \A n \in Elems(_works[Saver]) : notAfter(n, m)
  BY <1>1, <1>4 DEF OwnMessages, InOrder
<1> HIDE DEF m, r
<1>7. /\ \A t \in Threads : t # s => _works'[t] = _works[t]
      /\ \A n \in Elems(_works'[s]) : n \in Elems(_works[s]) \/ n = m
      /\ _works' = _works \/ _works'[s] = Append(_works[s], m)
      /\ s \in Threads /\ (s = Saver <=> m.kind = "save")
  BY <1>1, <1>3, <1>4, TaskQueued, Names
<1> HIDE DEF s
<1>8. OneSaver'
  <2> SUFFICES ASSUME NEW t \in Threads, NEW n \in Elems(_works'[t])
               PROVE  n.kind = "save" <=> t = Saver
    BY <1>1, <1>3 DEF OneSaver
  <2>1. n \in Elems(_works[t]) \/ (t = s /\ n = m)
    BY <1>7
  <2> QED
    BY <1>1, <1>7, <2>1 DEF OneSaver
<1>9. OwnMessages'
  BY <1>1, <1>4, <1>5 DEF OwnMessages
<1>10. ASSUME NEW n PROVE fits(n)' <=> fits(n)
  BY <1>3 DEF fits
<1>11. \A n \in Elems(_works'[Saver]) : n \in Elems(_works[Saver]) \/ n = m
  BY <1>7, Names
<1>12. ordered(_works'[Saver])
  <2>1. CASE _works'[Saver] = _works[Saver]
    BY <1>1, <2>1 DEF InOrder
  <2>2. CASE _works'[Saver] # _works[Saver]
    <3>1. _works'[Saver] = Append(_works[Saver], m)
      BY <1>7, <2>2, Names
    <3>2. _works[Saver] \in Seq(Message) /\ ordered(_works[Saver])
      BY <1>1, Names DEF Typed, InOrder
    <3> QED
      BY <1>4, <1>6, <3>1, <3>2, AppendQueue
  <2> QED
    BY <2>1, <2>2
<1>13. \A h \in Servers : ordered(toDb'[h])
  BY <1>1, <1>4, <1>5 DEF InOrder
<1>14. ASSUME NEW h \in Servers, NEW n \in Elems(toDb'[h])
       PROVE  fits(n)' /\ notAfter(K, n) /\ \A x \in Elems(_works'[Saver]) : notAfter(x, n)
  <2>1. n \in Elems(toDb[h]) /\ (h = g => n \in Elems(r)) /\ n.gs = h
    BY <1>1, <1>4, <1>5, <1>14 DEF OwnMessages
  <2>2. notAfter(m, n)
    <3>1. CASE h = g
      BY <1>4, <2>1, <3>1
    <3>2. CASE h # g
      BY <1>6, <2>1, <3>2 DEF notAfter
    <3> QED
      BY <3>1, <3>2
  <2> QED
    BY <1>1, <1>10, <1>11, <1>14, <2>1, <2>2 DEF InOrder
<1>15. /\ \A h \in Servers : row'[h] <= version'[h]
       /\ fits(K)'
       /\ \A n \in Elems(_works'[Saver]) : fits(n)' /\ notAfter(K, n)
  BY <1>1, <1>3, <1>6, <1>10, <1>11 DEF InOrder
<1>16. InOrder'
  BY <1>3, <1>12, <1>13, <1>14, <1>15 DEF InOrder
<1> QED
  BY <1>2, <1>8, <1>9, <1>16 DEF OrderInv

\* The other steps of the main thread keep the order.
LEMMA MainOrder ==
  ASSUME OrderInv, main
  PROVE  OrderInv'
<1> USE DEF gameVars, linkVars, mainVars, threadVars
<1>1. Typed /\ Typed' /\ InOrder /\ OwnMessages /\ OneSaver
  BY MainTyped DEF OrderInv
<1>2. ASSUME NEW g \in Servers, saveToClose(g) PROVE OrderInv'
  <2>1. toDb[g] \in Seq(Message) /\ toDb[g] # <<>> /\ UNCHANGED <<row, version, _works, thread>>
    BY <1>1, <1>2 DEF saveToClose, Typed
  <2>2. toDb'[g] = Tail(toDb[g]) /\ \A h \in Servers : h # g => toDb'[h] = toDb[h]
    BY <1>1, <1>2 DEF saveToClose, Typed
  <2>3. Elems(Tail(toDb[g])) \subseteq Elems(toDb[g]) /\ (ordered(toDb[g]) => ordered(Tail(toDb[g])))
    BY <2>1, TailQueue
  <2>4. \A h \in Servers : /\ Elems(toDb'[h]) \subseteq Elems(toDb[h])
                           /\ ordered(toDb[h]) => ordered(toDb'[h])
    BY <2>2, <2>3
  <2> QED
    BY <1>1, <2>1, <2>4, Kept
<1>3. ASSUME NEW d \in Databases, stopDatabase(d) PROVE OrderInv'
  BY <1>1, <1>3, Kept DEF stopDatabase
<1>4. ASSUME NEW t \in Threads, stopThread(t) PROVE OrderInv'
  <2>1. \A u \in Threads : thread'[u]._task = thread[u]._task /\ thread'[u].at = thread[u].at
    BY <1>1, <1>4 DEF stopThread, Typed
  <2>2. UNCHANGED <<row, version, _works, toDb>>
    BY <1>4 DEF stopThread
  <2> QED
    BY <1>1, <2>1, <2>2, Kept
<1>5. CASE run
  <2> DEFINE r == Head(_results)
             m == [r EXCEPT !.kind = "deals"]
  <2>1. r \in Result
    BY <1>1, <1>5 DEF run, Typed
  <2>2. callback(r) /\ UNCHANGED <<row, version, toDb, thread>>
    BY <1>5 DEF run
  <2> HIDE DEF r
  <2>3. m \in Message /\ m.kind = "deals" /\ (r.kind = "query" => threadFor(r) = threadFor(m))
    BY <2>1 DEF Result, Message, Other, threadFor
  <2>4. UNCHANGED _works \/ _works' = addSQueryTask(threadFor(m), m)
    BY <2>2, <2>3 DEF callback
  <2> HIDE DEF m
  <2>5. CASE UNCHANGED _works
    BY <1>1, <2>2, <2>5, Kept
  <2>6. CASE _works' = addSQueryTask(threadFor(m), m)
    <3>1. /\ threadFor(m) # Saver /\ threadFor(m) \in Threads
          /\ \A t \in Threads : t # threadFor(m) => _works'[t] = _works[t]
          /\ \A n \in Elems(_works'[threadFor(m)]) : n \in Elems(_works[threadFor(m)]) \/ n = m
      BY <1>1, <2>3, <2>6, TaskQueued, Names
    <3>2. OneSaver'
      <4> SUFFICES ASSUME NEW t \in Threads, NEW n \in Elems(_works'[t])
                   PROVE  n.kind = "save" <=> t = Saver
        BY <1>1, <2>2 DEF OneSaver
      <4>1. n \in Elems(_works[t]) \/ (t = threadFor(m) /\ n = m)
        BY <3>1
      <4> QED
        BY <1>1, <2>3, <3>1, <4>1 DEF OneSaver
    <3>3. _works'[Saver] = _works[Saver]
      BY <3>1, Names
    <3>4. OwnMessages'
      BY <1>1, <2>2 DEF OwnMessages
    <3>5. ASSUME NEW n PROVE fits(n)' <=> fits(n)
      BY <2>2 DEF fits
    <3>6. InOrder'
      BY <1>1, <2>2, <3>3, <3>5 DEF InOrder
    <3> QED
      BY <1>1, <3>2, <3>4, <3>6 DEF OrderInv
  <2> QED
    BY <2>4, <2>5, <2>6
<1>6. CASE onSaveToClose
  BY <1>1, <1>6, Kept DEF onSaveToClose
<1>7. CASE signalStop
  BY <1>1, <1>7, Kept DEF signalStop
<1>8. CASE checkDbStop
  BY <1>1, <1>8, Kept DEF checkDbStop
<1> QED
  BY <1>2, <1>3, <1>4, <1>5, <1>6, <1>7, <1>8, TaskOrder DEF main

\* A thread goes on to its next task, executes the one it has, or both: the row of the heroes
\* takes the version of the save, which is not older than the one before it.
LEMMA Worked ==
  ASSUME OrderInv, Typed', OneSaver', UNCHANGED <<version, toDb>>,
         NEW K, K = thread[Saver]._task, NEW L, L = thread'[Saver]._task,
         NEW W, W = Elems(_works[Saver]),
         L = K \/ L = NoTask \/ L \in W,
         ordered(_works'[Saver]),
         \A n \in Elems(_works'[Saver]) : n \in W /\ notAfter(L, n),
         row' = row \/ row' = effect(K)
  PROVE  OrderInv' /\ \A g \in Servers : row[g] <= row'[g]
<1>1. Typed /\ InOrder /\ OwnMessages /\ OneSaver
  BY DEF OrderInv
<1>2. OwnMessages'
  BY <1>1 DEF OwnMessages
<1>3. /\ fits(K) /\ (\A n \in W : fits(n) /\ notAfter(K, n))
      /\ \A g \in Servers : \A n \in Elems(toDb[g]) :
           fits(n) /\ notAfter(K, n) /\ \A m \in W : notAfter(m, n)
  BY <1>1 DEF InOrder
<1>4. K \in Message \/ K = NoTask
  BY <1>1, Names DEF Typed, Thread
<1>5. /\ W \subseteq Message /\ \A g \in Servers : Elems(toDb[g]) \subseteq Message
  BY <1>1, Names, ElemsTyped DEF Typed
<1>6. ASSUME NEW n \in Message, fits(n), notAfter(K, n) PROVE fits(n)'
  <2> SUFFICES ASSUME n.kind = "save" PROVE row'[n.gs] <= n.ver /\ n.ver <= version[n.gs]
    BY DEF fits
  <2>1. n.gs \in Servers /\ row[n.gs] <= n.ver /\ n.ver <= version[n.gs]
    BY <1>6, MessageKinds DEF fits
  <2>2. CASE K.kind = "save" /\ K.gs = n.gs
    <3>1. K.ver <= n.ver
      BY <1>6, <2>2 DEF notAfter
    <3>2. row'[n.gs] = row[n.gs] \/ row'[n.gs] = K.ver
      BY <1>1, <2>1, <2>2 DEF effect, Typed
    <3> QED
      BY <2>1, <3>1, <3>2
  <2>3. CASE ~(K.kind = "save" /\ K.gs = n.gs)
    <3>1. row'[n.gs] = row[n.gs]
      BY <1>1, <2>1, <2>3 DEF effect, Typed
    <3> QED
      BY <2>1, <3>1
  <2> QED
    BY <2>2, <2>3
<1>7. K \in Message => fits(K)'
  <2> SUFFICES ASSUME K \in Message PROVE fits(K)'
    OBVIOUS
  <2>1. K.kind = "save" => K.ver \in Nat
    BY MessageKinds
  <2>2. notAfter(K, K)
    BY <2>1 DEF notAfter
  <2> QED
    BY <1>3, <1>6, <2>2
<1>8. fits(NoTask)'
  BY MessageKinds DEF fits
<1>9. fits(L)'
  BY <1>3, <1>4, <1>5, <1>6, <1>7, <1>8
<1>10. ASSUME NEW g \in Servers PROVE row[g] <= row'[g] /\ row'[g] <= version'[g]
  <2>1. row[g] \in Nat /\ row[g] <= version[g]
    BY <1>1 DEF Typed, InOrder
  <2>2. CASE K.kind = "save" /\ K.gs = g
    <3>1. row[g] <= K.ver /\ K.ver <= version[g]
      BY <1>3, <2>2 DEF fits
    <3>2. row'[g] = row[g] \/ row'[g] = K.ver
      BY <1>1, <2>2 DEF effect, Typed
    <3> QED
      BY <2>1, <3>1, <3>2
  <2>3. CASE ~(K.kind = "save" /\ K.gs = g)
    <3>1. row'[g] = row[g]
      BY <1>1, <2>3 DEF effect, Typed
    <3> QED
      BY <2>1, <3>1
  <2> QED
    BY <2>2, <2>3
<1>11. \A n \in Elems(_works'[Saver]) : fits(n)' /\ notAfter(L, n)
  BY <1>3, <1>5, <1>6
<1>12. ASSUME NEW g \in Servers, NEW n \in Elems(toDb[g])
       PROVE  fits(n)' /\ notAfter(L, n) /\ \A m \in Elems(_works'[Saver]) : notAfter(m, n)
  <2>1. fits(n)' /\ \A m \in Elems(_works'[Saver]) : notAfter(m, n)
    BY <1>3, <1>5, <1>6, <1>12
  <2>2. notAfter(NoTask, n)
    BY MessageKinds DEF notAfter
  <2>3. notAfter(L, n)
    BY <1>3, <1>12, <2>2
  <2> QED
    BY <2>1, <2>3
<1>13. \A g \in Servers : ordered(toDb[g])
  BY <1>1 DEF InOrder
<1>14. InOrder'
  BY <1>9, <1>10, <1>11, <1>12, <1>13 DEF InOrder
<1> QED
  BY <1>2, <1>10, <1>14 DEF OrderInv

\* The steps of a thread keep the order, and put no older version back.
LEMMA WorkOrder ==
  ASSUME OrderInv, NEW t \in Threads, work(t)
  PROVE  OrderInv' /\ \A g \in Servers : row[g] <= row'[g]
<1> USE DEF gameVars, linkVars, mainVars, threadVars
<1>1. Typed /\ InOrder /\ OwnMessages /\ OneSaver /\ Saver \in Threads
  BY Names DEF OrderInv
<1>2. thread[t].at \in {"taken", "task"} => thread[t]._task # NoTask
  BY <1>1 DEF OneSaver
<1>3. Typed'
  BY <1>1, <1>2, WorkTyped
<1> DEFINE K == thread[Saver]._task
           L == thread'[Saver]._task
           q == _works[t]
<1>4. /\ q \in Seq(Message) /\ _works[Saver] \in Seq(Message) /\ ordered(_works[Saver])
      /\ \A n \in Elems(_works[Saver]) : notAfter(K, n)
  BY <1>1 DEF Typed, InOrder
<1>5. /\ thread \in [Threads -> Thread] /\ thread[t] \in Thread
      /\ \A m \in Elems(q) : m.kind = "save" <=> t = Saver
  BY <1>1, ThreadTyped DEF OneSaver
<1>6. \A g \in Servers : row[g] <= row[g]
  BY <1>1 DEF Typed
<1>7. CASE connetDatabase(t) \/ assign(t) \/ endThread(t)
  <2>1. \A u \in Threads : /\ thread'[u]._task = thread[u]._task
                           /\ thread'[u].at \in {"taken", "task"} => thread[u].at \in {"taken", "task"}
    BY <1>5, <1>7 DEF connetDatabase, assign, endThread, Thread
  <2>2. UNCHANGED <<row, version, _works, toDb>>
    BY <1>7 DEF connetDatabase, assign, endThread
  <2> QED
    BY <1>3, <1>6, <2>1, <2>2, Kept
<1>8. ASSUME q # <<>>, \A u \in Threads : u # t => thread'[u] = thread[u] /\ _works'[u] = _works[u],
             thread'[t]._task = Head(q), _works'[t] = Tail(q),
             UNCHANGED <<version, toDb>>,
             row' = row \/ row' = effect(thread[t]._task)
      PROVE  OrderInv' /\ \A g \in Servers : row[g] <= row'[g]
  <2>1. /\ Elems(q) = {Head(q)} \cup Elems(Tail(q)) /\ Head(q) \in Message
        /\ ordered(q) => ordered(Tail(q)) /\ \A n \in Elems(Tail(q)) : notAfter(Head(q), n)
    BY <1>4, <1>8, TailQueue
  <2>2. OneSaver'
    <3> SUFFICES ASSUME NEW u \in Threads
                 PROVE  /\ \A m \in Elems(_works'[u]) : m.kind = "save" <=> u = Saver
                        /\ thread'[u]._task # NoTask => (thread'[u]._task.kind = "save" <=> u = Saver)
                        /\ thread'[u].at \in {"taken", "task"} => thread'[u]._task # NoTask
      BY DEF OneSaver
    <3>1. CASE u = t
      BY <1>5, <1>8, <2>1, <3>1, MessageKinds
    <3>2. CASE u # t
      BY <1>1, <1>8, <3>2 DEF OneSaver
    <3> QED
      BY <3>1, <3>2
  <2>3. CASE t = Saver
    <3>1. /\ L \in Elems(_works[Saver]) /\ ordered(_works'[Saver])
          /\ \A n \in Elems(_works'[Saver]) : n \in Elems(_works[Saver]) /\ notAfter(L, n)
          /\ row' = row \/ row' = effect(K)
      BY <1>4, <1>8, <2>1, <2>3
    <3> HIDE DEF K, L
    <3> QED
      BY <1>3, <1>8, <2>2, <3>1, Worked DEF K, L
  <2>4. CASE t # Saver
    <3>1. L = K /\ _works'[Saver] = _works[Saver]
      BY <1>1, <1>8, <2>4
    <3>2. row' = row
      <4>1. thread[t]._task.kind # "save"
        BY <1>1, <2>4, MessageKinds DEF OneSaver
      <4> QED
        BY <1>8, <4>1 DEF effect
    <3> HIDE DEF K, L
    <3> QED
      BY <1>3, <1>4, <1>8, <2>2, <3>1, <3>2, Worked DEF K, L
  <2> QED
    BY <2>3, <2>4
<1>9. ASSUME \A u \in Threads : u # t => thread'[u] = thread[u],
             \/ thread'[t]._task = NoTask /\ thread'[t].at = "idle"
             \/ thread'[t]._task = thread[t]._task /\ thread'[t].at = thread[t].at,
             UNCHANGED <<_works, version, toDb>>,
             row' = row \/ row' = effect(thread[t]._task)
      PROVE  OrderInv' /\ \A g \in Servers : row[g] <= row'[g]
  <2>1. OneSaver'
    <3> SUFFICES ASSUME NEW u \in Threads
                 PROVE  /\ \A m \in Elems(_works'[u]) : m.kind = "save" <=> u = Saver
                        /\ thread'[u]._task # NoTask => (thread'[u]._task.kind = "save" <=> u = Saver)
                        /\ thread'[u].at \in {"taken", "task"} => thread'[u]._task # NoTask
      BY DEF OneSaver
    <3>1. CASE u = t
      BY <1>1, <1>9, <3>1 DEF OneSaver
    <3>2. CASE u # t
      BY <1>1, <1>9, <3>2 DEF OneSaver
    <3> QED
      BY <3>1, <3>2
  <2>2. L = K \/ L = NoTask
    BY <1>1, <1>9
  <2>3. row' = row \/ row' = effect(K)
    <3>1. CASE t = Saver
      BY <1>9, <3>1
    <3>2. CASE t # Saver
      <4>1. thread[t]._task.kind # "save"
        BY <1>1, <3>2, MessageKinds DEF OneSaver
      <4> QED
        BY <1>9, <4>1 DEF effect
    <3> QED
      BY <3>1, <3>2
  <2>4. \A n \in Elems(_works[Saver]) : notAfter(L, n)
    <3>1. \A n : notAfter(NoTask, n)
      BY MessageKinds DEF notAfter
    <3> QED
      BY <1>4, <2>2, <3>1
  <2> HIDE DEF K, L
  <2> QED
    BY <1>3, <1>4, <1>9, <2>1, <2>2, <2>3, <2>4, Worked DEF K, L
<1>10. CASE getTask(t)
  <2>1. /\ q # <<>> /\ UNCHANGED <<version, toDb, row>>
        /\ \A u \in Threads : u # t => thread'[u] = thread[u] /\ _works'[u] = _works[u]
        /\ thread'[t]._task = Head(q) /\ _works'[t] = Tail(q)
    BY <1>1, <1>5, <1>10 DEF getTask, Typed, Thread
  <2> QED
    BY <1>8, <2>1
<1>11. CASE execute(t)
  <2>1. /\ UNCHANGED <<version, toDb>> /\ row' = effect(thread[t]._task)
        /\ \A u \in Threads : u # t => thread'[u] = thread[u]
    BY <1>1, <1>11 DEF execute, Typed
  <2>2. CASE q # <<>>
    <3>1. /\ \A u \in Threads : u # t => _works'[u] = _works[u]
          /\ thread'[t]._task = Head(q) /\ _works'[t] = Tail(q)
      BY <1>1, <1>5, <1>11, <2>2 DEF execute, Typed, Thread
    <3> QED
      BY <1>8, <2>1, <2>2, <3>1
  <2>3. CASE q = <<>>
    <3>1. UNCHANGED _works /\ thread'[t]._task = NoTask /\ thread'[t].at = "idle"
      BY <1>1, <1>5, <1>11, <2>3 DEF execute, Typed, Thread
    <3> QED
      BY <1>9, <2>1, <3>1
  <2> QED
    BY <2>2, <2>3
<1>12. CASE connectionLost(t)
  <2>1. /\ UNCHANGED <<_works, version, toDb>> /\ (row' = row \/ row' = effect(thread[t]._task))
        /\ \A u \in Threads : u # t => thread'[u] = thread[u]
        /\ thread'[t]._task = thread[t]._task /\ thread'[t].at = thread[t].at
    BY <1>5, <1>12 DEF connectionLost, Thread
  <2> QED
    BY <1>9, <2>1
<1>13. CASE badQuery(t)
  <2>1. /\ UNCHANGED <<_works, version, toDb, row>>
        /\ \A u \in Threads : u # t => thread'[u] = thread[u]
        /\ thread'[t]._task = NoTask /\ thread'[t].at = "idle"
    BY <1>5, <1>13 DEF badQuery, Thread
  <2> QED
    BY <1>9, <2>1
<1> QED
  BY <1>7, <1>10, <1>11, <1>12, <1>13 DEF work

\* Every step keeps the order, and the row of a game server's heroes never goes back.
LEMMA OrderStep ==
  ASSUME OrderInv, [Next]_vars
  PROVE  OrderInv' /\ \A g \in Servers : row[g] <= row'[g]
<1> USE DEF gameVars, linkVars, mainVars, threadVars
<1>1. row \in [Servers -> Nat]
  BY DEF OrderInv, Typed
<1>2. ASSUME NEW g \in Servers, game(g) PROVE UNCHANGED row
  BY <1>2 DEF game, change, send, setStop, clientMessage, checkStop, loss
<1>3. CASE main
  <2>1. UNCHANGED row
    BY <1>3 DEF main, task, saveToClose, stopDatabase, stopThread, run, onSaveToClose,
                signalStop, checkDbStop
  <2> QED
    BY <1>1, <1>3, <2>1, MainOrder
<1>4. CASE UNCHANGED vars
  <2>1. UNCHANGED <<row, version, _works, thread, toDb>> /\ Typed'
    BY <1>4 DEF vars, OrderInv, Typed
  <2> QED
    BY <1>1, <2>1, Kept
<1> QED
  BY <1>1, <1>2, <1>3, <1>4, GameOrder, WorkOrder DEF Next

\* The saves of a game server's heroes stay in order from the memory to the row, whatever
\* connections break and whatever MySQL refuses.
THEOREM OrderInvariant == Spec => []OrderInv
<1>1. OrderInv /\ [Next]_vars => OrderInv'
  BY OrderStep
<1> QED
  BY <1>1, InitOrder, PTL DEF Spec

\* A save never puts back an older version of the heroes: one thread executes the saves in
\* their order, and a save that is tried again after error 2006 or 2013 is the last one
\* (db_thread::work, connetDatabase), for any number of game servers, saves and errors.
THEOREM RowsNeverBack == Spec => RowsForward
<1>1. OrderInv /\ [Next]_vars => [\A g \in DOMAIN row : row'[g] >= row[g]]_vars
  <2> SUFFICES ASSUME OrderInv, [Next]_vars, NEW g \in DOMAIN row PROVE row'[g] >= row[g]
    OBVIOUS
  <2>1. DOMAIN row = Servers /\ row[g] \in Nat /\ row'[g] \in Nat /\ row[g] <= row'[g]
    BY OrderStep DEF OrderInv, Typed
  <2> QED
    BY <2>1
<1> QED
  BY <1>1, OrderInvariant, PTL DEF Spec, RowsForward

-----------------------------------------------------------------------------
(* The end of the threads *)

\* The initial states
LEMMA InitEnds == Init => Ends
  BY DEF Init, Ends, Working, Joined, Databases, Threads, _father

\* A Database that is to stop takes no task: the queues of a thread that is told to stop, and
\* of the threads beside it, stay empty.
LEMMA QueuesStay ==
  ASSUME OrderInv, Ends, NEW m \in Message, UNCHANGED <<thread, _obj_state>>,
         _works' = _works \/ _works' = addSQueryTask(threadFor(m), m)
  PROVE  Ends'
<1>1. Typed
  BY DEF OrderInv
<1>2. ASSUME NEW t \in Threads PROVE Working(t)' /\ Joined(t)'
  <2>1. Working(t) /\ Joined(t)
    BY DEF Ends
  <2>2. Working(t)'
    BY <2>1 DEF Working
  <2>3. ASSUME thread[t]._stop, NEW u \in Threads, _father(u) = _father(t)
        PROVE  _works'[u] = <<>>
    <3>1. _works[u] = <<>> /\ _obj_state[_father(u)] # "_run_obj_"
      BY <2>1, <2>3 DEF Joined
    <3>2. CASE _works' = _works
      BY <3>1, <3>2
    <3>3. CASE _works' # _works
      <4>1. /\ \A v \in Threads : v # threadFor(m) => _works'[v] = _works[v]
            /\ _obj_state[_father(threadFor(m))] = "_run_obj_"
        BY <1>1, <3>3, TaskQueued
      <4> QED
        BY <2>3, <3>1, <4>1
    <3> QED
      BY <3>2, <3>3
  <2>4. Joined(t)'
    BY <2>1, <2>3 DEF Joined
  <2> QED
    BY <2>2, <2>4
<1> QED
  BY <1>2 DEF Ends

\* The steps of the main thread: stopThread and stopDatabase look at what the invariant is of.
LEMMA MainEnds ==
  ASSUME OrderInv, Ends, main
  PROVE  Ends'
<1> USE DEF gameVars, linkVars, mainVars, threadVars
<1>1. Typed
  BY DEF OrderInv
<1>2. CASE UNCHANGED <<thread, _obj_state, _works>>
  BY <1>2 DEF Ends, Working, Joined
<1>3. ASSUME NEW g \in Servers, task(g) PROVE Ends'
  <2> DEFINE m == Head(toDb[g])
  <2>1. m \in Message
    BY <1>1, <1>3, TailQueue DEF task, Typed
  <2>2. UNCHANGED <<thread, _obj_state>> /\ _works' = addSQueryTask(threadFor(m), m)
    BY <1>3 DEF task
  <2> HIDE DEF m
  <2> QED
    BY <2>1, <2>2, QueuesStay
<1>4. CASE run
  <2> DEFINE r == Head(_results)
             m == [r EXCEPT !.kind = "deals"]
  <2>1. r \in Result
    BY <1>1, <1>4 DEF run, Typed
  <2>2. callback(r) /\ UNCHANGED <<_obj_state, thread>>
    BY <1>4 DEF run
  <2> HIDE DEF r
  <2>3. m \in Message /\ (r.kind = "query" => threadFor(r) = threadFor(m))
    BY <2>1 DEF Result, Message, Other, threadFor
  <2>4. _works' = _works \/ _works' = addSQueryTask(threadFor(m), m)
    BY <2>2, <2>3 DEF callback
  <2> HIDE DEF m
  <2> QED
    BY <2>2, <2>3, <2>4, QueuesStay
<1>5. CASE onSaveToClose
  <2>1. \A t \in Threads : _obj_state'[_father(t)] = "_wait_stop_"
    BY <1>5, Names DEF onSaveToClose
  <2>2. UNCHANGED <<thread, _works>>
    BY <1>5 DEF onSaveToClose
  <2> QED
    BY <2>1, <2>2 DEF Ends, Working, Joined
<1>6. ASSUME NEW s \in Threads, stopThread(s) PROVE Ends'
  <2>1. /\ UNCHANGED <<_works, _obj_state>>
        /\ \A t \in Threads : t # s => thread'[t] = thread[t]
        /\ thread'[s] = [thread[s] EXCEPT !._stop = TRUE]
        /\ thread[s] \in Thread
    BY <1>1, <1>6, ThreadTyped DEF stopThread, Typed
  <2>2. /\ thread'[s].at = thread[s].at /\ thread'[s]._task = thread[s]._task
        /\ thread'[s]._connect = thread[s]._connect /\ thread'[s]._stop
    BY <2>1 DEF Thread
  <2>3. /\ _obj_state[_father(s)] = "_wait_stop_"
        /\ \A u \in Threads : _father(u) = _father(s) => _works[u] = <<>>
        /\ thread[s]._task = NoTask \/ thread[s].at = "taken"
    BY <1>6 DEF stopThread
  <2>4. ASSUME NEW t \in Threads PROVE Working(t)' /\ Joined(t)'
    <3>1. Working(t) /\ Joined(t)
      BY DEF Ends
    <3>2. CASE t = s
      BY <2>1, <2>2, <2>3, <3>1, <3>2 DEF Working, Joined
    <3>3. CASE t # s
      BY <2>1, <3>1, <3>3 DEF Working, Joined
    <3> QED
      BY <3>2, <3>3
  <2> QED
    BY <2>4 DEF Ends
<1>7. ASSUME NEW d \in Databases, stopDatabase(d) PROVE Ends'
  <2>1. /\ UNCHANGED <<thread, _works>>
        /\ \A e \in Databases : e # d => _obj_state'[e] = _obj_state[e]
        /\ _obj_state'[d] = "_stop_obj_"
        /\ \A t \in Threads : _father(t) = d => thread[t]._stop /\ thread[t].at = "end"
    BY <1>1, <1>7 DEF stopDatabase, mainRuns, Typed
  <2>2. ASSUME NEW t \in Threads PROVE Working(t)' /\ Joined(t)'
    <3>1. Working(t) /\ Joined(t)
      BY DEF Ends
    <3>2. Working(t)'
      BY <2>1, <3>1 DEF Working
    <3>3. Joined(t)'
      BY <2>1, <3>1, Names DEF Joined
    <3> QED
      BY <3>2, <3>3
  <2> QED
    BY <2>2 DEF Ends
<1> QED
  BY <1>2, <1>3, <1>4, <1>5, <1>6, <1>7 DEF main, saveToClose, signalStop, checkDbStop

\* The steps of a thread: a thread that is told to stop takes no new task.
LEMMA WorkEnds ==
  ASSUME AtomicTake \/ MaxErrors = 0, OrderInv, Ends, NEW s \in Threads, work(s)
  PROVE  Ends'
<1> USE DEF gameVars, linkVars, mainVars, threadVars
<1>1. Typed /\ thread[s] \in Thread /\ thread \in [Threads -> Thread] /\ Working(s) /\ Joined(s)
  BY ThreadTyped DEF OrderInv, Ends
<1>2. UNCHANGED _obj_state /\ \A t \in Threads : t # s => thread'[t] = thread[t] /\ _works'[t] = _works[t]
  BY <1>1 DEF work, connetDatabase, getTask, assign, execute, connectionLost, badQuery, endThread, Typed
<1>3. thread'[s]._stop = thread[s]._stop
  BY <1>1 DEF work, connetDatabase, getTask, assign, execute, connectionLost, badQuery, endThread, Thread
<1>4. _works[s] = <<>> => _works'[s] = <<>>
  BY <1>1 DEF work, connetDatabase, getTask, assign, execute, connectionLost, badQuery, endThread, Typed
<1>5. thread[s].at # "end"
  BY <1>1 DEF work, connetDatabase, getTask, assign, execute, connectionLost, badQuery, endThread
<1>6. MaxErrors = 0 => ~(connectionLost(s) \/ badQuery(s))
  BY <1>1 DEF connectionLost, badQuery, Typed
<1>7. Working(s)'
  <2>1. CASE connetDatabase(s)
    BY <1>1, <2>1 DEF connetDatabase, Working, Thread
  <2>2. CASE getTask(s)
    <3>1. thread'[s] = [thread[s] EXCEPT !.at = IF AtomicTake THEN "task" ELSE "taken",
                                         !._task = Head(_works[s])]
      BY <1>1, <2>2 DEF getTask
    <3>2. /\ thread'[s].at = (IF AtomicTake THEN "task" ELSE "taken")
          /\ thread'[s]._task = Head(_works[s]) /\ thread'[s]._connect = thread[s]._connect
      BY <1>1, <3>1 DEF Thread
    <3>3. Head(_works[s]) \in Message
      BY <1>1, <2>2, TailQueue DEF getTask, Typed
    <3>4. ~thread[s]._stop
      BY <1>1, <2>2 DEF getTask, Joined
    <3> QED
      BY <1>1, <1>3, <3>2, <3>3, <3>4, MessageKinds DEF Working
  <2>3. CASE assign(s)
    BY <1>1, <2>3 DEF assign, Working, Thread
  <2>4. CASE execute(s)
    <3>1. /\ thread'[s].at = (IF _works[s] # <<>> THEN "task" ELSE "idle")
          /\ thread'[s]._task = (IF _works[s] # <<>> THEN Head(_works[s]) ELSE NoTask)
          /\ thread'[s]._connect = thread[s]._connect
      BY <1>1, <2>4 DEF execute, Thread
    <3>2. _works[s] # <<>> => Head(_works[s]) \in Message /\ ~thread[s]._stop
      BY <1>1, TailQueue DEF Typed, Joined
    <3> QED
      BY <1>1, <1>3, <3>1, <3>2, MessageKinds DEF Working
  <2>5. CASE connectionLost(s)
    <3>1. thread'[s].at = thread[s].at /\ thread'[s]._task = thread[s]._task
      BY <1>1, <2>5 DEF connectionLost, Thread
    <3> QED
      BY <1>1, <1>3, <1>6, <2>5, <3>1 DEF Working
  <2>6. CASE badQuery(s)
    <3>1. thread'[s].at = "idle" /\ thread'[s]._task = NoTask
      BY <1>1, <2>6 DEF badQuery, Thread
    <3> QED
      BY <1>1, <1>3, <1>6, <2>6, <3>1 DEF Working
  <2>7. CASE endThread(s)
    <3>1. /\ thread'[s].at = "end" /\ thread'[s]._task = thread[s]._task
          /\ thread'[s]._connect = thread[s]._connect
      BY <1>1, <2>7 DEF endThread, Thread
    <3>2. thread[s]._task = NoTask
      BY <1>1, <2>7 DEF endThread, Working
    <3> QED
      BY <1>1, <3>1, <3>2 DEF Working
  <2> QED
    BY <2>1, <2>2, <2>3, <2>4, <2>5, <2>6, <2>7 DEF work
<1>8. ASSUME NEW t \in Threads PROVE Working(t)' /\ Joined(t)'
  <2>1. Working(t) /\ Joined(t)
    BY DEF Ends
  <2>2. \A u \in Threads : _works[u] = <<>> => _works'[u] = <<>>
    BY <1>2, <1>4
  <2>3. CASE t = s
    BY <1>1, <1>2, <1>3, <1>5, <1>7, <2>2, <2>3 DEF Joined
  <2>4. CASE t # s
    BY <1>2, <2>1, <2>2, <2>4 DEF Joined, Working
  <2> QED
    BY <2>3, <2>4
<1> QED
  BY <1>8 DEF Ends

\* Every step keeps the invariant of the threads.
LEMMA EndsStep ==
  ASSUME AtomicTake \/ MaxErrors = 0, OrderInv, Ends, [Next]_vars
  PROVE  Ends'
<1> USE DEF gameVars, linkVars, mainVars, threadVars
<1>1. ASSUME NEW g \in Servers, game(g) PROVE UNCHANGED <<thread, _obj_state, _works>>
  BY <1>1 DEF game, change, send, setStop, clientMessage, checkStop, loss
<1>2. CASE UNCHANGED <<thread, _obj_state, _works>>
  BY <1>2 DEF Ends, Working, Joined
<1> QED
  BY <1>1, <1>2, MainEnds, WorkEnds DEF Next, vars

\* The tasks are done when their Database has stopped.
LEMMA EndsDone == Ends => QueuesDone
  BY DEF Ends, Working, Joined, QueuesDone

\* Every task that a Database has accepted is executed before the Database stops, although
\* Database::checkStop looks at the queues and at _task while the threads move tasks between
\* them: if taking a task and the assignment to _task are one step, or if MySQL has no error.
THEOREM NoTaskLost ==
  ASSUME AtomicTake \/ MaxErrors = 0
  PROVE  Spec => []QueuesDone
<1>1. OrderInv /\ Ends /\ [Next]_vars => Ends'
  BY EndsStep
<1> QED
  BY <1>1, OrderInvariant, InitEnds, EndsDone, PTL DEF Spec

-----------------------------------------------------------------------------
(* What is saved when the servers have stopped *)

\* The initial states
LEMMA InitAsked == Init => Asked /\ SignalInv /\ LastSave
<1> SUFFICES ASSUME Init PROVE Asked /\ SignalInv /\ LastSave
  OBVIOUS
<1>1. /\ \A g \in Servers : toDb[g] = <<>> /\ toGs[g] = <<>> /\ gs[g] = "run"
                            /\ ~_save_all_heroes_ok[g]
      /\ _close_gs_id = {} /\ closing = "none" /\ ~_receive_cose_msg /\ ~_stop
      /\ \A d \in Databases : _obj_state[d] = "_run_obj_"
  BY DEF Init
<1>2. \A v : saveFirst(<<>>, v)
  BY DEF saveFirst
<1>3. Asked
  BY <1>1, EmptyQueue DEF Asked, Stops, Asks
<1> QED
  BY <1>1, <1>2, <1>3 DEF SignalInv, LastSave

\* Requests of a game server: who has not been signalled has not asked, and who is answered
\* has been the first to ask.
LEMMA GameAsked ==
  ASSUME OrderInv, Asked, NEW g \in Servers, game(g)
  PROVE  Asked'
<1> USE DEF gameVars, linkVars, mainVars, threadVars
<1>1. Typed /\ Stops /\ Asks(g)
  BY DEF OrderInv, Asked
<1>2. UNCHANGED <<mainVars, _obj_state>>
  BY DEF game, change, send, setStop, clientMessage, checkStop, loss
<1>3. Stops'
  BY <1>1, <1>2 DEF Stops
<1>4. \A h \in Servers : h # g => /\ gs'[h] = gs[h] /\ toDb'[h] = toDb[h] /\ toGs'[h] = toGs[h]
                                  /\ _save_all_heroes_ok'[h] = _save_all_heroes_ok[h]
  BY <1>1 DEF game, change, send, setStop, clientMessage, checkStop, loss, Typed
<1>5. Asks(g)'
  <2>1. CASE change(g)
    BY <1>1, <2>1 DEF change, Asks
  <2>2. CASE send(g)
    <3>1. PICK k \in Sends : toDb' = [toDb EXCEPT ![g] =
                 Append(@, IF k = "save" THEN save(g) ELSE [kind |-> k, gs |-> g])]
      BY <2>2 DEF send
    <3> DEFINE m == IF k = "save" THEN save(g) ELSE [kind |-> k, gs |-> g]
    <3>2. m.kind = k /\ k # "close" /\ m \in Message
      <4>1. k # "save" => [kind |-> k, gs |-> g] \in Other
        BY ServerStopConstants DEF Other
      <4> QED
        BY <1>1, <4>1, Sent, ServerStopConstants DEF Message
    <3>3. toDb'[g] = Append(toDb[g], m) /\ toDb[g] \in Seq(Message)
      BY <1>1, <3>1 DEF Typed
    <3> HIDE DEF m
    <3>4. Elems(toDb'[g]) = Elems(toDb[g]) \cup {m}
      BY <3>2, <3>3, AppendQueue
    <3> QED
      BY <1>1, <2>2, <3>2, <3>4 DEF send, Asks
  <2>3. CASE setStop(g)
    <3>1. gs'[g] = "wait_stop" /\ UNCHANGED <<_close_gs_id, _save_all_heroes_ok, toGs>>
      BY <1>1, <2>3 DEF setStop, Typed
    <3> QED
      BY <1>1, <3>1 DEF Asks
  <2>4. CASE clientMessage(g)
    <3>1. /\ toGs[g] \in Seq({"closing", "hero"}) /\ toGs[g] # <<>>
          /\ toGs'[g] = Tail(toGs[g])
          /\ _save_all_heroes_ok'[g] => _save_all_heroes_ok[g] \/ Head(toGs[g]) = "closing"
          /\ _save_all_heroes_ok[g] => _save_all_heroes_ok'[g]
          /\ UNCHANGED <<gs, toDb, _close_gs_id>>
      BY <1>1, <2>4 DEF clientMessage, Typed
    <3>2. Elems(toGs[g]) = {Head(toGs[g])} \cup Elems(Tail(toGs[g]))
      BY <3>1, TailQueue
    <3> QED
      BY <1>1, <3>1, <3>2 DEF Asks
  <2>5. CASE checkStop(g)
    <3>1. /\ gs'[g] = "stop" /\ _save_all_heroes_ok[g] /\ toGs'[g] = <<>>
          /\ UNCHANGED <<_close_gs_id, _save_all_heroes_ok>>
      BY <1>1, <2>5 DEF checkStop, Typed
    <3> QED
      BY <1>1, <3>1 DEF Asks
  <2>6. CASE loss(g)
    <3>1. toDb'[g] = <<>> /\ toGs'[g] = <<>> /\ UNCHANGED <<gs, _close_gs_id, _save_all_heroes_ok>>
      BY <1>1, <2>6 DEF loss, Typed
    <3> QED
      BY <1>1, <3>1, EmptyQueue DEF Asks
  <2> QED
    BY <2>1, <2>2, <2>3, <2>4, <2>5, <2>6 DEF game
<1>6. ASSUME NEW h \in Servers PROVE Asks(h)'
  <2>1. CASE h # g
    BY <1>2, <1>4, <1>6, <2>1 DEF Asks, Asked
  <2> QED
    BY <1>5, <2>1
<1> QED
  BY <1>3, <1>6 DEF Asked

\* The main thread answers the first request, and lets the Databases stop after its timer.
LEMMA MainAsked ==
  ASSUME OrderInv, Asked, main
  PROVE  Asked'
<1> USE DEF gameVars, linkVars, mainVars, threadVars
<1>1. Typed /\ Stops /\ ~_stop
  BY DEF OrderInv, Asked, main, task, saveToClose, stopDatabase, stopThread, run, onSaveToClose,
         signalStop, checkDbStop, mainRuns
<1>2. UNCHANGED <<gs, _save_all_heroes_ok>>
  BY DEF main, task, saveToClose, stopDatabase, stopThread, run, onSaveToClose, signalStop, checkDbStop
<1>3. ASSUME UNCHANGED <<_close_gs_id, toDb, toGs>> PROVE \A g \in Servers : Asks(g)'
  BY <1>2, <1>3 DEF Asked, Asks
<1>4. ASSUME NEW g \in Servers, task(g) PROVE Asked'
  <2>1. UNCHANGED <<toGs, _stop, _receive_cose_msg, closing, _close_gs_id, _obj_state>>
    BY <1>4 DEF task
  <2>2. /\ toDb[g] \in Seq(Message) /\ toDb[g] # <<>> /\ toDb'[g] = Tail(toDb[g])
        /\ \A h \in Servers : h # g => toDb'[h] = toDb[h]
    BY <1>1, <1>4 DEF task, Typed
  <2>3. Elems(Tail(toDb[g])) \subseteq Elems(toDb[g])
    BY <2>2, TailQueue
  <2>4. \A h \in Servers : Elems(toDb'[h]) \subseteq Elems(toDb[h])
    BY <2>2, <2>3
  <2>5. Stops'
    BY <1>1, <2>1 DEF Stops
  <2>6. \A h \in Servers : Asks(h)'
    BY <1>2, <2>1, <2>4 DEF Asked, Asks
  <2> QED
    BY <2>5, <2>6 DEF Asked
<1>5. ASSUME NEW g \in Servers, saveToClose(g) PROVE Asked'
  <2>1. /\ toDb[g] \in Seq(Message) /\ toDb[g] # <<>> /\ toDb'[g] = Tail(toDb[g])
        /\ \A h \in Servers : h # g => toDb'[h] = toDb[h]
        /\ UNCHANGED <<_obj_state, _stop>> /\ Head(toDb[g]).kind = "close"
    BY <1>1, <1>5 DEF saveToClose, Typed
  <2>2. Elems(toDb[g]) = {Head(toDb[g])} \cup Elems(Tail(toDb[g]))
    BY <2>1, TailQueue
  <2>3. \A h \in Servers : Elems(toDb'[h]) \subseteq Elems(toDb[h])
    BY <2>1, <2>2
  <2>4. CASE _receive_cose_msg
    <3>1. UNCHANGED <<closing, _close_gs_id, toGs, _receive_cose_msg>>
      BY <1>5, <2>4 DEF saveToClose
    <3>2. Stops'
      BY <1>1, <2>1, <3>1 DEF Stops
    <3>3. \A h \in Servers : Asks(h)'
      BY <1>2, <2>3, <3>1 DEF Asked, Asks
    <3> QED
      BY <3>2, <3>3 DEF Asked
  <2>5. CASE ~_receive_cose_msg
    <3>1. /\ closing' = "timer" /\ _close_gs_id' = {g} /\ _receive_cose_msg'
          /\ toGs' = IF gs[g] = "stop" THEN toGs ELSE [toGs EXCEPT ![g] = Append(@, "closing")]
      BY <1>5, <2>5 DEF saveToClose
    <3>2. _close_gs_id = {} /\ closing = "none"
      BY <1>1, <2>5 DEF Stops
    <3>3. Stops'
      BY <1>1, <2>1, <3>1, <3>2 DEF Stops
    <3>4. \A h \in Servers : h # g => toGs'[h] = toGs[h]
      BY <1>1, <3>1 DEF Typed
    <3>5. gs[g] # "run"
      BY <2>1, <2>2 DEF Asked, Asks
    <3>6. ASSUME NEW h \in Servers PROVE Asks(h)'
      <4>1. Asks(h)
        BY DEF Asked
      <4>2. CASE h = g
        BY <1>2, <3>1, <3>5, <4>1, <4>2 DEF Asks
      <4>3. CASE h # g
        BY <1>2, <2>3, <3>1, <3>2, <3>4, <4>1, <4>3 DEF Asks
      <4> QED
        BY <4>2, <4>3
    <3> QED
      BY <3>3, <3>6 DEF Asked
  <2> QED
    BY <2>4, <2>5
<1>6. ASSUME NEW d \in Databases, stopDatabase(d) PROVE Asked'
  <2>1. UNCHANGED <<toGs, toDb, _stop, _receive_cose_msg, closing, _close_gs_id>> /\ closing = "done"
    BY <1>1, <1>6 DEF stopDatabase, Stops
  <2>2. Stops'
    BY <1>1, <2>1 DEF Stops
  <2> QED
    BY <1>3, <2>1, <2>2 DEF Asked
<1>7. CASE run
  <2>1. UNCHANGED <<toDb, _stop, _receive_cose_msg, closing, _close_gs_id, _obj_state>>
    BY <1>7 DEF run
  <2> DEFINE r == Head(_results)
  <2>2. r \in Result /\ callback(r)
    BY <1>1, <1>7 DEF run, Typed
  <2> HIDE DEF r
  <2>3. r.gs \in Servers /\ (toGs' = toGs \/ toGs' = [toGs EXCEPT ![r.gs] = Append(@, "hero")])
    BY <2>2 DEF callback, Result
  <2>4. ASSUME NEW h \in Servers PROVE "closing" \in Elems(toGs'[h]) => "closing" \in Elems(toGs[h])
    <3>1. toGs[h] \in Seq({"closing", "hero"})
      BY <1>1 DEF Typed
    <3>2. toGs'[h] = toGs[h] \/ toGs'[h] = Append(toGs[h], "hero")
      BY <1>1, <2>3 DEF Typed
    <3>3. Elems(Append(toGs[h], "hero")) = Elems(toGs[h]) \cup {"hero"}
      BY <3>1, AppendQueue
    <3>4. "closing" \in Elems(Append(toGs[h], "hero")) => "closing" \in Elems(toGs[h])
      BY <3>3
    <3>5. CASE toGs'[h] = toGs[h]
      BY <3>5
    <3>6. CASE toGs'[h] = Append(toGs[h], "hero")
      BY <3>4, <3>6
    <3> QED
      BY <3>2, <3>5, <3>6
  <2>5. Stops'
    BY <1>1, <2>1 DEF Stops
  <2>6. \A h \in Servers : Asks(h)'
    BY <1>2, <2>1, <2>4 DEF Asked, Asks
  <2> QED
    BY <2>5, <2>6 DEF Asked
<1>8. CASE onSaveToClose
  <2>1. /\ UNCHANGED <<toGs, toDb, _stop, _receive_cose_msg, _close_gs_id>>
        /\ closing = "timer" /\ closing' = "done"
    BY <1>8 DEF onSaveToClose
  <2>2. Stops'
    BY <1>1, <2>1 DEF Stops
  <2> QED
    BY <1>3, <2>1, <2>2 DEF Asked
<1>9. CASE checkDbStop
  <2>1. /\ UNCHANGED <<toGs, toDb, _receive_cose_msg, closing, _close_gs_id, _obj_state>>
        /\ \A d \in Databases : _obj_state[d] = "_stop_obj_"
    BY <1>9 DEF checkDbStop
  <2>2. Stops'
    BY <1>1, <2>1 DEF Stops
  <2> QED
    BY <1>3, <2>1, <2>2 DEF Asked
<1>10. CASE UNCHANGED <<toGs, toDb, _stop, _receive_cose_msg, closing, _close_gs_id, _obj_state>>
  BY <1>1, <1>3, <1>10 DEF Asked, Stops
<1> QED
  BY <1>4, <1>5, <1>6, <1>7, <1>8, <1>9, <1>10 DEF main, stopThread, signalStop

\* Every step keeps what is known of the requests.
LEMMA AskedStep ==
  ASSUME OrderInv, Asked, [Next]_vars
  PROVE  Asked'
<1> USE DEF gameVars, linkVars, mainVars, threadVars
<1>1. ASSUME NEW t \in Threads, work(t)
      PROVE  UNCHANGED <<gs, _save_all_heroes_ok, toGs, toDb, _stop, _receive_cose_msg, closing,
                         _close_gs_id, _obj_state>>
  BY <1>1 DEF work, connetDatabase, getTask, assign, execute, connectionLost, badQuery, endThread
<1>2. CASE UNCHANGED <<gs, _save_all_heroes_ok, toGs, toDb, _stop, _receive_cose_msg, closing,
                       _close_gs_id, _obj_state>>
  BY <1>2 DEF Asked, Stops, Asks
<1> QED
  BY <1>1, <1>2, GameAsked, MainAsked DEF Next, vars

\* What is secured stays so: a save leaves the queue for the thread, and the thread for the row,
\* if MySQL refuses no save.
LEMMA SecuredStep ==
  ASSUME ~BadSaves, OrderInv, Ends, [Next]_vars, NEW g \in Servers, NEW v \in Nat, Secured(g, v)
  PROVE  Secured(g, v)'
<1> USE DEF gameVars, linkVars, mainVars, threadVars
<1>1. Typed /\ OneSaver /\ InOrder /\ Saver \in Threads
  BY Names DEF OrderInv
<1>2. row[g] \in Nat /\ row'[g] \in Nat /\ row[g] <= row'[g]
  BY OrderStep DEF OrderInv, Typed
<1>3. CASE row[g] >= v
  <2>1. row'[g] >= v
    BY <1>2, <1>3
  <2> QED
    BY <2>1 DEF Secured
<1> DEFINE K == thread[Saver]._task
           L == thread'[Saver]._task
           W == Elems(_works[Saver])
           X == Elems(_works'[Saver])
           good(m) == m.kind = "save" /\ m.gs = g /\ m.ver >= v
<1>4. ASSUME NEW m \in W \cup {K}, good(m) PROVE Secured(g, v)'
  <2>1. ASSUME m \in X \cup {L} PROVE Secured(g, v)'
    BY <1>4, <2>1 DEF Secured
  <2>2. ASSUME m = K, row' = effect(K) PROVE Secured(g, v)'
    <3>1. row'[g] = m.ver
      BY <1>1, <1>4, <2>2 DEF effect, Typed
    <3> QED
      BY <1>4, <3>1 DEF Secured
  <2>3. ASSUME _works'[Saver] = _works[Saver], L = K PROVE Secured(g, v)'
    BY <1>4, <2>1, <2>3
  <2>4. ASSUME NEW t \in Threads, t # Saver, work(t) PROVE Secured(g, v)'
    <3>1. _works'[Saver] = _works[Saver] /\ thread'[Saver] = thread[Saver]
      BY <1>1, <2>4 DEF work, connetDatabase, getTask, assign, execute, connectionLost, badQuery,
                        endThread, Typed
    <3> QED
      BY <2>3, <3>1
  <2>5. CASE work(Saver)
    <3> DEFINE q == _works[Saver]
    <3>1. q \in Seq(Message) /\ thread \in [Threads -> Thread] /\ thread[Saver] \in Thread
      BY <1>1, ThreadTyped DEF Typed
    <3>2. q # <<>> => W = {Head(q)} \cup Elems(Tail(q))
      BY <3>1, TailQueue
    <3>3. Working(Saver)
      BY <1>1 DEF Ends
    <3>4. CASE connetDatabase(Saver) \/ assign(Saver) \/ endThread(Saver) \/ connectionLost(Saver)
      <4>1. _works'[Saver] = _works[Saver] /\ L = K
        BY <3>1, <3>4 DEF connetDatabase, assign, endThread, connectionLost, Thread
      <4> QED
        BY <2>3, <4>1
    <3>5. CASE getTask(Saver)
      <4>1. q # <<>> /\ L = Head(q) /\ _works'[Saver] = Tail(q)
        BY <1>1, <3>1, <3>5 DEF getTask, Thread, Typed
      <4>2. K = NoTask
        BY <3>3, <3>5 DEF getTask, Working
      <4>3. m \in X \cup {L}
        BY <1>4, <3>2, <4>1, <4>2, MessageKinds
      <4> QED
        BY <2>1, <4>3
    <3>6. CASE execute(Saver)
      <4>1. row' = effect(K)
        BY <3>6 DEF execute
      <4>2. CASE q # <<>>
        <5>1. L = Head(q) /\ _works'[Saver] = Tail(q)
          BY <1>1, <3>1, <3>6, <4>2 DEF execute, Thread, Typed
        <5>2. m = K \/ m \in X \cup {L}
          BY <1>4, <3>2, <4>2, <5>1
        <5> QED
          BY <2>1, <2>2, <4>1, <5>2
      <4>3. CASE q = <<>>
        <5>1. m = K
          BY <1>4, <4>3, EmptyQueue
        <5> QED
          BY <2>2, <4>1, <5>1
      <4> QED
        BY <4>2, <4>3
    <3>7. CASE badQuery(Saver)
      <4>1. K.kind # "save" /\ _works'[Saver] = _works[Saver]
        BY <3>7 DEF badQuery
      <4>2. m \in X
        BY <1>4, <4>1
      <4> QED
        BY <2>1, <4>2
    <3> QED
      BY <2>5, <3>4, <3>5, <3>6, <3>7 DEF work
  <2>6. CASE UNCHANGED <<thread, _works>>
    BY <2>3, <2>6
  <2>7. ASSUME NEW n \in Message, UNCHANGED thread,
               _works' = _works \/ _works' = addSQueryTask(threadFor(n), n)
        PROVE  Secured(g, v)'
    <3>1. W \subseteq X
      <4>1. CASE _works'[Saver] = _works[Saver]
        BY <4>1
      <4>2. CASE _works'[Saver] # _works[Saver]
        <5>1. _works'[Saver] = Append(_works[Saver], n) /\ _works[Saver] \in Seq(Message)
          BY <1>1, <2>7, <4>2, TaskQueued DEF Typed
        <5>2. X = W \cup {n}
          BY <2>7, <5>1, AppendQueue
        <5> QED
          BY <5>2
      <4> QED
        BY <4>1, <4>2
    <3>2. m \in X \cup {L}
      BY <1>4, <2>7, <3>1
    <3> QED
      BY <2>1, <3>2
  <2>8. ASSUME NEW h \in Servers, task(h) PROVE Secured(g, v)'
    <3> DEFINE n == Head(toDb[h])
    <3>1. n \in Message
      BY <1>1, <2>8, TailQueue DEF task, Typed
    <3>2. UNCHANGED thread /\ _works' = addSQueryTask(threadFor(n), n)
      BY <2>8 DEF task
    <3> HIDE DEF n
    <3> QED
      BY <2>7, <3>1, <3>2
  <2>9. CASE run
    <3> DEFINE r == Head(_results)
               n == [r EXCEPT !.kind = "deals"]
    <3>1. r \in Result
      BY <1>1, <2>9 DEF run, Typed
    <3>2. callback(r) /\ UNCHANGED thread
      BY <2>9 DEF run
    <3> HIDE DEF r
    <3>3. n \in Message /\ (r.kind = "query" => threadFor(r) = threadFor(n))
      BY <3>1 DEF Result, Message, Other, threadFor
    <3>4. _works' = _works \/ _works' = addSQueryTask(threadFor(n), n)
      BY <3>2, <3>3 DEF callback
    <3> HIDE DEF n
    <3> QED
      BY <2>7, <3>2, <3>3, <3>4
  <2>10. ASSUME NEW t \in Threads, stopThread(t) PROVE Secured(g, v)'
    <3>1. _works' = _works /\ L = K
      BY <1>1, <2>10, ThreadTyped DEF stopThread, Thread
    <3> QED
      BY <2>3, <3>1
  <2>11. ASSUME NEW h \in Servers, game(h) PROVE UNCHANGED <<thread, _works>>
    BY <2>11 DEF game, change, send, setStop, clientMessage, checkStop, loss
  <2> QED
    BY <2>4, <2>5, <2>6, <2>8, <2>9, <2>10, <2>11
       DEF Next, main, vars, saveToClose, stopDatabase, onSaveToClose, signalStop, checkDbStop
<1> QED
  BY <1>3, <1>4 DEF Secured

\* A request to close that is first in a connection is behind no save ...
LEMMA FirstHead ==
  ASSUME NEW q \in Seq(Message), q # <<>>, NEW v, saveFirst(q, v)
  PROVE  Head(q).kind # "close"
<1>1. 1 \in DOMAIN q /\ Head(q) = q[1] /\ \A j \in DOMAIN q : ~(j < 1)
  OBVIOUS
<1> QED
  BY <1>1 DEF saveFirst

\* ... and what is taken before it is the save, or is not needed.
LEMMA FirstTail ==
  ASSUME NEW q \in Seq(Message), q # <<>>, NEW v \in Nat, saveFirst(q, v),
         ~(Head(q).kind = "save" /\ Head(q).ver >= v)
  PROVE  saveFirst(Tail(q), v)
<1> DEFINE r == Tail(q)
<1>1. /\ DOMAIN q = 1..Len(q) /\ Len(q) \in Nat \ {0} /\ DOMAIN r = 1..(Len(q) - 1)
      /\ \A i \in 1..(Len(q) - 1) : r[i] = q[i + 1]
      /\ Head(q) = q[1]
  OBVIOUS
<1> HIDE DEF r
<1>2. ASSUME NEW i \in DOMAIN r, r[i].kind = "close"
      PROVE  \E j \in DOMAIN r : j < i /\ r[j].kind = "save" /\ r[j].ver >= v
  <2>1. i + 1 \in DOMAIN q /\ q[i + 1].kind = "close" /\ i \in Nat
    BY <1>1, <1>2
  <2>2. PICK k \in DOMAIN q : k < i + 1 /\ q[k].kind = "save" /\ q[k].ver >= v
    BY <2>1 DEF saveFirst
  <2>3. k # 1
    BY <1>1, <2>2
  <2>4. k - 1 \in DOMAIN r /\ r[k - 1] = q[k] /\ k - 1 < i
    BY <1>1, <2>1, <2>2, <2>3
  <2> QED
    BY <2>2, <2>4
<1>3. saveFirst(r, v)
  BY <1>2 DEF saveFirst
<1> QED
  BY <1>3 DEF r

\* A message that does not ask changes nothing for those that do, and the request of setStop
\* is behind its save.
LEMMA FirstAppend ==
  ASSUME NEW q \in Seq(Message), NEW m \in Message, NEW v,
         saveFirst(q, v),
         m.kind = "close" => \E i \in DOMAIN q : q[i].kind = "save" /\ q[i].ver >= v
  PROVE  saveFirst(Append(q, m), v)
<1> DEFINE r == Append(q, m)
           n == Len(q) + 1
<1>1. /\ DOMAIN q = 1..Len(q) /\ Len(q) \in Nat /\ DOMAIN r = 1..n /\ r[n] = m
      /\ \A i \in 1..Len(q) : r[i] = q[i]
  OBVIOUS
<1> HIDE DEF r
<1>2. \A i \in DOMAIN q : i \in DOMAIN r /\ r[i] = q[i] /\ i < n
  BY <1>1
<1>3. ASSUME NEW i \in DOMAIN r, r[i].kind = "close"
      PROVE  \E j \in DOMAIN r : j < i /\ r[j].kind = "save" /\ r[j].ver >= v
  <2>1. CASE i = n
    BY <1>1, <1>2, <1>3, <2>1
  <2>2. CASE i # n
    <3>1. i \in DOMAIN q /\ r[i] = q[i]
      BY <1>1, <2>2
    <3>2. PICK j \in DOMAIN q : j < i /\ q[j].kind = "save" /\ q[j].ver >= v
      BY <1>3, <3>1 DEF saveFirst
    <3> QED
      BY <1>2, <3>2
  <2> QED
    BY <2>1, <2>2
<1>4. saveFirst(r, v)
  BY <1>3 DEF saveFirst
<1> QED
  BY <1>4 DEF r

\* A save that a running Database takes is secured.
LEMMA TakenSecured ==
  ASSUME OrderInv, NEW g \in Servers, task(g), NEW v,
         \A d \in Databases : _obj_state[d] = "_run_obj_",
         Head(toDb[g]).kind = "save", Head(toDb[g]).ver >= v
  PROVE  Secured(g, v)'
<1> USE DEF gameVars, linkVars, mainVars, threadVars
<1> DEFINE m == Head(toDb[g])
<1>1. Typed /\ OwnMessages
  BY DEF OrderInv
<1>2. m \in Message /\ m \in Elems(toDb[g])
  BY <1>1, TailQueue DEF task, Typed
<1>3. m.gs = g /\ m.kind = "save" /\ m.ver >= v /\ _works' = addSQueryTask(threadFor(m), m)
  BY <1>1, <1>2 DEF OwnMessages, task
<1> HIDE DEF m
<1>4. threadFor(m) = Saver /\ _works[Saver] \in Seq(Message) /\ _obj_state[_father(Saver)] = "_run_obj_"
  BY <1>1, <1>2, <1>3, Names DEF Typed
<1>5. _works'[Saver] = Append(_works[Saver], m)
  BY <1>1, <1>3, <1>4, Names DEF addSQueryTask, Typed
<1>6. m \in Elems(_works'[Saver])
  BY <1>2, <1>4, <1>5, AppendQueue
<1> QED
  BY <1>3, <1>6 DEF Secured

\* Until the first request is answered, every request is behind the save of its signal.
LEMMA SignalStep ==
  ASSUME ~BadSaves, OrderInv, Ends, Asked, SignalInv, [Next]_vars
  PROVE  SignalInv'
<1> USE DEF gameVars, linkVars, mainVars, threadVars
<1> SUFFICES ASSUME NEW g \in Servers
             PROVE  /\ g \in _close_gs_id' => Secured(g, atSignal[g])'
                    /\ ~_receive_cose_msg' =>
                         Secured(g, atSignal[g])' \/ saveFirst(toDb'[g], atSignal'[g])
  BY DEF SignalInv
<1> DEFINE q == toDb[g]
<1>0. PICK v : v = atSignal[g]
  OBVIOUS
<1>1. Typed /\ Stops /\ Asks(g) /\ v \in Nat /\ q \in Seq(Message)
  BY <1>0 DEF OrderInv, Asked, Typed
<1>2. /\ g \in _close_gs_id => Secured(g, v)
      /\ ~_receive_cose_msg => Secured(g, v) \/ saveFirst(q, v)
  BY <1>0 DEF SignalInv
<1>3. CASE setStop(g)
  <2>1. /\ UNCHANGED <<_close_gs_id, _receive_cose_msg>>
        /\ g \notin _close_gs_id /\ \A m \in Elems(q) : m.kind # "close"
        /\ atSignal'[g] = version[g] /\ toDb'[g] = SaveDreamHeroes(g)
    BY <1>1, <1>3 DEF setStop, Asks, Typed
  <2> DEFINE w == version[g]
             s == save(g)
             c == [kind |-> "close", gs |-> g]
             r == Append(q, s)
  <2>2. /\ s \in Message /\ s.kind = "save" /\ s.ver = w /\ w \in Nat /\ c \in Message
        /\ r \in Seq(Message) /\ SaveDreamHeroes(g) = Append(r, c)
    BY <1>1, Sent DEF SaveDreamHeroes, Typed
  <2>3. saveFirst(q, w)
    BY <2>1 DEF saveFirst, Elems
  <2>4. saveFirst(r, w)
    BY <1>1, <2>2, <2>3, FirstAppend
  <2>5. \E i \in DOMAIN r : r[i].kind = "save" /\ r[i].ver >= w
    <3>1. Len(q) + 1 \in DOMAIN r /\ r[Len(q) + 1] = s
      BY <1>1
    <3> QED
      BY <2>2, <3>1
  <2> HIDE DEF s, c, r
  <2>6. saveFirst(Append(r, c), w)
    BY <2>2, <2>4, <2>5, FirstAppend
  <2> QED
    BY <2>1, <2>2, <2>6
<1>4. CASE ~setStop(g)
  <2>1. atSignal'[g] = atSignal[g]
    BY <1>1, <1>4 DEF Next, vars, game, change, send, setStop, clientMessage, checkStop, loss, main,
         task, saveToClose, stopDatabase, stopThread, run, onSaveToClose, signalStop, checkDbStop,
         work, connetDatabase, getTask, assign, execute, connectionLost, badQuery, endThread, Typed
  <2>2. Secured(g, v) => Secured(g, v)'
    BY <1>1, SecuredStep
  <2>3. Secured(g, atSignal[g])' <=> Secured(g, v)'
    BY <1>0, <2>1 DEF Secured
  <2>4. ASSUME g \in _close_gs_id', g \notin _close_gs_id PROVE Secured(g, v)
    <3>1. saveToClose(g) /\ ~_receive_cose_msg
      BY <2>4 DEF Next, vars, game, change, send, setStop, clientMessage, checkStop, loss, main,
         task, saveToClose, stopDatabase, stopThread, run, onSaveToClose, signalStop, checkDbStop,
         work, connetDatabase, getTask, assign, execute, connectionLost, badQuery, endThread
    <3>2. q # <<>> /\ Head(q).kind = "close"
      BY <3>1 DEF saveToClose
    <3>3. ~saveFirst(q, v)
      BY <1>1, <3>2, FirstHead
    <3> QED
      BY <1>2, <3>1, <3>3
  <2>5. ASSUME ~_receive_cose_msg', ~Secured(g, v)'
        PROVE  saveFirst(toDb'[g], v)
    <3>1. ~_receive_cose_msg /\ saveFirst(q, v)
      <4>1. _receive_cose_msg => _receive_cose_msg'
        BY DEF Next, vars, game, change, send, setStop, clientMessage, checkStop, loss, main,
         task, saveToClose, stopDatabase, stopThread, run, onSaveToClose, signalStop, checkDbStop,
         work, connetDatabase, getTask, assign, execute, connectionLost, badQuery, endThread
      <4> QED
        BY <1>2, <2>2, <2>5, <4>1
    <3>2. CASE toDb'[g] = toDb[g]
      BY <3>1, <3>2
    <3>3. CASE toDb'[g] = <<>>
      BY <3>3 DEF saveFirst
    <3>4. CASE send(g)
      <4>1. PICK k \in Sends : toDb' = [toDb EXCEPT ![g] =
                   Append(@, IF k = "save" THEN save(g) ELSE [kind |-> k, gs |-> g])]
        BY <3>4 DEF send
      <4> DEFINE m == IF k = "save" THEN save(g) ELSE [kind |-> k, gs |-> g]
      <4>2. m.kind = k /\ k # "close" /\ m \in Message
        <5>1. k # "save" => [kind |-> k, gs |-> g] \in Other
          BY ServerStopConstants DEF Other
        <5> QED
          BY <1>1, <5>1, Sent, ServerStopConstants DEF Message
      <4>3. toDb'[g] = Append(toDb[g], m)
        BY <1>1, <4>1 DEF Typed
      <4> HIDE DEF m
      <4> QED
        BY <1>1, <3>1, <4>2, <4>3, FirstAppend
    <3>5. ASSUME checkStop(g) PROVE FALSE
      BY <1>1, <3>1, <3>5 DEF checkStop, Asks, Stops
    <3>6. CASE task(g)
      <4>1. /\ q # <<>> /\ toDb'[g] = Tail(q)
            /\ \A d \in Databases : _obj_state[d] = "_run_obj_"
        BY <1>1, <3>1, <3>6 DEF task, Stops, Typed
      <4>2. ~(Head(q).kind = "save" /\ Head(q).ver >= v)
        BY <2>5, <3>6, <4>1, TakenSecured
      <4> QED
        BY <1>1, <3>1, <4>1, <4>2, FirstTail
    <3>7. ASSUME saveToClose(g) PROVE FALSE
      BY <2>5, <3>1, <3>7 DEF saveToClose
    <3>8. \/ toDb'[g] = toDb[g] \/ toDb'[g] = <<>>
          \/ send(g) \/ setStop(g) \/ checkStop(g) \/ task(g) \/ saveToClose(g)
      <4>1. ASSUME NEW h \in Servers, game(h) \/ task(h) \/ saveToClose(h), h # g
            PROVE  toDb'[g] = toDb[g]
        BY <1>1, <4>1 DEF game, change, send, setStop, clientMessage, checkStop, loss, task,
                          saveToClose, Typed
      <4>2. ASSUME game(g)
            PROVE  \/ toDb'[g] = toDb[g] \/ toDb'[g] = <<>>
                   \/ send(g) \/ setStop(g) \/ checkStop(g)
        BY <1>1, <4>2 DEF game, change, clientMessage, loss, Typed
      <4>3. ASSUME main, \A h \in Servers : ~task(h) /\ ~saveToClose(h) PROVE toDb' = toDb
        BY <4>3 DEF main, stopDatabase, stopThread, run, onSaveToClose, signalStop, checkDbStop
      <4>4. ASSUME NEW t \in Threads, work(t) PROVE toDb' = toDb
        BY <4>4 DEF work, connetDatabase, getTask, assign, execute, connectionLost, badQuery, endThread
      <4>5. CASE UNCHANGED vars
        BY <4>5 DEF vars
      <4> QED
        BY <4>1, <4>2, <4>3, <4>4, <4>5 DEF Next
    <3> QED
      BY <1>4, <3>2, <3>3, <3>4, <3>5, <3>6, <3>7, <3>8
  <2>6. g \in _close_gs_id' => Secured(g, v)'
    BY <1>2, <2>2, <2>4
  <2> QED
    BY <1>0, <2>1, <2>3, <2>5, <2>6
<1> QED
  BY <1>3, <1>4

\* The timer waits for the game server that asked first, whose last save is on its way.
LEMMA LastStep ==
  ASSUME ~BadSaves, Prompt, OrderInv, Ends, Asked, LastSave, [Next]_vars
  PROVE  LastSave'
<1> USE DEF gameVars, linkVars, mainVars, threadVars
<1>1. Typed /\ Stops /\ \A g \in Servers : Asks(g)
  BY DEF OrderInv, Asked
<1>2. ASSUME closing' = "done", NEW g \in _close_gs_id' PROVE gs'[g] = "stop"
  <2>1. \/ closing = "done" /\ _close_gs_id' = _close_gs_id
        \/ onSaveToClose
    BY <1>1, <1>2 DEF Stops, Next, vars, game, change, send, setStop, clientMessage, checkStop, loss,
         main, task, saveToClose, stopDatabase, stopThread, run, onSaveToClose, signalStop,
         checkDbStop, work, connetDatabase, getTask, assign, execute, connectionLost, badQuery, endThread
  <2>2. g \in Servers
    BY <1>1, <1>2, <2>1 DEF Typed, onSaveToClose
  <2>3. gs[g] = "stop"
    BY <1>2, <2>1 DEF LastSave, onSaveToClose
  <2>4. gs[g] = "stop" => gs'[g] = "stop"
    BY <1>1, <2>2 DEF Next, vars, game, change, send, setStop, clientMessage, checkStop, loss,
         main, task, saveToClose, stopDatabase, stopThread, run, onSaveToClose, signalStop,
         checkDbStop, work, connetDatabase, getTask, assign, execute, connectionLost, badQuery,
         endThread, Typed
  <2> QED
    BY <2>3, <2>4
<1>3. ASSUME NEW g \in Servers, gs'[g] = "stop", g \notin cut'
      PROVE  \/ Secured(g, version[g])'
             \/ closing' # "done" /\ \E m \in Elems(toDb'[g]) : m.kind = "save" /\ m.ver = version'[g]
  <2> DEFINE q == toDb[g]
  <2>1. PICK v : v = version[g]
    OBVIOUS
  <2>2. v \in Nat /\ q \in Seq(Message) /\ Asks(g)
    BY <1>1, <2>1 DEF Typed
  <2>3. CASE checkStop(g)
    <3>1. gs[g] = "wait_stop" /\ _save_all_heroes_ok[g] /\ UNCHANGED <<version, closing>>
      BY <2>3 DEF checkStop
    <3>2. g \in _close_gs_id /\ closing # "done"
      BY <2>2, <3>1 DEF Asks, LastSave
    <3> DEFINE s == SaveDreamHeroes(g)
               r == Append(q, save(g))
               c == [kind |-> "close", gs |-> g]
    <3>3. /\ s \in Seq(Message) /\ s = Append(r, c) /\ r \in Seq(Message)
          /\ save(g) \in Message /\ c \in Message /\ save(g).kind = "save" /\ save(g).ver = version[g]
      BY <1>1, Sent DEF SaveDreamHeroes
    <3>4. r[Len(q) + 1] = save(g) /\ Len(r) = Len(q) + 1 /\ Len(q) \in Nat
      BY <2>2, <3>3
    <3> HIDE DEF r, c
    <3>5. s[Len(q) + 1] = save(g)
      BY <3>3, <3>4
    <3>6. PICK n \in 0..Len(s) : /\ toDb' = [toDb EXCEPT ![g] = SubSeq(s, 1, n)]
                                 /\ cut' = IF n <= Len(toDb[g]) THEN cut \cup {g} ELSE cut
      BY <2>3 DEF checkStop
    <3>7. toDb'[g] = SubSeq(s, 1, n)
      BY <1>1, <3>6 DEF Typed
    <3> HIDE DEF s
    <3>8. Len(q) + 1 \in 1..n
      BY <1>3, <3>3, <3>4, <3>6
    <3>9. save(g) \in Elems(toDb'[g])
      BY <3>3, <3>5, <3>7, <3>8, FrontHas
    <3> QED
      BY <3>1, <3>2, <3>3, <3>9
  <2>4. CASE ~checkStop(g)
    <3>1. gs[g] = "stop" /\ version'[g] = version[g] /\ g \notin cut
      <4>1. ASSUME NEW h \in Servers, game(h), h # g
            PROVE  gs'[g] = gs[g] /\ version'[g] = version[g] /\ (g \in cut => g \in cut')
        BY <1>1, <4>1 DEF game, change, send, setStop, clientMessage, checkStop, loss, Typed
      <4>2. CASE game(g)
        <5>1. ~setStop(g)
          BY <1>1, <1>3 DEF setStop, Typed
        <5>2. UNCHANGED gs
          BY <2>4, <4>2, <5>1 DEF game, change, send, clientMessage, loss
        <5>3. ~change(g)
          BY <1>3, <5>2 DEF change
        <5> QED
          BY <1>3, <2>4, <4>2, <5>1, <5>2, <5>3 DEF game, send, clientMessage, loss
      <4>3. CASE main
        BY <1>3, <4>3 DEF main, task, saveToClose, stopDatabase, stopThread, run, onSaveToClose,
                          signalStop, checkDbStop
      <4>4. ASSUME NEW t \in Threads, work(t) PROVE UNCHANGED <<gs, version, cut>>
        BY <4>4 DEF work, connetDatabase, getTask, assign, execute, connectionLost, badQuery, endThread
      <4>5. CASE UNCHANGED vars
        BY <1>3, <4>5 DEF vars
      <4> QED
        BY <1>3, <4>1, <4>2, <4>3, <4>4, <4>5 DEF Next
    <3>2. \/ Secured(g, v)
          \/ closing # "done" /\ \E m \in Elems(q) : m.kind = "save" /\ m.ver = v
      BY <2>1, <3>1 DEF LastSave
    <3>3. Secured(g, v) => Secured(g, v)'
      BY <2>2, SecuredStep
    <3>4. Secured(g, version[g])' <=> Secured(g, v)'
      BY <2>1, <3>1 DEF Secured
    <3>5. ASSUME closing # "done", NEW m \in Elems(q), m.kind = "save", m.ver = v,
                 ~Secured(g, v), ~Secured(g, v)'
          PROVE  closing' # "done" /\ m \in Elems(toDb'[g])
      <4>1. q # <<>>
        BY <3>5, EmptyQueue
      <4>2. ~onSaveToClose
        <5>1. g \in _close_gs_id
          BY <2>2, <3>1 DEF Asks
        <5> QED
          BY <4>1, <5>1 DEF onSaveToClose
      <4>3. closing' # "done"
        BY <3>5, <4>2 DEF Next, vars, game, change, send, setStop, clientMessage, checkStop, loss,
         main, task, saveToClose, stopDatabase, stopThread, run, signalStop,
         checkDbStop, work, connetDatabase, getTask, assign, execute, connectionLost, badQuery, endThread
      <4>4. Elems(q) = {Head(q)} \cup Elems(Tail(q))
        BY <2>2, <4>1, TailQueue
      <4>5. CASE task(g)
        <5>1. toDb'[g] = Tail(q)
          BY <1>1, <4>5 DEF task, Typed
        <5>2. CASE m = Head(q)
          <6>1. \A d \in Databases : _obj_state[d] = "_run_obj_"
            BY <1>1, <3>5 DEF Stops
          <6>2. Head(toDb[g]).kind = "save" /\ Head(toDb[g]).ver >= v
            BY <2>2, <3>5, <5>2
          <6>3. Secured(g, v)'
            BY <4>5, <6>1, <6>2, TakenSecured
          <6> QED
            BY <3>5, <6>3
        <5>3. CASE m # Head(q)
          BY <3>5, <4>3, <4>4, <5>1, <5>3
        <5> QED
          BY <5>2, <5>3
      <4>6. CASE saveToClose(g)
        <5>1. toDb'[g] = Tail(q) /\ Head(q).kind = "close"
          BY <1>1, <4>6 DEF saveToClose, Typed
        <5> QED
          BY <3>5, <4>3, <4>4, <5>1
      <4>7. CASE toDb'[g] = toDb[g]
        BY <3>5, <4>3, <4>7
      <4>8. toDb'[g] = toDb[g] \/ task(g) \/ saveToClose(g)
        <5>1. ASSUME NEW h \in Servers, game(h) \/ task(h) \/ saveToClose(h), h # g
              PROVE  toDb'[g] = toDb[g]
          BY <1>1, <5>1 DEF game, change, send, setStop, clientMessage, checkStop, loss, task,
                            saveToClose, Typed
        <5>2. ASSUME game(g) PROVE toDb'[g] = toDb[g]
          BY <2>4, <3>1, <5>2 DEF game, change, send, setStop, clientMessage, checkStop, loss
        <5>3. ASSUME main, \A h \in Servers : ~task(h) /\ ~saveToClose(h) PROVE toDb' = toDb
          BY <5>3 DEF main, stopDatabase, stopThread, run, onSaveToClose, signalStop, checkDbStop
        <5>4. ASSUME NEW t \in Threads, work(t) PROVE toDb' = toDb
          BY <5>4 DEF work, connetDatabase, getTask, assign, execute, connectionLost, badQuery, endThread
        <5>5. CASE UNCHANGED vars
          BY <5>5 DEF vars
        <5> QED
          BY <5>1, <5>2, <5>3, <5>4, <5>5 DEF Next
      <4> QED
        BY <4>5, <4>6, <4>7, <4>8
    <3> QED
      BY <2>1, <3>1, <3>2, <3>3, <3>4, <3>5
  <2> QED
    BY <2>3, <2>4
<1> QED
  BY <1>2, <1>3 DEF LastSave

\* When the database server has stopped, what is secured is in the row.
LEMMA SecuredInRow ==
  ASSUME OrderInv, Ends, Asked, _stop, NEW g \in Servers, NEW v, Secured(g, v)
  PROVE  row[g] >= v /\ closing = "done"
<1>1. Saver \in Threads /\ _father(Saver) \in Databases
  BY Names
<1>2. _obj_state[_father(Saver)] = "_stop_obj_"
  BY <1>1 DEF Asked, Stops
<1>3. _works[Saver] = <<>> /\ thread[Saver]._task = NoTask
  BY <1>1, <1>2 DEF Ends, Working, Joined
<1>4. closing = "done"
  BY <1>1, <1>2 DEF Asked, Stops
<1> QED
  BY <1>3, <1>4, EmptyQueue, MessageKinds DEF Secured

\* The game server that asked first, once it and the database server have stopped, has its
\* heroes in the database as they were when the signal came, or later (GameServer::setStop,
\* DBQuestManager::saveToClose, Database::checkStop): whatever connections break, if MySQL
\* refuses no save, and if taking a task is one step or MySQL has no error.
THEOREM SignalSaved ==
  ASSUME ~BadSaves, AtomicTake \/ MaxErrors = 0
  PROVE  Spec => []SavedAtSignal
<1> DEFINE Inv == Ends /\ Asked /\ SignalInv
<1>1. Init => Inv
  BY InitEnds, InitAsked
<1>2. OrderInv /\ Inv /\ [Next]_vars => Inv'
  BY EndsStep, AskedStep, SignalStep
<1>3. OrderInv /\ Inv => SavedAtSignal
  <2> SUFFICES ASSUME OrderInv, Inv, _stop, NEW g \in _close_gs_id PROVE row[g] >= atSignal[g]
    BY DEF SavedAtSignal
  <2>1. g \in Servers
    BY DEF OrderInv, Typed
  <2>2. Secured(g, atSignal[g])
    BY <2>1 DEF SignalInv
  <2> QED
    BY <2>1, <2>2, SecuredInRow
<1> HIDE DEF Inv
<1> QED
  BY <1>1, <1>2, <1>3, OrderInvariant, PTL DEF Spec

\* ... and as they were at the end, if it stops within the 15 s of the timer: unless its own
\* close cuts off the save that it has just sent (GameServer::checkStop).
THEOREM StopSaved ==
  ASSUME ~BadSaves, Prompt, AtomicTake \/ MaxErrors = 0
  PROVE  Spec => []SavedAtStop
<1> DEFINE Inv == Ends /\ Asked /\ LastSave
<1>1. Init => Inv
  BY InitEnds, InitAsked
<1>2. OrderInv /\ Inv /\ [Next]_vars => Inv'
  BY EndsStep, AskedStep, LastStep
<1>3. OrderInv /\ Inv => SavedAtStop
  <2> SUFFICES ASSUME OrderInv, Inv, _stop, NEW g \in _close_gs_id, gs[g] = "stop", g \notin cut
               PROVE  row[g] = version[g]
    BY DEF SavedAtStop
  <2>1. g \in Servers
    BY DEF OrderInv, Typed
  <2>2. closing = "done"
    <3>1. \A d \in Databases : _obj_state[d] = "_stop_obj_"
      BY DEF Asked, Stops
    <3> QED
      BY <3>1, Names DEF Asked, Stops
  <2>3. Secured(g, version[g])
    BY <2>1, <2>2 DEF LastSave
  <2>4. row[g] >= version[g]
    BY <2>1, <2>3, SecuredInRow
  <2>5. row[g] <= version[g] /\ row[g] \in Nat /\ version[g] \in Nat
    BY <2>1 DEF OrderInv, InOrder, Typed
  <2> QED
    BY <2>4, <2>5
<1> HIDE DEF Inv
<1> QED
  BY <1>1, <1>2, <1>3, OrderInvariant, PTL DEF Spec

=============================================================================
