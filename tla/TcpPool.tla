------------------------------- MODULE TcpPool -------------------------------
(***************************************************************************)
(* The pool of sessions of a tcp_server (src/common/tcpserver.cpp) and a     *)
(* tcp_session (src/common/tcpsession.cpp) from its accept to its reuse.     *)
(*                                                                          *)
(* Three kinds of threads touch a session: the main thread, which listens   *)
(* with it, calls its callbacks and its messages and puts it back into the  *)
(* pool; the thread of the acceptor; and the thread of the session's        *)
(* io_service, where asynchronous reads and writes end and what is posted   *)
(* runs.  Nothing cancels what is outstanding when a session is reset: a     *)
(* handler can only look at m_isvalid.                                       *)
(*                                                                          *)
(* A connection is a number and a message is the connection it came by.     *)
(* The list of banned addresses is a choice: a connection may be refused.    *)
(***************************************************************************)
EXTENDS Naturals, Integers, Sequences, FiniteSets

CONSTANTS
  Sessions,
  MaxConns,    \* bound on the connections
  MaxMessages, \* bound on the messages received, and on those sent
  s_io_once_listen_session_count,
  IoPrompt,    \* a session's thread has run what was ready before the main thread frees it
  WritesDone,  \* no write is outstanding when a connection ends
  BadPackets   \* kinds of wrong messages that come

ASSUME TcpPoolConstants ==
  /\ IsFiniteSet(Sessions)
  /\ {MaxConns, MaxMessages, s_io_once_listen_session_count} \subseteq Nat \ {0}
  /\ BadPackets \subseteq {"length", "check_sum"}
  /\ {IoPrompt, WritesDone} \subseteq BOOLEAN

VARIABLES
  m_sessions,  \* the pool
  listening,   \* the asynchronous accepts of a session
  session,     \* [m_isvalid, m_isconnected, m_father, m_is_sending_data, m_queue_send_msg, conn, open]
  reads,       \* session -> connections whose sockets have a read outstanding
  writes,      \* ... a write outstanding
  posted,      \* session -> what is posted to its io_service
  m_cb_mgr,    \* callbacks added
  m_queue_recv_msg, \* messages received
  pc,          \* the main thread in _real_run: "listen", "poll", "call", "process"
  calls,       \* callbacks that poll() is calling
  batch,       \* messages being processed
  conns,       \* bound: connections so far
  messages,    \* bound: messages so far
  app,         \* what the application was told: on_accept calls less on_close calls
  appConn,     \* the connection of the last on_accept
  last         \* the last message processed

ioVars == <<reads, writes, posted>>
mainVars == <<pc, calls, batch>>
appVars == <<app, appConn, last>>
vars == <<m_sessions, listening, session, ioVars, m_cb_mgr, m_queue_recv_msg, mainVars,
          conns, messages, appVars>>

-----------------------------------------------------------------------------
\* tcp_session::reset and tcp_server::free_session: a new socket, nothing cancelled
unused ==
  [m_isvalid |-> FALSE, m_isconnected |-> FALSE, m_father |-> FALSE, m_is_sending_data |-> FALSE,
   m_queue_send_msg |-> FALSE, conn |-> 0, open |-> FALSE]

inOrder(S) == CHOOSE q \in [1..Cardinality(S) -> S] : {q[i] : i \in DOMAIN q} = S

\* tcp_server::create
Init ==
  /\ m_sessions = inOrder(Sessions)
  /\ listening = [s \in Sessions |-> 0]
  /\ session = [s \in Sessions |-> unused]
  /\ reads = [s \in Sessions |-> {}]
  /\ writes = [s \in Sessions |-> {}]
  /\ posted = [s \in Sessions |-> <<>>]
  /\ m_cb_mgr = <<>>
  /\ m_queue_recv_msg = <<>>
  /\ pc = "listen"
  /\ calls = <<>>
  /\ batch = <<>>
  /\ conns = 0
  /\ messages = [received |-> 0, sent |-> 0]
  /\ app = [s \in Sessions |-> 0]
  /\ appConn = [s \in Sessions |-> 0]
  /\ last = [conn |-> 0, current |-> 0]

-----------------------------------------------------------------------------
(* The session's thread *)

\* tcp_session::_on_close: what is queued is given up, the socket is closed and, while the
\* session has a server, its on_close is called later.
closed(s) == [session[s] EXCEPT !.m_queue_send_msg = FALSE, !.open = FALSE, !.m_isconnected = FALSE]

onCloseAdded(s) ==
  IF session[s].m_father THEN Append(m_cb_mgr, [f |-> "on_close", s |-> s, conn |-> session[s].conn])
  ELSE m_cb_mgr

\* tcp_session::handle_accept
handle_accept(s) ==
  /\ posted[s] # <<>>
  /\ Head(posted[s]) = "accept"
  /\ posted' = [posted EXCEPT ![s] = Tail(@)]
  /\ session' = [session EXCEPT ![s].m_isvalid = TRUE, ![s].m_isconnected = TRUE, ![s].m_father = TRUE]
  /\ reads' = [reads EXCEPT ![s] = @ \cup {session[s].conn}]
  /\ m_cb_mgr' = Append(m_cb_mgr, [f |-> "on_accept", s |-> s, conn |-> session[s].conn])
  /\ UNCHANGED <<m_sessions, listening, writes, m_queue_recv_msg, mainVars, conns, messages, appVars>>

\* tcp_session::handle_close
handle_close(s) ==
  /\ posted[s] # <<>>
  /\ Head(posted[s]) = "close"
  /\ posted' = [posted EXCEPT ![s] = Tail(@)]
  /\ session' = [session EXCEPT ![s].open = FALSE, ![s].m_isconnected = FALSE]
  /\ UNCHANGED <<m_sessions, listening, reads, writes, m_cb_mgr, m_queue_recv_msg, mainVars,
                 conns, messages, appVars>>

\* tcp_session::_write_message: all that is queued goes into one write, one at a time.
written(x) == [x EXCEPT !.m_queue_send_msg = FALSE, !.m_is_sending_data = TRUE]
writable(x) == x.m_isconnected /\ ~x.m_is_sending_data /\ x.m_queue_send_msg

_write_message(s) ==
  /\ posted[s] # <<>>
  /\ Head(posted[s]) = "write"
  /\ posted' = [posted EXCEPT ![s] = Tail(@)]
  /\ IF writable(session[s])
     THEN /\ session' = [session EXCEPT ![s] = written(@)]
          /\ writes' = [writes EXCEPT ![s] = @ \cup {session[s].conn}]
     ELSE UNCHANGED <<session, writes>>
  /\ UNCHANGED <<m_sessions, listening, reads, m_cb_mgr, m_queue_recv_msg, mainVars,
                 conns, messages, appVars>>

\* tcp_session::handle_read_some with messages: they go to the server, and the next read
\* starts on the socket that the session has now.
handle_read_some(s) ==
  /\ messages.received < MaxMessages
  /\ \E c \in reads[s] :
       /\ IF ~session[s].m_isvalid
          THEN /\ reads' = [reads EXCEPT ![s] = @ \ {c}]
               /\ UNCHANGED <<m_queue_recv_msg, messages>>
          ELSE /\ reads' = [reads EXCEPT ![s] = (@ \ {c}) \cup {session[s].conn}]
               /\ m_queue_recv_msg' = IF session[s].m_father
                                      THEN Append(m_queue_recv_msg, [s |-> s, conn |-> c])
                                      ELSE m_queue_recv_msg
               /\ messages' = [messages EXCEPT !.received = @ + 1]
  /\ UNCHANGED <<m_sessions, listening, session, writes, posted, m_cb_mgr, mainVars, conns, appVars>>

\* ... with a wrong length: close_and_ban, and no read follows.
wrong_length(s) ==
  /\ "length" \in BadPackets
  /\ session[s].m_isvalid
  /\ session[s].open
  /\ session[s].conn \in reads[s]
  /\ reads' = [reads EXCEPT ![s] = @ \ {session[s].conn}]
  /\ posted' = [posted EXCEPT ![s] = Append(@, "close")]
  /\ UNCHANGED <<m_sessions, listening, session, writes, m_cb_mgr, m_queue_recv_msg, mainVars,
                 conns, messages, appVars>>

\* ... with a wrong check sum: _uncompress_message posts a close, and _on_close follows.
wrong_check_sum(s) ==
  /\ "check_sum" \in BadPackets
  /\ session[s].m_isvalid
  /\ session[s].open
  /\ session[s].conn \in reads[s]
  /\ WritesDone => writes[s] = {}
  /\ reads' = [reads EXCEPT ![s] = @ \ {session[s].conn}]
  /\ posted' = [posted EXCEPT ![s] = Append(@, "close")]
  /\ session' = [session EXCEPT ![s] = closed(s)]
  /\ m_cb_mgr' = onCloseAdded(s)
  /\ UNCHANGED <<m_sessions, listening, writes, m_queue_recv_msg, mainVars, conns, messages, appVars>>

\* A handler with an error: an invalid session is left alone.
failed(s) ==
  IF session[s].m_isvalid
  THEN session' = [session EXCEPT ![s] = closed(s)] /\ m_cb_mgr' = onCloseAdded(s)
  ELSE UNCHANGED <<session, m_cb_mgr>>

\* tcp_session::handle_read_some with an error, of this socket or of one that is gone
read_failed(s) ==
  /\ \E c \in reads[s] :
       /\ WritesDone => c \notin writes[s]
       /\ reads' = [reads EXCEPT ![s] = @ \ {c}]
  /\ failed(s)
  /\ UNCHANGED <<m_sessions, listening, writes, posted, m_queue_recv_msg, mainVars, conns, messages, appVars>>

\* tcp_session::handle_write: what was queued meanwhile is written at once.
handle_write(s) ==
  /\ \E c \in writes[s] :
       IF ~session[s].m_isvalid
       THEN /\ writes' = [writes EXCEPT ![s] = @ \ {c}]
            /\ UNCHANGED session
       ELSE LET x == [session[s] EXCEPT !.m_is_sending_data = FALSE]
            IN  IF writable(x)
                THEN /\ session' = [session EXCEPT ![s] = written(x)]
                     /\ writes' = [writes EXCEPT ![s] = (@ \ {c}) \cup {x.conn}]
                ELSE /\ session' = [session EXCEPT ![s] = x]
                     /\ writes' = [writes EXCEPT ![s] = @ \ {c}]
  /\ UNCHANGED <<m_sessions, listening, reads, posted, m_cb_mgr, m_queue_recv_msg, mainVars,
                 conns, messages, appVars>>

write_failed(s) ==
  /\ ~WritesDone
  /\ \E c \in writes[s] : writes' = [writes EXCEPT ![s] = @ \ {c}]
  /\ failed(s)
  /\ UNCHANGED <<m_sessions, listening, reads, posted, m_queue_recv_msg, mainVars, conns, messages, appVars>>

-----------------------------------------------------------------------------
(* The acceptor's thread *)

\* tcp_server::handle_accept
accepted(s) ==
  /\ listening[s] > 0
  /\ conns < MaxConns
  /\ conns' = conns + 1
  /\ listening' = [listening EXCEPT ![s] = @ - 1]
  /\ session' = [session EXCEPT ![s].conn = conns + 1, ![s].open = TRUE]
  /\ posted' = [posted EXCEPT ![s] = Append(@, "accept")]
  /\ UNCHANGED <<m_sessions, reads, writes, m_cb_mgr, m_queue_recv_msg, mainVars, messages, appVars>>

\* ... of a banned address, or with an error
refused(s) ==
  /\ listening[s] > 0
  /\ conns < MaxConns
  /\ conns' = conns + 1
  /\ listening' = [listening EXCEPT ![s] = @ - 1]
  /\ session' = [session EXCEPT ![s] = unused]
  /\ m_sessions' = Append(m_sessions, s)
  /\ UNCHANGED <<ioVars, m_cb_mgr, m_queue_recv_msg, mainVars, messages, appVars>>

-----------------------------------------------------------------------------
(* The main thread: tcp_server::_real_run *)

Less(a, b) == IF a < b THEN a ELSE b

\* The sessions at the front of the pool listen.
listen ==
  /\ pc = "listen"
  /\ LET m_accepting_count == Cardinality({x \in Sessions \X (1..(MaxConns + Cardinality(Sessions))) :
                                            x[2] <= listening[x[1]]})
         n == IF m_accepting_count < s_io_once_listen_session_count
              THEN Less(Len(m_sessions), s_io_once_listen_session_count - m_accepting_count) ELSE 0
         taken == SubSeq(m_sessions, 1, n)
         times(s) == Cardinality({i \in 1..n : taken[i] = s})
     IN  /\ m_sessions' = SubSeq(m_sessions, n + 1, Len(m_sessions))
         /\ listening' = [s \in Sessions |-> listening[s] + times(s)]
         /\ session' = [s \in Sessions |->
              IF times(s) > 0 THEN [session[s] EXCEPT !.m_isvalid = TRUE] ELSE session[s]]
  /\ pc' = "poll"
  /\ UNCHANGED <<ioVars, m_cb_mgr, m_queue_recv_msg, calls, batch, conns, messages, appVars>>

\* call_back_mgr::poll takes what was added so far.
poll ==
  /\ pc = "poll"
  /\ calls' = m_cb_mgr
  /\ m_cb_mgr' = <<>>
  /\ pc' = "call"
  /\ UNCHANGED <<m_sessions, listening, session, ioVars, m_queue_recv_msg, batch, conns, messages, appVars>>

on_accept ==
  /\ pc = "call"
  /\ calls # <<>>
  /\ Head(calls).f = "on_accept"
  /\ LET s == Head(calls).s
     IN  /\ app' = [app EXCEPT ![s] = @ + 1]
         /\ appConn' = [appConn EXCEPT ![s] = Head(calls).conn]
  /\ calls' = Tail(calls)
  /\ UNCHANGED <<m_sessions, listening, session, ioVars, m_cb_mgr, m_queue_recv_msg, pc, batch,
                 conns, messages, last>>

\* The session goes back to the pool whether it has a server or not.
on_close_bug ==
  /\ pc = "call"
  /\ calls # <<>>
  /\ Head(calls).f = "on_close"
  /\ LET s == Head(calls).s
     IN  /\ IoPrompt => reads[s] = {} /\ writes[s] = {} /\ posted[s] = <<>>
         /\ app' = [app EXCEPT ![s] = @ - 1]
         /\ session' = [session EXCEPT ![s] = unused]
         /\ m_sessions' = Append(m_sessions, s)
  /\ calls' = Tail(calls)
  /\ UNCHANGED <<listening, ioVars, m_cb_mgr, m_queue_recv_msg, pc, batch, conns, messages,
                 appConn, last>>

\* The application's on_close, and tcp_session::on_close: free_session, if there is a server
on_close ==
  /\ pc = "call"
  /\ calls # <<>>
  /\ Head(calls).f = "on_close"
  /\ LET s == Head(calls).s
     IN  /\ IoPrompt => reads[s] = {} /\ writes[s] = {} /\ posted[s] = <<>>
         /\ app' = [app EXCEPT ![s] = @ - 1]
         /\ IF session[s].m_father
            THEN /\ session' = [session EXCEPT ![s] = unused]
                 /\ m_sessions' = Append(m_sessions, s)
            ELSE UNCHANGED <<session, m_sessions>>
  /\ calls' = Tail(calls)
  /\ UNCHANGED <<listening, ioVars, m_cb_mgr, m_queue_recv_msg, pc, batch, conns, messages,
                 appConn, last>>

\* After the callbacks: the messages received so far
process ==
  /\ pc = "call"
  /\ calls = <<>>
  /\ pc' = "process"
  /\ batch' = m_queue_recv_msg
  /\ m_queue_recv_msg' = <<>>
  /\ UNCHANGED <<m_sessions, listening, session, ioVars, m_cb_mgr, calls, conns, messages, appVars>>

\* Messages are handled without a look at their session.
proc_message_bug ==
  /\ pc = "process"
  /\ batch # <<>>
  /\ last' = [conn |-> Head(batch).conn, current |-> session[Head(batch).s].conn]
  /\ batch' = Tail(batch)
  /\ UNCHANGED <<m_sessions, listening, session, ioVars, m_cb_mgr, m_queue_recv_msg, pc, calls,
                 conns, messages, app, appConn>>

\* A message is handled if its session is valid and connected, and lost otherwise.
proc_message ==
  /\ pc = "process"
  /\ batch # <<>>
  /\ LET m == Head(batch)
     IN  last' = IF session[m.s].m_isvalid /\ session[m.s].m_isconnected
                 THEN [conn |-> m.conn, current |-> session[m.s].conn] ELSE last
  /\ batch' = Tail(batch)
  /\ UNCHANGED <<m_sessions, listening, session, ioVars, m_cb_mgr, m_queue_recv_msg, pc, calls,
                 conns, messages, app, appConn>>

endRun ==
  /\ pc = "process"
  /\ batch = <<>>
  /\ pc' = "listen"
  /\ UNCHANGED <<m_sessions, listening, session, ioVars, m_cb_mgr, m_queue_recv_msg, calls, batch,
                 conns, messages, appVars>>

\* The application closes a session it was told of: kicks, time limits, a full send queue
\* in limit mode.
close(s) ==
  /\ pc = "process"
  /\ app[s] = 1
  /\ session[s].m_isconnected
  /\ Len(posted[s]) = 0
  /\ posted' = [posted EXCEPT ![s] = Append(@, "close")]
  /\ UNCHANGED <<m_sessions, listening, session, reads, writes, m_cb_mgr, m_queue_recv_msg, mainVars,
                 conns, messages, appVars>>

\* tcp_session::send_message and _send_message
send_message(s) ==
  /\ pc = "process"
  /\ messages.sent < MaxMessages
  /\ session[s].m_isvalid
  /\ session[s].m_isconnected
  /\ messages' = [messages EXCEPT !.sent = @ + 1]
  /\ session' = [session EXCEPT ![s].m_queue_send_msg = TRUE]
  /\ posted' = [posted EXCEPT ![s] = Append(@, "write")]
  /\ UNCHANGED <<m_sessions, listening, reads, writes, m_cb_mgr, m_queue_recv_msg, mainVars, conns, appVars>>

-----------------------------------------------------------------------------
io(s) ==
  \/ handle_accept(s) \/ handle_close(s) \/ _write_message(s)
  \/ handle_read_some(s) \/ wrong_length(s) \/ wrong_check_sum(s) \/ read_failed(s)
  \/ handle_write(s) \/ write_failed(s)

main == listen \/ poll \/ on_accept \/ on_close \/ process \/ proc_message \/ endRun

Next ==
  \/ main
  \/ \E s \in Sessions : io(s) \/ accepted(s) \/ refused(s) \/ close(s) \/ send_message(s)

Spec == Init /\ [][Next]_vars

-----------------------------------------------------------------------------
(* Properties *)

\* Where a session is: times in the pool, accepts outstanding, and in use.
uses(s) ==
  Cardinality({i \in DOMAIN m_sessions : m_sessions[i] = s}) + listening[s]
  + (IF session[s].m_father \/ \E i \in DOMAIN posted[s] : posted[s][i] = "accept" THEN 1 ELSE 0)

\* A session is in the pool once, or listens once, or serves one connection: it is never
\* given to two connections, and none is lost.
UsedOnce == \A s \in Sessions : uses(s) = 1

\* on_close is called for the connection of the last on_accept, which is called for a
\* session that has no connection.
CloseOnceStep ==
  \A s \in Sessions :
    /\ app'[s] < app[s] => app[s] = 1 /\ Head(calls).conn = appConn[s]
    /\ app'[s] > app[s] => app[s] = 0

\* The last message was handled by the session of the connection that sent it.
OwnMessage == last.conn = last.current
=============================================================================
