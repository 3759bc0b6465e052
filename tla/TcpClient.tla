------------------------------ MODULE TcpClient ------------------------------
(***************************************************************************)
(* A tcp_client (src/common/tcpclient.cpp): how the gate and game servers    *)
(* keep their connections to the servers behind them.  One object and one    *)
(* socket serve all connections in turn.                                     *)
(*                                                                          *)
(* The main thread calls run_no_wait in its loop; the thread of the          *)
(* io_service runs the handlers, one after the other.  The handlers of a     *)
(* socket that was closed are queued at once, so they run before the next    *)
(* connect ends.  The servers close their clients only when they stop, so    *)
(* connections end because they break.  Received messages are queued as in   *)
(* TcpPool and are left out.                                                 *)
(***************************************************************************)
EXTENDS Naturals, Sequences

CONSTANTS
  WritesDone,  \* no write is outstanding when a connection breaks
  Told,        \* the application sends only between on_connect and on_close
  MaxBreaks,   \* bound on the breaks of the connection
  MaxSends     \* bound on the messages the application sends

TcpClientConstants ==
  /\ {WritesDone, Told} \subseteq BOOLEAN
  /\ {MaxBreaks, MaxSends} \subseteq Nat

VARIABLES
  client,      \* [m_isconnected, m_isconnecting, m_is_sending_data, m_queue_send_msg]
  link,        \* the socket: "closed", "open" or "broken"
  reads,       \* reads outstanding
  writing,     \* is a write outstanding?
  posted,      \* calls of _write_message posted to the io_service
  first,       \* the first message written on this connection, or "none"
  m_cb_mgr,    \* callbacks added
  calls,       \* callbacks that poll() is calling
  pc,          \* the main thread: "run", "poll", "call" or elsewhere ("app")
  app,         \* what the application was told: on_connect calls less on_close calls
  breaks, sends

ioVars == <<reads, writing, posted>>
vars == <<client, link, ioVars, first, m_cb_mgr, calls, pc, app, breaks, sends>>

\* tcp_client::connect has posted _connect, which has run.
Init ==
  /\ client = [m_isconnected |-> FALSE, m_isconnecting |-> TRUE,
               m_is_sending_data |-> FALSE, m_queue_send_msg |-> <<>>]
  /\ link = "open"
  /\ reads = 0
  /\ writing = FALSE
  /\ posted = 0
  /\ first = "none"
  /\ m_cb_mgr = <<>>
  /\ calls = <<>>
  /\ pc = "run"
  /\ app = 0
  /\ breaks = 0
  /\ sends = 0

-----------------------------------------------------------------------------
(* The io_service's thread *)

\* tcp_client::handle_connect.  A handler of the last connection may have closed the socket
\* after the connect had ended: the client is then connected by a socket that is closed.
connected ==
  /\ client.m_isconnecting
  /\ reads = 0 /\ ~writing
  /\ client' = [client EXCEPT !.m_isconnecting = FALSE, !.m_isconnected = TRUE]
  /\ first' = "none"
  /\ m_cb_mgr' = Append(m_cb_mgr, "on_connect")
  /\ UNCHANGED <<link, ioVars, calls, pc, app, breaks, sends>>

\* ... with an error; on_connect_failed only writes to the log.
connect_failed ==
  /\ client.m_isconnecting
  /\ reads = 0 /\ ~writing
  /\ client' = [client EXCEPT !.m_isconnecting = FALSE]
  /\ UNCHANGED <<link, ioVars, first, m_cb_mgr, calls, pc, app, breaks, sends>>

\* What is queued is kept for the next connection.
_on_close_bug ==
  /\ client' = [client EXCEPT !.m_isconnected = FALSE]
  /\ link' = "closed"
  /\ m_cb_mgr' = Append(m_cb_mgr, "on_close")

\* tcp_session::_on_close.  m_is_sending_data stays as it is.
_on_close ==
  /\ client' = [client EXCEPT !.m_queue_send_msg = <<>>, !.m_isconnected = FALSE]
  /\ link' = "closed"
  /\ m_cb_mgr' = Append(m_cb_mgr, "on_close")

\* What is outstanding fails on a socket that is closed or broken; while the client
\* connects again, it belongs to the socket as it was before.
fails == link # "open" \/ ~client.m_isconnected

\* tcp_session::handle_read_some with an error
read_failed ==
  /\ fails
  /\ reads > 0
  /\ WritesDone => ~writing
  /\ reads' = reads - 1
  /\ _on_close
  /\ UNCHANGED <<writing, posted, first, calls, pc, app, breaks, sends>>

\* tcp_session::_write_message: all that is queued goes into one write, one at a time.
written(c) ==
  IF c.m_isconnected /\ ~c.m_is_sending_data /\ c.m_queue_send_msg # <<>>
  THEN /\ client' = [c EXCEPT !.m_queue_send_msg = <<>>, !.m_is_sending_data = TRUE]
       /\ writing' = TRUE
       /\ first' = IF first = "none" THEN Head(c.m_queue_send_msg) ELSE first
  ELSE /\ client' = c
       /\ writing' = FALSE
       /\ UNCHANGED first

_write_message ==
  /\ posted > 0
  /\ posted' = posted - 1
  /\ IF writing THEN UNCHANGED <<client, writing, first>> ELSE written(client)
  /\ UNCHANGED <<link, reads, m_cb_mgr, calls, pc, app, breaks, sends>>

\* tcp_session::handle_write: what was queued meanwhile is written at once.  The write may
\* have ended before the socket was closed.
handle_write ==
  /\ writing
  /\ written([client EXCEPT !.m_is_sending_data = FALSE])
  /\ UNCHANGED <<link, reads, posted, m_cb_mgr, calls, pc, app, breaks, sends>>

\* ... with an error
write_failed ==
  /\ ~WritesDone
  /\ writing
  /\ fails
  /\ writing' = FALSE
  /\ _on_close
  /\ UNCHANGED <<reads, posted, first, calls, pc, app, breaks, sends>>

\* The connection breaks: the server behind it ends, or the network does.
broken ==
  /\ link = "open" /\ client.m_isconnected
  /\ breaks < MaxBreaks
  /\ link' = "broken"
  /\ breaks' = breaks + 1
  /\ UNCHANGED <<client, ioVars, first, m_cb_mgr, calls, pc, app, sends>>

-----------------------------------------------------------------------------
(* The main thread *)

\* tcp_client::run_no_wait: reconnect(), if the client is not connected and the last
\* attempt was more than m_reconnect_time ago.  async_connect opens the socket.
reconnect ==
  /\ pc = "run"
  /\ ~client.m_isconnected /\ ~client.m_isconnecting
  /\ client' = [client EXCEPT !.m_isconnecting = TRUE]
  /\ link' = "open"
  /\ pc' = "poll"
  /\ UNCHANGED <<ioVars, first, m_cb_mgr, calls, app, breaks, sends>>

noReconnect ==
  /\ pc = "run"
  /\ pc' = "poll"
  /\ UNCHANGED <<client, link, ioVars, first, m_cb_mgr, calls, app, breaks, sends>>

\* call_back_mgr::poll takes what was added so far.
poll ==
  /\ pc = "poll"
  /\ calls' = m_cb_mgr
  /\ m_cb_mgr' = <<>>
  /\ pc' = "call"
  /\ UNCHANGED <<client, link, ioVars, first, app, breaks, sends>>

\* tcp_session::_send_message: nothing is queued for a client that is not connected.
_send_message(m) ==
  IF client.m_isconnected
  THEN /\ client' = [client EXCEPT !.m_queue_send_msg = Append(@, m)]
       /\ posted' = posted + 1
  ELSE UNCHANGED <<client, posted>>

\* tcp_client::on_connect begins to read; the application's on_connect registers itself at
\* the server.
on_connect ==
  /\ pc = "call"
  /\ calls # <<>> /\ Head(calls) = "on_connect"
  /\ calls' = Tail(calls)
  /\ reads' = reads + 1
  /\ _send_message("register")
  /\ app' = app + 1
  /\ UNCHANGED <<link, writing, first, m_cb_mgr, pc, breaks, sends>>

\* tcp_session::on_close of a session without a tcp_server, and the application's
on_close ==
  /\ pc = "call"
  /\ calls # <<>> /\ Head(calls) = "on_close"
  /\ calls' = Tail(calls)
  /\ app' = app - 1
  /\ UNCHANGED <<client, link, ioVars, first, m_cb_mgr, pc, breaks, sends>>

endPoll ==
  /\ pc = "call"
  /\ calls = <<>>
  /\ pc' = "app"
  /\ UNCHANGED <<client, link, ioVars, first, m_cb_mgr, calls, app, breaks, sends>>

\* The rest of the main loop, in which the application sends
send ==
  /\ pc = "app"
  /\ sends < MaxSends
  /\ Told => app = 1
  /\ sends' = sends + 1
  /\ _send_message("data")
  /\ UNCHANGED <<link, reads, writing, first, m_cb_mgr, calls, pc, app, breaks>>

endLoop ==
  /\ pc = "app"
  /\ pc' = "run"
  /\ UNCHANGED <<client, link, ioVars, first, m_cb_mgr, calls, app, breaks, sends>>

-----------------------------------------------------------------------------
io == read_failed \/ _write_message \/ handle_write \/ write_failed
main == noReconnect \/ poll \/ on_connect \/ on_close \/ endPoll \/ endLoop

Next == io \/ connected \/ connect_failed \/ broken \/ main \/ reconnect \/ send

Spec == Init /\ [][Next]_vars

-----------------------------------------------------------------------------
(* Properties *)

\* The client has a connection that works.
up == client.m_isconnected /\ link = "open" /\ reads > 0

\* on_connect and on_close alternate, and a connection begins with the registration.
InTurn == app \in 0..1 /\ first # "data"
=============================================================================
