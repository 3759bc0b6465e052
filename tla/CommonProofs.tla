----------------------------- MODULE CommonProofs -----------------------------
(***************************************************************************)
(* The pool of sessions of a tcp_server, for any number of sessions and     *)
(* connections and for every behaviour of the threads that TcpPool has; and *)
(* the timers, for any objects, periods and lengths of updates and any      *)
(* bound on the events, with callbacks that add, remove and change events   *)
(* and delete objects while the list is gone through.                       *)
(***************************************************************************)
EXTENDS MCCommon, FiniteSetTheorems, SequenceTheorems, TLAPS

-----------------------------------------------------------------------------
(* Counting *)

\* The places of s in the queue q
places(q, s) == {i \in DOMAIN q : q[i] = s}

\* The places of an element in a queue can be counted.
LEMMA CountType ==
  ASSUME NEW S, NEW q \in Seq(S), NEW s
  PROVE  /\ IsFiniteSet(places(q, s))
         /\ Cardinality(places(q, s)) \in Nat
<1>1. DOMAIN q = 1..Len(q) /\ Len(q) \in Nat
  OBVIOUS
<1>2. places(q, s) \in SUBSET (1..Len(q)) /\ IsFiniteSet(1..Len(q))
  BY <1>1, FS_Interval DEF places
<1> QED
  BY <1>2, FS_Subset, FS_CardinalityType

\* A session that is put back into the pool is there once more.
LEMMA CountAppend ==
  ASSUME NEW S, NEW q \in Seq(S), NEW x \in S, NEW s
  PROVE  Cardinality(places(Append(q, x), s)) =
           Cardinality(places(q, s)) + (IF x = s THEN 1 ELSE 0)
<1> DEFINE r == Append(q, x)
           n == Len(q) + 1
<1>1. /\ DOMAIN q = 1..Len(q) /\ Len(q) \in Nat /\ DOMAIN r = 1..n /\ r[n] = x
      /\ \A i \in 1..Len(q) : r[i] = q[i]
  OBVIOUS
<1> HIDE DEF r
<1>2. CASE x = s
  <2>1. places(r, s) = places(q, s) \cup {n} /\ n \notin places(q, s)
    BY <1>1, <1>2 DEF places
  <2> QED
    BY <1>2, <2>1, CountType, FS_AddElement DEF r
<1>3. CASE x # s
  <2>1. places(r, s) = places(q, s)
    BY <1>1, <1>3 DEF places
  <2> QED
    BY <1>3, <2>1, CountType DEF r
<1> QED
  BY <1>2, <1>3

\* How often s is among the first n of q, and what is behind them
timesInFront(q, n, s) == Cardinality({i \in 1..n : SubSeq(q, 1, n)[i] = s})
behind(q, n) == SubSeq(q, n + 1, Len(q))

\* When the front of the pool is taken, nothing is lost.
LEMMA CountSplit ==
  ASSUME NEW S, NEW q \in Seq(S), NEW n \in 0..Len(q), NEW s
  PROVE  /\ behind(q, n) \in Seq(S)
         /\ timesInFront(q, n, s) \in Nat
         /\ Cardinality(places(q, s)) = timesInFront(q, n, s) + Cardinality(places(behind(q, n), s))
<1> DEFINE front == SubSeq(q, 1, n)
           rest == SubSeq(q, n + 1, Len(q))
           F == {i \in 1..n : front[i] = s}
           T == {i \in (n + 1)..Len(q) : q[i] = s}
<1>1. DOMAIN q = 1..Len(q) /\ Len(q) \in Nat /\ n \in Nat
  OBVIOUS
<1>2. /\ rest \in Seq(S) /\ DOMAIN rest = 1..(Len(q) - n)
      /\ \A i \in 1..(Len(q) - n) : rest[i] = q[i + n]
  OBVIOUS
<1>3. \A i \in 1..n : front[i] = q[i]
  OBVIOUS
<1> HIDE DEF front, rest
<1>4. F \in SUBSET (1..Len(q)) /\ T \in SUBSET (1..Len(q)) /\ IsFiniteSet(1..Len(q))
  <2>1. 1 \in Int /\ Len(q) \in Int
    BY <1>1
  <2>2. IsFiniteSet(1..Len(q))
    BY ONLY <2>1, FS_Interval
  <2>3. F \in SUBSET (1..Len(q)) /\ T \in SUBSET (1..Len(q))
    BY <1>1
  <2> QED
    BY <2>2, <2>3
<1>5. /\ IsFiniteSet(F) /\ IsFiniteSet(T)
      /\ Cardinality(F) \in Nat /\ Cardinality(T) \in Nat
  BY <1>4, FS_Subset, FS_CardinalityType
<1>6. places(q, s) = F \cup T /\ F \cap T = {}
  BY <1>1, <1>3 DEF places
<1> HIDE DEF F, T
<1>7. Cardinality(places(q, s)) = Cardinality(F) + Cardinality(T)
  <2>1. Cardinality(F \cap T) = 0
    BY ONLY <1>6, FS_EmptySet
  <2>2. Cardinality(F \cup T) = Cardinality(F) + Cardinality(T) - Cardinality(F \cap T)
    BY ONLY <1>5, FS_Union
  <2> QED
    BY ONLY <1>5, <1>6, <2>1, <2>2
<1>8. Cardinality(places(rest, s)) = Cardinality(T)
  <2> DEFINE f == [i \in T |-> i - n]
  <2>1. f \in [T -> places(rest, s)]
    BY <1>1, <1>2 DEF places, T
  <2>2. \A i, j \in T : f[i] = f[j] => i = j
    BY <1>1 DEF T
  <2>3. \A k \in places(rest, s) : k + n \in T /\ f[k + n] = k
    BY <1>1, <1>2 DEF places, T
  <2>4. f \in Bijection(T, places(rest, s))
    BY <2>1, <2>2, <2>3 DEF Bijection, Injection, Surjection, IsInjective
  <2>5. ExistsBijection(T, places(rest, s))
    BY <2>4 DEF ExistsBijection
  <2> QED
    BY <1>5, <2>5, FS_Bijection
<1> QED
  BY <1>2, <1>5, <1>7, <1>8 DEF F, front, rest, timesInFront, behind

\* A new pool has every session once.
LEMMA CountAll ==
  ASSUME NEW S, IsFiniteSet(S)
  PROVE  inOrder(S) \in Seq(S) /\ \A s \in S : Cardinality(places(inOrder(S), s)) = 1
<1> DEFINE n == Cardinality(S)
           P(q) == q \in [1..n -> S] /\ {q[i] : i \in DOMAIN q} = S
<1>1. n \in Nat /\ ExistsBijection(1..n, S)
  BY FS_CardinalityType
<1>2. PICK f : f \in Bijection(1..n, S)
  BY <1>1 DEF ExistsBijection
<1>3. f \in [1..n -> S] /\ \A x \in S : \E i \in 1..n : f[i] = x
  BY <1>2 DEF Bijection, Injection, Surjection
<1>4. \E q \in [1..n -> S] : {q[i] : i \in DOMAIN q} = S
  BY <1>3
<1> DEFINE q == inOrder(S)
<1>5. q \in [1..n -> S] /\ {q[i] : i \in DOMAIN q} = S
  BY <1>4 DEF inOrder
<1> HIDE DEF q
<1>6. q \in Surjection(1..n, S)
  BY <1>5 DEF Surjection
<1>7. IsFiniteSet(1..n) /\ Cardinality(1..n) = n
  BY <1>1, FS_Interval
<1>8. q \in Injection(1..n, S)
  BY <1>6, <1>7, FS_SurjSameCardinalityImpliesInj
<1>9. ASSUME NEW s \in S PROVE Cardinality(places(q, s)) = 1
  <2>1. PICK i \in 1..n : q[i] = s
    BY <1>5
  <2>2. places(q, s) = {i}
    BY <1>5, <1>8, <2>1 DEF places, Injection, IsInjective
  <2> QED
    BY <2>2, FS_Singleton
<1>10. q \in Seq(S)
  BY <1>1, <1>5
<1> QED
  BY <1>9, <1>10 DEF q

-----------------------------------------------------------------------------
(* What is posted to the io_service of a session *)

Posts == {"accept", "close", "write"}

\* A connection that the acceptor handed over and that the session's thread has not met
handedOver(q) == \E i \in DOMAIN q : q[i] = "accept"
oneHandedOver(q) == \A i, j \in DOMAIN q : q[i] = "accept" /\ q[j] = "accept" => i = j

\* What is posted after it, and what is not an accept, leaves the accept where it is.
LEMMA PostAppend ==
  ASSUME NEW q \in Seq(Posts), NEW x \in Posts
  PROVE  /\ Append(q, x) \in Seq(Posts)
         /\ handedOver(Append(q, x)) <=> handedOver(q) \/ x = "accept"
         /\ oneHandedOver(q) /\ (x = "accept" => ~handedOver(q)) => oneHandedOver(Append(q, x))
<1> DEFINE r == Append(q, x)
           n == Len(q) + 1
<1>1. /\ DOMAIN q = 1..Len(q) /\ Len(q) \in Nat /\ DOMAIN r = 1..n /\ r[n] = x
      /\ \A i \in 1..Len(q) : r[i] = q[i]
      /\ r \in Seq(Posts)
  OBVIOUS
<1> HIDE DEF r
<1>2. handedOver(r) <=> handedOver(q) \/ x = "accept"
  BY <1>1 DEF handedOver
<1>3. oneHandedOver(q) /\ (x = "accept" => ~handedOver(q)) => oneHandedOver(r)
  BY <1>1 DEF handedOver, oneHandedOver
<1> QED
  BY <1>1, <1>2, <1>3 DEF r

\* Running the first thing posted takes the accept away if it is one.
LEMMA PostTail ==
  ASSUME NEW q \in Seq(Posts), q # <<>>
  PROVE  /\ Tail(q) \in Seq(Posts)
         /\ Head(q) # "accept" => (handedOver(Tail(q)) <=> handedOver(q))
         /\ oneHandedOver(q) => oneHandedOver(Tail(q))
         /\ Head(q) = "accept" /\ oneHandedOver(q) => handedOver(q) /\ ~handedOver(Tail(q))
<1> DEFINE r == Tail(q)
<1>1. /\ DOMAIN q = 1..Len(q) /\ Len(q) \in Nat \ {0} /\ DOMAIN r = 1..(Len(q) - 1)
      /\ \A i \in 1..(Len(q) - 1) : r[i] = q[i + 1]
      /\ r \in Seq(Posts) /\ Head(q) = q[1]
  OBVIOUS
<1> HIDE DEF r
<1>2. \A i \in DOMAIN q : i = 1 \/ (i - 1 \in DOMAIN r /\ r[i - 1] = q[i])
  BY <1>1
<1>3. \A i \in DOMAIN r : i + 1 \in DOMAIN q /\ i + 1 # 1 /\ r[i] = q[i + 1]
  BY <1>1
<1>4. Head(q) # "accept" => (handedOver(r) <=> handedOver(q))
  BY <1>1, <1>2, <1>3 DEF handedOver
<1>5. oneHandedOver(q) => oneHandedOver(r)
  BY <1>1, <1>3 DEF oneHandedOver
<1>6. Head(q) = "accept" /\ oneHandedOver(q) => handedOver(q) /\ ~handedOver(r)
  BY <1>1, <1>3 DEF handedOver, oneHandedOver
<1> QED
  BY <1>1, <1>4, <1>5, <1>6 DEF r

-----------------------------------------------------------------------------
(* The inductive invariant *)

Record == [m_isvalid : BOOLEAN, m_isconnected : BOOLEAN, m_father : BOOLEAN,
           m_is_sending_data : BOOLEAN, m_queue_send_msg : BOOLEAN, conn : Nat, open : BOOLEAN]
Callback == [f : {"on_accept", "on_close"}, s : Sessions, conn : Nat]

\* The types of what the pool depends on
PoolTyped ==
  /\ m_sessions \in Seq(Sessions)
  /\ listening \in [Sessions -> Nat]
  /\ session \in [Sessions -> Record]
  /\ posted \in [Sessions -> Seq(Posts)]
  /\ m_cb_mgr \in Seq(Callback)
  /\ calls \in Seq(Callback)
  /\ conns \in Nat

\* A session has a server or an accept on its way, and at most one accept.
served(s) == session[s].m_father \/ handedOver(posted[s])
OneAccept(s) == oneHandedOver(posted[s]) /\ (session[s].m_father => ~handedOver(posted[s]))

\* Every session is in one place: the count of UsedOnce with the accepts that are under way.
PlacedOnce(s) ==
  Cardinality(places(m_sessions, s)) + listening[s] + (IF served(s) THEN 1 ELSE 0) = 1

PoolInv == PoolTyped /\ \A s \in Sessions : OneAccept(s) /\ PlacedOnce(s)

\* The count of the invariant is the one that UsedOnce makes.
LEMMA InvUsedOnce == PoolInv => UsedOnce
  BY DEF PoolInv, PlacedOnce, UsedOnce, uses, served, handedOver, places

\* A new pool: every session in it once, none listening and none serving
LEMMA InitPool == Init => PoolInv
<1> SUFFICES ASSUME Init PROVE PoolInv
  OBVIOUS
<1>1. inOrder(Sessions) \in Seq(Sessions)
      /\ \A s \in Sessions : Cardinality(places(inOrder(Sessions), s)) = 1
  BY TcpPoolConstants, CountAll
<1>2. PoolTyped
  BY <1>1 DEF Init, PoolTyped, unused, Record
<1>3. ASSUME NEW s \in Sessions PROVE OneAccept(s) /\ PlacedOnce(s)
  BY <1>1, <1>3 DEF Init, OneAccept, PlacedOnce, served, handedOver, oneHandedOver, unused
<1> QED
  BY <1>2, <1>3 DEF PoolInv

\* A step leaves the accepts that are posted where they are, and the sessions' servers.
SamePosts ==
  /\ posted' \in [Sessions -> Seq(Posts)]
  /\ \A t \in Sessions : /\ handedOver(posted'[t]) <=> handedOver(posted[t])
                         /\ oneHandedOver(posted[t]) => oneHandedOver(posted'[t])
SameServers ==
  /\ session' \in [Sessions -> Record]
  /\ \A t \in Sessions : session'[t].m_father = session[t].m_father
Callbacks == m_cb_mgr' \in Seq(Callback) /\ calls' \in Seq(Callback) /\ conns' \in Nat

\* Such a step keeps the invariant if it moves no session.
LEMMA Quiet ==
  ASSUME PoolInv, SamePosts, SameServers, Callbacks, UNCHANGED <<m_sessions, listening>>
  PROVE  PoolInv'
<1>1. ASSUME NEW s \in Sessions PROVE OneAccept(s)' /\ PlacedOnce(s)'
  <2>1. served(s)' <=> served(s)
    BY <1>1 DEF served, SamePosts, SameServers
  <2>2. OneAccept(s) /\ PlacedOnce(s)
    BY <1>1 DEF PoolInv
  <2>3. OneAccept(s)'
    BY <1>1, <2>2 DEF OneAccept, SamePosts, SameServers
  <2>4. PlacedOnce(s)'
    BY <2>1, <2>2 DEF PlacedOnce
  <2> QED
    BY <2>3, <2>4
<1>2. PoolTyped'
  BY DEF PoolTyped, SamePosts, SameServers, Callbacks, PoolInv
<1> QED
  BY <1>1, <1>2 DEF PoolInv

\* What is not posted, or is not an accept, leaves the accepts alone.
LEMMA PostsKept ==
  ASSUME PoolInv, NEW s \in Sessions
  PROVE  /\ UNCHANGED posted => SamePosts
         /\ posted[s] # <<>> /\ Head(posted[s]) # "accept"
              /\ posted' = [posted EXCEPT ![s] = Tail(@)] => SamePosts
         /\ \A x \in Posts \ {"accept"} :
              posted' = [posted EXCEPT ![s] = Append(@, x)] => SamePosts
<1>1. posted \in [Sessions -> Seq(Posts)]
  BY DEF PoolInv, PoolTyped
<1> DEFINE q == posted[s]
<1>2. q \in Seq(Posts)
  BY <1>1
<1>3. UNCHANGED posted => SamePosts
  BY <1>1 DEF SamePosts
<1>4. ASSUME q # <<>>, Head(q) # "accept", posted' = [posted EXCEPT ![s] = Tail(@)]
      PROVE  SamePosts
  <2>1. /\ Tail(q) \in Seq(Posts)
        /\ handedOver(Tail(q)) <=> handedOver(q)
        /\ oneHandedOver(q) => oneHandedOver(Tail(q))
    BY <1>2, <1>4, PostTail
  <2> DEFINE r == Tail(q)
  <2>2. posted' = [posted EXCEPT ![s] = r]
    BY <1>4
  <2> HIDE DEF r
  <2>3. r \in Seq(Posts) /\ (handedOver(r) <=> handedOver(q)) /\ (oneHandedOver(q) => oneHandedOver(r))
    BY <2>1 DEF r
  <2> QED
    BY <1>1, <2>2, <2>3 DEF SamePosts
<1>5. ASSUME NEW x \in Posts \ {"accept"}, posted' = [posted EXCEPT ![s] = Append(@, x)]
      PROVE  SamePosts
  <2> DEFINE r == Append(q, x)
  <2>2. posted' = [posted EXCEPT ![s] = r]
    BY <1>5
  <2>3. r \in Seq(Posts) /\ (handedOver(r) <=> handedOver(q)) /\ (oneHandedOver(q) => oneHandedOver(r))
    BY <1>2, <1>5, PostAppend
  <2> HIDE DEF r
  <2> QED
    BY <1>1, <2>2, <2>3 DEF SamePosts
<1> QED
  BY <1>3, <1>4, <1>5

\* A session that is set to a record with the same server
LEMMA ServersKept ==
  ASSUME PoolInv, NEW s \in Sessions, NEW x \in Record, x.m_father = session[s].m_father,
         session' = [session EXCEPT ![s] = x]
  PROVE  SameServers
  BY DEF PoolInv, PoolTyped, SameServers

\* A handler that ends in an error closes the session, and adds on_close if there is a server.
LEMMA ClosedKept ==
  ASSUME PoolInv, NEW s \in Sessions
  PROVE  /\ closed(s) \in Record /\ closed(s).m_father = session[s].m_father
         /\ onCloseAdded(s) \in Seq(Callback)
<1>1. session[s] \in Record /\ m_cb_mgr \in Seq(Callback)
  BY DEF PoolInv, PoolTyped
<1>2. closed(s) \in Record /\ closed(s).m_father = session[s].m_father
  BY <1>1 DEF closed, Record
<1>3. [f |-> "on_close", s |-> s, conn |-> session[s].conn] \in Callback
  BY <1>1 DEF Record, Callback
<1>4. onCloseAdded(s) \in Seq(Callback)
  BY <1>1, <1>3 DEF onCloseAdded
<1> QED
  BY <1>2, <1>4

\* ... and failed(s) likewise, whether the session is valid or not.
LEMMA FailedKept ==
  ASSUME PoolInv, NEW s \in Sessions, failed(s)
  PROVE  SameServers /\ m_cb_mgr' \in Seq(Callback)
<1>1. CASE session[s].m_isvalid
  BY <1>1, ClosedKept, ServersKept DEF failed
<1>2. CASE ~session[s].m_isvalid
  BY <1>2 DEF failed, SameServers, PoolInv, PoolTyped
<1> QED
  BY <1>1, <1>2

-----------------------------------------------------------------------------
(* The steps *)

\* The session's thread, but for handle_accept: no step moves the session.
LEMMA IoStep ==
  ASSUME PoolInv, NEW s \in Sessions, io(s), ~handle_accept(s)
  PROVE  PoolInv'
<1> USE DEF ioVars, mainVars, appVars
<1>1. /\ session[s] \in Record /\ m_cb_mgr \in Seq(Callback) /\ calls \in Seq(Callback)
      /\ session \in [Sessions -> Record] /\ conns \in Nat
  BY DEF PoolInv, PoolTyped
<1>2. CASE handle_close(s)
  <2> DEFINE x == [session[s] EXCEPT !.open = FALSE, !.m_isconnected = FALSE]
  <2>1. x \in Record /\ x.m_father = session[s].m_father
    BY <1>1 DEF Record
  <2>2. session' = [session EXCEPT ![s] = x]
    BY <1>1, <1>2 DEF handle_close
  <2> HIDE DEF x
  <2>3. SameServers
    BY <2>1, <2>2, ServersKept
  <2> QED
    BY <1>1, <1>2, <2>3, PostsKept, Quiet DEF handle_close, Callbacks
<1>3. CASE _write_message(s)
  <2>1. written(session[s]) \in Record /\ written(session[s]).m_father = session[s].m_father
    BY <1>1 DEF written, Record
  <2>2. session' = session \/ session' = [session EXCEPT ![s] = written(session[s])]
    BY <1>3 DEF _write_message
  <2>3. SameServers
    BY <1>1, <2>1, <2>2, ServersKept DEF SameServers
  <2> QED
    BY <1>1, <1>3, <2>3, PostsKept, Quiet DEF _write_message, Callbacks
<1>4. CASE handle_read_some(s)
  BY <1>1, <1>4, PostsKept, Quiet DEF handle_read_some, Callbacks, SameServers
<1>5. CASE wrong_length(s)
  BY <1>1, <1>5, PostsKept, Quiet DEF wrong_length, Callbacks, SameServers, Posts
<1>6. CASE wrong_check_sum(s)
  <2>1. SameServers
    BY <1>6, ClosedKept, ServersKept DEF wrong_check_sum
  <2>2. SamePosts
    BY <1>6, PostsKept DEF wrong_check_sum, Posts
  <2> QED
    BY <1>1, <1>6, <2>1, <2>2, ClosedKept, Quiet DEF wrong_check_sum, Callbacks
<1>7. CASE read_failed(s)
  BY <1>1, <1>7, FailedKept, PostsKept, Quiet DEF read_failed, Callbacks
<1>8. CASE handle_write(s)
  <2> DEFINE x == [session[s] EXCEPT !.m_is_sending_data = FALSE]
  <2>1. x \in Record /\ x.m_father = session[s].m_father
    BY <1>1 DEF Record
  <2>2. \/ session' = session
        \/ session' = [session EXCEPT ![s] = x]
        \/ session' = [session EXCEPT ![s] = written(x)]
    BY <1>8 DEF handle_write
  <2> HIDE DEF x
  <2>3. written(x) \in Record /\ written(x).m_father = session[s].m_father
    BY <2>1 DEF written, Record
  <2>4. SameServers
    BY <1>1, <2>1, <2>2, <2>3, ServersKept DEF SameServers
  <2> QED
    BY <1>1, <1>8, <2>4, PostsKept, Quiet DEF handle_write, Callbacks
<1>9. CASE write_failed(s)
  BY <1>1, <1>9, FailedKept, PostsKept, Quiet DEF write_failed, Callbacks
<1> QED
  BY <1>2, <1>3, <1>4, <1>5, <1>6, <1>7, <1>8, <1>9 DEF io

\* The session's thread meets the connection: the accept goes and the server comes.
LEMMA AcceptStep ==
  ASSUME PoolInv, NEW s \in Sessions, handle_accept(s)
  PROVE  PoolInv'
<1> USE DEF ioVars, mainVars, appVars
<1>1. PoolTyped /\ OneAccept(s) /\ PlacedOnce(s)
  BY DEF PoolInv
<1> DEFINE q == posted[s]
           r == Tail(q)
           x == [session[s] EXCEPT !.m_isvalid = TRUE, !.m_isconnected = TRUE, !.m_father = TRUE]
<1>2. q \in Seq(Posts) /\ q # <<>> /\ Head(q) = "accept" /\ oneHandedOver(q)
  BY <1>1 DEF PoolTyped, handle_accept, OneAccept
<1>3. r \in Seq(Posts) /\ handedOver(q) /\ ~handedOver(r) /\ oneHandedOver(r)
  BY <1>2, PostTail
<1>4. x \in Record /\ x.m_father
  BY <1>1 DEF PoolTyped, Record
<1>5. posted' = [posted EXCEPT ![s] = r] /\ session' = [session EXCEPT ![s] = x]
  BY <1>1 DEF handle_accept, PoolTyped
<1>6. UNCHANGED <<m_sessions, listening, calls, conns>>
  BY DEF handle_accept
<1>7. m_cb_mgr' \in Seq(Callback)
  <2>1. [f |-> "on_accept", s |-> s, conn |-> session[s].conn] \in Callback
    BY <1>1 DEF PoolTyped, Record, Callback
  <2> QED
    BY <1>1, <2>1 DEF handle_accept, PoolTyped
<1> HIDE DEF r, x
<1>8. PoolTyped'
  BY <1>1, <1>3, <1>4, <1>5, <1>6, <1>7 DEF PoolTyped
<1>9. ASSUME NEW t \in Sessions PROVE OneAccept(t)' /\ PlacedOnce(t)'
  <2>1. OneAccept(t) /\ PlacedOnce(t)
    BY DEF PoolInv
  <2>2. t # s => posted'[t] = posted[t] /\ session'[t] = session[t]
    BY <1>1, <1>5 DEF PoolTyped
  <2>3. posted'[s] = r /\ session'[s] = x
    BY <1>1, <1>5 DEF PoolTyped
  <2>4. served(t)' <=> served(t)
    BY <1>3, <1>4, <2>2, <2>3 DEF served
  <2>5. OneAccept(t)'
    BY <1>3, <2>1, <2>2, <2>3 DEF OneAccept
  <2>6. PlacedOnce(t)'
    BY <1>6, <2>1, <2>4 DEF PlacedOnce
  <2> QED
    BY <2>5, <2>6
<1> QED
  BY <1>8, <1>9 DEF PoolInv

\* A session that listens listens once, is not in the pool and serves nobody.
LEMMA Listens ==
  ASSUME PoolInv, NEW s \in Sessions, listening[s] > 0
  PROVE  /\ listening[s] = 1 /\ ~served(s)
         /\ Cardinality(places(m_sessions, s)) = 0
<1>1. PlacedOnce(s) /\ listening[s] \in Nat /\ m_sessions \in Seq(Sessions)
  BY DEF PoolInv, PoolTyped
<1>2. Cardinality(places(m_sessions, s)) \in Nat
  BY <1>1, CountType
<1> QED
  BY <1>1, <1>2 DEF PlacedOnce

\* A session that has a server is not in the pool and does not listen.
LEMMA Serves ==
  ASSUME PoolInv, NEW s \in Sessions, session[s].m_father
  PROVE  /\ listening[s] = 0 /\ Cardinality(places(m_sessions, s)) = 0
         /\ ~handedOver(posted[s])
<1>1. PlacedOnce(s) /\ OneAccept(s) /\ listening[s] \in Nat /\ m_sessions \in Seq(Sessions)
  BY DEF PoolInv, PoolTyped
<1>2. Cardinality(places(m_sessions, s)) \in Nat
  BY <1>1, CountType
<1> QED
  BY <1>1, <1>2 DEF PlacedOnce, OneAccept, served

\* The acceptor hands a connection over: the session stops listening and serves.
LEMMA AcceptedStep ==
  ASSUME PoolInv, NEW s \in Sessions, accepted(s)
  PROVE  PoolInv'
<1> USE DEF ioVars, mainVars, appVars
<1>1. PoolTyped /\ OneAccept(s) /\ PlacedOnce(s)
  BY DEF PoolInv
<1> DEFINE q == posted[s]
           r == Append(q, "accept")
           c == conns + 1
           x == [session[s] EXCEPT !.conn = c, !.open = TRUE]
<1>2. /\ listening[s] = 1 /\ ~session[s].m_father /\ ~handedOver(q)
      /\ Cardinality(places(m_sessions, s)) = 0
  BY Listens DEF accepted, served
<1>3. q \in Seq(Posts) /\ oneHandedOver(q)
  BY <1>1 DEF PoolTyped, OneAccept
<1>4. r \in Seq(Posts) /\ handedOver(r) /\ oneHandedOver(r)
  BY <1>2, <1>3, PostAppend DEF Posts
<1>5. x \in Record /\ ~x.m_father
  <2>1. c \in Nat /\ session[s] \in Record
    BY <1>1 DEF PoolTyped
  <2> HIDE DEF c
  <2> QED
    BY <1>2, <2>1 DEF Record
<1>6. /\ posted' = [posted EXCEPT ![s] = r] /\ session' = [session EXCEPT ![s] = x]
      /\ listening' = [listening EXCEPT ![s] = 0]
  <2>1. session' = [session EXCEPT ![s] = x]
    BY <1>1 DEF accepted, PoolTyped
  <2>2. posted' = [posted EXCEPT ![s] = r] /\ listening' = [listening EXCEPT ![s] = 0]
    BY <1>1, <1>2 DEF accepted, PoolTyped
  <2> QED
    BY <2>1, <2>2
<1>7. UNCHANGED <<m_sessions, m_cb_mgr, calls>> /\ conns' \in Nat
  BY <1>1 DEF accepted, PoolTyped
<1> HIDE DEF r, x
<1>8. PoolTyped'
  BY <1>1, <1>4, <1>5, <1>6, <1>7 DEF PoolTyped
<1>9. ASSUME NEW t \in Sessions PROVE OneAccept(t)' /\ PlacedOnce(t)'
  <2>1. OneAccept(t) /\ PlacedOnce(t)
    BY DEF PoolInv
  <2>2. t # s => /\ posted'[t] = posted[t] /\ session'[t] = session[t]
                 /\ listening'[t] = listening[t]
    BY <1>1, <1>6 DEF PoolTyped
  <2>3. posted'[s] = r /\ session'[s] = x /\ listening'[s] = 0
    BY <1>1, <1>6 DEF PoolTyped
  <2>4. OneAccept(t)'
    BY <1>4, <1>5, <2>1, <2>2, <2>3 DEF OneAccept
  <2>5. CASE t = s
    <3>1. served(t)'
      BY <1>4, <2>3, <2>5 DEF served
    <3>2. Cardinality(places(m_sessions, t))' = 0
      BY <1>2, <1>7, <2>5
    <3> QED
      BY <2>3, <2>4, <2>5, <3>1, <3>2 DEF PlacedOnce
  <2>6. CASE t # s
    <3>1. served(t)' <=> served(t)
      BY <2>2, <2>6 DEF served
    <3> QED
      BY <1>7, <2>1, <2>2, <2>4, <2>6, <3>1 DEF PlacedOnce
  <2> QED
    BY <2>5, <2>6
<1> QED
  BY <1>8, <1>9 DEF PoolInv

\* A session that is reset, that neither listens nor has an accept posted afterwards, is back
\* in the pool once.
LEMMA BackInPool ==
  ASSUME PoolInv, NEW s \in Sessions, PoolTyped', UNCHANGED posted,
         Cardinality(places(m_sessions, s)) = 0, ~handedOver(posted[s]),
         m_sessions' = Append(m_sessions, s),
         session' = [session EXCEPT ![s] = unused],
         listening' = [listening EXCEPT ![s] = 0]
  PROVE  PoolInv'
<1>1. PoolTyped
  BY DEF PoolInv
<1>2. ASSUME NEW t \in Sessions PROVE OneAccept(t)' /\ PlacedOnce(t)'
  <2>1. OneAccept(t) /\ PlacedOnce(t)
    BY DEF PoolInv
  <2>2. t # s => session'[t] = session[t] /\ listening'[t] = listening[t]
    BY <1>1 DEF PoolTyped
  <2>3. ~session'[s].m_father /\ listening'[s] = 0
    BY <1>1 DEF PoolTyped, unused
  <2>4. Cardinality(places(m_sessions, t))' =
          Cardinality(places(m_sessions, t)) + (IF s = t THEN 1 ELSE 0)
    BY <1>1, CountAppend DEF PoolTyped
  <2>5. OneAccept(t)'
    BY <2>1, <2>2, <2>3 DEF OneAccept
  <2>6. CASE t = s
    <3>1. ~served(t)'
      BY <2>3, <2>6 DEF served
    <3> QED
      BY <2>3, <2>4, <2>5, <2>6, <3>1 DEF PlacedOnce
  <2>7. CASE t # s
    <3>1. served(t)' <=> served(t)
      BY <2>2, <2>7 DEF served
    <3>2. Cardinality(places(m_sessions, t)) \in Nat
      BY <1>1, CountType DEF PoolTyped
    <3> QED
      BY <2>1, <2>2, <2>4, <2>5, <2>7, <3>1, <3>2 DEF PlacedOnce
  <2> QED
    BY <2>6, <2>7
<1> QED
  BY <1>2 DEF PoolInv

\* A banned address: the session that listened goes back.
LEMMA RefusedStep ==
  ASSUME PoolInv, NEW s \in Sessions, refused(s)
  PROVE  PoolInv'
<1> USE DEF ioVars, mainVars, appVars
<1>1. PoolTyped
  BY DEF PoolInv
<1>2. listening[s] = 1 /\ ~handedOver(posted[s]) /\ Cardinality(places(m_sessions, s)) = 0
  BY Listens DEF refused, served
<1>3. listening' = [listening EXCEPT ![s] = 0]
  BY <1>1, <1>2 DEF refused, PoolTyped
<1>4. /\ UNCHANGED <<posted, m_cb_mgr, calls>> /\ conns' \in Nat
      /\ m_sessions' = Append(m_sessions, s) /\ session' = [session EXCEPT ![s] = unused]
  BY <1>1 DEF refused, PoolTyped
<1>5. PoolTyped'
  BY <1>1, <1>3, <1>4 DEF PoolTyped, unused, Record
<1> QED
  BY <1>2, <1>3, <1>4, <1>5, BackInPool

\* The end of a connection: the session goes back if it has a server, and only then.
LEMMA CloseStep ==
  ASSUME PoolInv, on_close
  PROVE  PoolInv'
<1> USE DEF ioVars, mainVars, appVars
<1>1. PoolTyped
  BY DEF PoolInv
<1> DEFINE s == Head(calls).s
<1>2. Head(calls) \in Callback /\ Tail(calls) \in Seq(Callback)
  BY <1>1 DEF on_close, PoolTyped
<1>3. s \in Sessions
  BY <1>2 DEF Callback
<1>4. UNCHANGED <<listening, posted, m_cb_mgr, conns>> /\ calls' \in Seq(Callback)
  BY <1>2 DEF on_close
<1>5. CASE session[s].m_father
  <2>1. listening[s] = 0 /\ ~handedOver(posted[s]) /\ Cardinality(places(m_sessions, s)) = 0
    BY <1>3, <1>5, Serves
  <2>2. m_sessions' = Append(m_sessions, s) /\ session' = [session EXCEPT ![s] = unused]
    BY <1>5 DEF on_close
  <2> HIDE DEF s
  <2>3. listening' = [listening EXCEPT ![s] = 0]
    BY <1>1, <1>4, <2>1 DEF PoolTyped
  <2>4. PoolTyped'
    BY <1>1, <1>3, <1>4, <2>2 DEF PoolTyped, unused, Record
  <2> QED
    BY <1>3, <1>4, <2>1, <2>2, <2>3, <2>4, BackInPool
<1>6. CASE ~session[s].m_father
  <2>1. UNCHANGED <<session, m_sessions>>
    BY <1>6 DEF on_close
  <2>2. SamePosts /\ SameServers /\ Callbacks
    BY <1>1, <1>4, <2>1 DEF SamePosts, SameServers, Callbacks, PoolTyped
  <2> QED
    BY <1>4, <2>1, <2>2, Quiet
<1> QED
  BY <1>5, <1>6

\* The sessions at the front of the pool listen: what leaves the pool is what listens.
LEMMA ListenStep ==
  ASSUME PoolInv, listen
  PROVE  PoolInv'
<1> USE DEF ioVars, mainVars, appVars
<1> DEFINE total == MaxConns + Cardinality(Sessions)
           accepting == Cardinality({x \in Sessions \X (1..total) : x[2] <= listening[x[1]]})
           once == s_io_once_listen_session_count
           n == IF accepting < once THEN Less(Len(m_sessions), once - accepting) ELSE 0
           rest == behind(m_sessions, n)
           times(s) == timesInFront(m_sessions, n, s)
<1>1. PoolTyped /\ once \in Nat /\ MaxConns \in Nat
  BY TcpPoolConstants DEF PoolInv
<1>2. /\ m_sessions' = rest
      /\ listening' = [s \in Sessions |-> listening[s] + times(s)]
      /\ session' = [s \in Sessions |->
           IF times(s) > 0 THEN [session[s] EXCEPT !.m_isvalid = TRUE] ELSE session[s]]
      /\ UNCHANGED <<posted, m_cb_mgr, calls, conns>>
  BY DEF listen, timesInFront, behind
<1>3. accepting \in Nat
  <2>1. Cardinality(Sessions) \in Nat
    BY TcpPoolConstants, FS_CardinalityType
  <2>2. 1 \in Int /\ total \in Int
    BY <1>1, <2>1
  <2>3. IsFiniteSet(1..total)
    BY ONLY <2>2, FS_Interval
  <2>4. IsFiniteSet(Sessions \X (1..total))
    BY <2>3, TcpPoolConstants, FS_Product
  <2>5. IsFiniteSet({x \in Sessions \X (1..total) : x[2] <= listening[x[1]]})
    BY <2>4, FS_Subset
  <2> QED
    BY <2>5, FS_CardinalityType
<1> HIDE DEF accepting
<1>4. n \in 0..Len(m_sessions) /\ m_sessions \in Seq(Sessions)
  BY <1>1, <1>3 DEF Less, PoolTyped
<1> HIDE DEF n
<1>5. ASSUME NEW s \in Sessions
      PROVE  /\ rest \in Seq(Sessions) /\ times(s) \in Nat
             /\ Cardinality(places(m_sessions, s)) = times(s) + Cardinality(places(rest, s))
             /\ Cardinality(places(rest, s)) \in Nat
  <2>1. /\ rest \in Seq(Sessions) /\ times(s) \in Nat
        /\ Cardinality(places(m_sessions, s)) = times(s) + Cardinality(places(rest, s))
    BY ONLY <1>4, CountSplit
  <2> QED
    BY <2>1, CountType
<1>6. rest \in Seq(Sessions)
  BY ONLY <1>4, CountSplit
<1> HIDE DEF rest, times
<1>7. ASSUME NEW s \in Sessions
      PROVE  /\ session'[s] \in Record /\ session'[s].m_father = session[s].m_father
             /\ listening'[s] = listening[s] + times(s) /\ listening'[s] \in Nat
  <2>1. session[s] \in Record /\ listening[s] \in Nat /\ times(s) \in Nat
    BY <1>1, <1>5 DEF PoolTyped
  <2>2. /\ session'[s] = session[s] \/ session'[s] = [session[s] EXCEPT !.m_isvalid = TRUE]
        /\ listening'[s] = listening[s] + times(s)
    BY <1>2
  <2> DEFINE x == [session[s] EXCEPT !.m_isvalid = TRUE]
  <2>3. x \in Record /\ x.m_father = session[s].m_father
    BY <2>1 DEF Record
  <2>4. listening[s] + times(s) \in Nat
    BY <2>1
  <2> HIDE DEF x
  <2>5. session'[s] = session[s] \/ session'[s] = x
    BY <2>2 DEF x
  <2> QED
    BY <2>1, <2>2, <2>3, <2>4, <2>5
<1>8. PoolTyped'
  BY <1>1, <1>2, <1>6, <1>7 DEF PoolTyped
<1>9. ASSUME NEW s \in Sessions PROVE OneAccept(s)' /\ PlacedOnce(s)'
  <2>1. OneAccept(s) /\ PlacedOnce(s) /\ listening[s] \in Nat
    BY DEF PoolInv, PoolTyped
  <2>2. served(s)' <=> served(s)
    BY <1>2, <1>7 DEF served
  <2>3. OneAccept(s)'
    BY <1>2, <1>7, <2>1 DEF OneAccept
  <2>4. Cardinality(places(m_sessions, s))' + listening'[s]
          = Cardinality(places(m_sessions, s)) + listening[s]
    BY <1>2, <1>5, <1>7, <2>1
  <2> QED
    BY <2>1, <2>2, <2>3, <2>4 DEF PlacedOnce
<1> QED
  BY <1>8, <1>9 DEF PoolInv

\* The rest of the main thread moves no session.
LEMMA MainStep ==
  ASSUME PoolInv, poll \/ on_accept \/ process \/ proc_message \/ endRun
  PROVE  PoolInv'
<1> USE DEF ioVars, mainVars, appVars
<1>1. PoolTyped
  BY DEF PoolInv
<1>2. UNCHANGED <<m_sessions, listening, session, posted, conns>>
  BY DEF poll, on_accept, process, proc_message, endRun
<1>3. m_cb_mgr' \in Seq(Callback) /\ calls' \in Seq(Callback)
  <2>1. m_cb_mgr \in Seq(Callback) /\ calls \in Seq(Callback)
    BY <1>1 DEF PoolTyped
  <2>2. m_cb_mgr' = m_cb_mgr \/ m_cb_mgr' = <<>>
    BY DEF poll, on_accept, process, proc_message, endRun
  <2>3. calls' = calls \/ calls' = m_cb_mgr \/ (calls # <<>> /\ calls' = Tail(calls))
    BY DEF poll, on_accept, process, proc_message, endRun
  <2>4. <<>> \in Seq(Callback) /\ (calls # <<>> => Tail(calls) \in Seq(Callback))
    BY <2>1
  <2> QED
    BY <2>1, <2>2, <2>3, <2>4
<1>4. SamePosts /\ SameServers /\ Callbacks
  BY <1>1, <1>2, <1>3 DEF SamePosts, SameServers, Callbacks, PoolTyped
<1> QED
  BY <1>2, <1>4, Quiet

\* The application closes a session, and sends a message: something is posted.
LEMMA AppStep ==
  ASSUME PoolInv, NEW s \in Sessions, close(s) \/ send_message(s)
  PROVE  PoolInv'
<1> USE DEF ioVars, mainVars, appVars
<1>1. PoolTyped
  BY DEF PoolInv
<1>2. SamePosts
  BY PostsKept DEF close, send_message, Posts
<1>3. SameServers
  <2> DEFINE x == [session[s] EXCEPT !.m_queue_send_msg = TRUE]
  <2>1. session \in [Sessions -> Record]
    BY <1>1 DEF PoolTyped
  <2>2. x \in Record /\ x.m_father = session[s].m_father
    BY <2>1 DEF Record
  <2>3. session' = session \/ session' = [session EXCEPT ![s] = x]
    BY <2>1 DEF close, send_message
  <2> HIDE DEF x
  <2> QED
    BY <2>1, <2>2, <2>3, ServersKept DEF SameServers
<1> QED
  BY <1>1, <1>2, <1>3, Quiet DEF close, send_message, Callbacks, PoolTyped

-----------------------------------------------------------------------------
(* The theorems *)

\* Every session of the pool is in one place, whatever the threads do: tcp_server's pool,
\* its asynchronous accepts and the sessions' servers hold each session once.
THEOREM PoolInvariant == Spec => []PoolInv
<1>1. Init => PoolInv
  BY InitPool
<1>2. PoolInv /\ [Next]_vars => PoolInv'
  <2> SUFFICES ASSUME PoolInv, [Next]_vars PROVE PoolInv'
    OBVIOUS
  <2>1. CASE main
    BY <2>1, ListenStep, CloseStep, MainStep DEF main
  <2>2. ASSUME NEW s \in Sessions,
               io(s) \/ accepted(s) \/ refused(s) \/ close(s) \/ send_message(s)
        PROVE  PoolInv'
    BY <2>2, IoStep, AcceptStep, AcceptedStep, RefusedStep, AppStep
  <2>3. CASE UNCHANGED vars
    BY <2>3 DEF vars, ioVars, mainVars, appVars, PoolInv, PoolTyped, OneAccept, PlacedOnce,
                served, places
  <2> QED
    BY <2>1, <2>2, <2>3 DEF Next
<1> QED
  BY <1>1, <1>2, PTL DEF Spec

\* A session is never given to two connections and none is lost: accept, refusal, on_close
\* (twice, or late, or for a session that is in use again) and listen, for any number of
\* sessions and connections, with outstanding reads and writes, posts and callbacks left
\* over from a connection that ended, and with wrong messages.
THEOREM SessionsUsedOnce == Spec => []UsedOnce
  BY PoolInvariant, InvUsedOnce, PTL

-----------------------------------------------------------------------------
(* The timers: the invariant *)

Events ==
  [obj : Objects, eventType : Types, msTime : Nat, currTime : Nat, repeats : Int,
   deletes : BOOLEAN, deleted : BOOLEAN, ref : {1, 2}, left : Int]

Typed ==
  /\ event \in [Ids -> Events \cup {Free}]
  /\ alive \subseteq Objects
  /\ m_events \in [Objects -> SUBSET Ids]
  /\ list \in Seq(Ids)
  /\ diff \in Diffs \cup {0}

inList(e) == \E i \in 1..Len(list) : list[i] = e

\* The two holders of an event: the mark says whether one of them has released it.
Held ==
  /\ \A i, j \in 1..Len(list) : list[i] = list[j] => i = j
  /\ \A o \in Objects : \A e \in m_events[o] : event[e] # Free /\ event[e].obj = o /\ o \in alive
  /\ \A i \in 1..Len(list) : event[list[i]] # Free
  /\ \A e \in Ids : event[e] # Free =>
       \/ ~event[e].deleted /\ event[e].ref = 2 /\ inList(e) /\ e \in m_events[event[e].obj]
       \/ event[e].deleted /\ event[e].ref = 1 /\ (inList(e) <=> e \notin m_events[event[e].obj])

\* The iterators of update() point into the list, and itr is next after it2 or end().
Iterators ==
  /\ itr \in 0..Len(list) /\ it2 \in 0..Len(list)
  /\ it2 # None => itr \in {None, it2 + 1}
  /\ running # None => it2 # None /\ running = list[it2]
  /\ diff = 0 => itr = None /\ it2 = None

\* The update has still to come to the i-th event, or is at it.
pending(i) == (itr # None /\ itr <= i) \/ i = it2

\* The time left and the moment asked for: an event that is added while the list is gone
\* through may be reduced by the whole update.
Clocks ==
  \A i \in 1..Len(list) : ~event[list[i]].deleted =>
    LET ev == event[list[i]]
        ahead == IF pending(i) THEN diff ELSE 0
    IN  ev.currTime <= ev.left + ahead /\ ev.left + ahead <= ev.currTime + MaxDiff

\* Every period lies ahead.
Ahead == \A e \in Ids : event[e] # Free => event[e].msTime > 0 /\ event[e].currTime > 0

TimersInv == Typed /\ Held /\ Iterators /\ Clocks

-----------------------------------------------------------------------------
(* Helpers of the timers *)

\* An element is erased: what follows it moves up.
LEMMA Erased ==
  ASSUME NEW S, NEW q \in Seq(S), NEW k \in 1..Len(q)
  PROVE  /\ Seqs!RemoveAt(q, k) \in Seq(S)
         /\ Len(Seqs!RemoveAt(q, k)) = Len(q) - 1
         /\ \A i \in 1..(Len(q) - 1) : Seqs!RemoveAt(q, k)[i] = IF i < k THEN q[i] ELSE q[i + 1]
<1> DEFINE a == SubSeq(q, 1, k - 1)
           b == SubSeq(q, k + 1, Len(q))
           n == Len(q)
<1>1. n \in Nat /\ k \in 1..n
  OBVIOUS
<1>2. a \in Seq(S) /\ Len(a) = k - 1 /\ \A i \in 1..(k - 1) : a[i] = q[i]
  OBVIOUS
<1>3. b \in Seq(S) /\ Len(b) = n - k /\ \A i \in 1..(n - k) : b[i] = q[k + i]
  OBVIOUS
<1>4. Seqs!RemoveAt(q, k) = a \o b
  BY DEF Seqs!RemoveAt
<1> HIDE DEF a, b, n
<1>5. a \o b \in Seq(S) /\ Len(a \o b) = n - 1
  <2>1. a \o b \in Seq(S) /\ Len(a \o b) = Len(a) + Len(b)
    BY ONLY <1>2, <1>3, ConcatProperties
  <2>2. (k - 1) + (n - k) = n - 1
    BY <1>1
  <2> QED
    BY <1>2, <1>3, <2>1, <2>2
<1>6. ASSUME NEW i \in 1..(n - 1) PROVE (a \o b)[i] = IF i < k THEN q[i] ELSE q[i + 1]
  <2>1. CASE i < k
    <3>1. i \in 1..(k - 1)
      BY <1>1, <2>1
    <3> QED
      BY <1>2, <1>3, <2>1, <3>1
  <2>2. CASE ~(i < k)
    <3>1. PICK h : h = i - (k - 1)
      OBVIOUS
    <3>2. h \in 1..(n - k) /\ k + h = i + 1 /\ i = (k - 1) + h /\ ~(i <= k - 1) /\ i <= (k - 1) + (n - k)
      BY <1>1, <2>2, <3>1
    <3>3. i \in 1..(Len(a) + Len(b)) /\ ~(i <= Len(a)) /\ i - Len(a) = h
      BY ONLY <1>1, <1>2, <1>3, <3>1, <3>2
    <3>4. (a \o b)[i] = b[i - Len(a)]
      BY ONLY <1>2, <1>3, <3>3, ConcatProperties
    <3>5. (a \o b)[i] = b[h]
      BY ONLY <3>3, <3>4
    <3> QED
      BY <1>3, <2>2, <3>2, <3>5
  <2> QED
    BY <2>1, <2>2
<1> QED
  BY <1>4, <1>5, <1>6 DEF n

\* The longest update
LEMMA LongestUpdate ==
  MaxDiff \in Nat /\ \A d \in Diffs \cup {0} : d \in Nat /\ d <= MaxDiff
<1>1. \E d \in Diffs : \A e \in Diffs : e <= d
  BY TimersConstants
<1>2. MaxDiff \in Diffs /\ \A e \in Diffs : e <= MaxDiff
  BY <1>1, Zenon DEF MaxDiff
<1>3. Diffs \subseteq Nat
  BY TimersConstants
<1> QED
  BY <1>2, <1>3

\* A holder releases an event: the first release marks it, the second one frees it.
LEMMA Released ==
  ASSUME NEW ev \in Events
  PROVE  /\ ev # Free
         /\ ev.ref = 1 => decRef(ev) = Free
         /\ ev.ref = 2 => /\ decRef(ev) \in Events /\ decRef(ev) # Free
                          /\ decRef(ev).deleted /\ decRef(ev).ref = 1 /\ decRef(ev).obj = ev.obj
<1>1. \A x \in Events : x.ref \in {1, 2} /\ x # Free
  BY DEF Events, Free
<1>2. ev.ref = 1 => decRef(ev) = Free
  BY DEF decRef
<1>3. ASSUME ev.ref = 2 PROVE decRef(ev) = [ev EXCEPT !.ref = 1, !.deleted = TRUE]
  BY <1>3 DEF decRef
<1>4. /\ [ev EXCEPT !.ref = 1, !.deleted = TRUE] \in Events
      /\ [ev EXCEPT !.ref = 1, !.deleted = TRUE].deleted = TRUE
      /\ [ev EXCEPT !.ref = 1, !.deleted = TRUE].ref = 1
      /\ [ev EXCEPT !.ref = 1, !.deleted = TRUE].obj = ev.obj
  BY DEF Events
<1> QED
  BY <1>1, <1>2, <1>3, <1>4

-----------------------------------------------------------------------------
(* The calls of the program *)

\* An event is added.
LEMMA AddStep ==
  ASSUME TimersInv, NEW o \in Objects, NEW t \in Types, NEW time \in Times,
         NEW repeats \in Int, NEW deletes \in BOOLEAN, addEvent(o, t, time, repeats, deletes)
  PROVE  TimersInv'
<1>1. PICK e \in Ids :
        /\ event[e] = Free
        /\ event' = [event EXCEPT ![e] =
             [obj |-> o, eventType |-> t, msTime |-> time, currTime |-> time, repeats |-> repeats,
              deletes |-> deletes, deleted |-> FALSE, ref |-> 2, left |-> time]]
        /\ m_events' = [m_events EXCEPT ![o] = @ \cup {e}]
        /\ list' = Append(list, e)
  BY DEF addEvent
<1>2. o \in alive /\ UNCHANGED <<alive, itr, it2, diff, running>>
  BY DEF addEvent
<1>3. PICK ev : ev = [obj |-> o, eventType |-> t, msTime |-> time, currTime |-> time,
                      repeats |-> repeats, deletes |-> deletes, deleted |-> FALSE, ref |-> 2, left |-> time]
  OBVIOUS
<1>4. /\ ev \in Events /\ ev # Free /\ ev.obj = o /\ ~ev.deleted /\ ev.ref = 2
      /\ ev.left = time /\ ev.currTime = time /\ time \in Nat
  <2>1. time \in Nat /\ time \in Int
    BY TimersConstants
  <2>2. ev \in Events
    BY <1>3, <2>1 DEF Events
  <2> QED
    BY <1>3, <2>1, <2>2, Released
<1>5. event' = [event EXCEPT ![e] = ev]
  BY <1>1, <1>3
<1>6. PICK n : n = Len(list)
  OBVIOUS
<1>7. /\ n \in Nat /\ Len(list') = n + 1 /\ list'[n + 1] = e
      /\ \A i \in 1..n : list'[i] = list[i] /\ list[i] \in Ids /\ list[i] # e
  BY <1>1, <1>6 DEF TimersInv, Typed, Held
<1>8. \A i \in 1..(n + 1) : i = n + 1 \/ i \in 1..n
  BY <1>7
<1>9. \A i \in 1..n : i \in 1..(n + 1) /\ i # n + 1
  BY <1>7
<1>10. n + 1 \in 1..(n + 1)
  BY <1>7
<1>11. /\ event'[e] = ev
       /\ \A f \in Ids : f # e => event'[f] = event[f]
  BY <1>5 DEF TimersInv, Typed
<1>12. Typed'
  <2>1. event' \in [Ids -> Events \cup {Free}]
    BY <1>4, <1>5 DEF TimersInv, Typed
  <2>2. m_events' \in [Objects -> SUBSET Ids]
    BY <1>1 DEF TimersInv, Typed
  <2>3. list' \in Seq(Ids)
    BY <1>1 DEF TimersInv, Typed
  <2> QED
    BY <1>2, <2>1, <2>2, <2>3 DEF TimersInv, Typed
<1>13. Held'
  <2>1. \A f \in Ids : inList(f)' <=> inList(f) \/ f = e
    BY <1>6, <1>7, <1>8, <1>9, <1>10 DEF inList
  <2>2. \A i, j \in 1..Len(list') : list'[i] = list'[j] => i = j
    BY <1>6, <1>7, <1>8 DEF TimersInv, Held
  <2>3. \A p \in Objects : e \notin m_events[p]
    BY <1>1 DEF TimersInv, Held
  <2>4. \A p \in Objects : \A f \in m_events'[p] : event'[f] # Free /\ event'[f].obj = p /\ p \in alive'
    <3>1. \A p \in Objects : \A f \in m_events'[p] : (f = e /\ p = o) \/ (f # e /\ f \in m_events[p] /\ f \in Ids)
      BY <1>1, <2>3 DEF TimersInv, Typed
    <3>2. \A p \in Objects : \A f \in m_events[p] : event[f] # Free /\ event[f].obj = p /\ p \in alive
      BY DEF TimersInv, Held
    <3> QED
      BY <1>2, <1>4, <1>11, <3>1, <3>2
  <2>5. \A i \in 1..Len(list') : event'[list'[i]] # Free
    BY <1>4, <1>6, <1>7, <1>8, <1>11 DEF TimersInv, Held
  <2>6. \A f \in Ids, p \in Objects : f # e => (f \in m_events'[p] <=> f \in m_events[p])
    BY <1>1 DEF TimersInv, Typed
  <2>7. e \in m_events'[o]
    BY <1>1 DEF TimersInv, Typed
  <2>8. \A f \in Ids : event[f] # Free => event[f].obj \in Objects
    BY DEF TimersInv, Typed, Events
  <2>9. ASSUME NEW f \in Ids, event'[f] # Free
        PROVE  \/ ~event'[f].deleted /\ event'[f].ref = 2 /\ inList(f)' /\ f \in m_events'[event'[f].obj]
               \/ event'[f].deleted /\ event'[f].ref = 1 /\ (inList(f)' <=> f \notin m_events'[event'[f].obj])
    <3>1. CASE f = e
      BY <1>4, <1>11, <2>1, <2>7, <3>1
    <3>2. CASE f # e
      BY <1>11, <2>1, <2>6, <2>8, <2>9, <3>2 DEF TimersInv, Held
    <3> QED
      BY <3>1, <3>2
  <2> QED
    BY <2>2, <2>4, <2>5, <2>9 DEF Held
<1>14. Iterators'
  BY <1>2, <1>6, <1>7 DEF TimersInv, Iterators, None
<1>15. Clocks'
  <2> SUFFICES ASSUME NEW i \in 1..Len(list'), ~event'[list'[i]].deleted
               PROVE  LET x == event'[list'[i]]
                          ahead == IF pending(i)' THEN diff' ELSE 0
                      IN  x.currTime <= x.left + ahead /\ x.left + ahead <= x.currTime + MaxDiff
    BY DEF Clocks
  <2>1. CASE i = n + 1
    <3>1. event'[list'[i]] = ev
      BY <1>7, <1>11, <2>1
    <3>2. diff' \in Nat /\ diff' <= MaxDiff /\ MaxDiff \in Nat
      BY <1>2, LongestUpdate DEF TimersInv, Typed
    <3> QED
      BY <1>4, <3>1, <3>2
  <2>2. CASE i \in 1..n
    <3>1. event'[list'[i]] = event[list[i]] /\ (pending(i)' <=> pending(i)) /\ diff' = diff
      BY <1>2, <1>7, <1>11, <2>2 DEF pending
    <3> QED
      BY <1>6, <2>2, <3>1 DEF TimersInv, Clocks
  <2> QED
    BY <1>7, <1>8, <2>1, <2>2
<1> QED
  BY <1>12, <1>13, <1>14, <1>15 DEF TimersInv

\* An object releases the events R that it holds.
LEMMA ReleaseStep ==
  ASSUME TimersInv, NEW o \in Objects, NEW R, R \subseteq m_events[o],
         event' = [e \in Ids |-> IF e \in R THEN decRef(event[e]) ELSE event[e]],
         m_events' = [m_events EXCEPT ![o] = @ \ R],
         alive' \subseteq alive, \A p \in alive : p \in alive' \/ (p = o /\ R = m_events[o]),
         UNCHANGED <<list, itr, it2, diff, running>>
  PROVE  TimersInv'
<1>1. /\ \A e \in R : event'[e] = decRef(event[e]) /\ e \in Ids /\ event[e] \in Events /\ event[e].obj = o
      /\ \A e \in Ids : e \notin R => event'[e] = event[e]
  BY DEF TimersInv, Typed, Held
<1>2. ASSUME NEW e \in R
      PROVE  \/ /\ event[e].ref = 2 /\ inList(e) /\ event'[e] \in Events /\ event'[e] # Free
                /\ event'[e].deleted /\ event'[e].ref = 1 /\ event'[e].obj = o
             \/ event[e].ref = 1 /\ ~inList(e) /\ event'[e] = Free
  <2>1. e \in Ids /\ event[e] \in Events /\ event[e] # Free /\ event[e].obj = o /\ e \in m_events[o]
    BY <1>1, Released
  <2>2. (event[e].ref = 2 /\ inList(e)) \/ (event[e].ref = 1 /\ ~inList(e))
    BY <2>1 DEF TimersInv, Held
  <2>3. PICK ev \in Events : ev = event[e]
    BY <2>1
  <2>4. /\ ev.ref = 1 => decRef(ev) = Free
        /\ ev.ref = 2 => /\ decRef(ev) \in Events /\ decRef(ev) # Free
                         /\ decRef(ev).deleted /\ decRef(ev).ref = 1 /\ decRef(ev).obj = ev.obj
    BY Released
  <2> QED
    BY <1>1, <2>1, <2>2, <2>3, <2>4
<1>3. \A e \in Ids : inList(e)' <=> inList(e)
  BY DEF inList
<1>4. m_events'[o] = m_events[o] \ R /\ \A p \in Objects : p # o => m_events'[p] = m_events[p]
  BY DEF TimersInv, Typed
<1>5. Typed'
  <2>1. event' \in [Ids -> Events \cup {Free}]
    BY <1>1, <1>2 DEF TimersInv, Typed
  <2>2. m_events' \in [Objects -> SUBSET Ids]
    BY DEF TimersInv, Typed
  <2> QED
    BY <2>1, <2>2 DEF TimersInv, Typed
<1>6. Held'
  <2>1. \A p \in Objects : \A e \in m_events'[p] : e \in m_events[p] /\ e \notin R
    BY <1>1, <1>4 DEF TimersInv, Held
  <2>2. \A p \in Objects : \A e \in m_events'[p] : event'[e] # Free /\ event'[e].obj = p /\ p \in alive'
    BY <1>1, <1>4, <2>1 DEF TimersInv, Held, Typed
  <2>3. \A i \in 1..Len(list) : list[i] \in Ids /\ inList(list[i])
    BY DEF TimersInv, Typed, inList
  <2>4. \A i \in 1..Len(list) : event'[list[i]] # Free
    BY <1>1, <1>2, <2>3 DEF TimersInv, Held
  <2>5. ASSUME NEW f \in Ids, event'[f] # Free
        PROVE  \/ ~event'[f].deleted /\ event'[f].ref = 2 /\ inList(f)' /\ f \in m_events'[event'[f].obj]
               \/ event'[f].deleted /\ event'[f].ref = 1 /\ (inList(f)' <=> f \notin m_events'[event'[f].obj])
    <3>1. CASE f \in R
      BY <1>2, <1>3, <1>4, <2>5, <3>1
    <3>2. CASE f \notin R
      <4>1. event'[f] = event[f] /\ event[f] # Free /\ event[f].obj \in Objects
        BY <1>1, <2>5, <3>2 DEF TimersInv, Typed, Events
      <4>2. f \in m_events'[event[f].obj] <=> f \in m_events[event[f].obj]
        BY <1>4, <3>2, <4>1
      <4> QED
        BY <1>3, <4>1, <4>2 DEF TimersInv, Held
    <3> QED
      BY <3>1, <3>2
  <2> QED
    BY <2>2, <2>4, <2>5 DEF TimersInv, Held
<1>7. Iterators'
  BY DEF TimersInv, Iterators
<1>8. Clocks'
  <2>1. \A i \in 1..Len(list) : ~event'[list[i]].deleted => event'[list[i]] = event[list[i]]
    <3>1. \A i \in 1..Len(list) : list[i] \in Ids /\ inList(list[i])
      BY DEF TimersInv, Typed, inList
    <3> QED
      BY <1>1, <1>2, <3>1
  <2>2. \A i \in 1..Len(list) : pending(i)' <=> pending(i)
    BY DEF pending
  <2> QED
    BY <2>1, <2>2 DEF TimersInv, Clocks
<1> QED
  BY <1>5, <1>6, <1>7, <1>8 DEF TimersInv

\* EventableObject::eventRemoveEvents
LEMMA RemoveStep ==
  ASSUME TimersInv, NEW o \in Objects, NEW t \in Types, removeEvents(o, t)
  PROVE  TimersInv'
<1>1. PICK R : R = ofType(o, t)
  OBVIOUS
<1>2. R \subseteq m_events[o]
  BY <1>1 DEF ofType
<1>3. /\ event' = [e \in Ids |-> IF e \in R THEN decRef(event[e]) ELSE event[e]]
      /\ m_events' = [m_events EXCEPT ![o] = @ \ R]
      /\ UNCHANGED <<alive, list, itr, it2, diff, running>>
  BY <1>1 DEF removeEvents
<1> QED
  BY <1>2, <1>3, ReleaseStep

\* EventableObject::~EventableObject
LEMMA DeleteStep ==
  ASSUME TimersInv, NEW o \in Objects, deleteObject(o)
  PROVE  TimersInv'
<1>1. PICK R : R = m_events[o]
  OBVIOUS
<1>2. /\ event' = [e \in Ids |-> IF e \in R THEN decRef(event[e]) ELSE event[e]]
      /\ m_events' = [m_events EXCEPT ![o] = @ \ R]
      /\ alive' = alive \ {o}
      /\ UNCHANGED <<list, itr, it2, diff, running>>
  BY <1>1 DEF deleteObject
<1> QED
  BY <1>1, <1>2, ReleaseStep

\* The clocks of an event are set.
clocked(ev, m, c, l, r) == [ev EXCEPT !.msTime = m, !.currTime = c, !.left = l, !.repeats = r]

\* ... which changes nothing else.
LEMMA SetClocks ==
  ASSUME NEW ev \in Events, NEW m \in Nat, NEW c \in Nat, NEW l \in Int, NEW r \in Int
  PROVE  /\ clocked(ev, m, c, l, r) \in Events /\ clocked(ev, m, c, l, r) # Free
         /\ clocked(ev, m, c, l, r).obj = ev.obj
         /\ clocked(ev, m, c, l, r).deleted = ev.deleted
         /\ clocked(ev, m, c, l, r).ref = ev.ref
         /\ clocked(ev, m, c, l, r).msTime = m
         /\ clocked(ev, m, c, l, r).currTime = c
         /\ clocked(ev, m, c, l, r).left = l
<1>1. clocked(ev, m, c, l, r) \in Events
  BY DEF Events, clocked
<1> QED
  BY <1>1, Released DEF Events, clocked

\* Only clocks are set.
LEMMA Retimed ==
  ASSUME TimersInv, UNCHANGED <<alive, m_events, list>>, diff' \in Diffs \cup {0},
         event' \in [Ids -> Events \cup {Free}],
         \A e \in Ids : /\ event'[e] = Free <=> event[e] = Free
                        /\ event[e] # Free => /\ event'[e].obj = event[e].obj
                                              /\ event'[e].deleted = event[e].deleted
                                              /\ event'[e].ref = event[e].ref
  PROVE  Typed' /\ Held'
<1>1. Typed'
  BY DEF TimersInv, Typed
<1>2. \A e \in Ids : inList(e)' <=> inList(e)
  BY DEF inList
<1>3. \A i \in 1..Len(list) : list[i] \in Ids
  BY DEF TimersInv, Typed
<1>4. \A o \in Objects : \A e \in m_events[o] : e \in Ids
  BY DEF TimersInv, Typed
<1>5. Held'
  BY <1>2, <1>3, <1>4 DEF TimersInv, Held
<1> QED
  BY <1>1, <1>5

\* The iterators and the clocks of the events that are not touched
LEMMA ClocksFrame ==
  ASSUME TimersInv, NEW i \in 1..Len(list), diff' = diff, pending(i)' <=> pending(i),
         event'[list[i]] = event[list[i]], ~event[list[i]].deleted
  PROVE  LET x == event'[list[i]]
             ahead == IF pending(i)' THEN diff' ELSE 0
         IN  x.currTime <= x.left + ahead /\ x.left + ahead <= x.currTime + MaxDiff
BY DEF TimersInv, Clocks

\* The time of an event is changed, and a new object.
LEMMA ModifyStep ==
  ASSUME TimersInv, NEW o \in Objects, NEW t \in Types, NEW time \in Times,
         modifyEventTimeAndTimeLeft(o, t, time)
  PROVE  TimersInv'
<1>1. time \in Nat /\ time \in Int
  BY TimersConstants
<1>2. UNCHANGED <<alive, m_events, list, itr, it2, diff, running>>
  BY DEF modifyEventTimeAndTimeLeft
<1>3. ASSUME NEW e \in Ids
      PROVE  \/ event'[e] = event[e]
             \/ /\ event[e] \in Events /\ event[e] # Free /\ event'[e] \in Events /\ event'[e] # Free
                /\ event'[e].obj = event[e].obj /\ event'[e].deleted = event[e].deleted
                /\ event'[e].ref = event[e].ref
                /\ event'[e].currTime = time /\ event'[e].left = time
  <2>1. CASE e \notin ofType(o, t)
    BY <2>1 DEF modifyEventTimeAndTimeLeft
  <2>2. CASE e \in ofType(o, t)
    <3>1. event[e] # Free
      BY <2>2 DEF ofType, TimersInv, Held
    <3>2. PICK ev \in Events : ev = event[e]
      BY <3>1 DEF TimersInv, Typed
    <3>3. event'[e] = [ev EXCEPT !.msTime = time, !.currTime = time, !.left = time]
      BY <2>2, <3>2 DEF modifyEventTimeAndTimeLeft
    <3>4. ev.repeats \in Int
      BY DEF Events
    <3>5. PICK r : r = ev.repeats
      OBVIOUS
    <3>6. PICK x : x = clocked(ev, time, time, time, r)
      OBVIOUS
    <3>7. event'[e] = x
      BY <3>3, <3>5, <3>6 DEF Events, clocked
    <3>8. /\ x \in Events /\ x # Free
          /\ x.obj = ev.obj /\ x.deleted = ev.deleted /\ x.ref = ev.ref
          /\ x.currTime = time /\ x.left = time
      BY <1>1, <3>4, <3>5, <3>6, SetClocks
    <3> QED
      BY <3>1, <3>2, <3>7, <3>8
  <2> QED
    BY <2>1, <2>2
<1>4. event' \in [Ids -> Events \cup {Free}]
  <2>1. \A e \in Ids : event'[e] \in Events \cup {Free}
    BY <1>3 DEF TimersInv, Typed
  <2>2. event' = [e \in Ids |-> event'[e]]
    BY DEF modifyEventTimeAndTimeLeft
  <2> QED
    BY ONLY <2>1, <2>2
<1>5. Typed' /\ Held'
  <2>1. diff' \in Diffs \cup {0}
    BY <1>2 DEF TimersInv, Typed
  <2> QED
    BY <1>2, <1>3, <1>4, <2>1, Retimed
<1>6. Iterators'
  BY <1>2 DEF TimersInv, Iterators
<1>7. Clocks'
  <2> SUFFICES ASSUME NEW i \in 1..Len(list), ~event'[list[i]].deleted
               PROVE  LET x == event'[list[i]]
                          ahead == IF pending(i)' THEN diff' ELSE 0
                      IN  x.currTime <= x.left + ahead /\ x.left + ahead <= x.currTime + MaxDiff
    BY <1>2 DEF Clocks
  <2>1. list[i] \in Ids /\ (pending(i)' <=> pending(i)) /\ diff' = diff
    BY <1>2 DEF pending, TimersInv, Typed
  <2>2. CASE event'[list[i]] = event[list[i]]
    BY <2>1, <2>2, ClocksFrame
  <2>3. CASE event'[list[i]].currTime = time /\ event'[list[i]].left = time
    <3>1. diff' \in Nat /\ diff' <= MaxDiff /\ MaxDiff \in Nat
      BY <1>2, LongestUpdate DEF TimersInv, Typed
    <3>2. PICK a : a = IF pending(i)' THEN diff' ELSE 0
      OBVIOUS
    <3>3. a = diff' \/ a = 0
      BY <3>2
    <3>4. a \in Nat /\ a <= MaxDiff
      BY <3>1, <3>3
    <3>5. time <= time + a /\ time + a <= time + MaxDiff
      BY <1>1, <3>1, <3>4
    <3> QED
      BY <2>3, <3>2, <3>5
  <2> QED
    BY <1>3, <2>1, <2>2, <2>3
<1> QED
  BY <1>5, <1>6, <1>7 DEF TimersInv

-----------------------------------------------------------------------------
(* The steps of update() *)

\* update() begins: the clock of the events goes on, all of them are pending.
LEMMA UpdateStep ==
  ASSUME TimersInv, NEW d \in Diffs, update(d)
  PROVE  TimersInv'
<1>1. d \in Nat /\ d \in Int /\ d # 0
  BY TimersConstants
<1>2. /\ diff = 0 /\ diff' = d /\ itr' = 1 /\ it2' = None /\ list # <<>>
      /\ UNCHANGED <<alive, m_events, list, running>>
  BY DEF update
<1>3. itr = None /\ it2 = None /\ running = None
  BY <1>2 DEF TimersInv, Iterators
<1>4. ASSUME NEW e \in Ids
      PROVE  \/ event'[e] = event[e] /\ (event[e] = Free \/ event[e].deleted)
             \/ /\ event[e] \in Events /\ event[e] # Free /\ event'[e] \in Events /\ event'[e] # Free
                /\ event'[e].obj = event[e].obj /\ event'[e].deleted = event[e].deleted
                /\ event'[e].ref = event[e].ref
                /\ event'[e].currTime = event[e].currTime /\ event'[e].left = event[e].left - d
  <2>1. CASE event[e] = Free \/ event[e].deleted
    BY <2>1 DEF update
  <2>2. CASE ~(event[e] = Free \/ event[e].deleted)
    <3>1. PICK ev \in Events : ev = event[e]
      BY <2>2 DEF TimersInv, Typed
    <3>2. event'[e] = [ev EXCEPT !.left = @ - d]
      BY <2>2, <3>1 DEF update
    <3>3. PICK m, c, l, r : m = ev.msTime /\ c = ev.currTime /\ l = ev.left - d /\ r = ev.repeats
      OBVIOUS
    <3>4. m \in Nat /\ c \in Nat /\ l \in Int /\ r \in Int
      BY <1>1, <3>3 DEF Events
    <3>5. PICK x : x = clocked(ev, m, c, l, r)
      OBVIOUS
    <3>6. event'[e] = x
      BY <3>2, <3>3, <3>5 DEF Events, clocked
    <3>7. /\ x \in Events /\ x # Free
          /\ x.obj = ev.obj /\ x.deleted = ev.deleted /\ x.ref = ev.ref
          /\ x.currTime = c /\ x.left = l
      BY <3>4, <3>5, SetClocks
    <3> QED
      BY <2>2, <3>1, <3>3, <3>6, <3>7
  <2> QED
    BY <2>1, <2>2
<1>5. event' \in [Ids -> Events \cup {Free}]
  <2>1. \A e \in Ids : event'[e] \in Events \cup {Free}
    BY <1>4 DEF TimersInv, Typed
  <2>2. event' = [e \in Ids |-> event'[e]]
    BY DEF update
  <2> QED
    BY ONLY <2>1, <2>2
<1>6. Typed' /\ Held'
  BY <1>2, <1>4, <1>5, Retimed
<1>7. Len(list) \in Nat \ {0}
  BY <1>2 DEF TimersInv, Typed
<1>8. Iterators'
  BY <1>1, <1>2, <1>3, <1>7 DEF Iterators, None
<1>9. Clocks'
  <2> SUFFICES ASSUME NEW i \in 1..Len(list), ~event'[list[i]].deleted
               PROVE  LET x == event'[list[i]]
                          ahead == IF pending(i)' THEN diff' ELSE 0
                      IN  x.currTime <= x.left + ahead /\ x.left + ahead <= x.currTime + MaxDiff
    BY <1>2 DEF Clocks
  <2>1. list[i] \in Ids /\ event[list[i]] # Free
    BY DEF TimersInv, Typed, Held
  <2>2. pending(i)'
    BY <1>2, <1>7 DEF pending, None
  <2>3. ~pending(i)
    BY <1>3 DEF pending, None
  <2>4. PICK ev, y : ev = event[list[i]] /\ y = event'[list[i]]
    OBVIOUS
  <2>5. /\ ev \in Events /\ ~ev.deleted
        /\ y.currTime = ev.currTime /\ y.left = ev.left - d
    BY <1>4, <2>1, <2>4
  <2>6. ev.currTime <= ev.left /\ ev.left <= ev.currTime + MaxDiff
    <3>1. ev.currTime <= ev.left + 0 /\ ev.left + 0 <= ev.currTime + MaxDiff
      BY <2>3, <2>4, <2>5 DEF TimersInv, Clocks
    <3> QED
      BY <2>5, <3>1 DEF Events
  <2>7. ev.left \in Int /\ ev.currTime \in Int
    BY <2>5 DEF Events
  <2>8. (ev.left - d) + d = ev.left
    BY <1>1, <2>7
  <2> QED
    BY <1>2, <2>2, <2>4, <2>5, <2>6, <2>8
<1> QED
  BY <1>6, <1>8, <1>9 DEF TimersInv

\* update() takes the next event, calls it, or is over; and a new object.
LEMMA WalkStep ==
  ASSUME TimersInv,
         take \/ execute \/ endUpdate \/ (\E o \in Objects : newObject(o)) \/ UNCHANGED timerVars
  PROVE  TimersInv'
<1>1. UNCHANGED <<event, m_events, list>>
  BY DEF take, execute, endUpdate, newObject, timerVars
<1>2. Len(list) \in Nat
  BY DEF TimersInv, Typed
<1>3. Typed' /\ Held'
  <2>1. diff' \in Diffs \cup {0} /\ alive \subseteq alive' /\ alive' \subseteq Objects
    BY DEF take, execute, endUpdate, newObject, timerVars, TimersInv, Typed
  <2>2. \A e \in Ids : inList(e)' <=> inList(e)
    BY <1>1 DEF inList
  <2> QED
    BY <1>1, <2>1, <2>2 DEF TimersInv, Typed, Held
<1>4. CASE take
  <2>1. /\ diff # 0 /\ it2 = None /\ itr # None /\ it2' = itr /\ running = None
        /\ itr' = IF itr < Len(list) THEN itr + 1 ELSE None
        /\ UNCHANGED <<diff, running>>
    BY <1>4 DEF take, nextIndex
  <2>2. itr \in 1..Len(list)
    BY <1>2, <2>1 DEF TimersInv, Iterators, None
  <2>3. Iterators'
    BY <1>1, <1>2, <2>1, <2>2 DEF Iterators, None
  <2>4. \A i \in 1..Len(list) : pending(i)' <=> pending(i)
    BY <1>2, <2>1, <2>2 DEF pending, None
  <2>5. Clocks'
    BY <1>1, <2>1, <2>4 DEF TimersInv, Clocks
  <2> QED
    BY <1>3, <2>3, <2>5 DEF TimersInv
<1>5. CASE execute
  BY <1>1, <1>3, <1>5 DEF execute, TimersInv, Iterators, Clocks, pending
<1>6. CASE endUpdate
  <2>1. itr = None /\ it2 = None /\ running = None /\ UNCHANGED <<itr, it2, running>>
    BY <1>6 DEF endUpdate
  <2>2. \A i \in 1..Len(list) : ~pending(i) /\ ~pending(i)'
    BY <2>1 DEF pending, None
  <2>3. Iterators'
    BY <1>1, <2>1 DEF TimersInv, Iterators
  <2>4. Clocks'
    BY <1>1, <2>2 DEF TimersInv, Clocks
  <2> QED
    BY <1>3, <2>3, <2>4 DEF TimersInv
<1>7. CASE (\E o \in Objects : newObject(o)) \/ UNCHANGED timerVars
  BY <1>1, <1>3, <1>7 DEF newObject, timerVars, TimersInv, Iterators, Clocks, pending
<1> QED
  BY <1>4, <1>5, <1>6, <1>7

\* update() releases the event that it is at, and erases it from the list.
LEMMA EraseStep ==
  ASSUME TimersInv, it2 # None, erase, it2' = None, running' = None, diff # 0,
         UNCHANGED <<alive, m_events, diff>>
  PROVE  TimersInv'
<1>1. PICK n, k : n = Len(list) /\ k = it2
  OBVIOUS
<1>2. n \in Nat /\ k \in 1..n /\ itr \in {None, k + 1} /\ itr \in 0..n
  BY <1>1 DEF TimersInv, Typed, Iterators, None
<1>3. PICK x : x = list[k]
  OBVIOUS
<1>4. x \in Ids /\ (\A i \in 1..n : list[i] \in Ids /\ (list[i] = x <=> i = k))
  BY <1>1, <1>2, <1>3 DEF TimersInv, Typed, Held
<1>5. inList(x)
  BY <1>1, <1>2, <1>3 DEF inList
<1>6. PICK ev \in Events : ev = event[x]
  BY <1>1, <1>2, <1>3, <1>4 DEF TimersInv, Typed, Held
<1>7. /\ event' = [event EXCEPT ![x] = decRef(ev)]
      /\ list' = Seqs!RemoveAt(list, k)
      /\ itr' = IF itr = None THEN None ELSE itr - 1
  BY <1>1, <1>3, <1>6 DEF erase
<1>8. /\ list' \in Seq(Ids) /\ Len(list') = n - 1
      /\ \A i \in 1..(n - 1) : list'[i] = IF i < k THEN list[i] ELSE list[i + 1]
  <2>1. PICK q : q = list
    OBVIOUS
  <2>2. q \in Seq(Ids) /\ k \in 1..Len(q)
    BY <1>1, <1>2, <2>1 DEF TimersInv, Typed
  <2>3. /\ Seqs!RemoveAt(q, k) \in Seq(Ids)
        /\ Len(Seqs!RemoveAt(q, k)) = Len(q) - 1
        /\ \A i \in 1..(Len(q) - 1) : Seqs!RemoveAt(q, k)[i] = IF i < k THEN q[i] ELSE q[i + 1]
    BY <2>2, Erased
  <2> QED
    BY <1>1, <1>7, <2>1, <2>3
<1>9. \A i \in 1..(n - 1) : \E j \in 1..n : j # k /\ list'[i] = list[j] /\ j = IF i < k THEN i ELSE i + 1
  BY <1>2, <1>8
<1>10. \A j \in 1..n : j # k => \E i \in 1..(n - 1) : list'[i] = list[j]
  <2> SUFFICES ASSUME NEW j \in 1..n, j # k PROVE \E i \in 1..(n - 1) : list'[i] = list[j]
    OBVIOUS
  <2>1. CASE j < k
    BY <1>2, <1>8, <2>1
  <2>2. CASE ~(j < k)
    <3>1. PICK h : h = j - 1
      OBVIOUS
    <3>2. h \in 1..(n - 1) /\ ~(h < k) /\ h + 1 = j
      BY <1>2, <2>2, <3>1
    <3> QED
      BY <1>8, <3>2
  <2> QED
    BY <2>1, <2>2
<1>11. event'[x] = decRef(ev) /\ \A e \in Ids : e # x => event'[e] = event[e]
  BY <1>4, <1>7 DEF TimersInv, Typed
<1>12. \/ /\ x \in m_events[ev.obj] /\ event'[x] \in Events /\ event'[x] # Free /\ event'[x].deleted
          /\ event'[x].ref = 1 /\ event'[x].obj = ev.obj
       \/ x \notin m_events[ev.obj] /\ event'[x] = Free
  <2>1. (ev.ref = 2 /\ x \in m_events[ev.obj]) \/ (ev.ref = 1 /\ x \notin m_events[ev.obj])
    BY <1>4, <1>5, <1>6, Released DEF TimersInv, Held
  <2>2. /\ ev.ref = 1 => decRef(ev) = Free
        /\ ev.ref = 2 => /\ decRef(ev) \in Events /\ decRef(ev) # Free
                         /\ decRef(ev).deleted /\ decRef(ev).ref = 1 /\ decRef(ev).obj = ev.obj
    BY Released
  <2> QED
    BY <1>11, <2>1, <2>2
<1>13. \A e \in Ids : inList(e)' <=> inList(e) /\ e # x
  <2>1. \A e \in Ids : inList(e)' <=> \E i \in 1..(n - 1) : list'[i] = e
    BY <1>8 DEF inList
  <2>2. \A e \in Ids : inList(e) <=> \E i \in 1..n : list[i] = e
    BY <1>1 DEF inList
  <2> QED
    BY <1>3, <1>4, <1>9, <1>10, <2>1, <2>2
<1>14. Typed'
  <2>1. event' \in [Ids -> Events \cup {Free}]
    BY <1>7, <1>11, <1>12 DEF TimersInv, Typed
  <2> QED
    BY <1>8, <2>1 DEF TimersInv, Typed
<1>15. Held'
  <2>1. \A i, j \in 1..Len(list') : list'[i] = list'[j] => i = j
    <3> SUFFICES ASSUME NEW i \in 1..(n - 1), NEW j \in 1..(n - 1), list'[i] = list'[j] PROVE i = j
      BY <1>8
    <3>1. PICK a \in 1..n : list'[i] = list[a] /\ a = IF i < k THEN i ELSE i + 1
      BY <1>9
    <3>2. PICK b \in 1..n : list'[j] = list[b] /\ b = IF j < k THEN j ELSE j + 1
      BY <1>9
    <3>3. a = b
      <4>1. \A c, d \in 1..n : list[c] = list[d] => c = d
        BY <1>1 DEF TimersInv, Held
      <4> QED
        BY <3>1, <3>2, <4>1
    <3> QED
      BY <1>2, <3>1, <3>2, <3>3
  <2>2. \A o \in Objects : \A e \in m_events[o] : e \in Ids /\ event[e] # Free /\ event[e].obj = o /\ o \in alive
    BY DEF TimersInv, Held, Typed
  <2>3. \A o \in Objects : \A e \in m_events[o] : event'[e] # Free /\ event'[e].obj = o
    BY <1>6, <1>11, <1>12, <2>2
  <2>4. \A i \in 1..Len(list') : event'[list'[i]] # Free
    <3>1. \A i \in 1..n : event[list[i]] # Free
      BY <1>1 DEF TimersInv, Held
    <3> QED
      BY <1>4, <1>8, <1>9, <1>11, <3>1
  <2>5. ASSUME NEW f \in Ids, event'[f] # Free
        PROVE  \/ ~event'[f].deleted /\ event'[f].ref = 2 /\ inList(f)' /\ f \in m_events[event'[f].obj]
               \/ event'[f].deleted /\ event'[f].ref = 1 /\ (inList(f)' <=> f \notin m_events[event'[f].obj])
    <3>1. CASE f = x
      BY <1>12, <1>13, <2>5, <3>1
    <3>2. CASE f # x
      BY <1>11, <1>13, <2>5, <3>2 DEF TimersInv, Held
    <3> QED
      BY <3>1, <3>2
  <2> QED
    BY <2>1, <2>2, <2>3, <2>4, <2>5 DEF Held
<1>16. itr' \in {None, k} /\ (itr' = k <=> itr = k + 1) /\ itr' \in 0..(n - 1)
  BY <1>2, <1>7 DEF None
<1>17. Iterators'
  BY <1>8, <1>2, <1>16 DEF Iterators, None
<1>18. Clocks'
  <2> SUFFICES ASSUME NEW i \in 1..(n - 1), ~event'[list'[i]].deleted
               PROVE  LET y == event'[list'[i]]
                          ahead == IF pending(i)' THEN diff' ELSE 0
                      IN  y.currTime <= y.left + ahead /\ y.left + ahead <= y.currTime + MaxDiff
    BY <1>8 DEF Clocks
  <2>1. PICK j \in 1..n : j # k /\ list'[i] = list[j] /\ j = IF i < k THEN i ELSE i + 1
    BY <1>9
  <2>2. event'[list'[i]] = event[list[j]] /\ ~event[list[j]].deleted
    BY <1>4, <1>11, <2>1
  <2>3. pending(i)' <=> itr' # None /\ itr' <= i
    BY DEF pending, None
  <2>4. pending(j) <=> itr # None /\ itr <= j
    BY <1>1, <2>1 DEF pending
  <2>5. pending(i)' <=> pending(j)
    BY <1>2, <1>16, <2>1, <2>3, <2>4 DEF None
  <2> QED
    BY <1>1, <2>2, <2>5 DEF TimersInv, Clocks
<1> QED
  BY <1>14, <1>15, <1>17, <1>18 DEF TimersInv

\* The time of the event that update() is at is not over.
LEMMA PassStep ==
  ASSUME TimersInv, pass
  PROVE  TimersInv' /\ \A e \in Ids : event'[e] # Free =>
           event'[e].msTime = event[e].msTime /\ (event[e].currTime > 0 => event'[e].currTime > 0)
<1>1. PICK n, k : n = Len(list) /\ k = it2
  OBVIOUS
<1>2. /\ k # None /\ running = None /\ it2' = None
      /\ UNCHANGED <<alive, m_events, list, itr, diff, running>>
  BY <1>1 DEF pass
<1>3. n \in Nat /\ k \in 1..n /\ itr \in {None, k + 1} /\ diff # 0
  BY <1>1, <1>2 DEF TimersInv, Typed, Iterators, None
<1>4. PICK x : x = list[k]
  OBVIOUS
<1>5. x \in Ids /\ (\A i \in 1..n : list[i] \in Ids /\ (list[i] = x <=> i = k))
  BY <1>1, <1>3, <1>4 DEF TimersInv, Typed, Held
<1>6. PICK ev \in Events : ev = event[x]
  BY <1>1, <1>3, <1>4, <1>5 DEF TimersInv, Typed, Held
<1>7. diff \in Nat /\ MaxDiff \in Nat /\ ev.currTime \in Nat /\ ev.left \in Int /\ ev.msTime \in Nat /\ ev.repeats \in Int
  BY LongestUpdate DEF TimersInv, Typed, Events
<1>8. ev.currTime > diff /\ ~ev.deleted /\ event' = [event EXCEPT ![x].currTime = @ - diff]
  BY <1>1, <1>4, <1>6 DEF pass, this
<1>9. PICK m, c, l, r : m = ev.msTime /\ c = ev.currTime - diff /\ l = ev.left /\ r = ev.repeats
  OBVIOUS
<1>10. m \in Nat /\ c \in Nat /\ c > 0 /\ l \in Int /\ r \in Int
  BY <1>7, <1>8, <1>9
<1>11. PICK y : y = clocked(ev, m, c, l, r)
  OBVIOUS
<1>12. event' = [event EXCEPT ![x] = y]
  <2>1. [ev EXCEPT !.currTime = c] = y
    BY <1>9, <1>11 DEF clocked, Events
  <2>2. event' = [event EXCEPT ![x] = [ev EXCEPT !.currTime = c]]
    BY <1>6, <1>8, <1>9
  <2> QED
    BY <2>1, <2>2
<1>13. /\ y \in Events /\ y # Free
       /\ y.obj = ev.obj /\ y.deleted = ev.deleted /\ y.ref = ev.ref
       /\ y.msTime = m /\ y.currTime = c /\ y.left = l
  BY <1>10, <1>11, SetClocks
<1>14. event'[x] = y /\ \A e \in Ids : e # x => event'[e] = event[e]
  BY <1>5, <1>12 DEF TimersInv, Typed
<1>15. event' \in [Ids -> Events \cup {Free}]
  BY <1>12, <1>13 DEF TimersInv, Typed
<1>16. Typed' /\ Held'
  <2>1. ev # Free /\ diff' \in Diffs \cup {0}
    BY <1>2, Released DEF TimersInv, Typed
  <2> QED
    BY <1>2, <1>6, <1>13, <1>14, <1>15, <2>1, Retimed
<1>17. Iterators'
  BY <1>1, <1>2, <1>3 DEF TimersInv, Iterators, None
<1>18. Clocks'
  <2> SUFFICES ASSUME NEW i \in 1..n, ~event'[list[i]].deleted
               PROVE  LET z == event'[list[i]]
                          ahead == IF pending(i)' THEN diff' ELSE 0
                      IN  z.currTime <= z.left + ahead /\ z.left + ahead <= z.currTime + MaxDiff
    BY <1>1, <1>2 DEF Clocks
  <2>1. CASE i = k
    <3>1. pending(k) /\ ~pending(k)'
      BY <1>1, <1>2, <1>3 DEF pending, None
    <3>2. ev.currTime <= ev.left + diff /\ ev.left + diff <= ev.currTime + MaxDiff
      BY <1>1, <1>3, <1>4, <1>6, <1>8, <3>1 DEF TimersInv, Clocks
    <3>3. c <= l + 0 /\ l + 0 <= c + MaxDiff
      BY <1>7, <1>9, <3>2
    <3> QED
      BY <1>4, <1>13, <1>14, <2>1, <3>1, <3>3
  <2>2. CASE i # k
    <3>1. event'[list[i]] = event[list[i]] /\ diff' = diff
      BY <1>2, <1>5, <1>14, <2>2
    <3>2. pending(i)' <=> pending(i)
      BY <1>1, <1>2, <1>3, <2>2 DEF pending, None
    <3> QED
      BY <1>1, <3>1, <3>2, ClocksFrame
  <2> QED
    BY <2>1, <2>2
<1>19. \A e \in Ids : event'[e] # Free =>
         event'[e].msTime = event[e].msTime /\ (event[e].currTime > 0 => event'[e].currTime > 0)
  BY <1>6, <1>9, <1>10, <1>13, <1>14
<1> QED
  BY <1>16, <1>17, <1>18, <1>19 DEF TimersInv

\* A callback is over and the event's period begins again.
LEMMA AgainStep ==
  ASSUME TimersInv, executed, ~erase
  PROVE  TimersInv' /\ \A e \in Ids : event'[e] # Free =>
           /\ event'[e].msTime = event[e].msTime
           /\ event'[e].currTime \in {event[e].currTime, event[e].msTime}
<1>1. PICK n, k : n = Len(list) /\ k = it2
  OBVIOUS
<1>2. /\ running = list[k] /\ k # None /\ it2' = None /\ running' = None
      /\ UNCHANGED <<alive, m_events, list, itr, diff>>
  BY <1>1 DEF executed, TimersInv, Iterators
<1>3. n \in Nat /\ k \in 1..n /\ itr \in {None, k + 1} /\ diff # 0
  BY <1>1, <1>2 DEF TimersInv, Typed, Iterators, None
<1>4. PICK x : x = list[k]
  OBVIOUS
<1>5. x \in Ids /\ (\A i \in 1..n : list[i] \in Ids /\ (list[i] = x <=> i = k))
  BY <1>1, <1>3, <1>4 DEF TimersInv, Typed, Held
<1>6. PICK ev \in Events : ev = event[x]
  BY <1>1, <1>3, <1>4, <1>5 DEF TimersInv, Typed, Held
<1>7. diff \in Nat /\ MaxDiff \in Nat /\ ev.msTime \in Nat /\ ev.msTime \in Int /\ ev.repeats \in Int
  BY LongestUpdate DEF TimersInv, Typed, Events
<1>8. PICK r \in Int : event' = [event EXCEPT ![x].repeats = r, ![x].currTime = ev.msTime, ![x].left = ev.msTime]
  <2>1. PICK rep : rep = IF ev.repeats # 0 THEN ev.repeats - 1 ELSE 0
    OBVIOUS
  <2>2. PICK r : r = IF rep < 0 THEN -1 ELSE rep
    OBVIOUS
  <2>3. r \in Int
    BY <1>7, <2>1, <2>2
  <2>4. event' = [event EXCEPT ![x].repeats = r, ![x].currTime = ev.msTime, ![x].left = ev.msTime]
    BY <1>1, <1>2, <1>4, <1>6, <2>1, <2>2 DEF executed, this
  <2> QED
    BY <2>3, <2>4
<1>9. PICK m : m = ev.msTime
  OBVIOUS
<1>10. m \in Nat /\ m \in Int
  BY <1>7, <1>9
<1>11. PICK y : y = clocked(ev, m, m, m, r)
  OBVIOUS
<1>12. event' = [event EXCEPT ![x] = y]
  <2>1. [ev EXCEPT !.repeats = r, !.currTime = m, !.left = m] = y
    BY <1>9, <1>11 DEF clocked, Events
  <2>2. event' = [event EXCEPT ![x] = [ev EXCEPT !.repeats = r, !.currTime = m, !.left = m]]
    BY <1>5, <1>6, <1>8, <1>9 DEF TimersInv, Typed
  <2> QED
    BY <2>1, <2>2
<1>13. /\ y \in Events /\ y # Free
       /\ y.obj = ev.obj /\ y.deleted = ev.deleted /\ y.ref = ev.ref
       /\ y.msTime = m /\ y.currTime = m /\ y.left = m
  BY <1>10, <1>11, SetClocks
<1>14. event'[x] = y /\ \A e \in Ids : e # x => event'[e] = event[e]
  BY <1>5, <1>12 DEF TimersInv, Typed
<1>15. event' \in [Ids -> Events \cup {Free}]
  BY <1>12, <1>13 DEF TimersInv, Typed
<1>16. Typed' /\ Held'
  <2>1. ev # Free /\ diff' \in Diffs \cup {0}
    BY <1>2, Released DEF TimersInv, Typed
  <2> QED
    BY <1>2, <1>6, <1>13, <1>14, <1>15, <2>1, Retimed
<1>17. Iterators'
  BY <1>1, <1>2, <1>3 DEF TimersInv, Iterators, None
<1>18. Clocks'
  <2> SUFFICES ASSUME NEW i \in 1..n, ~event'[list[i]].deleted
               PROVE  LET z == event'[list[i]]
                          ahead == IF pending(i)' THEN diff' ELSE 0
                      IN  z.currTime <= z.left + ahead /\ z.left + ahead <= z.currTime + MaxDiff
    BY <1>1, <1>2 DEF Clocks
  <2>1. CASE i = k
    <3>1. ~pending(k)'
      BY <1>1, <1>2, <1>3 DEF pending, None
    <3>2. m <= m + 0 /\ m + 0 <= m + MaxDiff
      BY <1>7, <1>10
    <3> QED
      BY <1>4, <1>13, <1>14, <2>1, <3>1, <3>2
  <2>2. CASE i # k
    <3>1. event'[list[i]] = event[list[i]] /\ diff' = diff
      BY <1>2, <1>5, <1>14, <2>2
    <3>2. pending(i)' <=> pending(i)
      BY <1>1, <1>2, <1>3, <2>2 DEF pending, None
    <3> QED
      BY <1>1, <3>1, <3>2, ClocksFrame
  <2> QED
    BY <2>1, <2>2
<1>19. \A e \in Ids : event'[e] # Free =>
         /\ event'[e].msTime = event[e].msTime
         /\ event'[e].currTime \in {event[e].currTime, event[e].msTime}
  BY <1>6, <1>9, <1>13, <1>14
<1> QED
  BY <1>16, <1>17, <1>18, <1>19 DEF TimersInv

-----------------------------------------------------------------------------
(* The whole specification of the timers *)

\* The invariant holds at the start.
LEMMA TimersStart ==
  ASSUME TimersInit
  PROVE  TimersInv
<1>1. list \in Seq(Ids) /\ Len(list) = 0
  BY DEF TimersInit
<1>2. \A e \in Ids : event[e] = Free
  BY DEF TimersInit
<1>3. Typed
  BY <1>1 DEF TimersInit, Typed
<1>4. Held
  BY <1>1, <1>2 DEF TimersInit, Held
<1>5. Iterators
  BY <1>1 DEF TimersInit, Iterators, None
<1>6. Clocks
  BY <1>1 DEF Clocks
<1> QED
  BY <1>3, <1>4, <1>5, <1>6 DEF TimersInv

\* The release in update(): a deleted event, or one whose callback was the last.
LEMMA EndStep ==
  ASSUME TimersInv, erase, skip \/ executed
  PROVE  TimersInv'
<1>1. it2 # None /\ it2' = None /\ running' = None /\ UNCHANGED <<alive, m_events, diff>>
  BY DEF skip, executed, TimersInv, Iterators
<1>2. diff # 0
  BY <1>1 DEF TimersInv, Iterators
<1> QED
  BY <1>1, <1>2, EraseStep

\* ... and every step keeps it.
LEMMA TimersStep ==
  ASSUME TimersInv, [TimersNext]_timerVars
  PROVE  TimersInv'
<1>1. ASSUME NEW o \in Objects, NEW t \in Types, NEW time \in Times, NEW repeats \in {-1, 1},
             addEvent(o, t, time, repeats, FALSE)
      PROVE  TimersInv'
  <2>1. repeats \in Int
    OBVIOUS
  <2> QED
    BY <1>1, <2>1, AddStep
<1>2. ASSUME NEW o \in Objects, NEW t \in Types, NEW time \in Times, addEvent(o, t, time, 1, TRUE)
      PROVE  TimersInv'
  <2>1. PICK r \in Int : r = 1
    OBVIOUS
  <2>2. PICK b \in BOOLEAN : b = TRUE
    BY Zenon
  <2>3. addEvent(o, t, time, r, b)
    BY <1>2, <2>1, <2>2
  <2> QED
    BY <2>3, AddStep
<1>3. ASSUME NEW o \in Objects, NEW t \in Types, removeEvents(o, t)
      PROVE  TimersInv'
  BY <1>3, RemoveStep
<1>4. ASSUME NEW o \in Objects, NEW t \in Types, NEW time \in Times, modifyEventTimeAndTimeLeft(o, t, time)
      PROVE  TimersInv'
  BY <1>4, ModifyStep
<1>5. ASSUME NEW o \in Objects, deleteObject(o)
      PROVE  TimersInv'
  BY <1>5, DeleteStep
<1>6. ASSUME NEW d \in Diffs, update(d)
      PROVE  TimersInv'
  BY <1>6, UpdateStep
<1>7. CASE take \/ execute \/ endUpdate \/ (\E o \in Objects : newObject(o)) \/ UNCHANGED timerVars
  BY <1>7, WalkStep
<1>8. CASE skip
  <2>1. erase
    BY <1>8 DEF skip
  <2> QED
    BY <1>8, <2>1, EndStep
<1>9. CASE pass
  BY <1>9, PassStep
<1>10. CASE executed
  BY <1>10, EndStep, AgainStep
<1> QED
  BY <1>1, <1>2, <1>3, <1>4, <1>5, <1>6, <1>7, <1>8, <1>9, <1>10 DEF TimersNext

-----------------------------------------------------------------------------
(* What the invariant says *)

\* The references of an event are its holders.
LEMMA CountsExact ==
  ASSUME TimersInv
  PROVE  RefsExact
<1> SUFFICES ASSUME NEW e \in Ids
             PROVE  LET l == Cardinality({i \in DOMAIN list : list[i] = e})
                        m == Cardinality({o \in Objects : e \in m_events[o]})
                    IN  event[e].ref = l + m /\ l <= 1 /\ m <= 1
  BY DEF RefsExact
<1>1. DOMAIN list = 1..Len(list)
  BY DEF TimersInv, Typed
<1>2. PICK L, M : L = {i \in DOMAIN list : list[i] = e} /\ M = {o \in Objects : e \in m_events[o]}
  OBVIOUS
<1>3. inList(e) => Cardinality(L) = 1
  <2> SUFFICES ASSUME inList(e) PROVE Cardinality(L) = 1
    OBVIOUS
  <2>1. PICK i \in 1..Len(list) : list[i] = e
    BY DEF inList
  <2>2. L = {i}
    BY <1>1, <1>2, <2>1 DEF TimersInv, Held
  <2> QED
    BY <2>2, FS_Singleton
<1>4. ~inList(e) => Cardinality(L) = 0
  <2> SUFFICES ASSUME ~inList(e) PROVE Cardinality(L) = 0
    OBVIOUS
  <2>1. L = {}
    BY <1>1, <1>2 DEF inList
  <2> QED
    BY <2>1, FS_EmptySet
<1>5. ASSUME NEW p \in Objects, e \in m_events[p] PROVE Cardinality(M) = 1
  <2>1. M = {p}
    BY <1>2, <1>5 DEF TimersInv, Held
  <2> QED
    BY <2>1, FS_Singleton
<1>6. (\A p \in Objects : e \notin m_events[p]) => Cardinality(M) = 0
  <2> SUFFICES ASSUME \A p \in Objects : e \notin m_events[p] PROVE Cardinality(M) = 0
    OBVIOUS
  <2>1. M = {}
    BY <1>2
  <2> QED
    BY <2>1, FS_EmptySet
<1>7. CASE event[e] = Free
  <2>1. event[e].ref = 0
    BY <1>7 DEF Free
  <2>2. ~inList(e) /\ \A p \in Objects : e \notin m_events[p]
    BY <1>7 DEF TimersInv, Held, inList
  <2> QED
    BY <1>2, <1>4, <1>6, <2>1, <2>2
<1>8. CASE event[e] # Free
  <2>1. event[e].obj \in Objects
    BY <1>8 DEF TimersInv, Typed, Events
  <2>2. \A p \in Objects : e \in m_events[p] => p = event[e].obj
    BY DEF TimersInv, Held
  <2>3. PICK p \in Objects : p = event[e].obj
    BY <2>1
  <2>4. \/ event[e].ref = 2 /\ inList(e) /\ e \in m_events[p]
        \/ event[e].ref = 1 /\ (inList(e) <=> e \notin m_events[p])
    BY <1>8, <2>3 DEF TimersInv, Held
  <2>5. e \notin m_events[p] => Cardinality(M) = 0
    BY <1>6, <2>2, <2>3
  <2>6. e \in m_events[p] => Cardinality(M) = 1
    BY <1>5
  <2> QED
    BY <1>2, <1>3, <1>4, <2>4, <2>5, <2>6
<1> QED
  BY <1>7, <1>8

\* A callback begins only in execute.
LEMMA CallsStep ==
  ASSUME TimersInv, [TimersNext]_timerVars
  PROVE  CallsAlive
<1> SUFFICES ASSUME running = None, running' # None
             PROVE  /\ ~event[running'].deleted /\ event[running'].obj \in alive
                    /\ running' \in m_events[event[running'].obj] /\ event[running'].left <= MaxDiff
  BY DEF CallsAlive
<1>1. execute
  BY DEF TimersNext, timerVars, addEvent, removeEvents, modifyEventTimeAndTimeLeft, deleteObject, newObject,
         update, take, skip, pass, executed, endUpdate
<1>2. PICK n, k : n = Len(list) /\ k = it2
  OBVIOUS
<1>3. n \in Nat /\ k \in 1..n
  BY <1>1, <1>2 DEF execute, TimersInv, Typed, Iterators, None
<1>4. PICK x : x = list[k]
  OBVIOUS
<1>5. running' = x /\ ~event[x].deleted /\ event[x].currTime <= diff
  BY <1>1, <1>2, <1>4 DEF execute, this
<1>6. x \in Ids /\ event[x] # Free
  BY <1>2, <1>3, <1>4 DEF TimersInv, Typed, Held
<1>7. PICK ev \in Events : ev = event[x]
  BY <1>6 DEF TimersInv, Typed
<1>8. x \in m_events[ev.obj] /\ ev.obj \in Objects /\ ev.obj \in alive
  <2>1. x \in m_events[ev.obj] /\ ev.obj \in Objects
    BY <1>5, <1>6, <1>7 DEF TimersInv, Held, Events
  <2> QED
    BY <2>1 DEF TimersInv, Held
<1>9. ev.left + diff <= ev.currTime + MaxDiff
  <2>1. pending(k)
    BY <1>2 DEF pending
  <2> QED
    BY <1>2, <1>3, <1>4, <1>5, <1>7, <2>1 DEF TimersInv, Clocks
<1>10. ev.left \in Int /\ ev.currTime \in Nat /\ diff \in Nat /\ MaxDiff \in Nat
  BY LongestUpdate DEF TimersInv, Typed, Events
<1>11. ev.left <= MaxDiff
  BY <1>5, <1>7, <1>9, <1>10
<1> QED
  BY <1>5, <1>7, <1>8, <1>11

\* Outside update() no event is pending, and its time left is not after its clock.
LEMMA NoneLate ==
  ASSUME TimersInv, Ahead
  PROVE  NotLate
<1> SUFFICES ASSUME diff = 0, NEW e \in Ids, event[e] # Free, ~event[e].deleted
             PROVE  event[e].left > 0
  BY DEF NotLate
<1>1. PICK ev \in Events : ev = event[e]
  BY DEF TimersInv, Typed
<1>2. PICK i \in 1..Len(list) : list[i] = e
  BY DEF TimersInv, Held, inList
<1>3. ~pending(i)
  BY DEF TimersInv, Iterators, pending, None
<1>4. ev.currTime <= ev.left + 0
  BY <1>1, <1>2, <1>3 DEF TimersInv, Clocks
<1>5. ev.currTime > 0 /\ ev.currTime \in Nat /\ ev.left \in Int
  BY <1>1 DEF Ahead, Events
<1> QED
  BY <1>1, <1>4, <1>5

\* A step changes the period and the clock of an event only to a time that lies ahead.
LEMMA AheadStep ==
  ASSUME 0 \notin Times, TimersInv, Ahead, [TimersNext]_timerVars
  PROVE  Ahead'
<1>1. \A time \in Times : time \in Nat /\ time > 0
  BY TimersConstants
<1>2. ASSUME NEW ev \in Events, decRef(ev) # Free
      PROVE  decRef(ev).msTime = ev.msTime /\ decRef(ev).currTime = ev.currTime
  <2>1. decRef(ev) = [ev EXCEPT !.ref = @ - 1, !.deleted = TRUE]
    BY <1>2 DEF decRef
  <2> QED
    BY <2>1 DEF Events
<1>3. \A e \in Ids : event[e] \in Events \cup {Free} /\ (event[e] # Free => event[e] \in Events)
  BY DEF TimersInv, Typed
<1>4. ASSUME NEW e \in Ids, event'[e] # Free, event[e] # Free, event'[e] \in {event[e], decRef(event[e])}
      PROVE  event'[e].msTime > 0 /\ event'[e].currTime > 0
  <2>1. PICK ev \in Events : ev = event[e]
    BY <1>3, <1>4
  <2>2. ev.msTime > 0 /\ ev.currTime > 0
    BY <1>4, <2>1 DEF Ahead
  <2> QED
    BY <1>2, <1>4, <2>1, <2>2
<1>5. ASSUME NEW o \in Objects, NEW t \in Types, NEW time \in Times, NEW repeats, NEW deletes,
             addEvent(o, t, time, repeats, deletes)
      PROVE  Ahead'
  <2>1. PICK e \in Ids : event' = [event EXCEPT ![e] =
               [obj |-> o, eventType |-> t, msTime |-> time, currTime |-> time, repeats |-> repeats,
                deletes |-> deletes, deleted |-> FALSE, ref |-> 2, left |-> time]]
    BY <1>5 DEF addEvent
  <2>2. event'[e].msTime = time /\ event'[e].currTime = time /\ \A f \in Ids : f # e => event'[f] = event[f]
    BY <2>1 DEF TimersInv, Typed
  <2> QED
    BY <1>1, <2>2 DEF Ahead, Ids
<1>6. ASSUME \A e \in Ids : event'[e] \in {event[e], decRef(event[e])} /\ (event[e] = Free => event'[e] = Free)
      PROVE  Ahead'
  <2>1. \A e \in Ids : event'[e] # Free => event[e] # Free
    BY <1>6
  <2> QED
    BY <1>4, <1>6, <2>1 DEF Ahead, Ids
<1>7. ASSUME NEW o \in Objects, NEW t \in Types, removeEvents(o, t)
      PROVE  Ahead'
  <2>1. \A e \in ofType(o, t) : e \in Ids /\ event[e] # Free
    BY DEF ofType, TimersInv, Typed, Held
  <2>2. \A e \in Ids : event'[e] = IF e \in ofType(o, t) THEN decRef(event[e]) ELSE event[e]
    BY <1>7 DEF removeEvents
  <2> QED
    BY <1>6, <2>1, <2>2
<1>8. ASSUME NEW o \in Objects, NEW t \in Types, NEW time \in Times, modifyEventTimeAndTimeLeft(o, t, time)
      PROVE  Ahead'
  <2>1. \A e \in ofType(o, t) : e \in Ids /\ event[e] # Free
    BY DEF ofType, TimersInv, Typed, Held
  <2>2. ASSUME NEW e \in Ids, event'[e] # Free PROVE event'[e].msTime > 0 /\ event'[e].currTime > 0
    <3>1. CASE e \in ofType(o, t)
      <4>1. PICK ev \in Events : ev = event[e]
        BY <1>3, <2>1, <3>1
      <4>2. event'[e] = [ev EXCEPT !.msTime = time, !.currTime = time, !.left = time]
        BY <1>8, <3>1, <4>1 DEF modifyEventTimeAndTimeLeft
      <4>3. event'[e].msTime = time /\ event'[e].currTime = time
        BY <4>2 DEF Events
      <4> QED
        BY <1>1, <4>3
    <3>2. CASE e \notin ofType(o, t)
      <4>1. event'[e] = event[e]
        BY <1>8, <3>2 DEF modifyEventTimeAndTimeLeft
      <4> QED
        BY <2>2, <4>1 DEF Ahead
    <3> QED
      BY <3>1, <3>2
  <2> QED
    BY <2>2 DEF Ahead, Ids
<1>9. ASSUME NEW o \in Objects, deleteObject(o)
      PROVE  Ahead'
  <2>1. \A e \in m_events[o] : e \in Ids /\ event[e] # Free
    BY DEF TimersInv, Typed, Held
  <2>2. \A e \in Ids : event'[e] = IF e \in m_events[o] THEN decRef(event[e]) ELSE event[e]
    BY <1>9 DEF deleteObject
  <2> QED
    BY <1>6, <2>1, <2>2
<1>10. ASSUME NEW d \in Diffs, update(d)
       PROVE  Ahead'
  <2>1. ASSUME NEW e \in Ids, event'[e] # Free PROVE event'[e].msTime > 0 /\ event'[e].currTime > 0
    <3>1. CASE event[e] = Free \/ event[e].deleted
      <4>1. event'[e] = event[e]
        BY <1>10, <3>1 DEF update
      <4> QED
        BY <2>1, <4>1 DEF Ahead
    <3>2. CASE ~(event[e] = Free \/ event[e].deleted)
      <4>1. PICK ev \in Events : ev = event[e]
        BY <1>3, <3>2
      <4>2. event'[e] = [ev EXCEPT !.left = @ - d]
        BY <1>10, <3>2, <4>1 DEF update
      <4>3. event'[e].msTime = ev.msTime /\ event'[e].currTime = ev.currTime
        BY <4>2 DEF Events
      <4> QED
        BY <3>2, <4>1, <4>3 DEF Ahead
    <3> QED
      BY <3>1, <3>2
  <2> QED
    BY <2>1 DEF Ahead, Ids
<1>11. CASE take \/ execute \/ endUpdate \/ (\E o \in Objects : newObject(o)) \/ UNCHANGED timerVars
  <2>1. UNCHANGED event
    BY <1>11 DEF take, execute, endUpdate, newObject, timerVars
  <2> QED
    BY <2>1 DEF Ahead, Ids
<1>12. ASSUME erase, it2 # None
       PROVE  Ahead'
  <2>1. PICK x : x = list[it2]
    OBVIOUS
  <2>2. x \in Ids /\ event[x] # Free
    BY <1>12, <2>1 DEF TimersInv, Typed, Held, Iterators, None
  <2>3. event'[x] = decRef(event[x]) /\ \A e \in Ids : e # x => event'[e] = event[e]
    BY <1>12, <2>1, <2>2 DEF erase, TimersInv, Typed
  <2> QED
    BY <1>6, <2>2, <2>3
<1>13. CASE skip
  BY <1>12, <1>13 DEF skip
<1>14. CASE pass
  <2>1. \A e \in Ids : event'[e] # Free => event[e] # Free
    <3>1. PICK x : x = list[it2]
      OBVIOUS
    <3>2. x \in Ids /\ event[x] # Free
      BY <1>14, <3>1 DEF pass, TimersInv, Typed, Held, Iterators, None
    <3>3. \A e \in Ids : e # x => event'[e] = event[e]
      BY <1>14, <3>1, <3>2 DEF pass, TimersInv, Typed
    <3> QED
      BY <3>2, <3>3
  <2>2. \A e \in Ids : event'[e] # Free =>
          event'[e].msTime = event[e].msTime /\ (event[e].currTime > 0 => event'[e].currTime > 0)
    BY <1>14, PassStep
  <2> QED
    BY <2>1, <2>2 DEF Ahead, Ids
<1>15. CASE executed
  <2>1. it2 # None /\ running # None /\ running = list[it2]
    BY <1>15 DEF executed, TimersInv, Iterators
  <2>2. CASE erase
    BY <1>12, <2>1, <2>2
  <2>3. CASE ~erase
    <3>1. \A e \in Ids : event'[e] # Free =>
            /\ event'[e].msTime = event[e].msTime
            /\ event'[e].currTime \in {event[e].currTime, event[e].msTime}
      BY <1>15, <2>3, AgainStep
    <3>2. \A e \in Ids : event'[e] # Free => event[e] # Free
      <4>1. PICK x : x = running
        OBVIOUS
      <4>2. x \in Ids /\ event[x] # Free
        BY <2>1, <4>1 DEF TimersInv, Typed, Held, Iterators, None
      <4>3. \A e \in Ids : e # x => event'[e] = event[e]
        BY <1>15, <2>3, <4>1, <4>2 DEF executed, TimersInv, Typed
      <4> QED
        BY <4>2, <4>3
    <3> QED
      BY <3>1, <3>2 DEF Ahead, Ids
  <2> QED
    BY <2>2, <2>3
<1> QED
  BY <1>5, <1>7, <1>8, <1>9, <1>10, <1>11, <1>13, <1>14, <1>15 DEF TimersNext

\* The list, the maps, the counts and marks, and update()'s iterators and clocks agree in
\* every state, for any objects, periods, updates and callbacks (EventMgr, EventableObject,
\* EventableObjectHolder).
THEOREM TimersInvariant == TimersSpec => []TimersInv
<1>1. TimersInit => TimersInv
  BY TimersStart
<1>2. TimersInv /\ [TimersNext]_timerVars => TimersInv'
  BY TimersStep
<1> QED
  BY <1>1, <1>2, PTL DEF TimersSpec

\* Every timer has as many references as it is held, and is freed exactly when it is in
\* neither the list nor a map (TimedEvent::incRef, decRef).
THEOREM ReferencesCounted == TimersSpec => []RefsExact
<1>1. TimersInv => RefsExact
  BY CountsExact
<1> QED
  BY <1>1, TimersInvariant, PTL

\* A callback that begins is of an event that was not removed, of an object that exists and
\* still has it, at most the length of one update too early (EventableObjectHolder::update).
THEOREM CallsOnlyAlive == TimersSpec => [][CallsAlive]_timerVars
<1>1. TimersInv /\ [TimersNext]_timerVars => CallsAlive
  BY CallsStep
<1> QED
  BY <1>1, TimersInvariant, PTL DEF TimersSpec

\* When update() is over, no timer that was not removed is overdue.  A timer of period zero
\* is due as soon as it is added, so there are none.
THEOREM NoTimerLate ==
  ASSUME 0 \notin Times
  PROVE  TimersSpec => []NotLate
<1>1. TimersInit => Ahead
  BY DEF TimersInit, Ahead
<1>2. TimersInv /\ Ahead /\ [TimersNext]_timerVars => Ahead'
  BY AheadStep
<1>3. TimersInv /\ Ahead => NotLate
  BY NoneLate
<1> QED
  BY <1>1, <1>2, <1>3, TimersInvariant, PTL DEF TimersSpec

\* A timer is called when it is due, for any objects, positive periods and number of timers:
\* only if it was not removed and its object has it, not more than an update too early, and
\* never overdue after update() (EventableObjectHolder::update).
THEOREM EveryTimerWhenDue ==
  ASSUME 0 \notin Times
  PROVE  TimersSpec => CalledWhenDue
  BY CallsOnlyAlive, NoTimerLate, PTL DEF CalledWhenDue
=============================================================================
