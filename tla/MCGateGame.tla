------------------------------ MODULE MCGateGame ------------------------------
(* Small instances of GateGame for TLC. *)
EXTENDS GateGame, TLC

CONSTANTS t1, t2, a1, MaxLate

\* Both ids belong to one account: the account logs in again.
OneOwner == [t \in Trans |-> a1]

\* Bounds: no connection is replaced while there are strays, at most MaxLate messages are
\* under way on one that was, and on the new one until that is closed and the strays are gone.
limits ==
  \A g \in Games :
    /\ \A o \in Spare : Len(late'[g][o]) <= MaxLate
    /\ strays[g] # {} => replaced'[g] \subseteq replaced[g]
    /\ strays'[g] # {} \/ replaced'[g] # {} => Len(chan'[g]) <= MaxLate

GameSpec == SysInit /\ [][SysNext /\ limits]_allVars

\* The state without what neither property nor any step that changes the rest
\* reads: the timers of the connections, that they were told to close, and the
\* messages of the last step, which are in chan by now.
CoreView == <<mapVars, timerVars, m_state, m_tranid, m_gs_id, active, issued, sysVars>>

\* Sessions are alike, and so are the ids, which have one owner.
GameSymmetry == Permutations(Sessions) \cup Permutations(Trans)
=============================================================================
