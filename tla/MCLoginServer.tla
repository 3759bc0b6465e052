----------------------------- MODULE MCLoginServer -----------------------------
(* Small instances of LoginServer for TLC. *)
EXTENDS LoginServer, TLC

CONSTANT a1

\* All ids belong to one account: the account logs in again.
OneOwner == [t \in Trans |-> a1]

\* Sessions, connections, gate servers and the ids of one account are alike.
PoolSymmetry == Permutations(Sessions) \cup Permutations(Conns)
                  \cup Permutations(Gates) \cup Permutations(Trans)
=============================================================================
