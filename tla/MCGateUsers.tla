----------------------------- MODULE MCGateUsers -----------------------------
(* Small instances of GateUsers for TLC. *)
EXTENDS GateUsers, TLC

CONSTANTS t1, t2, a1

\* Every id belongs to one account: the account logs in again.
OneOwner == [t \in Trans |-> a1]

SessionSymmetry == Permutations(Sessions)
=============================================================================
