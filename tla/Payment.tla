------------------------------- MODULE Payment -------------------------------
(***************************************************************************)
(* What selling gold and jewels promises: an order that the platform has    *)
(* taken payment for is credited to its buyer at most once, nothing else is *)
(* credited, and a credit is never taken back.                              *)
(***************************************************************************)
EXTENDS Naturals

CONSTANT Orders

VARIABLES
  finished,   \* orders the platform has closed as paid
  credited    \* how often the buyer has received the goods of an order

Init ==
  /\ finished = {}
  /\ credited = [o \in Orders |-> 0]

Finish(o) ==
  /\ o \notin finished
  /\ finished' = finished \cup {o}
  /\ UNCHANGED credited

\* Several orders may be credited at once, when their buyer comes back.
Credit(S) ==
  /\ S \subseteq finished
  /\ \A o \in S : credited[o] = 0
  /\ credited' = [o \in Orders |-> IF o \in S THEN 1 ELSE credited[o]]
  /\ UNCHANGED finished

\* The platform's own notice: the order is closed and credited at once.
Sell(o) ==
  /\ o \notin finished
  /\ credited[o] = 0
  /\ finished' = finished \cup {o}
  /\ credited' = [credited EXCEPT ![o] = 1]

Next ==
  \/ \E o \in Orders : Finish(o) \/ Sell(o)
  \/ \E S \in SUBSET Orders : Credit(S)

Spec == Init /\ [][Next]_<<finished, credited>>
=============================================================================
