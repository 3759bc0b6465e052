---------------------------- MODULE MCHeroSessions ----------------------------
(* HeroSessions for TLC, in two environments.  A behaviour is chosen at the   *)
(* start: the orderly one of the configuration's constants, or one in which   *)
(* ids may be reused and queries may overtake saves and fail.                 *)
EXTENDS HeroSessions

CONSTANTS a1, g1

\* All ids belong to one account: the account logs in again.
OneOwner == [t \in Trans |-> a1]

\* All ids were given to one gate server.
OneGate == [t \in Trans |-> g1]

VARIABLE orderly

Loose == INSTANCE HeroSessions
           WITH Reuse <- TRUE, SavesFirst <- FALSE, DbFails <- TRUE

BothInit == Init /\ orderly \in BOOLEAN
BothNext ==
  \/ orderly /\ Next /\ UNCHANGED orderly
  \/ ~orderly /\ Loose!Next /\ UNCHANGED orderly

(* What the main loop and the database threads keep doing in either one.     *)
BothFairness ==
  /\ WF_vars(dbSave) /\ WF_vars(dbReply)
  /\ WF_vars(orderly /\ dbDoQueryHeroInfo)
  /\ WF_vars(~orderly /\ Loose!dbDoQueryHeroInfo)
  /\ \A a \in Accounts : WF_vars(Destroy(a))

BothSpec == BothInit /\ [][BothNext]_<<vars, orderly>> /\ BothFairness

-----------------------------------------------------------------------------
\* The hero in memory is never older than what was saved of it: a load never
\* brings back an earlier state, nor a new hero in place of a saved one.  This
\* needs the orderly environment: ids that are not reused, queries that do not
\* fail and do not overtake a save (dbDoQueryHeroInfo, CreateHero).
NotBehindRow == orderly => MemoryNotBehind

\* Every Session gets its hero or goes away, if the connection to the database
\* server holds (parseQueryHeroInfo, praseDBQueryHeroInfo): a query that is lost
\* with the connection is never asked again.
HeroArrives ==
  []dbUp => \A t \in Trans : getUser(t) ~> _dream_hero[t] = "hero" \/ ~getUser(t)
=============================================================================
