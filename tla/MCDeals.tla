------------------------------- MODULE MCDeals -------------------------------
(* Deals for TLC.  A behaviour is chosen at the start: a platform and a       *)
(* database that keep their word (the configuration's constants); beyond      *)
(* that, patient clients and answers that arrive; or an environment in which  *)
(* anything may be lost or repeated.                                          *)
EXTENDS Deals

CONSTANT FewOrders   \* bound: the orders created where things are lost or repeated

VARIABLE env

few == \A o \in Orders \ FewOrders : owner'[o] = NoAccount

Calm == INSTANCE Deals WITH Patient <- TRUE, AnswerLoss <- FALSE
Faulty == INSTANCE Deals WITH
            FinishOnce <- FALSE, SavesFirst <- FALSE, SavedAtDestroy <- FALSE, Crash <- TRUE,
            MaxQueue <- MaxQueue - 1

MCInit == Init /\ env \in {"any", "kept", "calm"}
MCNext ==
  \/ env = "any" /\ Faulty!Next /\ few /\ UNCHANGED env
  \/ env = "kept" /\ Next /\ few /\ UNCHANGED env
  \/ env = "calm" /\ Calm!Next /\ UNCHANGED env

\* The HTTP thread, the main thread and the database's save thread keep running
\* (HttpProcess, GameServer::runOnce, db_thread::run); nothing is asked of the players.
MCFairness ==
  env = "calm" => WF_vars(Calm!update) /\ WF_vars(Calm!logicUpdate) /\ WF_vars(Calm!dbSave)

MCSpec == MCInit /\ [][MCNext]_<<vars, env>> /\ MCFairness

-----------------------------------------------------------------------------
P == INSTANCE Payment WITH
       finished <- IF env = "any" THEN {} ELSE finished,
       credited <- IF env = "any" THEN NoGold ELSE credits

\* Selling implements Payment: across logout, Destroy and reload an order is credited at
\* most once, although an answer and a reload both credit it (addDealPay, set_info), and
\* a credit is not taken back.  Needs a platform that closes an order once, a process
\* that lives, and a hero that is saved before Destroy.
KeepsPayment == P!Spec

\* An order that the platform has closed is settled in the end, for good, whether or not
\* its buyer is still there when the answer comes (OfflineHeroDealWaitToPay, set_info).
\* Needs patient clients and answers that arrive.
Settled == \A o \in Sold : (env = "calm" /\ o \in finished) ~> [](settled(o))
=============================================================================
