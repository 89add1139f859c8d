------------------------------ MODULE MCArrives -----------------------------
(* The parts of the system that owe somebody something in the end, side by  *)
(* side: they share no state, and each behaviour is one of one part.        *)
EXTENDS RunnerOrders, Live, SelfUpdate, JobStream

VARIABLE part

vars == <<orderVars, liveVars, updateVars, streamVars, part>>

InOrders == part = "orders" /\ UNCHANGED <<liveVars, updateVars, streamVars, part>>
InLive   == part = "live"   /\ UNCHANGED <<orderVars, updateVars, streamVars, part>>
InUpdate == part = "update" /\ UNCHANGED <<orderVars, liveVars, streamVars, part>>
InStream == part = "stream" /\ UNCHANGED <<orderVars, liveVars, updateVars, part>>

\* Where a part could start in several ways, those that are not run start in
\* one of them.
Init == /\ part \in {"orders", "live", "update", "stream"}
        /\ OrdersInit /\ LiveInit /\ UpdateInit /\ StreamInit
        /\ part # "orders" => host.version = CHOOSE v \in Version : TRUE
        /\ part # "update" => installed = CHOOSE v \in Release : TRUE

Next == \/ OrdersNext /\ InOrders
        \/ LiveNext   /\ InLive
        \/ UpdateNext /\ InUpdate
        \/ StreamNext /\ InStream

\* OrdersFairness, LiveFairness, UpdateFairness and StreamFairness.  As a
\* behaviour is one of one part, steps of different parts can share a
\* condition, of which TLC copes with a few only.
Fairness ==
  /\ SF_vars(\/ OrdersHeartbeat /\ InOrders
             \/ Check /\ InLive
             \/ Receive /\ InStream)
  /\ \A t \in Tab :
       /\ SF_vars(\/ t = 1 /\ CarryOut /\ InOrders
                  \/ Refresh(t) /\ ~tabs[t].hidden /\ InLive)
       /\ SF_vars(\/ t = 1 /\ RegisterAgain /\ ~orders.tokenGood /\ InOrders
                  \/ Apply(t) /\ InLive)
       /\ WF_vars(TakeOver(t) /\ InLive)
       /\ WF_vars(Show(t) /\ InLive)
       /\ WF_vars(Render(t) /\ InLive)
  /\ WF_vars(\/ HostUpdates /\ InOrders
             \/ Connect /\ InLive
             \/ PollStatus /\ InUpdate
             \/ Attach /\ InStream)
  /\ WF_vars(Elapse /\ InUpdate)

Spec == Init /\ [][Next]_vars /\ Fairness

\* The variables of every part have their types.
ArrivesTypeOK ==
  OrdersTypeOK /\ LiveTypeOK /\ UpdateTypeOK /\ StreamTypeOK
=============================================================================
