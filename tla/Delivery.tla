------------------------------ MODULE Delivery ------------------------------
(* What the numbered config revisions of a runner promise: revisions are    *)
(* saved one after the other, the runner only ever moves to a newer one,    *)
(* skipping some, and what the Coordinator knows the runner to hold follows *)
(* what it held.  RunnerConfig implements this with heartbeats.             *)
EXTENDS Naturals

VARIABLES saved, held, known

deliveryVars == <<saved, held, known>>

DeliveryInit == saved = 0 /\ held = 0 /\ known = 0

Save  == saved' = saved + 1 /\ UNCHANGED <<held, known>>
Take  == \E n \in (held + 1)..saved : held' = n /\ UNCHANGED <<saved, known>>
Learn == known # held /\ known' = held /\ UNCHANGED <<saved, held>>

DeliveryNext == Save \/ Take \/ Learn

DeliverySpec == /\ DeliveryInit
                /\ [][DeliveryNext]_deliveryVars
                /\ WF_deliveryVars(Take)
                /\ WF_deliveryVars(Learn)
=============================================================================
