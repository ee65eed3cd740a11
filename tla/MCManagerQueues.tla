--------------------------- MODULE MCManagerQueues ---------------------------
(***************************************************************************)
(* TLC instance of the manager's two queues, the persistence queue and the *)
(* change delivery.  Neither knows of the other, so a behaviour moves one. *)
(***************************************************************************)
EXTENDS StoreQueue, ChangeDelivery

CONSTANTS g1, g2, g3

\* Some callers pass a request context, some context.Background().
SomeContextOps == {2, 4, 5}

VARIABLE studied

QueuesInit == studied \in {"store", "changes"} /\ QueueInit /\ DeliveryInit

\* In their initial states neither queue has a step that fairness demands.
QueuesSpec ==
    /\ QueuesInit
    /\ [][\/ studied = "store" /\ QueueNext /\ UNCHANGED <<deliveryVars, studied>>
          \/ studied = "changes" /\ DeliveryNext /\ UNCHANGED <<queueVars, studied>>
         ]_<<queueVars, deliveryVars, studied>>
    /\ \A n \in Operation : WF_queueVars(Start(n)) /\ WF_queueVars(Finish(n))
    /\ \A g \in Goroutine : WF_deliveryVars(Step(g))

\* Nobody waits for ever in either queue: every reservation's channel is
\* closed, and every change leaves for the handler or is skipped.
QueuesDrain == EveryOperationCloses /\ EveryChangeLeavesTheQueue

=============================================================================
