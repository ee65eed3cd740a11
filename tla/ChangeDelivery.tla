---------------------------- MODULE ChangeDelivery ----------------------------
(***************************************************************************)
(* Delivery of workspace changes to the one change handler                 *)
(* (nextChangeLocked, emitChange, skipChange and completeChange in         *)
(* src/internal/session/manager.go).                                       *)
(*                                                                         *)
(* A mutation draws a sequence number under the manager lock, persists     *)
(* without it, and then COMPLETES its number: emitted when the mutation    *)
(* took effect, skipped when it was rolled back.  Mutations finish in any  *)
(* order.  Whoever completes a number while nobody drains becomes the      *)
(* drainer and hands the completed numbers to the handler, in order, with  *)
(* no lock held; the handler may mutate the workspace again and complete   *)
(* another number from inside the callback.  A panic of the handler is     *)
(* recovered, so for the drain it is one more way of returning.            *)
(***************************************************************************)
EXTENDS Naturals

CONSTANTS
    Goroutine,    \* goroutines that mutate the workspace
    MaxChanges    \* bound on the sequence numbers drawn

ASSUME DeliveryAssumption == MaxChanges \in Nat \ {0}

VARIABLES
    changeSequence,          \* last number drawn
    changeCompletions,       \* completed numbers not yet taken by a drainer
    changeDeliverySequence,  \* last number taken by a drainer
    changeDeliveryActive,    \* somebody is draining
    pc,          \* idle | mutating | draining | calling | handling, per goroutine
    held,        \* number drawn by a mutation and not yet completed, or 0
    current,     \* number a drainer is delivering, or 0
    deliver,     \* how each number was completed: none | emit | skip
    observed     \* history: the numbers the handler was called with

deliveryVars == <<changeSequence, changeCompletions, changeDeliverySequence,
                  changeDeliveryActive, pc, held, current, deliver, observed>>

Number == 1..MaxChanges

-----------------------------------------------------------------------------

DeliveryInit ==
    /\ changeSequence = 0
    /\ changeCompletions = {}
    /\ changeDeliverySequence = 0
    /\ changeDeliveryActive = FALSE
    /\ pc = [g \in Goroutine |-> "idle"]
    /\ held = [g \in Goroutine |-> 0]
    /\ current = [g \in Goroutine |-> 0]
    /\ deliver = [n \in Number |-> "none"]
    /\ observed = {}

\* A goroutine mutates from the outside, or from inside the change handler.
MayMutate(g) == pc[g] \in {"idle", "handling"} /\ held[g] = 0

\* Fault: the sequence is read but not advanced.
NextChangeNotCounted(g) ==
    /\ MayMutate(g)
    /\ changeSequence < MaxChanges
    /\ held' = [held EXCEPT ![g] = changeSequence + 1]
    /\ pc' = [pc EXCEPT ![g] = IF @ = "idle" THEN "mutating" ELSE @]
    /\ UNCHANGED <<changeSequence, changeCompletions, changeDeliverySequence,
                   changeDeliveryActive, current, deliver, observed>>

NextChange(g) ==
    /\ MayMutate(g)
    /\ changeSequence < MaxChanges
    /\ changeSequence' = changeSequence + 1
    /\ held' = [held EXCEPT ![g] = changeSequence + 1]
    /\ pc' = [pc EXCEPT ![g] = IF @ = "idle" THEN "mutating" ELSE @]
    /\ UNCHANGED <<changeCompletions, changeDeliverySequence, changeDeliveryActive,
                   current, deliver, observed>>

\* Fault: skipped changes are handed to the handler too.
TakeNextAndCall(g, completions) ==
    LET next == changeDeliverySequence + 1 IN
    /\ next \in completions
    /\ changeCompletions' = completions \ {next}
    /\ changeDeliverySequence' = next
    /\ changeDeliveryActive' = TRUE
    /\ pc' = [pc EXCEPT ![g] = "calling"]
    /\ current' = [current EXCEPT ![g] = next]

\* One turn of the drain loop, with changeDeliveryMu held: take the next
\* number if it has been completed, otherwise stop being the drainer.
TakeNext(g, completions) ==
    LET next == changeDeliverySequence + 1 IN
    \/ /\ next \in completions
       /\ changeCompletions' = completions \ {next}
       /\ changeDeliverySequence' = next
       /\ changeDeliveryActive' = TRUE
       /\ IF deliver'[next] = "emit"
            THEN /\ pc' = [pc EXCEPT ![g] = "calling"]
                 /\ current' = [current EXCEPT ![g] = next]
            ELSE /\ pc' = [pc EXCEPT ![g] = "draining"]
                 /\ current' = [current EXCEPT ![g] = 0]
    \/ /\ next \notin completions
       /\ changeCompletions' = completions
       /\ changeDeliverySequence' = changeDeliverySequence
       /\ changeDeliveryActive' = FALSE
       /\ pc' = [pc EXCEPT ![g] = "idle"]
       /\ current' = [current EXCEPT ![g] = 0]

\* completeChange when another goroutine, or this one further up its stack,
\* is draining: record the completion and return.
CompleteWhileDraining(g, how) ==
    /\ held[g] > changeDeliverySequence
    /\ changeDeliveryActive
    /\ deliver' = [deliver EXCEPT ![held[g]] = how]
    /\ changeCompletions' = changeCompletions \cup {held[g]}
    /\ held' = [held EXCEPT ![g] = 0]
    /\ pc' = [pc EXCEPT ![g] = IF @ = "mutating" THEN "idle" ELSE @]
    /\ UNCHANGED <<changeSequence, changeDeliverySequence, changeDeliveryActive,
                   current, observed>>

\* Fault: whoever completes a number drains, even if somebody else does.
CompleteAndDrainToo(g, how) ==
    /\ held[g] > changeDeliverySequence
    /\ deliver' = [deliver EXCEPT ![held[g]] = how]
    /\ held' = [held EXCEPT ![g] = 0]
    /\ TakeNext(g, changeCompletions \cup {held[g]})
    /\ UNCHANGED <<changeSequence, observed>>

\* completeChange when nobody drains: record the completion, become the
\* drainer and take the first turn without releasing the mutex.
CompleteAndDrain(g, how) ==
    /\ held[g] > changeDeliverySequence
    /\ ~changeDeliveryActive
    /\ deliver' = [deliver EXCEPT ![held[g]] = how]
    /\ held' = [held EXCEPT ![g] = 0]
    /\ TakeNext(g, changeCompletions \cup {held[g]})
    /\ UNCHANGED <<changeSequence, observed>>

Complete(g) ==
    \E how \in {"emit", "skip"} :
        CompleteWhileDraining(g, how) \/ CompleteAndDrain(g, how)

\* invokeChangeHandler enters the handler, outside every lock.
CallHandler(g) ==
    /\ pc[g] = "calling"
    /\ pc' = [pc EXCEPT ![g] = "handling"]
    /\ observed' = observed \cup {current[g]}
    /\ UNCHANGED <<changeSequence, changeCompletions, changeDeliverySequence,
                   changeDeliveryActive, held, current, deliver>>

\* The handler returns or its panic is recovered.
HandlerReturns(g) ==
    /\ pc[g] = "handling"
    /\ held[g] = 0
    /\ pc' = [pc EXCEPT ![g] = "draining"]
    /\ current' = [current EXCEPT ![g] = 0]
    /\ UNCHANGED <<changeSequence, changeCompletions, changeDeliverySequence,
                   changeDeliveryActive, held, deliver, observed>>

\* Fault: the drainer stops after one change without looking for the next.
DrainOnce(g) ==
    /\ pc[g] = "draining"
    /\ pc' = [pc EXCEPT ![g] = "idle"]
    /\ changeDeliveryActive' = FALSE
    /\ UNCHANGED <<changeSequence, changeCompletions, changeDeliverySequence, held, current,
                   deliver, observed>>

\* The drainer locks the mutex again for its next turn.
Drain(g) ==
    /\ pc[g] = "draining"
    /\ UNCHANGED <<changeSequence, held, deliver, observed>>
    /\ TakeNext(g, changeCompletions)

Step(g) == Complete(g) \/ CallHandler(g) \/ HandlerReturns(g) \/ Drain(g)

DeliveryNext == \E g \in Goroutine : NextChange(g) \/ Step(g)

\* A goroutine that holds a number or drains keeps running: persistence
\* returns, the handler returns, and Go mutexes are handed over.  Nobody is
\* obliged to start a new mutation.
DeliverySpec ==
    /\ DeliveryInit /\ [][DeliveryNext]_deliveryVars
    /\ \A g \in Goroutine : WF_deliveryVars(Step(g))

-----------------------------------------------------------------------------

DeliveryTypeOK ==
    /\ changeSequence \in 0..MaxChanges
    /\ changeCompletions \subseteq 1..changeSequence
    /\ changeDeliverySequence \in 0..changeSequence
    /\ changeDeliveryActive \in BOOLEAN
    /\ pc \in [Goroutine -> {"idle", "mutating", "draining", "calling", "handling"}]
    /\ held \in [Goroutine -> 0..changeSequence]
    /\ current \in [Goroutine -> 0..changeDeliverySequence]
    /\ deliver \in [Number -> {"none", "emit", "skip"}]
    /\ observed \subseteq 1..changeDeliverySequence

Draining(g) == pc[g] \in {"draining", "calling", "handling"}

\* "Only one caller drains at a time": two handlers never run together, and
\* the flag is up exactly while somebody is responsible for the queue.
SingleDrainer ==
    /\ changeDeliveryActive <=> \E g \in Goroutine : Draining(g)
    /\ \A g, h \in Goroutine : Draining(g) /\ Draining(h) => g = h

\* No wake-up is lost: when nobody drains, the next number to deliver has not
\* been completed, so whoever completes it will drain.
NothingStranded ==
    ~changeDeliveryActive => changeDeliverySequence + 1 \notin changeCompletions

\* Exactly once: a number that left the queue was completed, and the handler
\* has seen it, or is about to, if and only if its mutation took effect.
OutcomeRespected ==
    \A n \in 1..changeDeliverySequence :
        /\ deliver[n] # "none"
        /\ deliver[n] = "emit" <=>
              \/ n \in observed
              \/ \E g \in Goroutine : pc[g] = "calling" /\ current[g] = n

\* Both: every completed number is delivered, once and as it was completed.
DeliveryExact == NothingStranded /\ OutcomeRespected

\* The handler sees changes in the order in which the mutations happened.
ObservedInOrder ==
    [][\A n \in observed' \ observed : \A m \in observed : m < n]_deliveryVars

\* A rolled back or slow mutation delays later changes but never loses them.
EveryChangeLeavesTheQueue ==
    \A n \in Number : changeSequence >= n ~> changeDeliverySequence >= n

Tickets == INSTANCE TicketOrder WITH
    issued <- changeSequence, served <- changeDeliverySequence

\* Change delivery implements the abstract ticket order, liveness included.
ImplementsTicketOrder == Tickets!TicketSpec

=============================================================================
