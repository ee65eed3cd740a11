------------------------- MODULE ManagerQueuesProofs -------------------------
(***************************************************************************)
(* Proofs about the two queues of the session manager: the persistence     *)
(* queue, for every number of reservations and every choice of cancellable *)
(* operations; and the delivery of changes, for any set of goroutines and  *)
(* any number of changes.  Neither knows of the other.                     *)
(***************************************************************************)
EXTENDS StoreQueue, ChangeDelivery, TLAPS

-----------------------------------------------------------------------------
(* The persistence queue. *)

\* The initial queue is empty, open and well typed.
LEMMA QueueInitTypeOK == QueueInit => QueueTypeOK
<1> SUFFICES ASSUME QueueInit PROVE QueueTypeOK
  OBVIOUS
<1> USE QueueAssumption DEF QueueAssumption, QueueInit, Operation, Phase
<1>1. storeSequence \in 0..MaxReservations /\ closeOperation \in 0..MaxReservations
  OBVIOUS
<1>2. phase \in [Operation -> Phase]
  OBVIOUS
<1>3. \A n \in Operation : phase[n] = "free" <=> n > storeSequence
  OBVIOUS
<1>4. storeSealed \in BOOLEAN /\ (storeSealed <=> closeOperation # 0)
  OBVIOUS
<1>5. QED
  BY <1>1, <1>2, <1>3, <1>4 DEF QueueTypeOK

\* The type invariant alone is inductive: reservation numbers are dense, and
\* the queue is sealed exactly when finishClose has made its reservation.
THEOREM QueueTypeCorrect == QueueSpec => []QueueTypeOK
<1>1. QueueInit => QueueTypeOK
  BY QueueInitTypeOK
<1>2. QueueTypeOK /\ [QueueNext]_queueVars => QueueTypeOK'
  <2> SUFFICES ASSUME QueueTypeOK, [QueueNext]_queueVars
               PROVE  QueueTypeOK'
    OBVIOUS
  <2> USE QueueAssumption DEF QueueAssumption, QueueTypeOK, Operation, Phase
  <2>1. CASE Reserve
    BY <2>1 DEF Reserve, ReserveLocked
  <2>2. CASE Seal
    BY <2>2 DEF Seal, ReserveLocked
  <2>3. ASSUME NEW n \in Operation, Start(n)
        PROVE  QueueTypeOK'
    BY <2>3 DEF Start
  <2>4. ASSUME NEW n \in Operation, Finish(n)
        PROVE  QueueTypeOK'
    BY <2>4 DEF Finish
  <2>5. ASSUME NEW n \in Operation, Cancel(n)
        PROVE  QueueTypeOK'
    BY <2>5 DEF Cancel
  <2>6. CASE UNCHANGED queueVars
    BY <2>6 DEF queueVars
  <2>7. QED
    BY <2>1, <2>2, <2>3, <2>4, <2>5, <2>6 DEF QueueNext
<1>3. QED
  BY <1>1, <1>2, PTL DEF QueueSpec

\* An operation that has entered persist() was released by its predecessor.
ReleasedByPredecessor ==
    \A n \in Operation : Entered(n) => PredecessorClosed(n)

\* Together with the type invariant the ordering guarantee is inductive: when
\* j starts, j - 1 is closed; if j - 1 was not cancelled it has itself entered
\* persist(), and the guarantee for the pair (i, j - 1) closes i.
QueueInv == QueueTypeOK /\ ReleasedByPredecessor /\ OrderUnlessCancelled

\* One step of the queue preserves the ordering guarantee.
LEMMA QueueInvStep == QueueInv /\ [QueueNext]_queueVars => QueueInv'
<1> SUFFICES ASSUME QueueInv, [QueueNext]_queueVars
             PROVE  QueueInv'
  OBVIOUS
<1> USE QueueAssumption DEF QueueAssumption
<1>0. QueueTypeOK'
  <2>1. CASE Reserve
    BY <2>1 DEF Reserve, ReserveLocked, QueueInv, QueueTypeOK, Operation, Phase
  <2>2. CASE Seal
    BY <2>2 DEF Seal, ReserveLocked, QueueInv, QueueTypeOK, Operation, Phase
  <2>3. ASSUME NEW n \in Operation, Start(n) \/ Finish(n) \/ Cancel(n)
        PROVE  QueueTypeOK'
    BY <2>3 DEF Start, Finish, Cancel, QueueInv, QueueTypeOK, Operation, Phase
  <2>4. CASE UNCHANGED queueVars
    BY <2>4 DEF queueVars, QueueInv, QueueTypeOK
  <2>5. QED
    BY <2>1, <2>2, <2>3, <2>4 DEF QueueNext
<1>1. ASSUME ReserveLocked
      PROVE  ReleasedByPredecessor' /\ OrderUnlessCancelled'
  <2>1. phase' = [phase EXCEPT ![storeSequence + 1] = "waiting"]
        /\ storeSequence + 1 \in Operation
        /\ phase[storeSequence + 1] = "free"
    BY <1>1 DEF ReserveLocked, QueueInv, QueueTypeOK, Operation
  <2>2. \A n \in Operation : /\ Entered(n)' <=> Entered(n)
                             /\ Closed(n)' <=> Closed(n)
                             /\ phase'[n] = "cancelled" <=> phase[n] = "cancelled"
    BY <2>1 DEF Entered, Closed, QueueInv, QueueTypeOK
  <2>3. ReleasedByPredecessor'
    BY <2>2 DEF ReleasedByPredecessor, PredecessorClosed, QueueInv, Operation
  <2>4. OrderUnlessCancelled'
    BY <2>2 DEF OrderUnlessCancelled, QueueInv, Operation
  <2>5. QED
    BY <2>3, <2>4
<1>2. ASSUME NEW n \in Operation, Start(n)
      PROVE  ReleasedByPredecessor' /\ OrderUnlessCancelled'
  <2>1. /\ phase' = [phase EXCEPT ![n] = "running"]
        /\ phase[n] = "waiting"
        /\ PredecessorClosed(n)
        /\ phase \in [Operation -> Phase]
    BY <1>2 DEF Start, QueueInv, QueueTypeOK
  <2>2. \A m \in Operation : /\ Closed(m)' <=> Closed(m)
                             /\ m # n => (Entered(m)' <=> Entered(m))
                             /\ phase'[m] = "cancelled" <=> phase[m] = "cancelled"
    BY <2>1 DEF Entered, Closed
  <2>3. ReleasedByPredecessor'
    BY <2>1, <2>2 DEF ReleasedByPredecessor, PredecessorClosed, QueueInv, Operation
  <2>4. ASSUME NEW i \in Operation, i < n,
               \A k \in (i + 1)..(n - 1) : phase[k] # "cancelled"
        PROVE  Closed(i)
    <3>1. CASE i = n - 1
      BY <3>1, <2>1, <2>4 DEF PredecessorClosed, Operation
    <3>2. CASE i < n - 1
      <4>1. n - 1 \in Operation /\ phase[n - 1] = "persisted"
        BY <3>2, <2>1, <2>4 DEF PredecessorClosed, Closed, Operation
      <4>2. QED
        BY <4>1, <3>2, <2>4 DEF OrderUnlessCancelled, Entered, QueueInv, Operation
    <3>3. QED
      BY <3>1, <3>2, <2>4 DEF Operation
  <2>5. OrderUnlessCancelled'
    <3> SUFFICES ASSUME NEW i \in Operation, NEW j \in Operation, i < j, Entered(j)',
                        \A k \in (i + 1)..(j - 1) : phase'[k] # "cancelled"
                 PROVE  Closed(i)'
      BY DEF OrderUnlessCancelled
    <3>1. \A k \in (i + 1)..(j - 1) : phase[k] # "cancelled"
      BY <2>2 DEF Operation
    <3>2. CASE j = n
      BY <3>1, <3>2, <2>2, <2>4
    <3>3. CASE j # n
      BY <3>1, <3>3, <2>2 DEF OrderUnlessCancelled, QueueInv
    <3>4. QED
      BY <3>2, <3>3
  <2>6. QED
    BY <2>3, <2>5
<1>3. ASSUME NEW n \in Operation, Finish(n)
      PROVE  ReleasedByPredecessor' /\ OrderUnlessCancelled'
  <2>1. /\ phase' = [phase EXCEPT ![n] = "persisted"]
        /\ phase[n] = "running"
        /\ phase \in [Operation -> Phase]
    BY <1>3 DEF Finish, QueueInv, QueueTypeOK
  <2>2. \A m \in Operation : /\ Closed(m) => Closed(m)'
                             /\ Entered(m)' <=> Entered(m)
                             /\ phase'[m] = "cancelled" <=> phase[m] = "cancelled"
    BY <2>1 DEF Entered, Closed
  <2>3. ReleasedByPredecessor'
    BY <2>2 DEF ReleasedByPredecessor, PredecessorClosed, QueueInv, Operation
  <2>4. OrderUnlessCancelled'
    BY <2>2 DEF OrderUnlessCancelled, QueueInv, Operation
  <2>5. QED
    BY <2>3, <2>4
<1>4. ASSUME NEW n \in Operation, Cancel(n)
      PROVE  ReleasedByPredecessor' /\ OrderUnlessCancelled'
  <2>1. /\ phase' = [phase EXCEPT ![n] = "cancelled"]
        /\ phase[n] = "waiting"
        /\ phase \in [Operation -> Phase]
    BY <1>4 DEF Cancel, QueueInv, QueueTypeOK
  <2>2. \A m \in Operation : /\ Closed(m) => Closed(m)'
                             /\ Entered(m)' <=> Entered(m)
                             /\ phase[m] = "cancelled" => phase'[m] = "cancelled"
    BY <2>1 DEF Entered, Closed
  <2>3. ReleasedByPredecessor'
    BY <2>2 DEF ReleasedByPredecessor, PredecessorClosed, QueueInv, Operation
  <2>4. OrderUnlessCancelled'
    BY <2>2 DEF OrderUnlessCancelled, QueueInv, Operation
  <2>5. QED
    BY <2>3, <2>4
<1>5. ASSUME UNCHANGED queueVars
      PROVE  ReleasedByPredecessor' /\ OrderUnlessCancelled'
  BY <1>5 DEF queueVars, QueueInv, ReleasedByPredecessor, OrderUnlessCancelled,
              PredecessorClosed, Entered, Closed
<1>6. QED
  BY <1>0, <1>1, <1>2, <1>3, <1>4, <1>5 DEF QueueInv, QueueNext, Reserve, Seal

\* Nothing has entered persist() in an empty queue.
LEMMA QueueInitInv == QueueInit => QueueInv
<1> SUFFICES ASSUME QueueInit PROVE ReleasedByPredecessor /\ OrderUnlessCancelled
  BY QueueInitTypeOK DEF QueueInv
<1>1. \A n \in Operation : ~Entered(n)
  BY DEF QueueInit, Entered
<1>2. QED
  BY <1>1 DEF ReleasedByPredecessor, OrderUnlessCancelled

\* Whatever callers cancel, an operation never overtakes an older one unless
\* an operation between them was cancelled.
THEOREM QueueOrder == QueueSpec => []OrderUnlessCancelled
<1>1. QueueInv => OrderUnlessCancelled
  BY DEF QueueInv
<1>2. QED
  BY <1>1, QueueInitInv, QueueInvStep, PTL DEF QueueSpec

-----------------------------------------------------------------------------

\* finishClose reserves and seals in one critical section, so its operation
\* stays the newest reservation.
CloseIsNewest == closeOperation # 0 => closeOperation = storeSequence

\* No step reserves behind the close operation.
LEMMA CloseIsNewestStep ==
    QueueTypeOK /\ CloseIsNewest /\ [QueueNext]_queueVars => CloseIsNewest'
<1> SUFFICES ASSUME QueueTypeOK, CloseIsNewest, [QueueNext]_queueVars
             PROVE  CloseIsNewest'
  OBVIOUS
<1>1. CASE Reserve
  BY <1>1 DEF Reserve, ReserveLocked, CloseIsNewest, QueueTypeOK
<1>2. CASE Seal
  BY <1>2 DEF Seal, ReserveLocked, CloseIsNewest
<1>3. ASSUME NEW n \in Operation, Start(n) \/ Finish(n) \/ Cancel(n)
      PROVE  CloseIsNewest'
  BY <1>3 DEF Start, Finish, Cancel, CloseIsNewest
<1>4. CASE UNCHANGED queueVars
  BY <1>4 DEF queueVars, CloseIsNewest
<1>5. QED
  BY <1>1, <1>2, <1>3, <1>4 DEF QueueNext

\* The ordering guarantee applied to the close operation.
LEMMA OrderImpliesCloseRunsLast == QueueInv /\ CloseIsNewest => CloseRunsLast
<1> SUFFICES ASSUME QueueInv, CloseIsNewest, closeOperation # 0
             PROVE  /\ closeOperation = storeSequence
                    /\ Entered(closeOperation) /\ NoneCancelled =>
                          \A n \in Operation : n # closeOperation =>
                             phase[n] \notin {"waiting", "running"}
  BY DEF CloseRunsLast
<1>1. closeOperation = storeSequence
  BY DEF CloseIsNewest
<1>2. ASSUME Entered(closeOperation), NoneCancelled,
             NEW n \in Operation, n # closeOperation
      PROVE  phase[n] \notin {"waiting", "running"}
  <2> USE QueueAssumption DEF QueueAssumption
  <2>1. closeOperation \in Operation
    BY <1>1 DEF QueueInv, QueueTypeOK, Operation
  <2>2. CASE n < closeOperation
    <3>1. \A k \in (n + 1)..(closeOperation - 1) : phase[k] # "cancelled"
      BY <1>2, <2>1 DEF NoneCancelled, Operation
    <3>2. Closed(n)
      BY <1>2, <2>1, <2>2, <3>1 DEF OrderUnlessCancelled, QueueInv
    <3>3. QED
      BY <3>2 DEF Closed
  <2>3. CASE n > closeOperation
    BY <1>1, <2>3 DEF QueueInv, QueueTypeOK
  <2>4. QED
    BY <1>2, <2>1, <2>2, <2>3 DEF Operation
<1>3. QED
  BY <1>1, <1>2

\* The reservation of finishClose is the last one, and unless a caller gave
\* up every other operation is over when store.Close is entered.
THEOREM QueueClosesLast == QueueSpec => []CloseRunsLast
<1>1. QueueInit => QueueInv /\ CloseIsNewest
  BY QueueInitInv DEF QueueInit, CloseIsNewest
<1>2. QueueInv /\ CloseIsNewest /\ [QueueNext]_queueVars => QueueInv' /\ CloseIsNewest'
  BY QueueInvStep, CloseIsNewestStep DEF QueueInv
<1>3. QED
  BY <1>1, <1>2, OrderImpliesCloseRunsLast, PTL DEF QueueSpec

-----------------------------------------------------------------------------

\* If every caller used context.Background() the store would be written one
\* operation at a time, in reservation order.
THEOREM StrictOrder ==
    ASSUME ContextOps = {}
    PROVE  QueueSpec => []PersistInReservationOrder
<1>1. QueueInit => QueueInv /\ NoneCancelled
  BY QueueInitInv DEF QueueInit, NoneCancelled
<1>2. QueueInv /\ NoneCancelled /\ [QueueNext]_queueVars => QueueInv' /\ NoneCancelled'
  <2> SUFFICES ASSUME QueueInv, NoneCancelled, [QueueNext]_queueVars
               PROVE  NoneCancelled'
    BY QueueInvStep
  <2> USE QueueAssumption DEF QueueAssumption
  <2>1. CASE Reserve \/ Seal
    BY <2>1 DEF Reserve, Seal, ReserveLocked, NoneCancelled, QueueInv, QueueTypeOK, Operation
  <2>2. ASSUME NEW n \in Operation, Start(n) \/ Finish(n)
        PROVE  NoneCancelled'
    BY <2>2 DEF Start, Finish, NoneCancelled, QueueInv, QueueTypeOK
  <2>3. ASSUME NEW n \in Operation, Cancel(n)
        PROVE  NoneCancelled'
    BY <2>3 DEF Cancel
  <2>4. CASE UNCHANGED queueVars
    BY <2>4 DEF queueVars, NoneCancelled
  <2>5. QED
    BY <2>1, <2>2, <2>3, <2>4 DEF QueueNext
<1>3. QueueInv /\ NoneCancelled => PersistInReservationOrder
  BY QueueAssumption
  DEF QueueInv, OrderUnlessCancelled, NoneCancelled, PersistInReservationOrder, Operation,
      QueueAssumption
<1>4. QED
  BY <1>1, <1>2, <1>3, PTL DEF QueueSpec

-----------------------------------------------------------------------------
(* The delivery of changes. *)

\* A number that is held has been drawn, is not delivered and is not in the
\* queue; only a mutation or a re-entrant handler holds one, and no two
\* goroutines hold the same.
HeldInv ==
    \A g \in Goroutine :
        /\ held[g] # 0 => /\ held[g] > changeDeliverySequence
                          /\ held[g] \notin changeCompletions
                          /\ deliver[held[g]] = "none"
                          /\ pc[g] \in {"mutating", "handling"}
        /\ \A h \in Goroutine : held[g] = held[h] /\ held[g] # 0 => g = h

\* The queue holds completed numbers that are still to be delivered; numbers
\* not yet drawn have no outcome.
CompletionInv ==
    /\ \A n \in changeCompletions : n > changeDeliverySequence /\ deliver[n] # "none"
    /\ \A n \in Number : n > changeSequence => deliver[n] = "none"

\* The drainer delivers the number it took last, which was emitted and which
\* the handler has not seen before.
CurrentInv ==
    \A g \in Goroutine :
        pc[g] = "calling" => /\ current[g] = changeDeliverySequence
                             /\ current[g] # 0
                             /\ deliver[current[g]] = "emit"
                             /\ current[g] \notin observed

\* The inductive invariant.
DeliveryInv ==
    /\ DeliveryTypeOK
    /\ HeldInv
    /\ CompletionInv
    /\ CurrentInv
    /\ SingleDrainer
    /\ NothingStranded
    /\ OutcomeRespected

\* The manager starts with nothing drawn and nobody draining.
LEMMA DeliveryInvStart == DeliveryInit => DeliveryInv
<1> SUFFICES ASSUME DeliveryInit PROVE DeliveryInv
  OBVIOUS
<1> USE DeliveryAssumption DEF DeliveryAssumption, DeliveryInit, Number
<1>1. DeliveryTypeOK
  <2>1. /\ changeSequence \in 0..MaxChanges
        /\ changeDeliverySequence \in 0..changeSequence
        /\ changeCompletions \subseteq 1..changeSequence
        /\ observed \subseteq 1..changeDeliverySequence
    OBVIOUS
  <2>2. changeDeliveryActive \in BOOLEAN
    OBVIOUS
  <2>3. /\ pc \in [Goroutine -> {"idle", "mutating", "draining", "calling", "handling"}]
        /\ held \in [Goroutine -> 0..changeSequence]
        /\ current \in [Goroutine -> 0..changeDeliverySequence]
        /\ deliver \in [1..MaxChanges -> {"none", "emit", "skip"}]
    OBVIOUS
  <2>4. QED
    BY <2>1, <2>2, <2>3 DEF DeliveryTypeOK
<1>2. HeldInv
  BY DEF HeldInv
<1>3. CompletionInv
  BY DEF CompletionInv
<1>4. CurrentInv /\ SingleDrainer
  BY DEF CurrentInv, SingleDrainer, Draining
<1>5. NothingStranded /\ OutcomeRespected
  BY DEF NothingStranded, OutcomeRespected
<1>6. QED
  BY <1>1, <1>2, <1>3, <1>4, <1>5 DEF DeliveryInv

\* Drawing a number touches neither the queue nor the drain.
LEMMA NextChangeInv ==
    ASSUME DeliveryInv, NEW g \in Goroutine, NextChange(g)
    PROVE  DeliveryInv'
<1> USE DeliveryAssumption DEF DeliveryAssumption, DeliveryInv, NextChange, MayMutate, Number
<1>1. DeliveryTypeOK'
  BY DEF DeliveryTypeOK
<1>2. HeldInv'
  BY DEF HeldInv, DeliveryTypeOK, CompletionInv
<1>3. CompletionInv'
  BY DEF CompletionInv, DeliveryTypeOK
<1>4. CurrentInv'
  BY DEF CurrentInv, DeliveryTypeOK
<1>5. SingleDrainer'
  BY DEF SingleDrainer, Draining, DeliveryTypeOK
<1>6. NothingStranded' /\ OutcomeRespected'
  BY DEF NothingStranded, OutcomeRespected, DeliveryTypeOK
<1>7. QED
  BY <1>1, <1>2, <1>3, <1>4, <1>5, <1>6

\* Completing a number while somebody drains only adds it to the queue.
LEMMA CompleteWhileDrainingInv ==
    ASSUME DeliveryInv, NEW g \in Goroutine, NEW how \in {"emit", "skip"},
           CompleteWhileDraining(g, how)
    PROVE  DeliveryInv'
<1> USE DeliveryAssumption DEF DeliveryAssumption, DeliveryInv, CompleteWhileDraining, Number
<1>0. held[g] \in 1..changeSequence /\ held[g] \in Number
  BY DEF DeliveryTypeOK
<1>1. DeliveryTypeOK'
  <2>0. DeliveryTypeOK
    OBVIOUS
  <2>1a. changeCompletions' \subseteq 1..changeSequence
    BY <1>0, <2>0 DEF DeliveryTypeOK
  <2>1b. held' \in [Goroutine -> 0..changeSequence]
    BY <1>0, <2>0 DEF DeliveryTypeOK
  <2>1. deliver' \in [1..MaxChanges -> {"none", "emit", "skip"}]
    BY <1>0, <2>0 DEF DeliveryTypeOK
  <2>2. pc' \in [Goroutine -> {"idle", "mutating", "draining", "calling", "handling"}]
    BY DEF DeliveryTypeOK
  <2>3. QED
    BY <2>1a, <2>1b, <2>1, <2>2 DEF DeliveryTypeOK
<1>2. HeldInv'
  BY <1>0 DEF HeldInv, DeliveryTypeOK
<1>3. CompletionInv'
  BY <1>0 DEF CompletionInv, HeldInv, DeliveryTypeOK
<1>4. CurrentInv'
  BY <1>0 DEF CurrentInv, HeldInv, DeliveryTypeOK
<1>5. SingleDrainer'
  BY <1>0 DEF SingleDrainer, Draining, HeldInv, DeliveryTypeOK
<1>6. NothingStranded'
  BY DEF NothingStranded
<1>7. OutcomeRespected'
  BY <1>0 DEF OutcomeRespected, HeldInv, DeliveryTypeOK
<1>8. QED
  BY <1>1, <1>2, <1>3, <1>4, <1>5, <1>6, <1>7

\* The handler is entered with the number taken last, which it has not seen.
LEMMA CallHandlerInv ==
    ASSUME DeliveryInv, NEW g \in Goroutine, CallHandler(g)
    PROVE  DeliveryInv'
<1> USE DeliveryAssumption DEF DeliveryAssumption, DeliveryInv, CallHandler, Number
<1>0. current[g] = changeDeliverySequence /\ current[g] \in 1..changeDeliverySequence
      /\ deliver[current[g]] = "emit"
  BY DEF CurrentInv, DeliveryTypeOK
<1>1. DeliveryTypeOK'
  BY <1>0 DEF DeliveryTypeOK
<1>2. HeldInv'
  BY DEF HeldInv, DeliveryTypeOK
<1>3. CompletionInv'
  BY DEF CompletionInv
<1>4. CurrentInv'
  BY <1>0 DEF CurrentInv, DeliveryTypeOK, SingleDrainer, Draining
<1>5. SingleDrainer'
  BY DEF SingleDrainer, Draining, DeliveryTypeOK
<1>6. NothingStranded'
  BY DEF NothingStranded
<1>7. OutcomeRespected'
  BY <1>0 DEF OutcomeRespected, DeliveryTypeOK, SingleDrainer, Draining
<1>8. QED
  BY <1>1, <1>2, <1>3, <1>4, <1>5, <1>6, <1>7

\* Returning from the handler leaves the drainer in charge.
LEMMA HandlerReturnsInv ==
    ASSUME DeliveryInv, NEW g \in Goroutine, HandlerReturns(g)
    PROVE  DeliveryInv'
<1> USE DeliveryAssumption DEF DeliveryAssumption, DeliveryInv, HandlerReturns, Number
<1>1. DeliveryTypeOK'
  BY DEF DeliveryTypeOK
<1>2. HeldInv'
  BY DEF HeldInv, DeliveryTypeOK
<1>3. CompletionInv'
  BY DEF CompletionInv
<1>4. CurrentInv'
  BY DEF CurrentInv, DeliveryTypeOK
<1>5. SingleDrainer'
  BY DEF SingleDrainer, Draining, DeliveryTypeOK
<1>6. NothingStranded'
  BY DEF NothingStranded
<1>7. OutcomeRespected'
  BY DEF OutcomeRespected, DeliveryTypeOK, CurrentInv
<1>8. QED
  BY <1>1, <1>2, <1>3, <1>4, <1>5, <1>6, <1>7


\* One turn of the drain loop over the queue c, whoever makes it: g completed
\* a number in the same critical section, or it was already the drainer.
LEMMA TakeNextInv ==
    ASSUME DeliveryInv, NEW g \in Goroutine, NEW c, TakeNext(g, c),
           changeSequence' = changeSequence,
           observed' = observed,
           c \subseteq 1..changeSequence,
           \A n \in c : n > changeDeliverySequence /\ deliver'[n] # "none",
           deliver' \in [Number -> {"none", "emit", "skip"}],
           \A n \in Number : n <= changeDeliverySequence \/ n > changeSequence
                              => deliver'[n] = deliver[n],
           held' \in [Goroutine -> 0..changeSequence],
           \A h \in Goroutine :
              held'[h] # 0 => /\ held'[h] = held[h]
                              /\ h # g
                              /\ held[h] \notin c
                              /\ deliver'[held[h]] = "none",
           \A h \in Goroutine : Draining(h) => h = g,
           pc[g] # "calling"
    PROVE  DeliveryInv'
<1> USE DeliveryAssumption DEF DeliveryAssumption, Number
<1> DEFINE next == changeDeliverySequence + 1
<1>0. /\ DeliveryTypeOK /\ HeldInv /\ CompletionInv /\ OutcomeRespected
      /\ changeSequence \in Nat /\ changeDeliverySequence \in Nat
      /\ changeDeliverySequence <= changeSequence /\ changeSequence <= MaxChanges
  BY DEF DeliveryInv, DeliveryTypeOK
<1>1. CASE next \in c
  <2>1. /\ changeCompletions' = c \ {next}
        /\ changeDeliverySequence' = next
        /\ changeDeliveryActive' = TRUE
        /\ next \in 1..changeSequence /\ deliver'[next] # "none"
        /\ \/ /\ deliver'[next] = "emit"
              /\ pc' = [pc EXCEPT ![g] = "calling"]
              /\ current' = [current EXCEPT ![g] = next]
           \/ /\ deliver'[next] = "skip"
              /\ pc' = [pc EXCEPT ![g] = "draining"]
              /\ current' = [current EXCEPT ![g] = 0]
    BY <1>0, <1>1 DEF TakeNext
  <2>2. DeliveryTypeOK'
    <3>1. pc' \in [Goroutine -> {"idle", "mutating", "draining", "calling", "handling"}]
      BY <1>0, <2>1 DEF DeliveryTypeOK
    <3>2. current' \in [Goroutine -> 0..changeDeliverySequence']
      BY <1>0, <2>1 DEF DeliveryTypeOK
    <3>3. changeCompletions' \subseteq 1..changeSequence /\ observed \subseteq 1..next
      BY <1>0, <2>1 DEF DeliveryTypeOK
    <3>4. QED
      BY <1>0, <2>1, <3>1, <3>2, <3>3 DEF DeliveryTypeOK
  <2>3. HeldInv'
    BY <1>0, <2>1 DEF HeldInv, DeliveryTypeOK
  <2>4. CompletionInv'
    BY <1>0, <2>1 DEF CompletionInv
  <2>5. pc'[g] \in {"calling", "draining"} /\ \A h \in Goroutine : h # g => pc'[h] = pc[h]
    BY <1>0, <2>1 DEF DeliveryTypeOK
  <2>6. \A h \in Goroutine : h # g => pc'[h] \notin {"draining", "calling", "handling"}
    BY <2>5 DEF Draining
  <2>7. SingleDrainer'
    BY <2>1, <2>5, <2>6 DEF SingleDrainer, Draining
  <2>8. CurrentInv'
    BY <1>0, <2>1, <2>6 DEF CurrentInv, DeliveryTypeOK
  <2>9. OutcomeRespected'
    <3> SUFFICES ASSUME NEW n \in 1..next
                 PROVE  /\ deliver'[n] # "none"
                        /\ deliver'[n] = "emit" <=>
                              \/ n \in observed
                              \/ \E h \in Goroutine : pc'[h] = "calling" /\ current'[h] = n
      BY <2>1 DEF OutcomeRespected
    <3>1. CASE n = next
      <4>1. n \notin observed
        BY <1>0, <3>1 DEF DeliveryTypeOK
      <4>2. (\E h \in Goroutine : pc'[h] = "calling" /\ current'[h] = n)
              <=> deliver'[next] = "emit"
        BY <1>0, <2>1, <2>6, <3>1 DEF DeliveryTypeOK
      <4>3. QED
        BY <2>1, <3>1, <4>1, <4>2
    <3>2. CASE n # next
      <4>1. n \in 1..changeDeliverySequence /\ deliver'[n] = deliver[n]
        BY <1>0, <3>2
      <4>2. ~\E h \in Goroutine : pc[h] = "calling"
        BY DEF Draining
      <4>3. ~\E h \in Goroutine : pc'[h] = "calling" /\ current'[h] = n
        BY <1>0, <2>1, <2>6, <3>2 DEF DeliveryTypeOK
      <4>4. QED
        BY <1>0, <4>1, <4>2, <4>3 DEF OutcomeRespected
    <3>3. QED
      BY <3>1, <3>2
  <2>10. NothingStranded'
    BY <2>1 DEF NothingStranded
  <2>11. QED
    BY <2>2, <2>3, <2>4, <2>7, <2>8, <2>9, <2>10 DEF DeliveryInv
<1>2. CASE next \notin c
  <2>1. /\ changeCompletions' = c
        /\ changeDeliverySequence' = changeDeliverySequence
        /\ changeDeliveryActive' = FALSE
        /\ pc' = [pc EXCEPT ![g] = "idle"]
        /\ current' = [current EXCEPT ![g] = 0]
    BY <1>0, <1>2 DEF TakeNext
  <2>2. DeliveryTypeOK'
    <3>1. pc' \in [Goroutine -> {"idle", "mutating", "draining", "calling", "handling"}]
      BY <1>0, <2>1 DEF DeliveryTypeOK
    <3>2. current' \in [Goroutine -> 0..changeDeliverySequence']
      BY <1>0, <2>1 DEF DeliveryTypeOK
    <3>3. QED
      BY <1>0, <2>1, <3>1, <3>2 DEF DeliveryTypeOK
  <2>3. HeldInv'
    BY <1>0, <2>1 DEF HeldInv, DeliveryTypeOK
  <2>4. CompletionInv'
    BY <1>0, <2>1 DEF CompletionInv
  <2>5. \A h \in Goroutine : pc'[h] \notin {"draining", "calling", "handling"}
    BY <1>0, <2>1 DEF Draining, DeliveryTypeOK
  <2>6. SingleDrainer' /\ CurrentInv'
    BY <2>1, <2>5 DEF SingleDrainer, Draining, CurrentInv
  <2>7. OutcomeRespected'
    <3>1. \A n \in 1..changeDeliverySequence : deliver'[n] = deliver[n]
      BY <1>0
    <3>2. ~\E h \in Goroutine : pc[h] = "calling"
      BY DEF Draining
    <3>3. QED
      BY <1>0, <2>1, <2>5, <3>1, <3>2 DEF OutcomeRespected
  <2>8. NothingStranded'
    BY <1>2, <2>1 DEF NothingStranded
  <2>9. QED
    BY <2>2, <2>3, <2>4, <2>6, <2>7, <2>8 DEF DeliveryInv
<1>3. QED
  BY <1>1, <1>2

\* Completing a number while nobody drains makes the caller the drainer.
LEMMA CompleteAndDrainInv ==
    ASSUME DeliveryInv, NEW g \in Goroutine, NEW how \in {"emit", "skip"},
           CompleteAndDrain(g, how)
    PROVE  DeliveryInv'
<1> USE DeliveryAssumption DEF DeliveryAssumption, Number
<1> DEFINE c == changeCompletions \cup {held[g]}
<1>1. /\ DeliveryTypeOK /\ HeldInv /\ CompletionInv
      /\ held[g] \in 1..changeSequence /\ held[g] \in Number
      /\ held[g] > changeDeliverySequence
  BY DEF DeliveryInv, DeliveryTypeOK, CompleteAndDrain
<1>2. /\ deliver' = [deliver EXCEPT ![held[g]] = how]
      /\ held' = [held EXCEPT ![g] = 0]
      /\ TakeNext(g, c)
      /\ changeSequence' = changeSequence /\ observed' = observed
  BY DEF CompleteAndDrain
<1>3. c \subseteq 1..changeSequence
      /\ \A n \in c : n > changeDeliverySequence /\ deliver'[n] # "none"
  <2>1. c \subseteq 1..changeSequence
    BY <1>1 DEF DeliveryTypeOK
  <2>2. ASSUME NEW n \in c
        PROVE  n > changeDeliverySequence /\ deliver'[n] # "none"
    <3>1. CASE n = held[g]
      BY <1>1, <1>2, <3>1 DEF DeliveryTypeOK
    <3>2. CASE n \in changeCompletions /\ n # held[g]
      BY <1>1, <1>2, <3>2 DEF DeliveryTypeOK, CompletionInv
    <3>3. QED
      BY <3>1, <3>2
  <2>3. QED
    BY <2>1, <2>2
<1>4. deliver' \in [Number -> {"none", "emit", "skip"}]
  BY <1>1, <1>2 DEF DeliveryTypeOK
<1>5. \A n \in Number : n <= changeDeliverySequence \/ n > changeSequence
                         => deliver'[n] = deliver[n]
  BY <1>1, <1>2 DEF DeliveryTypeOK
<1>6. held' \in [Goroutine -> 0..changeSequence]
  BY <1>1, <1>2 DEF DeliveryTypeOK
<1>7. \A h \in Goroutine :
         held'[h] # 0 => /\ held'[h] = held[h]
                         /\ h # g
                         /\ held[h] \notin c
                         /\ deliver'[held[h]] = "none"
  BY <1>1, <1>2 DEF HeldInv, DeliveryTypeOK
<1>8. \A h \in Goroutine : ~Draining(h)
  BY DEF DeliveryInv, SingleDrainer, CompleteAndDrain
<1>9. pc[g] # "calling"
  BY <1>8 DEF Draining
<1>10. QED
  BY <1>2, <1>3, <1>4, <1>5, <1>6, <1>7, <1>8, <1>9, TakeNextInv

\* A further turn of the current drainer.
LEMMA DrainInv ==
    ASSUME DeliveryInv, NEW g \in Goroutine, Drain(g)
    PROVE  DeliveryInv'
<1>1. DeliveryTypeOK /\ HeldInv /\ CompletionInv /\ SingleDrainer
  BY DEF DeliveryInv
<1>2. /\ TakeNext(g, changeCompletions) /\ pc[g] = "draining"
      /\ changeSequence' = changeSequence /\ observed' = observed
  BY DEF Drain
<1>2a. deliver' = deliver /\ held' = held
  BY DEF Drain
<1>3. /\ changeCompletions \subseteq 1..changeSequence
      /\ \A n \in changeCompletions : n > changeDeliverySequence /\ deliver'[n] # "none"
  BY <1>1, <1>2a DEF DeliveryTypeOK, CompletionInv
<1>4. /\ deliver' \in [Number -> {"none", "emit", "skip"}]
      /\ held' \in [Goroutine -> 0..changeSequence]
  BY <1>1, <1>2a DEF DeliveryTypeOK
<1>5. \A h \in Goroutine :
         held'[h] # 0 => /\ held'[h] = held[h]
                         /\ h # g
                         /\ held[h] \notin changeCompletions
                         /\ deliver'[held[h]] = "none"
  BY <1>1, <1>2, <1>2a DEF HeldInv
<1>6. \A h \in Goroutine : Draining(h) => h = g
  BY <1>1, <1>2 DEF SingleDrainer, Draining
<1>7. \A n \in Number : n <= changeDeliverySequence \/ n > changeSequence
                         => deliver'[n] = deliver[n]
  BY <1>2a
<1>8. pc[g] # "calling"
  BY <1>2
<1>9. QED
  BY <1>2, <1>3, <1>4, <1>5, <1>6, <1>7, <1>8, TakeNextInv


-----------------------------------------------------------------------------

\* Every step of the delivery protocol preserves the inductive invariant.
LEMMA DeliveryInvStep == DeliveryInv /\ [DeliveryNext]_deliveryVars => DeliveryInv'
<1> SUFFICES ASSUME DeliveryInv, [DeliveryNext]_deliveryVars PROVE DeliveryInv'
  OBVIOUS
<1>1. ASSUME NEW g \in Goroutine, NextChange(g) PROVE DeliveryInv'
  BY <1>1, NextChangeInv
<1>2. ASSUME NEW g \in Goroutine, Complete(g) PROVE DeliveryInv'
  <2>1. PICK how \in {"emit", "skip"} : CompleteWhileDraining(g, how) \/ CompleteAndDrain(g, how)
    BY <1>2 DEF Complete
  <2>2. QED
    BY <2>1, CompleteWhileDrainingInv, CompleteAndDrainInv
<1>3. ASSUME NEW g \in Goroutine, CallHandler(g) PROVE DeliveryInv'
  BY <1>3, CallHandlerInv
<1>4. ASSUME NEW g \in Goroutine, HandlerReturns(g) PROVE DeliveryInv'
  BY <1>4, HandlerReturnsInv
<1>5. ASSUME NEW g \in Goroutine, Drain(g) PROVE DeliveryInv'
  BY <1>5, DrainInv
<1>6. CASE UNCHANGED deliveryVars
  BY <1>6 DEF deliveryVars, DeliveryInv, DeliveryTypeOK, HeldInv, CompletionInv, CurrentInv,
                  SingleDrainer,
              Draining, NothingStranded, OutcomeRespected
<1>7. QED
  BY <1>1, <1>2, <1>3, <1>4, <1>5, <1>6 DEF DeliveryNext, Step

\* The delivery state is well typed: in particular no number is delivered
\* before it was drawn and the handler never sees an undelivered one.
THEOREM TypeCorrect == DeliverySpec => []DeliveryTypeOK
<1>1. DeliveryInv => DeliveryTypeOK
  BY DEF DeliveryInv
<1>2. QED
  BY <1>1, DeliveryInvStart, DeliveryInvStep, PTL DEF DeliverySpec

\* One goroutine at a time empties the queue, whoever completes a change while
\* it does.
THEOREM DeliverySafe == DeliverySpec => []SingleDrainer
<1>1. DeliveryInv => SingleDrainer
  BY DEF DeliveryInv
<1>2. QED
  BY <1>1, DeliveryInvStart, DeliveryInvStep, PTL DEF DeliverySpec

\* No completed change waits without somebody to deliver it, and each change
\* that left the queue was emitted or skipped as its mutation decided.
THEOREM DeliveredExactly == DeliverySpec => []DeliveryExact
<1>1. DeliveryInv => DeliveryExact
  BY DEF DeliveryInv, DeliveryExact
<1>2. QED
  BY <1>1, DeliveryInvStart, DeliveryInvStep, PTL DEF DeliverySpec

\* The handler sees the changes in the order of their sequence numbers.
THEOREM DeliveryOrdered == DeliverySpec => ObservedInOrder
<1>1. DeliveryInv /\ [DeliveryNext]_deliveryVars
         => [\A n \in observed' \ observed : \A m \in observed : m < n]_deliveryVars
  <2> SUFFICES ASSUME DeliveryInv, [DeliveryNext]_deliveryVars,
                      NEW n \in observed' \ observed, NEW m \in observed
               PROVE  m < n
    OBVIOUS
  <2>1. PICK g \in Goroutine : CallHandler(g)
    BY DEF DeliveryNext, Step, Complete, deliveryVars, NextChange, CompleteWhileDraining,
           CompleteAndDrain, HandlerReturns, Drain
  <2>2. n = changeDeliverySequence /\ n \notin observed
    BY <2>1 DEF CallHandler, DeliveryInv, CurrentInv
  <2>3. m \in 1..changeDeliverySequence /\ changeDeliverySequence \in Nat
    BY DEF DeliveryInv, DeliveryTypeOK
  <2>4. QED
    BY <2>2, <2>3
<1>2. QED
  BY <1>1, DeliveryInvStart, DeliveryInvStep, PTL DEF DeliverySpec, ObservedInOrder

\* Step simulation: change delivery implements the abstract ticket order.
THEOREM DeliveryImplementsTickets ==
    DeliverySpec => Tickets!TicketInit /\ [][Tickets!TicketNext]_(Tickets!ticketVars)
<1>1. DeliveryInit => Tickets!TicketInit
  BY DEF DeliveryInit, Tickets!TicketInit
<1>2. DeliveryInv /\ [DeliveryNext]_deliveryVars => [Tickets!TicketNext]_(Tickets!ticketVars)
  <2> SUFFICES ASSUME DeliveryInv, [DeliveryNext]_deliveryVars
               PROVE  \/ Tickets!TicketNext
                      \/ UNCHANGED <<changeSequence, changeDeliverySequence>>
    BY DEF Tickets!ticketVars
  <2>0. /\ changeCompletions \subseteq 1..changeSequence
        /\ changeSequence \in Nat /\ changeDeliverySequence \in Nat
        /\ held \in [Goroutine -> 0..changeSequence]
    BY DEF DeliveryInv, DeliveryTypeOK
  <2> DEFINE Takes == \/ /\ changeDeliverySequence' = changeDeliverySequence + 1
                         /\ changeDeliverySequence + 1 \in 1..changeSequence
                      \/ changeDeliverySequence' = changeDeliverySequence
  <2>1. ASSUME NEW g \in Goroutine, NextChange(g)
        PROVE  Tickets!TicketNext
    BY <2>1 DEF NextChange, Tickets!TicketNext, Tickets!Issue
  <2>2. ASSUME NEW g \in Goroutine, Complete(g)
        PROVE  Takes /\ changeSequence' = changeSequence
    <3>1. PICK how \in {"emit", "skip"} :
            CompleteWhileDraining(g, how) \/ CompleteAndDrain(g, how)
      BY <2>2 DEF Complete
    <3>2. CASE CompleteWhileDraining(g, how)
      BY <3>2 DEF CompleteWhileDraining
    <3>3. CASE CompleteAndDrain(g, how)
      <4>1. TakeNext(g, changeCompletions \cup {held[g]})
            /\ held[g] > changeDeliverySequence /\ changeSequence' = changeSequence
        BY <3>3 DEF CompleteAndDrain
      <4>2. changeCompletions \cup {held[g]} \subseteq 1..changeSequence
        <5>1. held[g] \in 1..changeSequence
          BY <2>0, <4>1
        <5>2. QED
          BY <2>0, <5>1
      <4>3. QED
        BY <2>0, <4>1, <4>2 DEF TakeNext
    <3>4. QED
      BY <3>1, <3>2, <3>3
  <2>3. ASSUME NEW g \in Goroutine, CallHandler(g) \/ HandlerReturns(g)
        PROVE  UNCHANGED <<changeSequence, changeDeliverySequence>>
    BY <2>3 DEF CallHandler, HandlerReturns
  <2>4. ASSUME NEW g \in Goroutine, Drain(g)
        PROVE  Takes /\ changeSequence' = changeSequence
    BY <2>0, <2>4 DEF Drain, TakeNext
  <2>5. ASSUME Takes, changeSequence' = changeSequence
        PROVE  \/ Tickets!TicketNext
               \/ UNCHANGED <<changeSequence, changeDeliverySequence>>
    BY <2>0, <2>5 DEF Tickets!TicketNext, Tickets!Serve
  <2>6. CASE UNCHANGED deliveryVars
    BY <2>6 DEF deliveryVars
  <2>7. QED
    BY <2>1, <2>2, <2>3, <2>4, <2>5, <2>6 DEF DeliveryNext, Step
<1>3. QED
  BY <1>1, <1>2, DeliveryInvStart, DeliveryInvStep, PTL DEF DeliverySpec
=============================================================================
