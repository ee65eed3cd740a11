------------------------------ MODULE StoreQueue ------------------------------
(***************************************************************************)
(* The persistence queue of the session manager                            *)
(* (src/internal/session/manager.go).  A mutation RESERVES a store         *)
(* operation, normally in the critical section that changes memory, and    *)
(* RUNS it later without the manager lock.  Every reservation holds the    *)
(* done channel of the one before it (storeTail), so the operations form a *)
(* chain.                                                                  *)
(*                                                                         *)
(*   waiting    reserved; its done channel is open                         *)
(*   running    the channel of its predecessor was found closed and        *)
(*              persist() was entered                                      *)
(*   persisted  persist() returned; the deferred close(done) has run       *)
(*   cancelled  the caller's context ended while the operation waited for  *)
(*              its predecessor; the same deferred close(done) has run     *)
(***************************************************************************)
EXTENDS Naturals, FiniteSets

CONSTANTS
    MaxReservations, \* bound on the number of reservations
    ContextOps       \* operations whose caller passes a cancellable context
                     \* (ReorderCurrent and the archive functions)

ASSUME QueueAssumption ==
    /\ MaxReservations \in Nat \ {0}
    /\ ContextOps \subseteq 1..MaxReservations

VARIABLES
    storeSequence,   \* number of the last reservation
    phase,           \* progress of every operation
    storeSealed,     \* finishClose has refused further reservations
    closeOperation   \* the reservation that closes the store, 0 before

queueVars == <<storeSequence, phase, storeSealed, closeOperation>>

Operation == 1..MaxReservations
Phase     == {"free", "waiting", "running", "persisted", "cancelled"}

-----------------------------------------------------------------------------

QueueInit ==
    /\ storeSequence = 0
    /\ phase = [n \in Operation |-> "free"]
    /\ storeSealed = FALSE
    /\ closeOperation = 0

Closed(n) == phase[n] \in {"persisted", "cancelled"}

\* Faults: nobody waits for the predecessor, or only a persisted one counts.
PredecessorIgnored(n)   == TRUE
PredecessorPersisted(n) == n > 1 => phase[n - 1] = "persisted"

\* What the receive from operation.previous waits for.
PredecessorClosed(n) == n > 1 => Closed(n - 1)

ReserveLocked ==
    /\ storeSequence < MaxReservations
    /\ storeSequence' = storeSequence + 1
    /\ phase' = [phase EXCEPT ![storeSequence + 1] = "waiting"]

\* A sealed queue answers ErrManagerClosing and nothing changes.
Reserve ==
    /\ ~storeSealed
    /\ ReserveLocked
    /\ UNCHANGED <<storeSealed, closeOperation>>

\* Fault: the close operation is reserved but the queue stays open.
SealForgotten ==
    /\ ~storeSealed
    /\ ReserveLocked
    /\ closeOperation' = storeSequence + 1
    /\ UNCHANGED storeSealed

\* finishClose takes the last reservation and seals in one critical section.
Seal ==
    /\ ~storeSealed
    /\ ReserveLocked
    /\ closeOperation' = storeSequence + 1
    /\ storeSealed' = TRUE

Start(n) ==
    /\ phase[n] = "waiting"
    /\ PredecessorClosed(n)
    /\ phase' = [phase EXCEPT ![n] = "running"]
    /\ UNCHANGED <<storeSequence, storeSealed, closeOperation>>

\* persist() may fail; the channel is closed either way.
Finish(n) ==
    /\ phase[n] = "running"
    /\ phase' = [phase EXCEPT ![n] = "persisted"]
    /\ UNCHANGED <<storeSequence, storeSealed, closeOperation>>

\* The select in runStoreOperationContext takes ctx.Done().  The deferred
\* close(done) releases the successor although the predecessor may be open.
Cancel(n) ==
    /\ n \in ContextOps
    /\ n # closeOperation
    /\ phase[n] = "waiting"
    /\ n > 1
    /\ phase' = [phase EXCEPT ![n] = "cancelled"]
    /\ UNCHANGED <<storeSequence, storeSealed, closeOperation>>

QueueNext ==
    \/ Reserve
    \/ Seal
    \/ \E n \in Operation : Start(n) \/ Finish(n) \/ Cancel(n)

\* Every reservation is run by a live goroutine that never stops waiting for
\* its turn, and SQLite calls return: weak fairness of each operation.
QueueSpec ==
    /\ QueueInit
    /\ [][QueueNext]_queueVars
    /\ \A n \in Operation : WF_queueVars(Start(n)) /\ WF_queueVars(Finish(n))

-----------------------------------------------------------------------------

QueueTypeOK ==
    /\ storeSequence \in 0..MaxReservations
    /\ phase \in [Operation -> Phase]
    /\ \A n \in Operation : phase[n] = "free" <=> n > storeSequence
    /\ storeSealed \in BOOLEAN
    /\ closeOperation \in 0..MaxReservations
    /\ storeSealed <=> closeOperation # 0

Entered(n) == phase[n] \in {"running", "persisted"}

\* What runStoreOperation really guarantees: an operation enters persist()
\* only after every older one has closed its channel, as long as no operation
\* between the two was cancelled.
OrderUnlessCancelled ==
    \A i, j \in Operation :
        (/\ i < j
         /\ Entered(j)
         /\ \A k \in (i + 1)..(j - 1) : phase[k] # "cancelled")
        => Closed(i)

\* The order manager.go promises its callers ("Other metadata writes must
\* keep their existing persistence order even when Delete is queued."):
\* operations persist one at a time, in reservation order.  A cancelled
\* operation breaks it.
PersistInReservationOrder ==
    \A i, j \in Operation : i < j /\ Entered(j) => Closed(i)

NoneCancelled == \A n \in Operation : phase[n] # "cancelled"

\* finishClose reserves last and, as long as nobody cancelled, nothing is left
\* that could still write when store.Close is entered.
CloseRunsLast ==
    closeOperation # 0 =>
        /\ closeOperation = storeSequence
        /\ Entered(closeOperation) /\ NoneCancelled =>
              \A n \in Operation : n # closeOperation => phase[n] \notin {"waiting", "running"}

\* Nobody waits for ever: every reservation's channel is closed eventually,
\* so a sealed queue reaches store.Close.
EveryOperationCloses ==
    \A n \in Operation : phase[n] = "waiting" ~> Closed(n)

=============================================================================
