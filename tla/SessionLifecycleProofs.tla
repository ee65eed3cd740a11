------------------------ MODULE SessionLifecycleProofs ------------------------
(***************************************************************************)
(* Proofs about SessionLifecycle: for any number of calls, terminals,      *)
(* tickets, failures and restarts.  The first part says once per action,   *)
(* variable by variable, what it does and the types it keeps; the rest     *)
(* cites these facts and never opens an action.  An invariant is a         *)
(* conjunction of layers; each layer has a step lemma that assumes the     *)
(* layers it needs, with one case per action that writes a variable of the *)
(* layer (Writers says that no other does).                                *)
(***************************************************************************)
EXTENDS SessionLifecycle, SequenceTheorems, TLAPS

-----------------------------------------------------------------------------
(* Types *)

\* Where a create is, from beginCreate to finishCreate.
CreatePC == {"createSave", "createSaving", "register", "announce", "cleanup", "cleaningUp",
             "discard"}

\* The local state of a call and of a watcher when n change numbers are drawn.
JobRecord(n) ==
    [pc : JobState, id : Terminal \cup {None}, ticket : 0..MaxReservations, change : 0..n,
     before : Row, after : Row]
ExitRecord(n) == [ticket : 0..MaxReservations, change : 0..n]
Change ==
    [kind : {"created", "updated", "deleted"}, id : Terminal,
     outcome : {"pending", "emitted", "skipped"}]

JobTypes    == job \in [Client -> JobRecord(Len(changes))]
ExitTypes   == exit \in [Terminal -> ExitRecord(Len(changes))]
ChangeTypes == changes \in Seq(Change)

ManagerTypes ==
    /\ sessions \subseteq Terminal /\ archived \subseteq Terminal
    /\ metadata \in [Terminal -> Row]
    /\ closing \in BOOLEAN
    /\ creating \subseteq Client
    /\ deleteInProgress \subseteq Terminal
    /\ lifecycleMu \in [Terminal -> Client \cup {None}]
    /\ metadataSaveMu \in [Terminal -> Client \cup {None}]
    /\ archive \in [Terminal -> {"none", "preparing", "succeeded", "done"}]
    /\ process \in [Terminal -> {"absent", "running", "exited"}]
    /\ terminated \subseteq Terminal
    /\ watcher \in [Terminal -> {"off", "waiting", "archiveReady", "save", "saving", "retry",
                                 "saveAgain", "savingAgain", "publish", "done"}]
    /\ closer \in {"open", "waitCreates", "terminate", "reap", "closingStore", "closed"}
    /\ closeItems \subseteq Terminal

StoreTypes ==
    /\ rows \in [Terminal -> Row]
    /\ rowWriter \in [Terminal -> 0..MaxReservations]
    /\ failures \in 0..MaxFailures

HistoryTypes ==
    /\ deleted \subseteq Terminal
    /\ restarts \in 0..MaxRestarts
    /\ calls \in 0..MaxCalls

\* An idle call holds nothing, any other one is about a terminal.
JobInv == \A c \in Client :
    /\ job[c].pc = "idle" => job[c] = Idle
    /\ job[c].pc # "idle" => job[c].id \in Terminal

\* activeCreates counts the creates under way.
CreatingInv == \A c \in Client : c \in creating <=> job[c].pc \in CreatePC

\* What the step lemmas assume: TypeOK by parts, and the two facts above.
Typed ==
    /\ JobTypes /\ ExitTypes /\ ChangeTypes /\ ManagerTypes /\ StoreTypes /\ HistoryTypes
    /\ Queue!QueueTypeOK /\ JobInv /\ CreatingInv

-----------------------------------------------------------------------------
(* The vocabulary of the effects *)

\* g is f with the value of t set to v.
Sets(f, g, t, v) == \A u \in Terminal : g[u] = IF u = t THEN v ELSE f[u]

\* Only the call c moves; it keeps what it holds; and goes on to pc with it.
Alone(c) == \A d \in Client : d # c => job'[d] = job[d]
Keeps(c) ==
    /\ job'[c].id = job[c].id /\ job'[c].ticket = job[c].ticket
    /\ job'[c].change = job[c].change
    /\ job'[c].before = job[c].before /\ job'[c].after = job[c].after
Goes(c, pc) == job'[c].pc = pc /\ Keeps(c)

\* A change number is drawn, or the change with number n gets its outcome.
Grows(kind, t, o) ==
    /\ ChangeTypes'
    /\ Len(changes) \in Nat /\ Len(changes') \in Nat /\ Len(changes) <= Len(changes')
    /\ Len(changes') = Len(changes) + 1
    /\ \A i \in 1..Len(changes) : changes'[i] = changes[i]
    /\ changes'[Len(changes) + 1] = [kind |-> kind, id |-> t, outcome |-> o]
Settles(n, o) ==
    /\ ChangeTypes'
    /\ Len(changes') = Len(changes)
    /\ \A i \in 1..Len(changes) :
         /\ changes'[i].kind = changes[i].kind
         /\ changes'[i].id = changes[i].id
         /\ changes'[i].outcome = IF i = n THEN o ELSE changes[i].outcome

\* The row of t is written by the operation with ticket n.
Writes(t, n, row) ==
    /\ StoreOpen
    /\ Sets(rows, rows', t, row) /\ Sets(rowWriter, rowWriter', t, n)
    /\ UNCHANGED failures

\* Operation n enters phase p, and no ticket is drawn.
MovesTo(n, p) == \A m \in Queue!Operation : phase'[m] = IF m = n THEN p ELSE phase[m]
SameQueue     == UNCHANGED <<storeSequence, storeSealed, closeOperation>>

\* EnterPersist is one action for the seven places that enter persist.
Entering(from, to) ==
    \/ from = "createSave" /\ to = "createSaving"
    \/ from = "cleanup" /\ to = "cleaningUp"
    \/ from = "renameSave" /\ to = "renameSaving"
    \/ from = "updateSave" /\ to = "updateSaving"
    \/ from = "dropOperation" /\ to = "droppingOperation"
    \/ from = "deleteRow" /\ to = "deletingRow"
    \/ from = "archiveSave" /\ to = "archiveSaving"

\* RenameInMemory and UpdateInMemory, with the new metadata named.
MutatesTo(c, new) ==
    /\ job[c].pc \in {"rename", "updateAgent"}
    /\ job[c].pc = "rename" =>
         metadata[job[c].id] = [new EXCEPT !.name = metadata[job[c].id].name]
    /\ new.state = metadata[job[c].id].state
    /\ Mutate(c, new)

\* RollBack puts the old name back if the terminal is there and has the new one.
NameUndone(c) ==
    IF job[c].id \in sessions /\ metadata[job[c].id].name = job[c].after.name
      THEN Sets(metadata, metadata', job[c].id,
                [metadata[job[c].id] EXCEPT !.name = job[c].before.name])
      ELSE UNCHANGED metadata

\* A rename changes nothing but the name.
RenamesOnly(c, new) ==
    job[c].pc = "rename" =>
        metadata[job[c].id] = [new EXCEPT !.name = metadata[job[c].id].name]

\* A mutation draws a change number if it changes something.
Numbers(c, new) ==
    IF new = metadata[job[c].id]
      THEN changes' = changes /\ job'[c].change = 0
      ELSE Grows("updated", job[c].id, "pending") /\ job'[c].change = ChangeNumber

\* The watcher reserves a second save unless the queue is sealed.
TriesAgain(t) ==
    /\ \A u \in Terminal : u # t => exit'[u] = exit[u] /\ watcher'[u] = watcher[u]
    /\ exit'[t].change = exit[t].change
    /\ \/ /\ Queue!Reserve
          /\ exit'[t].ticket = storeSequence' /\ watcher'[t] = "saveAgain"
       \/ /\ storeSealed
          /\ watcher'[t] = "publish" /\ UNCHANGED <<exit, queueVars>>

-----------------------------------------------------------------------------
(* Constants and data *)

\* None is neither a terminal nor a call.
LEMMA NoneFree == None \notin Terminal /\ None \notin Client
BY LifecycleAssumption DEF LifecycleAssumption

\* What an idle call holds.
LEMMA IdleIs == Idle.pc = "idle" /\ Idle.id = None /\ Idle.ticket = 0 /\ Idle.change = 0
BY DEF Idle

\* An idle call has the type of a call whatever changes are drawn.
LEMMA IdleTyped == \A n \in Nat : Idle \in JobRecord(n)
BY LifecycleAssumption DEF LifecycleAssumption, Idle, NoRow, JobRecord, JobState, Row

\* A change number stays one when more are drawn.
LEMMA Widen ==
    ASSUME NEW n \in Nat, NEW m \in Nat, n <= m,
           NEW f \in [Client -> JobRecord(n)], NEW g \in [Terminal -> ExitRecord(n)]
    PROVE  f \in [Client -> JobRecord(m)] /\ g \in [Terminal -> ExitRecord(m)]
BY DEF JobRecord, ExitRecord

\* The rows the model writes are rows.
LEMMA RowsTyped ==
    /\ NoRow \in Row /\ Fresh \in Row
    /\ \A r \in Row : Exited(r) \in Row /\ Archived(r) \in Row
BY LifecycleAssumption DEF LifecycleAssumption, NoRow, Fresh, Row, Exited, Archived

\* The states of the rows the model writes.
LEMMA RowStates ==
    /\ Fresh.state = "running" /\ NoRow.state = "absent" /\ NoRow.archived = FALSE
    /\ \A r \in Row : /\ Exited(r).state = "exited"
                      /\ Archived(r).state = "exited" /\ Archived(r).archived
BY DEF Fresh, NoRow, Exited, Archived, Row

\* TypeOK, taken apart.
LEMMA Split ==
    TypeOK <=> /\ JobTypes /\ ExitTypes /\ ChangeTypes /\ ManagerTypes /\ StoreTypes
               /\ HistoryTypes /\ Queue!QueueTypeOK
BY DEF TypeOK, JobTypes, ExitTypes, JobRecord, ExitRecord, Change, ChangeTypes, ManagerTypes,
       StoreTypes, HistoryTypes

\* The fields of a call.
LEMMA Fields ==
    ASSUME Typed, NEW c \in Client
    PROVE  /\ job[c] \in JobRecord(Len(changes))
           /\ job[c].ticket \in 0..MaxReservations /\ job[c].change \in 0..Len(changes)
           /\ job[c].before \in Row /\ job[c].after \in Row
           /\ job[c].pc # "idle" => job[c].id \in Terminal
           /\ Len(changes) \in Nat
BY DEF Typed, JobTypes, JobRecord, JobInv, ChangeTypes

\* The fields of a watcher.
LEMMA ExitFields ==
    ASSUME Typed, NEW t \in Terminal
    PROVE  /\ exit[t].ticket \in 0..MaxReservations /\ exit[t].change \in 0..Len(changes)
           /\ Len(changes) \in Nat
BY DEF Typed, ExitTypes, ExitRecord, ChangeTypes

\* A new change number is the last one.
LEMMA GrowsBy ==
    ASSUME ChangeTypes, NEW kind \in {"created", "updated", "deleted"}, NEW t \in Terminal,
           NEW o \in {"pending", "emitted", "skipped"},
           changes' = Append(changes, [kind |-> kind, id |-> t, outcome |-> o])
    PROVE  Grows(kind, t, o)
<1>1. Len(changes) \in Nat
  BY DEF ChangeTypes
<1>2. Len(changes) + 1 \in Nat /\ Len(changes) <= Len(changes) + 1
  BY <1>1
<1>3. /\ changes' \in Seq(Change)
      /\ Len(changes') = Len(changes) + 1
      /\ \A i \in 1..Len(changes) : changes'[i] = changes[i]
      /\ changes'[Len(changes) + 1] = [kind |-> kind, id |-> t, outcome |-> o]
  BY DEF ChangeTypes, Change
<1>4. Len(changes') \in Nat /\ Len(changes) <= Len(changes')
  BY <1>2, <1>3
<1>5. QED
  BY <1>1, <1>3, <1>4 DEF Grows, ChangeTypes

\* Completed changes one outcome and nothing else; number 0 is no change.
LEMMA SettlesBy ==
    ASSUME ChangeTypes, NEW n \in 0..Len(changes), NEW o \in {"pending", "emitted", "skipped"},
           changes' = Completed(n, o)
    PROVE  Settles(n, o)
<1>1. CASE n = 0
  BY <1>1 DEF Completed, Settles, ChangeTypes, Change
<1>2. CASE n # 0
  <2>1. changes[n] \in Change /\ n \in 1..Len(changes)
    BY <1>2 DEF ChangeTypes
  <2>2. changes' = [changes EXCEPT ![n] = [changes[n] EXCEPT !.outcome = o]]
    BY <1>2 DEF Completed
  <2>3. [changes[n] EXCEPT !.outcome = o] \in Change
    BY <2>1 DEF Change
  <2>4. QED
    BY <2>1, <2>2, <2>3 DEF Settles, ChangeTypes, Change
<1>3. QED
  BY <1>1, <1>2

-----------------------------------------------------------------------------
(* The persistence queue *)

\* What prepareStoreOperation does to the queue.
LEMMA Reserves ==
    ASSUME Typed, Queue!Reserve
    PROVE  /\ ~storeSealed /\ closeOperation = 0 /\ UNCHANGED <<storeSealed, closeOperation>>
           /\ storeSequence' = storeSequence + 1 /\ storeSequence' \in Queue!Operation
           /\ storeSequence \in Nat /\ storeSequence' \in Nat /\ storeSequence < storeSequence'
           /\ phase[storeSequence'] = "free" /\ MovesTo(storeSequence', "waiting")
BY LifecycleAssumption
DEF LifecycleAssumption, Typed, Queue!QueueTypeOK, Queue!Reserve, Queue!ReserveLocked,
    Queue!Operation, MovesTo

\* What sealing the queue does to it.
LEMMA Seals ==
    ASSUME Typed, Queue!Seal
    PROVE  /\ ~storeSealed /\ storeSealed' /\ closeOperation = 0
           /\ closeOperation' = storeSequence'
           /\ storeSequence' = storeSequence + 1 /\ storeSequence' \in Queue!Operation
           /\ phase[storeSequence'] = "free" /\ MovesTo(storeSequence', "waiting")
BY LifecycleAssumption
DEF LifecycleAssumption, Typed, Queue!QueueTypeOK, Queue!Seal, Queue!ReserveLocked,
    Queue!Operation, MovesTo

\* What entering an operation does to the queue.
LEMMA Starts ==
    ASSUME Typed, NEW n \in Queue!Operation, Queue!Start(n)
    PROVE  /\ phase[n] = "waiting" /\ Queue!PredecessorClosed(n)
           /\ MovesTo(n, "running") /\ SameQueue
BY DEF Typed, Queue!QueueTypeOK, Queue!Start, MovesTo, SameQueue

\* What leaving an operation does to the queue.
LEMMA Finishes ==
    ASSUME Typed, NEW n \in Queue!Operation, Queue!Finish(n)
    PROVE  phase[n] = "running" /\ MovesTo(n, "persisted") /\ SameQueue
BY DEF Typed, Queue!QueueTypeOK, Queue!Finish, MovesTo, SameQueue

\* What a cancelled wait does to the queue.
LEMMA Cancels ==
    ASSUME Typed, NEW n \in Queue!Operation, Queue!Cancel(n)
    PROVE  phase[n] = "waiting" /\ MovesTo(n, "cancelled") /\ SameQueue
BY DEF Typed, Queue!QueueTypeOK, Queue!Cancel, MovesTo, SameQueue

\* The queue is sealed once the close has its ticket.
LEMMA CloseOp ==
    ASSUME Typed
    PROVE  /\ storeSealed <=> closeOperation # 0
           /\ closeOperation # 0 => closeOperation \in Queue!Operation
           /\ 0 \notin Queue!Operation
BY DEF Typed, Queue!QueueTypeOK, Queue!Operation

\* The operations of the queue keep its types.
LEMMA QReserve ==
    ASSUME Queue!QueueTypeOK, Queue!Reserve
    PROVE  Queue!QueueTypeOK' /\ storeSequence' \in 1..MaxReservations
BY LifecycleAssumption
DEF LifecycleAssumption, Queue!QueueTypeOK, Queue!Reserve, Queue!ReserveLocked,
    Queue!Operation, Queue!Phase

\* So does sealing it.
LEMMA QSeal ==
    ASSUME Queue!QueueTypeOK, Queue!Seal
    PROVE  Queue!QueueTypeOK'
BY LifecycleAssumption
DEF LifecycleAssumption, Queue!QueueTypeOK, Queue!Seal, Queue!ReserveLocked, Queue!Operation,
    Queue!Phase

\* So does entering an operation.
LEMMA QStart ==
    ASSUME Queue!QueueTypeOK, NEW n, Queue!Start(n)
    PROVE  Queue!QueueTypeOK'
BY DEF Queue!QueueTypeOK, Queue!Start, Queue!Operation, Queue!Phase

\* So does leaving one.
LEMMA QFinish ==
    ASSUME Queue!QueueTypeOK, NEW n, Queue!Finish(n)
    PROVE  Queue!QueueTypeOK'
BY DEF Queue!QueueTypeOK, Queue!Finish, Queue!Operation, Queue!Phase

\* So does cancelling a wait.
LEMMA QCancel ==
    ASSUME Queue!QueueTypeOK, NEW n, Queue!Cancel(n)
    PROVE  Queue!QueueTypeOK'
BY DEF Queue!QueueTypeOK, Queue!Cancel, Queue!Operation, Queue!Phase

\* A write that succeeds keeps the types of the rows.
LEMMA WriteTyped ==
    ASSUME StoreTypes, NEW t \in Terminal, NEW n \in 0..MaxReservations, NEW row \in Row,
           Write(t, n, row)
    PROVE  StoreTypes'
BY DEF StoreTypes, Write

\* So does one that fails.
LEMMA FailTyped ==
    ASSUME StoreTypes, WriteFails
    PROVE  StoreTypes'
BY LifecycleAssumption DEF StoreTypes, WriteFails, LifecycleAssumption

\* A mutation is MutatesTo for some new metadata.
LEMMA Mutates ==
    ASSUME ManagerTypes, NEW c, RenameInMemory(c) \/ UpdateInMemory(c)
    PROVE  \E new \in Row : MutatesTo(c, new)
<1>1. job[c].id \in Terminal
  BY DEF RenameInMemory, UpdateInMemory, Mutate, StillRegistered, ManagerTypes
<1>2. metadata[job[c].id] \in Row
  BY <1>1 DEF ManagerTypes
<1>3. CASE RenameInMemory(c)
  <2>1. PICK v \in Value : Mutate(c, [metadata[job[c].id] EXCEPT !.name = v])
    BY <1>3 DEF RenameInMemory
  <2> DEFINE new == [metadata[job[c].id] EXCEPT !.name = v]
  <2>2. /\ new \in Row /\ new.state = metadata[job[c].id].state
        /\ metadata[job[c].id] = [new EXCEPT !.name = metadata[job[c].id].name]
    BY <1>2 DEF Row
  <2>3. QED
    BY <2>1, <2>2, <1>3 DEF RenameInMemory, MutatesTo
<1>4. CASE UpdateInMemory(c)
  <2>1. PICK v \in Value : Mutate(c, [metadata[job[c].id] EXCEPT !.status = v])
    BY <1>4 DEF UpdateInMemory
  <2> DEFINE new == [metadata[job[c].id] EXCEPT !.status = v]
  <2>2. new \in Row /\ new.state = metadata[job[c].id].state
    BY <1>2 DEF Row
  <2>3. QED
    BY <2>1, <2>2, <1>4 DEF UpdateInMemory, MutatesTo
<1>5. QED
  BY <1>3, <1>4

-----------------------------------------------------------------------------
(* What every action does *)

\* A create starts: a shell, memory and a first save, no registration yet.
LEMMA BeginCreateEffect ==
    ASSUME Typed, NEW c \in Client, NEW t \in Terminal, BeginCreate(c, t)
    PROVE  /\ job[c] = Idle
           /\ Alone(c)
           /\ calls < MaxCalls
           /\ calls' = calls + 1
           /\ "create" \in Operations
           /\ ~closing
           /\ process[t] = "absent"
           /\ creating' = creating \cup {c}
           /\ Sets(process, process', t, "running")
           /\ Sets(metadata, metadata', t, Fresh)
           /\ Queue!Reserve
           /\ job'[c].pc = "createSave"
           /\ job'[c].id = t
           /\ job'[c].ticket = storeSequence'
           /\ job'[c].change = 0
           /\ job'[c].before = NoRow
           /\ job'[c].after = Fresh
           /\ UNCHANGED <<sessions, archived, closing, lifecycleMu, metadataSaveMu,
                          deleteInProgress, archive, terminated, watcher, rows, rowWriter,
                          failures, changes, exit, closer, closeItems, deleted, restarts>>
BY Fields, IdleIs
DEF BeginCreate, BeginCall, Idle, Typed, ManagerTypes, StoreTypes, Sets, JobTypes,
    JobRecord, Alone, managerVars, entryVars, processVars, storeVars, queueVars,
    closeVars, history

\* A save enters when its predecessor is closed; nothing else moves.
LEMMA EnterPersistEffect ==
    ASSUME Typed, NEW c \in Client, NEW from, NEW to, Entering(from, to),
           EnterPersist(c, from, to)
    PROVE  /\ job[c].pc = from
           /\ job[c].id \in Terminal
           /\ Alone(c)
           /\ Queue!Start(job[c].ticket)
           /\ Goes(c, to)
           /\ UNCHANGED <<sessions, archived, metadata, closing, creating, lifecycleMu,
                          metadataSaveMu, deleteInProgress, archive, process, terminated, watcher,
                          rows, rowWriter, failures, changes, exit, closer, closeItems, deleted,
                          restarts, calls>>
BY Fields, IdleIs
DEF EnterPersist, Typed, ManagerTypes, StoreTypes, Sets, JobTypes, JobRecord, Alone,
    Goes, Keeps, Entering, managerVars, entryVars, processVars, storeVars, queueVars,
    closeVars, history

\* The first save of a create returns, well or badly.
LEMMA CreateSavedEffect ==
    ASSUME Typed, NEW c \in Client, CreateSaved(c)
    PROVE  /\ job[c].pc = "createSaving"
           /\ job[c].id \in Terminal
           /\ Alone(c)
           /\ Queue!Finish(job[c].ticket)
           /\ \/ /\ Writes(job[c].id, job[c].ticket, job[c].after)
                 /\ Goes(c, "register") /\ UNCHANGED terminated
              \/ WriteFails /\ Goes(c, "discard") /\ terminated' = terminated \cup {job[c].id}
           /\ UNCHANGED <<sessions, archived, metadata, closing, creating, lifecycleMu,
                          metadataSaveMu, deleteInProgress, archive, process, watcher, changes,
                          exit, closer, closeItems, deleted, restarts, calls>>
<1>1. /\ job[c].pc = "createSaving" /\ job[c].id \in Terminal /\ Alone(c)
      /\ Goes(c, "register") \/ Goes(c, "discard")
  BY Fields DEF CreateSaved, Alone, Goes, Keeps, Typed, JobTypes, JobRecord
<1>2. \/ /\ Writes(job[c].id, job[c].ticket, job[c].after)
         /\ job'[c].pc = "register" /\ UNCHANGED terminated
      \/ /\ WriteFails
         /\ job'[c].pc = "discard" /\ terminated' = terminated \cup {job[c].id}
  BY <1>1 DEF CreateSaved, Write, Writes, Sets, Typed, StoreTypes, JobTypes, JobRecord
<1>3. QED
  BY <1>1, <1>2
  DEF CreateSaved, Goes, managerVars, entryVars, processVars, storeVars, queueVars, closeVars,
      history

\* The terminal of a create becomes visible.
LEMMA RegisterEffect ==
    ASSUME Typed, NEW c \in Client, Register(c)
    PROVE  /\ job[c].pc = "register"
           /\ job[c].id \in Terminal
           /\ Alone(c)
           /\ ~closing
           /\ sessions' = sessions \cup {job[c].id}
           /\ Goes(c, "announce")
           /\ UNCHANGED <<archived, metadata, closing, creating, lifecycleMu, metadataSaveMu,
                          deleteInProgress, archive, process, terminated, watcher, rows,
                          rowWriter, failures, storeSequence, phase, storeSealed, closeOperation,
                          changes, exit, closer, closeItems, deleted, restarts, calls>>
BY Fields, IdleIs
DEF Register, Typed, ManagerTypes, StoreTypes, Sets, JobTypes, JobRecord, Alone, Goes,
    Keeps, managerVars, entryVars, processVars, storeVars, queueVars, closeVars,
    history

\* A create that meets the close reserves the removal of its row.
LEMMA RegisterRefusedEffect ==
    ASSUME Typed, NEW c \in Client, RegisterRefused(c)
    PROVE  /\ job[c].pc = "register"
           /\ job[c].id \in Terminal
           /\ Alone(c)
           /\ closing
           /\ Queue!Reserve
           /\ job'[c].pc = "cleanup"
           /\ job'[c].id = job[c].id
           /\ job'[c].ticket = storeSequence'
           /\ job'[c].change = job[c].change
           /\ job'[c].before = job[c].before
           /\ job'[c].after = job[c].after
           /\ UNCHANGED <<sessions, archived, metadata, closing, creating, lifecycleMu,
                          metadataSaveMu, deleteInProgress, archive, process, terminated, watcher,
                          rows, rowWriter, failures, changes, exit, closer, closeItems, deleted,
                          restarts, calls>>
BY Fields, IdleIs
DEF RegisterRefused, Typed, ManagerTypes, StoreTypes, Sets, JobTypes, JobRecord, Alone,
    managerVars, entryVars, processVars, storeVars, queueVars, closeVars, history

\* The row of a refused create is removed, or stays after a failure.
LEMMA CleanedUpEffect ==
    ASSUME Typed, NEW c \in Client, CleanedUp(c)
    PROVE  /\ job[c].pc = "cleaningUp"
           /\ job[c].id \in Terminal
           /\ Alone(c)
           /\ Queue!Finish(job[c].ticket)
           /\ Writes(job[c].id, job[c].ticket, NoRow) \/ WriteFails
           /\ Goes(c, "discard")
           /\ terminated' = terminated \cup {job[c].id}
           /\ UNCHANGED <<sessions, archived, metadata, closing, creating, lifecycleMu,
                          metadataSaveMu, deleteInProgress, archive, process, watcher, changes,
                          exit, closer, closeItems, deleted, restarts, calls>>
BY Fields, IdleIs
DEF CleanedUp, Write, Typed, ManagerTypes, StoreTypes, Sets, Writes, JobTypes,
    JobRecord, Alone, Goes, Keeps, managerVars, entryVars, processVars, storeVars,
    queueVars, closeVars, history

\* The shell of a refused create has ended; the create is over.
LEMMA DiscardedEffect ==
    ASSUME Typed, NEW c \in Client, Discarded(c)
    PROVE  /\ job[c].pc = "discard"
           /\ job[c].id \in Terminal
           /\ Alone(c)
           /\ process[job[c].id] = "exited"
           /\ creating' = creating \ {c}
           /\ job'[c] = Idle
           /\ UNCHANGED <<sessions, archived, metadata, closing, lifecycleMu, metadataSaveMu,
                          deleteInProgress, archive, process, terminated, watcher, rows,
                          rowWriter, failures, storeSequence, phase, storeSealed, closeOperation,
                          changes, exit, closer, closeItems, deleted, restarts, calls>>
BY Fields, IdleIs
DEF Discarded, Typed, ManagerTypes, StoreTypes, Sets, JobTypes, JobRecord, Alone,
    managerVars, entryVars, processVars, storeVars, queueVars, closeVars, history

\* A create announces its terminal and starts the watcher.
LEMMA AnnounceEffect ==
    ASSUME Typed, NEW c \in Client, Announce(c)
    PROVE  /\ job[c].pc = "announce"
           /\ job[c].id \in Terminal
           /\ Alone(c)
           /\ Grows("created", job[c].id, "emitted")
           /\ Sets(watcher, watcher', job[c].id, "waiting")
           /\ creating' = creating \ {c}
           /\ job'[c] = Idle
           /\ UNCHANGED <<sessions, archived, metadata, closing, lifecycleMu, metadataSaveMu,
                          deleteInProgress, archive, process, terminated, rows, rowWriter,
                          failures, storeSequence, phase, storeSealed, closeOperation, exit,
                          closer, closeItems, deleted, restarts, calls>>
BY Fields, IdleIs, GrowsBy
DEF Announce, Typed, ManagerTypes, StoreTypes, Sets, JobTypes, JobRecord, Alone,
    managerVars, entryVars, processVars, storeVars, queueVars, closeVars, history

\* A mutation takes the metadata mutex of its terminal.
LEMMA BeginMutationEffect ==
    ASSUME Typed, NEW c \in Client, NEW t \in Terminal, NEW o \in {"rename", "updateAgent"},
           BeginMutation(c, t, o)
    PROVE  /\ job[c] = Idle
           /\ Alone(c)
           /\ calls < MaxCalls
           /\ calls' = calls + 1
           /\ o \in Operations
           /\ ~closing
           /\ t \in sessions
           /\ metadataSaveMu[t] = None
           /\ Sets(metadataSaveMu, metadataSaveMu', t, c)
           /\ job'[c].pc = o
           /\ job'[c].id = t
           /\ job'[c].ticket = 0
           /\ job'[c].change = 0
           /\ UNCHANGED <<sessions, archived, metadata, closing, creating, lifecycleMu,
                          deleteInProgress, archive, process, terminated, watcher, rows,
                          rowWriter, failures, storeSequence, phase, storeSealed, closeOperation,
                          changes, exit, closer, closeItems, deleted, restarts>>
BY Fields, IdleIs
DEF BeginMutation, BeginCall, Idle, Typed, ManagerTypes, StoreTypes, Sets, JobTypes,
    JobRecord, Alone, Free, managerVars, entryVars, processVars, storeVars, queueVars,
    closeVars, history

\* A mutation changes memory and reserves its save.
LEMMA MutatesToEffect ==
    ASSUME Typed, NEW c \in Client, NEW new \in Row, MutatesTo(c, new)
    PROVE  /\ job[c].pc \in {"rename", "updateAgent"}
           /\ job[c].id \in Terminal
           /\ Alone(c)
           /\ ~closing /\ job[c].id \in sessions
           /\ new.state = metadata[job[c].id].state
           /\ RenamesOnly(c, new)
           /\ Sets(metadata, metadata', job[c].id, new)
           /\ Queue!Reserve
           /\ Numbers(c, new)
           /\ job'[c].pc = (IF job[c].pc = "rename" THEN "renameSave" ELSE "updateSave")
           /\ job'[c].id = job[c].id
           /\ job'[c].ticket = storeSequence'
           /\ job'[c].before = metadata[job[c].id]
           /\ job'[c].after = new
           /\ UNCHANGED <<sessions, archived, closing, creating, lifecycleMu, metadataSaveMu,
                          deleteInProgress, archive, process, terminated, watcher, rows,
                          rowWriter, failures, exit, closer, closeItems, deleted, restarts,
                          calls>>
<1>1. Numbers(c, new)
  <2>1. CASE new = metadata[job[c].id]
    BY <2>1, Fields DEF MutatesTo, Mutate, Numbers, Typed, JobTypes, JobRecord
  <2>2. CASE new # metadata[job[c].id]
    <3>1. Grows("updated", job[c].id, "pending")
      BY <2>2, Fields, GrowsBy DEF MutatesTo, Mutate, NextChange, Typed
    <3>2. QED
      BY <2>2, <3>1, Fields DEF MutatesTo, Mutate, Numbers, Typed, JobTypes, JobRecord
  <2>3. QED
    BY <2>1, <2>2
<1>2. /\ Sets(metadata, metadata', job[c].id, new) /\ Alone(c)
      /\ job[c].id \in Terminal /\ RenamesOnly(c, new)
  BY Fields
  DEF MutatesTo, Mutate, Typed, ManagerTypes, JobTypes, Sets, Alone, RenamesOnly
<1>3. QED
  BY <1>1, <1>2, Fields
  DEF MutatesTo, Mutate, StillRegistered, Typed, JobTypes, JobRecord, managerVars, entryVars,
      processVars, storeVars, queueVars, closeVars, history

\* A mutation finds the terminal gone and gives the mutex back.
LEMMA MutationRefusedEffect ==
    ASSUME Typed, NEW c \in Client, MutationRefused(c)
    PROVE  /\ job[c].pc \in {"rename", "updateAgent"}
           /\ job[c].id \in Terminal
           /\ Alone(c)
           /\ ~(~closing /\ job[c].id \in sessions)
           /\ Sets(metadataSaveMu, metadataSaveMu', job[c].id, None)
           /\ job'[c] = Idle
           /\ UNCHANGED <<sessions, archived, metadata, closing, creating, lifecycleMu,
                          deleteInProgress, archive, process, terminated, watcher, rows,
                          rowWriter, failures, storeSequence, phase, storeSealed, closeOperation,
                          changes, exit, closer, closeItems, deleted, restarts, calls>>
BY Fields, IdleIs
DEF MutationRefused, StillRegistered, Release, Typed, ManagerTypes, StoreTypes, Sets,
    JobTypes, JobRecord, Alone, managerVars, entryVars, processVars, storeVars,
    queueVars, closeVars, history

\* The save of a mutation succeeds; the change is emitted.
LEMMA MutationSavedEffect ==
    ASSUME Typed, NEW c \in Client, MutationSaved(c)
    PROVE  /\ job[c].pc \in {"renameSaving", "updateSaving"}
           /\ job[c].id \in Terminal
           /\ Alone(c)
           /\ Queue!Finish(job[c].ticket)
           /\ Writes(job[c].id, job[c].ticket, job[c].after)
           /\ Sets(metadataSaveMu, metadataSaveMu', job[c].id, None)
           /\ Settles(job[c].change, "emitted")
           /\ job'[c] = Idle
           /\ UNCHANGED <<sessions, archived, metadata, closing, creating, lifecycleMu,
                          deleteInProgress, archive, process, terminated, watcher, exit, closer,
                          closeItems, deleted, restarts, calls>>
BY Fields, IdleIs, SettlesBy
DEF MutationSaved, Write, Release, Typed, ManagerTypes, StoreTypes, Sets, Writes,
    JobTypes, JobRecord, Alone, managerVars, entryVars, processVars, storeVars,
    queueVars, closeVars, history

\* The save of an agent update fails; memory keeps the update.
LEMMA UpdateNotSavedEffect ==
    ASSUME Typed, NEW c \in Client, UpdateNotSaved(c)
    PROVE  /\ job[c].pc = "updateSaving"
           /\ job[c].id \in Terminal
           /\ Alone(c)
           /\ Queue!Finish(job[c].ticket)
           /\ WriteFails
           /\ Sets(metadataSaveMu, metadataSaveMu', job[c].id, None)
           /\ Settles(job[c].change, "skipped")
           /\ job'[c] = Idle
           /\ UNCHANGED <<sessions, archived, metadata, closing, creating, lifecycleMu,
                          deleteInProgress, archive, process, terminated, watcher, exit, closer,
                          closeItems, deleted, restarts, calls>>
BY Fields, IdleIs, SettlesBy
DEF UpdateNotSaved, Release, Typed, ManagerTypes, StoreTypes, Sets, JobTypes,
    JobRecord, Alone, managerVars, entryVars, processVars, storeVars, queueVars,
    closeVars, history

\* The save of a rename fails; the rollback is next.
LEMMA RenameNotSavedEffect ==
    ASSUME Typed, NEW c \in Client, RenameNotSaved(c)
    PROVE  /\ job[c].pc = "renameSaving"
           /\ job[c].id \in Terminal
           /\ Alone(c)
           /\ Queue!Finish(job[c].ticket)
           /\ WriteFails
           /\ Goes(c, "rollback")
           /\ UNCHANGED <<sessions, archived, metadata, closing, creating, lifecycleMu,
                          metadataSaveMu, deleteInProgress, archive, process, terminated, watcher,
                          changes, exit, closer, closeItems, deleted, restarts, calls>>
BY Fields, IdleIs
DEF RenameNotSaved, Typed, ManagerTypes, StoreTypes, Sets, JobTypes, JobRecord, Alone,
    Goes, Keeps, managerVars, entryVars, processVars, storeVars, queueVars, closeVars,
    history

\* A rename puts the old name back, unless it was changed since.
LEMMA RollBackEffect ==
    ASSUME Typed, NEW c \in Client, RollBack(c)
    PROVE  /\ job[c].pc = "rollback"
           /\ job[c].id \in Terminal
           /\ Alone(c)
           /\ NameUndone(c)
           /\ Sets(metadataSaveMu, metadataSaveMu', job[c].id, None)
           /\ Settles(job[c].change, "skipped")
           /\ job'[c] = Idle
           /\ UNCHANGED <<sessions, archived, closing, creating, lifecycleMu, deleteInProgress,
                          archive, process, terminated, watcher, rows, rowWriter, failures,
                          storeSequence, phase, storeSealed, closeOperation, exit, closer,
                          closeItems, deleted, restarts, calls>>
BY Fields, IdleIs, SettlesBy
DEF RollBack, NameRestored, Release, Typed, ManagerTypes, StoreTypes, Sets, JobTypes,
    JobRecord, Alone, NameUndone, managerVars, entryVars, processVars, storeVars,
    queueVars, closeVars, history

\* Delete and archive take the lifecycle mutex.
LEMMA LockLifecycleEffect ==
    ASSUME Typed, NEW c \in Client, NEW t \in Terminal, NEW o \in {"delete", "archive"},
           LockLifecycle(c, t, o)
    PROVE  /\ job[c] = Idle
           /\ Alone(c)
           /\ calls < MaxCalls
           /\ calls' = calls + 1
           /\ o \in Operations
           /\ ~closing
           /\ t \in sessions
           /\ lifecycleMu[t] = None
           /\ Sets(lifecycleMu, lifecycleMu', t, c)
           /\ job'[c].pc = o
           /\ job'[c].id = t
           /\ job'[c].ticket = 0
           /\ job'[c].change = 0
           /\ UNCHANGED <<sessions, archived, metadata, closing, creating, metadataSaveMu,
                          deleteInProgress, archive, process, terminated, watcher, rows,
                          rowWriter, failures, storeSequence, phase, storeSealed, closeOperation,
                          changes, exit, closer, closeItems, deleted, restarts>>
BY Fields, IdleIs
DEF LockLifecycle, BeginCall, Idle, Typed, ManagerTypes, StoreTypes, Sets, JobTypes,
    JobRecord, Alone, Free, managerVars, entryVars, processVars, storeVars, queueVars,
    closeVars, history

\* Delete claims the terminal and reserves its operation.
LEMMA ClaimDeleteEffect ==
    ASSUME Typed, NEW c \in Client, ClaimDelete(c)
    PROVE  /\ job[c].pc = "delete"
           /\ job[c].id \in Terminal
           /\ Alone(c)
           /\ ~closing /\ job[c].id \in sessions
           /\ ~ArchiveInProgress(job[c].id)
           /\ deleteInProgress' = deleteInProgress \cup {job[c].id}
           /\ Queue!Reserve
           /\ job'[c].pc = "remove"
           /\ job'[c].id = job[c].id
           /\ job'[c].ticket = storeSequence'
           /\ job'[c].change = job[c].change
           /\ job'[c].before = job[c].before
           /\ job'[c].after = job[c].after
           /\ UNCHANGED <<sessions, archived, metadata, closing, creating, lifecycleMu,
                          metadataSaveMu, archive, process, terminated, watcher, rows, rowWriter,
                          failures, changes, exit, closer, closeItems, deleted, restarts, calls>>
BY Fields, IdleIs
DEF ClaimDelete, StillRegistered, Typed, ManagerTypes, StoreTypes, Sets, JobTypes,
    JobRecord, Alone, managerVars, entryVars, processVars, storeVars, queueVars,
    closeVars, history

\* Delete or archive finds the terminal gone or claimed.
LEMMA LifecycleRefusedEffect ==
    ASSUME Typed, NEW c \in Client, LifecycleRefused(c)
    PROVE  /\ job[c].pc \in {"delete", "archive"}
           /\ job[c].id \in Terminal
           /\ Alone(c)
           /\ ~(~closing /\ job[c].id \in sessions)
           /\ Sets(lifecycleMu, lifecycleMu', job[c].id, None)
           /\ job'[c] = Idle
           /\ UNCHANGED <<sessions, archived, metadata, closing, creating, metadataSaveMu,
                          deleteInProgress, archive, process, terminated, watcher, rows,
                          rowWriter, failures, storeSequence, phase, storeSealed, closeOperation,
                          changes, exit, closer, closeItems, deleted, restarts, calls>>
BY Fields, IdleIs
DEF LifecycleRefused, StillRegistered, Release, Typed, ManagerTypes, StoreTypes, Sets,
    JobTypes, JobRecord, Alone, managerVars, entryVars, processVars, storeVars,
    queueVars, closeVars, history

\* Delete removes the entry and draws the number of the deletion.
LEMMA RemoveEntryEffect ==
    ASSUME Typed, NEW c \in Client, RemoveEntry(c)
    PROVE  /\ job[c].pc = "remove"
           /\ job[c].id \in Terminal
           /\ Alone(c)
           /\ ~closing /\ job[c].id \in sessions
           /\ sessions' = sessions \ {job[c].id}
           /\ Grows("deleted", job[c].id, "pending")
           /\ job'[c].pc = "deleteRow"
           /\ job'[c].id = job[c].id
           /\ job'[c].ticket = job[c].ticket
           /\ job'[c].change = ChangeNumber
           /\ job'[c].before = job[c].before
           /\ job'[c].after = job[c].after
           /\ UNCHANGED <<archived, metadata, closing, creating, lifecycleMu, metadataSaveMu,
                          deleteInProgress, archive, process, terminated, watcher, rows,
                          rowWriter, failures, storeSequence, phase, storeSealed, closeOperation,
                          exit, closer, closeItems, deleted, restarts, calls>>
BY Fields, IdleIs, GrowsBy
DEF RemoveEntry, StillRegistered, NextChange, Typed, ManagerTypes, StoreTypes, Sets,
    JobTypes, JobRecord, Alone, managerVars, entryVars, processVars, storeVars,
    queueVars, closeVars, history

\* Delete finds the terminal removed by its watcher.
LEMMA DeleteRefusedEffect ==
    ASSUME Typed, NEW c \in Client, DeleteRefused(c)
    PROVE  /\ job[c].pc = "remove"
           /\ job[c].id \in Terminal
           /\ Alone(c)
           /\ ~(~closing /\ job[c].id \in sessions)
           /\ Goes(c, "dropOperation")
           /\ UNCHANGED <<sessions, archived, metadata, closing, creating, lifecycleMu,
                          metadataSaveMu, deleteInProgress, archive, process, terminated, watcher,
                          rows, rowWriter, failures, storeSequence, phase, storeSealed,
                          closeOperation, changes, exit, closer, closeItems, deleted, restarts,
                          calls>>
BY Fields, IdleIs
DEF DeleteRefused, StillRegistered, Typed, ManagerTypes, StoreTypes, Sets, JobTypes,
    JobRecord, Alone, Goes, Keeps, managerVars, entryVars, processVars, storeVars,
    queueVars, closeVars, history

\* A refused delete passes through the queue without a write.
LEMMA OperationDroppedEffect ==
    ASSUME Typed, NEW c \in Client, OperationDropped(c)
    PROVE  /\ job[c].pc = "droppingOperation"
           /\ job[c].id \in Terminal
           /\ Alone(c)
           /\ Queue!Finish(job[c].ticket)
           /\ deleteInProgress' = deleteInProgress \ {job[c].id}
           /\ Sets(lifecycleMu, lifecycleMu', job[c].id, None)
           /\ Settles(job[c].change, "skipped")
           /\ job'[c] = Idle
           /\ UNCHANGED <<sessions, archived, metadata, closing, creating, metadataSaveMu,
                          archive, process, terminated, watcher, rows, rowWriter, failures, exit,
                          closer, closeItems, deleted, restarts, calls>>
BY Fields, IdleIs, SettlesBy
DEF OperationDropped, FinishDelete, Release, Typed, ManagerTypes, StoreTypes, Sets,
    JobTypes, JobRecord, Alone, managerVars, entryVars, processVars, storeVars,
    queueVars, closeVars, history

\* The row is deleted; the shell is to end.
LEMMA RowDeletedEffect ==
    ASSUME Typed, NEW c \in Client, RowDeleted(c)
    PROVE  /\ job[c].pc = "deletingRow"
           /\ job[c].id \in Terminal
           /\ Alone(c)
           /\ Writes(job[c].id, job[c].ticket, NoRow)
           /\ terminated' = terminated \cup {job[c].id}
           /\ Goes(c, "reap")
           /\ UNCHANGED <<sessions, archived, metadata, closing, creating, lifecycleMu,
                          metadataSaveMu, deleteInProgress, archive, process, watcher,
                          storeSequence, phase, storeSealed, closeOperation, changes, exit,
                          closer, closeItems, deleted, restarts, calls>>
BY Fields, IdleIs
DEF RowDeleted, Write, Typed, ManagerTypes, StoreTypes, Sets, Writes, JobTypes,
    JobRecord, Alone, Goes, Keeps, managerVars, entryVars, processVars, storeVars,
    queueVars, closeVars, history

\* The row stays; the terminal is registered again unless the manager closes.
LEMMA RowNotDeletedEffect ==
    ASSUME Typed, NEW c \in Client, RowNotDeleted(c)
    PROVE  /\ job[c].pc = "deletingRow"
           /\ job[c].id \in Terminal
           /\ Alone(c)
           /\ WriteFails
           /\ IF closing
              THEN /\ terminated' = terminated \cup {job[c].id}
                   /\ Goes(c, "reapFailed") /\ UNCHANGED sessions
              ELSE /\ sessions' = sessions \cup {job[c].id}
                   /\ Goes(c, "deleteFailed") /\ UNCHANGED terminated
           /\ UNCHANGED <<archived, metadata, closing, creating, lifecycleMu, metadataSaveMu,
                          deleteInProgress, archive, process, watcher, storeSequence, phase,
                          storeSealed, closeOperation, changes, exit, closer, closeItems, deleted,
                          restarts, calls>>
BY Fields, IdleIs
DEF RowNotDeleted, Typed, ManagerTypes, StoreTypes, Sets, JobTypes, JobRecord, Alone,
    Goes, Keeps, managerVars, entryVars, processVars, storeVars, queueVars, closeVars,
    history

\* The shell of a deleted terminal has ended; the deletion is emitted.
LEMMA ReapedEffect ==
    ASSUME Typed, NEW c \in Client, Reaped(c)
    PROVE  /\ job[c].pc = "reap"
           /\ job[c].id \in Terminal
           /\ Alone(c)
           /\ watcher[job[c].id] = "done"
           /\ Queue!Finish(job[c].ticket)
           /\ deleteInProgress' = deleteInProgress \ {job[c].id}
           /\ Sets(lifecycleMu, lifecycleMu', job[c].id, None)
           /\ Settles(job[c].change, "emitted")
           /\ job'[c] = Idle
           /\ deleted' = deleted \cup {job[c].id}
           /\ UNCHANGED <<sessions, archived, metadata, closing, creating, metadataSaveMu,
                          archive, process, terminated, watcher, rows, rowWriter, failures, exit,
                          closer, closeItems, restarts, calls>>
BY Fields, IdleIs, SettlesBy
DEF Reaped, FinishDelete, Release, Typed, ManagerTypes, StoreTypes, Sets, JobTypes,
    JobRecord, Alone, managerVars, entryVars, processVars, storeVars, queueVars,
    closeVars, history

\* A delete that failed gives up its claim.
LEMMA DeleteFailedEffect ==
    ASSUME Typed, NEW c \in Client, DeleteFailed(c)
    PROVE  /\ job[c].pc \in {"deleteFailed", "reapFailed"}
           /\ job[c].id \in Terminal
           /\ Alone(c)
           /\ job[c].pc = "reapFailed" => watcher[job[c].id] = "done"
           /\ Queue!Finish(job[c].ticket)
           /\ deleteInProgress' = deleteInProgress \ {job[c].id}
           /\ Sets(lifecycleMu, lifecycleMu', job[c].id, None)
           /\ Settles(job[c].change, "skipped")
           /\ job'[c] = Idle
           /\ UNCHANGED <<sessions, archived, metadata, closing, creating, metadataSaveMu,
                          archive, process, terminated, watcher, rows, rowWriter, failures, exit,
                          closer, closeItems, deleted, restarts, calls>>
BY Fields, IdleIs, SettlesBy
DEF DeleteFailed, FinishDelete, Release, Typed, ManagerTypes, StoreTypes, Sets,
    JobTypes, JobRecord, Alone, managerVars, entryVars, processVars, storeVars,
    queueVars, closeVars, history

\* Archive marks the terminal and ends its shell.
LEMMA PrepareArchiveEffect ==
    ASSUME Typed, NEW c \in Client, PrepareArchive(c)
    PROVE  /\ job[c].pc = "archive"
           /\ job[c].id \in Terminal
           /\ Alone(c)
           /\ ~closing /\ job[c].id \in sessions
           /\ Sets(archive, archive', job[c].id, "preparing")
           /\ Goes(c, "archiveLock")
           /\ UNCHANGED <<sessions, archived, metadata, closing, creating, lifecycleMu,
                          metadataSaveMu, deleteInProgress, process, terminated, watcher, rows,
                          rowWriter, failures, storeSequence, phase, storeSealed, closeOperation,
                          changes, exit, closer, closeItems, deleted, restarts, calls>>
BY Fields, IdleIs
DEF PrepareArchive, StillRegistered, Typed, ManagerTypes, StoreTypes, Sets, JobTypes,
    JobRecord, Alone, Goes, Keeps, managerVars, entryVars, processVars, storeVars,
    queueVars, closeVars, history

\* Archive takes the metadata mutex and snapshots the terminal.
LEMMA LockForArchiveEffect ==
    ASSUME Typed, NEW c \in Client, LockForArchive(c)
    PROVE  /\ job[c].pc = "archiveLock"
           /\ job[c].id \in Terminal
           /\ Alone(c)
           /\ ~closing /\ job[c].id \in sessions
           /\ metadataSaveMu[job[c].id] = None
           /\ Sets(metadataSaveMu, metadataSaveMu', job[c].id, c)
           /\ job'[c].pc = "archiveReserve"
           /\ job'[c].id = job[c].id
           /\ job'[c].ticket = job[c].ticket
           /\ job'[c].change = job[c].change
           /\ job'[c].before = job[c].before
           /\ job'[c].after = Archived(metadata[job[c].id])
           /\ UNCHANGED <<sessions, archived, metadata, closing, creating, lifecycleMu,
                          deleteInProgress, archive, process, terminated, watcher, rows,
                          rowWriter, failures, storeSequence, phase, storeSealed, closeOperation,
                          changes, exit, closer, closeItems, deleted, restarts, calls>>
BY Fields, IdleIs
DEF LockForArchive, StillRegistered, Typed, ManagerTypes, StoreTypes, Sets, JobTypes,
    JobRecord, Alone, Free, managerVars, entryVars, processVars, storeVars, queueVars,
    closeVars, history

\* Archive gives up before it had the metadata mutex.
LEMMA ArchiveNotLockedEffect ==
    ASSUME Typed, NEW c \in Client, ArchiveNotLocked(c)
    PROVE  /\ job[c].pc = "archiveLock"
           /\ job[c].id \in Terminal
           /\ Alone(c)
           /\ Sets(archive, archive', job[c].id, "none")
           /\ Sets(lifecycleMu, lifecycleMu', job[c].id, None)
           /\ \A u \in Terminal : metadataSaveMu'[u] =
              IF u = job[c].id /\ metadataSaveMu[u] = c THEN None ELSE metadataSaveMu[u]
           /\ job'[c] = Idle
           /\ UNCHANGED <<sessions, archived, metadata, closing, creating, deleteInProgress,
                          process, terminated, watcher, rows, rowWriter, failures, storeSequence,
                          phase, storeSealed, closeOperation, changes, exit, closer, closeItems,
                          deleted, restarts, calls>>
BY Fields, IdleIs
DEF ArchiveNotLocked, StillRegistered, AbandonArchive, Release, Typed, ManagerTypes,
    StoreTypes, Sets, JobTypes, JobRecord, Alone, managerVars, entryVars, processVars,
    storeVars, queueVars, closeVars, history

\* Archive reserves its save.
LEMMA ReserveArchiveEffect ==
    ASSUME Typed, NEW c \in Client, ReserveArchive(c)
    PROVE  /\ job[c].pc = "archiveReserve"
           /\ job[c].id \in Terminal
           /\ Alone(c)
           /\ Queue!Reserve
           /\ job'[c].pc = "archiveSave"
           /\ job'[c].id = job[c].id
           /\ job'[c].ticket = storeSequence'
           /\ job'[c].change = job[c].change
           /\ job'[c].before = job[c].before
           /\ job'[c].after = job[c].after
           /\ UNCHANGED <<sessions, archived, metadata, closing, creating, lifecycleMu,
                          metadataSaveMu, deleteInProgress, archive, process, terminated, watcher,
                          rows, rowWriter, failures, changes, exit, closer, closeItems, deleted,
                          restarts, calls>>
BY Fields, IdleIs
DEF ReserveArchive, Typed, ManagerTypes, StoreTypes, Sets, JobTypes, JobRecord, Alone,
    managerVars, entryVars, processVars, storeVars, queueVars, closeVars, history

\* Archive finds the queue sealed.
LEMMA ArchiveSealedOutEffect ==
    ASSUME Typed, NEW c \in Client, ArchiveSealedOut(c)
    PROVE  /\ job[c].pc = "archiveReserve"
           /\ job[c].id \in Terminal
           /\ Alone(c)
           /\ storeSealed
           /\ Sets(archive, archive', job[c].id, "none")
           /\ Sets(lifecycleMu, lifecycleMu', job[c].id, None)
           /\ \A u \in Terminal : metadataSaveMu'[u] =
              IF u = job[c].id /\ metadataSaveMu[u] = c THEN None ELSE metadataSaveMu[u]
           /\ job'[c] = Idle
           /\ UNCHANGED <<sessions, archived, metadata, closing, creating, deleteInProgress,
                          process, terminated, watcher, rows, rowWriter, failures, storeSequence,
                          phase, storeSealed, closeOperation, changes, exit, closer, closeItems,
                          deleted, restarts, calls>>
BY Fields, IdleIs
DEF ArchiveSealedOut, AbandonArchive, Release, Typed, ManagerTypes, StoreTypes, Sets,
    JobTypes, JobRecord, Alone, managerVars, entryVars, processVars, storeVars,
    queueVars, closeVars, history

\* The context of an archive ends while its save waits.
LEMMA ArchiveCancelledEffect ==
    ASSUME Typed, NEW c \in Client, ArchiveCancelled(c)
    PROVE  /\ job[c].pc = "archiveSave"
           /\ job[c].id \in Terminal
           /\ Alone(c)
           /\ ArchiveCancels
           /\ Queue!Cancel(job[c].ticket)
           /\ Sets(archive, archive', job[c].id, "none")
           /\ Sets(lifecycleMu, lifecycleMu', job[c].id, None)
           /\ \A u \in Terminal : metadataSaveMu'[u] =
              IF u = job[c].id /\ metadataSaveMu[u] = c THEN None ELSE metadataSaveMu[u]
           /\ job'[c] = Idle
           /\ UNCHANGED <<sessions, archived, metadata, closing, creating, deleteInProgress,
                          process, terminated, watcher, rows, rowWriter, failures, changes, exit,
                          closer, closeItems, deleted, restarts, calls>>
BY Fields, IdleIs
DEF ArchiveCancelled, AbandonArchive, Release, Typed, ManagerTypes, StoreTypes, Sets,
    JobTypes, JobRecord, Alone, managerVars, entryVars, processVars, storeVars,
    queueVars, closeVars, history

\* The archived row is written.
LEMMA ArchiveSavedEffect ==
    ASSUME Typed, NEW c \in Client, ArchiveSaved(c)
    PROVE  /\ job[c].pc = "archiveSaving"
           /\ job[c].id \in Terminal
           /\ Alone(c)
           /\ Queue!Finish(job[c].ticket)
           /\ Writes(job[c].id, job[c].ticket, job[c].after)
           /\ Goes(c, "archiveCommit")
           /\ UNCHANGED <<sessions, archived, metadata, closing, creating, lifecycleMu,
                          metadataSaveMu, deleteInProgress, archive, process, terminated, watcher,
                          changes, exit, closer, closeItems, deleted, restarts, calls>>
BY Fields, IdleIs
DEF ArchiveSaved, Write, Typed, ManagerTypes, StoreTypes, Sets, Writes, JobTypes,
    JobRecord, Alone, Goes, Keeps, managerVars, entryVars, processVars, storeVars,
    queueVars, closeVars, history

\* The save of an archive fails.
LEMMA ArchiveNotSavedEffect ==
    ASSUME Typed, NEW c \in Client, ArchiveNotSaved(c)
    PROVE  /\ job[c].pc = "archiveSaving"
           /\ job[c].id \in Terminal
           /\ Alone(c)
           /\ Queue!Finish(job[c].ticket)
           /\ WriteFails
           /\ Sets(archive, archive', job[c].id, "none")
           /\ Sets(lifecycleMu, lifecycleMu', job[c].id, None)
           /\ \A u \in Terminal : metadataSaveMu'[u] =
              IF u = job[c].id /\ metadataSaveMu[u] = c THEN None ELSE metadataSaveMu[u]
           /\ job'[c] = Idle
           /\ UNCHANGED <<sessions, archived, metadata, closing, creating, deleteInProgress,
                          process, terminated, watcher, changes, exit, closer, closeItems,
                          deleted, restarts, calls>>
BY Fields, IdleIs
DEF ArchiveNotSaved, AbandonArchive, Release, Typed, ManagerTypes, StoreTypes, Sets,
    JobTypes, JobRecord, Alone, managerVars, entryVars, processVars, storeVars,
    queueVars, closeVars, history

\* Archive takes its change into memory.
LEMMA CommitArchiveEffect ==
    ASSUME Typed, NEW c \in Client, CommitArchive(c)
    PROVE  /\ job[c].pc = "archiveCommit"
           /\ job[c].id \in Terminal
           /\ Alone(c)
           /\ Sets(archive, archive', job[c].id, "succeeded")
           /\ terminated' = terminated \cup {job[c].id}
           /\ Goes(c, "archiveReap")
           /\ UNCHANGED <<sessions, archived, metadata, closing, creating, lifecycleMu,
                          metadataSaveMu, deleteInProgress, process, watcher, rows, rowWriter,
                          failures, storeSequence, phase, storeSealed, closeOperation, changes,
                          exit, closer, closeItems, deleted, restarts, calls>>
BY Fields, IdleIs
DEF CommitArchive, Typed, ManagerTypes, StoreTypes, Sets, JobTypes, JobRecord, Alone,
    Goes, Keeps, managerVars, entryVars, processVars, storeVars, queueVars, closeVars,
    history

\* Archive moves the terminal to the archived ones.
LEMMA ArchiveReapedEffect ==
    ASSUME Typed, NEW c \in Client, ArchiveReaped(c)
    PROVE  /\ job[c].pc = "archiveReap"
           /\ job[c].id \in Terminal
           /\ Alone(c)
           /\ watcher[job[c].id] = "done"
           /\ sessions' = sessions \ {job[c].id}
           /\ archived' = archived \cup {job[c].id}
           /\ Sets(archive, archive', job[c].id, "done")
           /\ Grows("deleted", job[c].id, "emitted")
           /\ Sets(lifecycleMu, lifecycleMu', job[c].id, None)
           /\ Sets(metadataSaveMu, metadataSaveMu', job[c].id, None)
           /\ job'[c] = Idle
           /\ UNCHANGED <<metadata, closing, creating, deleteInProgress, process, terminated,
                          watcher, rows, rowWriter, failures, storeSequence, phase, storeSealed,
                          closeOperation, exit, closer, closeItems, deleted, restarts, calls>>
BY Fields, IdleIs, GrowsBy
DEF ArchiveReaped, Release, Typed, ManagerTypes, StoreTypes, Sets, JobTypes, JobRecord,
    Alone, managerVars, entryVars, processVars, storeVars, queueVars, closeVars,
    history

\* A shell ends.
LEMMA ProcessExitsEffect ==
    ASSUME Typed, NEW t \in Terminal, ProcessExits(t)
    PROVE  /\ process[t] = "running"
           /\ Sets(process, process', t, "exited")
           /\ UNCHANGED <<sessions, archived, metadata, closing, creating, lifecycleMu,
                          metadataSaveMu, deleteInProgress, archive, terminated, watcher, rows,
                          rowWriter, failures, storeSequence, phase, storeSealed, closeOperation,
                          changes, job, exit, closer, closeItems, deleted, restarts, calls>>
BY DEF ProcessExits, Typed, ManagerTypes, StoreTypes, Sets, managerVars, entryVars,
    processVars, storeVars, queueVars, closeVars, history

\* A watcher leaves the exit to the archive under way.
LEMMA WatchDefersToArchiveEffect ==
    ASSUME Typed, NEW t \in Terminal, WatchDefersToArchive(t)
    PROVE  /\ watcher[t] = "waiting" /\ process[t] = "exited"
           /\ ArchiveInProgress(t)
           /\ Sets(watcher, watcher', t, "archiveReady")
           /\ UNCHANGED <<sessions, archived, metadata, closing, creating, lifecycleMu,
                          metadataSaveMu, deleteInProgress, archive, process, terminated, rows,
                          rowWriter, failures, storeSequence, phase, storeSealed, closeOperation,
                          changes, job, exit, closer, closeItems, deleted, restarts, calls>>
BY DEF WatchDefersToArchive, WatcherMoves, Typed, ManagerTypes, StoreTypes, Sets,
    managerVars, entryVars, processVars, storeVars, queueVars, closeVars, history

\* A watcher hears how the archive ended.
LEMMA WatchArchiveReadyEffect ==
    ASSUME Typed, NEW t \in Terminal, WatchArchiveReady(t)
    PROVE  /\ watcher[t] = "archiveReady"
           /\ archive[t] # "preparing"
           /\ Sets(watcher, watcher', t, AfterArchive(t))
           /\ UNCHANGED <<sessions, archived, metadata, closing, creating, lifecycleMu,
                          metadataSaveMu, deleteInProgress, archive, process, terminated, rows,
                          rowWriter, failures, storeSequence, phase, storeSealed, closeOperation,
                          changes, job, exit, closer, closeItems, deleted, restarts, calls>>
BY DEF WatchArchiveReady, WatcherMoves, Typed, ManagerTypes, StoreTypes, Sets,
    managerVars, entryVars, processVars, storeVars, queueVars, closeVars, history

\* A watcher leaves the exit to a delete or to a removal that was.
LEMMA WatchStandsBackEffect ==
    ASSUME Typed, NEW t \in Terminal, WatchStandsBack(t)
    PROVE  /\ watcher[t] = "waiting" /\ process[t] = "exited"
           /\ ~ArchiveInProgress(t)
           /\ t \in deleteInProgress \/ closing
           /\ Sets(watcher, watcher', t, "done")
           /\ UNCHANGED <<sessions, archived, metadata, closing, creating, lifecycleMu,
                          metadataSaveMu, deleteInProgress, archive, process, terminated, rows,
                          rowWriter, failures, storeSequence, phase, storeSealed, closeOperation,
                          changes, job, exit, closer, closeItems, deleted, restarts, calls>>
BY DEF WatchStandsBack, ExitExpected, WatcherMoves, Typed, ManagerTypes, StoreTypes, Sets,
    managerVars, entryVars, processVars, storeVars, queueVars, closeVars, history

\* A watcher removes the entry, draws the deletion and reserves the exit save.
LEMMA WatchRemovesEffect ==
    ASSUME Typed, NEW t \in Terminal, WatchRemoves(t)
    PROVE  /\ watcher[t] = "waiting" /\ process[t] = "exited"
           /\ ~ArchiveInProgress(t)
           /\ t \notin deleteInProgress /\ ~closing /\ t \in sessions
           /\ sessions' = sessions \ {t}
           /\ Grows("deleted", t, "pending")
           /\ Queue!Reserve
           /\ Sets(exit, exit', t, [ticket |-> storeSequence', change |-> ChangeNumber])
           /\ Sets(watcher, watcher', t, "save")
           /\ UNCHANGED <<archived, metadata, closing, creating, lifecycleMu, metadataSaveMu,
                          deleteInProgress, archive, process, terminated, rows, rowWriter,
                          failures, job, closer, closeItems, deleted, restarts, calls>>
BY ExitFields, GrowsBy
DEF WatchRemoves, ExitExpected, NextChange, WatcherMoves, Typed, ManagerTypes,
    StoreTypes, Sets, ExitTypes, ExitRecord, managerVars, entryVars, processVars,
    storeVars, queueVars, closeVars, history

\* An exit save enters the queue.
LEMMA WatchEntersPersistEffect ==
    ASSUME Typed, NEW t \in Terminal, WatchEntersPersist(t)
    PROVE  /\ watcher[t] \in {"save", "saveAgain"}
           /\ Queue!Start(exit[t].ticket)
           /\ Sets(watcher, watcher', t, IF watcher[t] = "save" THEN "saving" ELSE "savingAgain")
           /\ UNCHANGED <<sessions, archived, metadata, closing, creating, lifecycleMu,
                          metadataSaveMu, deleteInProgress, archive, process, terminated, rows,
                          rowWriter, failures, changes, job, exit, closer, closeItems, deleted,
                          restarts, calls>>
BY DEF WatchEntersPersist, WatcherMoves, Typed, ManagerTypes, StoreTypes, Sets,
    managerVars, entryVars, processVars, storeVars, queueVars, closeVars, history

\* An exit save returns, well or badly.
LEMMA WatchSavesEffect ==
    ASSUME Typed, NEW t \in Terminal, WatchSaves(t)
    PROVE  /\ watcher[t] \in {"saving", "savingAgain"}
           /\ Queue!Finish(exit[t].ticket)
           /\ \/ Sets(watcher, watcher', t, "publish")
              \/ Sets(watcher, watcher', t, AfterFailedSave(t))
           /\ \/ /\ Writes(t, exit[t].ticket, Exited(metadata[t]))
                 /\ Sets(watcher, watcher', t, "publish")
              \/ WriteFails /\ Sets(watcher, watcher', t, AfterFailedSave(t))
           /\ UNCHANGED <<sessions, archived, metadata, closing, creating, lifecycleMu,
                          metadataSaveMu, deleteInProgress, archive, process, terminated, changes,
                          job, exit, closer, closeItems, deleted, restarts, calls>>
BY DEF WatchSaves, Write, WatcherMoves, Typed, ManagerTypes, StoreTypes, Sets, Writes,
    managerVars, entryVars, processVars, storeVars, queueVars, closeVars, history

\* A watcher whose save failed reserves one more, if it can.
LEMMA WatchRetriesEffect ==
    ASSUME Typed, NEW t \in Terminal, WatchRetries(t)
    PROVE  /\ watcher[t] = "retry"
           /\ Sets(watcher, watcher', t, "saveAgain") \/ Sets(watcher, watcher', t, "publish")
           /\ TriesAgain(t)
           /\ UNCHANGED <<sessions, archived, metadata, closing, creating, lifecycleMu,
                          metadataSaveMu, deleteInProgress, archive, process, terminated, rows,
                          rowWriter, failures, changes, job, closer, closeItems, deleted,
                          restarts, calls>>
BY ExitFields
DEF WatchRetries, WatcherMoves, Typed, ManagerTypes, StoreTypes, Sets, ExitTypes,
    ExitRecord, TriesAgain, managerVars, entryVars, processVars, storeVars, queueVars,
    closeVars, history

\* A watcher archives the terminal and emits the deletion.
LEMMA WatchPublishesEffect ==
    ASSUME Typed, NEW t \in Terminal, WatchPublishes(t)
    PROVE  /\ watcher[t] = "publish"
           /\ archived' = archived \cup {t}
           /\ Settles(exit[t].change, "emitted")
           /\ Sets(watcher, watcher', t, "done")
           /\ UNCHANGED <<sessions, metadata, closing, creating, lifecycleMu, metadataSaveMu,
                          deleteInProgress, archive, process, terminated, rows, rowWriter,
                          failures, storeSequence, phase, storeSealed, closeOperation, job, exit,
                          closer, closeItems, deleted, restarts, calls>>
BY ExitFields, SettlesBy
DEF WatchPublishes, WatcherMoves, Typed, ManagerTypes, StoreTypes, Sets, managerVars,
    entryVars, processVars, storeVars, queueVars, closeVars, history

\* Close stops new calls.
LEMMA BeginCloseEffect ==
    ASSUME Typed, BeginClose
    PROVE  /\ "close" \in Operations
           /\ closer = "open"
           /\ closer' = "waitCreates"
           /\ closing'
           /\ UNCHANGED <<sessions, archived, metadata, creating, lifecycleMu, metadataSaveMu,
                          deleteInProgress, archive, process, terminated, watcher, rows,
                          rowWriter, failures, storeSequence, phase, storeSealed, closeOperation,
                          changes, job, exit, closeItems, deleted, restarts, calls>>
BY DEF BeginClose, Typed, ManagerTypes, StoreTypes, Sets, managerVars, entryVars,
    processVars, storeVars, queueVars, closeVars, history

\* Close seals the queue and takes the terminals it has to end.
LEMMA SealStoreEffect ==
    ASSUME Typed, SealStore
    PROVE  /\ closer = "waitCreates"
           /\ creating = {}
           /\ Queue!Seal
           /\ closeItems' = sessions
           /\ closer' = "terminate"
           /\ UNCHANGED <<sessions, archived, metadata, closing, creating, lifecycleMu,
                          metadataSaveMu, deleteInProgress, archive, process, terminated, watcher,
                          rows, rowWriter, failures, changes, job, exit, deleted, restarts,
                          calls>>
BY DEF SealStore, CreatesDone, Typed, ManagerTypes, StoreTypes, Sets, managerVars,
    entryVars, processVars, storeVars, queueVars, closeVars, history

\* Close ends their shells.
LEMMA TerminateSessionsEffect ==
    ASSUME Typed, TerminateSessions
    PROVE  /\ closer = "terminate"
           /\ terminated' = terminated \cup closeItems
           /\ closer' = "reap"
           /\ UNCHANGED <<sessions, archived, metadata, closing, creating, lifecycleMu,
                          metadataSaveMu, deleteInProgress, archive, process, watcher, rows,
                          rowWriter, failures, storeSequence, phase, storeSealed, closeOperation,
                          changes, job, exit, closeItems, deleted, restarts, calls>>
BY DEF TerminateSessions, Typed, ManagerTypes, StoreTypes, Sets, managerVars, entryVars,
    processVars, storeVars, queueVars, closeVars, history

\* Close enters the queue once the watchers are done.
LEMMA EnterStoreCloseEffect ==
    ASSUME Typed, EnterStoreClose
    PROVE  /\ closer = "reap"
           /\ \A t \in closeItems : watcher[t] = "done"
           /\ Queue!Start(closeOperation)
           /\ closer' = "closingStore"
           /\ UNCHANGED <<sessions, archived, metadata, closing, creating, lifecycleMu,
                          metadataSaveMu, deleteInProgress, archive, process, terminated, watcher,
                          rows, rowWriter, failures, changes, job, exit, closeItems, deleted,
                          restarts, calls>>
BY DEF EnterStoreClose, Typed, ManagerTypes, StoreTypes, Sets, managerVars, entryVars,
    processVars, storeVars, queueVars, closeVars, history

\* Close closes the store.
LEMMA CloseStoreEffect ==
    ASSUME Typed, CloseStore
    PROVE  /\ closer = "closingStore"
           /\ Queue!Finish(closeOperation)
           /\ closer' = "closed"
           /\ UNCHANGED <<sessions, archived, metadata, closing, creating, lifecycleMu,
                          metadataSaveMu, deleteInProgress, archive, process, terminated, watcher,
                          rows, rowWriter, failures, changes, job, exit, closeItems, deleted,
                          restarts, calls>>
BY DEF CloseStore, Typed, ManagerTypes, StoreTypes, Sets, managerVars, entryVars,
    processVars, storeVars, queueVars, closeVars, history

\* A restart reads the rows and forgets everything else.
LEMMA RestartEffect ==
    ASSUME Typed, Restart
    PROVE  /\ sessions' = Running(rows)
           /\ archived' = {t \in Terminal : rows[t].state = "exited"}
           /\ metadata' = rows
           /\ ~closing'
           /\ creating' = {}
           /\ deleteInProgress' = {}
           /\ closeItems' = {}
           /\ closer' = "open"
           /\ changes' = <<>>
           /\ storeSequence' = 0 /\ storeSealed' = FALSE /\ closeOperation' = 0
           /\ phase' = [n \in 1..MaxReservations |-> "free"]
           /\ \A c \in Client : job'[c] = Idle
           /\ \A t \in Terminal :
              /\ lifecycleMu'[t] = None /\ metadataSaveMu'[t] = None /\ archive'[t] = "none"
              /\ rowWriter'[t] = 0 /\ exit'[t].ticket = 0 /\ exit'[t].change = 0
              /\ watcher'[t] = (IF t \in sessions' THEN "waiting" ELSE "off")
              /\ process'[t] = IF t \in sessions' THEN "running"
                               ELSE IF process[t] = "absent" THEN "absent"
                               ELSE "exited"
           /\ UNCHANGED <<rows, failures, deleted, calls>>
<1> USE DEF history
<1>1. \A t \in Terminal :
        /\ lifecycleMu'[t] = None /\ metadataSaveMu'[t] = None /\ archive'[t] = "none"
        /\ rowWriter'[t] = 0 /\ exit'[t].ticket = 0 /\ exit'[t].change = 0
        /\ watcher'[t] = (IF t \in sessions' THEN "waiting" ELSE "off")
  BY DEF Restart
<1>2. ASSUME NEW t \in Terminal
      PROVE  process'[t] = IF t \in sessions' THEN "running"
                           ELSE IF process[t] = "absent" THEN "absent"
                           ELSE "exited"
  BY DEF Restart
<1>3. QED
  BY <1>1, <1>2 DEF Restart

-----------------------------------------------------------------------------
(* Who writes what *)

\* Every variable stays as it is, or one of the actions that write it is taken.
LEMMA Writers ==
    ASSUME Typed, [Next]_vars
    PROVE  /\ \/ UNCHANGED sessions
              \/ \E c \in Client : Register(c) \/ RemoveEntry(c) \/ RowNotDeleted(c) \/
                                   ArchiveReaped(c)
              \/ \E t \in Terminal : WatchRemoves(t)
              \/ Restart
           /\ \/ UNCHANGED archived
              \/ \E c \in Client : ArchiveReaped(c)
              \/ \E t \in Terminal : WatchPublishes(t)
              \/ Restart
           /\ \/ UNCHANGED metadata
              \/ \E c \in Client, t \in Terminal : BeginCreate(c, t)
              \/ \E c \in Client, new \in Row : MutatesTo(c, new)
              \/ \E c \in Client : RollBack(c)
              \/ Restart
           /\ \/ UNCHANGED closing
              \/ BeginClose
              \/ Restart
           /\ \/ UNCHANGED creating
              \/ \E c \in Client, t \in Terminal : BeginCreate(c, t)
              \/ \E c \in Client : Discarded(c) \/ Announce(c)
              \/ Restart
           /\ \/ UNCHANGED lifecycleMu
              \/ \E c \in Client, t \in Terminal, o \in {"delete", "archive"} :
                     LockLifecycle(c, t, o)
              \/ \E c \in Client : LifecycleRefused(c) \/ OperationDropped(c) \/ Reaped(c) \/
                                   DeleteFailed(c) \/ ArchiveNotLocked(c) \/
                                   ArchiveSealedOut(c) \/ ArchiveCancelled(c) \/
                                   ArchiveNotSaved(c) \/ ArchiveReaped(c)
              \/ Restart
           /\ \/ UNCHANGED metadataSaveMu
              \/ \E c \in Client, t \in Terminal, o \in {"rename", "updateAgent"} :
                     BeginMutation(c, t, o)
              \/ \E c \in Client : MutationRefused(c) \/ MutationSaved(c) \/
                                   UpdateNotSaved(c) \/ RollBack(c) \/ LockForArchive(c) \/
                                   ArchiveNotLocked(c) \/ ArchiveSealedOut(c) \/
                                   ArchiveCancelled(c) \/ ArchiveNotSaved(c) \/
                                   ArchiveReaped(c)
              \/ Restart
           /\ \/ UNCHANGED deleteInProgress
              \/ \E c \in Client : ClaimDelete(c) \/ OperationDropped(c) \/ Reaped(c) \/
                                   DeleteFailed(c)
              \/ Restart
           /\ \/ UNCHANGED archive
              \/ \E c \in Client : PrepareArchive(c) \/ ArchiveNotLocked(c) \/
                                   ArchiveSealedOut(c) \/ ArchiveCancelled(c) \/
                                   ArchiveNotSaved(c) \/ CommitArchive(c) \/ ArchiveReaped(c)
              \/ Restart
           /\ \/ UNCHANGED process
              \/ \E c \in Client, t \in Terminal : BeginCreate(c, t)
              \/ \E t \in Terminal : ProcessExits(t)
              \/ Restart
           /\ \/ UNCHANGED terminated
              \/ \E c \in Client : CreateSaved(c) \/ CleanedUp(c) \/ RowDeleted(c) \/
                                   RowNotDeleted(c) \/ CommitArchive(c)
              \/ TerminateSessions
              \/ Restart
           /\ \/ UNCHANGED watcher
              \/ \E c \in Client : Announce(c)
              \/ \E t \in Terminal : WatchDefersToArchive(t) \/ WatchArchiveReady(t) \/
                                     WatchStandsBack(t) \/ WatchRemoves(t) \/
                                     WatchEntersPersist(t) \/ WatchSaves(t) \/
                                     WatchRetries(t) \/ WatchPublishes(t)
              \/ Restart
           /\ \/ UNCHANGED rows
              \/ \E c \in Client : CreateSaved(c) \/ CleanedUp(c) \/ MutationSaved(c) \/
                                   UpdateNotSaved(c) \/ RenameNotSaved(c) \/ RowDeleted(c) \/
                                   RowNotDeleted(c) \/ ArchiveSaved(c) \/ ArchiveNotSaved(c)
              \/ \E t \in Terminal : WatchSaves(t)
           /\ \/ UNCHANGED rowWriter
              \/ \E c \in Client : CreateSaved(c) \/ CleanedUp(c) \/ MutationSaved(c) \/
                                   UpdateNotSaved(c) \/ RenameNotSaved(c) \/ RowDeleted(c) \/
                                   RowNotDeleted(c) \/ ArchiveSaved(c) \/ ArchiveNotSaved(c)
              \/ \E t \in Terminal : WatchSaves(t)
              \/ Restart
           /\ \/ UNCHANGED failures
              \/ \E c \in Client : CreateSaved(c) \/ CleanedUp(c) \/ MutationSaved(c) \/
                                   UpdateNotSaved(c) \/ RenameNotSaved(c) \/ RowDeleted(c) \/
                                   RowNotDeleted(c) \/ ArchiveSaved(c) \/ ArchiveNotSaved(c)
              \/ \E t \in Terminal : WatchSaves(t)
           /\ \/ UNCHANGED storeSequence
              \/ \E c \in Client, t \in Terminal : BeginCreate(c, t)
              \/ \E c \in Client : \E from, to : Entering(from, to) /\ EnterPersist(c, from, to)
              \/ \E c \in Client : CreateSaved(c) \/ RegisterRefused(c) \/ CleanedUp(c) \/
                                   MutationSaved(c) \/ UpdateNotSaved(c) \/
                                   RenameNotSaved(c) \/ ClaimDelete(c) \/
                                   OperationDropped(c) \/ Reaped(c) \/ DeleteFailed(c) \/
                                   ReserveArchive(c) \/ ArchiveCancelled(c) \/
                                   ArchiveSaved(c) \/ ArchiveNotSaved(c)
              \/ \E c \in Client, new \in Row : MutatesTo(c, new)
              \/ \E t \in Terminal : WatchRemoves(t) \/ WatchEntersPersist(t) \/
                                     WatchSaves(t) \/ WatchRetries(t)
              \/ SealStore
              \/ EnterStoreClose
              \/ CloseStore
              \/ Restart
           /\ \/ UNCHANGED phase
              \/ \E c \in Client, t \in Terminal : BeginCreate(c, t)
              \/ \E c \in Client : \E from, to : Entering(from, to) /\ EnterPersist(c, from, to)
              \/ \E c \in Client : CreateSaved(c) \/ RegisterRefused(c) \/ CleanedUp(c) \/
                                   MutationSaved(c) \/ UpdateNotSaved(c) \/
                                   RenameNotSaved(c) \/ ClaimDelete(c) \/
                                   OperationDropped(c) \/ Reaped(c) \/ DeleteFailed(c) \/
                                   ReserveArchive(c) \/ ArchiveCancelled(c) \/
                                   ArchiveSaved(c) \/ ArchiveNotSaved(c)
              \/ \E c \in Client, new \in Row : MutatesTo(c, new)
              \/ \E t \in Terminal : WatchRemoves(t) \/ WatchEntersPersist(t) \/
                                     WatchSaves(t) \/ WatchRetries(t)
              \/ SealStore
              \/ EnterStoreClose
              \/ CloseStore
              \/ Restart
           /\ \/ UNCHANGED storeSealed
              \/ \E c \in Client, t \in Terminal : BeginCreate(c, t)
              \/ \E c \in Client : \E from, to : Entering(from, to) /\ EnterPersist(c, from, to)
              \/ \E c \in Client : CreateSaved(c) \/ RegisterRefused(c) \/ CleanedUp(c) \/
                                   MutationSaved(c) \/ UpdateNotSaved(c) \/
                                   RenameNotSaved(c) \/ ClaimDelete(c) \/
                                   OperationDropped(c) \/ Reaped(c) \/ DeleteFailed(c) \/
                                   ReserveArchive(c) \/ ArchiveCancelled(c) \/
                                   ArchiveSaved(c) \/ ArchiveNotSaved(c)
              \/ \E c \in Client, new \in Row : MutatesTo(c, new)
              \/ \E t \in Terminal : WatchRemoves(t) \/ WatchEntersPersist(t) \/
                                     WatchSaves(t) \/ WatchRetries(t)
              \/ SealStore
              \/ EnterStoreClose
              \/ CloseStore
              \/ Restart
           /\ \/ UNCHANGED closeOperation
              \/ \E c \in Client, t \in Terminal : BeginCreate(c, t)
              \/ \E c \in Client : \E from, to : Entering(from, to) /\ EnterPersist(c, from, to)
              \/ \E c \in Client : CreateSaved(c) \/ RegisterRefused(c) \/ CleanedUp(c) \/
                                   MutationSaved(c) \/ UpdateNotSaved(c) \/
                                   RenameNotSaved(c) \/ ClaimDelete(c) \/
                                   OperationDropped(c) \/ Reaped(c) \/ DeleteFailed(c) \/
                                   ReserveArchive(c) \/ ArchiveCancelled(c) \/
                                   ArchiveSaved(c) \/ ArchiveNotSaved(c)
              \/ \E c \in Client, new \in Row : MutatesTo(c, new)
              \/ \E t \in Terminal : WatchRemoves(t) \/ WatchEntersPersist(t) \/
                                     WatchSaves(t) \/ WatchRetries(t)
              \/ SealStore
              \/ EnterStoreClose
              \/ CloseStore
              \/ Restart
           /\ \/ UNCHANGED changes
              \/ \E c \in Client : Announce(c) \/ MutationSaved(c) \/ UpdateNotSaved(c) \/
                                   RollBack(c) \/ RemoveEntry(c) \/ OperationDropped(c) \/
                                   Reaped(c) \/ DeleteFailed(c) \/ ArchiveReaped(c)
              \/ \E c \in Client, new \in Row : MutatesTo(c, new)
              \/ \E t \in Terminal : WatchRemoves(t) \/ WatchPublishes(t)
              \/ Restart
           /\ \/ UNCHANGED job
              \/ \E c \in Client, t \in Terminal : BeginCreate(c, t)
              \/ \E c \in Client : \E from, to : Entering(from, to) /\ EnterPersist(c, from, to)
              \/ \E c \in Client : CreateSaved(c) \/ Register(c) \/ RegisterRefused(c) \/
                                   CleanedUp(c) \/ Discarded(c) \/ Announce(c) \/
                                   MutationRefused(c) \/ MutationSaved(c) \/
                                   UpdateNotSaved(c) \/ RenameNotSaved(c) \/ RollBack(c) \/
                                   ClaimDelete(c) \/ LifecycleRefused(c) \/ RemoveEntry(c) \/
                                   DeleteRefused(c) \/ OperationDropped(c) \/ RowDeleted(c) \/
                                   RowNotDeleted(c) \/ Reaped(c) \/ DeleteFailed(c) \/
                                   PrepareArchive(c) \/ LockForArchive(c) \/
                                   ArchiveNotLocked(c) \/ ReserveArchive(c) \/
                                   ArchiveSealedOut(c) \/ ArchiveCancelled(c) \/
                                   ArchiveSaved(c) \/ ArchiveNotSaved(c) \/ CommitArchive(c) \/
                                   ArchiveReaped(c)
              \/ \E c \in Client, t \in Terminal, o \in {"rename", "updateAgent"} :
                     BeginMutation(c, t, o)
              \/ \E c \in Client, new \in Row : MutatesTo(c, new)
              \/ \E c \in Client, t \in Terminal, o \in {"delete", "archive"} :
                     LockLifecycle(c, t, o)
              \/ Restart
           /\ \/ UNCHANGED exit
              \/ \E t \in Terminal : WatchRemoves(t) \/ WatchRetries(t)
              \/ Restart
           /\ \/ UNCHANGED closer
              \/ BeginClose
              \/ SealStore
              \/ TerminateSessions
              \/ EnterStoreClose
              \/ CloseStore
              \/ Restart
           /\ \/ UNCHANGED closeItems
              \/ SealStore
              \/ Restart
           /\ \/ UNCHANGED deleted
              \/ \E c \in Client : Reaped(c)
           /\ \/ UNCHANGED restarts
              \/ Restart
           /\ \/ UNCHANGED calls
              \/ \E c \in Client, t \in Terminal : BeginCreate(c, t)
              \/ \E c \in Client, t \in Terminal, o \in {"rename", "updateAgent"} :
                     BeginMutation(c, t, o)
              \/ \E c \in Client, t \in Terminal, o \in {"delete", "archive"} :
                     LockLifecycle(c, t, o)
<1>1. CASE \E c \in Client, t \in Terminal : BeginCreate(c, t)
  BY <1>1, BeginCreateEffect
<1>2. CASE \E c \in Client : \E from, to : Entering(from, to) /\ EnterPersist(c, from, to)
  BY <1>2, EnterPersistEffect
<1>3. CASE \E c \in Client : CreateSaved(c)
  BY <1>3, CreateSavedEffect
<1>4. CASE \E c \in Client : Register(c)
  BY <1>4, RegisterEffect
<1>5. CASE \E c \in Client : RegisterRefused(c)
  BY <1>5, RegisterRefusedEffect
<1>6. CASE \E c \in Client : CleanedUp(c)
  BY <1>6, CleanedUpEffect
<1>7. CASE \E c \in Client : Discarded(c)
  BY <1>7, DiscardedEffect
<1>8. CASE \E c \in Client : Announce(c)
  BY <1>8, AnnounceEffect
<1>9. CASE \E c \in Client, t \in Terminal, o \in {"rename", "updateAgent"} :
               BeginMutation(c, t, o)
  BY <1>9, BeginMutationEffect
<1>10. CASE \E c \in Client, new \in Row : MutatesTo(c, new)
  BY <1>10, MutatesToEffect
<1>11. CASE \E c \in Client : MutationRefused(c)
  BY <1>11, MutationRefusedEffect
<1>12. CASE \E c \in Client : MutationSaved(c)
  BY <1>12, MutationSavedEffect
<1>13. CASE \E c \in Client : UpdateNotSaved(c)
  BY <1>13, UpdateNotSavedEffect
<1>14. CASE \E c \in Client : RenameNotSaved(c)
  BY <1>14, RenameNotSavedEffect
<1>15. CASE \E c \in Client : RollBack(c)
  BY <1>15, RollBackEffect
<1>16. CASE \E c \in Client, t \in Terminal, o \in {"delete", "archive"} : LockLifecycle(c, t, o)
  BY <1>16, LockLifecycleEffect
<1>17. CASE \E c \in Client : ClaimDelete(c)
  BY <1>17, ClaimDeleteEffect
<1>18. CASE \E c \in Client : LifecycleRefused(c)
  BY <1>18, LifecycleRefusedEffect
<1>19. CASE \E c \in Client : RemoveEntry(c)
  BY <1>19, RemoveEntryEffect
<1>20. CASE \E c \in Client : DeleteRefused(c)
  BY <1>20, DeleteRefusedEffect
<1>21. CASE \E c \in Client : OperationDropped(c)
  BY <1>21, OperationDroppedEffect
<1>22. CASE \E c \in Client : RowDeleted(c)
  BY <1>22, RowDeletedEffect
<1>23. CASE \E c \in Client : RowNotDeleted(c)
  BY <1>23, RowNotDeletedEffect
<1>24. CASE \E c \in Client : Reaped(c)
  BY <1>24, ReapedEffect
<1>25. CASE \E c \in Client : DeleteFailed(c)
  BY <1>25, DeleteFailedEffect
<1>26. CASE \E c \in Client : PrepareArchive(c)
  BY <1>26, PrepareArchiveEffect
<1>27. CASE \E c \in Client : LockForArchive(c)
  BY <1>27, LockForArchiveEffect
<1>28. CASE \E c \in Client : ArchiveNotLocked(c)
  BY <1>28, ArchiveNotLockedEffect
<1>29. CASE \E c \in Client : ReserveArchive(c)
  BY <1>29, ReserveArchiveEffect
<1>30. CASE \E c \in Client : ArchiveSealedOut(c)
  BY <1>30, ArchiveSealedOutEffect
<1>31. CASE \E c \in Client : ArchiveCancelled(c)
  BY <1>31, ArchiveCancelledEffect
<1>32. CASE \E c \in Client : ArchiveSaved(c)
  BY <1>32, ArchiveSavedEffect
<1>33. CASE \E c \in Client : ArchiveNotSaved(c)
  BY <1>33, ArchiveNotSavedEffect
<1>34. CASE \E c \in Client : CommitArchive(c)
  BY <1>34, CommitArchiveEffect
<1>35. CASE \E c \in Client : ArchiveReaped(c)
  BY <1>35, ArchiveReapedEffect
<1>36. CASE \E t \in Terminal : ProcessExits(t)
  BY <1>36, ProcessExitsEffect
<1>37. CASE \E t \in Terminal : WatchDefersToArchive(t)
  BY <1>37, WatchDefersToArchiveEffect
<1>38. CASE \E t \in Terminal : WatchArchiveReady(t)
  BY <1>38, WatchArchiveReadyEffect
<1>39. CASE \E t \in Terminal : WatchStandsBack(t)
  BY <1>39, WatchStandsBackEffect
<1>40. CASE \E t \in Terminal : WatchRemoves(t)
  BY <1>40, WatchRemovesEffect
<1>41. CASE \E t \in Terminal : WatchEntersPersist(t)
  BY <1>41, WatchEntersPersistEffect
<1>42. CASE \E t \in Terminal : WatchSaves(t)
  BY <1>42, WatchSavesEffect
<1>43. CASE \E t \in Terminal : WatchRetries(t)
  BY <1>43, WatchRetriesEffect
<1>44. CASE \E t \in Terminal : WatchPublishes(t)
  BY <1>44, WatchPublishesEffect
<1>45. CASE BeginClose
  BY <1>45, BeginCloseEffect
<1>46. CASE SealStore
  BY <1>46, SealStoreEffect
<1>47. CASE TerminateSessions
  BY <1>47, TerminateSessionsEffect
<1>48. CASE EnterStoreClose
  BY <1>48, EnterStoreCloseEffect
<1>49. CASE CloseStore
  BY <1>49, CloseStoreEffect
<1>50. CASE Restart
  BY <1>50, RestartEffect
<1>51. CASE UNCHANGED vars
  BY <1>51 DEF vars, managerVars, entryVars, processVars, storeVars, queueVars, closeVars, history
<1>52. QED
  BY Mutates, <1>1, <1>2, <1>3, <1>4, <1>5, <1>6, <1>7, <1>8, <1>9, <1>10, <1>11, <1>12, <1>13,
     <1>14, <1>15, <1>16, <1>17, <1>18, <1>19, <1>20, <1>21, <1>22, <1>23, <1>24,
     <1>25, <1>26, <1>27, <1>28, <1>29, <1>30, <1>31, <1>32, <1>33, <1>34, <1>35,
     <1>36, <1>37, <1>38, <1>39, <1>40, <1>41, <1>42, <1>43, <1>44, <1>45, <1>46,
     <1>47, <1>48, <1>49, <1>50, <1>51
  DEF Typed, Next, Call, Create, Mutation, Delete, Archive, Watch, FinishClose,
      Entering

-----------------------------------------------------------------------------
(* Types are kept *)

\* The queue keeps its types.
LEMMA QueueTypesStep ==
    ASSUME Typed, [Next]_vars
    PROVE  Queue!QueueTypeOK'
<1>1. CASE \E c \in Client, t \in Terminal : BeginCreate(c, t)
  BY <1>1, BeginCreateEffect, QReserve DEF Typed
<1>2. CASE \E c \in Client : \E from, to : Entering(from, to) /\ EnterPersist(c, from, to)
  BY <1>2, EnterPersistEffect, QStart DEF Typed
<1>3. CASE \E c \in Client : CreateSaved(c)
  BY <1>3, CreateSavedEffect, QFinish DEF Typed
<1>4. CASE \E c \in Client : RegisterRefused(c)
  BY <1>4, RegisterRefusedEffect, QReserve DEF Typed
<1>5. CASE \E c \in Client : CleanedUp(c)
  BY <1>5, CleanedUpEffect, QFinish DEF Typed
<1>6. CASE \E c \in Client, new \in Row : MutatesTo(c, new)
  BY <1>6, MutatesToEffect, QReserve DEF Typed
<1>7. CASE \E c \in Client : MutationSaved(c)
  BY <1>7, MutationSavedEffect, QFinish DEF Typed
<1>8. CASE \E c \in Client : UpdateNotSaved(c)
  BY <1>8, UpdateNotSavedEffect, QFinish DEF Typed
<1>9. CASE \E c \in Client : RenameNotSaved(c)
  BY <1>9, RenameNotSavedEffect, QFinish DEF Typed
<1>10. CASE \E c \in Client : ClaimDelete(c)
  BY <1>10, ClaimDeleteEffect, QReserve DEF Typed
<1>11. CASE \E c \in Client : OperationDropped(c)
  BY <1>11, OperationDroppedEffect, QFinish DEF Typed
<1>12. CASE \E c \in Client : Reaped(c)
  BY <1>12, ReapedEffect, QFinish DEF Typed
<1>13. CASE \E c \in Client : DeleteFailed(c)
  BY <1>13, DeleteFailedEffect, QFinish DEF Typed
<1>14. CASE \E c \in Client : ReserveArchive(c)
  BY <1>14, ReserveArchiveEffect, QReserve DEF Typed
<1>15. CASE \E c \in Client : ArchiveCancelled(c)
  BY <1>15, ArchiveCancelledEffect, QCancel DEF Typed
<1>16. CASE \E c \in Client : ArchiveSaved(c)
  BY <1>16, ArchiveSavedEffect, QFinish DEF Typed
<1>17. CASE \E c \in Client : ArchiveNotSaved(c)
  BY <1>17, ArchiveNotSavedEffect, QFinish DEF Typed
<1>18. CASE \E t \in Terminal : WatchRemoves(t)
  BY <1>18, WatchRemovesEffect, QReserve DEF Typed
<1>19. CASE \E t \in Terminal : WatchEntersPersist(t)
  BY <1>19, WatchEntersPersistEffect, QStart DEF Typed
<1>20. CASE \E t \in Terminal : WatchSaves(t)
  BY <1>20, WatchSavesEffect, QFinish DEF Typed
<1>21. ASSUME NEW t \in Terminal, WatchRetries(t)
      PROVE  Queue!QueueTypeOK'
  BY <1>21, WatchRetriesEffect, QReserve DEF TriesAgain, Typed, Queue!QueueTypeOK, queueVars
<1>22. CASE SealStore
  BY <1>22, SealStoreEffect, QSeal DEF Typed
<1>23. CASE EnterStoreClose
  BY <1>23, EnterStoreCloseEffect, QStart DEF Typed
<1>24. CASE CloseStore
  BY <1>24, CloseStoreEffect, QFinish DEF Typed
<1>25. ASSUME Restart
      PROVE  Queue!QueueTypeOK'
  <2>1. 0 \in 0..MaxReservations
    BY LifecycleAssumption DEF LifecycleAssumption
  <2>2. /\ phase' = [n \in 1..MaxReservations |-> "free"]
        /\ storeSequence' = 0 /\ storeSealed' = FALSE /\ closeOperation' = 0
    BY <1>25 DEF Restart
  <2>3. \A n \in Queue!Operation : phase'[n] = "free" /\ n > storeSequence'
    BY <2>2, LifecycleAssumption DEF Queue!Operation, LifecycleAssumption
  <2>4. phase' \in [Queue!Operation -> Queue!Phase]
    BY <2>2 DEF Queue!Operation, Queue!Phase
  <2> QED
    BY <2>1, <2>2, <2>3, <2>4 DEF Queue!QueueTypeOK
<1>26. CASE UNCHANGED <<storeSequence, phase, storeSealed, closeOperation>>
  BY <1>26 DEF Typed, Queue!QueueTypeOK
<1>27. QED
  BY Writers, <1>1, <1>2, <1>3, <1>4, <1>5, <1>6, <1>7, <1>8, <1>9, <1>10, <1>11, <1>12, <1>13,
     <1>14, <1>15, <1>16, <1>17, <1>18, <1>19, <1>20, <1>21, <1>22, <1>23, <1>24,
     <1>25, <1>26

\* Change numbers are never taken back.
LEMMA ChangesStep ==
    ASSUME Typed, [Next]_vars
    PROVE  ChangeTypes' /\ (Restart \/ Len(changes) <= Len(changes'))
<1>1. CASE \E c \in Client : Announce(c)
  BY <1>1, AnnounceEffect DEF Grows, Typed, ChangeTypes
<1>2. ASSUME NEW c \in Client, NEW new \in Row, MutatesTo(c, new)
      PROVE  ChangeTypes' /\ (Restart \/ Len(changes) <= Len(changes'))
  <2>1. Numbers(c, new)
    BY <1>2, MutatesToEffect
  <2>2. CASE new = metadata[job[c].id]
    BY <2>1, <2>2 DEF Numbers, Typed, ChangeTypes
  <2>3. CASE new # metadata[job[c].id]
    BY <2>1, <2>3 DEF Numbers, Grows
  <2>4. QED
    BY <2>2, <2>3
<1>3. CASE \E c \in Client : MutationSaved(c)
  BY <1>3, MutationSavedEffect DEF Settles, Typed, ChangeTypes
<1>4. CASE \E c \in Client : UpdateNotSaved(c)
  BY <1>4, UpdateNotSavedEffect DEF Settles, Typed, ChangeTypes
<1>5. CASE \E c \in Client : RollBack(c)
  BY <1>5, RollBackEffect DEF Settles, Typed, ChangeTypes
<1>6. CASE \E c \in Client : RemoveEntry(c)
  BY <1>6, RemoveEntryEffect DEF Grows, Typed, ChangeTypes
<1>7. CASE \E c \in Client : OperationDropped(c)
  BY <1>7, OperationDroppedEffect DEF Settles, Typed, ChangeTypes
<1>8. CASE \E c \in Client : Reaped(c)
  BY <1>8, ReapedEffect DEF Settles, Typed, ChangeTypes
<1>9. CASE \E c \in Client : DeleteFailed(c)
  BY <1>9, DeleteFailedEffect DEF Settles, Typed, ChangeTypes
<1>10. CASE \E c \in Client : ArchiveReaped(c)
  BY <1>10, ArchiveReapedEffect DEF Grows, Typed, ChangeTypes
<1>11. CASE \E t \in Terminal : WatchRemoves(t)
  BY <1>11, WatchRemovesEffect DEF Grows, Typed, ChangeTypes
<1>12. CASE \E t \in Terminal : WatchPublishes(t)
  BY <1>12, WatchPublishesEffect DEF Settles, Typed, ChangeTypes
<1>13. ASSUME Restart
      PROVE  ChangeTypes' /\ (Restart \/ Len(changes) <= Len(changes'))
  BY <1>13, RestartEffect DEF ChangeTypes
<1>14. CASE UNCHANGED <<changes>>
  BY <1>14 DEF Typed, ChangeTypes
<1>15. QED
  BY Writers, <1>1, <1>2, <1>3, <1>4, <1>5, <1>6, <1>7, <1>8, <1>9, <1>10, <1>11, <1>12, <1>13,
     <1>14

\* The rows keep their types.
LEMMA StoreTypesStep ==
    ASSUME Typed, [Next]_vars
    PROVE  StoreTypes'
<1>1. ASSUME NEW c \in Client, CreateSaved(c)
      PROVE  StoreTypes'
  BY <1>1, CreateSavedEffect, Fields, RowsTyped, WriteTyped, FailTyped
  DEF CreateSaved, Typed
<1>2. ASSUME NEW c \in Client, CleanedUp(c)
      PROVE  StoreTypes'
  BY <1>2, CleanedUpEffect, Fields, RowsTyped, WriteTyped, FailTyped
  DEF CleanedUp, Typed
<1>3. ASSUME NEW c \in Client, MutationSaved(c)
      PROVE  StoreTypes'
  BY <1>3, MutationSavedEffect, Fields, RowsTyped, WriteTyped, FailTyped
  DEF MutationSaved, Typed
<1>4. ASSUME NEW c \in Client, UpdateNotSaved(c)
      PROVE  StoreTypes'
  BY <1>4, UpdateNotSavedEffect, Fields, RowsTyped, WriteTyped, FailTyped
  DEF UpdateNotSaved, Typed
<1>5. ASSUME NEW c \in Client, RenameNotSaved(c)
      PROVE  StoreTypes'
  BY <1>5, RenameNotSavedEffect, Fields, RowsTyped, WriteTyped, FailTyped
  DEF RenameNotSaved, Typed
<1>6. ASSUME NEW c \in Client, RowDeleted(c)
      PROVE  StoreTypes'
  BY <1>6, RowDeletedEffect, Fields, RowsTyped, WriteTyped, FailTyped
  DEF RowDeleted, Typed
<1>7. ASSUME NEW c \in Client, RowNotDeleted(c)
      PROVE  StoreTypes'
  BY <1>7, RowNotDeletedEffect, Fields, RowsTyped, WriteTyped, FailTyped
  DEF RowNotDeleted, Typed
<1>8. ASSUME NEW c \in Client, ArchiveSaved(c)
      PROVE  StoreTypes'
  BY <1>8, ArchiveSavedEffect, Fields, RowsTyped, WriteTyped, FailTyped
  DEF ArchiveSaved, Typed
<1>9. ASSUME NEW c \in Client, ArchiveNotSaved(c)
      PROVE  StoreTypes'
  BY <1>9, ArchiveNotSavedEffect, Fields, RowsTyped, WriteTyped, FailTyped
  DEF ArchiveNotSaved, Typed
<1>10. ASSUME NEW t \in Terminal, WatchSaves(t)
      PROVE  StoreTypes'
  BY <1>10, ExitFields, RowsTyped, WriteTyped, FailTyped
  DEF WatchSaves, Typed, ManagerTypes
<1>11. ASSUME Restart
      PROVE  StoreTypes'
  <2>1. 0 \in 0..MaxReservations
    BY LifecycleAssumption DEF LifecycleAssumption
  <2>2. UNCHANGED <<rows, failures>> /\ rowWriter' = [t \in Terminal |-> 0]
    BY <1>11 DEF Restart
  <2> QED
    BY <2>1, <2>2 DEF Typed, StoreTypes
<1>12. CASE UNCHANGED <<rows, rowWriter, failures>>
  BY <1>12 DEF Typed, StoreTypes
<1>13. QED
  BY Writers, <1>1, <1>2, <1>3, <1>4, <1>5, <1>6, <1>7, <1>8, <1>9, <1>10, <1>11, <1>12

\* The history variables keep their types.
LEMMA HistoryTypesStep ==
    ASSUME Typed, [Next]_vars
    PROVE  HistoryTypes'
<1>1. ASSUME NEW c \in Client, NEW t \in Terminal, BeginCreate(c, t)
      PROVE  HistoryTypes'
  BY <1>1, BeginCreateEffect, LifecycleAssumption DEF Typed, HistoryTypes, LifecycleAssumption
<1>2. ASSUME NEW c \in Client, NEW t \in Terminal, NEW o \in {"rename", "updateAgent"},
               BeginMutation(c, t, o)
      PROVE  HistoryTypes'
  BY <1>2, BeginMutationEffect, LifecycleAssumption DEF Typed, HistoryTypes, LifecycleAssumption
<1>3. ASSUME NEW c \in Client, NEW t \in Terminal, NEW o \in {"delete", "archive"},
               LockLifecycle(c, t, o)
      PROVE  HistoryTypes'
  BY <1>3, LockLifecycleEffect, LifecycleAssumption DEF Typed, HistoryTypes, LifecycleAssumption
<1>4. ASSUME NEW c \in Client, Reaped(c)
      PROVE  HistoryTypes'
  BY <1>4, ReapedEffect, LifecycleAssumption DEF Typed, HistoryTypes, LifecycleAssumption
<1>5. ASSUME Restart
      PROVE  HistoryTypes'
  BY <1>5, LifecycleAssumption DEF Restart, Typed, HistoryTypes, LifecycleAssumption
<1>6. CASE UNCHANGED <<deleted, restarts, calls>>
  BY <1>6 DEF Typed, HistoryTypes
<1>7. QED
  BY Writers, <1>1, <1>2, <1>3, <1>4, <1>5, <1>6

\* What Manager.mu guards keeps its types.
LEMMA ManagerTypesStep ==
    ASSUME Typed, [Next]_vars
    PROVE  ManagerTypes'
<1>1. ASSUME NEW c \in Client, NEW t \in Terminal, BeginCreate(c, t)
      PROVE  ManagerTypes'
  BY <1>1, BeginCreateEffect, RowsTyped
  DEF BeginCreate, BeginCall, Typed, ManagerTypes, managerVars, entryVars, processVars,
      storeVars, queueVars, closeVars, history
<1>2. ASSUME NEW c \in Client, CreateSaved(c)
      PROVE  ManagerTypes'
  BY <1>2, CreateSavedEffect
  DEF CreateSaved, Typed, ManagerTypes, managerVars, entryVars, processVars, storeVars,
      queueVars, closeVars, history
<1>3. ASSUME NEW c \in Client, Register(c)
      PROVE  ManagerTypes'
  BY <1>3, RegisterEffect
  DEF Register, Typed, ManagerTypes, managerVars, entryVars, processVars, storeVars,
      queueVars, closeVars, history
<1>4. ASSUME NEW c \in Client, CleanedUp(c)
      PROVE  ManagerTypes'
  BY <1>4, CleanedUpEffect
  DEF CleanedUp, Typed, ManagerTypes, managerVars, entryVars, processVars, storeVars,
      queueVars, closeVars, history
<1>5. ASSUME NEW c \in Client, Discarded(c)
      PROVE  ManagerTypes'
  BY <1>5, DiscardedEffect
  DEF Discarded, Typed, ManagerTypes, managerVars, entryVars, processVars, storeVars,
      queueVars, closeVars, history
<1>6. ASSUME NEW c \in Client, Announce(c)
      PROVE  ManagerTypes'
  BY <1>6, AnnounceEffect
  DEF Announce, Typed, ManagerTypes, managerVars, entryVars, processVars, storeVars,
      queueVars, closeVars, history
<1>7. ASSUME NEW c \in Client, NEW t \in Terminal, NEW o \in {"rename", "updateAgent"},
               BeginMutation(c, t, o)
      PROVE  ManagerTypes'
  BY <1>7, BeginMutationEffect
  DEF BeginMutation, BeginCall, Typed, ManagerTypes, managerVars, entryVars,
      processVars, storeVars, queueVars, closeVars, history
<1>8. ASSUME NEW c \in Client, NEW new \in Row, MutatesTo(c, new)
      PROVE  ManagerTypes'
  BY <1>8, MutatesToEffect
  DEF MutatesTo, Mutate, StillRegistered, Typed, ManagerTypes, managerVars, entryVars,
      processVars, storeVars, queueVars, closeVars, history
<1>9. ASSUME NEW c \in Client, MutationRefused(c)
      PROVE  ManagerTypes'
  BY <1>9, MutationRefusedEffect
  DEF MutationRefused, StillRegistered, Release, Typed, ManagerTypes, managerVars,
      entryVars, processVars, storeVars, queueVars, closeVars, history
<1>10. ASSUME NEW c \in Client, MutationSaved(c)
      PROVE  ManagerTypes'
  BY <1>10, MutationSavedEffect
  DEF MutationSaved, Release, Typed, ManagerTypes, managerVars, entryVars, processVars,
      storeVars, queueVars, closeVars, history
<1>11. ASSUME NEW c \in Client, UpdateNotSaved(c)
      PROVE  ManagerTypes'
  BY <1>11, UpdateNotSavedEffect
  DEF UpdateNotSaved, Release, Typed, ManagerTypes, managerVars, entryVars,
      processVars, storeVars, queueVars, closeVars, history
<1>12. ASSUME NEW c \in Client, RollBack(c)
      PROVE  ManagerTypes'
  <2>1. job[c].before \in Row /\ metadata[job[c].id] \in Row
    BY <1>12, RollBackEffect, Fields DEF Typed, ManagerTypes
  <2>2. [metadata[job[c].id] EXCEPT !.name = job[c].before.name] \in Row
    BY <2>1 DEF Row
  <2>3. NameRestored(c) \in [Terminal -> Row]
    BY <2>2 DEF NameRestored, Typed, ManagerTypes
  <2>4. QED
    BY <1>12, <2>3, RollBackEffect DEF RollBack, Release, Typed, ManagerTypes
<1>13. ASSUME NEW c \in Client, NEW t \in Terminal, NEW o \in {"delete", "archive"},
               LockLifecycle(c, t, o)
      PROVE  ManagerTypes'
  BY <1>13, LockLifecycleEffect
  DEF LockLifecycle, BeginCall, Typed, ManagerTypes, managerVars, entryVars,
      processVars, storeVars, queueVars, closeVars, history
<1>14. ASSUME NEW c \in Client, ClaimDelete(c)
      PROVE  ManagerTypes'
  BY <1>14, ClaimDeleteEffect
  DEF ClaimDelete, StillRegistered, ArchiveInProgress, Typed, ManagerTypes,
      managerVars, entryVars, processVars, storeVars, queueVars, closeVars, history
<1>15. ASSUME NEW c \in Client, LifecycleRefused(c)
      PROVE  ManagerTypes'
  BY <1>15, LifecycleRefusedEffect
  DEF LifecycleRefused, StillRegistered, Release, Typed, ManagerTypes, managerVars,
      entryVars, processVars, storeVars, queueVars, closeVars, history
<1>16. ASSUME NEW c \in Client, RemoveEntry(c)
      PROVE  ManagerTypes'
  BY <1>16, RemoveEntryEffect
  DEF RemoveEntry, StillRegistered, Typed, ManagerTypes, managerVars, entryVars,
      processVars, storeVars, queueVars, closeVars, history
<1>17. ASSUME NEW c \in Client, OperationDropped(c)
      PROVE  ManagerTypes'
  BY <1>17, OperationDroppedEffect
  DEF OperationDropped, FinishDelete, Release, Typed, ManagerTypes, managerVars,
      entryVars, processVars, storeVars, queueVars, closeVars, history
<1>18. ASSUME NEW c \in Client, RowDeleted(c)
      PROVE  ManagerTypes'
  BY <1>18, RowDeletedEffect
  DEF RowDeleted, Typed, ManagerTypes, managerVars, entryVars, processVars, storeVars,
      queueVars, closeVars, history
<1>19. ASSUME NEW c \in Client, RowNotDeleted(c)
      PROVE  ManagerTypes'
  BY <1>19, RowNotDeletedEffect
  DEF RowNotDeleted, Typed, ManagerTypes, managerVars, entryVars, processVars,
      storeVars, queueVars, closeVars, history
<1>20. ASSUME NEW c \in Client, Reaped(c)
      PROVE  ManagerTypes'
  BY <1>20, ReapedEffect
  DEF Reaped, FinishDelete, Release, Typed, ManagerTypes, managerVars, entryVars,
      processVars, storeVars, queueVars, closeVars, history
<1>21. ASSUME NEW c \in Client, DeleteFailed(c)
      PROVE  ManagerTypes'
  BY <1>21, DeleteFailedEffect
  DEF DeleteFailed, FinishDelete, Release, Typed, ManagerTypes, managerVars, entryVars,
      processVars, storeVars, queueVars, closeVars, history
<1>22. ASSUME NEW c \in Client, PrepareArchive(c)
      PROVE  ManagerTypes'
  BY <1>22, PrepareArchiveEffect
  DEF PrepareArchive, StillRegistered, Typed, ManagerTypes, managerVars, entryVars,
      processVars, storeVars, queueVars, closeVars, history
<1>23. ASSUME NEW c \in Client, LockForArchive(c)
      PROVE  ManagerTypes'
  BY <1>23, LockForArchiveEffect
  DEF LockForArchive, StillRegistered, Typed, ManagerTypes, managerVars, entryVars,
      processVars, storeVars, queueVars, closeVars, history
<1>24. ASSUME NEW c \in Client, ArchiveNotLocked(c)
      PROVE  ManagerTypes'
  BY <1>24, ArchiveNotLockedEffect
  DEF ArchiveNotLocked, StillRegistered, AbandonArchive, Release, Typed, ManagerTypes,
      managerVars, entryVars, processVars, storeVars, queueVars, closeVars, history
<1>25. ASSUME NEW c \in Client, ArchiveSealedOut(c)
      PROVE  ManagerTypes'
  BY <1>25, ArchiveSealedOutEffect
  DEF ArchiveSealedOut, AbandonArchive, Release, Typed, ManagerTypes, managerVars,
      entryVars, processVars, storeVars, queueVars, closeVars, history
<1>26. ASSUME NEW c \in Client, ArchiveCancelled(c)
      PROVE  ManagerTypes'
  BY <1>26, ArchiveCancelledEffect
  DEF ArchiveCancelled, AbandonArchive, Release, Typed, ManagerTypes, managerVars,
      entryVars, processVars, storeVars, queueVars, closeVars, history
<1>27. ASSUME NEW c \in Client, ArchiveNotSaved(c)
      PROVE  ManagerTypes'
  BY <1>27, ArchiveNotSavedEffect
  DEF ArchiveNotSaved, AbandonArchive, Release, Typed, ManagerTypes, managerVars,
      entryVars, processVars, storeVars, queueVars, closeVars, history
<1>28. ASSUME NEW c \in Client, CommitArchive(c)
      PROVE  ManagerTypes'
  BY <1>28, CommitArchiveEffect
  DEF CommitArchive, Typed, ManagerTypes, managerVars, entryVars, processVars,
      storeVars, queueVars, closeVars, history
<1>29. ASSUME NEW c \in Client, ArchiveReaped(c)
      PROVE  ManagerTypes'
  BY <1>29, ArchiveReapedEffect
  DEF ArchiveReaped, Release, Typed, ManagerTypes, managerVars, entryVars, processVars,
      storeVars, queueVars, closeVars, history
<1>30. ASSUME NEW t \in Terminal, ProcessExits(t)
      PROVE  ManagerTypes'
  BY <1>30
  DEF ProcessExits, Typed, ManagerTypes, managerVars, entryVars, processVars,
      storeVars, queueVars, closeVars, history
<1>31. ASSUME NEW t \in Terminal, WatchDefersToArchive(t)
      PROVE  ManagerTypes'
  BY <1>31
  DEF WatchDefersToArchive, ArchiveInProgress, WatcherMoves, Typed, ManagerTypes,
      managerVars, entryVars, processVars, storeVars, queueVars, closeVars, history
<1>32. ASSUME NEW t \in Terminal, WatchArchiveReady(t)
      PROVE  ManagerTypes'
  BY <1>32
  DEF WatchArchiveReady, WatcherMoves, AfterArchive, Typed, ManagerTypes, managerVars,
      entryVars, processVars, storeVars, queueVars, closeVars, history
<1>33. ASSUME NEW t \in Terminal, WatchStandsBack(t)
      PROVE  ManagerTypes'
  BY <1>33
  DEF WatchStandsBack, ArchiveInProgress, ExitExpected, WatcherMoves, Typed,
      ManagerTypes, managerVars, entryVars, processVars, storeVars, queueVars,
      closeVars, history
<1>34. ASSUME NEW t \in Terminal, WatchRemoves(t)
      PROVE  ManagerTypes'
  BY <1>34
  DEF WatchRemoves, ArchiveInProgress, ExitExpected, WatcherMoves, Typed, ManagerTypes,
      managerVars, entryVars, processVars, storeVars, queueVars, closeVars, history
<1>35. ASSUME NEW t \in Terminal, WatchEntersPersist(t)
      PROVE  ManagerTypes'
  BY <1>35
  DEF WatchEntersPersist, WatcherMoves, Typed, ManagerTypes, managerVars, entryVars,
      processVars, storeVars, queueVars, closeVars, history
<1>36. ASSUME NEW t \in Terminal, WatchSaves(t)
      PROVE  ManagerTypes'
  BY <1>36
  DEF WatchSaves, WatcherMoves, AfterFailedSave, Typed, ManagerTypes, managerVars,
      entryVars, processVars, storeVars, queueVars, closeVars, history
<1>37. ASSUME NEW t \in Terminal, WatchRetries(t)
      PROVE  ManagerTypes'
  BY <1>37
  DEF WatchRetries, WatcherMoves, Typed, ManagerTypes, managerVars, entryVars,
      processVars, storeVars, queueVars, closeVars, history
<1>38. ASSUME NEW t \in Terminal, WatchPublishes(t)
      PROVE  ManagerTypes'
  BY <1>38
  DEF WatchPublishes, WatcherMoves, Typed, ManagerTypes, managerVars, entryVars,
      processVars, storeVars, queueVars, closeVars, history
<1>39. ASSUME BeginClose
      PROVE  ManagerTypes'
  BY <1>39
  DEF BeginClose, Typed, ManagerTypes, managerVars, entryVars, processVars, storeVars,
      queueVars, closeVars, history
<1>40. ASSUME SealStore
      PROVE  ManagerTypes'
  BY <1>40
  DEF SealStore, CreatesDone, Typed, ManagerTypes, managerVars, entryVars, processVars,
      storeVars, queueVars, closeVars, history
<1>41. ASSUME TerminateSessions
      PROVE  ManagerTypes'
  BY <1>41
  DEF TerminateSessions, Typed, ManagerTypes, managerVars, entryVars, processVars,
      storeVars, queueVars, closeVars, history
<1>42. ASSUME EnterStoreClose
      PROVE  ManagerTypes'
  BY <1>42
  DEF EnterStoreClose, Typed, ManagerTypes, managerVars, entryVars, processVars,
      storeVars, queueVars, closeVars, history
<1>43. ASSUME CloseStore
      PROVE  ManagerTypes'
  BY <1>43
  DEF CloseStore, Typed, ManagerTypes, managerVars, entryVars, processVars, storeVars,
      queueVars, closeVars, history
<1>44. ASSUME Restart
      PROVE  ManagerTypes'
  BY <1>44, RowsTyped
  DEF Restart, Running, Typed, ManagerTypes, StoreTypes, managerVars, entryVars,
      processVars, storeVars, queueVars, closeVars, history
<1>45. CASE UNCHANGED <<sessions, archived, metadata, closing, creating, deleteInProgress,
                         lifecycleMu, metadataSaveMu, archive, process, terminated, watcher,
                         closer, closeItems>>
  BY <1>45 DEF Typed, ManagerTypes
<1>46. QED
  BY Writers, <1>1, <1>2, <1>3, <1>4, <1>5, <1>6, <1>7, <1>8, <1>9, <1>10, <1>11, <1>12, <1>13,
     <1>14, <1>15, <1>16, <1>17, <1>18, <1>19, <1>20, <1>21, <1>22, <1>23, <1>24,
     <1>25, <1>26, <1>27, <1>28, <1>29, <1>30, <1>31, <1>32, <1>33, <1>34, <1>35,
     <1>36, <1>37, <1>38, <1>39, <1>40, <1>41, <1>42, <1>43, <1>44, <1>45

\* The control states the steps name are control states.
LEMMA States ==
    /\ {"createSave", "createSaving", "register", "announce", "cleanup", "cleaningUp",
        "discard", "rename", "updateAgent", "renameSave", "renameSaving", "updateSave",
        "updateSaving", "rollback"} \subseteq JobState
    /\ {"delete", "remove", "dropOperation", "droppingOperation", "deleteRow", "deletingRow",
        "reap", "reapFailed", "deleteFailed"} \subseteq JobState
    /\ {"archive", "archiveLock", "archiveReserve", "archiveSave", "archiveSaving",
        "archiveCommit", "archiveReap"} \subseteq JobState
BY DEF JobState

\* What the goroutines hold stays within the change numbers drawn.
LEMMA StaysTyped ==
    ASSUME Typed, [Next]_vars, ~Restart
    PROVE  /\ job \in [Client -> JobRecord(Len(changes'))]
           /\ exit \in [Terminal -> ExitRecord(Len(changes'))]
           /\ Len(changes') \in Nat /\ Len(changes) <= Len(changes') /\ Len(changes) \in Nat
<1>1. Len(changes') \in Nat /\ Len(changes) <= Len(changes') /\ Len(changes) \in Nat
  BY ChangesStep DEF Typed, ChangeTypes
<1>2. QED
  BY <1>1, Widen DEF Typed, JobTypes, ExitTypes

\* The local state of the calls keeps its types.
LEMMA JobTypesStep ==
    ASSUME Typed, [Next]_vars
    PROVE  JobTypes'
<1>a. Restart => JobTypes'
  <2> SUFFICES ASSUME Restart PROVE JobTypes'
    OBVIOUS
  <2>1. changes' = <<>> /\ Len(changes') = 0
    BY RestartEffect
  <2>2. QED
    BY <2>1, IdleTyped DEF Restart, JobTypes
<1> SUFFICES ASSUME ~Restart PROVE JobTypes'
  BY <1>a
<1>b. /\ job \in [Client -> JobRecord(Len(changes'))]
      /\ exit \in [Terminal -> ExitRecord(Len(changes'))]
      /\ Len(changes') \in Nat /\ Len(changes) <= Len(changes') /\ Len(changes) \in Nat
  BY StaysTyped
<1>1. ASSUME NEW c \in Client, NEW t \in Terminal, BeginCreate(c, t)
      PROVE  JobTypes'
  <2>1. /\ {"createSave"} \subseteq JobState
        /\ job[c] \in JobRecord(Len(changes'))
        /\ storeSequence' \in 0..MaxReservations
        /\ t \in Terminal
    BY <1>b, <1>1, QReserve DEF JobState, BeginCreate, Typed
  <2>2. QED
    BY <1>b, <1>1, <2>1, RowsTyped, IdleTyped
    DEF BeginCreate, BeginCall, JobTypes, JobRecord, Idle, NoRow
<1>2. ASSUME NEW c \in Client, NEW from, NEW to, Entering(from, to),
               EnterPersist(c, from, to)
      PROVE  JobTypes'
  <2>1. to \in JobState
    BY <1>2, States DEF Entering
  <2>2. job' = [job EXCEPT ![c].pc = to]
    BY <1>2 DEF EnterPersist
  <2>3. QED
    BY <1>b, <1>2, <2>1, <2>2 DEF JobTypes, JobRecord
<1>3. ASSUME NEW c \in Client, CreateSaved(c)
      PROVE  JobTypes'
  <2>1. {"discard", "register"} \subseteq JobState
    BY DEF JobState
  <2>2. PICK pc \in {"discard", "register"} : job' = [job EXCEPT ![c].pc = pc]
    BY <1>3 DEF CreateSaved
  <2>3. QED
    BY <1>b, <2>1, <2>2 DEF JobTypes, JobRecord
<1>4. ASSUME NEW c \in Client, Register(c)
      PROVE  JobTypes'
  BY <1>b, <1>4, RegisterEffect, States
  DEF Register, JobTypes, JobRecord
<1>5. ASSUME NEW c \in Client, RegisterRefused(c)
      PROVE  JobTypes'
  <2>1. /\ {"cleanup"} \subseteq JobState
        /\ job[c] \in JobRecord(Len(changes'))
        /\ storeSequence' \in 0..MaxReservations
    BY <1>b, <1>5, QReserve DEF JobState, RegisterRefused, Typed
  <2>2. QED
    BY <1>b, <1>5, <2>1
    DEF RegisterRefused, JobTypes, JobRecord
<1>6. ASSUME NEW c \in Client, CleanedUp(c)
      PROVE  JobTypes'
  <2>1. /\ {"discard"} \subseteq JobState
        /\ job[c] \in JobRecord(Len(changes'))
    BY <1>b, <1>6 DEF JobState
  <2>2. QED
    BY <1>b, <1>6, <2>1
    DEF CleanedUp, JobTypes, JobRecord
<1>7. ASSUME NEW c \in Client, Discarded(c)
      PROVE  JobTypes'
  BY <1>b, <1>7, DiscardedEffect, IdleTyped
  DEF Discarded, JobTypes
<1>8. ASSUME NEW c \in Client, Announce(c)
      PROVE  JobTypes'
  BY <1>b, <1>8, AnnounceEffect, IdleTyped
  DEF Announce, JobTypes
<1>9. ASSUME NEW c \in Client, NEW t \in Terminal, NEW o \in {"rename", "updateAgent"},
               BeginMutation(c, t, o)
      PROVE  JobTypes'
  <2>1. /\ {"archive", "delete", "rename", "updateAgent"} \subseteq JobState
        /\ job[c] \in JobRecord(Len(changes'))
        /\ t \in Terminal
    BY <1>b, <1>9 DEF JobState
  <2>2. QED
    BY <1>b, <1>9, <2>1, IdleTyped
    DEF BeginMutation, BeginCall, JobTypes, JobRecord, Idle, NoRow
<1>10. ASSUME NEW c \in Client, NEW new \in Row, MutatesTo(c, new)
      PROVE  JobTypes'
  <2>1. (IF job[c].pc = "rename" THEN "renameSave" ELSE "updateSave") \in JobState
    BY States
  <2>2. (IF new = metadata[job[c].id] THEN 0 ELSE ChangeNumber) \in 0..Len(changes')
    <3>1. Numbers(c, new)
      BY <1>10, MutatesToEffect
    <3>2. CASE new = metadata[job[c].id]
      BY <3>2, <1>b
    <3>3. CASE new # metadata[job[c].id]
      BY <3>1, <3>3, <1>b DEF Numbers, Grows, ChangeNumber
    <3>4. QED
      BY <3>2, <3>3
  <2>3. metadata[job[c].id] \in Row /\ storeSequence' \in 0..MaxReservations
    BY <1>10, MutatesToEffect, QReserve DEF Typed, ManagerTypes
  <2>4. job[c] \in JobRecord(Len(changes'))
    BY <1>b
  <2>5. [job[c] EXCEPT !.pc = IF @ = "rename" THEN "renameSave" ELSE "updateSave",
                      !.ticket = storeSequence',
                      !.change = IF new = metadata[job[c].id] THEN 0 ELSE ChangeNumber,
                      !.before = metadata[job[c].id],
                      !.after = new] \in JobRecord(Len(changes'))
    BY <2>1, <2>2, <2>3, <2>4 DEF JobRecord
  <2>6. job' = [job EXCEPT ![c] =
                  [job[c] EXCEPT !.pc = IF @ = "rename" THEN "renameSave" ELSE "updateSave",
                                 !.ticket = storeSequence',
                                 !.change = IF new = metadata[job[c].id] THEN 0 ELSE ChangeNumber,
                                 !.before = metadata[job[c].id],
                                 !.after = new]]
    BY <1>10, <1>b DEF MutatesTo, Mutate, JobRecord
  <2>7. QED
    BY <1>b, <2>5, <2>6 DEF JobTypes
<1>11. ASSUME NEW c \in Client, MutationRefused(c)
      PROVE  JobTypes'
  BY <1>b, <1>11, MutationRefusedEffect, IdleTyped
  DEF MutationRefused, JobTypes
<1>12. ASSUME NEW c \in Client, MutationSaved(c)
      PROVE  JobTypes'
  BY <1>b, <1>12, MutationSavedEffect, IdleTyped
  DEF MutationSaved, JobTypes
<1>13. ASSUME NEW c \in Client, UpdateNotSaved(c)
      PROVE  JobTypes'
  BY <1>b, <1>13, UpdateNotSavedEffect, IdleTyped
  DEF UpdateNotSaved, JobTypes
<1>14. ASSUME NEW c \in Client, RenameNotSaved(c)
      PROVE  JobTypes'
  BY <1>b, <1>14, RenameNotSavedEffect, States
  DEF RenameNotSaved, JobTypes, JobRecord
<1>15. ASSUME NEW c \in Client, RollBack(c)
      PROVE  JobTypes'
  BY <1>b, <1>15, RollBackEffect, IdleTyped
  DEF RollBack, JobTypes
<1>16. ASSUME NEW c \in Client, NEW t \in Terminal, NEW o \in {"delete", "archive"},
               LockLifecycle(c, t, o)
      PROVE  JobTypes'
  <2>1. /\ {"archive", "delete", "rename", "updateAgent"} \subseteq JobState
        /\ job[c] \in JobRecord(Len(changes'))
        /\ t \in Terminal
    BY <1>b, <1>16 DEF JobState
  <2>2. QED
    BY <1>b, <1>16, <2>1, IdleTyped
    DEF LockLifecycle, BeginCall, JobTypes, JobRecord, Idle, NoRow
<1>17. ASSUME NEW c \in Client, ClaimDelete(c)
      PROVE  JobTypes'
  <2>1. /\ {"remove"} \subseteq JobState
        /\ job[c] \in JobRecord(Len(changes'))
        /\ storeSequence' \in 0..MaxReservations
    BY <1>b, <1>17, QReserve DEF JobState, ClaimDelete, Typed
  <2>2. QED
    BY <1>b, <1>17, <2>1
    DEF ClaimDelete, JobTypes, JobRecord
<1>18. ASSUME NEW c \in Client, LifecycleRefused(c)
      PROVE  JobTypes'
  BY <1>b, <1>18, LifecycleRefusedEffect, IdleTyped
  DEF LifecycleRefused, JobTypes
<1>19. ASSUME NEW c \in Client, RemoveEntry(c)
      PROVE  JobTypes'
  <2>1. ChangeNumber \in 0..Len(changes')
    <3>1. ChangeNumber = Len(changes')
      BY <1>19, RemoveEntryEffect DEF Grows, ChangeNumber
    <3>2. QED
      BY <3>1, <1>b
  <2>2. job[c] \in JobRecord(Len(changes'))
    BY <1>b
  <2>3. [job[c] EXCEPT !.pc = "deleteRow", !.change = ChangeNumber] \in JobRecord(Len(changes'))
    BY <2>1, <2>2, States DEF JobRecord
  <2>4. QED
    BY <1>19, <1>b, <2>3 DEF RemoveEntry, JobTypes
<1>20. ASSUME NEW c \in Client, DeleteRefused(c)
      PROVE  JobTypes'
  <2>1. /\ {"dropOperation"} \subseteq JobState
        /\ job[c] \in JobRecord(Len(changes'))
    BY <1>b, <1>20 DEF JobState
  <2>2. QED
    BY <1>b, <1>20, <2>1
    DEF DeleteRefused, JobTypes, JobRecord
<1>21. ASSUME NEW c \in Client, OperationDropped(c)
      PROVE  JobTypes'
  BY <1>b, <1>21, OperationDroppedEffect, IdleTyped
  DEF OperationDropped, FinishDelete, JobTypes
<1>22. ASSUME NEW c \in Client, RowDeleted(c)
      PROVE  JobTypes'
  BY <1>b, <1>22, RowDeletedEffect, States
  DEF RowDeleted, JobTypes, JobRecord
<1>23. ASSUME NEW c \in Client, RowNotDeleted(c)
      PROVE  JobTypes'
  <2>1. /\ {"deleteFailed", "reapFailed"} \subseteq JobState
        /\ job[c] \in JobRecord(Len(changes'))
    BY <1>b, <1>23 DEF JobState
  <2>2. QED
    BY <1>b, <1>23, <2>1
    DEF RowNotDeleted, JobTypes, JobRecord
<1>24. ASSUME NEW c \in Client, Reaped(c)
      PROVE  JobTypes'
  BY <1>b, <1>24, ReapedEffect, IdleTyped
  DEF Reaped, FinishDelete, JobTypes
<1>25. ASSUME NEW c \in Client, DeleteFailed(c)
      PROVE  JobTypes'
  BY <1>b, <1>25, DeleteFailedEffect, IdleTyped
  DEF DeleteFailed, FinishDelete, JobTypes
<1>26. ASSUME NEW c \in Client, PrepareArchive(c)
      PROVE  JobTypes'
  BY <1>b, <1>26, PrepareArchiveEffect, States
  DEF PrepareArchive, JobTypes, JobRecord
<1>27. ASSUME NEW c \in Client, LockForArchive(c)
      PROVE  JobTypes'
  <2>1. /\ {"archiveReserve"} \subseteq JobState
        /\ job[c] \in JobRecord(Len(changes'))
        /\ job[c].id \in Terminal /\ metadata[job[c].id] \in Row
    BY <1>b, <1>27, LockForArchiveEffect DEF JobState, Typed, ManagerTypes
  <2>2. QED
    BY <1>b, <1>27, <2>1, RowsTyped
    DEF LockForArchive, JobTypes, JobRecord
<1>28. ASSUME NEW c \in Client, ArchiveNotLocked(c)
      PROVE  JobTypes'
  BY <1>b, <1>28, ArchiveNotLockedEffect, IdleTyped
  DEF ArchiveNotLocked, AbandonArchive, JobTypes
<1>29. ASSUME NEW c \in Client, ReserveArchive(c)
      PROVE  JobTypes'
  <2>1. /\ {"archiveSave"} \subseteq JobState
        /\ job[c] \in JobRecord(Len(changes'))
        /\ storeSequence' \in 0..MaxReservations
    BY <1>b, <1>29, QReserve DEF JobState, ReserveArchive, Typed
  <2>2. QED
    BY <1>b, <1>29, <2>1
    DEF ReserveArchive, JobTypes, JobRecord
<1>30. ASSUME NEW c \in Client, ArchiveSealedOut(c)
      PROVE  JobTypes'
  BY <1>b, <1>30, ArchiveSealedOutEffect, IdleTyped
  DEF ArchiveSealedOut, AbandonArchive, JobTypes
<1>31. ASSUME NEW c \in Client, ArchiveCancelled(c)
      PROVE  JobTypes'
  BY <1>b, <1>31, ArchiveCancelledEffect, IdleTyped
  DEF ArchiveCancelled, AbandonArchive, JobTypes
<1>32. ASSUME NEW c \in Client, ArchiveSaved(c)
      PROVE  JobTypes'
  BY <1>b, <1>32, ArchiveSavedEffect, States
  DEF ArchiveSaved, JobTypes, JobRecord
<1>33. ASSUME NEW c \in Client, ArchiveNotSaved(c)
      PROVE  JobTypes'
  BY <1>b, <1>33, ArchiveNotSavedEffect, IdleTyped
  DEF ArchiveNotSaved, AbandonArchive, JobTypes
<1>34. ASSUME NEW c \in Client, CommitArchive(c)
      PROVE  JobTypes'
  <2>1. /\ {"archiveReap"} \subseteq JobState
        /\ job[c] \in JobRecord(Len(changes'))
    BY <1>b, <1>34 DEF JobState
  <2>2. QED
    BY <1>b, <1>34, <2>1
    DEF CommitArchive, JobTypes, JobRecord
<1>35. ASSUME NEW c \in Client, ArchiveReaped(c)
      PROVE  JobTypes'
  BY <1>b, <1>35, ArchiveReapedEffect, IdleTyped
  DEF ArchiveReaped, JobTypes
<1>36. ASSUME NEW t \in Terminal, WatchRemoves(t)
      PROVE  JobTypes'
  BY <1>b, <1>36, WatchRemovesEffect, QReserve
  DEF WatchRemoves, ExitExpected, WatcherMoves, JobTypes, Typed
<1>37. ASSUME NEW t \in Terminal, WatchPublishes(t)
      PROVE  JobTypes'
  BY <1>b, <1>37, WatchPublishesEffect
  DEF WatchPublishes, WatcherMoves, JobTypes
<1>38. ASSUME Restart
      PROVE  JobTypes'
  BY <1>38
<1>39. CASE UNCHANGED <<job, changes>>
  BY <1>b, <1>39 DEF JobTypes
<1>40. QED
  BY Writers, <1>1, <1>2, <1>3, <1>4, <1>5, <1>6, <1>7, <1>8, <1>9, <1>10, <1>11, <1>12, <1>13,
     <1>14, <1>15, <1>16, <1>17, <1>18, <1>19, <1>20, <1>21, <1>22, <1>23, <1>24,
     <1>25, <1>26, <1>27, <1>28, <1>29, <1>30, <1>31, <1>32, <1>33, <1>34, <1>35,
     <1>36, <1>37, <1>38, <1>39

\* The local state of the watchers keeps its types.
LEMMA ExitTypesStep ==
    ASSUME Typed, [Next]_vars
    PROVE  ExitTypes'
<1>a. Restart => ExitTypes'
  <2> SUFFICES ASSUME Restart PROVE ExitTypes'
    OBVIOUS
  <2>1. changes' = <<>> /\ Len(changes') = 0
    BY RestartEffect
  <2>2. QED
    BY <2>1, LifecycleAssumption DEF Restart, ExitTypes, ExitRecord, LifecycleAssumption
<1> SUFFICES ASSUME ~Restart PROVE ExitTypes'
  BY <1>a
<1>b. /\ job \in [Client -> JobRecord(Len(changes'))]
      /\ exit \in [Terminal -> ExitRecord(Len(changes'))]
      /\ Len(changes') \in Nat /\ Len(changes) <= Len(changes') /\ Len(changes) \in Nat
  BY StaysTyped
<1>1. CASE \E c \in Client : Announce(c)
  BY <1>b, <1>1, AnnounceEffect DEF ExitTypes
<1>2. ASSUME NEW c \in Client, NEW new \in Row, MutatesTo(c, new)
      PROVE  ExitTypes'
  BY <1>b, <1>2, MutatesToEffect DEF ExitTypes
<1>3. CASE \E c \in Client : MutationSaved(c)
  BY <1>b, <1>3, MutationSavedEffect DEF ExitTypes
<1>4. CASE \E c \in Client : UpdateNotSaved(c)
  BY <1>b, <1>4, UpdateNotSavedEffect DEF ExitTypes
<1>5. CASE \E c \in Client : RollBack(c)
  BY <1>b, <1>5, RollBackEffect DEF ExitTypes
<1>6. CASE \E c \in Client : RemoveEntry(c)
  BY <1>b, <1>6, RemoveEntryEffect DEF ExitTypes
<1>7. CASE \E c \in Client : OperationDropped(c)
  BY <1>b, <1>7, OperationDroppedEffect DEF ExitTypes
<1>8. CASE \E c \in Client : Reaped(c)
  BY <1>b, <1>8, ReapedEffect DEF ExitTypes
<1>9. CASE \E c \in Client : DeleteFailed(c)
  BY <1>b, <1>9, DeleteFailedEffect DEF ExitTypes
<1>10. CASE \E c \in Client : ArchiveReaped(c)
  BY <1>b, <1>10, ArchiveReapedEffect DEF ExitTypes
<1>11. ASSUME NEW t \in Terminal, WatchRemoves(t)
      PROVE  ExitTypes'
  <2>1. storeSequence' \in 0..MaxReservations
    BY <1>11, WatchRemovesEffect, QReserve DEF Typed
  <2>2. ChangeNumber = Len(changes')
    BY <1>11, WatchRemovesEffect DEF Grows, ChangeNumber
  <2>3. ChangeNumber \in 0..Len(changes')
    BY <2>2, <1>b
  <2>4. QED
    BY <1>b, <1>11, <2>1, <2>3 DEF WatchRemoves, ExitTypes, ExitRecord
<1>12. ASSUME NEW t \in Terminal, WatchRetries(t)
      PROVE  ExitTypes'
  BY <1>b, <1>12, QReserve DEF WatchRetries, Typed, ExitTypes, ExitRecord
<1>13. CASE \E t \in Terminal : WatchPublishes(t)
  BY <1>b, <1>13, WatchPublishesEffect DEF ExitTypes
<1>14. ASSUME Restart
      PROVE  ExitTypes'
  BY <1>14
<1>15. CASE UNCHANGED <<exit, changes>>
  BY <1>b, <1>15 DEF ExitTypes
<1>16. QED
  BY Writers, <1>1, <1>2, <1>3, <1>4, <1>5, <1>6, <1>7, <1>8, <1>9, <1>10, <1>11, <1>12, <1>13,
     <1>14, <1>15

\* An idle call holds nothing, any other one a terminal.
LEMMA JobStep ==
    ASSUME Typed, [Next]_vars
    PROVE  JobInv'
<1>1. CASE \E c \in Client, t \in Terminal : BeginCreate(c, t)
  BY <1>1, BeginCreateEffect, IdleIs DEF Typed, JobInv, Alone
<1>2. CASE \E c \in Client : \E from, to : Entering(from, to) /\ EnterPersist(c, from, to)
  BY <1>2, EnterPersistEffect, IdleIs DEF Typed, JobInv, Alone, Goes, Keeps, Entering
<1>3. CASE \E c \in Client : CreateSaved(c)
  BY <1>3, CreateSavedEffect, IdleIs DEF Typed, JobInv, Alone, Goes, Keeps
<1>4. CASE \E c \in Client : Register(c)
  BY <1>4, RegisterEffect, IdleIs DEF Typed, JobInv, Alone, Goes, Keeps
<1>5. CASE \E c \in Client : RegisterRefused(c)
  BY <1>5, RegisterRefusedEffect, IdleIs DEF Typed, JobInv, Alone
<1>6. CASE \E c \in Client : CleanedUp(c)
  BY <1>6, CleanedUpEffect, IdleIs DEF Typed, JobInv, Alone, Goes, Keeps
<1>7. CASE \E c \in Client : Discarded(c)
  BY <1>7, DiscardedEffect, IdleIs DEF Typed, JobInv, Alone
<1>8. CASE \E c \in Client : Announce(c)
  BY <1>8, AnnounceEffect, IdleIs DEF Typed, JobInv, Alone
<1>9. CASE \E c \in Client, t \in Terminal, o \in {"rename", "updateAgent"} :
               BeginMutation(c, t, o)
  BY <1>9, BeginMutationEffect, IdleIs DEF Typed, JobInv, Alone
<1>10. CASE \E c \in Client, new \in Row : MutatesTo(c, new)
  BY <1>10, MutatesToEffect, IdleIs DEF Typed, JobInv, Alone
<1>11. CASE \E c \in Client : MutationRefused(c)
  BY <1>11, MutationRefusedEffect, IdleIs DEF Typed, JobInv, Alone
<1>12. CASE \E c \in Client : MutationSaved(c)
  BY <1>12, MutationSavedEffect, IdleIs DEF Typed, JobInv, Alone
<1>13. CASE \E c \in Client : UpdateNotSaved(c)
  BY <1>13, UpdateNotSavedEffect, IdleIs DEF Typed, JobInv, Alone
<1>14. CASE \E c \in Client : RenameNotSaved(c)
  BY <1>14, RenameNotSavedEffect, IdleIs DEF Typed, JobInv, Alone, Goes, Keeps
<1>15. CASE \E c \in Client : RollBack(c)
  BY <1>15, RollBackEffect, IdleIs DEF Typed, JobInv, Alone
<1>16. CASE \E c \in Client, t \in Terminal, o \in {"delete", "archive"} : LockLifecycle(c, t, o)
  BY <1>16, LockLifecycleEffect, IdleIs DEF Typed, JobInv, Alone
<1>17. CASE \E c \in Client : ClaimDelete(c)
  BY <1>17, ClaimDeleteEffect, IdleIs DEF Typed, JobInv, Alone
<1>18. CASE \E c \in Client : LifecycleRefused(c)
  BY <1>18, LifecycleRefusedEffect, IdleIs DEF Typed, JobInv, Alone
<1>19. CASE \E c \in Client : RemoveEntry(c)
  BY <1>19, RemoveEntryEffect, IdleIs DEF Typed, JobInv, Alone
<1>20. CASE \E c \in Client : DeleteRefused(c)
  BY <1>20, DeleteRefusedEffect, IdleIs DEF Typed, JobInv, Alone, Goes, Keeps
<1>21. CASE \E c \in Client : OperationDropped(c)
  BY <1>21, OperationDroppedEffect, IdleIs DEF Typed, JobInv, Alone
<1>22. CASE \E c \in Client : RowDeleted(c)
  BY <1>22, RowDeletedEffect, IdleIs DEF Typed, JobInv, Alone, Goes, Keeps
<1>23. CASE \E c \in Client : RowNotDeleted(c)
  BY <1>23, RowNotDeletedEffect, IdleIs DEF Typed, JobInv, Alone, Goes, Keeps
<1>24. CASE \E c \in Client : Reaped(c)
  BY <1>24, ReapedEffect, IdleIs DEF Typed, JobInv, Alone
<1>25. CASE \E c \in Client : DeleteFailed(c)
  BY <1>25, DeleteFailedEffect, IdleIs DEF Typed, JobInv, Alone
<1>26. CASE \E c \in Client : PrepareArchive(c)
  BY <1>26, PrepareArchiveEffect, IdleIs DEF Typed, JobInv, Alone, Goes, Keeps
<1>27. CASE \E c \in Client : LockForArchive(c)
  BY <1>27, LockForArchiveEffect, IdleIs DEF Typed, JobInv, Alone
<1>28. CASE \E c \in Client : ArchiveNotLocked(c)
  BY <1>28, ArchiveNotLockedEffect, IdleIs DEF Typed, JobInv, Alone
<1>29. CASE \E c \in Client : ReserveArchive(c)
  BY <1>29, ReserveArchiveEffect, IdleIs DEF Typed, JobInv, Alone
<1>30. CASE \E c \in Client : ArchiveSealedOut(c)
  BY <1>30, ArchiveSealedOutEffect, IdleIs DEF Typed, JobInv, Alone
<1>31. CASE \E c \in Client : ArchiveCancelled(c)
  BY <1>31, ArchiveCancelledEffect, IdleIs DEF Typed, JobInv, Alone
<1>32. CASE \E c \in Client : ArchiveSaved(c)
  BY <1>32, ArchiveSavedEffect, IdleIs DEF Typed, JobInv, Alone, Goes, Keeps
<1>33. CASE \E c \in Client : ArchiveNotSaved(c)
  BY <1>33, ArchiveNotSavedEffect, IdleIs DEF Typed, JobInv, Alone
<1>34. CASE \E c \in Client : CommitArchive(c)
  BY <1>34, CommitArchiveEffect, IdleIs DEF Typed, JobInv, Alone, Goes, Keeps
<1>35. CASE \E c \in Client : ArchiveReaped(c)
  BY <1>35, ArchiveReapedEffect, IdleIs DEF Typed, JobInv, Alone
<1>36. ASSUME Restart
      PROVE  JobInv'
  BY <1>36, RestartEffect, IdleIs DEF JobInv
<1>37. CASE UNCHANGED <<job>>
  BY <1>37 DEF Typed, JobInv
<1>38. QED
  BY Writers, <1>1, <1>2, <1>3, <1>4, <1>5, <1>6, <1>7, <1>8, <1>9, <1>10, <1>11, <1>12, <1>13,
     <1>14, <1>15, <1>16, <1>17, <1>18, <1>19, <1>20, <1>21, <1>22, <1>23, <1>24,
     <1>25, <1>26, <1>27, <1>28, <1>29, <1>30, <1>31, <1>32, <1>33, <1>34, <1>35,
     <1>36, <1>37

\* activeCreates counts the creates under way.
LEMMA CreatingStep ==
    ASSUME Typed, [Next]_vars
    PROVE  CreatingInv'
<1>1. CASE \E c \in Client, t \in Terminal : BeginCreate(c, t)
  BY <1>1, BeginCreateEffect, IdleIs DEF Typed, CreatingInv, CreatePC, Alone
<1>2. CASE \E c \in Client : \E from, to : Entering(from, to) /\ EnterPersist(c, from, to)
  BY <1>2, EnterPersistEffect, IdleIs DEF Typed, CreatingInv, CreatePC, Alone, Goes, Entering
<1>3. CASE \E c \in Client : CreateSaved(c)
  BY <1>3, CreateSavedEffect, IdleIs DEF Typed, CreatingInv, CreatePC, Alone, Goes
<1>4. CASE \E c \in Client : Register(c)
  BY <1>4, RegisterEffect, IdleIs DEF Typed, CreatingInv, CreatePC, Alone, Goes
<1>5. CASE \E c \in Client : RegisterRefused(c)
  BY <1>5, RegisterRefusedEffect, IdleIs DEF Typed, CreatingInv, CreatePC, Alone
<1>6. CASE \E c \in Client : CleanedUp(c)
  BY <1>6, CleanedUpEffect, IdleIs DEF Typed, CreatingInv, CreatePC, Alone, Goes
<1>7. CASE \E c \in Client : Discarded(c)
  BY <1>7, DiscardedEffect, IdleIs DEF Typed, CreatingInv, CreatePC, Alone
<1>8. CASE \E c \in Client : Announce(c)
  BY <1>8, AnnounceEffect, IdleIs DEF Typed, CreatingInv, CreatePC, Alone
<1>9. CASE \E c \in Client, t \in Terminal, o \in {"rename", "updateAgent"} :
               BeginMutation(c, t, o)
  BY <1>9, BeginMutationEffect, IdleIs DEF Typed, CreatingInv, CreatePC, Alone
<1>10. CASE \E c \in Client, new \in Row : MutatesTo(c, new)
  BY <1>10, MutatesToEffect, IdleIs DEF Typed, CreatingInv, CreatePC, Alone
<1>11. CASE \E c \in Client : MutationRefused(c)
  BY <1>11, MutationRefusedEffect, IdleIs DEF Typed, CreatingInv, CreatePC, Alone
<1>12. CASE \E c \in Client : MutationSaved(c)
  BY <1>12, MutationSavedEffect, IdleIs DEF Typed, CreatingInv, CreatePC, Alone
<1>13. CASE \E c \in Client : UpdateNotSaved(c)
  BY <1>13, UpdateNotSavedEffect, IdleIs DEF Typed, CreatingInv, CreatePC, Alone
<1>14. CASE \E c \in Client : RenameNotSaved(c)
  BY <1>14, RenameNotSavedEffect, IdleIs DEF Typed, CreatingInv, CreatePC, Alone, Goes
<1>15. CASE \E c \in Client : RollBack(c)
  BY <1>15, RollBackEffect, IdleIs DEF Typed, CreatingInv, CreatePC, Alone
<1>16. CASE \E c \in Client, t \in Terminal, o \in {"delete", "archive"} : LockLifecycle(c, t, o)
  BY <1>16, LockLifecycleEffect, IdleIs DEF Typed, CreatingInv, CreatePC, Alone
<1>17. CASE \E c \in Client : ClaimDelete(c)
  BY <1>17, ClaimDeleteEffect, IdleIs DEF Typed, CreatingInv, CreatePC, Alone
<1>18. CASE \E c \in Client : LifecycleRefused(c)
  BY <1>18, LifecycleRefusedEffect, IdleIs DEF Typed, CreatingInv, CreatePC, Alone
<1>19. CASE \E c \in Client : RemoveEntry(c)
  BY <1>19, RemoveEntryEffect, IdleIs DEF Typed, CreatingInv, CreatePC, Alone
<1>20. CASE \E c \in Client : DeleteRefused(c)
  BY <1>20, DeleteRefusedEffect, IdleIs DEF Typed, CreatingInv, CreatePC, Alone, Goes
<1>21. CASE \E c \in Client : OperationDropped(c)
  BY <1>21, OperationDroppedEffect, IdleIs DEF Typed, CreatingInv, CreatePC, Alone
<1>22. CASE \E c \in Client : RowDeleted(c)
  BY <1>22, RowDeletedEffect, IdleIs DEF Typed, CreatingInv, CreatePC, Alone, Goes
<1>23. CASE \E c \in Client : RowNotDeleted(c)
  BY <1>23, RowNotDeletedEffect, IdleIs DEF Typed, CreatingInv, CreatePC, Alone, Goes
<1>24. CASE \E c \in Client : Reaped(c)
  BY <1>24, ReapedEffect, IdleIs DEF Typed, CreatingInv, CreatePC, Alone
<1>25. CASE \E c \in Client : DeleteFailed(c)
  BY <1>25, DeleteFailedEffect, IdleIs DEF Typed, CreatingInv, CreatePC, Alone
<1>26. CASE \E c \in Client : PrepareArchive(c)
  BY <1>26, PrepareArchiveEffect, IdleIs DEF Typed, CreatingInv, CreatePC, Alone, Goes
<1>27. CASE \E c \in Client : LockForArchive(c)
  BY <1>27, LockForArchiveEffect, IdleIs DEF Typed, CreatingInv, CreatePC, Alone
<1>28. CASE \E c \in Client : ArchiveNotLocked(c)
  BY <1>28, ArchiveNotLockedEffect, IdleIs DEF Typed, CreatingInv, CreatePC, Alone
<1>29. CASE \E c \in Client : ReserveArchive(c)
  BY <1>29, ReserveArchiveEffect, IdleIs DEF Typed, CreatingInv, CreatePC, Alone
<1>30. CASE \E c \in Client : ArchiveSealedOut(c)
  BY <1>30, ArchiveSealedOutEffect, IdleIs DEF Typed, CreatingInv, CreatePC, Alone
<1>31. CASE \E c \in Client : ArchiveCancelled(c)
  BY <1>31, ArchiveCancelledEffect, IdleIs DEF Typed, CreatingInv, CreatePC, Alone
<1>32. CASE \E c \in Client : ArchiveSaved(c)
  BY <1>32, ArchiveSavedEffect, IdleIs DEF Typed, CreatingInv, CreatePC, Alone, Goes
<1>33. CASE \E c \in Client : ArchiveNotSaved(c)
  BY <1>33, ArchiveNotSavedEffect, IdleIs DEF Typed, CreatingInv, CreatePC, Alone
<1>34. CASE \E c \in Client : CommitArchive(c)
  BY <1>34, CommitArchiveEffect, IdleIs DEF Typed, CreatingInv, CreatePC, Alone, Goes
<1>35. CASE \E c \in Client : ArchiveReaped(c)
  BY <1>35, ArchiveReapedEffect, IdleIs DEF Typed, CreatingInv, CreatePC, Alone
<1>36. ASSUME Restart
      PROVE  CreatingInv'
  BY <1>36, RestartEffect, IdleIs DEF CreatingInv, CreatePC
<1>37. CASE UNCHANGED <<job, creating>>
  BY <1>37 DEF Typed, CreatingInv
<1>38. QED
  BY Writers, <1>1, <1>2, <1>3, <1>4, <1>5, <1>6, <1>7, <1>8, <1>9, <1>10, <1>11, <1>12, <1>13,
     <1>14, <1>15, <1>16, <1>17, <1>18, <1>19, <1>20, <1>21, <1>22, <1>23, <1>24,
     <1>25, <1>26, <1>27, <1>28, <1>29, <1>30, <1>31, <1>32, <1>33, <1>34, <1>35,
     <1>36, <1>37

\* Every step keeps the types.
LEMMA TypedStep == Typed /\ [Next]_vars => Typed'
BY QueueTypesStep, ChangesStep, StoreTypesStep, HistoryTypesStep, ManagerTypesStep, JobTypesStep,
   ExitTypesStep, JobStep, CreatingStep
DEF Typed

-----------------------------------------------------------------------------
(* Control points *)

\* The terminal of a create is not registered yet.
UnregisteredPC == CreatePC \ {"announce"}
\* A mutation has changed memory and its save is not over.
SavePC         == {"renameSave", "renameSaving", "updateSave", "updateSaving"}
\* A mutation is under way.
MutationPC     == {"rename", "updateAgent", "rollback"} \cup SavePC
\* A delete has removed the entry, and the row may still be there.
DeletingPC     == {"deleteRow", "deletingRow"}
RemovedPC      == {"reap", "reapFailed"} \cup DeletingPC
\* A delete has claimed the terminal.
ClaimedPC      == {"remove", "dropOperation", "droppingOperation", "deleteFailed"} \cup RemovedPC
\* An archive holds a snapshot of the terminal.
SnapshotPC     == {"archiveReserve", "archiveSave", "archiveSaving"}
\* An archive has marked the terminal.
PreparedPC     == {"archiveLock", "archiveCommit"} \cup SnapshotPC
\* A call holds the lifecycle mutex, or the metadata mutex, of its terminal.
LifecyclePC    == {"delete", "archive", "archiveReap"} \cup ClaimedPC \cup PreparedPC
MetadataPC     == MutationPC \cup SnapshotPC \cup {"archiveCommit", "archiveReap"}
\* The terminal of a call is registered.
RegisteredPC   == PreparedPC \cup {"remove", "dropOperation", "droppingOperation",
                                   "deleteFailed", "archiveReap"}
\* A call holds a ticket that has not entered, or one that has not left.
WaitingPC      == {"createSave", "cleanup", "renameSave", "updateSave", "remove",
                   "dropOperation", "deleteRow", "archiveSave"}
RunningPC      == {"createSaving", "cleaningUp", "renameSaving", "updateSaving",
                   "droppingOperation", "deletingRow", "reap", "reapFailed", "deleteFailed",
                   "archiveSaving"}
\* A watcher has removed the entry and has not said so yet.
ExitSaving     == {"save", "saving", "retry", "saveAgain", "savingAgain", "publish"}

-----------------------------------------------------------------------------
(* Mutexes and claims *)

\* The holder of a mutex is the call that is between lock and unlock.
MutexInv == \A c \in Client, t \in Terminal :
    /\ lifecycleMu[t] = c <=> job[c].id = t /\ job[c].pc \in LifecyclePC
    /\ metadataSaveMu[t] = c <=> job[c].id = t /\ job[c].pc \in MetadataPC

\* deleteInProgress is the claim of the call that holds the lifecycle mutex.
DeleteClaim ==
    /\ \A t \in Terminal : t \in deleteInProgress => lifecycleMu[t] # None
    /\ \A c \in Client, t \in Terminal : lifecycleMu[t] = c =>
         (t \in deleteInProgress <=> job[c].pc \in ClaimedPC)

\* So is the archive state of the terminal.
ArchiveClaim ==
    /\ \A t \in Terminal : ArchiveInProgress(t) => lifecycleMu[t] # None
    /\ \A c \in Client, t \in Terminal : lifecycleMu[t] = c =>
         /\ archive[t] = "preparing" <=> job[c].pc \in PreparedPC
         /\ archive[t] = "succeeded" <=> job[c].pc = "archiveReap"

-----------------------------------------------------------------------------
(* Registration *)

\* A terminal that is being created belongs to its create alone.
NewInv == \A c \in Client :
    /\ job[c].pc \in UnregisteredPC => job[c].id \notin sessions /\ job[c].id \notin archived
    /\ job[c].pc \in CreatePC => watcher[job[c].id] = "off"
    /\ \A d \in Client : c # d /\ job[c].pc \in UnregisteredPC => job[d].id # job[c].id
    /\ \A d \in Client : c # d /\ job[c].pc \in CreatePC /\ job[d].pc \in CreatePC =>
         job[d].id # job[c].id

\* A delete or archive that counts on the entry finds it; one that removed it
\* does not find it back.
HeldInv == \A c \in Client :
    /\ job[c].pc \in RegisteredPC => job[c].id \in sessions
    /\ job[c].pc \in RemovedPC => job[c].id \notin sessions

\* A terminal nobody has created yet leaves no trace.
AbsentInv == \A t \in Terminal : process[t] = "absent" =>
    /\ t \notin sessions /\ t \notin archived /\ t \notin deleted
    /\ watcher[t] = "off"
    /\ rows[t] = NoRow
    /\ \A c \in Client : job[c].id # t

\* A watcher past the exit saw the shell end; one that owns the removal, and
\* an archived terminal, are out of reach of a delete.
WatchedInv == \A t \in Terminal :
    /\ watcher[t] \notin {"off", "waiting"} => process[t] = "exited"
    /\ watcher[t] \in ExitSaving => t \notin sessions /\ t \notin deleteInProgress
    /\ t \in archived => t \notin sessions /\ t \notin deleteInProgress

-----------------------------------------------------------------------------
(* Close and the queue *)

\* The stages of Close, and what it has done to the queue at each of them.
CloserInv ==
    /\ closing <=> closer # "open"
    /\ storeSealed <=> closer \notin {"open", "waitCreates"}
    /\ storeSealed => creating = {}
    /\ closer \in {"terminate", "reap"} => phase[closeOperation] = "waiting"
    /\ closer = "closingStore" => phase[closeOperation] = "running"
    /\ closer = "closed" => phase[closeOperation] = "persisted"
    /\ closeItems # {} => storeSealed

\* Who holds a ticket that is not over.
JobTicket(c)   == job[c].pc \in WaitingPC \cup RunningPC
WatchTicket(t) == watcher[t] \in {"save", "saving", "saveAgain", "savingAgain"}

\* The ticket of a call is in the phase the call thinks it is in.
JobTickets == \A c \in Client :
    /\ JobTicket(c) => job[c].ticket \in Queue!Operation /\ job[c].ticket # closeOperation
    /\ job[c].pc \in WaitingPC => phase[job[c].ticket] = "waiting"
    /\ job[c].pc \in RunningPC => phase[job[c].ticket] = "running"

\* So is the ticket of a watcher.
WatchTickets == \A t \in Terminal :
    /\ WatchTicket(t) => exit[t].ticket \in Queue!Operation /\ exit[t].ticket # closeOperation
    /\ watcher[t] \in {"save", "saveAgain"} => phase[exit[t].ticket] = "waiting"
    /\ watcher[t] \in {"saving", "savingAgain"} => phase[exit[t].ticket] = "running"

\* No two of them hold the same ticket.
DistinctTickets ==
    /\ \A c, d \in Client : c # d /\ JobTicket(c) /\ JobTicket(d) =>
         job[c].ticket # job[d].ticket
    /\ \A c \in Client, t \in Terminal :
         JobTicket(c) /\ WatchTicket(t) => job[c].ticket # exit[t].ticket
    /\ \A t, u \in Terminal :
         t # u /\ WatchTicket(t) /\ WatchTicket(u) => exit[t].ticket # exit[u].ticket

\* The last writer of a row had entered the queue.
WriterInv == \A t \in Terminal :
    rowWriter[t] # 0 => rowWriter[t] \in Queue!Operation /\ Queue!Entered(rowWriter[t])

\* Only an archive gives up a ticket while it waits.
CancelInv == ~ArchiveCancels => Queue!NoneCancelled

\* Nothing is reserved after the close.
CloseIsNewest == closeOperation # 0 => closeOperation = storeSequence

\* StoreQueue's theorems hold of the manager's queue.  The other queue they stand
\* beside, the delivery of changes, is empty here.
QP == INSTANCE ManagerQueuesProofs WITH
    ContextOps <- 1..MaxReservations,
    Goroutine <- {}, MaxChanges <- 1,
    changeSequence <- 0, changeCompletions <- {}, changeDeliverySequence <- 0,
    changeDeliveryActive <- FALSE, pc <- <<>>, held <- <<>>, current <- <<>>,
    deliver <- <<"none">>, observed <- {}

-----------------------------------------------------------------------------
(* Rows and shells *)

\* Restoring the row leads to a running or an archived terminal.
Kept(row) == row.state = "running" \/ row.archived

\* Memory and the rows about to be saved say that the terminal runs, unless
\* an archive is what saves it.
RunningInv ==
    /\ \A t \in Terminal : t \in sessions => metadata[t].state = "running"
    /\ \A c \in Client :
         /\ job[c].pc \in DeletingPC \cup UnregisteredPC =>
              metadata[job[c].id].state = "running"
         /\ job[c].pc \in {"createSave", "createSaving"} \cup SavePC =>
              job[c].after.state = "running"
         /\ job[c].pc \in SnapshotPC => job[c].after.archived /\ job[c].after.state = "exited"

\* The row of a registered terminal, and of one Close ends, is kept.
KeptInv ==
    /\ \A t \in Terminal : t \in sessions \/ t \in closeItems => Kept(rows[t])
    /\ \A t \in Terminal : t \in closeItems => watcher[t] \notin ExitSaving
    /\ \A c \in Client :
         /\ job[c].pc \in DeletingPC \cup {"register"} => Kept(rows[job[c].id])
         /\ job[c].id \in closeItems => job[c].pc \notin RemovedPC

\* Close knows every terminal that is registered when it seals the queue.
SealedInv == storeSealed => \A t \in Terminal : t \in sessions => t \in closeItems

\* A shell that runs unregistered is in the hands of a create or a delete.
ShellInv == \A t \in Terminal : process[t] = "running" /\ t \notin sessions =>
    \E c \in Client : job[c].id = t /\ job[c].pc \in UnregisteredPC \cup RemovedPC

\* Close enters the queue when every shell has ended.
ClosedShells == closer \in {"closingStore", "closed"} =>
    \A t \in Terminal : process[t] # "running"

-----------------------------------------------------------------------------
(* Change numbers *)

\* Change n of s removes t; it was emitted; nothing but a create of t follows
\* it; change n, if there is one, is an update.
Ends(s, t, n)    == n \in 1..Len(s) /\ s[n].kind = "deleted" /\ s[n].id = t
Emitted(s, t, n) == Ends(s, t, n) /\ s[n].outcome = "emitted"
Quiet(s, t, n)   == \A j \in 1..Len(s) : j > n /\ s[j].id = t => s[j].kind = "created"
Updated(s, n)    == n = 0 \/ (n \in 1..Len(s) /\ s[n].kind = "updated")

\* The change a call holds is the deletion it removed the entry with, or its
\* update.
JobChanges == \A c \in Client :
    /\ job[c].pc \in RemovedPC \cup {"deleteFailed"} => Ends(changes, job[c].id, job[c].change)
    /\ job[c].pc \in RemovedPC => Quiet(changes, job[c].id, job[c].change)
    /\ job[c].pc \in LifecyclePC \ (RemovedPC \cup {"deleteFailed"}) => job[c].change = 0
    /\ job[c].pc \in MutationPC => Updated(changes, job[c].change)

\* The change a watcher holds is the last one about its terminal.
ExitChanges == \A t \in Terminal : watcher[t] \in ExitSaving =>
    Ends(changes, t, exit[t].change) /\ Quiet(changes, t, exit[t].change)

\* After an emitted deletion the terminal does not come back.
EndedInv == \A t \in Terminal, n \in Nat : Emitted(changes, t, n) =>
    /\ Quiet(changes, t, n)
    /\ t \notin sessions
    /\ process[t] # "absent"
    /\ \A c \in Client : job[c].id = t => job[c].pc \notin UnregisteredPC \cup DeletingPC

-----------------------------------------------------------------------------
(* Memory and the rows, when agents are not updated and a save fails once *)

\* Row and memory agree while nobody holds the metadata mutex, and the holder
\* knows how they differ.
Agree(t) ==
    /\ metadataSaveMu[t] = None => rows[t] = metadata[t]
    /\ \A c \in Client : job[c].id = t =>
         /\ job[c].pc \in SnapshotPC \cup {"rename"} => rows[t] = metadata[t]
         /\ job[c].pc \in {"renameSave", "renameSaving", "rollback"} => rows[t] = job[c].before

\* No agent update is under way.
NoUpdates == \A c \in Client : job[c].pc \notin {"updateAgent", "updateSave", "updateSaving"}

\* The two rows differ in the name.
Renamed(before, after) == before = [after EXCEPT !.name = before.name]

\* What a create or a rename saves is what memory says.
PendingInv == \A c \in Client :
    /\ job[c].pc \in {"createSave", "createSaving", "renameSave", "renameSaving", "rollback"} =>
         metadata[job[c].id] = job[c].after
    /\ job[c].pc = "register" => rows[job[c].id] = metadata[job[c].id]
    /\ job[c].pc \in {"renameSave", "renameSaving", "rollback"} =>
         Renamed(job[c].before, job[c].after)
    /\ job[c].pc = "rollback" => failures > 0 \/ closing

\* A terminal agrees while it is registered, and while a delete may have to
\* register it again.
AgreeInv ==
    /\ \A t \in Terminal : t \in sessions => Agree(t)
    /\ \A c \in Client : job[c].pc \in DeletingPC /\ failures = 0 /\ ~closing =>
         Agree(job[c].id)

\* The strengthening of UnlockedMemoryIsStored.
MemoryInv == NoUpdates /\ PendingInv /\ AgreeInv

-----------------------------------------------------------------------------
(* The recorded exit, when no archive is cancelled *)

\* One save at most has failed, so no retry has.
Reliable == failures <= 1 /\ ~closing

\* A watcher tries again after a failure.
RetryInv == \A t \in Terminal :
    watcher[t] \in {"retry", "saveAgain", "savingAgain"} => failures > 0 \/ closing

\* The save of a mutation was reserved before the exit save.
OlderSaves == \A c \in Client, t \in Terminal :
    job[c].id = t /\ job[c].pc \in SavePC /\ watcher[t] \in ExitSaving \ {"publish"} =>
        job[c].ticket < exit[t].ticket

\* An archive that has saved has saved the exit.
ArchivedRows == \A c \in Client :
    job[c].pc \in {"archiveCommit", "archiveReap"} => rows[job[c].id].state = "exited"

\* The exit is written when the watcher publishes it, and no save of a
\* mutation is left that could write over it.
ExitedRows == \A t \in Terminal :
    (watcher[t] = "publish" \/ t \in archived) /\ Reliable =>
        /\ rows[t].state = "exited"
        /\ \A c \in Client : job[c].id = t => job[c].pc \notin SavePC

\* The strengthening of ExitIsRecorded.
ExitInv == RetryInv /\ OlderSaves /\ ArchivedRows /\ ExitedRows

-----------------------------------------------------------------------------
(* Deleted terminals, when there are no mutations *)

\* Neither a rename nor an agent update is under way.
NoMutations == \A c \in Client : job[c].pc \notin MutationPC

\* A delete ends the shell of a terminal whose row is gone.
ReapedRows == \A c \in Client : job[c].pc = "reap" => rows[job[c].id] = NoRow

\* Nobody has a deleted terminal in hand.
GoneInv == \A t \in Terminal : t \in deleted =>
    /\ t \notin sessions /\ rows[t] = NoRow /\ process[t] # "absent"
    /\ watcher[t] \notin ExitSaving
    /\ \A c \in Client : job[c].id # t

\* The strengthening of DeletedStaysDeleted.
DeletedInv == NoMutations /\ ReapedRows /\ GoneInv

-----------------------------------------------------------------------------
(* Mutexes and claims are kept *)

\* A mutex is taken and given back by the call that is between lock and
\* unlock: delete, archive, rename and agent updates.
LEMMA MutexStep ==
    ASSUME Typed, MutexInv, [Next]_vars
    PROVE  MutexInv'
<1> USE IdleIs, NoneFree DEF MutexInv, LifecyclePC, ClaimedPC, RemovedPC, DeletingPC,
        PreparedPC, SnapshotPC, MetadataPC, MutationPC, SavePC, Sets, Alone, Goes, Keeps
<1>1. CASE \E c \in Client, t \in Terminal : BeginCreate(c, t)
  BY <1>1, BeginCreateEffect
<1>2. CASE \E c \in Client : \E from, to : Entering(from, to) /\ EnterPersist(c, from, to)
  BY <1>2, EnterPersistEffect DEF Entering
<1>3. CASE \E c \in Client : CreateSaved(c)
  BY <1>3, CreateSavedEffect
<1>4. CASE \E c \in Client : Register(c)
  BY <1>4, RegisterEffect
<1>5. CASE \E c \in Client : RegisterRefused(c)
  BY <1>5, RegisterRefusedEffect
<1>6. CASE \E c \in Client : CleanedUp(c)
  BY <1>6, CleanedUpEffect
<1>7. CASE \E c \in Client : Discarded(c)
  BY <1>7, DiscardedEffect
<1>8. CASE \E c \in Client : Announce(c)
  BY <1>8, AnnounceEffect
<1>9. CASE \E c \in Client, t \in Terminal, o \in {"rename", "updateAgent"} :
        BeginMutation(c, t, o)
  BY <1>9, BeginMutationEffect
<1>10. CASE \E c \in Client, new \in Row : MutatesTo(c, new)
  BY <1>10, MutatesToEffect
<1>11. CASE \E c \in Client : MutationRefused(c)
  BY <1>11, MutationRefusedEffect
<1>12. CASE \E c \in Client : MutationSaved(c)
  BY <1>12, MutationSavedEffect
<1>13. CASE \E c \in Client : UpdateNotSaved(c)
  BY <1>13, UpdateNotSavedEffect
<1>14. CASE \E c \in Client : RenameNotSaved(c)
  BY <1>14, RenameNotSavedEffect
<1>15. CASE \E c \in Client : RollBack(c)
  BY <1>15, RollBackEffect
<1>16. CASE \E c \in Client, t \in Terminal, o \in {"delete", "archive"} :
         LockLifecycle(c, t, o)
  BY <1>16, LockLifecycleEffect
<1>17. CASE \E c \in Client : ClaimDelete(c)
  BY <1>17, ClaimDeleteEffect
<1>18. CASE \E c \in Client : LifecycleRefused(c)
  BY <1>18, LifecycleRefusedEffect
<1>19. CASE \E c \in Client : RemoveEntry(c)
  BY <1>19, RemoveEntryEffect
<1>20. CASE \E c \in Client : DeleteRefused(c)
  BY <1>20, DeleteRefusedEffect
<1>21. CASE \E c \in Client : OperationDropped(c)
  BY <1>21, OperationDroppedEffect
<1>22. CASE \E c \in Client : RowDeleted(c)
  BY <1>22, RowDeletedEffect
<1>23. CASE \E c \in Client : RowNotDeleted(c)
  BY <1>23, RowNotDeletedEffect
<1>24. CASE \E c \in Client : Reaped(c)
  BY <1>24, ReapedEffect
<1>25. CASE \E c \in Client : DeleteFailed(c)
  BY <1>25, DeleteFailedEffect
<1>26. CASE \E c \in Client : PrepareArchive(c)
  BY <1>26, PrepareArchiveEffect
<1>27. CASE \E c \in Client : LockForArchive(c)
  BY <1>27, LockForArchiveEffect
<1>28. CASE \E c \in Client : ArchiveNotLocked(c)
  BY <1>28, ArchiveNotLockedEffect
<1>29. CASE \E c \in Client : ReserveArchive(c)
  BY <1>29, ReserveArchiveEffect
<1>30. CASE \E c \in Client : ArchiveSealedOut(c)
  BY <1>30, ArchiveSealedOutEffect
<1>31. CASE \E c \in Client : ArchiveCancelled(c)
  BY <1>31, ArchiveCancelledEffect
<1>32. CASE \E c \in Client : ArchiveSaved(c)
  BY <1>32, ArchiveSavedEffect
<1>33. CASE \E c \in Client : ArchiveNotSaved(c)
  BY <1>33, ArchiveNotSavedEffect
<1>34. CASE \E c \in Client : CommitArchive(c)
  BY <1>34, CommitArchiveEffect
<1>35. CASE \E c \in Client : ArchiveReaped(c)
  BY <1>35, ArchiveReapedEffect
<1>36. CASE Restart
  BY <1>36, RestartEffect
<1>37. CASE UNCHANGED <<lifecycleMu, metadataSaveMu, job>>
  BY <1>37
<1>38. QED
  BY Writers, <1>1, <1>2, <1>3, <1>4, <1>5, <1>6, <1>7, <1>8, <1>9, <1>10, <1>11, <1>12, <1>13,
    <1>14, <1>15, <1>16, <1>17, <1>18, <1>19, <1>20, <1>21, <1>22, <1>23, <1>24, <1>25, <1>26,
      <1>27, <1>28, <1>29, <1>30, <1>31, <1>32, <1>33, <1>34, <1>35, <1>36, <1>37

\* Delete sets deleteInProgress under the lifecycle mutex and clears it before
\* it unlocks, on every path.
LEMMA DeleteClaimStep ==
    ASSUME Typed, MutexInv, DeleteClaim, [Next]_vars
    PROVE  DeleteClaim'
<1> USE IdleIs, NoneFree DEF DeleteClaim, LifecyclePC, ClaimedPC, RemovedPC, DeletingPC,
        PreparedPC, SnapshotPC, Sets, Alone, Goes, Keeps, MutexInv
<1>1. CASE \E c \in Client, t \in Terminal : BeginCreate(c, t)
  BY <1>1, BeginCreateEffect
<1>2. CASE \E c \in Client : \E from, to : Entering(from, to) /\ EnterPersist(c, from, to)
  BY <1>2, EnterPersistEffect DEF Entering
<1>3. CASE \E c \in Client : CreateSaved(c)
  BY <1>3, CreateSavedEffect
<1>4. CASE \E c \in Client : Register(c)
  BY <1>4, RegisterEffect
<1>5. CASE \E c \in Client : RegisterRefused(c)
  BY <1>5, RegisterRefusedEffect
<1>6. CASE \E c \in Client : CleanedUp(c)
  BY <1>6, CleanedUpEffect
<1>7. CASE \E c \in Client : Discarded(c)
  BY <1>7, DiscardedEffect
<1>8. CASE \E c \in Client : Announce(c)
  BY <1>8, AnnounceEffect
<1>9. CASE \E c \in Client, t \in Terminal, o \in {"rename", "updateAgent"} :
        BeginMutation(c, t, o)
  BY <1>9, BeginMutationEffect
<1>10. CASE \E c \in Client, new \in Row : MutatesTo(c, new)
  BY <1>10, MutatesToEffect
<1>11. CASE \E c \in Client : MutationRefused(c)
  BY <1>11, MutationRefusedEffect
<1>12. CASE \E c \in Client : MutationSaved(c)
  BY <1>12, MutationSavedEffect
<1>13. CASE \E c \in Client : UpdateNotSaved(c)
  BY <1>13, UpdateNotSavedEffect
<1>14. CASE \E c \in Client : RenameNotSaved(c)
  BY <1>14, RenameNotSavedEffect
<1>15. CASE \E c \in Client : RollBack(c)
  BY <1>15, RollBackEffect
<1>16. CASE \E c \in Client, t \in Terminal, o \in {"delete", "archive"} :
         LockLifecycle(c, t, o)
  BY <1>16, LockLifecycleEffect
<1>17. CASE \E c \in Client : ClaimDelete(c)
  BY <1>17, ClaimDeleteEffect
<1>18. CASE \E c \in Client : LifecycleRefused(c)
  BY <1>18, LifecycleRefusedEffect
<1>19. CASE \E c \in Client : RemoveEntry(c)
  BY <1>19, RemoveEntryEffect
<1>20. CASE \E c \in Client : DeleteRefused(c)
  BY <1>20, DeleteRefusedEffect
<1>21. CASE \E c \in Client : OperationDropped(c)
  BY <1>21, OperationDroppedEffect
<1>22. CASE \E c \in Client : RowDeleted(c)
  BY <1>22, RowDeletedEffect
<1>23. CASE \E c \in Client : RowNotDeleted(c)
  BY <1>23, RowNotDeletedEffect
<1>24. CASE \E c \in Client : Reaped(c)
  BY <1>24, ReapedEffect
<1>25. CASE \E c \in Client : DeleteFailed(c)
  BY <1>25, DeleteFailedEffect
<1>26. CASE \E c \in Client : PrepareArchive(c)
  BY <1>26, PrepareArchiveEffect
<1>27. CASE \E c \in Client : LockForArchive(c)
  BY <1>27, LockForArchiveEffect
<1>28. CASE \E c \in Client : ArchiveNotLocked(c)
  BY <1>28, ArchiveNotLockedEffect
<1>29. CASE \E c \in Client : ReserveArchive(c)
  BY <1>29, ReserveArchiveEffect
<1>30. CASE \E c \in Client : ArchiveSealedOut(c)
  BY <1>30, ArchiveSealedOutEffect
<1>31. CASE \E c \in Client : ArchiveCancelled(c)
  BY <1>31, ArchiveCancelledEffect
<1>32. CASE \E c \in Client : ArchiveSaved(c)
  BY <1>32, ArchiveSavedEffect
<1>33. CASE \E c \in Client : ArchiveNotSaved(c)
  BY <1>33, ArchiveNotSavedEffect
<1>34. CASE \E c \in Client : CommitArchive(c)
  BY <1>34, CommitArchiveEffect
<1>35. CASE \E c \in Client : ArchiveReaped(c)
  BY <1>35, ArchiveReapedEffect
<1>36. CASE Restart
  BY <1>36, RestartEffect
<1>37. CASE UNCHANGED <<lifecycleMu, deleteInProgress, job>>
  BY <1>37
<1>38. QED
  BY Writers, <1>1, <1>2, <1>3, <1>4, <1>5, <1>6, <1>7, <1>8, <1>9, <1>10, <1>11, <1>12, <1>13,
    <1>14, <1>15, <1>16, <1>17, <1>18, <1>19, <1>20, <1>21, <1>22, <1>23, <1>24, <1>25, <1>26,
      <1>27, <1>28, <1>29, <1>30, <1>31, <1>32, <1>33, <1>34, <1>35, <1>36, <1>37

\* So does archive with its state of the terminal.
LEMMA ArchiveClaimStep ==
    ASSUME Typed, MutexInv, ArchiveClaim, [Next]_vars
    PROVE  ArchiveClaim'
<1> USE IdleIs, NoneFree DEF ArchiveClaim, ArchiveInProgress, LifecyclePC, ClaimedPC, RemovedPC,
        DeletingPC, PreparedPC, SnapshotPC, Sets, Alone, Goes, Keeps, MutexInv
<1>1. CASE \E c \in Client, t \in Terminal : BeginCreate(c, t)
  BY <1>1, BeginCreateEffect
<1>2. CASE \E c \in Client : \E from, to : Entering(from, to) /\ EnterPersist(c, from, to)
  BY <1>2, EnterPersistEffect DEF Entering
<1>3. CASE \E c \in Client : CreateSaved(c)
  BY <1>3, CreateSavedEffect
<1>4. CASE \E c \in Client : Register(c)
  BY <1>4, RegisterEffect
<1>5. CASE \E c \in Client : RegisterRefused(c)
  BY <1>5, RegisterRefusedEffect
<1>6. CASE \E c \in Client : CleanedUp(c)
  BY <1>6, CleanedUpEffect
<1>7. CASE \E c \in Client : Discarded(c)
  BY <1>7, DiscardedEffect
<1>8. CASE \E c \in Client : Announce(c)
  BY <1>8, AnnounceEffect
<1>9. CASE \E c \in Client, t \in Terminal, o \in {"rename", "updateAgent"} :
        BeginMutation(c, t, o)
  BY <1>9, BeginMutationEffect
<1>10. CASE \E c \in Client, new \in Row : MutatesTo(c, new)
  BY <1>10, MutatesToEffect
<1>11. CASE \E c \in Client : MutationRefused(c)
  BY <1>11, MutationRefusedEffect
<1>12. CASE \E c \in Client : MutationSaved(c)
  BY <1>12, MutationSavedEffect
<1>13. CASE \E c \in Client : UpdateNotSaved(c)
  BY <1>13, UpdateNotSavedEffect
<1>14. CASE \E c \in Client : RenameNotSaved(c)
  BY <1>14, RenameNotSavedEffect
<1>15. CASE \E c \in Client : RollBack(c)
  BY <1>15, RollBackEffect
<1>16. CASE \E c \in Client, t \in Terminal, o \in {"delete", "archive"} :
         LockLifecycle(c, t, o)
  BY <1>16, LockLifecycleEffect
<1>17. CASE \E c \in Client : ClaimDelete(c)
  BY <1>17, ClaimDeleteEffect
<1>18. CASE \E c \in Client : LifecycleRefused(c)
  BY <1>18, LifecycleRefusedEffect
<1>19. CASE \E c \in Client : RemoveEntry(c)
  BY <1>19, RemoveEntryEffect
<1>20. CASE \E c \in Client : DeleteRefused(c)
  BY <1>20, DeleteRefusedEffect
<1>21. CASE \E c \in Client : OperationDropped(c)
  BY <1>21, OperationDroppedEffect
<1>22. CASE \E c \in Client : RowDeleted(c)
  BY <1>22, RowDeletedEffect
<1>23. CASE \E c \in Client : RowNotDeleted(c)
  BY <1>23, RowNotDeletedEffect
<1>24. CASE \E c \in Client : Reaped(c)
  BY <1>24, ReapedEffect
<1>25. CASE \E c \in Client : DeleteFailed(c)
  BY <1>25, DeleteFailedEffect
<1>26. CASE \E c \in Client : PrepareArchive(c)
  BY <1>26, PrepareArchiveEffect
<1>27. CASE \E c \in Client : LockForArchive(c)
  BY <1>27, LockForArchiveEffect
<1>28. CASE \E c \in Client : ArchiveNotLocked(c)
  BY <1>28, ArchiveNotLockedEffect
<1>29. CASE \E c \in Client : ReserveArchive(c)
  BY <1>29, ReserveArchiveEffect
<1>30. CASE \E c \in Client : ArchiveSealedOut(c)
  BY <1>30, ArchiveSealedOutEffect
<1>31. CASE \E c \in Client : ArchiveCancelled(c)
  BY <1>31, ArchiveCancelledEffect
<1>32. CASE \E c \in Client : ArchiveSaved(c)
  BY <1>32, ArchiveSavedEffect
<1>33. CASE \E c \in Client : ArchiveNotSaved(c)
  BY <1>33, ArchiveNotSavedEffect
<1>34. CASE \E c \in Client : CommitArchive(c)
  BY <1>34, CommitArchiveEffect
<1>35. CASE \E c \in Client : ArchiveReaped(c)
  BY <1>35, ArchiveReapedEffect
<1>36. CASE Restart
  BY <1>36, RestartEffect
<1>37. CASE UNCHANGED <<lifecycleMu, archive, job>>
  BY <1>37
<1>38. QED
  BY Writers, <1>1, <1>2, <1>3, <1>4, <1>5, <1>6, <1>7, <1>8, <1>9, <1>10, <1>11, <1>12, <1>13,
    <1>14, <1>15, <1>16, <1>17, <1>18, <1>19, <1>20, <1>21, <1>22, <1>23, <1>24, <1>25, <1>26,
      <1>27, <1>28, <1>29, <1>30, <1>31, <1>32, <1>33, <1>34, <1>35, <1>36, <1>37

-----------------------------------------------------------------------------
(* Registration is kept *)

\* A create chooses a new identifier, so that no other call has it in hand.
LEMMA NewStep ==
    ASSUME Typed, AbsentInv, MutexInv, NewInv, HeldInv, DeleteClaim, WatchedInv,
           [Next]_vars
    PROVE  NewInv'
<1> USE IdleIs, NoneFree DEF NewInv, LifecyclePC, ClaimedPC, RemovedPC, DeletingPC, PreparedPC,
        SnapshotPC, UnregisteredPC, CreatePC, RegisteredPC, ExitSaving, Sets, Alone, Goes,
        Keeps, Typed, JobInv
<1>1. CASE \E c \in Client, t \in Terminal : BeginCreate(c, t)
  BY <1>1, BeginCreateEffect DEF AbsentInv
<1>2. CASE \E c \in Client : \E from, to : Entering(from, to) /\ EnterPersist(c, from, to)
  BY <1>2, EnterPersistEffect DEF Entering
<1>3. CASE \E c \in Client : CreateSaved(c)
  BY <1>3, CreateSavedEffect
<1>4. CASE \E c \in Client : Register(c)
  BY <1>4, RegisterEffect
<1>5. CASE \E c \in Client : RegisterRefused(c)
  BY <1>5, RegisterRefusedEffect
<1>6. CASE \E c \in Client : CleanedUp(c)
  BY <1>6, CleanedUpEffect
<1>7. CASE \E c \in Client : Discarded(c)
  BY <1>7, DiscardedEffect
<1>8. CASE \E c \in Client : Announce(c)
  BY <1>8, AnnounceEffect
<1>9. CASE \E c \in Client, t \in Terminal, o \in {"rename", "updateAgent"} :
        BeginMutation(c, t, o)
  BY <1>9, BeginMutationEffect
<1>10. CASE \E c \in Client, new \in Row : MutatesTo(c, new)
  BY <1>10, MutatesToEffect
<1>11. CASE \E c \in Client : MutationRefused(c)
  BY <1>11, MutationRefusedEffect
<1>12. CASE \E c \in Client : MutationSaved(c)
  BY <1>12, MutationSavedEffect
<1>13. CASE \E c \in Client : UpdateNotSaved(c)
  BY <1>13, UpdateNotSavedEffect
<1>14. CASE \E c \in Client : RenameNotSaved(c)
  BY <1>14, RenameNotSavedEffect
<1>15. CASE \E c \in Client : RollBack(c)
  BY <1>15, RollBackEffect
<1>16. CASE \E c \in Client, t \in Terminal, o \in {"delete", "archive"} :
         LockLifecycle(c, t, o)
  BY <1>16, LockLifecycleEffect
<1>17. CASE \E c \in Client : ClaimDelete(c)
  BY <1>17, ClaimDeleteEffect
<1>18. CASE \E c \in Client : LifecycleRefused(c)
  BY <1>18, LifecycleRefusedEffect
<1>19. CASE \E c \in Client : RemoveEntry(c)
  BY <1>19, RemoveEntryEffect
<1>20. CASE \E c \in Client : DeleteRefused(c)
  BY <1>20, DeleteRefusedEffect
<1>21. CASE \E c \in Client : OperationDropped(c)
  BY <1>21, OperationDroppedEffect
<1>22. CASE \E c \in Client : RowDeleted(c)
  BY <1>22, RowDeletedEffect
<1>23. CASE \E c \in Client : RowNotDeleted(c)
  BY <1>23, RowNotDeletedEffect
<1>24. CASE \E c \in Client : Reaped(c)
  BY <1>24, ReapedEffect
<1>25. CASE \E c \in Client : DeleteFailed(c)
  BY <1>25, DeleteFailedEffect
<1>26. CASE \E c \in Client : PrepareArchive(c)
  BY <1>26, PrepareArchiveEffect
<1>27. CASE \E c \in Client : LockForArchive(c)
  BY <1>27, LockForArchiveEffect
<1>28. CASE \E c \in Client : ArchiveNotLocked(c)
  BY <1>28, ArchiveNotLockedEffect
<1>29. CASE \E c \in Client : ReserveArchive(c)
  BY <1>29, ReserveArchiveEffect
<1>30. CASE \E c \in Client : ArchiveSealedOut(c)
  BY <1>30, ArchiveSealedOutEffect
<1>31. CASE \E c \in Client : ArchiveCancelled(c)
  BY <1>31, ArchiveCancelledEffect
<1>32. CASE \E c \in Client : ArchiveSaved(c)
  BY <1>32, ArchiveSavedEffect
<1>33. CASE \E c \in Client : ArchiveNotSaved(c)
  BY <1>33, ArchiveNotSavedEffect
<1>34. CASE \E c \in Client : CommitArchive(c)
  BY <1>34, CommitArchiveEffect
<1>35. CASE \E c \in Client : ArchiveReaped(c)
  BY <1>35, ArchiveReapedEffect
<1>36. CASE \E t \in Terminal : WatchDefersToArchive(t)
  BY <1>36, WatchDefersToArchiveEffect
<1>37. CASE \E t \in Terminal : WatchArchiveReady(t)
  BY <1>37, WatchArchiveReadyEffect
<1>38. CASE \E t \in Terminal : WatchStandsBack(t)
  BY <1>38, WatchStandsBackEffect
<1>39. CASE \E t \in Terminal : WatchRemoves(t)
  BY <1>39, WatchRemovesEffect
<1>40. CASE \E t \in Terminal : WatchEntersPersist(t)
  BY <1>40, WatchEntersPersistEffect
<1>41. CASE \E t \in Terminal : WatchSaves(t)
  BY <1>41, WatchSavesEffect
<1>42. CASE \E t \in Terminal : WatchRetries(t)
  BY <1>42, WatchRetriesEffect DEF TriesAgain
<1>43. CASE \E t \in Terminal : WatchPublishes(t)
  BY <1>43, WatchPublishesEffect
<1>44. CASE Restart
  BY <1>44, RestartEffect
<1>45. CASE UNCHANGED <<sessions, archived, watcher, job>>
  BY <1>45
<1>46. QED
  BY Writers, <1>1, <1>2, <1>3, <1>4, <1>5, <1>6, <1>7, <1>8, <1>9, <1>10, <1>11, <1>12, <1>13,
    <1>14, <1>15, <1>16, <1>17, <1>18, <1>19, <1>20, <1>21, <1>22, <1>23, <1>24, <1>25, <1>26,
      <1>27, <1>28, <1>29, <1>30, <1>31, <1>32, <1>33, <1>34, <1>35, <1>36, <1>37, <1>38,
        <1>39, <1>40, <1>41, <1>42, <1>43, <1>44, <1>45

\* A terminal gets its first trace from the create that starts its shell.
LEMMA AbsentStep ==
    ASSUME Typed, MutexInv, NewInv, HeldInv, AbsentInv, [Next]_vars
    PROVE  AbsentInv'
<1> USE IdleIs, NoneFree DEF AbsentInv, RegisteredPC, PreparedPC, SnapshotPC, Sets, Alone, Goes,
        Keeps, Writes, Running, NoRow, WriteFails, HeldInv
<1>1. CASE \E c \in Client, t \in Terminal : BeginCreate(c, t)
  BY <1>1, BeginCreateEffect
<1>2. CASE \E c \in Client : \E from, to : Entering(from, to) /\ EnterPersist(c, from, to)
  BY <1>2, EnterPersistEffect DEF Entering
<1>3. CASE \E c \in Client : CreateSaved(c)
  BY <1>3, CreateSavedEffect
<1>4. CASE \E c \in Client : Register(c)
  BY <1>4, RegisterEffect
<1>5. CASE \E c \in Client : RegisterRefused(c)
  BY <1>5, RegisterRefusedEffect
<1>6. CASE \E c \in Client : CleanedUp(c)
  BY <1>6, CleanedUpEffect
<1>7. CASE \E c \in Client : Discarded(c)
  BY <1>7, DiscardedEffect
<1>8. CASE \E c \in Client : Announce(c)
  BY <1>8, AnnounceEffect
<1>9. CASE \E c \in Client, t \in Terminal, o \in {"rename", "updateAgent"} :
        BeginMutation(c, t, o)
  BY <1>9, BeginMutationEffect
<1>10. CASE \E c \in Client, new \in Row : MutatesTo(c, new)
  BY <1>10, MutatesToEffect
<1>11. CASE \E c \in Client : MutationRefused(c)
  BY <1>11, MutationRefusedEffect
<1>12. CASE \E c \in Client : MutationSaved(c)
  BY <1>12, MutationSavedEffect
<1>13. CASE \E c \in Client : UpdateNotSaved(c)
  BY <1>13, UpdateNotSavedEffect
<1>14. CASE \E c \in Client : RenameNotSaved(c)
  BY <1>14, RenameNotSavedEffect
<1>15. CASE \E c \in Client : RollBack(c)
  BY <1>15, RollBackEffect
<1>16. CASE \E c \in Client, t \in Terminal, o \in {"delete", "archive"} :
         LockLifecycle(c, t, o)
  BY <1>16, LockLifecycleEffect
<1>17. CASE \E c \in Client : ClaimDelete(c)
  BY <1>17, ClaimDeleteEffect
<1>18. CASE \E c \in Client : LifecycleRefused(c)
  BY <1>18, LifecycleRefusedEffect
<1>19. CASE \E c \in Client : RemoveEntry(c)
  BY <1>19, RemoveEntryEffect
<1>20. CASE \E c \in Client : DeleteRefused(c)
  BY <1>20, DeleteRefusedEffect
<1>21. CASE \E c \in Client : OperationDropped(c)
  BY <1>21, OperationDroppedEffect
<1>22. CASE \E c \in Client : RowDeleted(c)
  BY <1>22, RowDeletedEffect
<1>23. CASE \E c \in Client : RowNotDeleted(c)
  BY <1>23, RowNotDeletedEffect
<1>24. CASE \E c \in Client : Reaped(c)
  BY <1>24, ReapedEffect
<1>25. CASE \E c \in Client : DeleteFailed(c)
  BY <1>25, DeleteFailedEffect
<1>26. CASE \E c \in Client : PrepareArchive(c)
  BY <1>26, PrepareArchiveEffect
<1>27. CASE \E c \in Client : LockForArchive(c)
  BY <1>27, LockForArchiveEffect
<1>28. CASE \E c \in Client : ArchiveNotLocked(c)
  BY <1>28, ArchiveNotLockedEffect
<1>29. CASE \E c \in Client : ReserveArchive(c)
  BY <1>29, ReserveArchiveEffect
<1>30. CASE \E c \in Client : ArchiveSealedOut(c)
  BY <1>30, ArchiveSealedOutEffect
<1>31. CASE \E c \in Client : ArchiveCancelled(c)
  BY <1>31, ArchiveCancelledEffect
<1>32. CASE \E c \in Client : ArchiveSaved(c)
  BY <1>32, ArchiveSavedEffect
<1>33. CASE \E c \in Client : ArchiveNotSaved(c)
  BY <1>33, ArchiveNotSavedEffect
<1>34. CASE \E c \in Client : CommitArchive(c)
  BY <1>34, CommitArchiveEffect
<1>35. CASE \E c \in Client : ArchiveReaped(c)
  BY <1>35, ArchiveReapedEffect
<1>36. CASE \E t \in Terminal : ProcessExits(t)
  BY <1>36, ProcessExitsEffect
<1>37. CASE \E t \in Terminal : WatchDefersToArchive(t)
  BY <1>37, WatchDefersToArchiveEffect
<1>38. CASE \E t \in Terminal : WatchArchiveReady(t)
  BY <1>38, WatchArchiveReadyEffect
<1>39. CASE \E t \in Terminal : WatchStandsBack(t)
  BY <1>39, WatchStandsBackEffect
<1>40. CASE \E t \in Terminal : WatchRemoves(t)
  BY <1>40, WatchRemovesEffect
<1>41. CASE \E t \in Terminal : WatchEntersPersist(t)
  BY <1>41, WatchEntersPersistEffect
<1>42. CASE \E t \in Terminal : WatchSaves(t)
  BY <1>42, WatchSavesEffect
<1>43. CASE \E t \in Terminal : WatchRetries(t)
  BY <1>43, WatchRetriesEffect DEF TriesAgain
<1>44. CASE \E t \in Terminal : WatchPublishes(t)
  BY <1>44, WatchPublishesEffect
<1>45. CASE Restart
  BY <1>45, RestartEffect
<1>46. CASE UNCHANGED <<sessions, archived, process, watcher, rows, job, deleted>>
  BY <1>46
<1>47. QED
  BY Writers, <1>1, <1>2, <1>3, <1>4, <1>5, <1>6, <1>7, <1>8, <1>9, <1>10, <1>11, <1>12, <1>13,
    <1>14, <1>15, <1>16, <1>17, <1>18, <1>19, <1>20, <1>21, <1>22, <1>23, <1>24, <1>25, <1>26,
      <1>27, <1>28, <1>29, <1>30, <1>31, <1>32, <1>33, <1>34, <1>35, <1>36, <1>37, <1>38,
        <1>39, <1>40, <1>41, <1>42, <1>43, <1>44, <1>45, <1>46

\* The watcher that removes an entry and the delete that claims it exclude
\* each other: deleteInProgress is read under the lock that removes.
LEMMA WatchedStep ==
    ASSUME Typed, MutexInv, NewInv, HeldInv, DeleteClaim, ArchiveClaim, WatchedInv,
           AbsentInv, [Next]_vars
    PROVE  WatchedInv'
<1> USE IdleIs, NoneFree DEF WatchedInv, ExitSaving, Sets, Alone, Goes, Keeps, HeldInv
<1>1. CASE \E c \in Client, t \in Terminal : BeginCreate(c, t)
  BY <1>1, BeginCreateEffect
<1>2. CASE \E c \in Client : Register(c)
  BY <1>2, RegisterEffect DEF NewInv, UnregisteredPC, CreatePC
<1>3. CASE \E c \in Client : Announce(c)
  BY <1>3, AnnounceEffect
<1>4. CASE \E c \in Client : ClaimDelete(c)
  BY <1>4, ClaimDeleteEffect
<1>5. CASE \E c \in Client : RemoveEntry(c)
  BY <1>5, RemoveEntryEffect
<1>6. CASE \E c \in Client : OperationDropped(c)
  BY <1>6, OperationDroppedEffect
<1>7. CASE \E c \in Client : RowNotDeleted(c)
  BY <1>7, RowNotDeletedEffect
  DEF MutexInv, DeleteClaim, LifecyclePC, ClaimedPC, RemovedPC, DeletingPC
<1>8. CASE \E c \in Client : Reaped(c)
  BY <1>8, ReapedEffect
<1>9. CASE \E c \in Client : DeleteFailed(c)
  BY <1>9, DeleteFailedEffect
<1>10. CASE \E c \in Client : ArchiveReaped(c)
  BY <1>10, ArchiveReapedEffect
  DEF MutexInv, ArchiveClaim, DeleteClaim, LifecyclePC, ClaimedPC, RemovedPC, DeletingPC,
        PreparedPC
<1>11. CASE \E t \in Terminal : ProcessExits(t)
  BY <1>11, ProcessExitsEffect
<1>12. CASE \E t \in Terminal : WatchDefersToArchive(t)
  BY <1>12, WatchDefersToArchiveEffect
<1>13. CASE \E t \in Terminal : WatchArchiveReady(t)
  BY <1>13, WatchArchiveReadyEffect DEF AfterArchive
<1>14. CASE \E t \in Terminal : WatchStandsBack(t)
  BY <1>14, WatchStandsBackEffect
<1>15. CASE \E t \in Terminal : WatchRemoves(t)
  BY <1>15, WatchRemovesEffect
<1>16. CASE \E t \in Terminal : WatchEntersPersist(t)
  BY <1>16, WatchEntersPersistEffect
<1>17. CASE \E t \in Terminal : WatchSaves(t)
  BY <1>17, WatchSavesEffect
<1>18. CASE \E t \in Terminal : WatchRetries(t)
  BY <1>18, WatchRetriesEffect DEF TriesAgain
<1>19. CASE \E t \in Terminal : WatchPublishes(t)
  BY <1>19, WatchPublishesEffect
<1>20. CASE Restart
  BY <1>20, RestartEffect DEF Running
<1>21. CASE UNCHANGED <<sessions, archived, deleteInProgress, process, watcher>>
  BY <1>21
<1>22. QED
  BY Writers, <1>1, <1>2, <1>3, <1>4, <1>5, <1>6, <1>7, <1>8, <1>9, <1>10, <1>11, <1>12, <1>13,
    <1>14, <1>15, <1>16, <1>17, <1>18, <1>19, <1>20, <1>21

\* Nothing but the claimant removes a claimed entry.
LEMMA HeldStep ==
    ASSUME Typed, MutexInv, NewInv, HeldInv, DeleteClaim, ArchiveClaim, [Next]_vars
    PROVE  HeldInv'
<1> USE IdleIs, NoneFree DEF HeldInv, LifecyclePC, ClaimedPC, RemovedPC, DeletingPC, PreparedPC,
        SnapshotPC, UnregisteredPC, CreatePC, RegisteredPC, Sets, Alone, Goes, Keeps, MutexInv,
        DeleteClaim, ArchiveClaim, ArchiveInProgress, NewInv
<1>1. CASE \E c \in Client, t \in Terminal : BeginCreate(c, t)
  BY <1>1, BeginCreateEffect
<1>2. CASE \E c \in Client : \E from, to : Entering(from, to) /\ EnterPersist(c, from, to)
  BY <1>2, EnterPersistEffect DEF Entering
<1>3. CASE \E c \in Client : CreateSaved(c)
  BY <1>3, CreateSavedEffect
<1>4. CASE \E c \in Client : Register(c)
  BY <1>4, RegisterEffect
<1>5. CASE \E c \in Client : RegisterRefused(c)
  BY <1>5, RegisterRefusedEffect
<1>6. CASE \E c \in Client : CleanedUp(c)
  BY <1>6, CleanedUpEffect
<1>7. CASE \E c \in Client : Discarded(c)
  BY <1>7, DiscardedEffect
<1>8. CASE \E c \in Client : Announce(c)
  BY <1>8, AnnounceEffect
<1>9. CASE \E c \in Client, t \in Terminal, o \in {"rename", "updateAgent"} :
        BeginMutation(c, t, o)
  BY <1>9, BeginMutationEffect
<1>10. CASE \E c \in Client, new \in Row : MutatesTo(c, new)
  BY <1>10, MutatesToEffect
<1>11. CASE \E c \in Client : MutationRefused(c)
  BY <1>11, MutationRefusedEffect
<1>12. CASE \E c \in Client : MutationSaved(c)
  BY <1>12, MutationSavedEffect
<1>13. CASE \E c \in Client : UpdateNotSaved(c)
  BY <1>13, UpdateNotSavedEffect
<1>14. CASE \E c \in Client : RenameNotSaved(c)
  BY <1>14, RenameNotSavedEffect
<1>15. CASE \E c \in Client : RollBack(c)
  BY <1>15, RollBackEffect
<1>16. CASE \E c \in Client, t \in Terminal, o \in {"delete", "archive"} :
         LockLifecycle(c, t, o)
  BY <1>16, LockLifecycleEffect
<1>17. CASE \E c \in Client : ClaimDelete(c)
  BY <1>17, ClaimDeleteEffect
<1>18. CASE \E c \in Client : LifecycleRefused(c)
  BY <1>18, LifecycleRefusedEffect
<1>19. CASE \E c \in Client : RemoveEntry(c)
  BY <1>19, RemoveEntryEffect
<1>20. CASE \E c \in Client : DeleteRefused(c)
  BY <1>20, DeleteRefusedEffect
<1>21. CASE \E c \in Client : OperationDropped(c)
  BY <1>21, OperationDroppedEffect
<1>22. CASE \E c \in Client : RowDeleted(c)
  BY <1>22, RowDeletedEffect
<1>23. CASE \E c \in Client : RowNotDeleted(c)
  BY <1>23, RowNotDeletedEffect
<1>24. CASE \E c \in Client : Reaped(c)
  BY <1>24, ReapedEffect
<1>25. CASE \E c \in Client : DeleteFailed(c)
  BY <1>25, DeleteFailedEffect
<1>26. CASE \E c \in Client : PrepareArchive(c)
  BY <1>26, PrepareArchiveEffect
<1>27. CASE \E c \in Client : LockForArchive(c)
  BY <1>27, LockForArchiveEffect
<1>28. CASE \E c \in Client : ArchiveNotLocked(c)
  BY <1>28, ArchiveNotLockedEffect
<1>29. CASE \E c \in Client : ReserveArchive(c)
  BY <1>29, ReserveArchiveEffect
<1>30. CASE \E c \in Client : ArchiveSealedOut(c)
  BY <1>30, ArchiveSealedOutEffect
<1>31. CASE \E c \in Client : ArchiveCancelled(c)
  BY <1>31, ArchiveCancelledEffect
<1>32. CASE \E c \in Client : ArchiveSaved(c)
  BY <1>32, ArchiveSavedEffect
<1>33. CASE \E c \in Client : ArchiveNotSaved(c)
  BY <1>33, ArchiveNotSavedEffect
<1>34. CASE \E c \in Client : CommitArchive(c)
  BY <1>34, CommitArchiveEffect
<1>35. CASE \E c \in Client : ArchiveReaped(c)
  BY <1>35, ArchiveReapedEffect
<1>36. CASE \E t \in Terminal : WatchRemoves(t)
  BY <1>36, WatchRemovesEffect
<1>37. CASE Restart
  BY <1>37, RestartEffect
<1>38. CASE UNCHANGED <<sessions, job>>
  BY <1>38
<1>39. QED
  BY Writers, <1>1, <1>2, <1>3, <1>4, <1>5, <1>6, <1>7, <1>8, <1>9, <1>10, <1>11, <1>12, <1>13,
    <1>14, <1>15, <1>16, <1>17, <1>18, <1>19, <1>20, <1>21, <1>22, <1>23, <1>24, <1>25, <1>26,
      <1>27, <1>28, <1>29, <1>30, <1>31, <1>32, <1>33, <1>34, <1>35, <1>36, <1>37, <1>38

-----------------------------------------------------------------------------
(* Tickets are kept *)

\* Close goes through its stages once; its ticket moves with them.
LEMMA CloserStep ==
    ASSUME Typed, CloserInv, JobTickets, WatchTickets, [Next]_vars
    PROVE  CloserInv'
<1> USE IdleIs, NoneFree, CloseOp DEF CloserInv, Sets, Alone, Goes, Keeps, MovesTo, SameQueue,
        JobTickets, JobTicket, WaitingPC, RunningPC, WatchTickets, WatchTicket
<1>1. CASE \E c \in Client, t \in Terminal : BeginCreate(c, t)
  BY <1>1, BeginCreateEffect, Reserves
<1>2. CASE \E c \in Client : \E from, to : Entering(from, to) /\ EnterPersist(c, from, to)
  BY <1>2, EnterPersistEffect, Starts DEF Entering
<1>3. CASE \E c \in Client : CreateSaved(c)
  BY <1>3, CreateSavedEffect, Finishes
<1>4. CASE \E c \in Client : RegisterRefused(c)
  BY <1>4, RegisterRefusedEffect, Reserves
<1>5. CASE \E c \in Client : CleanedUp(c)
  BY <1>5, CleanedUpEffect, Finishes
<1>6. CASE \E c \in Client : Discarded(c)
  BY <1>6, DiscardedEffect
<1>7. CASE \E c \in Client : Announce(c)
  BY <1>7, AnnounceEffect
<1>8. CASE \E c \in Client, new \in Row : MutatesTo(c, new)
  BY <1>8, MutatesToEffect, Reserves
<1>9. CASE \E c \in Client : MutationSaved(c)
  BY <1>9, MutationSavedEffect, Finishes
<1>10. CASE \E c \in Client : UpdateNotSaved(c)
  BY <1>10, UpdateNotSavedEffect, Finishes
<1>11. CASE \E c \in Client : RenameNotSaved(c)
  BY <1>11, RenameNotSavedEffect, Finishes
<1>12. CASE \E c \in Client : ClaimDelete(c)
  BY <1>12, ClaimDeleteEffect, Reserves
<1>13. CASE \E c \in Client : OperationDropped(c)
  BY <1>13, OperationDroppedEffect, Finishes
<1>14. CASE \E c \in Client : Reaped(c)
  BY <1>14, ReapedEffect, Finishes
<1>15. CASE \E c \in Client : DeleteFailed(c)
  BY <1>15, DeleteFailedEffect, Finishes
<1>16. CASE \E c \in Client : ReserveArchive(c)
  BY <1>16, ReserveArchiveEffect, Reserves
<1>17. CASE \E c \in Client : ArchiveCancelled(c)
  BY <1>17, ArchiveCancelledEffect, Cancels
<1>18. CASE \E c \in Client : ArchiveSaved(c)
  BY <1>18, ArchiveSavedEffect, Finishes
<1>19. CASE \E c \in Client : ArchiveNotSaved(c)
  BY <1>19, ArchiveNotSavedEffect, Finishes
<1>20. CASE \E t \in Terminal : WatchRemoves(t)
  BY <1>20, WatchRemovesEffect, Reserves
<1>21. CASE \E t \in Terminal : WatchEntersPersist(t)
  BY <1>21, WatchEntersPersistEffect, Starts
<1>22. CASE \E t \in Terminal : WatchSaves(t)
  BY <1>22, WatchSavesEffect, Finishes DEF AfterFailedSave
<1>23. CASE \E t \in Terminal : WatchRetries(t)
  BY <1>23, WatchRetriesEffect, Reserves DEF TriesAgain, queueVars
<1>24. CASE BeginClose
  BY <1>24, BeginCloseEffect
<1>25. CASE SealStore
  BY <1>25, SealStoreEffect, Seals
<1>26. CASE TerminateSessions
  BY <1>26, TerminateSessionsEffect
<1>27. CASE EnterStoreClose
  <2>1. closeOperation \in Queue!Operation
    BY <1>27, EnterStoreCloseEffect, CloseOp DEF CloserInv
  <2>2. phase[closeOperation] = "waiting" /\ MovesTo(closeOperation, "running") /\ SameQueue
    BY <1>27, <2>1, Starts, EnterStoreCloseEffect
  <2>3. QED
    BY <1>27, <2>1, <2>2, EnterStoreCloseEffect DEF MovesTo, SameQueue
<1>28. CASE CloseStore
  <2>1. closeOperation \in Queue!Operation
    BY <1>28, CloseStoreEffect, CloseOp DEF CloserInv
  <2>2. phase[closeOperation] = "running" /\ MovesTo(closeOperation, "persisted") /\ SameQueue
    BY <1>28, <2>1, Finishes, CloseStoreEffect
  <2>3. QED
    BY <1>28, <2>1, <2>2, CloseStoreEffect DEF MovesTo, SameQueue
<1>29. CASE Restart
  BY <1>29, RestartEffect
<1>30. CASE UNCHANGED <<closing, creating, storeSequence, phase, storeSealed, closeOperation,
         closer,
          closeItems>>
  BY <1>30
<1>31. QED
  BY Writers, <1>1, <1>2, <1>3, <1>4, <1>5, <1>6, <1>7, <1>8, <1>9, <1>10, <1>11, <1>12, <1>13,
    <1>14, <1>15, <1>16, <1>17, <1>18, <1>19, <1>20, <1>21, <1>22, <1>23, <1>24, <1>25, <1>26,
      <1>27, <1>28, <1>29, <1>30

\* No call moves the ticket of another call.
LEMMA JobTicketsStep ==
    ASSUME Typed, JobTickets, WatchTickets, DistinctTickets, CloserInv, [Next]_vars
    PROVE  JobTickets'
<1> USE IdleIs, NoneFree, CloseOp DEF JobTickets, JobTicket, WatchTickets, WatchTicket,
        WaitingPC, RunningPC, Sets, Alone, Goes, Keeps, MovesTo, SameQueue, DistinctTickets
<1>1. CASE \E c \in Client, t \in Terminal : BeginCreate(c, t)
  BY <1>1, BeginCreateEffect, Reserves
<1>2. CASE \E c \in Client : \E from, to : Entering(from, to) /\ EnterPersist(c, from, to)
  BY <1>2, EnterPersistEffect, Starts DEF Entering
<1>3. CASE \E c \in Client : CreateSaved(c)
  BY <1>3, CreateSavedEffect, Finishes
<1>4. CASE \E c \in Client : Register(c)
  BY <1>4, RegisterEffect
<1>5. CASE \E c \in Client : RegisterRefused(c)
  BY <1>5, RegisterRefusedEffect, Reserves
<1>6. CASE \E c \in Client : CleanedUp(c)
  BY <1>6, CleanedUpEffect, Finishes
<1>7. CASE \E c \in Client : Discarded(c)
  BY <1>7, DiscardedEffect
<1>8. CASE \E c \in Client : Announce(c)
  BY <1>8, AnnounceEffect
<1>9. CASE \E c \in Client, t \in Terminal, o \in {"rename", "updateAgent"} :
        BeginMutation(c, t, o)
  BY <1>9, BeginMutationEffect
<1>10. CASE \E c \in Client, new \in Row : MutatesTo(c, new)
  BY <1>10, MutatesToEffect, Reserves
<1>11. CASE \E c \in Client : MutationRefused(c)
  BY <1>11, MutationRefusedEffect
<1>12. CASE \E c \in Client : MutationSaved(c)
  BY <1>12, MutationSavedEffect, Finishes
<1>13. CASE \E c \in Client : UpdateNotSaved(c)
  BY <1>13, UpdateNotSavedEffect, Finishes
<1>14. CASE \E c \in Client : RenameNotSaved(c)
  BY <1>14, RenameNotSavedEffect, Finishes
<1>15. CASE \E c \in Client : RollBack(c)
  BY <1>15, RollBackEffect
<1>16. CASE \E c \in Client, t \in Terminal, o \in {"delete", "archive"} :
         LockLifecycle(c, t, o)
  BY <1>16, LockLifecycleEffect
<1>17. CASE \E c \in Client : ClaimDelete(c)
  BY <1>17, ClaimDeleteEffect, Reserves
<1>18. CASE \E c \in Client : LifecycleRefused(c)
  BY <1>18, LifecycleRefusedEffect
<1>19. CASE \E c \in Client : RemoveEntry(c)
  BY <1>19, RemoveEntryEffect
<1>20. CASE \E c \in Client : DeleteRefused(c)
  BY <1>20, DeleteRefusedEffect
<1>21. CASE \E c \in Client : OperationDropped(c)
  BY <1>21, OperationDroppedEffect, Finishes
<1>22. CASE \E c \in Client : RowDeleted(c)
  BY <1>22, RowDeletedEffect
<1>23. CASE \E c \in Client : RowNotDeleted(c)
  BY <1>23, RowNotDeletedEffect
<1>24. CASE \E c \in Client : Reaped(c)
  BY <1>24, ReapedEffect, Finishes
<1>25. CASE \E c \in Client : DeleteFailed(c)
  BY <1>25, DeleteFailedEffect, Finishes
<1>26. CASE \E c \in Client : PrepareArchive(c)
  BY <1>26, PrepareArchiveEffect
<1>27. CASE \E c \in Client : LockForArchive(c)
  BY <1>27, LockForArchiveEffect
<1>28. CASE \E c \in Client : ArchiveNotLocked(c)
  BY <1>28, ArchiveNotLockedEffect
<1>29. CASE \E c \in Client : ReserveArchive(c)
  BY <1>29, ReserveArchiveEffect, Reserves
<1>30. CASE \E c \in Client : ArchiveSealedOut(c)
  BY <1>30, ArchiveSealedOutEffect
<1>31. CASE \E c \in Client : ArchiveCancelled(c)
  BY <1>31, ArchiveCancelledEffect, Cancels
<1>32. CASE \E c \in Client : ArchiveSaved(c)
  BY <1>32, ArchiveSavedEffect, Finishes
<1>33. CASE \E c \in Client : ArchiveNotSaved(c)
  BY <1>33, ArchiveNotSavedEffect, Finishes
<1>34. CASE \E c \in Client : CommitArchive(c)
  BY <1>34, CommitArchiveEffect
<1>35. CASE \E c \in Client : ArchiveReaped(c)
  BY <1>35, ArchiveReapedEffect
<1>36. CASE \E t \in Terminal : WatchRemoves(t)
  BY <1>36, WatchRemovesEffect, Reserves
<1>37. CASE \E t \in Terminal : WatchEntersPersist(t)
  BY <1>37, WatchEntersPersistEffect, Starts
<1>38. CASE \E t \in Terminal : WatchSaves(t)
  BY <1>38, WatchSavesEffect, Finishes DEF AfterFailedSave
<1>39. CASE \E t \in Terminal : WatchRetries(t)
  BY <1>39, WatchRetriesEffect, Reserves DEF TriesAgain, queueVars
<1>40. CASE SealStore
  BY <1>40, SealStoreEffect, Seals
<1>41. CASE EnterStoreClose
  <2>1. closeOperation \in Queue!Operation
    BY <1>41, EnterStoreCloseEffect, CloseOp DEF CloserInv
  <2>2. phase[closeOperation] = "waiting" /\ MovesTo(closeOperation, "running") /\ SameQueue
    BY <1>41, <2>1, Starts, EnterStoreCloseEffect
  <2>3. QED
    BY <1>41, <2>1, <2>2, EnterStoreCloseEffect DEF MovesTo, SameQueue
<1>42. CASE CloseStore
  <2>1. closeOperation \in Queue!Operation
    BY <1>42, CloseStoreEffect, CloseOp DEF CloserInv
  <2>2. phase[closeOperation] = "running" /\ MovesTo(closeOperation, "persisted") /\ SameQueue
    BY <1>42, <2>1, Finishes, CloseStoreEffect
  <2>3. QED
    BY <1>42, <2>1, <2>2, CloseStoreEffect DEF MovesTo, SameQueue
<1>43. CASE Restart
  BY <1>43, RestartEffect
<1>44. CASE UNCHANGED <<storeSequence, phase, storeSealed, closeOperation, job>>
  BY <1>44
<1>45. QED
  BY Writers, <1>1, <1>2, <1>3, <1>4, <1>5, <1>6, <1>7, <1>8, <1>9, <1>10, <1>11, <1>12, <1>13,
    <1>14, <1>15, <1>16, <1>17, <1>18, <1>19, <1>20, <1>21, <1>22, <1>23, <1>24, <1>25, <1>26,
      <1>27, <1>28, <1>29, <1>30, <1>31, <1>32, <1>33, <1>34, <1>35, <1>36, <1>37, <1>38,
        <1>39, <1>40, <1>41, <1>42, <1>43, <1>44

\* No call moves the ticket of a watcher.
LEMMA WatchTicketsStep ==
    ASSUME Typed, JobTickets, WatchTickets, DistinctTickets, CloserInv, [Next]_vars
    PROVE  WatchTickets'
<1> USE IdleIs, NoneFree, CloseOp DEF JobTickets, JobTicket, WatchTickets, WatchTicket,
        WaitingPC, RunningPC, Sets, Alone, Goes, Keeps, MovesTo, SameQueue, DistinctTickets
<1>1. CASE \E c \in Client, t \in Terminal : BeginCreate(c, t)
  BY <1>1, BeginCreateEffect, Reserves
<1>2. CASE \E c \in Client : \E from, to : Entering(from, to) /\ EnterPersist(c, from, to)
  BY <1>2, EnterPersistEffect, Starts DEF Entering
<1>3. CASE \E c \in Client : CreateSaved(c)
  BY <1>3, CreateSavedEffect, Finishes
<1>4. CASE \E c \in Client : RegisterRefused(c)
  BY <1>4, RegisterRefusedEffect, Reserves
<1>5. CASE \E c \in Client : CleanedUp(c)
  BY <1>5, CleanedUpEffect, Finishes
<1>6. CASE \E c \in Client : Announce(c)
  BY <1>6, AnnounceEffect
<1>7. CASE \E c \in Client, new \in Row : MutatesTo(c, new)
  BY <1>7, MutatesToEffect, Reserves
<1>8. CASE \E c \in Client : MutationSaved(c)
  BY <1>8, MutationSavedEffect, Finishes
<1>9. CASE \E c \in Client : UpdateNotSaved(c)
  BY <1>9, UpdateNotSavedEffect, Finishes
<1>10. CASE \E c \in Client : RenameNotSaved(c)
  BY <1>10, RenameNotSavedEffect, Finishes
<1>11. CASE \E c \in Client : ClaimDelete(c)
  BY <1>11, ClaimDeleteEffect, Reserves
<1>12. CASE \E c \in Client : OperationDropped(c)
  BY <1>12, OperationDroppedEffect, Finishes
<1>13. CASE \E c \in Client : Reaped(c)
  BY <1>13, ReapedEffect, Finishes
<1>14. CASE \E c \in Client : DeleteFailed(c)
  BY <1>14, DeleteFailedEffect, Finishes
<1>15. CASE \E c \in Client : ReserveArchive(c)
  BY <1>15, ReserveArchiveEffect, Reserves
<1>16. CASE \E c \in Client : ArchiveCancelled(c)
  BY <1>16, ArchiveCancelledEffect, Cancels
<1>17. CASE \E c \in Client : ArchiveSaved(c)
  BY <1>17, ArchiveSavedEffect, Finishes
<1>18. CASE \E c \in Client : ArchiveNotSaved(c)
  BY <1>18, ArchiveNotSavedEffect, Finishes
<1>19. CASE \E t \in Terminal : WatchDefersToArchive(t)
  BY <1>19, WatchDefersToArchiveEffect
<1>20. CASE \E t \in Terminal : WatchArchiveReady(t)
  BY <1>20, WatchArchiveReadyEffect DEF AfterArchive
<1>21. CASE \E t \in Terminal : WatchStandsBack(t)
  BY <1>21, WatchStandsBackEffect
<1>22. CASE \E t \in Terminal : WatchRemoves(t)
  BY <1>22, WatchRemovesEffect, Reserves
<1>23. CASE \E t \in Terminal : WatchEntersPersist(t)
  BY <1>23, WatchEntersPersistEffect, Starts
<1>24. CASE \E t \in Terminal : WatchSaves(t)
  BY <1>24, WatchSavesEffect, Finishes DEF AfterFailedSave
<1>25. CASE \E t \in Terminal : WatchRetries(t)
  BY <1>25, WatchRetriesEffect, Reserves DEF TriesAgain, queueVars
<1>26. CASE \E t \in Terminal : WatchPublishes(t)
  BY <1>26, WatchPublishesEffect
<1>27. CASE SealStore
  BY <1>27, SealStoreEffect, Seals
<1>28. CASE EnterStoreClose
  <2>1. closeOperation \in Queue!Operation
    BY <1>28, EnterStoreCloseEffect, CloseOp DEF CloserInv
  <2>2. phase[closeOperation] = "waiting" /\ MovesTo(closeOperation, "running") /\ SameQueue
    BY <1>28, <2>1, Starts, EnterStoreCloseEffect
  <2>3. QED
    BY <1>28, <2>1, <2>2, EnterStoreCloseEffect DEF MovesTo, SameQueue
<1>29. CASE CloseStore
  <2>1. closeOperation \in Queue!Operation
    BY <1>29, CloseStoreEffect, CloseOp DEF CloserInv
  <2>2. phase[closeOperation] = "running" /\ MovesTo(closeOperation, "persisted") /\ SameQueue
    BY <1>29, <2>1, Finishes, CloseStoreEffect
  <2>3. QED
    BY <1>29, <2>1, <2>2, CloseStoreEffect DEF MovesTo, SameQueue
<1>30. CASE Restart
  BY <1>30, RestartEffect
<1>31. CASE UNCHANGED <<watcher, storeSequence, phase, storeSealed, closeOperation, exit>>
  BY <1>31
<1>32. QED
  BY Writers, <1>1, <1>2, <1>3, <1>4, <1>5, <1>6, <1>7, <1>8, <1>9, <1>10, <1>11, <1>12, <1>13,
    <1>14, <1>15, <1>16, <1>17, <1>18, <1>19, <1>20, <1>21, <1>22, <1>23, <1>24, <1>25, <1>26,
      <1>27, <1>28, <1>29, <1>30, <1>31

\* A reserved ticket is a new one.
LEMMA DistinctStep ==
    ASSUME Typed, JobTickets, WatchTickets, DistinctTickets, [Next]_vars
    PROVE  DistinctTickets'
<1> USE IdleIs, NoneFree, CloseOp DEF DistinctTickets, JobTicket, WatchTicket, WaitingPC,
        RunningPC, Sets, Alone, Goes, Keeps, JobTickets, WatchTickets
<1>1. CASE \E c \in Client, t \in Terminal : BeginCreate(c, t)
  BY <1>1, BeginCreateEffect, Reserves
<1>2. CASE \E c \in Client : \E from, to : Entering(from, to) /\ EnterPersist(c, from, to)
  BY <1>2, EnterPersistEffect, Starts DEF Entering
<1>3. CASE \E c \in Client : CreateSaved(c)
  BY <1>3, CreateSavedEffect, Finishes
<1>4. CASE \E c \in Client : Register(c)
  BY <1>4, RegisterEffect
<1>5. CASE \E c \in Client : RegisterRefused(c)
  BY <1>5, RegisterRefusedEffect, Reserves
<1>6. CASE \E c \in Client : CleanedUp(c)
  BY <1>6, CleanedUpEffect, Finishes
<1>7. CASE \E c \in Client : Discarded(c)
  BY <1>7, DiscardedEffect
<1>8. CASE \E c \in Client : Announce(c)
  BY <1>8, AnnounceEffect
<1>9. CASE \E c \in Client, t \in Terminal, o \in {"rename", "updateAgent"} :
        BeginMutation(c, t, o)
  BY <1>9, BeginMutationEffect
<1>10. CASE \E c \in Client, new \in Row : MutatesTo(c, new)
  BY <1>10, MutatesToEffect, Reserves
<1>11. CASE \E c \in Client : MutationRefused(c)
  BY <1>11, MutationRefusedEffect
<1>12. CASE \E c \in Client : MutationSaved(c)
  BY <1>12, MutationSavedEffect, Finishes
<1>13. CASE \E c \in Client : UpdateNotSaved(c)
  BY <1>13, UpdateNotSavedEffect, Finishes
<1>14. CASE \E c \in Client : RenameNotSaved(c)
  BY <1>14, RenameNotSavedEffect, Finishes
<1>15. CASE \E c \in Client : RollBack(c)
  BY <1>15, RollBackEffect
<1>16. CASE \E c \in Client, t \in Terminal, o \in {"delete", "archive"} :
         LockLifecycle(c, t, o)
  BY <1>16, LockLifecycleEffect
<1>17. CASE \E c \in Client : ClaimDelete(c)
  BY <1>17, ClaimDeleteEffect, Reserves
<1>18. CASE \E c \in Client : LifecycleRefused(c)
  BY <1>18, LifecycleRefusedEffect
<1>19. CASE \E c \in Client : RemoveEntry(c)
  BY <1>19, RemoveEntryEffect
<1>20. CASE \E c \in Client : DeleteRefused(c)
  BY <1>20, DeleteRefusedEffect
<1>21. CASE \E c \in Client : OperationDropped(c)
  BY <1>21, OperationDroppedEffect, Finishes
<1>22. CASE \E c \in Client : RowDeleted(c)
  BY <1>22, RowDeletedEffect
<1>23. CASE \E c \in Client : RowNotDeleted(c)
  BY <1>23, RowNotDeletedEffect
<1>24. CASE \E c \in Client : Reaped(c)
  BY <1>24, ReapedEffect, Finishes
<1>25. CASE \E c \in Client : DeleteFailed(c)
  BY <1>25, DeleteFailedEffect, Finishes
<1>26. CASE \E c \in Client : PrepareArchive(c)
  BY <1>26, PrepareArchiveEffect
<1>27. CASE \E c \in Client : LockForArchive(c)
  BY <1>27, LockForArchiveEffect
<1>28. CASE \E c \in Client : ArchiveNotLocked(c)
  BY <1>28, ArchiveNotLockedEffect
<1>29. CASE \E c \in Client : ReserveArchive(c)
  BY <1>29, ReserveArchiveEffect, Reserves
<1>30. CASE \E c \in Client : ArchiveSealedOut(c)
  BY <1>30, ArchiveSealedOutEffect
<1>31. CASE \E c \in Client : ArchiveCancelled(c)
  BY <1>31, ArchiveCancelledEffect, Cancels
<1>32. CASE \E c \in Client : ArchiveSaved(c)
  BY <1>32, ArchiveSavedEffect, Finishes
<1>33. CASE \E c \in Client : ArchiveNotSaved(c)
  BY <1>33, ArchiveNotSavedEffect, Finishes
<1>34. CASE \E c \in Client : CommitArchive(c)
  BY <1>34, CommitArchiveEffect
<1>35. CASE \E c \in Client : ArchiveReaped(c)
  BY <1>35, ArchiveReapedEffect
<1>36. CASE \E t \in Terminal : WatchDefersToArchive(t)
  BY <1>36, WatchDefersToArchiveEffect
<1>37. CASE \E t \in Terminal : WatchArchiveReady(t)
  BY <1>37, WatchArchiveReadyEffect DEF AfterArchive
<1>38. CASE \E t \in Terminal : WatchStandsBack(t)
  BY <1>38, WatchStandsBackEffect
<1>39. CASE \E t \in Terminal : WatchRemoves(t)
  BY <1>39, WatchRemovesEffect, Reserves
<1>40. CASE \E t \in Terminal : WatchEntersPersist(t)
  BY <1>40, WatchEntersPersistEffect, Starts
<1>41. CASE \E t \in Terminal : WatchSaves(t)
  BY <1>41, WatchSavesEffect, Finishes DEF AfterFailedSave
<1>42. CASE \E t \in Terminal : WatchRetries(t)
  BY <1>42, WatchRetriesEffect, Reserves DEF TriesAgain
<1>43. CASE \E t \in Terminal : WatchPublishes(t)
  BY <1>43, WatchPublishesEffect
<1>44. CASE Restart
  BY <1>44, RestartEffect
<1>45. CASE UNCHANGED <<watcher, job, exit>>
  BY <1>45
<1>46. QED
  BY Writers, <1>1, <1>2, <1>3, <1>4, <1>5, <1>6, <1>7, <1>8, <1>9, <1>10, <1>11, <1>12, <1>13,
    <1>14, <1>15, <1>16, <1>17, <1>18, <1>19, <1>20, <1>21, <1>22, <1>23, <1>24, <1>25, <1>26,
      <1>27, <1>28, <1>29, <1>30, <1>31, <1>32, <1>33, <1>34, <1>35, <1>36, <1>37, <1>38,
        <1>39, <1>40, <1>41, <1>42, <1>43, <1>44, <1>45

\* A write carries the ticket of the save that makes it.
LEMMA WriterStep ==
    ASSUME Typed, JobTickets, WatchTickets, CloserInv, WriterInv, [Next]_vars
    PROVE  WriterInv'
<1> USE CloseOp DEF WriterInv, Queue!Entered, Sets, Alone, Goes, Keeps, MovesTo, SameQueue,
        JobTickets, JobTicket, WaitingPC, RunningPC, WatchTickets, WatchTicket, Writes,
        WriteFails, CloserInv
<1>1. CASE \E c \in Client, t \in Terminal : BeginCreate(c, t)
  BY <1>1, BeginCreateEffect, Reserves
<1>2. CASE \E c \in Client : \E from, to : Entering(from, to) /\ EnterPersist(c, from, to)
  BY <1>2, EnterPersistEffect, Starts DEF Entering
<1>3. CASE \E c \in Client : CreateSaved(c)
  BY <1>3, CreateSavedEffect, Finishes
<1>4. CASE \E c \in Client : RegisterRefused(c)
  BY <1>4, RegisterRefusedEffect, Reserves
<1>5. CASE \E c \in Client : CleanedUp(c)
  BY <1>5, CleanedUpEffect, Finishes
<1>6. CASE \E c \in Client, new \in Row : MutatesTo(c, new)
  BY <1>6, MutatesToEffect, Reserves
<1>7. CASE \E c \in Client : MutationSaved(c)
  BY <1>7, MutationSavedEffect, Finishes
<1>8. CASE \E c \in Client : UpdateNotSaved(c)
  BY <1>8, UpdateNotSavedEffect, Finishes
<1>9. CASE \E c \in Client : RenameNotSaved(c)
  BY <1>9, RenameNotSavedEffect, Finishes
<1>10. CASE \E c \in Client : ClaimDelete(c)
  BY <1>10, ClaimDeleteEffect, Reserves
<1>11. CASE \E c \in Client : OperationDropped(c)
  BY <1>11, OperationDroppedEffect, Finishes
<1>12. CASE \E c \in Client : RowDeleted(c)
  BY <1>12, RowDeletedEffect
<1>13. CASE \E c \in Client : RowNotDeleted(c)
  BY <1>13, RowNotDeletedEffect
<1>14. CASE \E c \in Client : Reaped(c)
  BY <1>14, ReapedEffect, Finishes
<1>15. CASE \E c \in Client : DeleteFailed(c)
  BY <1>15, DeleteFailedEffect, Finishes
<1>16. CASE \E c \in Client : ReserveArchive(c)
  BY <1>16, ReserveArchiveEffect, Reserves
<1>17. CASE \E c \in Client : ArchiveCancelled(c)
  BY <1>17, ArchiveCancelledEffect, Cancels
<1>18. CASE \E c \in Client : ArchiveSaved(c)
  BY <1>18, ArchiveSavedEffect, Finishes
<1>19. CASE \E c \in Client : ArchiveNotSaved(c)
  BY <1>19, ArchiveNotSavedEffect, Finishes
<1>20. CASE \E t \in Terminal : WatchRemoves(t)
  BY <1>20, WatchRemovesEffect, Reserves
<1>21. CASE \E t \in Terminal : WatchEntersPersist(t)
  BY <1>21, WatchEntersPersistEffect, Starts
<1>22. CASE \E t \in Terminal : WatchSaves(t)
  BY <1>22, WatchSavesEffect, Finishes DEF AfterFailedSave
<1>23. CASE \E t \in Terminal : WatchRetries(t)
  BY <1>23, WatchRetriesEffect, Reserves DEF TriesAgain, queueVars
<1>24. CASE SealStore
  BY <1>24, SealStoreEffect, Seals
<1>25. CASE EnterStoreClose
  <2>1. closeOperation \in Queue!Operation
    BY <1>25, EnterStoreCloseEffect, CloseOp DEF CloserInv
  <2>2. phase[closeOperation] = "waiting" /\ MovesTo(closeOperation, "running") /\ SameQueue
    BY <1>25, <2>1, Starts, EnterStoreCloseEffect
  <2>3. QED
    BY <1>25, <2>1, <2>2, EnterStoreCloseEffect DEF MovesTo, SameQueue
<1>26. CASE CloseStore
  <2>1. closeOperation \in Queue!Operation
    BY <1>26, CloseStoreEffect, CloseOp DEF CloserInv
  <2>2. phase[closeOperation] = "running" /\ MovesTo(closeOperation, "persisted") /\ SameQueue
    BY <1>26, <2>1, Finishes, CloseStoreEffect
  <2>3. QED
    BY <1>26, <2>1, <2>2, CloseStoreEffect DEF MovesTo, SameQueue
<1>27. CASE Restart
  BY <1>27, RestartEffect
<1>28. CASE UNCHANGED <<rowWriter, storeSequence, phase, storeSealed, closeOperation>>
  BY <1>28
<1>29. QED
  BY Writers, <1>1, <1>2, <1>3, <1>4, <1>5, <1>6, <1>7, <1>8, <1>9, <1>10, <1>11, <1>12, <1>13,
    <1>14, <1>15, <1>16, <1>17, <1>18, <1>19, <1>20, <1>21, <1>22, <1>23, <1>24, <1>25, <1>26,
      <1>27, <1>28

\* Only archive cancels a reservation.
LEMMA CancelStep ==
    ASSUME Typed, JobTickets, WatchTickets, CloserInv, CancelInv, [Next]_vars
    PROVE  CancelInv'
<1> USE CloseOp DEF CancelInv, Queue!NoneCancelled, Sets, Alone, Goes, Keeps, MovesTo,
        SameQueue, JobTickets, JobTicket, WaitingPC, RunningPC, WatchTickets, WatchTicket,
        CloserInv
<1>1. CASE \E c \in Client, t \in Terminal : BeginCreate(c, t)
  BY <1>1, BeginCreateEffect, Reserves
<1>2. CASE \E c \in Client : \E from, to : Entering(from, to) /\ EnterPersist(c, from, to)
  BY <1>2, EnterPersistEffect, Starts DEF Entering
<1>3. CASE \E c \in Client : CreateSaved(c)
  BY <1>3, CreateSavedEffect, Finishes
<1>4. CASE \E c \in Client : RegisterRefused(c)
  BY <1>4, RegisterRefusedEffect, Reserves
<1>5. CASE \E c \in Client : CleanedUp(c)
  BY <1>5, CleanedUpEffect, Finishes
<1>6. CASE \E c \in Client, new \in Row : MutatesTo(c, new)
  BY <1>6, MutatesToEffect, Reserves
<1>7. CASE \E c \in Client : MutationSaved(c)
  BY <1>7, MutationSavedEffect, Finishes
<1>8. CASE \E c \in Client : UpdateNotSaved(c)
  BY <1>8, UpdateNotSavedEffect, Finishes
<1>9. CASE \E c \in Client : RenameNotSaved(c)
  BY <1>9, RenameNotSavedEffect, Finishes
<1>10. CASE \E c \in Client : ClaimDelete(c)
  BY <1>10, ClaimDeleteEffect, Reserves
<1>11. CASE \E c \in Client : OperationDropped(c)
  BY <1>11, OperationDroppedEffect, Finishes
<1>12. CASE \E c \in Client : Reaped(c)
  BY <1>12, ReapedEffect, Finishes
<1>13. CASE \E c \in Client : DeleteFailed(c)
  BY <1>13, DeleteFailedEffect, Finishes
<1>14. CASE \E c \in Client : ReserveArchive(c)
  BY <1>14, ReserveArchiveEffect, Reserves
<1>15. CASE \E c \in Client : ArchiveCancelled(c)
  BY <1>15, ArchiveCancelledEffect, Cancels
<1>16. CASE \E c \in Client : ArchiveSaved(c)
  BY <1>16, ArchiveSavedEffect, Finishes
<1>17. CASE \E c \in Client : ArchiveNotSaved(c)
  BY <1>17, ArchiveNotSavedEffect, Finishes
<1>18. CASE \E t \in Terminal : WatchRemoves(t)
  BY <1>18, WatchRemovesEffect, Reserves
<1>19. CASE \E t \in Terminal : WatchEntersPersist(t)
  BY <1>19, WatchEntersPersistEffect, Starts
<1>20. CASE \E t \in Terminal : WatchSaves(t)
  BY <1>20, WatchSavesEffect, Finishes DEF AfterFailedSave
<1>21. CASE \E t \in Terminal : WatchRetries(t)
  BY <1>21, WatchRetriesEffect, Reserves DEF TriesAgain, queueVars
<1>22. CASE SealStore
  BY <1>22, SealStoreEffect, Seals
<1>23. CASE EnterStoreClose
  <2>1. closeOperation \in Queue!Operation
    BY <1>23, EnterStoreCloseEffect, CloseOp DEF CloserInv
  <2>2. phase[closeOperation] = "waiting" /\ MovesTo(closeOperation, "running") /\ SameQueue
    BY <1>23, <2>1, Starts, EnterStoreCloseEffect
  <2>3. QED
    BY <1>23, <2>1, <2>2, EnterStoreCloseEffect DEF MovesTo, SameQueue
<1>24. CASE CloseStore
  <2>1. closeOperation \in Queue!Operation
    BY <1>24, CloseStoreEffect, CloseOp DEF CloserInv
  <2>2. phase[closeOperation] = "running" /\ MovesTo(closeOperation, "persisted") /\ SameQueue
    BY <1>24, <2>1, Finishes, CloseStoreEffect
  <2>3. QED
    BY <1>24, <2>1, <2>2, CloseStoreEffect DEF MovesTo, SameQueue
<1>25. CASE Restart
  BY <1>25, RestartEffect DEF Queue!Operation
<1>26. CASE UNCHANGED <<storeSequence, phase, storeSealed, closeOperation>>
  BY <1>26
<1>27. QED
  BY Writers, <1>1, <1>2, <1>3, <1>4, <1>5, <1>6, <1>7, <1>8, <1>9, <1>10, <1>11, <1>12, <1>13,
    <1>14, <1>15, <1>16, <1>17, <1>18, <1>19, <1>20, <1>21, <1>22, <1>23, <1>24, <1>25, <1>26

-----------------------------------------------------------------------------
(* The order of the queue is kept *)

\* Whatever the manager does to the queue is a step of StoreQueue: reserve,
\* enter, leave, seal, or cancel of a ticket in the right phase.
LEMMA QueueStep ==
    ASSUME Typed, CloserInv, JobTickets, WatchTickets, [Next]_vars
    PROVE  Restart \/ Queue!QueueNext \/ UNCHANGED queueVars
<1> USE CloseOp DEF Queue!QueueNext, queueVars, Sets, Alone, Goes, Keeps, JobTickets, JobTicket,
        WaitingPC, RunningPC, WatchTickets, WatchTicket
<1>1. CASE \E c \in Client, t \in Terminal : BeginCreate(c, t)
  BY <1>1, BeginCreateEffect
<1>2. CASE \E c \in Client : \E from, to : Entering(from, to) /\ EnterPersist(c, from, to)
  BY <1>2, EnterPersistEffect DEF Entering
<1>3. CASE \E c \in Client : CreateSaved(c)
  BY <1>3, CreateSavedEffect
<1>4. CASE \E c \in Client : RegisterRefused(c)
  BY <1>4, RegisterRefusedEffect
<1>5. CASE \E c \in Client : CleanedUp(c)
  BY <1>5, CleanedUpEffect
<1>6. CASE \E c \in Client, new \in Row : MutatesTo(c, new)
  BY <1>6, MutatesToEffect
<1>7. CASE \E c \in Client : MutationSaved(c)
  BY <1>7, MutationSavedEffect
<1>8. CASE \E c \in Client : UpdateNotSaved(c)
  BY <1>8, UpdateNotSavedEffect
<1>9. CASE \E c \in Client : RenameNotSaved(c)
  BY <1>9, RenameNotSavedEffect
<1>10. CASE \E c \in Client : ClaimDelete(c)
  BY <1>10, ClaimDeleteEffect
<1>11. CASE \E c \in Client : OperationDropped(c)
  BY <1>11, OperationDroppedEffect
<1>12. CASE \E c \in Client : Reaped(c)
  BY <1>12, ReapedEffect
<1>13. CASE \E c \in Client : DeleteFailed(c)
  BY <1>13, DeleteFailedEffect
<1>14. CASE \E c \in Client : ReserveArchive(c)
  BY <1>14, ReserveArchiveEffect
<1>15. CASE \E c \in Client : ArchiveCancelled(c)
  BY <1>15, ArchiveCancelledEffect
<1>16. CASE \E c \in Client : ArchiveSaved(c)
  BY <1>16, ArchiveSavedEffect
<1>17. CASE \E c \in Client : ArchiveNotSaved(c)
  BY <1>17, ArchiveNotSavedEffect
<1>18. CASE \E t \in Terminal : WatchRemoves(t)
  BY <1>18, WatchRemovesEffect
<1>19. CASE \E t \in Terminal : WatchEntersPersist(t)
  BY <1>19, WatchEntersPersistEffect
<1>20. CASE \E t \in Terminal : WatchSaves(t)
  BY <1>20, WatchSavesEffect DEF AfterFailedSave
<1>21. CASE \E t \in Terminal : WatchRetries(t)
  BY <1>21, WatchRetriesEffect DEF TriesAgain, queueVars
<1>22. CASE SealStore
  BY <1>22, SealStoreEffect
<1>23. ASSUME EnterStoreClose
      PROVE  Restart \/ Queue!QueueNext \/ UNCHANGED queueVars
  <2>1. closeOperation \in Queue!Operation
    BY <1>23, EnterStoreCloseEffect, CloseOp DEF CloserInv
  <2>2. QED
    BY <1>23, <2>1, EnterStoreCloseEffect DEF Queue!QueueNext
<1>24. ASSUME CloseStore
      PROVE  Restart \/ Queue!QueueNext \/ UNCHANGED queueVars
  <2>1. closeOperation \in Queue!Operation
    BY <1>24, CloseStoreEffect, CloseOp DEF CloserInv
  <2>2. QED
    BY <1>24, <2>1, CloseStoreEffect DEF Queue!QueueNext
<1>25. CASE Restart
  BY <1>25, RestartEffect
<1>26. CASE UNCHANGED <<storeSequence, phase, storeSealed, closeOperation>>
  BY <1>26
<1>27. QED
  BY Writers, <1>1, <1>2, <1>3, <1>4, <1>5, <1>6, <1>7, <1>8, <1>9, <1>10, <1>11, <1>12, <1>13,
    <1>14, <1>15, <1>16, <1>17, <1>18, <1>19, <1>20, <1>21, <1>22, <1>23, <1>24, <1>25, <1>26

\* The manager's queue has parameters StoreQueue allows.
LEMMA QueueParameters == QP!QueueAssumption /\ QP!DeliveryAssumption
BY LifecycleAssumption DEF QP!QueueAssumption, QP!DeliveryAssumption, LifecycleAssumption

\* The queue's type is the one the theorems of StoreQueue assume.
LEMMA TypedQueue ==
    ASSUME Queue!QueueTypeOK
    PROVE  QP!QueueTypeOK
BY DEF QP!QueueTypeOK, Queue!QueueTypeOK, QP!Operation, Queue!Operation, QP!Phase, Queue!Phase

\* The inductive invariant of StoreQueue is kept by the manager, a restart
\* included.
LEMMA OrderStep ==
    ASSUME Typed, Typed', QP!QueueInv, Restart \/ Queue!QueueNext \/ UNCHANGED queueVars
    PROVE  QP!QueueInv'
<1>1. CASE Queue!Reserve
  <2>1. QP!QueueNext
    BY <1>1 DEF Queue!Reserve, Queue!ReserveLocked, QP!QueueNext, QP!Reserve, QP!ReserveLocked
  <2>2. QED
    BY <2>1, QueueParameters, QP!QueueInvStep
<1>2. CASE Queue!Seal
  <2>1. QP!QueueNext
    BY <1>2 DEF Queue!Seal, Queue!ReserveLocked, QP!QueueNext, QP!Seal, QP!ReserveLocked
  <2>2. QED
    BY <2>1, QueueParameters, QP!QueueInvStep
<1>3. ASSUME NEW n \in Queue!Operation, Queue!Start(n) \/ Queue!Finish(n) \/ Queue!Cancel(n)
      PROVE  QP!QueueInv'
  <2>1. n \in QP!Operation
    BY <1>3 DEF Queue!Operation, QP!Operation
  <2>2. QP!Start(n) \/ QP!Finish(n) \/ QP!Cancel(n)
    BY <1>3
    DEF Queue!Start, Queue!Finish, Queue!Cancel, QP!Start, QP!Finish, QP!Cancel,
        Queue!PredecessorClosed, QP!PredecessorClosed, Queue!Closed, QP!Closed
  <2>3. QP!QueueNext
    BY <2>1, <2>2 DEF QP!QueueNext
  <2>4. QED
    BY <2>3, QueueParameters, QP!QueueInvStep
<1>4. CASE UNCHANGED queueVars
  <2>1. UNCHANGED QP!queueVars
    BY <1>4 DEF queueVars, QP!queueVars
  <2>2. QED
    BY <2>1, QueueParameters, QP!QueueInvStep
<1>5. CASE Restart
  <2>1. \A n \in QP!Operation : ~QP!Entered(n)'
    BY <1>5, RestartEffect DEF QP!Entered, QP!Operation
  <2>2. QP!QueueTypeOK'
    BY DEF Typed, QP!QueueTypeOK, Queue!QueueTypeOK, QP!Operation, Queue!Operation, QP!Phase,
      Queue!Phase
  <2>3. QED
    BY <2>1, <2>2 DEF QP!QueueInv, QP!ReleasedByPredecessor, QP!OrderUnlessCancelled
<1>6. QED
  BY <1>1, <1>2, <1>3, <1>4, <1>5 DEF Queue!QueueNext

\* A ticket enters after every older one is over, unless one is cancelled.
LEMMA InOrder ==
    ASSUME QP!QueueInv, Queue!NoneCancelled, NEW i \in Queue!Operation,
           NEW j \in Queue!Operation, i < j, Queue!Entered(j)
    PROVE  Queue!Closed(i)
<1>1. \A k \in (i + 1)..(j - 1) : phase[k] # "cancelled"
  BY LifecycleAssumption DEF LifecycleAssumption, Queue!NoneCancelled, Queue!Operation
<1>2. i \in QP!Operation /\ j \in QP!Operation /\ QP!Entered(j)
  BY DEF Queue!Operation, QP!Operation, Queue!Entered, QP!Entered
<1>3. QP!Closed(i)
  BY <1>1, <1>2 DEF QP!QueueInv, QP!OrderUnlessCancelled
<1>4. QED
  BY <1>3 DEF QP!Closed, Queue!Closed

-----------------------------------------------------------------------------
(* Rows and shells are kept *)

\* Memory and the store hold rows.
LEMMA MetadataRows ==
    ASSUME Typed
    PROVE  \A t \in Terminal : metadata[t] \in Row /\ rows[t] \in Row
BY DEF Typed, ManagerTypes, StoreTypes

\* A rollback leaves every state as it is.
LEMMA RollBackStates ==
    ASSUME Typed, NEW c \in Client, RollBack(c)
    PROVE  /\ job[c].id \in Terminal /\ Alone(c) /\ job[c].pc = "rollback" /\ job'[c] = Idle
           /\ \A t \in Terminal : metadata'[t].state = metadata[t].state
           /\ UNCHANGED sessions
<1>1. /\ job[c].id \in Terminal /\ Alone(c) /\ job[c].pc = "rollback" /\ job'[c] = Idle
      /\ \/ Sets(metadata, metadata', job[c].id,
              [metadata[job[c].id] EXCEPT !.name = job[c].before.name])
         \/ UNCHANGED metadata
      /\ UNCHANGED sessions
  BY RollBackEffect DEF NameUndone
<1>2. metadata[job[c].id] \in Row
  BY <1>1, MetadataRows
<1>3. [metadata[job[c].id] EXCEPT !.name = job[c].before.name].state = metadata[job[c].id].state
  BY <1>2 DEF Row
<1>4. \A t \in Terminal : metadata'[t].state = metadata[t].state
  BY <1>1, <1>3 DEF Sets
<1>5. QED
  BY <1>1, <1>4

\* Memory says that a registered terminal runs: the exit is recorded under the
\* lock that removes the entry.
LEMMA RunningStep ==
    ASSUME Typed, AbsentInv, MutexInv, NewInv, HeldInv, CreatingInv, RunningInv,
           [Next]_vars
    PROVE  RunningInv'
<1> USE IdleIs, NoneFree, RowStates, MetadataRows DEF RunningInv, DeletingPC, UnregisteredPC,
        CreatePC, SavePC, SnapshotPC, Sets, Alone, Goes, Keeps, HeldInv, NewInv, RemovedPC,
        Typed, JobInv
<1>1. CASE \E c \in Client, t \in Terminal : BeginCreate(c, t)
  BY <1>1, BeginCreateEffect
<1>2. CASE \E c \in Client : \E from, to : Entering(from, to) /\ EnterPersist(c, from, to)
  BY <1>2, EnterPersistEffect DEF Entering
<1>3. CASE \E c \in Client : CreateSaved(c)
  BY <1>3, CreateSavedEffect
<1>4. CASE \E c \in Client : Register(c)
  BY <1>4, RegisterEffect
<1>5. CASE \E c \in Client : RegisterRefused(c)
  BY <1>5, RegisterRefusedEffect
<1>6. CASE \E c \in Client : CleanedUp(c)
  BY <1>6, CleanedUpEffect
<1>7. CASE \E c \in Client : Discarded(c)
  BY <1>7, DiscardedEffect
<1>8. CASE \E c \in Client : Announce(c)
  BY <1>8, AnnounceEffect
<1>9. CASE \E c \in Client, t \in Terminal, o \in {"rename", "updateAgent"} :
        BeginMutation(c, t, o)
  BY <1>9, BeginMutationEffect
<1>10. CASE \E c \in Client, new \in Row : MutatesTo(c, new)
  BY <1>10, MutatesToEffect
<1>11. CASE \E c \in Client : MutationRefused(c)
  BY <1>11, MutationRefusedEffect
<1>12. CASE \E c \in Client : MutationSaved(c)
  BY <1>12, MutationSavedEffect
<1>13. CASE \E c \in Client : UpdateNotSaved(c)
  BY <1>13, UpdateNotSavedEffect
<1>14. CASE \E c \in Client : RenameNotSaved(c)
  BY <1>14, RenameNotSavedEffect
<1>15. CASE \E c \in Client : RollBack(c)
  BY <1>15, RollBackStates, IdleIs
  DEF RunningInv, Typed, JobInv, Alone, DeletingPC, UnregisteredPC, CreatePC, SavePC, SnapshotPC
<1>16. CASE \E c \in Client, t \in Terminal, o \in {"delete", "archive"} :
         LockLifecycle(c, t, o)
  BY <1>16, LockLifecycleEffect
<1>17. CASE \E c \in Client : ClaimDelete(c)
  BY <1>17, ClaimDeleteEffect
<1>18. CASE \E c \in Client : LifecycleRefused(c)
  BY <1>18, LifecycleRefusedEffect
<1>19. CASE \E c \in Client : RemoveEntry(c)
  BY <1>19, RemoveEntryEffect
<1>20. CASE \E c \in Client : DeleteRefused(c)
  BY <1>20, DeleteRefusedEffect
<1>21. CASE \E c \in Client : OperationDropped(c)
  BY <1>21, OperationDroppedEffect
<1>22. CASE \E c \in Client : RowDeleted(c)
  BY <1>22, RowDeletedEffect
<1>23. CASE \E c \in Client : RowNotDeleted(c)
  BY <1>23, RowNotDeletedEffect
<1>24. CASE \E c \in Client : Reaped(c)
  BY <1>24, ReapedEffect
<1>25. CASE \E c \in Client : DeleteFailed(c)
  BY <1>25, DeleteFailedEffect
<1>26. CASE \E c \in Client : PrepareArchive(c)
  BY <1>26, PrepareArchiveEffect
<1>27. CASE \E c \in Client : LockForArchive(c)
  BY <1>27, LockForArchiveEffect
<1>28. CASE \E c \in Client : ArchiveNotLocked(c)
  BY <1>28, ArchiveNotLockedEffect
<1>29. CASE \E c \in Client : ReserveArchive(c)
  BY <1>29, ReserveArchiveEffect
<1>30. CASE \E c \in Client : ArchiveSealedOut(c)
  BY <1>30, ArchiveSealedOutEffect
<1>31. CASE \E c \in Client : ArchiveCancelled(c)
  BY <1>31, ArchiveCancelledEffect
<1>32. CASE \E c \in Client : ArchiveSaved(c)
  BY <1>32, ArchiveSavedEffect
<1>33. CASE \E c \in Client : ArchiveNotSaved(c)
  BY <1>33, ArchiveNotSavedEffect
<1>34. CASE \E c \in Client : CommitArchive(c)
  BY <1>34, CommitArchiveEffect
<1>35. CASE \E c \in Client : ArchiveReaped(c)
  BY <1>35, ArchiveReapedEffect
<1>36. CASE \E t \in Terminal : WatchRemoves(t)
  BY <1>36, WatchRemovesEffect
<1>37. CASE Restart
  BY <1>37, RestartEffect DEF Running
<1>38. CASE UNCHANGED <<sessions, metadata, job>>
  BY <1>38
<1>39. QED
  BY Writers, <1>1, <1>2, <1>3, <1>4, <1>5, <1>6, <1>7, <1>8, <1>9, <1>10, <1>11, <1>12, <1>13,
    <1>14, <1>15, <1>16, <1>17, <1>18, <1>19, <1>20, <1>21, <1>22, <1>23, <1>24, <1>25, <1>26,
      <1>27, <1>28, <1>29, <1>30, <1>31, <1>32, <1>33, <1>34, <1>35, <1>36, <1>37, <1>38

\* A row is removed after its entry, and no save of the exit reaches the row
\* of a terminal Close ends.
LEMMA KeptStep ==
    ASSUME Typed, AbsentInv, MutexInv, NewInv, HeldInv, CreatingInv, RunningInv,
           CloserInv, WatchedInv, DeleteClaim, KeptInv, [Next]_vars
    PROVE  KeptInv'
<1> USE IdleIs, NoneFree, RowStates, MetadataRows DEF KeptInv, Kept, DeletingPC, RemovedPC,
        UnregisteredPC, CreatePC, SavePC, SnapshotPC, ExitSaving, RegisteredPC, PreparedPC,
        Sets, Alone, Goes, Keeps, HeldInv, NewInv, Typed, JobInv, RunningInv, CloserInv,
        CreatingInv, Writes, WriteFails
<1>1. CASE \E c \in Client, t \in Terminal : BeginCreate(c, t)
  BY <1>1, BeginCreateEffect
<1>2. CASE \E c \in Client : \E from, to : Entering(from, to) /\ EnterPersist(c, from, to)
  BY <1>2, EnterPersistEffect DEF Entering
<1>3. CASE \E c \in Client : CreateSaved(c)
  BY <1>3, CreateSavedEffect
<1>4. CASE \E c \in Client : Register(c)
  BY <1>4, RegisterEffect
<1>5. CASE \E c \in Client : RegisterRefused(c)
  BY <1>5, RegisterRefusedEffect
<1>6. CASE \E c \in Client : CleanedUp(c)
  BY <1>6, CleanedUpEffect
<1>7. CASE \E c \in Client : Discarded(c)
  BY <1>7, DiscardedEffect
<1>8. CASE \E c \in Client : Announce(c)
  BY <1>8, AnnounceEffect
<1>9. CASE \E c \in Client, t \in Terminal, o \in {"rename", "updateAgent"} :
        BeginMutation(c, t, o)
  BY <1>9, BeginMutationEffect
<1>10. CASE \E c \in Client, new \in Row : MutatesTo(c, new)
  BY <1>10, MutatesToEffect
<1>11. CASE \E c \in Client : MutationRefused(c)
  BY <1>11, MutationRefusedEffect
<1>12. CASE \E c \in Client : MutationSaved(c)
  BY <1>12, MutationSavedEffect
<1>13. CASE \E c \in Client : UpdateNotSaved(c)
  BY <1>13, UpdateNotSavedEffect
<1>14. CASE \E c \in Client : RenameNotSaved(c)
  BY <1>14, RenameNotSavedEffect
<1>15. CASE \E c \in Client : RollBack(c)
  BY <1>15, RollBackEffect
<1>16. CASE \E c \in Client, t \in Terminal, o \in {"delete", "archive"} :
         LockLifecycle(c, t, o)
  BY <1>16, LockLifecycleEffect
<1>17. CASE \E c \in Client : ClaimDelete(c)
  BY <1>17, ClaimDeleteEffect
<1>18. CASE \E c \in Client : LifecycleRefused(c)
  BY <1>18, LifecycleRefusedEffect
<1>19. CASE \E c \in Client : RemoveEntry(c)
  BY <1>19, RemoveEntryEffect
<1>20. CASE \E c \in Client : DeleteRefused(c)
  BY <1>20, DeleteRefusedEffect
<1>21. CASE \E c \in Client : OperationDropped(c)
  BY <1>21, OperationDroppedEffect
<1>22. CASE \E c \in Client : RowDeleted(c)
  BY <1>22, RowDeletedEffect DEF MutexInv, ClaimedPC, LifecyclePC
<1>23. CASE \E c \in Client : RowNotDeleted(c)
  BY <1>23, RowNotDeletedEffect
<1>24. CASE \E c \in Client : Reaped(c)
  BY <1>24, ReapedEffect
<1>25. CASE \E c \in Client : DeleteFailed(c)
  BY <1>25, DeleteFailedEffect
<1>26. CASE \E c \in Client : PrepareArchive(c)
  BY <1>26, PrepareArchiveEffect
<1>27. CASE \E c \in Client : LockForArchive(c)
  BY <1>27, LockForArchiveEffect
<1>28. CASE \E c \in Client : ArchiveNotLocked(c)
  BY <1>28, ArchiveNotLockedEffect
<1>29. CASE \E c \in Client : ReserveArchive(c)
  BY <1>29, ReserveArchiveEffect
<1>30. CASE \E c \in Client : ArchiveSealedOut(c)
  BY <1>30, ArchiveSealedOutEffect
<1>31. CASE \E c \in Client : ArchiveCancelled(c)
  BY <1>31, ArchiveCancelledEffect
<1>32. CASE \E c \in Client : ArchiveSaved(c)
  BY <1>32, ArchiveSavedEffect
<1>33. CASE \E c \in Client : ArchiveNotSaved(c)
  BY <1>33, ArchiveNotSavedEffect
<1>34. CASE \E c \in Client : CommitArchive(c)
  BY <1>34, CommitArchiveEffect
<1>35. CASE \E c \in Client : ArchiveReaped(c)
  BY <1>35, ArchiveReapedEffect
<1>36. CASE \E t \in Terminal : WatchDefersToArchive(t)
  BY <1>36, WatchDefersToArchiveEffect
<1>37. CASE \E t \in Terminal : WatchArchiveReady(t)
  BY <1>37, WatchArchiveReadyEffect DEF AfterArchive
<1>38. CASE \E t \in Terminal : WatchStandsBack(t)
  BY <1>38, WatchStandsBackEffect
<1>39. CASE \E t \in Terminal : WatchRemoves(t)
  BY <1>39, WatchRemovesEffect
<1>40. CASE \E t \in Terminal : WatchEntersPersist(t)
  BY <1>40, WatchEntersPersistEffect
<1>41. CASE \E t \in Terminal : WatchSaves(t)
  BY <1>41, WatchSavesEffect
  DEF AfterFailedSave, WatchedInv, MutexInv, DeleteClaim, ClaimedPC, LifecyclePC
<1>42. CASE \E t \in Terminal : WatchRetries(t)
  BY <1>42, WatchRetriesEffect DEF TriesAgain
<1>43. CASE \E t \in Terminal : WatchPublishes(t)
  BY <1>43, WatchPublishesEffect
<1>44. CASE SealStore
  BY <1>44, SealStoreEffect DEF WatchedInv
<1>45. CASE Restart
  BY <1>45, RestartEffect DEF Running
<1>46. CASE UNCHANGED <<sessions, watcher, rows, job, closeItems>>
  BY <1>46
<1>47. QED
  BY Writers, <1>1, <1>2, <1>3, <1>4, <1>5, <1>6, <1>7, <1>8, <1>9, <1>10, <1>11, <1>12, <1>13,
    <1>14, <1>15, <1>16, <1>17, <1>18, <1>19, <1>20, <1>21, <1>22, <1>23, <1>24, <1>25, <1>26,
      <1>27, <1>28, <1>29, <1>30, <1>31, <1>32, <1>33, <1>34, <1>35, <1>36, <1>37, <1>38,
        <1>39, <1>40, <1>41, <1>42, <1>43, <1>44, <1>45, <1>46

\* Close takes its list under the lock that stops creates, so that it has
\* every entry.
LEMMA SealedStep ==
    ASSUME Typed, CloserInv, SealedInv, [Next]_vars
    PROVE  SealedInv'
<1> USE CloseOp DEF SealedInv, Sets, Alone, Goes, Keeps, CloserInv, SameQueue
<1>1. CASE \E c \in Client, t \in Terminal : BeginCreate(c, t)
  BY <1>1, BeginCreateEffect, Reserves
<1>2. CASE \E c \in Client : \E from, to : Entering(from, to) /\ EnterPersist(c, from, to)
  BY <1>2, EnterPersistEffect DEF SealedInv, CloserInv, Queue!Start
<1>3. CASE \E c \in Client : CreateSaved(c)
  BY <1>3, CreateSavedEffect DEF SealedInv, CloserInv, Queue!Finish
<1>4. CASE \E c \in Client : Register(c)
  BY <1>4, RegisterEffect
<1>5. CASE \E c \in Client : RegisterRefused(c)
  BY <1>5, RegisterRefusedEffect, Reserves
<1>6. CASE \E c \in Client : CleanedUp(c)
  BY <1>6, CleanedUpEffect DEF SealedInv, CloserInv, Queue!Finish
<1>7. CASE \E c \in Client, new \in Row : MutatesTo(c, new)
  BY <1>7, MutatesToEffect, Reserves
<1>8. CASE \E c \in Client : MutationSaved(c)
  BY <1>8, MutationSavedEffect DEF SealedInv, CloserInv, Queue!Finish
<1>9. CASE \E c \in Client : UpdateNotSaved(c)
  BY <1>9, UpdateNotSavedEffect DEF SealedInv, CloserInv, Queue!Finish
<1>10. CASE \E c \in Client : RenameNotSaved(c)
  BY <1>10, RenameNotSavedEffect DEF SealedInv, CloserInv, Queue!Finish
<1>11. CASE \E c \in Client : ClaimDelete(c)
  BY <1>11, ClaimDeleteEffect, Reserves
<1>12. CASE \E c \in Client : RemoveEntry(c)
  BY <1>12, RemoveEntryEffect
<1>13. CASE \E c \in Client : OperationDropped(c)
  BY <1>13, OperationDroppedEffect DEF SealedInv, CloserInv, Queue!Finish
<1>14. CASE \E c \in Client : RowNotDeleted(c)
  BY <1>14, RowNotDeletedEffect
<1>15. CASE \E c \in Client : Reaped(c)
  BY <1>15, ReapedEffect DEF SealedInv, CloserInv, Queue!Finish
<1>16. CASE \E c \in Client : DeleteFailed(c)
  BY <1>16, DeleteFailedEffect DEF SealedInv, CloserInv, Queue!Finish
<1>17. CASE \E c \in Client : ReserveArchive(c)
  BY <1>17, ReserveArchiveEffect, Reserves
<1>18. CASE \E c \in Client : ArchiveCancelled(c)
  BY <1>18, ArchiveCancelledEffect DEF SealedInv, CloserInv, Queue!Cancel
<1>19. CASE \E c \in Client : ArchiveSaved(c)
  BY <1>19, ArchiveSavedEffect DEF SealedInv, CloserInv, Queue!Finish
<1>20. CASE \E c \in Client : ArchiveNotSaved(c)
  BY <1>20, ArchiveNotSavedEffect DEF SealedInv, CloserInv, Queue!Finish
<1>21. CASE \E c \in Client : ArchiveReaped(c)
  BY <1>21, ArchiveReapedEffect
<1>22. CASE \E t \in Terminal : WatchRemoves(t)
  BY <1>22, WatchRemovesEffect, Reserves
<1>23. CASE \E t \in Terminal : WatchEntersPersist(t)
  BY <1>23, WatchEntersPersistEffect DEF SealedInv, CloserInv, Queue!Start
<1>24. ASSUME NEW t \in Terminal, WatchSaves(t)
      PROVE  SealedInv'
  <2>1. Queue!Finish(exit[t].ticket) /\ UNCHANGED <<sessions, closeItems>>
    BY <1>24, WatchSavesEffect
  <2>2. QED
    BY <2>1 DEF SealedInv, Queue!Finish
<1>25. CASE \E t \in Terminal : WatchRetries(t)
  BY <1>25, WatchRetriesEffect, Reserves DEF TriesAgain, queueVars
<1>26. CASE SealStore
  BY <1>26, SealStoreEffect, Seals
<1>27. CASE EnterStoreClose
  BY <1>27, EnterStoreCloseEffect DEF SealedInv, CloserInv, Queue!Start
<1>28. CASE CloseStore
  BY <1>28, CloseStoreEffect DEF SealedInv, CloserInv, Queue!Finish
<1>29. CASE Restart
  BY <1>29, RestartEffect
<1>30. CASE UNCHANGED <<sessions, storeSequence, phase, storeSealed, closeOperation,
         closeItems>>
  BY <1>30
<1>31. QED
  BY Writers, <1>1, <1>2, <1>3, <1>4, <1>5, <1>6, <1>7, <1>8, <1>9, <1>10, <1>11, <1>12, <1>13,
    <1>14, <1>15, <1>16, <1>17, <1>18, <1>19, <1>20, <1>21, <1>22, <1>23, <1>24, <1>25, <1>26,
      <1>27, <1>28, <1>29, <1>30

\* A shell without an entry is one that a create is about to register or a
\* delete about to end.
LEMMA ShellStep ==
    ASSUME Typed, AbsentInv, MutexInv, NewInv, HeldInv, WatchedInv, CloserInv,
           CreatingInv, ShellInv, [Next]_vars
    PROVE  ShellInv'
<1> USE IdleIs, NoneFree DEF ShellInv, UnregisteredPC, CreatePC, RemovedPC, DeletingPC, Sets,
        Alone, Goes, Keeps, WatchedInv, HeldInv, NewInv, AbsentInv
<1>1. CASE \E c \in Client, t \in Terminal : BeginCreate(c, t)
  BY <1>1, BeginCreateEffect
<1>2. CASE \E c \in Client : \E from, to : Entering(from, to) /\ EnterPersist(c, from, to)
  BY <1>2, EnterPersistEffect DEF Entering
<1>3. CASE \E c \in Client : CreateSaved(c)
  BY <1>3, CreateSavedEffect
<1>4. CASE \E c \in Client : Register(c)
  BY <1>4, RegisterEffect
<1>5. CASE \E c \in Client : RegisterRefused(c)
  BY <1>5, RegisterRefusedEffect
<1>6. CASE \E c \in Client : CleanedUp(c)
  BY <1>6, CleanedUpEffect
<1>7. CASE \E c \in Client : Discarded(c)
  BY <1>7, DiscardedEffect
<1>8. CASE \E c \in Client : Announce(c)
  BY <1>8, AnnounceEffect
<1>9. CASE \E c \in Client, t \in Terminal, o \in {"rename", "updateAgent"} :
        BeginMutation(c, t, o)
  BY <1>9, BeginMutationEffect
<1>10. CASE \E c \in Client, new \in Row : MutatesTo(c, new)
  BY <1>10, MutatesToEffect
<1>11. CASE \E c \in Client : MutationRefused(c)
  BY <1>11, MutationRefusedEffect
<1>12. CASE \E c \in Client : MutationSaved(c)
  BY <1>12, MutationSavedEffect
<1>13. CASE \E c \in Client : UpdateNotSaved(c)
  BY <1>13, UpdateNotSavedEffect
<1>14. CASE \E c \in Client : RenameNotSaved(c)
  BY <1>14, RenameNotSavedEffect
<1>15. CASE \E c \in Client : RollBack(c)
  BY <1>15, RollBackEffect
<1>16. CASE \E c \in Client, t \in Terminal, o \in {"delete", "archive"} :
         LockLifecycle(c, t, o)
  BY <1>16, LockLifecycleEffect
<1>17. CASE \E c \in Client : ClaimDelete(c)
  BY <1>17, ClaimDeleteEffect
<1>18. CASE \E c \in Client : LifecycleRefused(c)
  BY <1>18, LifecycleRefusedEffect
<1>19. CASE \E c \in Client : RemoveEntry(c)
  BY <1>19, RemoveEntryEffect
<1>20. CASE \E c \in Client : DeleteRefused(c)
  BY <1>20, DeleteRefusedEffect
<1>21. CASE \E c \in Client : OperationDropped(c)
  BY <1>21, OperationDroppedEffect
<1>22. CASE \E c \in Client : RowDeleted(c)
  BY <1>22, RowDeletedEffect
<1>23. CASE \E c \in Client : RowNotDeleted(c)
  BY <1>23, RowNotDeletedEffect
<1>24. CASE \E c \in Client : Reaped(c)
  BY <1>24, ReapedEffect
<1>25. CASE \E c \in Client : DeleteFailed(c)
  BY <1>25, DeleteFailedEffect
<1>26. CASE \E c \in Client : PrepareArchive(c)
  BY <1>26, PrepareArchiveEffect
<1>27. CASE \E c \in Client : LockForArchive(c)
  BY <1>27, LockForArchiveEffect
<1>28. CASE \E c \in Client : ArchiveNotLocked(c)
  BY <1>28, ArchiveNotLockedEffect
<1>29. CASE \E c \in Client : ReserveArchive(c)
  BY <1>29, ReserveArchiveEffect
<1>30. CASE \E c \in Client : ArchiveSealedOut(c)
  BY <1>30, ArchiveSealedOutEffect
<1>31. CASE \E c \in Client : ArchiveCancelled(c)
  BY <1>31, ArchiveCancelledEffect
<1>32. CASE \E c \in Client : ArchiveSaved(c)
  BY <1>32, ArchiveSavedEffect
<1>33. CASE \E c \in Client : ArchiveNotSaved(c)
  BY <1>33, ArchiveNotSavedEffect
<1>34. CASE \E c \in Client : CommitArchive(c)
  BY <1>34, CommitArchiveEffect
<1>35. CASE \E c \in Client : ArchiveReaped(c)
  BY <1>35, ArchiveReapedEffect
<1>36. CASE \E t \in Terminal : ProcessExits(t)
  BY <1>36, ProcessExitsEffect
<1>37. CASE \E t \in Terminal : WatchRemoves(t)
  BY <1>37, WatchRemovesEffect
<1>38. CASE Restart
  BY <1>38, RestartEffect
<1>39. CASE UNCHANGED <<sessions, process, job>>
  BY <1>39
<1>40. QED
  BY Writers, <1>1, <1>2, <1>3, <1>4, <1>5, <1>6, <1>7, <1>8, <1>9, <1>10, <1>11, <1>12, <1>13,
    <1>14, <1>15, <1>16, <1>17, <1>18, <1>19, <1>20, <1>21, <1>22, <1>23, <1>24, <1>25, <1>26,
      <1>27, <1>28, <1>29, <1>30, <1>31, <1>32, <1>33, <1>34, <1>35, <1>36, <1>37, <1>38, <1>39

-----------------------------------------------------------------------------
(* The close *)

\* Close reserves the last ticket.
LEMMA NewestStep ==
    ASSUME Typed, CloserInv, JobTickets, WatchTickets, CloseIsNewest, [Next]_vars
    PROVE  CloseIsNewest'
<1> USE CloseOp DEF CloseIsNewest, Sets, Alone, Goes, Keeps
<1>1. CASE \E c \in Client, t \in Terminal : BeginCreate(c, t)
  BY <1>1, BeginCreateEffect, Reserves
<1>2. CASE \E c \in Client : \E from, to : Entering(from, to) /\ EnterPersist(c, from, to)
  BY <1>2, EnterPersistEffect DEF CloseIsNewest, Queue!Start
<1>3. CASE \E c \in Client : CreateSaved(c)
  BY <1>3, CreateSavedEffect DEF CloseIsNewest, Queue!Finish
<1>4. CASE \E c \in Client : RegisterRefused(c)
  BY <1>4, RegisterRefusedEffect, Reserves
<1>5. CASE \E c \in Client : CleanedUp(c)
  BY <1>5, CleanedUpEffect DEF CloseIsNewest, Queue!Finish
<1>6. CASE \E c \in Client, new \in Row : MutatesTo(c, new)
  BY <1>6, MutatesToEffect, Reserves
<1>7. CASE \E c \in Client : MutationSaved(c)
  BY <1>7, MutationSavedEffect DEF CloseIsNewest, Queue!Finish
<1>8. CASE \E c \in Client : UpdateNotSaved(c)
  BY <1>8, UpdateNotSavedEffect DEF CloseIsNewest, Queue!Finish
<1>9. CASE \E c \in Client : RenameNotSaved(c)
  BY <1>9, RenameNotSavedEffect DEF CloseIsNewest, Queue!Finish
<1>10. CASE \E c \in Client : ClaimDelete(c)
  BY <1>10, ClaimDeleteEffect, Reserves
<1>11. CASE \E c \in Client : OperationDropped(c)
  BY <1>11, OperationDroppedEffect DEF CloseIsNewest, Queue!Finish
<1>12. CASE \E c \in Client : Reaped(c)
  BY <1>12, ReapedEffect DEF CloseIsNewest, Queue!Finish
<1>13. CASE \E c \in Client : DeleteFailed(c)
  BY <1>13, DeleteFailedEffect DEF CloseIsNewest, Queue!Finish
<1>14. CASE \E c \in Client : ReserveArchive(c)
  BY <1>14, ReserveArchiveEffect, Reserves
<1>15. CASE \E c \in Client : ArchiveCancelled(c)
  BY <1>15, ArchiveCancelledEffect DEF CloseIsNewest, Queue!Cancel
<1>16. CASE \E c \in Client : ArchiveSaved(c)
  BY <1>16, ArchiveSavedEffect DEF CloseIsNewest, Queue!Finish
<1>17. CASE \E c \in Client : ArchiveNotSaved(c)
  BY <1>17, ArchiveNotSavedEffect DEF CloseIsNewest, Queue!Finish
<1>18. CASE \E t \in Terminal : WatchRemoves(t)
  BY <1>18, WatchRemovesEffect, Reserves
<1>19. CASE \E t \in Terminal : WatchEntersPersist(t)
  BY <1>19, WatchEntersPersistEffect DEF CloseIsNewest, Queue!Start
<1>20. CASE \E t \in Terminal : WatchSaves(t)
  BY <1>20, WatchSavesEffect DEF CloseIsNewest, Queue!Finish
<1>21. CASE \E t \in Terminal : WatchRetries(t)
  BY <1>21, WatchRetriesEffect, Reserves DEF TriesAgain, queueVars
<1>22. CASE SealStore
  BY <1>22, SealStoreEffect, Seals
<1>23. CASE EnterStoreClose
  BY <1>23, EnterStoreCloseEffect DEF CloseIsNewest, Queue!Start
<1>24. CASE CloseStore
  BY <1>24, CloseStoreEffect DEF CloseIsNewest, Queue!Finish
<1>25. CASE Restart
  BY <1>25, RestartEffect
<1>26. CASE UNCHANGED <<storeSequence, phase, storeSealed, closeOperation>>
  BY <1>26
<1>27. QED
  BY Writers, <1>1, <1>2, <1>3, <1>4, <1>5, <1>6, <1>7, <1>8, <1>9, <1>10, <1>11, <1>12, <1>13,
    <1>14, <1>15, <1>16, <1>17, <1>18, <1>19, <1>20, <1>21, <1>22, <1>23, <1>24, <1>25, <1>26

\* When the predecessor of a ticket is over, all older tickets are.
LEMMA PredecessorsClosed ==
    ASSUME Typed, QP!QueueInv, Queue!NoneCancelled, NEW n \in Queue!Operation,
           Queue!PredecessorClosed(n), NEW i \in Queue!Operation, i < n
    PROVE  Queue!Closed(i)
<1>1. n - 1 \in Queue!Operation /\ Queue!Closed(n - 1)
  BY LifecycleAssumption DEF LifecycleAssumption, Queue!PredecessorClosed, Queue!Operation
<1>2. Queue!Entered(n - 1)
  BY <1>1 DEF Queue!NoneCancelled, Queue!Closed, Queue!Entered
<1>3. CASE i = n - 1
  BY <1>1, <1>3
<1>4. CASE i # n - 1
  <2>1. i < n - 1
    BY <1>4, LifecycleAssumption DEF LifecycleAssumption, Queue!Operation
  <2>2. QED
    BY <1>1, <1>2, <2>1, InOrder
<1>5. QED
  BY <1>3, <1>4

\* Every other ticket was reserved before that of Close.
LEMMA ReservedBefore ==
    ASSUME Typed, CloseIsNewest, closeOperation # 0, NEW n \in Queue!Operation,
           phase[n] # "free", n # closeOperation
    PROVE  n < closeOperation
BY LifecycleAssumption
DEF LifecycleAssumption, Typed, CloseIsNewest, Queue!QueueTypeOK, Queue!Operation

\* When Close has entered the queue no shell runs: creates and deletes that
\* hold one hold a ticket before that of Close.
LEMMA ClosedShellsStep ==
    ASSUME Typed, QP!QueueInv, Queue!NoneCancelled, CloseIsNewest, WatchedInv,
           CloserInv, CreatingInv, JobTickets, ShellInv, SealedInv, ClosedShells,
           [Next]_vars
    PROVE  ClosedShells'
<1> USE NoneFree DEF ClosedShells, Sets, Alone, Goes, Keeps, CloserInv
<1>1. CASE \E c \in Client, t \in Terminal : BeginCreate(c, t)
  BY <1>1, BeginCreateEffect
<1>2. CASE \E t \in Terminal : ProcessExits(t)
  BY <1>2, ProcessExitsEffect
<1>3. CASE BeginClose
  BY <1>3, BeginCloseEffect
<1>4. CASE SealStore
  BY <1>4, SealStoreEffect
<1>5. CASE TerminateSessions
  BY <1>5, TerminateSessionsEffect
<1>6. ASSUME EnterStoreClose
      PROVE  ClosedShells'
  <2> SUFFICES ASSUME NEW t \in Terminal, process'[t] = "running"
               PROVE  FALSE
    BY DEF ClosedShells
  <2>1. /\ process[t] = "running" /\ closer = "reap" /\ Queue!Start(closeOperation)
        /\ \A u \in closeItems : watcher[u] = "done"
    BY <1>6, EnterStoreCloseEffect
  <2>2. closeOperation # 0 /\ closeOperation \in Queue!Operation /\ creating = {} /\ storeSealed
    BY <2>1, CloseOp DEF CloserInv
  <2>3. t \notin sessions
    BY <2>1, <2>2 DEF WatchedInv, SealedInv
  <2>4. PICK c \in Client : job[c].id = t /\ job[c].pc \in UnregisteredPC \cup RemovedPC
    BY <2>1, <2>3 DEF ShellInv
  <2>5. job[c].pc \in RemovedPC
    BY <2>2, <2>4 DEF CreatingInv, UnregisteredPC
  <2>6. job[c].pc \in WaitingPC \cup RunningPC
    BY <2>5 DEF RemovedPC, DeletingPC, WaitingPC, RunningPC
  <2>7. /\ job[c].ticket \in Queue!Operation /\ job[c].ticket # closeOperation
        /\ phase[job[c].ticket] \in {"waiting", "running"}
    BY <2>6 DEF JobTickets, JobTicket
  <2>8. job[c].ticket < closeOperation
    BY <2>2, <2>7, ReservedBefore
  <2>9. Queue!Closed(job[c].ticket)
    BY <2>1, <2>2, <2>7, <2>8, PredecessorsClosed DEF Queue!Start
  <2> QED
    BY <2>7, <2>9 DEF Queue!Closed
<1>7. CASE CloseStore
  BY <1>7, CloseStoreEffect
<1>8. CASE Restart
  BY <1>8, RestartEffect
<1>9. CASE UNCHANGED <<process, closer>>
  BY <1>9
<1>10. QED
  BY Writers, <1>1, <1>2, <1>3, <1>4, <1>5, <1>6, <1>7, <1>8, <1>9

\* So Close leaves neither a shell nor a create nor a ticket.
LEMMA NothingLeft ==
    ASSUME Typed, QP!QueueInv, Queue!NoneCancelled, CloseIsNewest, CloserInv, ClosedShells
    PROVE  CloseLeavesNothing
<1> SUFFICES ASSUME closer = "closed" PROVE CloseLeavesNothing
  BY DEF CloseLeavesNothing
<1>1. /\ closeOperation # 0 /\ closeOperation \in Queue!Operation /\
           phase[closeOperation] = "persisted"
      /\ closeOperation = storeSequence
  BY CloseOp DEF CloserInv, CloseIsNewest
<1>2. ASSUME NEW n \in 1..storeSequence
      PROVE  Queue!Closed(n)
  <2>1. n \in Queue!Operation
    BY <1>1, LifecycleAssumption DEF LifecycleAssumption, Queue!Operation
  <2>2. CASE n = closeOperation
    BY <2>2, <1>1 DEF Queue!Closed
  <2>3. CASE n # closeOperation
    <3>1. n < closeOperation
      BY <2>3, <1>1, LifecycleAssumption DEF LifecycleAssumption, Queue!Operation
    <3>2. QED
      BY <3>1, <2>1, <1>1, InOrder DEF Queue!Entered
  <2>4. QED
    BY <2>2, <2>3
<1>3. QED
  BY <1>2 DEF CloseLeavesNothing, ClosedShells

-----------------------------------------------------------------------------
(* Change numbers are kept *)

\* What a new change of the log preserves.  The deletions and updates of the
\* log stay, and it is quiet about a terminal unless the change is about it.
LEMMA AfterGrowth ==
    ASSUME Typed, NEW kind, NEW t, NEW o, Grows(kind, t, o)
    PROVE  /\ \A u, n : Ends(changes, u, n) => Ends(changes', u, n)
           /\ \A n : Updated(changes, n) => Updated(changes', n)
           /\ \A u, n : Ends(changes, u, n) /\ Quiet(changes, u, n) /\
                (u = t => kind = "created") => Quiet(changes', u, n)
           /\ \A u, n : Emitted(changes', u, n) => \/ Emitted(changes, u, n)
                                                   \/ n = ChangeNumber /\ u = t /\
                                                        o = "emitted" /\ kind = "deleted"
           /\ \A u : Quiet(changes', u, ChangeNumber)
           /\ kind = "deleted" => Ends(changes', t, ChangeNumber)
           /\ kind = "updated" => Updated(changes', ChangeNumber)
<1>1. /\ Len(changes) \in Nat /\ Len(changes') = Len(changes) + 1
      /\ \A n \in 1..Len(changes) : changes'[n] = changes[n]
      /\ changes'[ChangeNumber].kind = kind /\ changes'[ChangeNumber].id = t
      /\ changes'[ChangeNumber].outcome = o
      /\ ChangeNumber = Len(changes) + 1
  BY DEF Grows, ChangeNumber
<1>2. \A n : n \in 1..Len(changes') <=> n \in 1..Len(changes) \/ n = ChangeNumber
  BY <1>1
<1>3. \A n \in 1..Len(changes) : ~(n > ChangeNumber)
  BY <1>1
<1>4. ~(ChangeNumber > ChangeNumber)
  BY <1>1
<1>5. QED
  BY <1>1, <1>2, <1>3, <1>4 DEF Ends, Updated, Quiet, Emitted

\* What the outcome of a change preserves: only an emission emits.
LEMMA AfterSettling ==
    ASSUME Typed, NEW n \in Nat, NEW o, Settles(n, o)
    PROVE  /\ \A u, m : Ends(changes, u, m) => Ends(changes', u, m)
           /\ \A m : Updated(changes, m) => Updated(changes', m)
           /\ \A u, m : Quiet(changes, u, m) => Quiet(changes', u, m)
           /\ \A u, m : Emitted(changes', u, m) => \/ Emitted(changes, u, m)
                                                   \/ m = n /\ o = "emitted" /\
                                                        Ends(changes, u, n)
BY DEF Settles, Ends, Updated, Quiet, Emitted

\* Change numbers are naturals.
LEMMA ChangeIsNat ==
    ASSUME Typed
    PROVE  /\ \A c \in Client : job[c].change \in Nat
           /\ \A t \in Terminal : exit[t].change \in Nat
           /\ ChangeNumber \in Nat
<1>1. Len(changes) \in Nat
  BY DEF Typed, ChangeTypes
<1>2. QED
  BY <1>1, Fields, ExitFields DEF ChangeNumber

\* A call keeps the number of the change that it made.
LEMMA JobChangesStep ==
    ASSUME Typed, MutexInv, HeldInv, JobChanges, [Next]_vars
    PROVE  JobChanges'
<1> USE IdleIs, NoneFree, ChangeIsNat DEF JobChanges, LifecyclePC, ClaimedPC, RemovedPC,
        DeletingPC, PreparedPC, SnapshotPC, MutationPC, SavePC, Sets, Alone, Goes, Keeps
<1>1. CASE \E c \in Client, t \in Terminal : BeginCreate(c, t)
  BY <1>1, BeginCreateEffect
<1>2. CASE \E c \in Client : \E from, to : Entering(from, to) /\ EnterPersist(c, from, to)
  BY <1>2, EnterPersistEffect DEF Entering
<1>3. CASE \E c \in Client : CreateSaved(c)
  BY <1>3, CreateSavedEffect
<1>4. CASE \E c \in Client : Register(c)
  BY <1>4, RegisterEffect
<1>5. CASE \E c \in Client : RegisterRefused(c)
  BY <1>5, RegisterRefusedEffect
<1>6. CASE \E c \in Client : CleanedUp(c)
  BY <1>6, CleanedUpEffect
<1>7. CASE \E c \in Client : Discarded(c)
  BY <1>7, DiscardedEffect
<1>8. CASE \E c \in Client : Announce(c)
  BY <1>8, AnnounceEffect, AfterGrowth
<1>9. CASE \E c \in Client, t \in Terminal, o \in {"rename", "updateAgent"} :
        BeginMutation(c, t, o)
  BY <1>9, BeginMutationEffect DEF Updated
<1>10. ASSUME NEW c \in Client, NEW new \in Row, MutatesTo(c, new)
      PROVE  JobChanges'
  <2>1. /\ job[c].pc \in {"rename", "updateAgent"} /\ job[c].id \in Terminal /\ Alone(c)
        /\ ~closing /\ job[c].id \in sessions
        /\ job'[c].pc \in {"renameSave", "updateSave"} /\ job'[c].id = job[c].id
        /\ UNCHANGED <<sessions>>
        /\ \/ changes' = changes /\ job'[c].change = 0
           \/ Grows("updated", job[c].id, "pending") /\ job'[c].change = ChangeNumber
    BY <1>10, MutatesToEffect DEF Numbers
  <2>2. CASE changes' = changes /\ job'[c].change = 0
    BY <2>1, <2>2, ChangeIsNat
    DEF JobChanges, HeldInv, Updated, Alone, LifecyclePC, ClaimedPC, RemovedPC, DeletingPC,
          PreparedPC, SnapshotPC, MutationPC, SavePC
  <2>3. CASE Grows("updated", job[c].id, "pending") /\ job'[c].change = ChangeNumber
    <3>1. /\ \A u, n : Ends(changes, u, n) => Ends(changes', u, n)
          /\ \A n : Updated(changes, n) => Updated(changes', n)
          /\ \A u, n : Ends(changes, u, n) /\ Quiet(changes, u, n) /\ u # job[c].id =>
               Quiet(changes', u, n)
          /\ \A u, n : Emitted(changes', u, n) => Emitted(changes, u, n)
          /\ Updated(changes', ChangeNumber)
      BY <2>3, AfterGrowth
    <3> QED
      BY <2>1, <2>3, <3>1, ChangeIsNat
      DEF JobChanges, HeldInv, Updated, Alone, LifecyclePC, ClaimedPC, RemovedPC, DeletingPC,
            PreparedPC, SnapshotPC, MutationPC, SavePC
  <2> QED
    BY <2>1, <2>2, <2>3
<1>11. CASE \E c \in Client : MutationRefused(c)
  BY <1>11, MutationRefusedEffect
<1>12. CASE \E c \in Client : MutationSaved(c)
  BY <1>12, MutationSavedEffect, AfterSettling
<1>13. CASE \E c \in Client : UpdateNotSaved(c)
  BY <1>13, UpdateNotSavedEffect, AfterSettling
<1>14. CASE \E c \in Client : RenameNotSaved(c)
  BY <1>14, RenameNotSavedEffect
<1>15. CASE \E c \in Client : RollBack(c)
  BY <1>15, RollBackEffect, AfterSettling
<1>16. CASE \E c \in Client, t \in Terminal, o \in {"delete", "archive"} :
         LockLifecycle(c, t, o)
  BY <1>16, LockLifecycleEffect
<1>17. CASE \E c \in Client : ClaimDelete(c)
  BY <1>17, ClaimDeleteEffect
<1>18. CASE \E c \in Client : LifecycleRefused(c)
  BY <1>18, LifecycleRefusedEffect
<1>19. CASE \E c \in Client : RemoveEntry(c)
  BY <1>19, RemoveEntryEffect, AfterGrowth DEF HeldInv
<1>20. CASE \E c \in Client : DeleteRefused(c)
  BY <1>20, DeleteRefusedEffect
<1>21. CASE \E c \in Client : OperationDropped(c)
  BY <1>21, OperationDroppedEffect, AfterSettling
<1>22. CASE \E c \in Client : RowDeleted(c)
  BY <1>22, RowDeletedEffect
<1>23. CASE \E c \in Client : RowNotDeleted(c)
  BY <1>23, RowNotDeletedEffect
<1>24. CASE \E c \in Client : Reaped(c)
  BY <1>24, ReapedEffect, AfterSettling
<1>25. CASE \E c \in Client : DeleteFailed(c)
  BY <1>25, DeleteFailedEffect, AfterSettling
<1>26. CASE \E c \in Client : PrepareArchive(c)
  BY <1>26, PrepareArchiveEffect
<1>27. CASE \E c \in Client : LockForArchive(c)
  BY <1>27, LockForArchiveEffect
<1>28. CASE \E c \in Client : ArchiveNotLocked(c)
  BY <1>28, ArchiveNotLockedEffect
<1>29. CASE \E c \in Client : ReserveArchive(c)
  BY <1>29, ReserveArchiveEffect
<1>30. CASE \E c \in Client : ArchiveSealedOut(c)
  BY <1>30, ArchiveSealedOutEffect
<1>31. CASE \E c \in Client : ArchiveCancelled(c)
  BY <1>31, ArchiveCancelledEffect
<1>32. CASE \E c \in Client : ArchiveSaved(c)
  BY <1>32, ArchiveSavedEffect
<1>33. CASE \E c \in Client : ArchiveNotSaved(c)
  BY <1>33, ArchiveNotSavedEffect
<1>34. CASE \E c \in Client : CommitArchive(c)
  BY <1>34, CommitArchiveEffect
<1>35. CASE \E c \in Client : ArchiveReaped(c)
  BY <1>35, ArchiveReapedEffect, AfterGrowth DEF MutexInv, HeldInv
<1>36. CASE \E t \in Terminal : WatchRemoves(t)
  BY <1>36, WatchRemovesEffect, AfterGrowth DEF HeldInv
<1>37. CASE \E t \in Terminal : WatchPublishes(t)
  BY <1>37, WatchPublishesEffect, AfterSettling
<1>38. CASE Restart
  BY <1>38, RestartEffect
<1>39. CASE UNCHANGED <<changes, job>>
  BY <1>39
<1>40. QED
  BY Writers, <1>1, <1>2, <1>3, <1>4, <1>5, <1>6, <1>7, <1>8, <1>9, <1>10, <1>11, <1>12, <1>13,
    <1>14, <1>15, <1>16, <1>17, <1>18, <1>19, <1>20, <1>21, <1>22, <1>23, <1>24, <1>25, <1>26,
      <1>27, <1>28, <1>29, <1>30, <1>31, <1>32, <1>33, <1>34, <1>35, <1>36, <1>37, <1>38, <1>39

\* Nothing is said about a terminal between its removal by the watcher and
\* the emission of its deletion.
LEMMA ExitChangesStep ==
    ASSUME Typed, WatchedInv, HeldInv, ExitChanges, [Next]_vars
    PROVE  ExitChanges'
<1> USE ChangeIsNat DEF ExitChanges, ExitSaving, Sets, Alone, Goes, Keeps
<1>1. CASE \E c \in Client : Announce(c)
  BY <1>1, AnnounceEffect, AfterGrowth
<1>2. ASSUME NEW c \in Client, NEW new \in Row, MutatesTo(c, new)
      PROVE  ExitChanges'
  <2>1. /\ job[c].pc \in {"rename", "updateAgent"} /\ job[c].id \in Terminal /\ Alone(c)
        /\ ~closing /\ job[c].id \in sessions
        /\ job'[c].pc \in {"renameSave", "updateSave"} /\ job'[c].id = job[c].id
        /\ UNCHANGED <<sessions, watcher, exit>>
        /\ \/ changes' = changes /\ job'[c].change = 0
           \/ Grows("updated", job[c].id, "pending") /\ job'[c].change = ChangeNumber
    BY <1>2, MutatesToEffect DEF Numbers
  <2>2. CASE changes' = changes /\ job'[c].change = 0
    BY <2>1, <2>2, ChangeIsNat
    DEF ExitChanges, WatchedInv, ExitSaving
  <2>3. CASE Grows("updated", job[c].id, "pending") /\ job'[c].change = ChangeNumber
    <3>1. /\ \A u, n : Ends(changes, u, n) => Ends(changes', u, n)
          /\ \A n : Updated(changes, n) => Updated(changes', n)
          /\ \A u, n : Ends(changes, u, n) /\ Quiet(changes, u, n) /\ u # job[c].id =>
               Quiet(changes', u, n)
          /\ \A u, n : Emitted(changes', u, n) => Emitted(changes, u, n)
          /\ Updated(changes', ChangeNumber)
      BY <2>3, AfterGrowth
    <3> QED
      BY <2>1, <2>3, <3>1, ChangeIsNat
      DEF ExitChanges, WatchedInv, ExitSaving
  <2> QED
    BY <2>1, <2>2, <2>3
<1>3. CASE \E c \in Client : MutationSaved(c)
  BY <1>3, MutationSavedEffect, AfterSettling
<1>4. CASE \E c \in Client : UpdateNotSaved(c)
  BY <1>4, UpdateNotSavedEffect, AfterSettling
<1>5. CASE \E c \in Client : RollBack(c)
  BY <1>5, RollBackEffect, AfterSettling
<1>6. CASE \E c \in Client : RemoveEntry(c)
  BY <1>6, RemoveEntryEffect, AfterGrowth DEF WatchedInv
<1>7. CASE \E c \in Client : OperationDropped(c)
  BY <1>7, OperationDroppedEffect, AfterSettling
<1>8. CASE \E c \in Client : Reaped(c)
  BY <1>8, ReapedEffect, AfterSettling
<1>9. CASE \E c \in Client : DeleteFailed(c)
  BY <1>9, DeleteFailedEffect, AfterSettling
<1>10. CASE \E c \in Client : ArchiveReaped(c)
  BY <1>10, ArchiveReapedEffect, AfterGrowth DEF WatchedInv, HeldInv, RegisteredPC, PreparedPC
<1>11. CASE \E t \in Terminal : WatchDefersToArchive(t)
  BY <1>11, WatchDefersToArchiveEffect
<1>12. CASE \E t \in Terminal : WatchArchiveReady(t)
  BY <1>12, WatchArchiveReadyEffect DEF AfterArchive
<1>13. CASE \E t \in Terminal : WatchStandsBack(t)
  BY <1>13, WatchStandsBackEffect
<1>14. CASE \E t \in Terminal : WatchRemoves(t)
  BY <1>14, WatchRemovesEffect, AfterGrowth DEF WatchedInv
<1>15. CASE \E t \in Terminal : WatchEntersPersist(t)
  BY <1>15, WatchEntersPersistEffect
<1>16. CASE \E t \in Terminal : WatchSaves(t)
  BY <1>16, WatchSavesEffect DEF AfterFailedSave
<1>17. CASE \E t \in Terminal : WatchRetries(t)
  BY <1>17, WatchRetriesEffect DEF TriesAgain
<1>18. ASSUME NEW t \in Terminal, WatchPublishes(t)
      PROVE  ExitChanges'
  <2>1. Settles(exit[t].change, "emitted") /\ Sets(watcher, watcher', t, "done") /\
          UNCHANGED exit
    BY <1>18, WatchPublishesEffect
  <2>2. exit[t].change \in Nat
    BY ChangeIsNat
  <2>3. /\ \A u, m : Ends(changes, u, m) => Ends(changes', u, m)
        /\ \A u, m : Quiet(changes, u, m) => Quiet(changes', u, m)
    BY <2>1, <2>2, AfterSettling
  <2>4. QED
    BY <2>1, <2>3
<1>19. CASE Restart
  BY <1>19, RestartEffect
<1>20. CASE UNCHANGED <<watcher, changes, exit>>
  BY <1>20
<1>21. QED
  BY Writers, <1>1, <1>2, <1>3, <1>4, <1>5, <1>6, <1>7, <1>8, <1>9, <1>10, <1>11, <1>12, <1>13,
    <1>14, <1>15, <1>16, <1>17, <1>18, <1>19, <1>20

\* A terminal is not registered again once its deletion is emitted: a delete
\* emits when the row is gone, and a failed delete discards the change.
LEMMA EndedStep ==
    ASSUME Typed, AbsentInv, MutexInv, DeleteClaim, ArchiveClaim, NewInv, HeldInv,
           WatchedInv, JobChanges, ExitChanges, EndedInv, [Next]_vars
    PROVE  EndedInv'
<1> USE IdleIs, NoneFree, ChangeIsNat DEF EndedInv, UnregisteredPC, CreatePC, DeletingPC, Sets,
        Alone, Goes, Keeps
<1>1. CASE \E c \in Client, t \in Terminal : BeginCreate(c, t)
  BY <1>1, BeginCreateEffect DEF AbsentInv
<1>2. CASE \E c \in Client : \E from, to : Entering(from, to) /\ EnterPersist(c, from, to)
  BY <1>2, EnterPersistEffect DEF Entering
<1>3. CASE \E c \in Client : CreateSaved(c)
  BY <1>3, CreateSavedEffect
<1>4. CASE \E c \in Client : Register(c)
  BY <1>4, RegisterEffect
<1>5. CASE \E c \in Client : RegisterRefused(c)
  BY <1>5, RegisterRefusedEffect
<1>6. CASE \E c \in Client : CleanedUp(c)
  BY <1>6, CleanedUpEffect
<1>7. CASE \E c \in Client : Discarded(c)
  BY <1>7, DiscardedEffect
<1>8. ASSUME NEW c \in Client, Announce(c)
      PROVE  EndedInv'
  <2>1. /\ job[c].pc = "announce" /\ job[c].id \in Terminal /\ Alone(c) /\ job'[c] = Idle
        /\ Grows("created", job[c].id, "emitted") /\ UNCHANGED <<sessions, process>>
    BY <1>8, AnnounceEffect
  <2>2. /\ \A u, n : Emitted(changes', u, n) => Emitted(changes, u, n)
        /\ \A u, n : Ends(changes, u, n) /\ Quiet(changes, u, n) => Quiet(changes', u, n)
    BY <2>1, AfterGrowth
  <2>3. QED
    BY <2>1, <2>2, IdleIs DEF EndedInv, Emitted, Alone, UnregisteredPC, CreatePC, DeletingPC
<1>9. CASE \E c \in Client, t \in Terminal, o \in {"rename", "updateAgent"} :
        BeginMutation(c, t, o)
  BY <1>9, BeginMutationEffect
<1>10. ASSUME NEW c \in Client, NEW new \in Row, MutatesTo(c, new)
      PROVE  EndedInv'
  <2>1. /\ job[c].pc \in {"rename", "updateAgent"} /\ job[c].id \in Terminal /\ Alone(c)
        /\ ~closing /\ job[c].id \in sessions
        /\ job'[c].pc \in {"renameSave", "updateSave"} /\ job'[c].id = job[c].id
        /\ UNCHANGED <<sessions, process>>
        /\ \/ changes' = changes /\ job'[c].change = 0
           \/ Grows("updated", job[c].id, "pending") /\ job'[c].change = ChangeNumber
    BY <1>10, MutatesToEffect DEF Numbers
  <2>2. CASE changes' = changes /\ job'[c].change = 0
    BY <2>1, <2>2, ChangeIsNat
    DEF EndedInv, Emitted, Alone, UnregisteredPC, CreatePC, DeletingPC
  <2>3. CASE Grows("updated", job[c].id, "pending") /\ job'[c].change = ChangeNumber
    <3>1. /\ \A u, n : Ends(changes, u, n) => Ends(changes', u, n)
          /\ \A n : Updated(changes, n) => Updated(changes', n)
          /\ \A u, n : Ends(changes, u, n) /\ Quiet(changes, u, n) /\ u # job[c].id =>
               Quiet(changes', u, n)
          /\ \A u, n : Emitted(changes', u, n) => Emitted(changes, u, n)
          /\ Updated(changes', ChangeNumber)
      BY <2>3, AfterGrowth
    <3> QED
      BY <2>1, <2>3, <3>1, ChangeIsNat
      DEF EndedInv, Emitted, Alone, UnregisteredPC, CreatePC, DeletingPC
  <2> QED
    BY <2>1, <2>2, <2>3
<1>11. CASE \E c \in Client : MutationRefused(c)
  BY <1>11, MutationRefusedEffect
<1>12. ASSUME NEW c \in Client, MutationSaved(c)
      PROVE  EndedInv'
  <2>1. /\ job[c].pc \in {"renameSaving", "updateSaving"} /\ job[c].id \in Terminal
        /\ Alone(c) /\ job'[c] = Idle
        /\ Settles(job[c].change, "emitted") /\ UNCHANGED <<sessions, process>>
    BY <1>12, MutationSavedEffect
  <2>2. Updated(changes, job[c].change)
    BY <2>1 DEF JobChanges, MutationPC, SavePC
  <2>3. \A u : ~Ends(changes, u, job[c].change)
    <3>1. 0 \notin 1..Len(changes)
      BY DEF Typed, ChangeTypes
    <3>2. QED
      BY <2>2, <3>1 DEF Updated, Ends
  <2>4. /\ \A u, n : Emitted(changes', u, n) => Emitted(changes, u, n)
        /\ \A u, n : Quiet(changes, u, n) => Quiet(changes', u, n)
    BY <2>1, <2>3, AfterSettling, ChangeIsNat
  <2>5. QED
    BY <2>1, <2>4, IdleIs DEF EndedInv, Alone, UnregisteredPC, CreatePC, DeletingPC
<1>13. CASE \E c \in Client : UpdateNotSaved(c)
  BY <1>13, UpdateNotSavedEffect, AfterSettling
<1>14. CASE \E c \in Client : RenameNotSaved(c)
  BY <1>14, RenameNotSavedEffect
<1>15. CASE \E c \in Client : RollBack(c)
  BY <1>15, RollBackEffect, AfterSettling
<1>16. CASE \E c \in Client, t \in Terminal, o \in {"delete", "archive"} :
         LockLifecycle(c, t, o)
  BY <1>16, LockLifecycleEffect
<1>17. CASE \E c \in Client : ClaimDelete(c)
  BY <1>17, ClaimDeleteEffect
<1>18. CASE \E c \in Client : LifecycleRefused(c)
  BY <1>18, LifecycleRefusedEffect
<1>19. ASSUME NEW c \in Client, RemoveEntry(c)
      PROVE  EndedInv'
  <2>1. /\ job[c].pc = "remove" /\ job[c].id \in Terminal /\ Alone(c)
        /\ job[c].id \in sessions /\ sessions' = sessions \ {job[c].id}
        /\ Grows("deleted", job[c].id, "pending") /\ job'[c].id = job[c].id
        /\ UNCHANGED process
    BY <1>19, RemoveEntryEffect
  <2>2. /\ \A u, n : Emitted(changes', u, n) => Emitted(changes, u, n)
        /\ \A u, n : Ends(changes, u, n) /\ Quiet(changes, u, n) /\ u # job[c].id =>
             Quiet(changes', u, n)
    BY <2>1, AfterGrowth
  <2>3. QED
    BY <2>1, <2>2 DEF EndedInv, Emitted, Alone, UnregisteredPC, CreatePC, DeletingPC
<1>20. CASE \E c \in Client : DeleteRefused(c)
  BY <1>20, DeleteRefusedEffect
<1>21. CASE \E c \in Client : OperationDropped(c)
  BY <1>21, OperationDroppedEffect, AfterSettling
<1>22. CASE \E c \in Client : RowDeleted(c)
  BY <1>22, RowDeletedEffect
<1>23. CASE \E c \in Client : RowNotDeleted(c)
  BY <1>23, RowNotDeletedEffect
<1>24. ASSUME NEW c \in Client, Reaped(c)
      PROVE  EndedInv'
  <2>1. /\ job[c].pc = "reap" /\ job[c].id \in Terminal /\ Alone(c) /\ job'[c] = Idle
        /\ Settles(job[c].change, "emitted") /\ UNCHANGED <<sessions, process>>
    BY <1>24, ReapedEffect
  <2>2. Ends(changes, job[c].id, job[c].change) /\ Quiet(changes, job[c].id, job[c].change)
    BY <2>1 DEF JobChanges, RemovedPC
  <2>3. /\ \A u, n : Emitted(changes', u, n) =>
              \/ Emitted(changes, u, n)
              \/ n = job[c].change /\ Ends(changes, u, job[c].change)
        /\ \A u, n : Quiet(changes, u, n) => Quiet(changes', u, n)
    BY <2>1, AfterSettling, ChangeIsNat
  <2>4. \A u : Ends(changes, u, job[c].change) => u = job[c].id
    BY <2>2 DEF Ends
  <2>5. job[c].id \notin sessions /\ process[job[c].id] # "absent"
    BY <2>1 DEF HeldInv, RemovedPC, AbsentInv
  <2>6. \A d \in Client : d # c /\ job[d].id = job[c].id =>
             job[d].pc \notin UnregisteredPC \cup DeletingPC
    BY <2>1 DEF NewInv, MutexInv, LifecyclePC, ClaimedPC, RemovedPC, DeletingPC
  <2>7. QED
    BY <2>1, <2>2, <2>3, <2>4, <2>5, <2>6, IdleIs
    DEF EndedInv, Alone, UnregisteredPC, CreatePC, DeletingPC
<1>25. CASE \E c \in Client : DeleteFailed(c)
  BY <1>25, DeleteFailedEffect, AfterSettling
<1>26. CASE \E c \in Client : PrepareArchive(c)
  BY <1>26, PrepareArchiveEffect
<1>27. CASE \E c \in Client : LockForArchive(c)
  BY <1>27, LockForArchiveEffect
<1>28. CASE \E c \in Client : ArchiveNotLocked(c)
  BY <1>28, ArchiveNotLockedEffect
<1>29. CASE \E c \in Client : ReserveArchive(c)
  BY <1>29, ReserveArchiveEffect
<1>30. CASE \E c \in Client : ArchiveSealedOut(c)
  BY <1>30, ArchiveSealedOutEffect
<1>31. CASE \E c \in Client : ArchiveCancelled(c)
  BY <1>31, ArchiveCancelledEffect
<1>32. CASE \E c \in Client : ArchiveSaved(c)
  BY <1>32, ArchiveSavedEffect
<1>33. CASE \E c \in Client : ArchiveNotSaved(c)
  BY <1>33, ArchiveNotSavedEffect
<1>34. CASE \E c \in Client : CommitArchive(c)
  BY <1>34, CommitArchiveEffect
<1>35. ASSUME NEW c \in Client, ArchiveReaped(c)
      PROVE  EndedInv'
  <2>1. /\ job[c].pc = "archiveReap" /\ job[c].id \in Terminal /\ Alone(c) /\ job'[c] = Idle
        /\ sessions' = sessions \ {job[c].id}
        /\ Grows("deleted", job[c].id, "emitted") /\ UNCHANGED process
    BY <1>35, ArchiveReapedEffect
  <2>2. job[c].id \in sessions /\ process[job[c].id] # "absent"
    BY <2>1 DEF HeldInv, RegisteredPC, AbsentInv
  <2>3. /\ \A u, n : Emitted(changes', u, n) =>
              \/ Emitted(changes, u, n)
              \/ n = ChangeNumber /\ u = job[c].id
        /\ \A u, n : Ends(changes, u, n) /\ Quiet(changes, u, n) /\ u # job[c].id =>
             Quiet(changes', u, n)
        /\ Quiet(changes', job[c].id, ChangeNumber)
    BY <2>1, AfterGrowth
  <2>4. \A d \in Client : d # c /\ job[d].id = job[c].id =>
             job[d].pc \notin UnregisteredPC \cup DeletingPC
    BY <2>1 DEF NewInv, MutexInv, LifecyclePC, ClaimedPC, RemovedPC, DeletingPC
  <2>5. QED
    BY <2>1, <2>2, <2>3, <2>4, IdleIs
    DEF EndedInv, Emitted, Alone, UnregisteredPC, CreatePC, DeletingPC
<1>36. CASE \E t \in Terminal : ProcessExits(t)
  BY <1>36, ProcessExitsEffect
<1>37. ASSUME NEW t \in Terminal, WatchRemoves(t)
      PROVE  EndedInv'
  <2>1. /\ t \in sessions /\ sessions' = sessions \ {t}
        /\ Grows("deleted", t, "pending") /\ UNCHANGED <<process, job>>
    BY <1>37, WatchRemovesEffect
  <2>2. /\ \A u, n : Emitted(changes', u, n) => Emitted(changes, u, n)
        /\ \A u, n : Ends(changes, u, n) /\ Quiet(changes, u, n) /\ u # t =>
             Quiet(changes', u, n)
    BY <2>1, AfterGrowth
  <2>3. QED
    BY <2>1, <2>2 DEF EndedInv, Emitted
<1>38. ASSUME NEW t \in Terminal, WatchPublishes(t)
      PROVE  EndedInv'
  <2>1. /\ watcher[t] = "publish" /\ Settles(exit[t].change, "emitted")
        /\ UNCHANGED <<sessions, process, job>>
    BY <1>38, WatchPublishesEffect
  <2>2. Ends(changes, t, exit[t].change) /\ Quiet(changes, t, exit[t].change)
    BY <2>1 DEF ExitChanges, ExitSaving
  <2>3. /\ \A u, n : Emitted(changes', u, n) =>
              \/ Emitted(changes, u, n)
              \/ n = exit[t].change /\ Ends(changes, u, exit[t].change)
        /\ \A u, n : Quiet(changes, u, n) => Quiet(changes', u, n)
    <3>1. exit[t].change \in Nat
      BY ChangeIsNat
    <3>2. QED
      BY <2>1, <3>1, AfterSettling
  <2>4. \A u : Ends(changes, u, exit[t].change) => u = t
    BY <2>2 DEF Ends
  <2>5. t \notin sessions /\ process[t] # "absent" /\ t \notin deleteInProgress
    BY <2>1 DEF WatchedInv, AbsentInv, ExitSaving
  <2>6. \A d \in Client : job[d].id = t => job[d].pc \notin UnregisteredPC \cup DeletingPC
    BY <2>1, <2>5
    DEF NewInv, UnregisteredPC, MutexInv, DeleteClaim, LifecyclePC, ClaimedPC, RemovedPC,
          DeletingPC
  <2>7. QED
    BY <2>1, <2>2, <2>3, <2>4, <2>5, <2>6 DEF EndedInv
<1>39. ASSUME Restart
      PROVE  EndedInv'
  <2>1. changes' = <<>>
    BY <1>39, RestartEffect
  <2>2. \A u, n : ~Emitted(changes', u, n)
    BY <2>1 DEF Emitted, Ends
  <2>3. QED
    BY <2>2 DEF EndedInv
<1>40. CASE UNCHANGED <<sessions, process, changes, job>>
  BY <1>40
<1>41. QED
  BY Writers, <1>1, <1>2, <1>3, <1>4, <1>5, <1>6, <1>7, <1>8, <1>9, <1>10, <1>11, <1>12, <1>13,
    <1>14, <1>15, <1>16, <1>17, <1>18, <1>19, <1>20, <1>21, <1>22, <1>23, <1>24, <1>25, <1>26,
      <1>27, <1>28, <1>29, <1>30, <1>31, <1>32, <1>33, <1>34, <1>35, <1>36, <1>37, <1>38,
        <1>39, <1>40

-----------------------------------------------------------------------------
(* Memory *)

\* A failed write leaves the rows alone and is counted, unless Close has made
\* it fail.
LEMMA FailsTwice ==
    ASSUME Typed, CloserInv, WriteFails
    PROVE  /\ failures' \in Nat /\ failures \in Nat /\ failures' >= failures /\
                UNCHANGED <<rows, rowWriter>>
           /\ failures' > 0 \/ closing
           /\ failures' <= MaxFailures
           /\ ~closing => failures' = failures + 1
BY LifecycleAssumption
DEF LifecycleAssumption, Typed, StoreTypes, WriteFails, StoreOpen, CloserInv

\* Without agent updates, a mutation is a rename under the metadata mutex.
LEMMA Renames ==
    ASSUME Typed, NoUpdates, NEW c \in Client, NEW new \in Row, MutatesTo(c, new)
    PROVE  /\ job[c].pc = "rename" /\ job'[c].pc = "renameSave" /\ job'[c].id = job[c].id
           /\ job'[c].before = metadata[job[c].id] /\ job'[c].after = new
           /\ Renamed(job'[c].before, new)
           /\ job[c].id \in Terminal /\ job[c].id \in sessions /\ Alone(c)
           /\ Sets(metadata, metadata', job[c].id, new)
           /\ UNCHANGED <<rows, sessions, failures, closing, metadataSaveMu>>
<1>1. job[c].pc = "rename"
  BY MutatesToEffect DEF NoUpdates
<1>2. job'[c].before = metadata[job[c].id] /\
        metadata[job[c].id] = [new EXCEPT !.name = metadata[job[c].id].name]
  BY <1>1, MutatesToEffect DEF RenamesOnly
<1>3. Renamed(job'[c].before, new)
  BY <1>2 DEF Renamed
<1>4. QED
  BY <1>1, <1>3, MutatesToEffect

\* A rollback makes memory agree with the row again.
LEMMA RollsBack ==
    ASSUME Typed, PendingInv, AgreeInv, NEW c \in Client, RollBack(c)
    PROVE  /\ job[c].pc = "rollback" /\ job'[c] = Idle /\ Alone(c) /\ job[c].id \in Terminal
           /\ failures > 0 \/ closing
           /\ \A t \in Terminal : t # job[c].id => metadata'[t] = metadata[t]
           /\ job[c].id \in sessions => metadata'[job[c].id] = rows[job[c].id]
           /\ Sets(metadataSaveMu, metadataSaveMu', job[c].id, None)
           /\ UNCHANGED <<rows, sessions, failures, closing>>
<1>1. /\ job[c].pc = "rollback" /\ job'[c] = Idle /\ Alone(c) /\ job[c].id \in Terminal
      /\ IF job[c].id \in sessions /\ metadata[job[c].id].name = job[c].after.name
           THEN Sets(metadata, metadata', job[c].id,
             [metadata[job[c].id] EXCEPT !.name = job[c].before.name])
           ELSE UNCHANGED metadata
      /\ Sets(metadataSaveMu, metadataSaveMu', job[c].id, None)
      /\ UNCHANGED <<rows, sessions, failures, closing>>
  BY RollBackEffect DEF NameUndone
<1>2. \A t \in Terminal : t # job[c].id => metadata'[t] = metadata[t]
  BY <1>1 DEF Sets
<1>3. /\ failures > 0 \/ closing
      /\ metadata[job[c].id] = job[c].after
      /\ job[c].before = [job[c].after EXCEPT !.name = job[c].before.name]
  BY <1>1 DEF PendingInv, Renamed
<1>4. ASSUME job[c].id \in sessions
      PROVE  metadata'[job[c].id] = rows[job[c].id]
  <2>1. metadata'[job[c].id] = [metadata[job[c].id] EXCEPT !.name = job[c].before.name]
    BY <1>1, <1>3, <1>4 DEF Sets
  <2>2. rows[job[c].id] = job[c].before
    BY <1>1, <1>4 DEF AgreeInv, Agree
  <2>3. QED
    BY <2>1, <2>2, <1>3
<1>5. QED
  BY <1>1, <1>2, <1>3, <1>4

\* Agent updates stay off when they are not among the operations.
LEMMA NoUpdatesStep ==
    ASSUME Typed, NoUpdates, "updateAgent" \notin Operations, [Next]_vars
    PROVE  NoUpdates'
<1> USE IdleIs DEF NoUpdates, Sets, Alone, Goes, Keeps
<1>1. CASE \E c \in Client, t \in Terminal : BeginCreate(c, t)
  BY <1>1, BeginCreateEffect
<1>2. CASE \E c \in Client : \E from, to : Entering(from, to) /\ EnterPersist(c, from, to)
  BY <1>2, EnterPersistEffect DEF Entering
<1>3. CASE \E c \in Client : CreateSaved(c)
  BY <1>3, CreateSavedEffect
<1>4. CASE \E c \in Client : Register(c)
  BY <1>4, RegisterEffect
<1>5. CASE \E c \in Client : RegisterRefused(c)
  BY <1>5, RegisterRefusedEffect
<1>6. CASE \E c \in Client : CleanedUp(c)
  BY <1>6, CleanedUpEffect
<1>7. CASE \E c \in Client : Discarded(c)
  BY <1>7, DiscardedEffect
<1>8. CASE \E c \in Client : Announce(c)
  BY <1>8, AnnounceEffect
<1>9. CASE \E c \in Client, t \in Terminal, o \in {"rename", "updateAgent"} :
        BeginMutation(c, t, o)
  BY <1>9, BeginMutationEffect
<1>10. CASE \E c \in Client, new \in Row : MutatesTo(c, new)
  BY <1>10, MutatesToEffect
<1>11. CASE \E c \in Client : MutationRefused(c)
  BY <1>11, MutationRefusedEffect
<1>12. CASE \E c \in Client : MutationSaved(c)
  BY <1>12, MutationSavedEffect
<1>13. CASE \E c \in Client : UpdateNotSaved(c)
  BY <1>13, UpdateNotSavedEffect
<1>14. CASE \E c \in Client : RenameNotSaved(c)
  BY <1>14, RenameNotSavedEffect
<1>15. CASE \E c \in Client : RollBack(c)
  BY <1>15, RollBackEffect
<1>16. CASE \E c \in Client, t \in Terminal, o \in {"delete", "archive"} :
         LockLifecycle(c, t, o)
  BY <1>16, LockLifecycleEffect
<1>17. CASE \E c \in Client : ClaimDelete(c)
  BY <1>17, ClaimDeleteEffect
<1>18. CASE \E c \in Client : LifecycleRefused(c)
  BY <1>18, LifecycleRefusedEffect
<1>19. CASE \E c \in Client : RemoveEntry(c)
  BY <1>19, RemoveEntryEffect
<1>20. CASE \E c \in Client : DeleteRefused(c)
  BY <1>20, DeleteRefusedEffect
<1>21. CASE \E c \in Client : OperationDropped(c)
  BY <1>21, OperationDroppedEffect
<1>22. CASE \E c \in Client : RowDeleted(c)
  BY <1>22, RowDeletedEffect
<1>23. CASE \E c \in Client : RowNotDeleted(c)
  BY <1>23, RowNotDeletedEffect
<1>24. CASE \E c \in Client : Reaped(c)
  BY <1>24, ReapedEffect
<1>25. CASE \E c \in Client : DeleteFailed(c)
  BY <1>25, DeleteFailedEffect
<1>26. CASE \E c \in Client : PrepareArchive(c)
  BY <1>26, PrepareArchiveEffect
<1>27. CASE \E c \in Client : LockForArchive(c)
  BY <1>27, LockForArchiveEffect
<1>28. CASE \E c \in Client : ArchiveNotLocked(c)
  BY <1>28, ArchiveNotLockedEffect
<1>29. CASE \E c \in Client : ReserveArchive(c)
  BY <1>29, ReserveArchiveEffect
<1>30. CASE \E c \in Client : ArchiveSealedOut(c)
  BY <1>30, ArchiveSealedOutEffect
<1>31. CASE \E c \in Client : ArchiveCancelled(c)
  BY <1>31, ArchiveCancelledEffect
<1>32. CASE \E c \in Client : ArchiveSaved(c)
  BY <1>32, ArchiveSavedEffect
<1>33. CASE \E c \in Client : ArchiveNotSaved(c)
  BY <1>33, ArchiveNotSavedEffect
<1>34. CASE \E c \in Client : CommitArchive(c)
  BY <1>34, CommitArchiveEffect
<1>35. CASE \E c \in Client : ArchiveReaped(c)
  BY <1>35, ArchiveReapedEffect
<1>36. CASE Restart
  BY <1>36, RestartEffect
<1>37. CASE UNCHANGED <<job>>
  BY <1>37
<1>38. QED
  BY Writers, <1>1, <1>2, <1>3, <1>4, <1>5, <1>6, <1>7, <1>8, <1>9, <1>10, <1>11, <1>12, <1>13,
    <1>14, <1>15, <1>16, <1>17, <1>18, <1>19, <1>20, <1>21, <1>22, <1>23, <1>24, <1>25, <1>26,
      <1>27, <1>28, <1>29, <1>30, <1>31, <1>32, <1>33, <1>34, <1>35, <1>36, <1>37

\* Nothing changes the memory of a terminal while its rename holds the
\* metadata mutex, but the removal of the entry.
LEMMA PendingStep ==
    ASSUME Typed, AbsentInv, MutexInv, DeleteClaim, NewInv, HeldInv, CloserInv,
           WatchedInv, NoUpdates, PendingInv, AgreeInv, [Next]_vars
    PROVE  PendingInv'
<1> USE IdleIs, FailsTwice DEF PendingInv, UnregisteredPC, CreatePC, MetadataPC, MutationPC,
        SavePC, SnapshotPC, Sets, Alone, Goes, Keeps, Typed, JobInv, MutexInv, NewInv, Writes
<1>1. CASE \E c \in Client, t \in Terminal : BeginCreate(c, t)
  BY <1>1, BeginCreateEffect DEF AbsentInv
<1>2. CASE \E c \in Client : \E from, to : Entering(from, to) /\ EnterPersist(c, from, to)
  BY <1>2, EnterPersistEffect DEF Entering
<1>3. CASE \E c \in Client : CreateSaved(c)
  BY <1>3, CreateSavedEffect
<1>4. CASE \E c \in Client : Register(c)
  BY <1>4, RegisterEffect
<1>5. CASE \E c \in Client : RegisterRefused(c)
  BY <1>5, RegisterRefusedEffect
<1>6. CASE \E c \in Client : CleanedUp(c)
  BY <1>6, CleanedUpEffect
<1>7. CASE \E c \in Client : Discarded(c)
  BY <1>7, DiscardedEffect
<1>8. CASE \E c \in Client : Announce(c)
  BY <1>8, AnnounceEffect
<1>9. CASE \E c \in Client, t \in Terminal, o \in {"rename", "updateAgent"} :
        BeginMutation(c, t, o)
  BY <1>9, BeginMutationEffect
<1>10. CASE \E c \in Client, new \in Row : MutatesTo(c, new)
  BY <1>10, Renames
  DEF PendingInv, Alone, Sets, Typed, JobInv, MutexInv, NewInv, MetadataPC, MutationPC, SavePC,
        SnapshotPC, UnregisteredPC, CreatePC
<1>11. CASE \E c \in Client : MutationRefused(c)
  BY <1>11, MutationRefusedEffect
<1>12. CASE \E c \in Client : MutationSaved(c)
  BY <1>12, MutationSavedEffect
<1>13. CASE \E c \in Client : UpdateNotSaved(c)
  BY <1>13, UpdateNotSavedEffect
<1>14. CASE \E c \in Client : RenameNotSaved(c)
  BY <1>14, RenameNotSavedEffect
<1>15. CASE \E c \in Client : RollBack(c)
  BY <1>15, RollsBack, IdleIs
  DEF PendingInv, Alone, Sets, Typed, JobInv, MutexInv, NewInv, MetadataPC, MutationPC, SavePC,
        SnapshotPC, UnregisteredPC, CreatePC
<1>16. CASE \E c \in Client, t \in Terminal, o \in {"delete", "archive"} :
         LockLifecycle(c, t, o)
  BY <1>16, LockLifecycleEffect
<1>17. CASE \E c \in Client : ClaimDelete(c)
  BY <1>17, ClaimDeleteEffect
<1>18. CASE \E c \in Client : LifecycleRefused(c)
  BY <1>18, LifecycleRefusedEffect
<1>19. CASE \E c \in Client : RemoveEntry(c)
  BY <1>19, RemoveEntryEffect
<1>20. CASE \E c \in Client : DeleteRefused(c)
  BY <1>20, DeleteRefusedEffect
<1>21. CASE \E c \in Client : OperationDropped(c)
  BY <1>21, OperationDroppedEffect
<1>22. CASE \E c \in Client : RowDeleted(c)
  BY <1>22, RowDeletedEffect
<1>23. CASE \E c \in Client : RowNotDeleted(c)
  BY <1>23, RowNotDeletedEffect
<1>24. CASE \E c \in Client : Reaped(c)
  BY <1>24, ReapedEffect
<1>25. CASE \E c \in Client : DeleteFailed(c)
  BY <1>25, DeleteFailedEffect
<1>26. CASE \E c \in Client : PrepareArchive(c)
  BY <1>26, PrepareArchiveEffect
<1>27. CASE \E c \in Client : LockForArchive(c)
  BY <1>27, LockForArchiveEffect
<1>28. CASE \E c \in Client : ArchiveNotLocked(c)
  BY <1>28, ArchiveNotLockedEffect
<1>29. CASE \E c \in Client : ReserveArchive(c)
  BY <1>29, ReserveArchiveEffect
<1>30. CASE \E c \in Client : ArchiveSealedOut(c)
  BY <1>30, ArchiveSealedOutEffect
<1>31. CASE \E c \in Client : ArchiveCancelled(c)
  BY <1>31, ArchiveCancelledEffect
<1>32. CASE \E c \in Client : ArchiveSaved(c)
  BY <1>32, ArchiveSavedEffect
<1>33. CASE \E c \in Client : ArchiveNotSaved(c)
  BY <1>33, ArchiveNotSavedEffect
<1>34. CASE \E c \in Client : CommitArchive(c)
  BY <1>34, CommitArchiveEffect
<1>35. CASE \E c \in Client : ArchiveReaped(c)
  BY <1>35, ArchiveReapedEffect
<1>36. CASE \E t \in Terminal : WatchSaves(t)
  BY <1>36, WatchSavesEffect DEF AfterFailedSave, ExitSaving
<1>37. CASE BeginClose
  BY <1>37, BeginCloseEffect
<1>38. CASE Restart
  BY <1>38, RestartEffect DEF Running
<1>39. CASE UNCHANGED <<metadata, closing, rows, failures, job>>
  BY <1>39
<1>40. QED
  BY Writers, <1>1, <1>2, <1>3, <1>4, <1>5, <1>6, <1>7, <1>8, <1>9, <1>10, <1>11, <1>12, <1>13,
    <1>14, <1>15, <1>16, <1>17, <1>18, <1>19, <1>20, <1>21, <1>22, <1>23, <1>24, <1>25, <1>26,
      <1>27, <1>28, <1>29, <1>30, <1>31, <1>32, <1>33, <1>34, <1>35, <1>36, <1>37, <1>38, <1>39

\* Row and memory differ only under the metadata mutex.
LEMMA AgreeStep ==
    ASSUME Typed, AbsentInv, MutexInv, DeleteClaim, NewInv, HeldInv, CloserInv,
           WatchedInv, NoUpdates, PendingInv, AgreeInv, PendingInv', MaxFailures <= 1,
           [Next]_vars
    PROVE  AgreeInv'
<1> USE IdleIs, NoneFree, FailsTwice DEF AgreeInv, Agree, SnapshotPC, DeletingPC, Sets, Alone,
        Goes, Keeps, Typed, JobInv, MutexInv, MetadataPC, MutationPC, SavePC, HeldInv,
        RemovedPC, Writes
<1>1. CASE \E c \in Client, t \in Terminal : BeginCreate(c, t)
  BY <1>1, BeginCreateEffect DEF AbsentInv
<1>2. CASE \E c \in Client : \E from, to : Entering(from, to) /\ EnterPersist(c, from, to)
  BY <1>2, EnterPersistEffect DEF Entering
<1>3. CASE \E c \in Client : CreateSaved(c)
  BY <1>3, CreateSavedEffect DEF NewInv, UnregisteredPC, CreatePC
<1>4. CASE \E c \in Client : Register(c)
  BY <1>4, RegisterEffect DEF NewInv, UnregisteredPC, CreatePC, PendingInv
<1>5. CASE \E c \in Client : RegisterRefused(c)
  BY <1>5, RegisterRefusedEffect
<1>6. CASE \E c \in Client : CleanedUp(c)
  BY <1>6, CleanedUpEffect DEF NewInv, UnregisteredPC, CreatePC
<1>7. CASE \E c \in Client : Discarded(c)
  BY <1>7, DiscardedEffect
<1>8. CASE \E c \in Client : Announce(c)
  BY <1>8, AnnounceEffect
<1>9. CASE \E c \in Client, t \in Terminal, o \in {"rename", "updateAgent"} :
        BeginMutation(c, t, o)
  BY <1>9, BeginMutationEffect
<1>10. ASSUME NEW c \in Client, NEW new \in Row, MutatesTo(c, new)
      PROVE  AgreeInv'
  <2>1. /\ job[c].pc = "rename" /\ job'[c].pc = "renameSave" /\ job'[c].id = job[c].id
        /\ job'[c].before = metadata[job[c].id] /\ job[c].id \in Terminal
        /\ job[c].id \in sessions /\ Alone(c) /\ Sets(metadata, metadata', job[c].id, new)
        /\ UNCHANGED <<rows, sessions, failures, closing, metadataSaveMu>>
    BY <1>10, Renames
  <2>2. metadataSaveMu[job[c].id] = c /\ rows[job[c].id] = metadata[job[c].id]
    BY <2>1 DEF MutexInv, MetadataPC, MutationPC, AgreeInv, Agree
  <2>3. \A d \in Client : d # c /\ job[d].id = job[c].id => job[d].pc \notin MetadataPC
    BY <2>1, <2>2 DEF MutexInv
  <2>4. Agree(job[c].id)'
    BY <2>1, <2>2, <2>3, NoneFree
    DEF Agree, Alone, MetadataPC, MutationPC, SavePC, SnapshotPC
  <2>5. \A t \in Terminal : t # job[c].id /\ Agree(t) => Agree(t)'
    BY <2>1 DEF Agree, Alone, Sets
  <2>6. \A d \in Client : job'[d].pc \in DeletingPC =>
          /\ d # c /\ job'[d] = job[d] /\ job[d].id \in Terminal
                                                       /\ job[d].id # job[c].id
    BY <2>1 DEF HeldInv, RemovedPC, DeletingPC, Alone, Typed, JobInv
  <2> QED
    BY <2>1, <2>4, <2>5, <2>6 DEF AgreeInv
<1>11. CASE \E c \in Client : MutationRefused(c)
  BY <1>11, MutationRefusedEffect DEF NoUpdates
<1>12. CASE \E c \in Client : MutationSaved(c)
  BY <1>12, MutationSavedEffect DEF NoUpdates, PendingInv
<1>13. CASE \E c \in Client : UpdateNotSaved(c)
  BY <1>13, UpdateNotSavedEffect DEF NoUpdates
<1>14. CASE \E c \in Client : RenameNotSaved(c)
  BY <1>14, RenameNotSavedEffect
<1>15. CASE \E c \in Client : RollBack(c)
  BY <1>15, RollsBack, IdleIs, NoneFree
  DEF AgreeInv, Agree, Alone, Sets, Typed, JobInv, MutexInv, HeldInv, MetadataPC, MutationPC,
        SavePC, SnapshotPC, DeletingPC, RemovedPC
<1>16. CASE \E c \in Client, t \in Terminal, o \in {"delete", "archive"} :
         LockLifecycle(c, t, o)
  BY <1>16, LockLifecycleEffect
<1>17. CASE \E c \in Client : ClaimDelete(c)
  BY <1>17, ClaimDeleteEffect
<1>18. CASE \E c \in Client : LifecycleRefused(c)
  BY <1>18, LifecycleRefusedEffect
<1>19. CASE \E c \in Client : RemoveEntry(c)
  BY <1>19, RemoveEntryEffect
<1>20. CASE \E c \in Client : DeleteRefused(c)
  BY <1>20, DeleteRefusedEffect
<1>21. CASE \E c \in Client : OperationDropped(c)
  BY <1>21, OperationDroppedEffect
<1>22. CASE \E c \in Client : RowDeleted(c)
  BY <1>22, RowDeletedEffect DEF LifecyclePC, ClaimedPC
<1>23. ASSUME NEW c \in Client, RowNotDeleted(c)
      PROVE  AgreeInv'
  <2>1. /\ job[c].pc = "deletingRow" /\ job[c].id \in Terminal /\ Alone(c) /\ WriteFails
        /\ UNCHANGED <<metadata, rows, metadataSaveMu, closing>>
        /\ job'[c].id = job[c].id /\ job'[c].pc \in {"reapFailed", "deleteFailed"}
    BY <1>23, RowNotDeletedEffect DEF WriteFails, Goes, Keeps
  <2>2. \A t \in Terminal : Agree(t) => Agree(t)'
    BY <2>1 DEF Agree, Alone, SnapshotPC
  <2>3. CASE closing
    <3>1. UNCHANGED sessions
      BY <1>23, <2>3, RowNotDeletedEffect
    <3>2. QED
      BY <2>1, <2>2, <2>3, <3>1 DEF AgreeInv
  <2>4. CASE ~closing
    <3>1. sessions' = sessions \cup {job[c].id}
      BY <1>23, <2>4, RowNotDeletedEffect
    <3>2. failures = 0 /\ failures' > 0
      BY <2>1, <2>4, FailsTwice, LifecycleAssumption DEF LifecycleAssumption
    <3>3. Agree(job[c].id)
      BY <2>1, <2>4, <3>2 DEF AgreeInv, DeletingPC
    <3>4. QED
      BY <2>1, <2>2, <3>1, <3>2, <3>3 DEF AgreeInv
  <2> QED
    BY <2>3, <2>4
<1>24. CASE \E c \in Client : Reaped(c)
  BY <1>24, ReapedEffect
<1>25. CASE \E c \in Client : DeleteFailed(c)
  BY <1>25, DeleteFailedEffect
<1>26. CASE \E c \in Client : PrepareArchive(c)
  BY <1>26, PrepareArchiveEffect
<1>27. CASE \E c \in Client : LockForArchive(c)
  BY <1>27, LockForArchiveEffect
<1>28. CASE \E c \in Client : ArchiveNotLocked(c)
  BY <1>28, ArchiveNotLockedEffect
<1>29. CASE \E c \in Client : ReserveArchive(c)
  BY <1>29, ReserveArchiveEffect
<1>30. CASE \E c \in Client : ArchiveSealedOut(c)
  BY <1>30, ArchiveSealedOutEffect
<1>31. CASE \E c \in Client : ArchiveCancelled(c)
  BY <1>31, ArchiveCancelledEffect
<1>32. CASE \E c \in Client : ArchiveSaved(c)
  BY <1>32, ArchiveSavedEffect
<1>33. CASE \E c \in Client : ArchiveNotSaved(c)
  BY <1>33, ArchiveNotSavedEffect
<1>34. CASE \E c \in Client : CommitArchive(c)
  BY <1>34, CommitArchiveEffect
<1>35. CASE \E c \in Client : ArchiveReaped(c)
  BY <1>35, ArchiveReapedEffect DEF LifecyclePC, ClaimedPC, PreparedPC
<1>36. CASE \E t \in Terminal : WatchRemoves(t)
  BY <1>36, WatchRemovesEffect
<1>37. CASE \E t \in Terminal : WatchSaves(t)
  BY <1>37, WatchSavesEffect DEF WatchedInv, ExitSaving, DeleteClaim, LifecyclePC, ClaimedPC
<1>38. CASE BeginClose
  BY <1>38, BeginCloseEffect
<1>39. ASSUME Restart
      PROVE  AgreeInv'
  <2>1. metadata' = rows' /\ \A c \in Client : job'[c].pc = "idle"
    BY <1>39, RestartEffect
  <2>2. QED
    BY <2>1
<1>40. CASE UNCHANGED <<sessions, metadata, closing, metadataSaveMu, rows, failures, job>>
  BY <1>40
<1>41. QED
  BY Writers, <1>1, <1>2, <1>3, <1>4, <1>5, <1>6, <1>7, <1>8, <1>9, <1>10, <1>11, <1>12, <1>13,
    <1>14, <1>15, <1>16, <1>17, <1>18, <1>19, <1>20, <1>21, <1>22, <1>23, <1>24, <1>25, <1>26,
      <1>27, <1>28, <1>29, <1>30, <1>31, <1>32, <1>33, <1>34, <1>35, <1>36, <1>37, <1>38,
        <1>39, <1>40

-----------------------------------------------------------------------------
(* The recorded exit *)

\* An exited row is exited.
LEMMA ExitedState ==
    ASSUME Typed
    PROVE  \A t \in Terminal : Exited(metadata[t]).state = "exited"
BY DEF Typed, ManagerTypes, Exited, Row

\* The ticket of a call is reserved.
LEMMA TicketsReserved ==
    ASSUME Typed, JobTickets, WatchTickets
    PROVE  \A c \in Client : JobTicket(c) =>
             job[c].ticket \in Nat /\ job[c].ticket <= storeSequence
BY LifecycleAssumption
DEF LifecycleAssumption, Typed, Queue!QueueTypeOK, JobTickets, JobTicket, Queue!Operation

\* When the exit save runs, an older save of a mutation is over.
LEMMA NoSaveLeft ==
    ASSUME Typed, QP!QueueInv, Queue!NoneCancelled, JobTickets, WatchTickets,
           OlderSaves, NEW t \in Terminal, NEW c \in Client, watcher[t] \in {"saving",
           "savingAgain"}, job[c].id = t
    PROVE  job[c].pc \notin SavePC
<1> SUFFICES ASSUME job[c].pc \in SavePC PROVE FALSE
  OBVIOUS
<1>1. job[c].pc \in WaitingPC \cup RunningPC
  BY DEF SavePC, WaitingPC, RunningPC
<1>2. /\ job[c].ticket \in Queue!Operation /\ phase[job[c].ticket] \in {"waiting", "running"}
  BY <1>1 DEF JobTickets, JobTicket
<1>3. exit[t].ticket \in Queue!Operation /\ phase[exit[t].ticket] = "running"
  BY DEF WatchTickets, WatchTicket
<1>4. job[c].ticket < exit[t].ticket
  BY DEF OlderSaves, ExitSaving
<1>5. Queue!Closed(job[c].ticket)
  BY <1>2, <1>3, <1>4, InOrder DEF Queue!Entered
<1>6. QED
  BY <1>2, <1>5 DEF Queue!Closed

\* A watcher retries because a write failed.
LEMMA RetryStep ==
    ASSUME Typed, CloserInv, RetryInv, [Next]_vars
    PROVE  RetryInv'
<1> USE FailsTwice DEF RetryInv, Sets, Alone, Goes, Keeps, Writes
<1>1. CASE \E c \in Client : CreateSaved(c)
  BY <1>1, CreateSavedEffect
<1>2. CASE \E c \in Client : CleanedUp(c)
  BY <1>2, CleanedUpEffect
<1>3. CASE \E c \in Client : Announce(c)
  BY <1>3, AnnounceEffect
<1>4. CASE \E c \in Client : MutationSaved(c)
  BY <1>4, MutationSavedEffect
<1>5. CASE \E c \in Client : UpdateNotSaved(c)
  BY <1>5, UpdateNotSavedEffect
<1>6. CASE \E c \in Client : RenameNotSaved(c)
  BY <1>6, RenameNotSavedEffect
<1>7. CASE \E c \in Client : RowDeleted(c)
  BY <1>7, RowDeletedEffect
<1>8. CASE \E c \in Client : RowNotDeleted(c)
  BY <1>8, RowNotDeletedEffect
<1>9. CASE \E c \in Client : ArchiveSaved(c)
  BY <1>9, ArchiveSavedEffect
<1>10. CASE \E c \in Client : ArchiveNotSaved(c)
  BY <1>10, ArchiveNotSavedEffect
<1>11. CASE \E t \in Terminal : WatchDefersToArchive(t)
  BY <1>11, WatchDefersToArchiveEffect
<1>12. CASE \E t \in Terminal : WatchArchiveReady(t)
  BY <1>12, WatchArchiveReadyEffect DEF AfterArchive
<1>13. CASE \E t \in Terminal : WatchStandsBack(t)
  BY <1>13, WatchStandsBackEffect
<1>14. CASE \E t \in Terminal : WatchRemoves(t)
  BY <1>14, WatchRemovesEffect
<1>15. CASE \E t \in Terminal : WatchEntersPersist(t)
  BY <1>15, WatchEntersPersistEffect
<1>16. CASE \E t \in Terminal : WatchSaves(t)
  BY <1>16, WatchSavesEffect DEF AfterFailedSave
<1>17. ASSUME NEW t \in Terminal, WatchRetries(t)
      PROVE  RetryInv'
  <2>1. watcher[t] = "retry" /\
          (Sets(watcher, watcher', t, "saveAgain") \/ Sets(watcher, watcher', t, "publish")) /\
            UNCHANGED <<failures, closing>>
    BY <1>17, WatchRetriesEffect DEF TriesAgain
  <2>2. QED
    BY <2>1 DEF RetryInv, Sets
<1>18. CASE \E t \in Terminal : WatchPublishes(t)
  BY <1>18, WatchPublishesEffect
<1>19. CASE BeginClose
  BY <1>19, BeginCloseEffect
<1>20. CASE Restart
  BY <1>20, RestartEffect DEF RetryInv
<1>21. CASE UNCHANGED <<closing, watcher, failures>>
  BY <1>21
<1>22. QED
  BY Writers, <1>1, <1>2, <1>3, <1>4, <1>5, <1>6, <1>7, <1>8, <1>9, <1>10, <1>11, <1>12, <1>13,
    <1>14, <1>15, <1>16, <1>17, <1>18, <1>19, <1>20, <1>21

\* After the watcher has reserved the exit save nobody reserves the save of a
\* mutation of that terminal: the entry is gone.
LEMMA OlderStep ==
    ASSUME Typed, JobTickets, WatchTickets, NewInv, HeldInv, WatchedInv, CloserInv,
           OlderSaves, [Next]_vars
    PROVE  OlderSaves'
<1> USE IdleIs, NoneFree, TicketsReserved DEF OlderSaves, SavePC, ExitSaving, Sets, Alone, Goes,
        Keeps, JobTicket, WaitingPC, RunningPC, Typed, JobInv
<1>1. CASE \E c \in Client, t \in Terminal : BeginCreate(c, t)
  BY <1>1, BeginCreateEffect
<1>2. CASE \E c \in Client : \E from, to : Entering(from, to) /\ EnterPersist(c, from, to)
  BY <1>2, EnterPersistEffect DEF Entering
<1>3. CASE \E c \in Client : CreateSaved(c)
  BY <1>3, CreateSavedEffect
<1>4. CASE \E c \in Client : Register(c)
  BY <1>4, RegisterEffect
<1>5. CASE \E c \in Client : RegisterRefused(c)
  BY <1>5, RegisterRefusedEffect
<1>6. CASE \E c \in Client : CleanedUp(c)
  BY <1>6, CleanedUpEffect
<1>7. CASE \E c \in Client : Discarded(c)
  BY <1>7, DiscardedEffect
<1>8. CASE \E c \in Client : Announce(c)
  BY <1>8, AnnounceEffect DEF NewInv, CreatePC
<1>9. CASE \E c \in Client, t \in Terminal, o \in {"rename", "updateAgent"} :
        BeginMutation(c, t, o)
  BY <1>9, BeginMutationEffect
<1>10. CASE \E c \in Client, new \in Row : MutatesTo(c, new)
  BY <1>10, MutatesToEffect, Reserves DEF WatchedInv
<1>11. CASE \E c \in Client : MutationRefused(c)
  BY <1>11, MutationRefusedEffect
<1>12. CASE \E c \in Client : MutationSaved(c)
  BY <1>12, MutationSavedEffect
<1>13. CASE \E c \in Client : UpdateNotSaved(c)
  BY <1>13, UpdateNotSavedEffect
<1>14. CASE \E c \in Client : RenameNotSaved(c)
  BY <1>14, RenameNotSavedEffect
<1>15. CASE \E c \in Client : RollBack(c)
  BY <1>15, RollBackEffect
<1>16. CASE \E c \in Client, t \in Terminal, o \in {"delete", "archive"} :
         LockLifecycle(c, t, o)
  BY <1>16, LockLifecycleEffect
<1>17. CASE \E c \in Client : ClaimDelete(c)
  BY <1>17, ClaimDeleteEffect
<1>18. CASE \E c \in Client : LifecycleRefused(c)
  BY <1>18, LifecycleRefusedEffect
<1>19. CASE \E c \in Client : RemoveEntry(c)
  BY <1>19, RemoveEntryEffect
<1>20. CASE \E c \in Client : DeleteRefused(c)
  BY <1>20, DeleteRefusedEffect
<1>21. CASE \E c \in Client : OperationDropped(c)
  BY <1>21, OperationDroppedEffect
<1>22. CASE \E c \in Client : RowDeleted(c)
  BY <1>22, RowDeletedEffect
<1>23. CASE \E c \in Client : RowNotDeleted(c)
  BY <1>23, RowNotDeletedEffect
<1>24. CASE \E c \in Client : Reaped(c)
  BY <1>24, ReapedEffect
<1>25. CASE \E c \in Client : DeleteFailed(c)
  BY <1>25, DeleteFailedEffect
<1>26. CASE \E c \in Client : PrepareArchive(c)
  BY <1>26, PrepareArchiveEffect
<1>27. CASE \E c \in Client : LockForArchive(c)
  BY <1>27, LockForArchiveEffect
<1>28. CASE \E c \in Client : ArchiveNotLocked(c)
  BY <1>28, ArchiveNotLockedEffect
<1>29. CASE \E c \in Client : ReserveArchive(c)
  BY <1>29, ReserveArchiveEffect
<1>30. CASE \E c \in Client : ArchiveSealedOut(c)
  BY <1>30, ArchiveSealedOutEffect
<1>31. CASE \E c \in Client : ArchiveCancelled(c)
  BY <1>31, ArchiveCancelledEffect
<1>32. CASE \E c \in Client : ArchiveSaved(c)
  BY <1>32, ArchiveSavedEffect
<1>33. CASE \E c \in Client : ArchiveNotSaved(c)
  BY <1>33, ArchiveNotSavedEffect
<1>34. CASE \E c \in Client : CommitArchive(c)
  BY <1>34, CommitArchiveEffect
<1>35. CASE \E c \in Client : ArchiveReaped(c)
  BY <1>35, ArchiveReapedEffect
<1>36. CASE \E t \in Terminal : WatchDefersToArchive(t)
  BY <1>36, WatchDefersToArchiveEffect
<1>37. CASE \E t \in Terminal : WatchArchiveReady(t)
  BY <1>37, WatchArchiveReadyEffect DEF AfterArchive
<1>38. CASE \E t \in Terminal : WatchStandsBack(t)
  BY <1>38, WatchStandsBackEffect
<1>39. CASE \E t \in Terminal : WatchRemoves(t)
  BY <1>39, WatchRemovesEffect, Reserves
<1>40. CASE \E t \in Terminal : WatchEntersPersist(t)
  BY <1>40, WatchEntersPersistEffect
<1>41. CASE \E t \in Terminal : WatchSaves(t)
  BY <1>41, WatchSavesEffect DEF AfterFailedSave
<1>42. CASE \E t \in Terminal : WatchRetries(t)
  BY <1>42, WatchRetriesEffect, Reserves DEF TriesAgain
<1>43. CASE \E t \in Terminal : WatchPublishes(t)
  BY <1>43, WatchPublishesEffect
<1>44. CASE Restart
  BY <1>44, RestartEffect
<1>45. CASE UNCHANGED <<watcher, job, exit>>
  BY <1>45
<1>46. QED
  BY Writers, <1>1, <1>2, <1>3, <1>4, <1>5, <1>6, <1>7, <1>8, <1>9, <1>10, <1>11, <1>12, <1>13,
    <1>14, <1>15, <1>16, <1>17, <1>18, <1>19, <1>20, <1>21, <1>22, <1>23, <1>24, <1>25, <1>26,
      <1>27, <1>28, <1>29, <1>30, <1>31, <1>32, <1>33, <1>34, <1>35, <1>36, <1>37, <1>38,
        <1>39, <1>40, <1>41, <1>42, <1>43, <1>44, <1>45

\* The row an archive has saved stays exited until the archive is over.
LEMMA ArchivedStep ==
    ASSUME Typed, AbsentInv, MutexInv, DeleteClaim, NewInv, HeldInv, CloserInv,
           WatchedInv, RunningInv, ArchivedRows, [Next]_vars
    PROVE  ArchivedRows'
<1> USE IdleIs, NoneFree, ExitedState DEF ArchivedRows, SnapshotPC, MetadataPC, MutationPC,
        SavePC, LifecyclePC, ClaimedPC, RemovedPC, DeletingPC, PreparedPC, RegisteredPC,
        UnregisteredPC, CreatePC, Sets, Alone, Goes, Keeps, Typed, JobInv, HeldInv, MutexInv,
        NewInv, RunningInv, Writes, WriteFails
<1>1. CASE \E c \in Client, t \in Terminal : BeginCreate(c, t)
  BY <1>1, BeginCreateEffect
<1>2. CASE \E c \in Client : \E from, to : Entering(from, to) /\ EnterPersist(c, from, to)
  BY <1>2, EnterPersistEffect DEF Entering
<1>3. CASE \E c \in Client : CreateSaved(c)
  BY <1>3, CreateSavedEffect
<1>4. CASE \E c \in Client : Register(c)
  BY <1>4, RegisterEffect
<1>5. CASE \E c \in Client : RegisterRefused(c)
  BY <1>5, RegisterRefusedEffect
<1>6. CASE \E c \in Client : CleanedUp(c)
  BY <1>6, CleanedUpEffect
<1>7. CASE \E c \in Client : Discarded(c)
  BY <1>7, DiscardedEffect
<1>8. CASE \E c \in Client : Announce(c)
  BY <1>8, AnnounceEffect
<1>9. CASE \E c \in Client, t \in Terminal, o \in {"rename", "updateAgent"} :
        BeginMutation(c, t, o)
  BY <1>9, BeginMutationEffect
<1>10. CASE \E c \in Client, new \in Row : MutatesTo(c, new)
  BY <1>10, MutatesToEffect
<1>11. CASE \E c \in Client : MutationRefused(c)
  BY <1>11, MutationRefusedEffect
<1>12. CASE \E c \in Client : MutationSaved(c)
  BY <1>12, MutationSavedEffect
<1>13. CASE \E c \in Client : UpdateNotSaved(c)
  BY <1>13, UpdateNotSavedEffect
<1>14. CASE \E c \in Client : RenameNotSaved(c)
  BY <1>14, RenameNotSavedEffect
<1>15. CASE \E c \in Client : RollBack(c)
  BY <1>15, RollBackEffect
<1>16. CASE \E c \in Client, t \in Terminal, o \in {"delete", "archive"} :
         LockLifecycle(c, t, o)
  BY <1>16, LockLifecycleEffect
<1>17. CASE \E c \in Client : ClaimDelete(c)
  BY <1>17, ClaimDeleteEffect
<1>18. CASE \E c \in Client : LifecycleRefused(c)
  BY <1>18, LifecycleRefusedEffect
<1>19. CASE \E c \in Client : RemoveEntry(c)
  BY <1>19, RemoveEntryEffect
<1>20. CASE \E c \in Client : DeleteRefused(c)
  BY <1>20, DeleteRefusedEffect
<1>21. CASE \E c \in Client : OperationDropped(c)
  BY <1>21, OperationDroppedEffect
<1>22. CASE \E c \in Client : RowDeleted(c)
  BY <1>22, RowDeletedEffect
<1>23. CASE \E c \in Client : RowNotDeleted(c)
  BY <1>23, RowNotDeletedEffect
<1>24. CASE \E c \in Client : Reaped(c)
  BY <1>24, ReapedEffect
<1>25. CASE \E c \in Client : DeleteFailed(c)
  BY <1>25, DeleteFailedEffect
<1>26. CASE \E c \in Client : PrepareArchive(c)
  BY <1>26, PrepareArchiveEffect
<1>27. CASE \E c \in Client : LockForArchive(c)
  BY <1>27, LockForArchiveEffect
<1>28. CASE \E c \in Client : ArchiveNotLocked(c)
  BY <1>28, ArchiveNotLockedEffect
<1>29. CASE \E c \in Client : ReserveArchive(c)
  BY <1>29, ReserveArchiveEffect
<1>30. CASE \E c \in Client : ArchiveSealedOut(c)
  BY <1>30, ArchiveSealedOutEffect
<1>31. CASE \E c \in Client : ArchiveCancelled(c)
  BY <1>31, ArchiveCancelledEffect
<1>32. CASE \E c \in Client : ArchiveSaved(c)
  BY <1>32, ArchiveSavedEffect
<1>33. CASE \E c \in Client : ArchiveNotSaved(c)
  BY <1>33, ArchiveNotSavedEffect
<1>34. CASE \E c \in Client : CommitArchive(c)
  BY <1>34, CommitArchiveEffect
<1>35. CASE \E c \in Client : ArchiveReaped(c)
  BY <1>35, ArchiveReapedEffect
<1>36. CASE \E t \in Terminal : WatchSaves(t)
  BY <1>36, WatchSavesEffect DEF WatchedInv, ExitSaving
<1>37. CASE Restart
  BY <1>37, RestartEffect
<1>38. CASE UNCHANGED <<rows, job>>
  BY <1>38
<1>39. QED
  BY Writers, <1>1, <1>2, <1>3, <1>4, <1>5, <1>6, <1>7, <1>8, <1>9, <1>10, <1>11, <1>12, <1>13,
    <1>14, <1>15, <1>16, <1>17, <1>18, <1>19, <1>20, <1>21, <1>22, <1>23, <1>24, <1>25, <1>26,
      <1>27, <1>28, <1>29, <1>30, <1>31, <1>32, <1>33, <1>34, <1>35, <1>36, <1>37, <1>38

\* The exit is in the row when it is published, and stays there.
LEMMA ExitedStep ==
    ASSUME Typed, AbsentInv, MutexInv, DeleteClaim, NewInv, HeldInv, CloserInv,
           WatchedInv, RunningInv, QP!QueueInv, Queue!NoneCancelled, JobTickets,
           WatchTickets, RetryInv, OlderSaves, ArchivedRows, ExitedRows, [Next]_vars
    PROVE  ExitedRows'
<1> USE IdleIs, NoneFree, ExitedState, FailsTwice DEF ExitedRows, Reliable, SavePC, DeletingPC,
        SnapshotPC, UnregisteredPC, CreatePC, Sets, Alone, Goes, Keeps, Typed, JobInv, Writes,
        WatchedInv, ExitSaving
<1>1. CASE \E c \in Client, t \in Terminal : BeginCreate(c, t)
  BY <1>1, BeginCreateEffect DEF AbsentInv
<1>2. CASE \E c \in Client : \E from, to : Entering(from, to) /\ EnterPersist(c, from, to)
  BY <1>2, EnterPersistEffect DEF Entering
<1>3. CASE \E c \in Client : CreateSaved(c)
  BY <1>3, CreateSavedEffect DEF NewInv
<1>4. CASE \E c \in Client : Register(c)
  BY <1>4, RegisterEffect
<1>5. CASE \E c \in Client : RegisterRefused(c)
  BY <1>5, RegisterRefusedEffect
<1>6. CASE \E c \in Client : CleanedUp(c)
  BY <1>6, CleanedUpEffect DEF NewInv
<1>7. CASE \E c \in Client : Discarded(c)
  BY <1>7, DiscardedEffect
<1>8. CASE \E c \in Client : Announce(c)
  BY <1>8, AnnounceEffect
<1>9. CASE \E c \in Client, t \in Terminal, o \in {"rename", "updateAgent"} :
        BeginMutation(c, t, o)
  BY <1>9, BeginMutationEffect
<1>10. CASE \E c \in Client, new \in Row : MutatesTo(c, new)
  BY <1>10, MutatesToEffect
<1>11. CASE \E c \in Client : MutationRefused(c)
  BY <1>11, MutationRefusedEffect
<1>12. CASE \E c \in Client : MutationSaved(c)
  BY <1>12, MutationSavedEffect
<1>13. CASE \E c \in Client : UpdateNotSaved(c)
  BY <1>13, UpdateNotSavedEffect
<1>14. CASE \E c \in Client : RenameNotSaved(c)
  BY <1>14, RenameNotSavedEffect
<1>15. CASE \E c \in Client : RollBack(c)
  BY <1>15, RollBackEffect
<1>16. CASE \E c \in Client, t \in Terminal, o \in {"delete", "archive"} :
         LockLifecycle(c, t, o)
  BY <1>16, LockLifecycleEffect
<1>17. CASE \E c \in Client : ClaimDelete(c)
  BY <1>17, ClaimDeleteEffect
<1>18. CASE \E c \in Client : LifecycleRefused(c)
  BY <1>18, LifecycleRefusedEffect
<1>19. CASE \E c \in Client : RemoveEntry(c)
  BY <1>19, RemoveEntryEffect
<1>20. CASE \E c \in Client : DeleteRefused(c)
  BY <1>20, DeleteRefusedEffect
<1>21. CASE \E c \in Client : OperationDropped(c)
  BY <1>21, OperationDroppedEffect
<1>22. CASE \E c \in Client : RowDeleted(c)
  BY <1>22, RowDeletedEffect DEF MutexInv, DeleteClaim, LifecyclePC, ClaimedPC, RemovedPC
<1>23. CASE \E c \in Client : RowNotDeleted(c)
  BY <1>23, RowNotDeletedEffect
<1>24. CASE \E c \in Client : Reaped(c)
  BY <1>24, ReapedEffect
<1>25. CASE \E c \in Client : DeleteFailed(c)
  BY <1>25, DeleteFailedEffect
<1>26. CASE \E c \in Client : PrepareArchive(c)
  BY <1>26, PrepareArchiveEffect
<1>27. CASE \E c \in Client : LockForArchive(c)
  BY <1>27, LockForArchiveEffect
<1>28. CASE \E c \in Client : ArchiveNotLocked(c)
  BY <1>28, ArchiveNotLockedEffect
<1>29. CASE \E c \in Client : ReserveArchive(c)
  BY <1>29, ReserveArchiveEffect
<1>30. CASE \E c \in Client : ArchiveSealedOut(c)
  BY <1>30, ArchiveSealedOutEffect
<1>31. CASE \E c \in Client : ArchiveCancelled(c)
  BY <1>31, ArchiveCancelledEffect
<1>32. CASE \E c \in Client : ArchiveSaved(c)
  BY <1>32, ArchiveSavedEffect DEF RunningInv
<1>33. CASE \E c \in Client : ArchiveNotSaved(c)
  BY <1>33, ArchiveNotSavedEffect
<1>34. CASE \E c \in Client : CommitArchive(c)
  BY <1>34, CommitArchiveEffect
<1>35. CASE \E c \in Client : ArchiveReaped(c)
  BY <1>35, ArchiveReapedEffect DEF ArchivedRows, MutexInv, MetadataPC, MutationPC
<1>36. CASE \E t \in Terminal : WatchDefersToArchive(t)
  BY <1>36, WatchDefersToArchiveEffect
<1>37. CASE \E t \in Terminal : WatchArchiveReady(t)
  BY <1>37, WatchArchiveReadyEffect DEF AfterArchive
<1>38. CASE \E t \in Terminal : WatchStandsBack(t)
  BY <1>38, WatchStandsBackEffect
<1>39. CASE \E t \in Terminal : WatchRemoves(t)
  BY <1>39, WatchRemovesEffect
<1>40. CASE \E t \in Terminal : WatchEntersPersist(t)
  BY <1>40, WatchEntersPersistEffect
<1>41. CASE \E t \in Terminal : WatchSaves(t)
  BY <1>41, WatchSavesEffect, NoSaveLeft DEF AfterFailedSave, RetryInv
<1>42. ASSUME NEW t \in Terminal, WatchRetries(t)
      PROVE  ExitedRows'
  <2>1. /\ watcher[t] = "retry"
        /\ \A u \in Terminal : u # t => watcher'[u] = watcher[u]
        /\ watcher'[t] = "saveAgain" \/ (storeSealed /\ watcher'[t] = "publish")
        /\ UNCHANGED <<archived, closing, rows, failures, job>>
    BY <1>42, WatchRetriesEffect DEF TriesAgain
  <2>2. storeSealed => closing
    BY DEF CloserInv
  <2>3. QED
    BY <2>1, <2>2 DEF ExitedRows, Reliable, Sets
<1>43. CASE \E t \in Terminal : WatchPublishes(t)
  BY <1>43, WatchPublishesEffect
<1>44. CASE BeginClose
  BY <1>44, BeginCloseEffect
<1>45. ASSUME Restart
      PROVE  ExitedRows'
  <2>1. /\ \A t \in Terminal : watcher'[t] # "publish"
        /\ \A t \in archived' : rows'[t].state = "exited"
        /\ \A c \in Client : job'[c].pc = "idle"
    BY <1>45, RestartEffect
  <2>2. QED
    BY <2>1
<1>46. CASE UNCHANGED <<archived, closing, watcher, rows, failures, job>>
  BY <1>46
<1>47. QED
  BY Writers, <1>1, <1>2, <1>3, <1>4, <1>5, <1>6, <1>7, <1>8, <1>9, <1>10, <1>11, <1>12, <1>13,
    <1>14, <1>15, <1>16, <1>17, <1>18, <1>19, <1>20, <1>21, <1>22, <1>23, <1>24, <1>25, <1>26,
      <1>27, <1>28, <1>29, <1>30, <1>31, <1>32, <1>33, <1>34, <1>35, <1>36, <1>37, <1>38,
        <1>39, <1>40, <1>41, <1>42, <1>43, <1>44, <1>45, <1>46

-----------------------------------------------------------------------------
(* Deleted terminals *)

\* A call is idle, creates, mutates, deletes or archives.
LEMMA AllPCs ==
    ASSUME Typed
    PROVE  \A c \in Client :
             job[c].pc = "idle" \/ job[c].pc \in CreatePC \/ job[c].pc \in MutationPC \/
               job[c].pc \in LifecyclePC
<1> SUFFICES ASSUME NEW c \in Client PROVE job[c].pc = "idle" \/ job[c].pc \in CreatePC \/
      job[c].pc \in MutationPC \/ job[c].pc \in LifecyclePC
  OBVIOUS
<1>1. job[c].pc \in JobState
  BY DEF Typed, JobTypes, JobRecord
<1>2. QED
  BY <1>1
  DEF JobState, CreatePC, MutationPC, SavePC, LifecyclePC, ClaimedPC, RemovedPC, DeletingPC,
        PreparedPC, SnapshotPC

\* Mutations stay off when they are not among the operations.
LEMMA NoMutationsStep ==
    ASSUME Typed, NoMutations, Operations \cap {"rename", "updateAgent"} = {}, [Next]_vars
    PROVE  NoMutations'
<1> USE IdleIs DEF NoMutations, MutationPC, SavePC, Sets, Alone, Goes, Keeps
<1>1. CASE \E c \in Client, t \in Terminal : BeginCreate(c, t)
  BY <1>1, BeginCreateEffect
<1>2. CASE \E c \in Client : \E from, to : Entering(from, to) /\ EnterPersist(c, from, to)
  BY <1>2, EnterPersistEffect DEF Entering
<1>3. CASE \E c \in Client : CreateSaved(c)
  BY <1>3, CreateSavedEffect
<1>4. CASE \E c \in Client : Register(c)
  BY <1>4, RegisterEffect
<1>5. CASE \E c \in Client : RegisterRefused(c)
  BY <1>5, RegisterRefusedEffect
<1>6. CASE \E c \in Client : CleanedUp(c)
  BY <1>6, CleanedUpEffect
<1>7. CASE \E c \in Client : Discarded(c)
  BY <1>7, DiscardedEffect
<1>8. CASE \E c \in Client : Announce(c)
  BY <1>8, AnnounceEffect
<1>9. CASE \E c \in Client, t \in Terminal, o \in {"rename", "updateAgent"} :
        BeginMutation(c, t, o)
  BY <1>9, BeginMutationEffect
<1>10. CASE \E c \in Client, new \in Row : MutatesTo(c, new)
  BY <1>10, MutatesToEffect
<1>11. CASE \E c \in Client : MutationRefused(c)
  BY <1>11, MutationRefusedEffect
<1>12. CASE \E c \in Client : MutationSaved(c)
  BY <1>12, MutationSavedEffect
<1>13. CASE \E c \in Client : UpdateNotSaved(c)
  BY <1>13, UpdateNotSavedEffect
<1>14. CASE \E c \in Client : RenameNotSaved(c)
  BY <1>14, RenameNotSavedEffect
<1>15. CASE \E c \in Client : RollBack(c)
  BY <1>15, RollBackEffect
<1>16. CASE \E c \in Client, t \in Terminal, o \in {"delete", "archive"} :
         LockLifecycle(c, t, o)
  BY <1>16, LockLifecycleEffect
<1>17. CASE \E c \in Client : ClaimDelete(c)
  BY <1>17, ClaimDeleteEffect
<1>18. CASE \E c \in Client : LifecycleRefused(c)
  BY <1>18, LifecycleRefusedEffect
<1>19. CASE \E c \in Client : RemoveEntry(c)
  BY <1>19, RemoveEntryEffect
<1>20. CASE \E c \in Client : DeleteRefused(c)
  BY <1>20, DeleteRefusedEffect
<1>21. CASE \E c \in Client : OperationDropped(c)
  BY <1>21, OperationDroppedEffect
<1>22. CASE \E c \in Client : RowDeleted(c)
  BY <1>22, RowDeletedEffect
<1>23. CASE \E c \in Client : RowNotDeleted(c)
  BY <1>23, RowNotDeletedEffect
<1>24. CASE \E c \in Client : Reaped(c)
  BY <1>24, ReapedEffect
<1>25. CASE \E c \in Client : DeleteFailed(c)
  BY <1>25, DeleteFailedEffect
<1>26. CASE \E c \in Client : PrepareArchive(c)
  BY <1>26, PrepareArchiveEffect
<1>27. CASE \E c \in Client : LockForArchive(c)
  BY <1>27, LockForArchiveEffect
<1>28. CASE \E c \in Client : ArchiveNotLocked(c)
  BY <1>28, ArchiveNotLockedEffect
<1>29. CASE \E c \in Client : ReserveArchive(c)
  BY <1>29, ReserveArchiveEffect
<1>30. CASE \E c \in Client : ArchiveSealedOut(c)
  BY <1>30, ArchiveSealedOutEffect
<1>31. CASE \E c \in Client : ArchiveCancelled(c)
  BY <1>31, ArchiveCancelledEffect
<1>32. CASE \E c \in Client : ArchiveSaved(c)
  BY <1>32, ArchiveSavedEffect
<1>33. CASE \E c \in Client : ArchiveNotSaved(c)
  BY <1>33, ArchiveNotSavedEffect
<1>34. CASE \E c \in Client : CommitArchive(c)
  BY <1>34, CommitArchiveEffect
<1>35. CASE \E c \in Client : ArchiveReaped(c)
  BY <1>35, ArchiveReapedEffect
<1>36. CASE Restart
  BY <1>36, RestartEffect
<1>37. CASE UNCHANGED <<job>>
  BY <1>37
<1>38. QED
  BY Writers, <1>1, <1>2, <1>3, <1>4, <1>5, <1>6, <1>7, <1>8, <1>9, <1>10, <1>11, <1>12, <1>13,
    <1>14, <1>15, <1>16, <1>17, <1>18, <1>19, <1>20, <1>21, <1>22, <1>23, <1>24, <1>25, <1>26,
      <1>27, <1>28, <1>29, <1>30, <1>31, <1>32, <1>33, <1>34, <1>35, <1>36, <1>37

\* The row of a terminal whose delete is ending the shell stays gone.
LEMMA ReapedStep ==
    ASSUME Typed, AbsentInv, MutexInv, DeleteClaim, NewInv, HeldInv, WatchedInv,
           NoMutations, ReapedRows, [Next]_vars
    PROVE  ReapedRows'
<1> USE IdleIs, NoneFree DEF ReapedRows, RegisteredPC, PreparedPC, SnapshotPC, LifecyclePC,
        ClaimedPC, RemovedPC, DeletingPC, UnregisteredPC, CreatePC, MutationPC, SavePC, Sets,
        Alone, Goes, Keeps, Typed, JobInv, MutexInv, NewInv, Writes, WriteFails, NoMutations
<1>1. CASE \E c \in Client, t \in Terminal : BeginCreate(c, t)
  BY <1>1, BeginCreateEffect
<1>2. CASE \E c \in Client : \E from, to : Entering(from, to) /\ EnterPersist(c, from, to)
  BY <1>2, EnterPersistEffect DEF Entering
<1>3. CASE \E c \in Client : CreateSaved(c)
  BY <1>3, CreateSavedEffect
<1>4. CASE \E c \in Client : Register(c)
  BY <1>4, RegisterEffect
<1>5. CASE \E c \in Client : RegisterRefused(c)
  BY <1>5, RegisterRefusedEffect
<1>6. CASE \E c \in Client : CleanedUp(c)
  BY <1>6, CleanedUpEffect
<1>7. CASE \E c \in Client : Discarded(c)
  BY <1>7, DiscardedEffect
<1>8. CASE \E c \in Client : Announce(c)
  BY <1>8, AnnounceEffect
<1>9. CASE \E c \in Client, t \in Terminal, o \in {"rename", "updateAgent"} :
        BeginMutation(c, t, o)
  BY <1>9, BeginMutationEffect
<1>10. CASE \E c \in Client, new \in Row : MutatesTo(c, new)
  BY <1>10, MutatesToEffect
<1>11. CASE \E c \in Client : MutationRefused(c)
  BY <1>11, MutationRefusedEffect
<1>12. CASE \E c \in Client : MutationSaved(c)
  BY <1>12, MutationSavedEffect
<1>13. CASE \E c \in Client : UpdateNotSaved(c)
  BY <1>13, UpdateNotSavedEffect
<1>14. CASE \E c \in Client : RenameNotSaved(c)
  BY <1>14, RenameNotSavedEffect
<1>15. CASE \E c \in Client : RollBack(c)
  BY <1>15, RollBackEffect
<1>16. CASE \E c \in Client, t \in Terminal, o \in {"delete", "archive"} :
         LockLifecycle(c, t, o)
  BY <1>16, LockLifecycleEffect
<1>17. CASE \E c \in Client : ClaimDelete(c)
  BY <1>17, ClaimDeleteEffect
<1>18. CASE \E c \in Client : LifecycleRefused(c)
  BY <1>18, LifecycleRefusedEffect
<1>19. CASE \E c \in Client : RemoveEntry(c)
  BY <1>19, RemoveEntryEffect
<1>20. CASE \E c \in Client : DeleteRefused(c)
  BY <1>20, DeleteRefusedEffect
<1>21. CASE \E c \in Client : OperationDropped(c)
  BY <1>21, OperationDroppedEffect
<1>22. CASE \E c \in Client : RowDeleted(c)
  BY <1>22, RowDeletedEffect
<1>23. CASE \E c \in Client : RowNotDeleted(c)
  BY <1>23, RowNotDeletedEffect
<1>24. CASE \E c \in Client : Reaped(c)
  BY <1>24, ReapedEffect
<1>25. CASE \E c \in Client : DeleteFailed(c)
  BY <1>25, DeleteFailedEffect
<1>26. CASE \E c \in Client : PrepareArchive(c)
  BY <1>26, PrepareArchiveEffect
<1>27. CASE \E c \in Client : LockForArchive(c)
  BY <1>27, LockForArchiveEffect
<1>28. CASE \E c \in Client : ArchiveNotLocked(c)
  BY <1>28, ArchiveNotLockedEffect
<1>29. CASE \E c \in Client : ReserveArchive(c)
  BY <1>29, ReserveArchiveEffect
<1>30. CASE \E c \in Client : ArchiveSealedOut(c)
  BY <1>30, ArchiveSealedOutEffect
<1>31. CASE \E c \in Client : ArchiveCancelled(c)
  BY <1>31, ArchiveCancelledEffect
<1>32. CASE \E c \in Client : ArchiveSaved(c)
  BY <1>32, ArchiveSavedEffect
<1>33. CASE \E c \in Client : ArchiveNotSaved(c)
  BY <1>33, ArchiveNotSavedEffect
<1>34. CASE \E c \in Client : CommitArchive(c)
  BY <1>34, CommitArchiveEffect
<1>35. CASE \E c \in Client : ArchiveReaped(c)
  BY <1>35, ArchiveReapedEffect
<1>36. CASE \E t \in Terminal : WatchSaves(t)
  BY <1>36, WatchSavesEffect DEF DeleteClaim, WatchedInv, ExitSaving
<1>37. CASE Restart
  BY <1>37, RestartEffect
<1>38. CASE UNCHANGED <<rows, job>>
  BY <1>38
<1>39. QED
  BY Writers, <1>1, <1>2, <1>3, <1>4, <1>5, <1>6, <1>7, <1>8, <1>9, <1>10, <1>11, <1>12, <1>13,
    <1>14, <1>15, <1>16, <1>17, <1>18, <1>19, <1>20, <1>21, <1>22, <1>23, <1>24, <1>25, <1>26,
      <1>27, <1>28, <1>29, <1>30, <1>31, <1>32, <1>33, <1>34, <1>35, <1>36, <1>37, <1>38

\* Nothing brings a deleted terminal back.
LEMMA GoneStep ==
    ASSUME Typed, AbsentInv, MutexInv, DeleteClaim, NewInv, HeldInv, WatchedInv,
           NoMutations, ReapedRows, GoneInv, [Next]_vars
    PROVE  GoneInv'
<1> USE IdleIs, NoneFree DEF GoneInv, ExitSaving, Sets, Alone, Goes, Keeps, HeldInv, WatchedInv,
        Writes, WriteFails, RemovedPC, DeletingPC
<1>1. CASE \E c \in Client, t \in Terminal : BeginCreate(c, t)
  BY <1>1, BeginCreateEffect
<1>2. CASE \E c \in Client : \E from, to : Entering(from, to) /\ EnterPersist(c, from, to)
  BY <1>2, EnterPersistEffect DEF Entering
<1>3. CASE \E c \in Client : CreateSaved(c)
  BY <1>3, CreateSavedEffect
<1>4. CASE \E c \in Client : Register(c)
  BY <1>4, RegisterEffect
<1>5. CASE \E c \in Client : RegisterRefused(c)
  BY <1>5, RegisterRefusedEffect
<1>6. CASE \E c \in Client : CleanedUp(c)
  BY <1>6, CleanedUpEffect
<1>7. CASE \E c \in Client : Discarded(c)
  BY <1>7, DiscardedEffect
<1>8. CASE \E c \in Client : Announce(c)
  BY <1>8, AnnounceEffect
<1>9. CASE \E c \in Client, t \in Terminal, o \in {"rename", "updateAgent"} :
        BeginMutation(c, t, o)
  BY <1>9, BeginMutationEffect
<1>10. CASE \E c \in Client, new \in Row : MutatesTo(c, new)
  BY <1>10, MutatesToEffect
<1>11. CASE \E c \in Client : MutationRefused(c)
  BY <1>11, MutationRefusedEffect
<1>12. CASE \E c \in Client : MutationSaved(c)
  BY <1>12, MutationSavedEffect
<1>13. CASE \E c \in Client : UpdateNotSaved(c)
  BY <1>13, UpdateNotSavedEffect
<1>14. CASE \E c \in Client : RenameNotSaved(c)
  BY <1>14, RenameNotSavedEffect
<1>15. CASE \E c \in Client : RollBack(c)
  BY <1>15, RollBackEffect
<1>16. CASE \E c \in Client, t \in Terminal, o \in {"delete", "archive"} :
         LockLifecycle(c, t, o)
  BY <1>16, LockLifecycleEffect
<1>17. CASE \E c \in Client : ClaimDelete(c)
  BY <1>17, ClaimDeleteEffect
<1>18. CASE \E c \in Client : LifecycleRefused(c)
  BY <1>18, LifecycleRefusedEffect
<1>19. CASE \E c \in Client : RemoveEntry(c)
  BY <1>19, RemoveEntryEffect
<1>20. CASE \E c \in Client : DeleteRefused(c)
  BY <1>20, DeleteRefusedEffect
<1>21. CASE \E c \in Client : OperationDropped(c)
  BY <1>21, OperationDroppedEffect
<1>22. CASE \E c \in Client : RowDeleted(c)
  BY <1>22, RowDeletedEffect
<1>23. CASE \E c \in Client : RowNotDeleted(c)
  BY <1>23, RowNotDeletedEffect
<1>24. ASSUME NEW c \in Client, Reaped(c)
      PROVE  GoneInv'
  <2>1. /\ job[c].pc = "reap" /\ job[c].id \in Terminal /\ Alone(c) /\ job'[c] = Idle
        /\ watcher[job[c].id] = "done" /\ deleted' = deleted \cup {job[c].id}
        /\ UNCHANGED <<rows, sessions, process, watcher>>
    BY <1>24, ReapedEffect
  <2>2. /\ job[c].id \notin sessions /\ rows[job[c].id] = NoRow /\ process[job[c].id] # "absent"
        /\ watcher[job[c].id] \notin ExitSaving
    BY <2>1 DEF HeldInv, RemovedPC, ReapedRows, AbsentInv, ExitSaving
  <2>3. ASSUME NEW d \in Client, d # c
        PROVE  job[d].id # job[c].id
    <3>1. CASE job[d].pc = "idle"
      BY <2>1, <3>1, IdleIs, NoneFree DEF Typed, JobInv
    <3>2. CASE job[d].pc \in CreatePC
      BY <2>1, <2>3, <3>2 DEF NewInv
    <3>3. CASE job[d].pc \in LifecyclePC
      BY <2>1, <2>3, <3>3 DEF MutexInv, LifecyclePC, ClaimedPC, RemovedPC
    <3>4. QED
      BY <3>1, <3>2, <3>3, AllPCs DEF NoMutations
  <2>4. QED
    BY <2>1, <2>2, <2>3, IdleIs, NoneFree DEF GoneInv, Alone
<1>25. CASE \E c \in Client : DeleteFailed(c)
  BY <1>25, DeleteFailedEffect
<1>26. CASE \E c \in Client : PrepareArchive(c)
  BY <1>26, PrepareArchiveEffect
<1>27. CASE \E c \in Client : LockForArchive(c)
  BY <1>27, LockForArchiveEffect
<1>28. CASE \E c \in Client : ArchiveNotLocked(c)
  BY <1>28, ArchiveNotLockedEffect
<1>29. CASE \E c \in Client : ReserveArchive(c)
  BY <1>29, ReserveArchiveEffect
<1>30. CASE \E c \in Client : ArchiveSealedOut(c)
  BY <1>30, ArchiveSealedOutEffect
<1>31. CASE \E c \in Client : ArchiveCancelled(c)
  BY <1>31, ArchiveCancelledEffect
<1>32. CASE \E c \in Client : ArchiveSaved(c)
  BY <1>32, ArchiveSavedEffect
<1>33. CASE \E c \in Client : ArchiveNotSaved(c)
  BY <1>33, ArchiveNotSavedEffect
<1>34. CASE \E c \in Client : CommitArchive(c)
  BY <1>34, CommitArchiveEffect
<1>35. CASE \E c \in Client : ArchiveReaped(c)
  BY <1>35, ArchiveReapedEffect
<1>36. CASE \E t \in Terminal : ProcessExits(t)
  BY <1>36, ProcessExitsEffect
<1>37. CASE \E t \in Terminal : WatchDefersToArchive(t)
  BY <1>37, WatchDefersToArchiveEffect
<1>38. CASE \E t \in Terminal : WatchArchiveReady(t)
  BY <1>38, WatchArchiveReadyEffect DEF AfterArchive
<1>39. CASE \E t \in Terminal : WatchStandsBack(t)
  BY <1>39, WatchStandsBackEffect
<1>40. CASE \E t \in Terminal : WatchRemoves(t)
  BY <1>40, WatchRemovesEffect
<1>41. CASE \E t \in Terminal : WatchEntersPersist(t)
  BY <1>41, WatchEntersPersistEffect
<1>42. CASE \E t \in Terminal : WatchSaves(t)
  BY <1>42, WatchSavesEffect DEF AfterFailedSave
<1>43. CASE \E t \in Terminal : WatchRetries(t)
  BY <1>43, WatchRetriesEffect DEF TriesAgain
<1>44. CASE \E t \in Terminal : WatchPublishes(t)
  BY <1>44, WatchPublishesEffect
<1>45. CASE Restart
  BY <1>45, RestartEffect DEF Running, NoRow
<1>46. CASE UNCHANGED <<sessions, process, watcher, rows, job, deleted>>
  BY <1>46
<1>47. QED
  BY Writers, <1>1, <1>2, <1>3, <1>4, <1>5, <1>6, <1>7, <1>8, <1>9, <1>10, <1>11, <1>12, <1>13,
    <1>14, <1>15, <1>16, <1>17, <1>18, <1>19, <1>20, <1>21, <1>22, <1>23, <1>24, <1>25, <1>26,
      <1>27, <1>28, <1>29, <1>30, <1>31, <1>32, <1>33, <1>34, <1>35, <1>36, <1>37, <1>38,
        <1>39, <1>40, <1>41, <1>42, <1>43, <1>44, <1>45, <1>46

-----------------------------------------------------------------------------
(* The theorems *)

\* What Init says, variable by variable.
LEMMA StartsAs ==
    ASSUME Init
    PROVE  /\ sessions = Restored /\ archived = {} /\ closing = FALSE /\ creating = {}
           /\ deleteInProgress = {} /\ terminated = {} /\ failures = 0
           /\ changes = <<>> /\ closer = "open" /\ closeItems = {} /\ deleted = {}
           /\ restarts = 0 /\ calls = 0
           /\ storeSequence = 0 /\ storeSealed = FALSE /\ closeOperation = 0
           /\ phase = [n \in Queue!Operation |-> "free"]
           /\ job = [c \in Client |-> Idle]
           /\ exit = [t \in Terminal |-> [ticket |-> 0, change |-> 0]]
           /\ rowWriter = [t \in Terminal |-> 0]
           /\ archive = [t \in Terminal |-> "none"]
           /\ lifecycleMu = [t \in Terminal |-> None]
           /\ metadataSaveMu = [t \in Terminal |-> None]
           /\ rows = [t \in Terminal |-> IF t \in Restored THEN Fresh ELSE NoRow]
           /\ metadata = rows
           /\ process = [t \in Terminal |-> IF t \in Restored THEN "running" ELSE "absent"]
           /\ watcher = [t \in Terminal |-> IF t \in Restored THEN "waiting" ELSE "off"]
<1>1. Running([t \in Terminal |-> IF t \in Restored THEN Fresh ELSE NoRow]) = Restored
  BY LifecycleAssumption, RowStates DEF LifecycleAssumption, Running
<1>2. QED
  BY <1>1 DEF Init, Queue!QueueInit

\* The initial state has the types.
LEMMA InitTyped ==
    ASSUME Init
    PROVE  Typed
<1>1. Restored \subseteq Terminal /\ MaxReservations \in Nat /\ MaxFailures \in Nat /\
        MaxRestarts \in Nat /\ MaxCalls \in Nat
  BY LifecycleAssumption DEF LifecycleAssumption
<1>2. changes = <<>> /\ Len(changes) = 0 /\ ChangeTypes
  BY StartsAs DEF ChangeTypes
<1>3. JobTypes
  BY <1>2, StartsAs, IdleTyped DEF JobTypes
<1>4. ExitTypes
  BY <1>1, <1>2, StartsAs DEF ExitTypes, ExitRecord
<1>5. ManagerTypes
  BY <1>1, StartsAs, RowsTyped DEF ManagerTypes
<1>6. StoreTypes
  BY <1>1, StartsAs, RowsTyped DEF StoreTypes
<1>7. HistoryTypes
  BY <1>1, StartsAs DEF HistoryTypes
<1>8. Queue!QueueTypeOK
  BY <1>1, StartsAs DEF Queue!QueueTypeOK, Queue!Operation, Queue!Phase
<1>9. JobInv /\ CreatingInv
  BY StartsAs, IdleIs DEF JobInv, CreatingInv, CreatePC
<1>10. QED
  BY <1>2, <1>3, <1>4, <1>5, <1>6, <1>7, <1>8, <1>9 DEF Typed

\* The inductive invariant of the manager.
ManagerInv ==
    /\ Typed /\ MutexInv /\ DeleteClaim /\ ArchiveClaim
    /\ NewInv /\ HeldInv /\ AbsentInv /\ WatchedInv
    /\ CloserInv /\ JobTickets /\ WatchTickets /\ DistinctTickets /\ WriterInv /\ CancelInv
    /\ QP!QueueInv /\ CloseIsNewest
    /\ RunningInv /\ KeptInv /\ SealedInv /\ ShellInv
    /\ JobChanges /\ ExitChanges /\ EndedInv

\* The invariant holds when the manager has opened the store.
LEMMA InitManager == Init => ManagerInv
<1> SUFFICES ASSUME Init PROVE ManagerInv
  OBVIOUS
<1>1. Typed
  BY InitTyped
<1>2. \A c \in Client : job[c] = Idle /\ job[c].pc = "idle" /\ job[c].id = None
  BY StartsAs, IdleIs
<1>3. MutexInv /\ DeleteClaim /\ ArchiveClaim
  BY <1>2, StartsAs, NoneFree
  DEF MutexInv, DeleteClaim, ArchiveClaim, ArchiveInProgress, LifecyclePC, MetadataPC,
        ClaimedPC, PreparedPC, RemovedPC, DeletingPC, SnapshotPC, MutationPC, SavePC
<1>4. NewInv /\ HeldInv
  BY <1>2
  DEF NewInv, HeldInv, UnregisteredPC, CreatePC, RegisteredPC, PreparedPC, RemovedPC,
        DeletingPC, SnapshotPC
<1>5. AbsentInv /\ WatchedInv
  BY <1>2, StartsAs, NoneFree DEF AbsentInv, WatchedInv, ExitSaving
<1>6. CloserInv /\ JobTickets /\ WatchTickets /\ DistinctTickets
  BY <1>2, StartsAs
  DEF CloserInv, JobTickets, JobTicket, WatchTickets, WatchTicket, DistinctTickets, WaitingPC,
        RunningPC
<1>7. WriterInv /\ CancelInv /\ CloseIsNewest
  BY StartsAs DEF WriterInv, CancelInv, Queue!NoneCancelled, CloseIsNewest
<1>8. QP!QueueInv
  <2>1. QP!QueueInit
    BY StartsAs DEF QP!QueueInit, QP!Operation, Queue!Operation
  <2>2. QED
    BY <2>1, QueueParameters, QP!QueueInitInv
<1>9. RunningInv /\ KeptInv
  BY <1>2, StartsAs, RowStates, LifecycleAssumption
  DEF LifecycleAssumption, RunningInv, KeptInv, Kept, DeletingPC, UnregisteredPC, CreatePC,
        SavePC, SnapshotPC, RemovedPC
<1>10. SealedInv /\ ShellInv
  BY StartsAs DEF SealedInv, ShellInv
<1>11. JobChanges /\ ExitChanges /\ EndedInv
  BY <1>2, StartsAs
  DEF JobChanges, ExitChanges, EndedInv, Emitted, Ends, LifecyclePC, ClaimedPC, PreparedPC,
        RemovedPC, DeletingPC, SnapshotPC, MutationPC, SavePC, ExitSaving
<1>12. QED
  BY <1>1, <1>3, <1>4, <1>5, <1>6, <1>7, <1>8, <1>9, <1>10, <1>11 DEF ManagerInv

\* Every step keeps the invariant; each layer needs the others and no more.
LEMMA ManagerStep == ManagerInv /\ [Next]_vars => ManagerInv'
<1> SUFFICES ASSUME ManagerInv, [Next]_vars PROVE ManagerInv'
  OBVIOUS
<1> USE DEF ManagerInv
<1>1. Typed'
  BY TypedStep
<1>2. MutexInv' /\ DeleteClaim' /\ ArchiveClaim'
  BY MutexStep, DeleteClaimStep, ArchiveClaimStep
<1>3. NewInv' /\ HeldInv' /\ AbsentInv' /\ WatchedInv'
  BY NewStep, HeldStep, AbsentStep, WatchedStep
<1>4. CloserInv' /\ JobTickets' /\ WatchTickets' /\ DistinctTickets'
  BY CloserStep, JobTicketsStep, WatchTicketsStep, DistinctStep
<1>5. WriterInv' /\ CancelInv' /\ CloseIsNewest'
  BY WriterStep, CancelStep, NewestStep
<1>6. QP!QueueInv'
  BY <1>1, QueueStep, OrderStep
<1>7. RunningInv' /\ KeptInv'
  BY RunningStep, KeptStep DEF Typed
<1>8. SealedInv' /\ ShellInv'
  BY SealedStep, ShellStep DEF Typed
<1>9. JobChanges' /\ ExitChanges' /\ EndedInv'
  BY JobChangesStep, ExitChangesStep, EndedStep
<1>10. QED
  BY <1>1, <1>2, <1>3, <1>4, <1>5, <1>6, <1>7, <1>8, <1>9

\* The mutexes, claims, registrations, tickets, rows, shells and change
\* numbers of manager.go keep their invariant, for any number of concurrent
\* calls, failed saves and restarts.
THEOREM ManagerSafe == SafetySpec => []ManagerInv
<1>1. SafetySpec => []ManagerInv
  BY InitManager, ManagerStep, PTL DEF SafetySpec
<1>2. QED
  BY <1>1

\* The invariant has the parts of LifecycleInv.
LEMMA ManagerLifecycle == ManagerInv => LifecycleInv
<1> SUFFICES ASSUME ManagerInv PROVE LifecycleInv
  OBVIOUS
<1>1. TypeOK
  BY Split DEF ManagerInv, Typed
<1>2. LifecycleExclusive
  <2> SUFFICES ASSUME NEW t \in Terminal, ArchiveInProgress(t)
               PROVE  t \in sessions /\ t \notin deleteInProgress
    BY DEF LifecycleExclusive
  <2>1. lifecycleMu[t] # None /\ lifecycleMu[t] \in Client \cup {None}
    BY DEF ManagerInv, ArchiveClaim, Typed, ManagerTypes
  <2>2. PICK c \in Client : lifecycleMu[t] = c
    BY <2>1
  <2>3. job[c].id = t /\ job[c].pc \in PreparedPC \cup {"archiveReap"}
    BY <2>2 DEF ManagerInv, ArchiveClaim, MutexInv, ArchiveInProgress
  <2>4. job[c].pc \notin ClaimedPC
    BY <2>3 DEF PreparedPC, SnapshotPC, ClaimedPC, RemovedPC, DeletingPC
  <2>5. t \notin deleteInProgress
    BY <2>2, <2>4 DEF ManagerInv, DeleteClaim
  <2>6. t \in sessions
    BY <2>3 DEF ManagerInv, HeldInv, RegisteredPC
  <2>7. QED
    BY <2>5, <2>6
<1>3. RemovedOnce
  <2> SUFFICES ASSUME NEW i \in 1..Len(changes), NEW j \in 1..Len(changes), i < j,
                      changes[i].id = changes[j].id,
                      changes[i].kind = "deleted", changes[i].outcome = "emitted"
    PROVE  changes[j].kind = "created"
    BY DEF RemovedOnce
  <2>1. changes[i].id \in Terminal /\ i \in Nat /\ j > i
    <3>1. ChangeTypes
      BY DEF ManagerInv, Typed
    <3>2. Len(changes) \in Nat /\ changes[i] \in Change
      BY <3>1 DEF ChangeTypes
    <3>3. QED
      BY <3>2 DEF Change
  <2>2. Emitted(changes, changes[i].id, i)
    BY DEF Emitted, Ends
  <2>3. Quiet(changes, changes[i].id, i)
    BY <2>1, <2>2 DEF ManagerInv, EndedInv
  <2>4. QED
    BY <2>1, <2>3 DEF Quiet
<1>4. QED
  BY <1>1, <1>2, <1>3 DEF LifecycleInv

\* Delete and archive never work on one terminal, what is archived is still
\* registered, and subscribers hear nothing of a terminal after its deletion.
THEOREM LifecycleSafe == SafetySpec => []LifecycleInv
BY ManagerSafe, ManagerLifecycle, PTL

\* Ending a shell for Close never records that it exited: the terminals that
\* were registered when Close sealed the queue are restored by the next start.
THEOREM TerminalsKept == SafetySpec => []CloseKeepsTerminals
<1>1. ManagerInv => CloseKeepsTerminals
  BY DEF ManagerInv, KeptInv, Kept, CloseKeepsTerminals, Typed, ManagerTypes
<1>2. QED
  BY <1>1, ManagerSafe, PTL

\* When Close has run its ticket no shell runs and no call still writes, as
\* long as no archive gives up a reservation in front of others.
THEOREM CloseSafe ==
    ASSUME ~ArchiveCancels
    PROVE  SafetySpec => []CloseInv
<1>1. Init => ClosedShells
  BY StartsAs DEF ClosedShells
<1>2. ManagerInv => Queue!NoneCancelled
  BY DEF ManagerInv, CancelInv
<1>3. ManagerInv /\ ClosedShells /\ [Next]_vars => ClosedShells'
  <2> SUFFICES ASSUME ManagerInv, ClosedShells, [Next]_vars PROVE ClosedShells'
    OBVIOUS
  <2>1. QED
    BY <1>2, ClosedShellsStep DEF ManagerInv, Typed
<1>4. ManagerInv /\ ClosedShells => CloseLeavesNothing
  BY <1>2, NothingLeft DEF ManagerInv
<1>5. SafetySpec => []CloseLeavesNothing
  BY <1>1, <1>3, <1>4, ManagerSafe, PTL DEF SafetySpec
<1>6. QED
  BY <1>5, TerminalsKept, PTL DEF CloseInv

\* While no rename holds the metadata mutex the memory of a terminal is what
\* the store has, through a failed save and its rollback.  Agent updates are
\* excluded, since a failed one stays in memory; so is a second failure, that
\* of a delete which registers the terminal again after the rollback missed it.
THEOREM MemoryIsStored ==
    ASSUME "updateAgent" \notin Operations, MaxFailures <= 1
    PROVE  SafetySpec => []UnlockedMemoryIsStored
<1>1. Init => MemoryInv
  BY StartsAs, IdleIs
  DEF MemoryInv, NoUpdates, PendingInv, AgreeInv, Agree, SnapshotPC, DeletingPC
<1>2. ManagerInv /\ MemoryInv /\ [Next]_vars => MemoryInv'
  <2> SUFFICES ASSUME ManagerInv, MemoryInv, [Next]_vars PROVE MemoryInv'
    OBVIOUS
  <2> USE DEF ManagerInv, MemoryInv
  <2>1. NoUpdates'
    BY NoUpdatesStep
  <2>2. PendingInv'
    BY PendingStep
  <2>3. AgreeInv'
    BY <2>2, AgreeStep
  <2>4. QED
    BY <2>1, <2>2, <2>3
<1>3. ManagerInv /\ MemoryInv => UnlockedMemoryIsStored
  BY DEF ManagerInv, MemoryInv, AgreeInv, Agree, UnlockedMemoryIsStored, Typed, ManagerTypes
<1>4. QED
  BY <1>1, <1>2, <1>3, ManagerSafe, PTL DEF SafetySpec

\* The watcher publishes the end of a shell after the row records it, and no
\* older save of a mutation writes over it, if no archive gives up a
\* reservation.
THEOREM ExitsRecorded ==
    ASSUME ~ArchiveCancels
    PROVE  SafetySpec => []ExitIsRecorded
<1>1. Init => ExitInv
  BY StartsAs, IdleIs DEF ExitInv, RetryInv, OlderSaves, ArchivedRows, ExitedRows, SavePC
<1>2. ManagerInv /\ ExitInv /\ [Next]_vars => ExitInv'
  <2> SUFFICES ASSUME ManagerInv, ExitInv, [Next]_vars PROVE ExitInv'
    OBVIOUS
  <2> USE DEF ManagerInv, ExitInv
  <2>1. Queue!NoneCancelled
    BY DEF CancelInv
  <2>2. RetryInv'
    BY RetryStep
  <2>3. OlderSaves'
    BY OlderStep
  <2>4. ArchivedRows'
    BY ArchivedStep
  <2>5. ExitedRows'
    BY <2>1, ExitedStep
  <2>6. QED
    BY <2>2, <2>3, <2>4, <2>5
<1>3. ManagerInv /\ ExitInv => ExitIsRecorded
  BY DEF ManagerInv, ExitInv, ExitedRows, Reliable, ExitIsRecorded, Typed, ManagerTypes
<1>4. QED
  BY <1>1, <1>2, <1>3, ManagerSafe, PTL DEF SafetySpec

\* A deleted terminal stays deleted: no save that was under way when delete
\* began brings its row back, when there are no renames and agent updates.
THEOREM DeletedForGood ==
    ASSUME Operations \cap {"rename", "updateAgent"} = {}
    PROVE  SafetySpec => []DeletedStaysDeleted
<1>1. Init => DeletedInv
  BY StartsAs, IdleIs DEF DeletedInv, NoMutations, ReapedRows, GoneInv, MutationPC, SavePC
<1>2. ManagerInv /\ DeletedInv /\ [Next]_vars => DeletedInv'
  <2> SUFFICES ASSUME ManagerInv, DeletedInv, [Next]_vars PROVE DeletedInv'
    OBVIOUS
  <2> USE DEF ManagerInv, DeletedInv
  <2>1. NoMutations'
    BY NoMutationsStep
  <2>2. ReapedRows'
    BY ReapedStep
  <2>3. GoneInv'
    BY GoneStep
  <2>4. QED
    BY <2>1, <2>2, <2>3
<1>3. ManagerInv /\ DeletedInv => DeletedStaysDeleted
  BY DEF ManagerInv, DeletedInv, GoneInv, DeletedStaysDeleted, Typed, HistoryTypes
<1>4. QED
  BY <1>1, <1>2, <1>3, ManagerSafe, PTL DEF SafetySpec

\* A ticket that runs is not older than the last writer of any row.
LEMMA WritersInOrder ==
    ASSUME ManagerInv, ~ArchiveCancels, NEW t \in Terminal, NEW n \in Queue!Operation,
           phase[n] = "running"
    PROVE  n >= rowWriter[t]
<1>1. rowWriter[t] \in 0..MaxReservations /\ n \in Nat
  BY LifecycleAssumption DEF LifecycleAssumption, ManagerInv, Typed, StoreTypes, Queue!Operation
<1>2. CASE rowWriter[t] = 0
  BY <1>1, <1>2
<1>3. CASE rowWriter[t] # 0
  <2>1. rowWriter[t] \in Queue!Operation /\ Queue!Entered(rowWriter[t]) /\ Queue!NoneCancelled
    BY <1>3 DEF ManagerInv, WriterInv, CancelInv
  <2>2. ~(n < rowWriter[t])
    BY <2>1, InOrder DEF ManagerInv, Queue!Closed
  <2>3. QED
    BY <1>1, <2>2
<1>4. QED
  BY <1>2, <1>3

\* The writer of a row is a number.
LEMMA WriterIsNat ==
    ASSUME Typed
    PROVE  \A t \in Terminal : rowWriter[t] \in Nat /\ rowWriter[t] >= rowWriter[t]
BY LifecycleAssumption DEF LifecycleAssumption, Typed, StoreTypes

\* The writers of a row come in the order of their tickets.
LEMMA WriterGrows ==
    ASSUME ManagerInv, ~ArchiveCancels, [Next]_vars
    PROVE  Restart \/ \A u \in Terminal : rowWriter'[u] >= rowWriter[u]
<1> USE WritersInOrder, WriterIsNat DEF ManagerInv, WaitingPC, RunningPC, Sets, Alone, Goes,
        Keeps, JobTickets, JobTicket, WatchTickets, WatchTicket, Writes, WriteFails
<1>1. CASE \E c \in Client : CreateSaved(c)
  BY <1>1, CreateSavedEffect
<1>2. CASE \E c \in Client : CleanedUp(c)
  BY <1>2, CleanedUpEffect
<1>3. CASE \E c \in Client : MutationSaved(c)
  BY <1>3, MutationSavedEffect
<1>4. CASE \E c \in Client : UpdateNotSaved(c)
  BY <1>4, UpdateNotSavedEffect
<1>5. CASE \E c \in Client : RenameNotSaved(c)
  BY <1>5, RenameNotSavedEffect
<1>6. CASE \E c \in Client : RowDeleted(c)
  BY <1>6, RowDeletedEffect
<1>7. CASE \E c \in Client : RowNotDeleted(c)
  BY <1>7, RowNotDeletedEffect
<1>8. CASE \E c \in Client : ArchiveSaved(c)
  BY <1>8, ArchiveSavedEffect
<1>9. CASE \E c \in Client : ArchiveNotSaved(c)
  BY <1>9, ArchiveNotSavedEffect
<1>10. CASE \E t \in Terminal : WatchSaves(t)
  BY <1>10, WatchSavesEffect DEF AfterFailedSave
<1>11. CASE Restart
  BY <1>11, RestartEffect
<1>12. CASE UNCHANGED <<rowWriter>>
  BY <1>12
<1>13. QED
  BY Writers, <1>1, <1>2, <1>3, <1>4, <1>5, <1>6, <1>7, <1>8, <1>9, <1>10, <1>11, <1>12

\* A save never overwrites a newer one, whatever the order in which the
\* goroutines get to the store, if no archive gives up a reservation.
THEOREM NoWriteIsStale ==
    ASSUME ~ArchiveCancels
    PROVE  SafetySpec => NoStaleWrite
<1>1. ManagerInv /\ [Next]_vars =>
        [\A t \in Terminal : restarts' = restarts => rowWriter'[t] >= rowWriter[t]]_vars
  <2> SUFFICES ASSUME ManagerInv, [Next]_vars, restarts' = restarts
               PROVE  \A t \in Terminal : rowWriter'[t] >= rowWriter[t]
    OBVIOUS
  <2>1. ~Restart
    BY DEF ManagerInv, Typed, HistoryTypes, Restart
  <2>2. Typed
    BY DEF ManagerInv
  <2>3. QED
    BY <2>1, <2>2, WriterGrows
<1>2. QED
  BY <1>1, ManagerSafe, PTL DEF SafetySpec, NoStaleWrite

\* Between two starts the manager uses its queue as StoreQueue says, so that
\* the theorems about the queue hold of the manager.
THEOREM QueueUsed ==
    ASSUME MaxRestarts = 0
    PROVE  SafetySpec => UsesQueue
<1>1. Init => Queue!QueueInit
  BY DEF Init
<1>2. ManagerInv /\ [Next]_vars => [Queue!QueueNext]_queueVars
  <2> SUFFICES ASSUME ManagerInv, [Next]_vars PROVE Queue!QueueNext \/ UNCHANGED queueVars
    OBVIOUS
  <2>1. ~Restart
    BY DEF ManagerInv, Typed, HistoryTypes, Restart
  <2>2. QED
    BY <2>1, QueueStep DEF ManagerInv
<1>3. QED
  BY <1>1, <1>2, ManagerSafe, PTL DEF SafetySpec, UsesQueue

=============================================================================
