--------------------------- MODULE SessionLifecycle ---------------------------
(***************************************************************************)
(* The life of a terminal in the session manager                           *)
(* (src/internal/session/manager.go): creation, metadata mutations,        *)
(* deletion, archiving, the exit of its process, the shutdown of the       *)
(* manager and a restart from the SQLite rows.                             *)
(*                                                                         *)
(* Every step is one critical section of Manager.mu or one call of the     *)
(* store.  Store calls go through the persistence queue, the instance      *)
(* Queue of StoreQueue: an operation is reserved in one step, enters       *)
(* persist() in a second and leaves it in a third, and everything else may *)
(* happen in between.                                                      *)
(*                                                                         *)
(* Waiting for a per-terminal mutex and the check that precedes it are one *)
(* step: every caller repeats the check under Manager.mu once it owns the  *)
(* mutex, and a failed check has no effect.  Releasing a mutex, completing *)
(* a change number and returning are folded into the step before them.     *)
(***************************************************************************)
EXTENDS Naturals, Sequences, FiniteSets

CONSTANTS
    Terminal,          \* terminal IDs
    Client,            \* goroutines that serve API calls
    Restored,          \* terminals found in the database at program start
    Operations,        \* the API calls enabled in this instance
    ArchiveCancels,    \* the context of an archive call may end
    Value,             \* values of a metadata field
    None,              \* no terminal, no owner
    MaxCalls,          \* bound on the API calls begun
    MaxReservations,   \* store operations of one manager: enough for MaxCalls
    MaxFailures,       \* bound on failing store calls
    MaxRestarts        \* bound on crashes and restarts

ASSUME LifecycleAssumption ==
    /\ Restored \subseteq Terminal
    /\ Operations \subseteq {"create", "rename", "updateAgent", "delete", "archive", "close"}
    /\ ArchiveCancels \in BOOLEAN
    /\ None \notin Terminal \cup Client
    /\ 0 \in Value
    /\ MaxCalls \in Nat
    /\ MaxReservations \in Nat \ {0}
    /\ MaxReservations > 2 * (MaxCalls + Cardinality(Terminal))
    /\ MaxFailures \in Nat
    /\ MaxRestarts \in Nat

VARIABLES
    \* Manager
    sessions,          \* registered terminals (m.sessions)
    archived,          \* exited records kept in memory (m.archived)
    metadata,          \* entry.metadata of each terminal
    closing,           \* m.closing
    creating,          \* calls counted by m.activeCreates
    \* entry
    lifecycleMu, metadataSaveMu,   \* owner of each per-terminal mutex
    deleteInProgress,  \* terminals that Delete has claimed
    archive,           \* archiveInProgress, archiveReady and archiveSucceeded
    \* operating system
    process,           \* the shell of each terminal
    terminated,        \* terminals whose process was told to end
    watcher,           \* the watch goroutine; "done" means waitDone is closed
    \* SQLite
    rows,              \* the row of each terminal
    rowWriter,         \* history: the store operation that wrote it last
    failures,          \* store calls that have failed
    \* persistence queue (see StoreQueue)
    storeSequence, phase, storeSealed, closeOperation,
    \* changes: number n is changes[n], completed as "emitted" or "skipped"
    changes,
    \* local state of the goroutines
    job,               \* of each client
    exit,              \* of each watch goroutine: its ticket and its change
    closer,            \* of finishClose
    closeItems,        \* the entries finishClose terminates
    \* history
    deleted,           \* terminals whose Delete returned nil
    restarts,
    calls              \* API calls begun

Queue == INSTANCE StoreQueue WITH ContextOps <- 1..MaxReservations

managerVars == <<sessions, archived, metadata, closing, creating>>
entryVars   == <<lifecycleMu, metadataSaveMu, deleteInProgress, archive>>
processVars == <<process, terminated, watcher>>
storeVars   == <<rows, rowWriter, failures>>
queueVars   == <<storeSequence, phase, storeSealed, closeOperation>>
closeVars   == <<closer, closeItems>>
history     == <<deleted, restarts, calls>>

vars == <<managerVars, entryVars, processVars, storeVars, queueVars, changes,
          job, exit, closeVars, history>>

-----------------------------------------------------------------------------
(* Data *)

\* Two fields stand for the metadata: the name, whose mutations are rolled
\* back when they cannot be saved, and the agent status, which is not.
NoRow == [name |-> 0, status |-> 0, state |-> "absent", archived |-> FALSE]
Fresh == [NoRow EXCEPT !.state = "running"]
Row   == [name : Value, status : Value, state : {"absent", "running", "exited"},
          archived : BOOLEAN]

Exited(row)   == [row EXCEPT !.state = "exited"]
Archived(row) == [row EXCEPT !.state = "exited", !.archived = TRUE]

Idle == [pc |-> "idle", id |-> None, ticket |-> 0, change |-> 0,
         before |-> NoRow, after |-> NoRow]

\* Change numbers; 0 stands for no change.
NextChange(kind, t) == Append(changes, [kind |-> kind, id |-> t, outcome |-> "pending"])
ChangeNumber        == Len(changes) + 1
Completed(n, how) ==
    IF n = 0 THEN changes ELSE [changes EXCEPT ![n].outcome = how]

-----------------------------------------------------------------------------
(* The store.  Save upserts a row, Delete removes it. *)

StoreOpen == closer # "closed"

Write(t, n, row) ==
    /\ StoreOpen
    /\ rows' = [rows EXCEPT ![t] = row]
    /\ rowWriter' = [rowWriter EXCEPT ![t] = n]
    /\ UNCHANGED failures

\* A call fails because of the disk, or because the database is closed.
WriteFails ==
    /\ failures' = IF StoreOpen THEN failures + 1 ELSE failures
    /\ failures' <= MaxFailures
    /\ UNCHANGED <<rows, rowWriter>>

\* Fault: an operation does not wait for its predecessor.
EnterPersistAtOnce(c, from, to) ==
    /\ job[c].pc = from
    /\ phase' = [phase EXCEPT ![job[c].ticket] = "running"]
    /\ job' = [job EXCEPT ![c].pc = to]
    /\ UNCHANGED <<managerVars, entryVars, processVars, storeVars, storeSequence, storeSealed,
                   closeOperation, changes, exit, closeVars, history>>

\* A client enters persist() of its operation.
EnterPersist(c, from, to) ==
    /\ job[c].pc = from
    /\ Queue!Start(job[c].ticket)
    /\ job' = [job EXCEPT ![c].pc = to]
    /\ UNCHANGED <<managerVars, entryVars, processVars, storeVars, changes, exit,
                   closeVars, history>>

\* An idle client begins an API call.
BeginCall(c, operation) ==
    /\ operation \in Operations
    /\ job[c] = Idle
    /\ calls < MaxCalls
    /\ calls' = calls + 1

\* Fault: the mutex excludes nobody.
AlwaysFree(mutex, t) == TRUE

Free(mutex, t)    == mutex[t] = None
Release(mutex, t) == [mutex EXCEPT ![t] = None]

-----------------------------------------------------------------------------
(* Start and restart: NewPersistentManager restores every running row. *)

Running(db) == {t \in Terminal : db[t].state = "running"}

Init ==
    LET db == [t \in Terminal |-> IF t \in Restored THEN Fresh ELSE NoRow] IN
    /\ sessions = Running(db)
    /\ archived = {}
    /\ metadata = db
    /\ closing = FALSE
    /\ creating = {}
    /\ lifecycleMu = [t \in Terminal |-> None]
    /\ metadataSaveMu = [t \in Terminal |-> None]
    /\ deleteInProgress = {}
    /\ archive = [t \in Terminal |-> "none"]
    /\ process = [t \in Terminal |-> IF t \in Restored THEN "running" ELSE "absent"]
    /\ terminated = {}
    /\ watcher = [t \in Terminal |-> IF t \in Restored THEN "waiting" ELSE "off"]
    /\ rows = db
    /\ rowWriter = [t \in Terminal |-> 0]
    /\ failures = 0
    /\ Queue!QueueInit
    /\ changes = <<>>
    /\ job = [c \in Client |-> Idle]
    /\ exit = [t \in Terminal |-> [ticket |-> 0, change |-> 0]]
    /\ closer = "open"
    /\ closeItems = {}
    /\ deleted = {}
    /\ restarts = 0
    /\ calls = 0

\* The program is killed, or ends after Close, and a new one starts: memory,
\* goroutines and shells are gone, the rows stay.
Restart ==
    /\ restarts < MaxRestarts
    /\ restarts' = restarts + 1
    /\ sessions' = Running(rows)
    /\ archived' = {t \in Terminal : rows[t].state = "exited"}
    /\ metadata' = rows
    /\ closing' = FALSE
    /\ creating' = {}
    /\ lifecycleMu' = [t \in Terminal |-> None]
    /\ metadataSaveMu' = [t \in Terminal |-> None]
    /\ deleteInProgress' = {}
    /\ archive' = [t \in Terminal |-> "none"]
    /\ process' = [t \in Terminal |->
                     IF t \in sessions' THEN "running"
                     ELSE IF process[t] = "absent" THEN "absent"
                     ELSE "exited"]
    /\ terminated' = {}
    /\ watcher' = [t \in Terminal |-> IF t \in sessions' THEN "waiting" ELSE "off"]
    /\ rowWriter' = [t \in Terminal |-> 0]
    /\ storeSequence' = 0
    /\ phase' = [n \in 1..MaxReservations |-> "free"]
    /\ storeSealed' = FALSE
    /\ closeOperation' = 0
    /\ changes' = <<>>
    /\ job' = [c \in Client |-> Idle]
    /\ exit' = [t \in Terminal |-> [ticket |-> 0, change |-> 0]]
    /\ closer' = "open"
    /\ closeItems' = {}
    /\ UNCHANGED <<rows, failures, deleted, calls>>

-----------------------------------------------------------------------------
(* Create *)

\* beginCreate, beginPendingAgentStart, start, and the reservation of the
\* first save.  The terminal is not registered yet, its shell already runs.
BeginCreate(c, t) ==
    /\ BeginCall(c, "create")
    /\ ~closing
    /\ process[t] = "absent"
    /\ creating' = creating \cup {c}
    /\ process' = [process EXCEPT ![t] = "running"]
    /\ metadata' = [metadata EXCEPT ![t] = Fresh]
    /\ Queue!Reserve
    /\ job' = [job EXCEPT ![c] = [Idle EXCEPT !.pc = "createSave", !.id = t,
                                    !.ticket = storeSequence', !.after = Fresh]]
    /\ UNCHANGED <<sessions, archived, closing, entryVars, terminated, watcher, storeVars,
                   changes, exit, closeVars, deleted, restarts>>

\* The first save returns.  If it failed, discardStartedSession ends the shell.
CreateSaved(c) ==
    LET t == job[c].id IN
    /\ job[c].pc = "createSaving"
    /\ Queue!Finish(job[c].ticket)
    /\ \/ /\ Write(t, job[c].ticket, job[c].after)
          /\ job' = [job EXCEPT ![c].pc = "register"]
          /\ UNCHANGED terminated
       \/ /\ WriteFails
          /\ job' = [job EXCEPT ![c].pc = "discard"]
          /\ terminated' = terminated \cup {t}
    /\ UNCHANGED <<managerVars, entryVars, process, watcher, changes, exit, closeVars, history>>

Register(c) ==
    /\ job[c].pc = "register"
    /\ ~closing
    /\ sessions' = sessions \cup {job[c].id}
    /\ job' = [job EXCEPT ![c].pc = "announce"]
    /\ UNCHANGED <<archived, metadata, closing, creating, entryVars, processVars, storeVars,
                   queueVars, changes, exit, closeVars, history>>

\* registerSession refuses because the manager closes: remove the row again.
RegisterRefused(c) ==
    /\ job[c].pc = "register"
    /\ closing
    /\ Queue!Reserve
    /\ job' = [job EXCEPT ![c].pc = "cleanup", ![c].ticket = storeSequence']
    /\ UNCHANGED <<managerVars, entryVars, processVars, storeVars, changes, exit,
                   closeVars, history>>

CleanedUp(c) ==
    LET t == job[c].id IN
    /\ job[c].pc = "cleaningUp"
    /\ Queue!Finish(job[c].ticket)
    /\ Write(t, job[c].ticket, NoRow) \/ WriteFails
    /\ job' = [job EXCEPT ![c].pc = "discard"]
    /\ terminated' = terminated \cup {t}
    /\ UNCHANGED <<managerVars, entryVars, process, watcher, changes, exit, closeVars, history>>

\* discardStartedSession waits for the process; finishCreate.
Discarded(c) ==
    /\ job[c].pc = "discard"
    /\ process[job[c].id] = "exited"
    /\ creating' = creating \ {c}
    /\ job' = [job EXCEPT ![c] = Idle]
    /\ UNCHANGED <<sessions, archived, metadata, closing, entryVars, processVars, storeVars,
                   queueVars, changes, exit, closeVars, history>>

\* The created change is numbered in a critical section of its own, after the
\* terminal became visible; then the watch goroutine starts and finishCreate.
Announce(c) ==
    LET t == job[c].id IN
    /\ job[c].pc = "announce"
    /\ changes' = Append(changes, [kind |-> "created", id |-> t, outcome |-> "emitted"])
    /\ watcher' = [watcher EXCEPT ![t] = "waiting"]
    /\ creating' = creating \ {c}
    /\ job' = [job EXCEPT ![c] = Idle]
    /\ UNCHANGED <<sessions, archived, metadata, closing, entryVars, process, terminated,
                   storeVars, queueVars, exit, closeVars, history>>

Create(c) ==
    \/ \E t \in Terminal : BeginCreate(c, t)
    \/ EnterPersist(c, "createSave", "createSaving")
    \/ CreateSaved(c)
    \/ Register(c)
    \/ RegisterRefused(c)
    \/ EnterPersist(c, "cleanup", "cleaningUp")
    \/ CleanedUp(c)
    \/ Discarded(c)
    \/ Announce(c)

-----------------------------------------------------------------------------
(* Metadata mutations: Rename and applyAgentUpdate *)

\* lockMetadataSaveEntry
BeginMutation(c, t, operation) ==
    /\ BeginCall(c, operation)
    /\ ~closing
    /\ t \in sessions
    /\ Free(metadataSaveMu, t)
    /\ metadataSaveMu' = [metadataSaveMu EXCEPT ![t] = c]
    /\ job' = [job EXCEPT ![c] = [Idle EXCEPT !.pc = operation, !.id = t]]
    /\ UNCHANGED <<managerVars, lifecycleMu, deleteInProgress, archive, processVars, storeVars,
                   queueVars, changes, exit, closeVars, deleted, restarts>>

StillRegistered(c) == ~closing /\ job[c].id \in sessions

\* The critical section of a mutation: change memory, draw a change number if
\* anything changed, and reserve the save.
Mutate(c, new) ==
    LET t == job[c].id IN
    /\ StillRegistered(c)
    /\ metadata' = [metadata EXCEPT ![t] = new]
    /\ changes' = IF new = metadata[t] THEN changes ELSE NextChange("updated", t)
    /\ Queue!Reserve
    /\ job' = [job EXCEPT ![c].pc = IF @ = "rename" THEN "renameSave" ELSE "updateSave",
                          ![c].ticket = storeSequence',
                          ![c].change = IF new = metadata[t] THEN 0 ELSE ChangeNumber,
                          ![c].before = metadata[t],
                          ![c].after = new]
    /\ UNCHANGED <<sessions, archived, closing, creating, entryVars, processVars, storeVars,
                   exit, closeVars, history>>

RenameInMemory(c) ==
    /\ job[c].pc = "rename"
    /\ \E v \in Value : Mutate(c, [metadata[job[c].id] EXCEPT !.name = v])

UpdateInMemory(c) ==
    /\ job[c].pc = "updateAgent"
    /\ \E v \in Value : Mutate(c, [metadata[job[c].id] EXCEPT !.status = v])

\* ErrManagerClosing or ErrNotFound after the mutex was taken.
MutationRefused(c) ==
    /\ job[c].pc \in {"rename", "updateAgent"}
    /\ ~StillRegistered(c)
    /\ metadataSaveMu' = Release(metadataSaveMu, job[c].id)
    /\ job' = [job EXCEPT ![c] = Idle]
    /\ UNCHANGED <<managerVars, lifecycleMu, deleteInProgress, archive, processVars, storeVars,
                   queueVars, changes, exit, closeVars, history>>

\* The save returns nil: release the mutex and emit the change.
MutationSaved(c) ==
    LET t == job[c].id IN
    /\ job[c].pc \in {"renameSaving", "updateSaving"}
    /\ Queue!Finish(job[c].ticket)
    /\ Write(t, job[c].ticket, job[c].after)
    /\ metadataSaveMu' = Release(metadataSaveMu, t)
    /\ changes' = Completed(job[c].change, "emitted")
    /\ job' = [job EXCEPT ![c] = Idle]
    /\ UNCHANGED <<managerVars, lifecycleMu, deleteInProgress, archive, processVars, exit,
                   closeVars, history>>

\* applyAgentUpdate does not undo its mutation when the save fails.
UpdateNotSaved(c) ==
    /\ job[c].pc = "updateSaving"
    /\ Queue!Finish(job[c].ticket)
    /\ WriteFails
    /\ metadataSaveMu' = Release(metadataSaveMu, job[c].id)
    /\ changes' = Completed(job[c].change, "skipped")
    /\ job' = [job EXCEPT ![c] = Idle]
    /\ UNCHANGED <<managerVars, lifecycleMu, deleteInProgress, archive, processVars, exit,
                   closeVars, history>>

RenameNotSaved(c) ==
    /\ job[c].pc = "renameSaving"
    /\ Queue!Finish(job[c].ticket)
    /\ WriteFails
    /\ job' = [job EXCEPT ![c].pc = "rollback"]
    /\ UNCHANGED <<managerVars, entryVars, processVars, changes, exit, closeVars, history>>

\* Fault: the rollback is forgotten.
NotRestored(c) == metadata

\* Rename restores the old name if the terminal is still there and nobody has
\* changed the name since.
NameRestored(c) ==
    LET t == job[c].id IN
    IF t \in sessions /\ metadata[t].name = job[c].after.name
      THEN [metadata EXCEPT ![t].name = job[c].before.name]
      ELSE metadata

RollBack(c) ==
    /\ job[c].pc = "rollback"
    /\ metadata' = NameRestored(c)
    /\ metadataSaveMu' = Release(metadataSaveMu, job[c].id)
    /\ changes' = Completed(job[c].change, "skipped")
    /\ job' = [job EXCEPT ![c] = Idle]
    /\ UNCHANGED <<sessions, archived, closing, creating, lifecycleMu, deleteInProgress, archive,
                   processVars, storeVars, queueVars, exit, closeVars, history>>

Mutation(c) ==
    \/ \E t \in Terminal, operation \in {"rename", "updateAgent"} : BeginMutation(c, t, operation)
    \/ RenameInMemory(c)
    \/ UpdateInMemory(c)
    \/ MutationRefused(c)
    \/ EnterPersist(c, "renameSave", "renameSaving")
    \/ EnterPersist(c, "updateSave", "updateSaving")
    \/ MutationSaved(c)
    \/ UpdateNotSaved(c)
    \/ RenameNotSaved(c)
    \/ RollBack(c)

-----------------------------------------------------------------------------
(* Delete *)

ArchiveInProgress(t) == archive[t] \in {"preparing", "succeeded"}

\* Delete and archive take the lifecycle mutex of the terminal first.
LockLifecycle(c, t, operation) ==
    /\ BeginCall(c, operation)
    /\ ~closing
    /\ t \in sessions
    /\ Free(lifecycleMu, t)
    /\ lifecycleMu' = [lifecycleMu EXCEPT ![t] = c]
    /\ job' = [job EXCEPT ![c] = [Idle EXCEPT !.pc = operation, !.id = t]]
    /\ UNCHANGED <<managerVars, metadataSaveMu, deleteInProgress, archive, processVars,
                   storeVars, queueVars, changes, exit, closeVars, deleted, restarts>>

\* The first critical section of Delete: claim the terminal, reserve.
ClaimDelete(c) ==
    LET t == job[c].id IN
    /\ job[c].pc = "delete"
    /\ StillRegistered(c)
    /\ ~ArchiveInProgress(t)
    /\ deleteInProgress' = deleteInProgress \cup {t}
    /\ Queue!Reserve
    /\ job' = [job EXCEPT ![c].pc = "remove", ![c].ticket = storeSequence']
    /\ UNCHANGED <<managerVars, lifecycleMu, metadataSaveMu, archive, processVars, storeVars,
                   changes, exit, closeVars, history>>

LifecycleRefused(c) ==
    /\ job[c].pc \in {"delete", "archive"}
    /\ ~StillRegistered(c)
    /\ lifecycleMu' = Release(lifecycleMu, job[c].id)
    /\ job' = [job EXCEPT ![c] = Idle]
    /\ UNCHANGED <<managerVars, metadataSaveMu, deleteInProgress, archive, processVars,
                   storeVars, queueVars, changes, exit, closeVars, history>>

\* The second critical section: remove the entry and draw the change number.
\* Manager.mu was free in between.
RemoveEntry(c) ==
    LET t == job[c].id IN
    /\ job[c].pc = "remove"
    /\ StillRegistered(c)
    /\ sessions' = sessions \ {t}
    /\ changes' = NextChange("deleted", t)
    /\ job' = [job EXCEPT ![c].pc = "deleteRow", ![c].change = ChangeNumber]
    /\ UNCHANGED <<archived, metadata, closing, creating, entryVars, processVars, storeVars,
                   queueVars, exit, closeVars, history>>

\* The manager began to close: the reservation is completed without effect.
DeleteRefused(c) ==
    /\ job[c].pc = "remove"
    /\ ~StillRegistered(c)
    /\ job' = [job EXCEPT ![c].pc = "dropOperation"]
    /\ UNCHANGED <<managerVars, entryVars, processVars, storeVars, queueVars, changes, exit,
                   closeVars, history>>

\* finishLifecycle
FinishDelete(c, how) ==
    LET t == job[c].id IN
    /\ Queue!Finish(job[c].ticket)
    /\ deleteInProgress' = deleteInProgress \ {t}
    /\ lifecycleMu' = Release(lifecycleMu, t)
    /\ changes' = Completed(job[c].change, how)
    /\ job' = [job EXCEPT ![c] = Idle]

OperationDropped(c) ==
    /\ job[c].pc = "droppingOperation"
    /\ FinishDelete(c, "skipped")
    /\ UNCHANGED <<managerVars, metadataSaveMu, archive, processVars, storeVars, exit,
                   closeVars, history>>

\* store.Delete succeeds; completeDelete ends the process and waits for it
\* without leaving the persistence queue.
RowDeleted(c) ==
    LET t == job[c].id IN
    /\ job[c].pc = "deletingRow"
    /\ Write(t, job[c].ticket, NoRow)
    /\ terminated' = terminated \cup {t}
    /\ job' = [job EXCEPT ![c].pc = "reap"]
    /\ UNCHANGED <<managerVars, entryVars, process, watcher, queueVars, changes, exit,
                   closeVars, history>>

\* Fault: the error of store.Delete is dropped.
RowNotDeletedIgnored(c) ==
    /\ job[c].pc = "deletingRow"
    /\ WriteFails
    /\ terminated' = terminated \cup {job[c].id}
    /\ job' = [job EXCEPT ![c].pc = "reap"]
    /\ UNCHANGED <<managerVars, entryVars, process, watcher, queueVars, changes, exit,
                   closeVars, history>>

\* store.Delete fails: completeDelete registers the entry again, unless the
\* manager closes, in which case the process is ended all the same.
RowNotDeleted(c) ==
    LET t == job[c].id IN
    /\ job[c].pc = "deletingRow"
    /\ WriteFails
    /\ IF closing
         THEN /\ terminated' = terminated \cup {t}
              /\ job' = [job EXCEPT ![c].pc = "reapFailed"]
              /\ UNCHANGED sessions
         ELSE /\ sessions' = sessions \cup {t}
              /\ job' = [job EXCEPT ![c].pc = "deleteFailed"]
              /\ UNCHANGED terminated
    /\ UNCHANGED <<archived, metadata, closing, creating, entryVars, process, watcher,
                   queueVars, changes, exit, closeVars, history>>

Reaped(c) ==
    LET t == job[c].id IN
    /\ job[c].pc = "reap"
    /\ watcher[t] = "done"
    /\ FinishDelete(c, "emitted")
    /\ deleted' = deleted \cup {t}
    /\ UNCHANGED <<managerVars, metadataSaveMu, archive, processVars, storeVars, exit,
                   closeVars, restarts, calls>>

DeleteFailed(c) ==
    /\ \/ job[c].pc = "deleteFailed"
       \/ job[c].pc = "reapFailed" /\ watcher[job[c].id] = "done"
    /\ FinishDelete(c, "skipped")
    /\ UNCHANGED <<managerVars, metadataSaveMu, archive, processVars, storeVars, exit,
                   closeVars, history>>

Delete(c) ==
    \/ \E t \in Terminal : LockLifecycle(c, t, "delete")
    \/ ClaimDelete(c)
    \/ LifecycleRefused(c)
    \/ RemoveEntry(c)
    \/ DeleteRefused(c)
    \/ EnterPersist(c, "dropOperation", "droppingOperation")
    \/ OperationDropped(c)
    \/ EnterPersist(c, "deleteRow", "deletingRow")
    \/ RowDeleted(c)
    \/ RowNotDeleted(c)
    \/ Reaped(c)
    \/ DeleteFailed(c)

-----------------------------------------------------------------------------
(* Archive *)

PrepareArchive(c) ==
    LET t == job[c].id IN
    /\ job[c].pc = "archive"
    /\ StillRegistered(c)
    /\ archive' = [archive EXCEPT ![t] = "preparing"]
    /\ job' = [job EXCEPT ![c].pc = "archiveLock"]
    /\ UNCHANGED <<managerVars, lifecycleMu, metadataSaveMu, deleteInProgress, processVars,
                   storeVars, queueVars, changes, exit, closeVars, history>>

\* clearArchivePreparation and the deferred unlocks.
AbandonArchive(c) ==
    LET t == job[c].id IN
    /\ archive' = [archive EXCEPT ![t] = "none"]
    /\ lifecycleMu' = Release(lifecycleMu, t)
    /\ metadataSaveMu' = IF metadataSaveMu[t] = c THEN Release(metadataSaveMu, t)
                                                  ELSE metadataSaveMu
    /\ job' = [job EXCEPT ![c] = Idle]

\* lockMetadataSaveEntryContext, then the second check under Manager.mu and
\* the snapshot that will be saved.
LockForArchive(c) ==
    LET t == job[c].id IN
    /\ job[c].pc = "archiveLock"
    /\ Free(metadataSaveMu, t)
    /\ StillRegistered(c)
    /\ metadataSaveMu' = [metadataSaveMu EXCEPT ![t] = c]
    /\ job' = [job EXCEPT ![c].pc = "archiveReserve", ![c].after = Archived(metadata[t])]
    /\ UNCHANGED <<managerVars, lifecycleMu, deleteInProgress, archive, processVars, storeVars,
                   queueVars, changes, exit, closeVars, history>>

\* The manager closes, or the caller's context ends while it waits.
ArchiveNotLocked(c) ==
    /\ job[c].pc = "archiveLock"
    /\ ~StillRegistered(c) \/ ArchiveCancels
    /\ AbandonArchive(c)
    /\ UNCHANGED <<managerVars, deleteInProgress, processVars, storeVars, queueVars, changes,
                   exit, closeVars, history>>

\* The reservation is made outside Manager.mu, so the queue may be sealed.
ReserveArchive(c) ==
    /\ job[c].pc = "archiveReserve"
    /\ Queue!Reserve
    /\ job' = [job EXCEPT ![c].pc = "archiveSave", ![c].ticket = storeSequence']
    /\ UNCHANGED <<managerVars, entryVars, processVars, storeVars, changes, exit, closeVars,
                   history>>

ArchiveSealedOut(c) ==
    /\ job[c].pc = "archiveReserve"
    /\ storeSealed
    /\ AbandonArchive(c)
    /\ UNCHANGED <<managerVars, deleteInProgress, processVars, storeVars, queueVars, changes,
                   exit, closeVars, history>>

\* The context ends while the save waits for its predecessor.
ArchiveCancelled(c) ==
    /\ ArchiveCancels
    /\ job[c].pc = "archiveSave"
    /\ Queue!Cancel(job[c].ticket)
    /\ AbandonArchive(c)
    /\ UNCHANGED <<managerVars, deleteInProgress, processVars, storeVars, changes, exit,
                   closeVars, history>>

ArchiveSaved(c) ==
    /\ job[c].pc = "archiveSaving"
    /\ Queue!Finish(job[c].ticket)
    /\ Write(job[c].id, job[c].ticket, job[c].after)
    /\ job' = [job EXCEPT ![c].pc = "archiveCommit"]
    /\ UNCHANGED <<managerVars, entryVars, processVars, changes, exit, closeVars, history>>

ArchiveNotSaved(c) ==
    /\ job[c].pc = "archiveSaving"
    /\ Queue!Finish(job[c].ticket)
    /\ WriteFails
    /\ AbandonArchive(c)
    /\ UNCHANGED <<managerVars, deleteInProgress, processVars, changes, exit, closeVars, history>>

\* The row is written: release the watcher and end the process.
CommitArchive(c) ==
    LET t == job[c].id IN
    /\ job[c].pc = "archiveCommit"
    /\ archive' = [archive EXCEPT ![t] = "succeeded"]
    /\ terminated' = terminated \cup {t}
    /\ job' = [job EXCEPT ![c].pc = "archiveReap"]
    /\ UNCHANGED <<managerVars, lifecycleMu, metadataSaveMu, deleteInProgress, process, watcher,
                   storeVars, queueVars, changes, exit, closeVars, history>>

ArchiveReaped(c) ==
    LET t == job[c].id IN
    /\ job[c].pc = "archiveReap"
    /\ watcher[t] = "done"
    /\ sessions' = sessions \ {t}
    /\ archived' = archived \cup {t}
    /\ archive' = [archive EXCEPT ![t] = "done"]
    /\ changes' = Append(changes, [kind |-> "deleted", id |-> t, outcome |-> "emitted"])
    /\ lifecycleMu' = Release(lifecycleMu, t)
    /\ metadataSaveMu' = Release(metadataSaveMu, t)
    /\ job' = [job EXCEPT ![c] = Idle]
    /\ UNCHANGED <<metadata, closing, creating, deleteInProgress, processVars, storeVars,
                   queueVars, exit, closeVars, history>>

Archive(c) ==
    \/ \E t \in Terminal : LockLifecycle(c, t, "archive")
    \/ PrepareArchive(c)
    \/ LockForArchive(c)
    \/ ArchiveNotLocked(c)
    \/ ReserveArchive(c)
    \/ ArchiveSealedOut(c)
    \/ ArchiveCancelled(c)
    \/ EnterPersist(c, "archiveSave", "archiveSaving")
    \/ ArchiveSaved(c)
    \/ ArchiveNotSaved(c)
    \/ CommitArchive(c)
    \/ ArchiveReaped(c)

-----------------------------------------------------------------------------
(* The process and its watch goroutine *)

\* A shell ends on its own or because terminate() asked it to.
ProcessExits(t) ==
    /\ process[t] = "running"
    /\ process' = [process EXCEPT ![t] = "exited"]
    /\ UNCHANGED <<managerVars, entryVars, terminated, watcher, storeVars, queueVars, changes,
                   job, exit, closeVars, history>>

WatcherMoves(t, to) == watcher' = [watcher EXCEPT ![t] = to]

\* An archive is being prepared: wait for its outcome.
WatchDefersToArchive(t) ==
    /\ watcher[t] = "waiting" /\ process[t] = "exited"
    /\ ArchiveInProgress(t)
    /\ WatcherMoves(t, "archiveReady")
    /\ UNCHANGED <<managerVars, entryVars, process, terminated, storeVars, queueVars, changes,
                   job, exit, closeVars, history>>

\* archiveReady is closed: done if the archive succeeded, else look again.
AfterArchive(t) == IF archive[t] = "none" THEN "waiting" ELSE "done"

WatchArchiveReady(t) ==
    /\ watcher[t] = "archiveReady"
    /\ archive[t] # "preparing"
    /\ WatcherMoves(t, AfterArchive(t))
    /\ UNCHANGED <<managerVars, entryVars, process, terminated, storeVars, queueVars, changes,
                   job, exit, closeVars, history>>

\* Faults: the watcher steps aside for Close only, or for Delete only.
ExpectedByClose(t)  == closing
\* Delete owns the terminal, or the manager closes: nothing to record.
ExitExpected(t) == t \in deleteInProgress \/ closing

WatchStandsBack(t) ==
    /\ watcher[t] = "waiting" /\ process[t] = "exited"
    /\ ~ArchiveInProgress(t)
    /\ ExitExpected(t)
    /\ WatcherMoves(t, "done")
    /\ UNCHANGED <<managerVars, entryVars, process, terminated, storeVars, queueVars, changes,
                   job, exit, closeVars, history>>

\* An ordinary exit: remove the entry, draw a change, reserve the save.
WatchRemoves(t) ==
    /\ watcher[t] = "waiting" /\ process[t] = "exited"
    /\ ~ArchiveInProgress(t)
    /\ ~ExitExpected(t)
    /\ t \in sessions
    /\ sessions' = sessions \ {t}
    /\ changes' = NextChange("deleted", t)
    /\ Queue!Reserve
    /\ exit' = [exit EXCEPT ![t] = [ticket |-> storeSequence', change |-> ChangeNumber]]
    /\ WatcherMoves(t, "save")
    /\ UNCHANGED <<archived, metadata, closing, creating, entryVars, process, terminated,
                   storeVars, job, closeVars, history>>

WatchEntersPersist(t) ==
    /\ watcher[t] \in {"save", "saveAgain"}
    /\ Queue!Start(exit[t].ticket)
    /\ WatcherMoves(t, IF watcher[t] = "save" THEN "saving" ELSE "savingAgain")
    /\ UNCHANGED <<managerVars, entryVars, process, terminated, storeVars, changes, job, exit,
                   closeVars, history>>

\* Fault: one attempt only.
GivesUp(t) == "publish"

\* persistExitedMetadata tries twice.
AfterFailedSave(t) == IF watcher[t] = "saving" THEN "retry" ELSE "publish"

WatchSaves(t) ==
    /\ watcher[t] \in {"saving", "savingAgain"}
    /\ Queue!Finish(exit[t].ticket)
    /\ \/ /\ Write(t, exit[t].ticket, Exited(metadata[t]))
          /\ WatcherMoves(t, "publish")
       \/ /\ WriteFails
          /\ WatcherMoves(t, AfterFailedSave(t))
    /\ UNCHANGED <<managerVars, entryVars, process, terminated, changes, job, exit, closeVars,
                   history>>

WatchRetries(t) ==
    /\ watcher[t] = "retry"
    /\ \/ /\ Queue!Reserve
          /\ exit' = [exit EXCEPT ![t].ticket = storeSequence']
          /\ WatcherMoves(t, "saveAgain")
       \/ /\ storeSealed
          /\ WatcherMoves(t, "publish")
          /\ UNCHANGED <<exit, queueVars>>
    /\ UNCHANGED <<managerVars, entryVars, process, terminated, storeVars, changes, job,
                   closeVars, history>>

\* The record stays available in memory whether or not it was saved.
WatchPublishes(t) ==
    /\ watcher[t] = "publish"
    /\ archived' = archived \cup {t}
    /\ changes' = Completed(exit[t].change, "emitted")
    /\ WatcherMoves(t, "done")
    /\ UNCHANGED <<sessions, metadata, closing, creating, entryVars, process, terminated,
                   storeVars, queueVars, job, exit, closeVars, history>>

Watch(t) ==
    \/ WatchDefersToArchive(t)
    \/ WatchArchiveReady(t)
    \/ WatchStandsBack(t)
    \/ WatchRemoves(t)
    \/ WatchEntersPersist(t)
    \/ WatchSaves(t)
    \/ WatchRetries(t)
    \/ WatchPublishes(t)

-----------------------------------------------------------------------------
(* Close and finishClose *)

BeginClose ==
    /\ "close" \in Operations
    /\ closer = "open"
    /\ closer' = "waitCreates"
    /\ closing' = TRUE
    /\ UNCHANGED <<sessions, archived, metadata, creating, entryVars, processVars, storeVars,
                   queueVars, changes, job, exit, closeItems, history>>

\* Fault: Close does not wait for the creates under way.
CreatesIgnored == TRUE

CreatesDone == creating = {}

\* createsDone is closed: seal the queue and collect the entries.
SealStore ==
    /\ closer = "waitCreates"
    /\ CreatesDone
    /\ Queue!Seal
    /\ closeItems' = sessions
    /\ closer' = "terminate"
    /\ UNCHANGED <<managerVars, entryVars, processVars, storeVars, changes, job, exit, history>>

TerminateSessions ==
    /\ closer = "terminate"
    /\ terminated' = terminated \cup closeItems
    /\ closer' = "reap"
    /\ UNCHANGED <<managerVars, entryVars, process, watcher, storeVars, queueVars, changes, job,
                   exit, closeItems, history>>

EnterStoreClose ==
    /\ closer = "reap"
    /\ \A t \in closeItems : watcher[t] = "done"
    /\ Queue!Start(closeOperation)
    /\ closer' = "closingStore"
    /\ UNCHANGED <<managerVars, entryVars, processVars, storeVars, changes, job, exit,
                   closeItems, history>>

CloseStore ==
    /\ closer = "closingStore"
    /\ Queue!Finish(closeOperation)
    /\ closer' = "closed"
    /\ UNCHANGED <<managerVars, entryVars, processVars, storeVars, changes, job, exit,
                   closeItems, history>>

FinishClose == SealStore \/ TerminateSessions \/ EnterStoreClose \/ CloseStore

-----------------------------------------------------------------------------

Call(c) == Create(c) \/ Mutation(c) \/ Delete(c) \/ Archive(c)

Next ==
    \/ \E c \in Client : Call(c)
    \/ \E t \in Terminal : ProcessExits(t) \/ Watch(t)
    \/ BeginClose
    \/ FinishClose
    \/ Restart

\* Goroutines that can move do move, store calls return, and a process that
\* was told to end does (terminate sends SIGKILL).  Nobody is obliged to call
\* the manager, to close it, or to end a context.
Fairness ==
    /\ \A c \in Client : WF_vars(job[c] # Idle /\ Call(c))
    /\ \A t \in Terminal : WF_vars(Watch(t)) /\ WF_vars(t \in terminated /\ ProcessExits(t))
    /\ WF_vars(FinishClose)

SafetySpec == Init /\ [][Next]_vars
Spec == SafetySpec /\ Fairness

-----------------------------------------------------------------------------

JobState == {"idle", "createSave", "createSaving", "register", "announce", "cleanup",
             "cleaningUp", "discard", "rename", "updateAgent", "renameSave", "renameSaving",
             "updateSave", "updateSaving", "rollback", "delete", "remove", "dropOperation",
             "droppingOperation", "deleteRow", "deletingRow", "reap", "reapFailed",
             "deleteFailed", "archive", "archiveLock", "archiveReserve", "archiveSave",
             "archiveSaving", "archiveCommit", "archiveReap"}

TypeOK ==
    /\ sessions \subseteq Terminal /\ archived \subseteq Terminal
    /\ metadata \in [Terminal -> Row]
    /\ closing \in BOOLEAN
    /\ creating \subseteq Client
    /\ lifecycleMu \in [Terminal -> Client \cup {None}]
    /\ metadataSaveMu \in [Terminal -> Client \cup {None}]
    /\ deleteInProgress \subseteq Terminal
    /\ archive \in [Terminal -> {"none", "preparing", "succeeded", "done"}]
    /\ process \in [Terminal -> {"absent", "running", "exited"}]
    /\ terminated \subseteq Terminal
    /\ watcher \in [Terminal -> {"off", "waiting", "archiveReady", "save", "saving", "retry",
                                 "saveAgain", "savingAgain", "publish", "done"}]
    /\ rows \in [Terminal -> Row]
    /\ rowWriter \in [Terminal -> 0..MaxReservations]
    /\ failures \in 0..MaxFailures
    /\ Queue!QueueTypeOK
    /\ changes \in Seq([kind : {"created", "updated", "deleted"}, id : Terminal,
                        outcome : {"pending", "emitted", "skipped"}])
    /\ job \in [Client -> [pc : JobState, id : Terminal \cup {None},
                           ticket : 0..MaxReservations, change : 0..Len(changes),
                           before : Row, after : Row]]
    /\ exit \in [Terminal -> [ticket : 0..MaxReservations, change : 0..Len(changes)]]
    /\ closer \in {"open", "waitCreates", "terminate", "reap", "closingStore", "closed"}
    /\ closeItems \subseteq Terminal
    /\ deleted \subseteq Terminal
    /\ restarts \in 0..MaxRestarts
    /\ calls \in 0..MaxCalls

(* Memory and database *)

\* "metadataSaveMu keeps a terminal's in-memory mutation, persistence, and
\* rollback as one transaction": whenever nobody owns the mutex of a
\* registered terminal, the database holds what every reader sees.
UnlockedMemoryIsStored ==
    \A t \in sessions : metadataSaveMu[t] = None => rows[t] = metadata[t]

\* A row is never overwritten by a store operation reserved before the one
\* that wrote it: deletions and exits are not undone by older saves.
NoStaleWrite ==
    [][\A t \in Terminal : restarts' = restarts => rowWriter'[t] >= rowWriter[t]]_vars

\* A terminal whose Delete returned nil is gone: no row brings it back when
\* the program starts again.
DeletedStaysDeleted ==
    \A t \in deleted : t \notin sessions /\ rows[t] = NoRow

\* The exit of a process is on disk when it is announced, whatever single
\* store call failed on the way.
ExitIsRecorded ==
    \A t \in archived : failures <= 1 /\ ~closing => rows[t].state = "exited"

(* Lifecycle *)

\* Archive and Delete never work on the same terminal, and what is being
\* archived is still registered: the ErrNotFound branches after the archive
\* has been saved cannot be taken.
LifecycleExclusive ==
    \A t \in Terminal : ArchiveInProgress(t) => t \in sessions /\ t \notin deleteInProgress

\* Subscribers learn of the end of a terminal once, and hear nothing more of
\* it afterwards, however Delete, archive and the exit of the process race.
RemovedOnce ==
    \A i, j \in 1..Len(changes) :
        (/\ i < j
         /\ changes[i].id = changes[j].id
         /\ changes[i].kind = "deleted" /\ changes[i].outcome = "emitted")
        => changes[j].kind = "created"

\* Close returns when no shell is left and no store operation is under way.
CloseLeavesNothing ==
    closer = "closed" =>
        /\ \A t \in Terminal : process[t] # "running"
        /\ \A n \in 1..storeSequence : Queue!Closed(n)

\* Closing is not deleting: a terminal that was registered when the store was
\* sealed is restored by the next start, unless it was being archived.
CloseKeepsTerminals ==
    \A t \in closeItems : rows[t].state = "running" \/ rows[t].archived

\* Both halves of what a Close leaves behind, and the lifecycle with its types.
CloseInv == CloseLeavesNothing /\ CloseKeepsTerminals
LifecycleInv == TypeOK /\ LifecycleExclusive /\ RemovedOnce

(* Progress *)

\* Every API call returns: the lifecycle mutex, the persistence queue, the
\* watch goroutine and Close never wait for one another in a circle.
CallsReturn == \A c \in Client : job[c] # Idle ~> job[c] = Idle

\* A Close that has begun closes the store, whatever is under way.
CloseCompletes == closing ~> ~closing \/ closer = "closed"

\* "The session manager emits ChangeDeleted when the shell exits": a terminal
\* whose process ended disappears from the manager while the store has not
\* failed, whatever Delete, archive and the exit do to one another.
ExitRemovesStoredTerminal ==
    \A t \in Terminal :
        process[t] = "exited" /\ t \in sessions ~> t \notin sessions \/ closing \/ failures > 0

\* The manager makes progress, whatever is under way.
LifecycleProgresses == CallsReturn /\ CloseCompletes /\ ExitRemovesStoredTerminal

(* Composition *)

\* The manager uses the persistence queue as the queue is meant to be used:
\* each reservation is run once, by its owner, and close is the last one.
UsesQueue == Queue!QueueInit /\ [][Queue!QueueNext]_queueVars

=============================================================================
