# Verification of euphony

euphony is a Go server that runs shells and coding agents in pseudo terminals,
keeps their metadata in SQLite, and shows them in a web application. Several
browsers, agent hooks, timers, file pollers and process exits change the same
terminals at the same time, and every browser mirrors what the server holds
while its user already edits the mirror. This directory holds TLA+ models of
both sides, the TLC configurations that check them, and TLAPS proofs about the
two queues the server rests on, about the life of a terminal from its creation
to its removal, about the status of an agent, about the selection that server
and browsers share, and about what a browser keeps of it: the list of terminals,
the inbox, the views of a pane, and the page around them.

## 1. Inventory

Server paths are below `src/internal`, web paths below `src/web/src`.
`PROJECT.json` lists the same components with their status, and the hazards with
their lines.

### Server

| component | state | operations and interactions | what makes it correct |
|---|---|---|---|
| session manager, persistence queue (`session/manager.go`) | `storeSequence`, `storeTail`, `storeSealed`, one `done` channel per operation | `reserveStoreOperation`, `runStoreOperation(Context)`; sealed by `finishClose`; used by every save | writes reach SQLite in reservation order; close is the last; nobody waits for ever |
| session manager, change delivery | `changeSequence`, `changeCompletions`, `changeDeliverySequence`, `changeDeliveryActive` | `nextChangeLocked`, `emitChange`, `skipChange`, `completeChange`; calls the handler of `control` | the handler sees changes in order, once, from one goroutine at a time, and none is stranded |
| session manager, terminal lifecycle | `sessions`, `archived`, `closing`, `activeCreates`; per entry `lifecycleMu`, `metadataSaveMu`, `deleteInProgress`, the archive hand-shake | `create`, `Rename`, `UpdateAgent`, `Delete`, `archiveAgentSession`, `watch`, `Close`, restart | memory and rows agree; a terminal ends once; deleted terminals stay deleted; every call returns |
| session manager, agent status | `entry.metadata`, three watches per entry | hooks, grace timer, transcript pollers, Ctrl-C, acknowledgement | the newest hook wins; no status outlives its turn; unread attention stays |
| metadata refresh, working directory, titles | versions, refresh hand-shake | `RefreshMetadata`, `UpdateCWD`, title readers | single flight; stale samples are dropped |
| SQLite store (`session/sqlite_store.go`) | rows | `Save`, `Delete`, `Load` | each call is atomic; it may fail |
| output stream and resize (`session/session.go`) | history, subscriber queues | `publish`, `subscribe`, `Resize` | replay and live output meet without a hole; slow clients are dropped, not waited for |
| WebSocket, flow control, size, tickets (`server/terminal*.go`) | output gate, size groups, tickets | pause and resume, `report`, `release`, `consume` | the smallest claim decides the size; paused output continues; a ticket works once |
| selection service and event hub (`control/service.go`, `events.go`, `selection`) | selection, revision, subscribers | `ApplySelection`, `handleSessionChange`, `publish` | the selection names existing terminals; every change has a revision and an event |
| agent summaries (`agentsummary`, `server/agent_summaries.go`) | `inflight`, `pending`, stored summaries | generate, save, Done, options | the newest state is summarised; Done stays |
| resuming a session (`server/all_sessions.go`) | handlers under way | look for the terminal, start it, list archived rows | a session runs once |
| transcripts (`agentlog`) | files that grow | pages with cursors, `CodexActivitySince` | pages meet; a group of records is not cut |
| reviews, projects (`annotation`, `project`) | small stores | create, complete, cancel, reorder | rows and memory agree |
| git changes, workspace files | none | a snapshot or a listing per request | – |
| automation and agents (`control/terminal.go`, `agent.go`) | locks and gates per terminal | `RunTerminalAutomation`, `WaitAgent`, `WaitOutput` | automation excludes other input |
| hook reporter, setup, command line, macOS application | – | wiring and I/O | – |

### Web application

| component | state | operations and interactions | what makes it correct |
|---|---|---|---|
| shared selection (`App.tsx`) | selected and focused terminals, revision, signature of the last server state, one write, answers on their way | clicks, closes, creations; writes with conflict and retry; poll, events | edits reach the server; corrections keep what others did; browser and server converge |
| filters (`App.tsx`, `sessionUtils.ts`) | status and directory filters, pins, the ten-second timers | checkboxes, pins, focus, snapshots | the page predicts what the server will resolve; a match that ended leaves in time |
| session list (`App.tsx`) | `sessions`, the order being saved, launches being verified | poll, events, drags, creation, deletion | no old list undoes a drag; no false alarm; the list settles |
| agent inbox (`App.tsx`, `AgentsView.tsx`) | the cache of summaries, the event stream | load, events, Done, options | a newer copy is never replaced by an older one |
| terminal view (`TerminalView.tsx`, `terminalFlowControl.ts`) | connection, batch, bytes in xterm, queries being replayed, claim of a size | connect, replay, write, pause, resize | output is handed over in order, complete and once |
| pane (`TerminalPane.tsx`, `AnnotationView.tsx`) | one or two sources, the current review, notes | tabs, split, review events | the current review is shown; notes are not lost |
| agent log view, files view, git changes view | pages, tree, snapshot, requests under way | polls, "Load more", refresh, clicks | an old answer never replaces a newer one |
| settings (`App.tsx`, `SessionNavigation.tsx`) | what shows, drafts, requests in flight | load, form, sidebar | a failed save is rolled back; the form never sends what is invalid |
| pane carousel and hidden views (`PaneCarousel.tsx`) | offset, manual navigation, mounted views | scroll, resize, focus | the focused pane shows; recent views stay mounted |
| project sidebar (`ProjectSidebar.tsx`, `projectSidebarUtils.ts`) | drag, optimistic order, dialog | drag, reorder, create | groups keep the order of the list; the order agrees with the server |
| archived and all sessions (`App.tsx`, `AllSessionsDialog.tsx`) | rows, loading flags, requests | show, archive, resume | no row for what runs; loading ends |
| palette, dialogs, info card | what they showed when they opened | search, run, delete, rename, hover | what is confirmed is what was meant |

What is hard here. The manager never holds `Manager.mu` during I/O, so every
operation is cut into critical sections with store calls in between, and others
run in the gaps. Writes are serialised by a queue of channels whose waiting
callers may give up. Announcements are numbered in one goroutine and delivered
by another. An aborted Codex turn sends no hook, so the status depends on
pollers that hooks cancel and failed saves restore. In the browser every
`await` is such a gap: effects, timers and handlers run between a request and
its answer, answers come in any order, and most state is shown before the
server agreed to it.

## 2. Modules

| module | models | state ↔ code | actions ↔ code |
|---|---|---|---|
| `StoreQueue` | the persistence queue | `phase[n]` is the progress of operation n: its `done` channel is open in `waiting` and `running`, closed in `persisted` and `cancelled` | `Reserve`, `Seal` are the critical sections of `reserveStoreOperation` and `finishClose`; `Start`, `Finish`, `Cancel` are the receive, the return and the `ctx.Done()` branch of `runStoreOperationContext` |
| `TicketOrder` | abstract promise: numbers issued and served one by one in order, all of them eventually | – | – |
| `ChangeDelivery` | numbering and delivery of changes, re-entrant handlers, roll-backs | the manager fields of the same names; `deliver[n]` is the outcome recorded for n | `NextChange`, `Complete…`, `TakeNext`, `CallHandler`, `HandlerReturns` follow `completeChange` unlock by unlock |
| `SessionLifecycle` | creation, mutation, removal, exit, close and restart, composed with `StoreQueue` by INSTANCE | manager and entry fields of the same names; `rows` is SQLite; `process`, `watcher` the shell and its watch goroutine; `job[c]` the local state of call c | one action per critical section or store call of `create`, `Rename`, `applyAgentUpdate`, `Delete`, `archiveAgentSession`, `watch`, `finishClose` |
| `AgentStatus` | the status of one Codex terminal | `metadata` the published status, attention mark and process name; `installed` the three watches; `proc` the goroutines; `codex`, `turn`, `transcript` the external agent | hooks, `applyAgentUpdate`, `deferBlockedStatus`, the three watches, `WriteTerminal`, `AcknowledgeAttention`, `updateForegroundProcessName` |
| `SharedSelection` | one browser in detail, the server with its revisions, other clients, and the network between them | the React state and refs of the selection; `write`, `closing`, `creating` the requests under way; `events`, `answers` what is on its way | clicks, the write effect, `ServerWrites`, conflict and retry, closes with corrections, creations, polls, events, resubscription |
| `WorkspaceFilters` | why a terminal is selected: clicks, pins, filters, the grace period, on both sides | the sources the server stores and those the page shows; one timer per terminal | the handlers of filters and pins, snapshots, timers, changes of a status, other clients |
| `SessionLists` | the list of terminals | `shown`, `desired`/`committed` of the `SidebarOrderSync`, lists asked for, launches | polls, events, drags, `ReorderCurrent`, creation, deletion, verification of a launch |
| `AgentInbox` | the summaries in server, hub and browser | the summaries of both sides, the bounded queue of the subscriber, loads, clicks | generation, deletion, load, stream, lag, reconnect, Done, options |
| `TerminalPane` | tabs, split and review | `source`, `secondarySource`, the review on both sides, requests | tabs, drags, events, completion, cancellation |
| `AgentLog` | the log tab and the pages of a growing transcript | the page with its cursors, the requests under way | poll, "Load more", relink, hide; the server's paging |
| `WorkspaceFiles` | tree, search, file, preview, download | per request the refresh it belongs to; object URLs that are alive | the effects and handlers of `WorkspaceFilesView.tsx` |
| `GitChanges` | the diff that is polled | snapshot, selection, request or timer | `load`, its timer, the effect, the choice of a file |
| `TerminalStream` | output from the process to xterm | history, subscriber queue, frames, batch, xterm's backlog, gate | `publish`, `subscribe`, frames, pause and resume, replay, reconnect |
| `TerminalSizes` | the shared size | claims, the group with its apply function, the process's size | capacity reports, `report`, `release`, hide, disconnect |
| `SettingsForm`, `PaneRail`, `ProjectGroups`, `SavedSessions`, `PageOverlays` | the rest of the page, see above | React state and refs under the source's names | one action per handler, effect, answer |
| `PaneViews`, `Workspace`, `MCManagerQueues` | compositions, see below | `studied` | – |
| `Absence` | the value that stands for "nothing" | – | – |
| `Rows` | rows of the page: keeping, dropping, moving and ordering items | – | `reorderItemsByIDs`, the drags of the sidebar |
| `MC…` | TLC instances | | |
| `ManagerQueuesProofs`, `SharedSelectionProofs`, `AgentProofs`, `SessionLifecycleProofs`, `PaneViewsProofs`, `SessionListsProofs`, `RowsProofs`, `WorkspaceProofs` | theorems | | |

How the abstraction is drawn.

- *Server.* One step is one critical section of `Manager.mu` or one store call.
  Waiting for a per-terminal mutex and the check before it are one step: every
  caller repeats the check under `Manager.mu` once it owns the mutex, and a
  failed check has no effect. Releasing a mutex, completing a change number and
  returning are folded into the step before them.
- *Browser.* One step is one run of a handler, an effect or the code between two
  `await`s, with the render that follows: JavaScript runs it to the end. A
  request, its handling by the server and its answer are separate steps where
  something may come in between; where a module treats them as one, its header
  says so and names the module that is about the interleaving.
- In `SessionLifecycle` the metadata is two fields, one that is rolled back when
  its save fails (the name) and one that is not (the agent status). The branches
  of `Delete` and `archiveAgentSession` that answer `ErrNotFound` after the save
  cannot be taken; `LifecycleExclusive` is the reason and is checked. A restart
  keeps the rows and loses everything else.
- In `AgentStatus` a save is one step, because `metadataSaveMu` serialises the
  saves of a terminal. Codex is external: it runs one hook command at a time and
  waits for it, an abort fires no hook, and every transcript record names its
  turn. These are the assumptions `setup.go` and `codex_status.go` make.
- Output is numbered chunks, a transcript is records, a size is one number, a
  terminal is its number, and settings are one representative of each kind of
  field.
- Compositions. `SessionLifecycle` runs `StoreQueue` inside it (`UsesQueue` checks
  the refinement), and `SharedSelection` has both ends of the protocol.
  `MCManagerQueues`, `PaneViews` and `Workspace` collect components that share no
  variable; a behaviour studies one of them (`studied`) while the others rest.
  Interleaving them would add states and no behaviour that a property of one
  part could see.
- Definitions marked "Fault" are variants of an operator with one plausible bug.
  No specification uses them; a property has to notice when one replaces the
  original.

## 3. Runs

All bounds are constants of the `.cfg` files. Deadlock is not checked, because
every one of these systems may rest: no user is obliged to act. Liveness
properties take over that role.

| run | question | instance | result |
|---|---|---|---|
| `manager_queues` | Does the store queue order writes when callers may give up, and is delivery ordered, single, exactly-once and complete? Does it refine `TicketOrder`? | 7 operations, 3 of them cancellable, with neighbours on both sides; 3 goroutines and 5 changes: one drains, one completes ahead of a gap, one fills it | holds |
| `lifecycle_all` | Do memory and rows agree, do removals happen once, does Close leave nothing, is no row overwritten by an older write? | 2 terminals (one restored, one new), 2 callers, 3 calls, one failing store call | holds |
| `lifecycle_live` | Do calls return, does Close complete, do exits remove terminals, is the queue used as specified? | 2 terminals, 2 calls, cancelled archives, one failing store call | holds |
| `lifecycle_restart` | Does a deleted terminal stay deleted over crashes? | create, delete and archive, 2 restarts, one failing store call, cancelled archives | holds |
| `status_safety` | Do timers, pollers and hooks respect each other in any order? | 1 turn, 1 tool, 2 approvals, Ctrl-C, acknowledgement, sample, failing save | holds |
| `status_live` | Does the published status follow Codex? | 2 turns, 2 approvals, 2 Ctrl-C, calm interrupts, prompt installation | holds |
| `selection_sync` | Do edits reach the server, do corrections keep what others did, do both sides converge? | 4 terminals (3 at the start), 2 edits, 2 other acts, at most 3 together, 2 events and 1 answer on their way | holds |
| `workspace` | Does the page predict the server's selection? Are the settings, the carousel, the sidebar, the saved sessions and the overlays consistent? | filters: 3 terminals in 2 directories, 5 steps; form: 3 edits, 2 saves, 1 refusal; rail: 3 panes, window of up to 3, 1 hidden view; sidebar: 3 projects, 4 terminals, 5 drags; 2 agent sessions, 2 resumes; overlays: 2 shells, 4 gestures | holds |
| `session_lists` | Does no list undo a drag or raise a false alarm, is the last drag the one that is saved, and does the list settle? | 3 terminals (a drag is not only a swap), 2 attempts, 2 lists on their way, 2 acts, 1 event | holds |
| `agent_inbox` | Does no deleted summary come back, and does the inbox show exactly what the server has once its events are heard? | 1 terminal, 3 generations, a queue of 1 event, 1 break, 1 click | holds |
| `pane_views` | Do the views of a pane show what is current, hand output over once and in order, and catch up? | 2 reviews; 2 transcripts of 5 and 4 records in pages of 2; 2 nested folders and 2 files; 2 paths, 2 changes; 4 chunks with retention, queue and frames of 2; 2 views with 2 sizes | holds |
| `terminal_sizes_leave` | … is the size the smallest one claimed after the first browser left? | 2 views, 2 sizes | violated |

`WorkspaceInv`, `ViewsInv`, `SelectionInv`, `ListsInv`, `InboxInv`, `StatusInv` and
`LifecycleInv` are conjunctions of named parts, each stated and commented in the
module it belongs to. The parts of `WorkspaceInv` are: `PinsHold`,
`StaleMatchLeaves` (filters); `ShortcutsDiffer`, `BarFollows`, `SettingsSaved`;
`FocusShows`, `RecentViewsKept` (rail); `GroupsKeepOrder`, `ProjectsAgree`
(sidebar); `RunsOnce`, `ArchiveShown`, `LoadingEnds` (saved sessions);
`RecentsRunnable`, `DeletesAreMeant`, `NamesAgree`, `CardIsAttended` (overlays). The
parts of `ViewsInv` are listed at its definition in `PaneViews`.

Why the bounds are enough. Each server hazard needs two actors on one terminal,
and a second terminal only to separate two writes in the queue; three calls let
one call be overtaken by a second while a third is cancelled. One failing store
call reaches every error path; two would only combine failures. Two turns and
two approvals let a watch of an older state meet a newer one. In the browser an
anomaly needs an answer that was asked for before something happened and comes
after it, hence two requests of a kind in flight, one edit that overtakes them
and one failure; transcripts are long enough for three pages; chunks are enough
to fill retention, queue, frame and high-water mark and still have one left;
three panes in a window of one to three cover every position of the focus. Each
limit of the code is reached by its bound (`Retained`, `QueueLimit`, `FrameLimit`,
`HighWater`, `Attempts`, `RecentLimit`, `MaxCached`). `InvalidLimit` is 2 where the
code has 3, so that the last and the last but one are distinct. Symmetry is
used in the safety run of the lifecycle only.

### What the violated run says of the code

`terminal_sizes_leave`: a size group keeps the function of its first subscriber,
which resizes under the context of that subscriber's connection
(`server/terminal.go:84`, `terminal_size.go:54`). Once it has left, every resize
for the remaining browsers fails. The process keeps a size nobody claims, and
the connections that ask for another are closed. The passing run has
`NeverTooLarge` and `Settles` instead, which hold in spite of it.

### What the constants of the passing runs leave out

The passing runs would be violated without these restrictions, each of which
names a behaviour the code has.

- `lifecycle_all` has no `updateAgent`: `applyAgentUpdate` does not roll back when
  its save fails, which violates `UnlockedMemoryIsStored`. With two failing calls
  `Rename` violates it as well, when its entry was removed by a `Delete` that
  fails later: the roll-back is skipped and the unsaved name is registered again.
- `lifecycle_all` has no cancelled archives either. `runStoreOperationContext`
  closes the `done` channel of an operation whose context ended while its
  predecessor was still running (`manager.go:3511`); the successor then persists
  before older writes, which violates `NoStaleWrite` and `CloseLeavesNothing`.
  `OrderUnlessCancelled` states the order that is left.
- `lifecycle_restart` has no mutations. `Delete` reserves its store operation in
  one critical section and removes the entry in the next (`manager.go:3292`); a
  rename that comes in between saves after the delete and brings the row back.
- `ExitRemovesStoredTerminal` is about a store that has not failed: after a failed
  `store.Delete` the entry is registered again, but if the shell has exited
  meanwhile its watcher is gone (`manager.go:3341`).
- `ExitIsRecorded` is about at most one failure and a manager that is not
  closing: the exit watcher tries twice, and its second reservation is refused
  once the queue is sealed, so the row may stay `running` and the terminal is
  restored at the next start.
- `CalmInterrupts = TRUE`: Ctrl-C is pressed while no hook and no grace period is
  under way, and an interrupted Codex does nothing but abort. Otherwise the
  blocked status may be published after its turn was aborted, with a transcript
  offset behind the abort (`manager.go:1231`), or a hook cancels the reader of the
  abort (`manager.go:1075`); in both cases the status stays for ever.
- `PromptInstall = TRUE`: no goroutine stalls for a whole grace period between
  the end of a save and the installation of its watch. Without it a watch is
  installed over a newer blocked status with an older offset.
- `status_live` has no failing save: a failed save of an abort restores the
  status and puts the watch back, but its goroutine returns.
- `RunningEnds` exempts sessions that asked for an approval: Ctrl-C starts a watch
  only when the published status is running, and while it is blocked the
  activity poller ends at the first record, before the abort.
- No property says that an abort ends the turn it belongs to: a watch installed
  late may find the abort of the turn before.

## 4. Fairness

- `StoreQueue`, `ChangeDelivery`, `SessionLifecycle`: weak fairness of each
  goroutine that can take a step; the Go scheduler runs it, SQLite calls return,
  handlers return, and a process that was sent SIGKILL ends.
- `AgentStatus` adds that timers fire, that a tool ends, that a turn which is
  neither interrupted nor waiting for the user stops, and that an interrupted
  turn is aborted.
- `SharedSelection`: effects run, the server handles and answers each request,
  the 1.5 s poll is repeated, events are delivered or the stream is subscribed to
  again, a refused or failed write is followed by its read and its retry.
- `SessionLists`: the poll is repeated, lists are answered and taken; a drag that
  waits is saved; calls are answered or fail and a due verification runs. Each of
  these three goes on as a whole, with no promise for one list or call of it.
- `AgentInbox`: loads and refreshes are answered and applied, the stream is joined,
  read, and opened again when it ends.
- `TerminalStream`: the server accepts, writes frames and reads messages; the view
  hears frames, its flush timer fires, xterm parses, and a broken connection is
  opened again. `TerminalSizes`: each page runs and the group's lock is granted.
- `AgentLog`: the poll asks and the server answers. `GitChanges`: the timer rings,
  git answers.
- `WorkspaceFilters`, `SettingsForm`, `PaneRail`, `ProjectGroups`, `SavedSessions`,
  `PageOverlays`, `TerminalPane` and `WorkspaceFiles` have no fairness: their
  properties are safety.

These are timers that are armed again whatever happens, requests the HTTP stack
answers or fails, and callbacks of the event loop. Nothing obliges a user, an
agent to ask, another client, a context to end, a process to exit on its own, a
request to fail or the program to restart.

## 5. Proofs

`ManagerQueuesProofs` is about the two queues of the manager. Of `StoreQueue` it
proves, for every number of reservations and every set of cancellable operations:

- `QueueTypeCorrect`: `QueueTypeOK` is inductive by itself.
- `QueueOrder`: `OrderUnlessCancelled` is not inductive alone, because starting
  operation j only looks at j - 1. `ReleasedByPredecessor` (whoever has entered
  `persist()` found its predecessor closed) supplies the step: j - 1 is closed;
  unless it was cancelled it has entered itself, and the guarantee for
  (i, j - 1) closes i.
- `QueueClosesLast`: with `CloseIsNewest` (Seal reserves and seals at once) the
  order gives `CloseRunsLast`.
- `StrictOrder`: if no context can end, nothing is ever cancelled and the order
  is strict.

Of `ChangeDelivery` it proves, for every set of goroutines and every number of
changes, what follows. The invariant `DeliveryInv` relates the active flag, the
goroutine that drains, the next number to deliver and the recorded outcomes. From it
follow

- `TypeCorrect`;
- `DeliverySafe`: one drainer, and nothing stranded without one;
- `DeliveredExactly`: each outcome is respected, once;
- `DeliveryOrdered`: the handler observes increasing numbers;
- `DeliveryImplementsTickets`: every step is a step of `TicketOrder` or leaves it
  unchanged (its fairness is left to TLC).

`SharedSelectionProofs` is about every set of terminals, every choice of users,
clients and server, and any number of edits, failures, events and answers on
their way. Its invariant `IInv` has six parts: the types; what the server stores
names terminals that exist, at the revision it counts; the snapshots the page
applied are genuine; so are those on their way, where `Genuine` says that an
older snapshot has a smaller revision; a request that is being written holds no
edit newer than the page's, and what is synced was accepted before; and
`ChoiceOrLater`, which says of a close under way that the selection is still the
one the server chose, or someone wrote after it. `SelectionInv` alone is not
inductive: that a snapshot may be applied depends on the revisions of all those
still on their way. From the invariant follow

- `SelectionSafe`: nothing newer is replaced by something older, on either side;
- `EditsAreNotUndone`: an edit counts as synced only when the server took it;
- `CorrectionsReplaceTheChoice`: a correction writes over the choice of the
  server, never over a selection made later by somebody else.

For `SharedSelection` the assumption on the constants is that a non-empty set of
terminals has a least and a greatest element, which finite sets have. `Converges` is left to TLC.

`AgentProofs` is about `AgentStatus` and `AgentInbox`. Of the status it says what
holds for any number of turns, tools, approvals, keystrokes, acknowledgements,
samples and failing saves. The invariant `IInv` adds to the types and to the
properties that the runs check

- `MutexInv`: a goroutine is inside a transaction exactly when it owns
  `metadataSaveMu`, and the status and attention it published stay until it
  releases the mutex (a sample may still change the process name);
- `AttentionInv`: the snapshot that a failed save would restore shows unread
  attention too;
- `ProcInv`: while a poller publishes, its kind is not installed and the status
  is not one under which another watch of that kind would be; a timer that has
  been let through carries the newest hook;
- `InstalledInv`: the entry refers to watches of the right kind that do not
  publish, and its timer was started by the newest hook;
- `CodexInv` and `HooksInv`: the records name turns that began, and each prompt,
  tool, request and end of a turn fires one hook, which bounds `hooks`.

`NoOrphanWatch` needs `ProcInv` because a roll-back installs its watch again: had
a second poller been installed meanwhile it would be forgotten without being
cancelled. `LatestHookWins` needs `InstalledInv` and `MutexInv` because
`completeBlockedStatus` checks its watch in one critical section and applies the
update in the next. From the invariant follow `AttentionIsKept`,
`NoWatchIsForgotten` and `NewestHookWins`. The constants are assumed to be natural
numbers and the names of the three callers to be distinct and none of them a
number. `StatusFollowsCodex` is left to TLC.

`SessionLifecycleProofs` is about any number of calls, terminals, reservations,
failed store calls and restarts. Its first part says of each action which guard it had and what it changed
(`...Effect`), and in `Writers` which actions can change a variable at all; it
also proves the types. The second part has the inductive invariant `ManagerInv`,
in layers. Each layer is kept by a lemma (`...Step`) that names the layers it
needs, with one case for each action that can disturb it:

- mutexes and claims: a per-terminal mutex is held by the call that is between
  lock and unlock (`MutexInv`), and `deleteInProgress` and the archive state are
  the claims of the holder (`DeleteClaim`, `ArchiveClaim`);
- registration: a terminal that is being created is unknown to everybody else
  (`NewInv`, `AbsentInv`); a claimed entry stays until its claimant removes it
  (`HeldInv`); a watcher that removed the entry is out of reach of a delete
  (`WatchedInv`);
- the queue: the stages of Close (`CloserInv`), each ticket in the phase its owner
  believes it to be in, and no ticket with two owners (`JobTickets`,
  `WatchTickets`, `DistinctTickets`). Hence every step is one of `StoreQueue`
  (`QueueStep`), and the invariant of `StoreQueue` holds of the manager, a
  restart included;
- rows and shells: memory and the rows about to be saved (`RunningInv`), the row of
  a registered terminal (`KeptInv`), the list Close works on (`SealedInv`), and who
  owns a shell that runs unregistered (`ShellInv`);
- changes: the number a call or watcher holds is the deletion it caused, and
  nothing is said of the terminal after it (`JobChanges`, `ExitChanges`,
  `EndedInv`).

`LifecycleInv` needs nearly all of them: `RemovedOnce` alone says nothing of the
calls that still hold a number. From `ManagerInv` follow `ManagerSafe`,
`LifecycleSafe`, `TerminalsKept` and, for `MaxRestarts = 0`, `QueueUsed` (a restart
makes a new queue). Five theorems need a hypothesis, because the code does not
keep the property without it (section 3, what the constants leave out):

- `CloseSafe`, `ExitsRecorded` and `NoWriteIsStale` exclude cancelled archives, for
  which the queue persists in order. `CloseSafe` adds `ClosedShells`: creates and
  deletes that have a shell in hand hold a ticket before that of Close.
  `ExitsRecorded` adds `ExitInv`: mutations reserve their save before the watcher
  does, so that they are over when the exit is saved. `NoWriteIsStale` follows from
  the order and `WriterInv`;
- `MemoryIsStored` excludes agent updates and a second failure. `MemoryInv` says
  how row and memory differ while a rename holds the mutex, and that a delete that
  may register its terminal again has not met an unsaved name;
- `DeletedForGood` excludes mutations. `DeletedInv` says that nobody has a deleted
  terminal in hand.

The hypotheses are those of the runs that check the properties, with any number
of failures and restarts otherwise. `LifecycleProgresses` is left to TLC.

Of the Inbox `AgentProofs` says what holds for any number of terminals, generations,
deletions, events, broken streams, failed loads and requests. `InboxKnown` has

- `Connected`: an event waits only while the browser listens, and nothing follows
  the mark that it lagged;
- `NothingNewer`: what is shown, loaded, on its way, or answered to a request is a
  summary the server has or had (`Past`), and it advances only by `Advance`: a new
  generation, a mark, a removal. That an answered request is at least as new as
  what the user saw makes `Answered` harmless: if the item still is what the user
  saw and what the server has, the answer is the same (`OlderIsSame`);
- `DoneIsDone`: a generation marked done before its answer is done at the server;
- `Exact`: the last event that waits for a terminal says what the server has
  (`LastSays`); with none waiting and none missed the list shows it (`ShownIs`),
  and a load holds it for each item not touched since (`LoadIs`).

`LoadIs` also bounds what a load has of a summary that is gone by the time of the
deletion the browser heard of, because `Merged` keeps deleted summaries out by
comparing times. From the invariant follow `InboxSafe` and `ExactAlways`. The
constants are assumed to be natural numbers, with room for an event in the queue,
and `None` to be no terminal, summary or load. `ListensAgain` is left to TLC.

`PaneViewsProofs` is about four of the views of a pane, for any number of reviews,
records, chunks, browsers and faults. A step of `PaneViews` moves one view
(`ViewsMoveOne`), so that `ViewsKnow` is the conjunction of what each knows:

- `PaneKnows`, the pane. `ReviewShown` speaks of moments when no fetch runs;
  `Follows` adds what a fetch under way will bring, `NewIsUnseen` that an answer
  from before the newest review does not find that review on the screen, and
  `DoneIsOver` that a submission which the server took is not about the open one.
  `NoBlankSource` needs the count of the tabs, which `NextTab` computes modulo.
- `SizesKnown`, the shared size: types. With them `NeverTooLarge` is inductive,
  since the group sets the size to the smallest claim whenever that changes, or
  rolls the claim back. `SizesCount` bounds what is on its way: a claim that was
  rejected, is due or was sent has been paid for by a layout or a loss, or is the
  last of a few. `SizesFollow` says what the last claim of a view was for: the room
  it had, or nothing, unless another is due. With nothing on its way `SizeSettles`
  follows.
- `FilesKnow`, the files, in parts: a folder's loading mark has its request, and an
  expanded folder a mark, an error or its entries (`TreeKnown`); a search under way
  is for the text of the filter (`SearchKnown`), a file for the selected one
  (`OpenFileKnown`); the URLs alive are the preview's and a download's, and a new
  one is none of them (`URLsKnown`).
- `ChangesKnown`, the changes: one load or one timer while they are on screen.
- `LogKnows`, the log. What is shown is a stretch of the transcript (`LogKnown`), a
  poll brings what follows it (`PollKnown`), and an older page ends where the log
  starts unless the log was replaced since (`MoreKnown`). That two stretches which
  meet merge into one is `PagesMeet`: merging can be cut anywhere
  (`MergeConcat`), and merging what was compacted already is merging its records
  (`MergeCompacted`).
- What `Pairs` makes of a group needs nothing more: over the entries of a group
  (`PairsMeet`), an execution that waits for a result of its ID is the only one with
  that ID, and waits only while the group has no such result (`Met`). Every group of
  a stretch names its calls as the transcript does (`GroupsAreNamed`).
- `StreamKnown`, the output of a terminal. Every message moves the output from one
  chunk to another (`Moves`), and what was handed over, the batch, the messages on
  their way, the frames of the history and the queue of the server follow each
  other up to the last chunk written (`Ahead`, `Behind`). While history is to come
  nothing is batched (`StreamRoles`), or it would overtake the batch.
  `FramesCover` is the arithmetic of `batchTerminalHistory`, `FlattenRuns` what the
  batchers of both sides produce.
- `StreamWhole`, how a connection begins and ends. `ExitedMeansComplete` does not
  follow from the order alone: a terminal that was handed nothing is in order too.
  The first thing a terminal is handed is the size, marked with the chunk before
  the retained history (`StreamBegins`); only the close follows the exit, and
  nothing is batched after it (`StreamEnds`). From a size before the last chunk to
  the last chunk without a gap, the last chunk itself was handed over (`LastChunk`).

- `AnswersKnown`, what the terminal answers. Output is live from the chunk at which
  the server subscribed, and history before it (`ServerLive`, `ViewLive`). What the
  terminal has answered ends before what it has still to parse (`Told`, `Fed`), and
  of that it answers only what is live; so no chunk is answered twice, and none
  that an earlier connection had answered is answered when it comes as history.

From it follow `ReviewIsShown`, `SourcesAreShown`, `PaneIsKept`,
`TranscriptIsContiguous`, `SizeFitsAll`, `OutputIsInOrder` and `ExitIsLast`, and
`ViewsAreTyped`, `FilesAreCurrent`, `DiffIsPolled`, `SizeFollowsClaims`,
`CallsFindResults` and `AnswersAreNotReplayed`, and from these `ViewsSafe`, the
whole of `ViewsInv`. The assumptions are
that ids and requests are not `None`, that rooms are a finite set of numbers that
is not empty, that a history is retained and a frame has room for a chunk (the
settings keep at least 1 MiB of history; a frame has 64 KiB), and that the records
of a transcript are a sequence in which no call has the ID of a call or a result
before it (`CallsAreNamed`). The last is what the agents promise and the code relies
on: `parser.go` finds the title of a result by the ID of the call it saw last, and
`pairToolEntries` keeps one call for an ID; a call whose ID was used before would be
left without its result. `ViewsSettle` is left to TLC.

`SessionListsProofs` is about any number of terminals, snapshots on their way,
drags, requests, faults and new tokens. What an order promises is which of two
terminals comes first, so that it rests on `RowsProofs`, which is about `Rows`, by
induction over sequences: what is kept of a row, or stands behind it, keeps its order
(`Keep`, `Drop`, `Named`), and a row put in an order has the same items, none of them
twice, and agrees with that order (`InOrderKeeps`). The invariant `ListsKnown` adds to `DragStays` and `NoFalseAlarm`

- `Sorts`: no list names a terminal that was never made, so that an answer to a
  creation names one that no wish knows;
- `Saves`: an order is on its way exactly while one is to be saved, and the request
  carries the desired order unless a newer drag came;
- `Keys`: a request sent with the token of now is about a list that is on the
  screen, so that a sign-in between drag and answer does not mix two lists;
- `Asking`: at most one first load and one refresh of a start are on their way, no
  order is sent with a token before its list is there, and an answer to a
  verification that counts and lacks the terminal is no older than its end;
- `Launching`: a launch has no terminal exactly while its creation is on its way;
- `Calling`: what a creation made is shown if it is in the order to be saved, since
  the answer may come after a snapshot that has the terminal already;
- `Wishing`: the order to be saved, the answer on its way, or the server has the
  order of the last drag.

`NoFalseAlarm` needs `Turns` as well: no verification is asked for before the list
was read once after the start, or an answer from before the terminal was made
could count as its end. From them follow `ListsAlways`, `ListsSafe` and
`AlarmsAreTrue`. The bounds are assumed to be natural numbers, and `None` to be no
number, list, order, request or launch. `ListSettles` is left to TLC.

`WorkspaceProofs` is about the page around the panes, for any number of terminals,
directories, projects, agent sessions, shells and settings, and any number of clicks,
requests, faults and other clients. A step moves one part (`WorkspaceSteps`), so that
`WorkspaceKnown` is the conjunction of what is known of each:

- `FiltersKnown`. What the server stores and what the page saw last are normalized
  sources (`Normals`, `NormalizedIs`), and of an edit to be written, a launch to be
  followed and a timer that rang only one waits (`Turns`). `StaleMatchLeaves` speaks
  of moments when nothing waits; `Reasons` is what holds at every moment: a terminal
  that a filter selected matches, is pinned, has a timer that runs or rang, was
  selected by the last snapshot under the same filters, or was just clicked.
- `SettingsKnown`. `SettingsSaved` needs what requests carry (`SettingsTyped`) and,
  while saves do not overlap, that the one under way says what the server had and
  will have (`CalmKnown`).
- `RailKnown`. `FocusShows` rests on the effect that ran last (`LaidOutLast`);
  `RecentViewsKept` on the order of the mounted views, which is that in which they
  were chosen (`OpenedInOrder`), so that the views evicted are the oldest
  (`NewestFacts`).
- `GroupsKnown`. Each group is what its own drags left of it (`GroupsInOrder`):
  writing a permuted group into the places its members have changes nothing else
  (`FilledFacts`). A project numbers a terminal once (`Numbered`).
- `OrderKnown`. While nothing disturbs them, what the server has is what the page
  shows or, with an order on its way, what the page will show when that order fails,
  with the project just created behind it (`OrderAgrees`).
- `SavedKnown`. With one request at a time nothing runs the session that a request is
  starting (`OnceKnown`), and the archived rows are those of the server but for the
  act under way (`ListsKnown`).
- `OverlayKnown`. Recent actions stay those that can be run, of which the palette
  keeps the latest without repetition (`RememberedIs`); what is left of a batch was
  confirmed, and its first is gone once it was answered (`DeleteKnown`); names agree
  but for the one an answer brings (`RenameKnown`).

From it follows `WorkspaceSafe`, the whole of `WorkspaceInv`. Terminals are assumed to
be a finite set of numbers that is not empty, with `waiting` and `terminal` among the
activities; shells, standing actions and statuses to be apart, as their prefixes in
the palette make them (`App.tsx:378`); two shortcuts to exist; the other sets to be
finite, the bounds to be natural numbers, and `None` to be none of them.

`ClicksArePredicted` is `PredictionHolds`. From a click to its write only the server
and the terminals move (`PredictsStep`); a click on the current state leaves what is
`Reasoned`: chosen, pinned and matched terminals are those that show, and the pinned
filters match no others. For an unchecked terminal this is `LeftoverMatches`: what is
left of the pinned filters still matches no more than what is left of the filters.
The server's normal form of such sources selects the same terminals (`WrittenIs`). It
assumes that no activity is called `attention` (`sessionUtils.ts:72`).

Three properties of earlier versions were refuted by the attempt to prove them, and
TLC confirmed it on larger instances: a pinned directory is among the filters at
every moment (`PinsHold`), an order that fails leaves the page with the order of
the server (`ProjectsAgree`), and whatever a click on the current state shows is what
the server makes of it (`PredictionHolds`). Section 6 has the three behaviours; the
properties now say when they hold.

The assumptions are those on the constants, which TLC evaluates in the runs.
Only model-checked: all liveness (`WF`, `~>` and `ENABLED` are out of the
prover's reach).
No module uses a RECURSIVE operator; folds and recursive functions take their
place. The induction theorems of the library take an operator as a parameter,
which no prover here can instantiate, so that induction is done over a set:
`NatInduction1` and `AppendInduction` (in `RowsProofs` and, for the entries of a
transcript, in `PaneViewsProofs`), from the fact that a
non-empty set of numbers has a least member. With them the merging of log
entries, the flattening of messages and the ordering of rows are proved for every
input; what the other folds compute is left to TLC.

## 6. Behaviours the models show

Beside the violated run, modelling brought out the following. None is a property
of a run; each is a step or a restriction of the module named, and the places
are where the code has it.

Selection and filters
- A close is corrected when the snapshot it is answered with is not what was on
  the screen. The page takes that snapshot for the server's own choice of a
  replacement (`App.tsx:3599`). When the click on the closed terminal was not
  written yet, the server had nothing to replace and the snapshot is what another
  client selected, so the correction replaces a selection that the test at
  `App.test.tsx:3779` expects to stay. `CorrectionKeepsOthers` is therefore about
  closes for which the server chose.
- Focusing the pane that is focused counts an edit that is never written, so
  that snapshots are ignored until the next edit (`App.tsx:3113`).
- A terminal kept for its ten seconds stays for good when the filter is cleared
  by the server meanwhile (`App.tsx:2395`). Focusing it is refused by the server.
- The attention filter cannot be unchecked for one terminal only: no directories take
  its place (`App.tsx:2731`). A terminal that it alone selects closes at the click,
  and opens again with the answer, where the filter still matches it.
- Deselecting a terminal by its unpinned status filter drops the pinned directory
  filters of that status from the filters, although they stay pinned, when no other
  terminal of the status is in the directory (`App.tsx:2747`). The server puts them
  back when it normalizes the write.

Lists and inbox
- A terminal just created and dragged loses its place to a poll asked for before
  its creation; a load after a new token bypasses a pending order; a stale poll
  shows an old state until the next one, and can replay an alert.
- A failed first load is not repeated. A launched agent that the user deletes
  while the launch is verified is reported as exited.
- A summary event missed between the load and the stream stays missing until the
  next event of its terminal (`App.tsx:2030`).

Panes
- The tab of an older review and its notes may be carried into the next review:
  `AnnotationView` has no key. A late answer to Send hides the next review.
- "Load more" may be missing although older records exist (`AgentLogView.tsx:458`);
  a transcript left and resumed while an older page is in flight may show it
  twice or with a gap.
- A failed first fetch of some views is not repeated; "No local changes" flickers
  at each poll of a directory that is no repository.
- When the hidden cache is full, closing a selected terminal unmounts its oldest
  hidden view for one render (`App.tsx:4315`). Panes that are scrolled off are
  unmounted while deselected ones stay mounted.

Settings, projects, sessions, overlays
- Toggling the sidebar before the settings have been loaded, or after the load
  failed, writes default settings over the stored ones. Overlapping saves may
  roll back to a value that was never stored. A failed save closes the form and
  loses the drafts; an answer closes a form that was opened again.
- Projects are read once: a project of another client is unknown until the page
  is loaded again, and makes every reorder fail. A picker's answer fills a dialog
  that was closed and opened again.
- A rollback puts the projects of the last confirmed order in that order, and leaves
  the others as they are shown (`App.tsx:3550`). When two were added since and then
  dragged, the page keeps them as dragged, and the server as they were created.
- An archive during a running load of the archived list leaves the list
  incomplete; hiding the list during the request shows it again. A session
  resumed elsewhere stays in the archived rows. Two requests that resume the
  same session at once may start two terminals.
- A batch of deletions stops at its first failure. The answer to a rename lands
  on the next rename dialog when the first was closed. The default entry of the
  palette is not listed in the project view, so Enter does nothing.

## 7. Not modelled

- `AssignProject`, `pendingAgentStarts` and the running order of the lifecycle:
  single critical sections around one save, with the roll-backs of `Rename`.
- `RefreshMetadata`, `UpdateCWD` and title readers: samples of the operating system;
  one of them is a step of `AgentStatus` because it writes outside the save lock.
- Generations in flight in `agentsummary`, automation gates, `WaitAgent`,
  `WaitOutput` and tickets; `SaveSelection`, settings and summaries whose save
  fails on the server.
- Request decoding, SQL, transcript parsing, prompts and providers, git and file
  readers, setup, the hook reporter, the command line, the macOS application:
  formatting and I/O without shared state.
- Rendering, Markdown, highlighting, keyboard and text selection, scrolling, the
  prefix key, the dialog of a new terminal, resuming from a URL query, vendored
  interface components.
- Paths of `App.tsx` with `syncSelection` off, and `onDeselect`,
  `updateStatusFilter`, `updateCwdFilter`: the application never takes them.

Further hazards that no property covers, beside those of `PROJECT.json` (lines of
`session/manager.go` unless named): the failed save of an abort (1447) and the
installation of its watch (1246); writes of the process name outside the save lock
(2059); the number of a creation (587) and hooks before registration (832);
roll-backs of `AssignProject` (609) and `SetAgentSessionArchived` (3136); the
settings' store operation reserved under the lock (2483); the shared refresh
(1907) and samples of the directory (1603); resizes of the reader goroutine
(`session/session.go:361`); pending generations (`agentsummary/service.go:296`);
automation gates (`control/terminal.go:294`); tickets (`server/tickets.go:51`).
