------------------------------ MODULE AgentStatus ------------------------------
(***************************************************************************)
(* The status of one Codex terminal (src/internal/session/manager.go).     *)
(*                                                                         *)
(* Codex reports by hooks: running, blocked (a permission request) and     *)
(* waiting.  A blocked hook is not published but starts a timer; any later *)
(* hook cancels it.  An aborted turn fires no hook at all: Codex only      *)
(* appends a record to its transcript, so Ctrl-C starts a goroutine that   *)
(* polls the transcript for the abort of that turn, and a published        *)
(* blocked status starts one that polls for any later activity.  Timer,    *)
(* pollers, hooks and acknowledgements change the same metadata.           *)
(*                                                                         *)
(* A change of the metadata is a transaction under metadataSaveMu: mutate  *)
(* under Manager.mu, save, then release.  That mutex serialises the saves  *)
(* of a terminal, so the persistence queue (StoreQueue) adds nothing here  *)
(* and a save is one step.  Codex itself is external and is modelled by    *)
(* what the hooks and the transcript parser take it to do.                 *)
(***************************************************************************)
EXTENDS Naturals, Sequences, FiniteSets, SequencesExt

CONSTANTS
    MaxTurns,       \* bound on the turns of Codex
    MaxTools,       \* bound on the tools it uses
    MaxAsks,        \* bound on the approvals it asks for
    MaxInterrupts,  \* bound on the Ctrl-C keystrokes
    MaxAcks,        \* bound on the acknowledgements
    MaxSamples,     \* bound on the foreground process samples
    MaxFailures,    \* bound on failing saves
    CalmInterrupts, \* Ctrl-C is only pressed while the status is settled
    PromptInstall,  \* no goroutine stalls for a whole grace period between
                    \* the end of a save and the installation of its watch
    Hook, Viewer, Writer  \* goroutines: of the hook call, of the
                          \* acknowledgement, of the terminal input

\* Each approval starts a timer and an activity poller, each Ctrl-C a poller.
MaxWatches == 2 * MaxAsks + MaxInterrupts
Watch      == 1..MaxWatches
Proc       == Watch \cup {Hook, Viewer, Writer}

ASSUME StatusAssumption ==
    /\ {MaxTurns, MaxTools, MaxAsks, MaxInterrupts, MaxAcks, MaxSamples, MaxFailures} \subseteq Nat
    /\ {CalmInterrupts, PromptInstall} \subseteq BOOLEAN
    /\ Hook # Viewer /\ Hook # Writer /\ Viewer # Writer
    /\ {Hook, Viewer, Writer} \cap Nat = {}

VARIABLES
    \* Codex
    codex,        \* idle, working, tool (a tool runs) or asking
    turn,         \* current turn
    interrupted,  \* Ctrl-C has reached the current turn
    transcript,   \* records appended so far: their kind and turn
    \* entry
    metadata,     \* published status, attention flag and process name
    metadataSaveMu,
    installed,    \* blockedStatusWatch, codexActivityWatch, interruptWatch (0: nil)
    \* goroutines
    proc,         \* local state
    cancelled,    \* watches whose cancel() was called
    before, after,   \* snapshots of the owner of metadataSaveMu
    hooks,        \* hook updates accepted: applied or deferred
    \* SQLite and history
    stored,       \* status and attention in the row
    publishedHook,   \* history: the last hook whose update was applied
    unread,          \* history: attention saved and not acknowledged
    used          \* tools, asks, interrupts, acks, samples, failures and watches

codexVars == <<codex, turn, interrupted, transcript>>
entryVars == <<metadata, metadataSaveMu, installed>>
history   == <<publishedHook, unread>>
vars == <<codexVars, entryVars, proc, cancelled, before, after, hooks, stored, history, used>>

Kind   == {"blocked", "activity", "interrupt"}
Status == {"waiting", "running", "blocked"}

Idle == [pc |-> "idle", kind |-> "none", status |-> "none", hook |-> 0, offset |-> 0, turn |-> 0]

-----------------------------------------------------------------------------

\* A Codex session that has just reported SessionStart.
Init ==
    /\ codex = "idle"
    /\ turn = 0
    /\ interrupted = FALSE
    /\ transcript = <<>>
    /\ metadata = [status |-> "waiting", attention |-> FALSE, process |-> 0]
    /\ metadataSaveMu = 0
    /\ installed = [k \in Kind |-> 0]
    /\ proc = [p \in Proc |-> Idle]
    /\ cancelled = {}
    /\ before = metadata
    /\ after = metadata
    /\ hooks = 0
    /\ stored = [status |-> "waiting", attention |-> FALSE]
    /\ publishedHook = 0
    /\ unread = FALSE
    /\ used = [tools |-> 0, asks |-> 0, interrupts |-> 0, acks |-> 0, samples |-> 0,
               failures |-> 0, watches |-> 0]

Use(resource, bound) ==
    /\ used[resource] < bound
    /\ used' = [used EXCEPT ![resource] = @ + 1]

Ends(p)     == proc' = [proc EXCEPT ![p] = Idle]
Goes(p, to) == proc' = [proc EXCEPT ![p].pc = to]

-----------------------------------------------------------------------------
(* Codex.  It runs one hook command at a time and waits for it. *)

HookIdle == proc[Hook] = Idle

Fires(status) == proc' = [proc EXCEPT ![Hook] = [Idle EXCEPT !.pc = "arrived", !.status = status]]
Records(kind, t) == transcript' = Append(transcript, [kind |-> kind, turn |-> t])

\* No hook is under way, and no permission request awaits its publication.
Settled ==
    HookIdle /\ \A w \in Watch : proc[w].kind = "blocked" => proc[w].pc = "done"

\* A calm Codex that is interrupted does nothing but abort.
Calm == CalmInterrupts => ~interrupted /\ proc[Writer].pc # "write"

UserPromptSubmit ==
    /\ codex = "idle" /\ HookIdle /\ Calm
    /\ turn < MaxTurns
    /\ codex' = "working"
    /\ turn' = turn + 1
    /\ interrupted' = FALSE
    /\ Records("task_started", turn + 1)
    /\ Fires("running")
    /\ UNCHANGED <<entryVars, cancelled, before, after, hooks, stored, history, used>>

PreToolUse ==
    /\ codex = "working" /\ HookIdle /\ Calm
    /\ Use("tools", MaxTools)
    /\ codex' = "tool"
    /\ Fires("running")
    /\ UNCHANGED <<turn, interrupted, transcript, entryVars, cancelled, before, after, hooks,
                   stored, history>>

PermissionRequest ==
    /\ codex = "tool" /\ HookIdle /\ Calm
    /\ Use("asks", MaxAsks)
    /\ codex' = "asking"
    /\ Fires("blocked")
    /\ UNCHANGED <<turn, interrupted, transcript, entryVars, cancelled, before, after, hooks,
                   stored, history>>

\* The user, or an auto approver, lets the tool run.
Approve ==
    /\ codex = "asking" /\ HookIdle
    /\ codex' = "tool"
    /\ UNCHANGED <<turn, interrupted, transcript, entryVars, proc, cancelled, before, after,
                   hooks, stored, history, used>>

ToolEnds ==
    /\ codex = "tool" /\ HookIdle /\ Calm
    /\ codex' = "working"
    /\ Records("tool_output", turn)
    /\ UNCHANGED <<turn, interrupted, entryVars, proc, cancelled, before, after, hooks, stored,
                   history, used>>

Stop ==
    /\ codex = "working" /\ HookIdle /\ Calm
    /\ codex' = "idle"
    /\ interrupted' = FALSE
    /\ Records("task_complete", turn)
    /\ Fires("waiting")
    /\ UNCHANGED <<turn, entryVars, cancelled, before, after, hooks, stored, history, used>>

\* The turn is aborted, and no hook tells.
Abort ==
    /\ codex # "idle" /\ interrupted /\ HookIdle
    /\ codex' = "idle"
    /\ interrupted' = FALSE
    /\ Records("turn_aborted", turn)
    /\ UNCHANGED <<turn, entryVars, proc, cancelled, before, after, hooks, stored, history, used>>

\* CodexActivitySince: what the last significant record after offset says.
Activity(kind) == IF kind \in {"task_started", "tool_output"} THEN "running" ELSE "waiting"
ActivitySince(offset) ==
    IF Len(transcript) > offset THEN Activity(Last(transcript).kind) ELSE "none"

\* CodexTurnAbortedSince
TurnAbortedSince(offset, t) ==
    \E i \in offset + 1..Len(transcript) : transcript[i] = [kind |-> "turn_aborted", turn |-> t]

\* CodexTurnIDAt: every record names its turn.
TurnIDAt(offset) == IF offset = 0 THEN 0 ELSE transcript[offset].turn

-----------------------------------------------------------------------------
(* Watches and transactions *)

\* Fault: watches are forgotten without being cancelled.
CancelNothing(kinds) == {}

CancelInstalled(kinds) == {installed[k] : k \in kinds} \ {0}

\* p installs a new watch of a kind in place of the older watches of some
\* kinds, starts its goroutine and is done.
StartWatch(p, kind, replaced, local) ==
    LET w == used.watches + 1 IN
    /\ w \in Watch
    /\ used' = [used EXCEPT !.watches = w]
    /\ cancelled' = cancelled \cup CancelInstalled(replaced)
    /\ installed' = [k \in Kind |-> IF k = kind THEN w
                                    ELSE IF k \in replaced THEN 0 ELSE installed[k]]
    /\ proc' = [proc EXCEPT ![p] = Idle,
                            ![w] = [local EXCEPT !.pc = "watching", !.kind = kind]]

\* The critical section of a metadata transaction; p owns metadataSaveMu.
Mutate(p, new, to) ==
    /\ metadataSaveMu' = p
    /\ before' = metadata
    /\ after' = new
    /\ metadata' = new
    /\ Goes(p, to)

SaveSucceeds ==
    /\ stored' = [status |-> after.status, attention |-> after.attention]
    /\ unread' = after.attention
    /\ metadataSaveMu' = 0

SaveFails == Use("failures", MaxFailures) /\ UNCHANGED <<stored, unread>>

-----------------------------------------------------------------------------
(* UpdateAgent *)

\* deferBlockedStatus: neither status nor attention changes yet.
DeferBlockedStatus ==
    /\ proc[Hook].pc = "arrived" /\ proc[Hook].status = "blocked"
    /\ metadataSaveMu = 0
    /\ hooks' = hooks + 1
    /\ StartWatch(Hook, "blocked", Kind, [Idle EXCEPT !.hook = hooks + 1])
    /\ UNCHANGED <<codexVars, metadata, metadataSaveMu, before, after, stored, history>>

\* Fault: attention is assigned instead of raised.
AttentionAssigned(status) ==
    \/ metadata.status = "running" /\ status = "waiting"
    \/ metadata.status # "blocked" /\ status = "blocked"

AttentionAfter(status) ==
    \/ metadata.attention
    \/ metadata.status = "running" /\ status = "waiting"
    \/ metadata.status # "blocked" /\ status = "blocked"

\* The critical section of applyAgentUpdate.
ApplyAgentUpdate(p, status, hook) ==
    /\ cancelled' = cancelled \cup CancelInstalled(Kind)
    /\ installed' = [k \in Kind |-> 0]
    /\ Mutate(p, [metadata EXCEPT !.status = status, !.attention = AttentionAfter(status)],
              IF status = "blocked" THEN "stat" ELSE "saving")
    /\ publishedHook' = hook
    /\ UNCHANGED <<codexVars, stored, unread, used>>

ApplyHook ==
    /\ proc[Hook].pc = "arrived" /\ proc[Hook].status # "blocked"
    /\ metadataSaveMu = 0
    /\ hooks' = hooks + 1
    /\ ApplyAgentUpdate(Hook, proc[Hook].status, hooks + 1)

\* codexActivityTarget reads the size of the transcript outside Manager.mu.
StatTranscript(p) ==
    /\ proc[p].pc = "stat"
    /\ proc' = [proc EXCEPT ![p] = [@ EXCEPT !.pc = "saving", !.offset = Len(transcript)]]
    /\ UNCHANGED <<codexVars, entryVars, cancelled, before, after, hooks, stored, history, used>>

\* The save of applyAgentUpdate or of AcknowledgeAttention returned.
UpdateSaved(p) ==
    /\ proc[p].pc = "saving"
    /\ SaveSucceeds
    /\ IF p # Viewer /\ after.status = "blocked" THEN Goes(p, "install") ELSE Ends(p)
    /\ UNCHANGED <<codexVars, metadata, installed, cancelled, before, after, hooks,
                   publishedHook, used>>

\* The mutation stays in memory, and no transcript watch is started.
UpdateNotSaved(p) ==
    /\ proc[p].pc = "saving"
    /\ SaveFails
    /\ metadataSaveMu' = 0
    /\ Ends(p)
    /\ UNCHANGED <<codexVars, metadata, installed, cancelled, before, after, hooks, publishedHook>>

\* watchCodexActivity
WatchCodexActivity(p) ==
    /\ proc[p].pc = "install"
    /\ IF metadata.status = "blocked"
         THEN StartWatch(p, "activity", {"activity"},
                         [Idle EXCEPT !.offset = proc[p].offset])
         ELSE Ends(p) /\ UNCHANGED <<installed, cancelled, used>>
    /\ UNCHANGED <<codexVars, metadata, metadataSaveMu, before, after, hooks, stored, history>>

Update(p) == StatTranscript(p) \/ UpdateSaved(p) \/ UpdateNotSaved(p) \/ WatchCodexActivity(p)

UpdateAgent == DeferBlockedStatus \/ ApplyHook \/ Update(Hook)

-----------------------------------------------------------------------------
(* AcknowledgeAttention and updateForegroundProcessName *)

AcknowledgeAttention ==
    /\ proc[Viewer] = Idle
    /\ metadataSaveMu = 0
    /\ metadata.attention
    /\ Use("acks", MaxAcks)
    /\ Mutate(Viewer, [metadata EXCEPT !.attention = FALSE], "saving")
    /\ unread' = FALSE
    /\ UNCHANGED <<codexVars, installed, cancelled, hooks, stored, publishedHook>>

\* Takes Manager.mu only: it may fall into a transaction of somebody else.
UpdateForegroundProcessName ==
    /\ Use("samples", MaxSamples)
    /\ metadata' = [metadata EXCEPT !.process = 1 - @]
    /\ UNCHANGED <<codexVars, metadataSaveMu, installed, proc, cancelled, before, after, hooks,
                   stored, history>>

-----------------------------------------------------------------------------
(* WriteTerminal with a Ctrl-C *)

\* The target is taken before the input is written.
PressCtrlC ==
    /\ proc[Writer] = Idle
    /\ codex # "idle"
    /\ CalmInterrupts => Settled
    /\ Use("interrupts", MaxInterrupts)
    /\ proc' = [proc EXCEPT ![Writer] =
                  [Idle EXCEPT !.pc = "write", !.offset = Len(transcript),
                     !.turn = IF metadata.status = "running" THEN TurnIDAt(Len(transcript))
                                                             ELSE 0]]
    /\ UNCHANGED <<codexVars, entryVars, cancelled, before, after, hooks, stored, history>>

WriteInput ==
    /\ proc[Writer].pc = "write"
    /\ CalmInterrupts => Settled
    /\ interrupted' = (codex # "idle")
    /\ IF proc[Writer].turn # 0 THEN Goes(Writer, "install") ELSE Ends(Writer)
    /\ UNCHANGED <<codex, turn, transcript, entryVars, cancelled, before, after, hooks, stored,
                   history, used>>

WatchAgentInterrupt ==
    /\ proc[Writer].pc = "install"
    /\ IF metadata.status = "running"
         THEN StartWatch(Writer, "interrupt", {"interrupt"}, proc[Writer])
         ELSE Ends(Writer) /\ UNCHANGED <<installed, cancelled, used>>
    /\ UNCHANGED <<codexVars, metadata, metadataSaveMu, before, after, hooks, stored, history>>

WriteTerminal == PressCtrlC \/ WriteInput \/ WatchAgentInterrupt

-----------------------------------------------------------------------------
(* The goroutines of the watches *)

\* What the timer or poller of w would report now.
Found(w) ==
    CASE proc[w].kind = "blocked"   -> "blocked"
      [] proc[w].kind = "activity"  -> ActivitySince(proc[w].offset)
      [] proc[w].kind = "interrupt" ->
           IF TurnAbortedSince(proc[w].offset, proc[w].turn) THEN "waiting" ELSE "none"

\* The timer of awaitBlockedStatus fires, or a poller finds what it waits
\* for.  Either may win against a cancellation that has already happened.
Due(w) ==
    /\ proc[w].pc = "watching"
    /\ PromptInstall /\ proc[w].kind = "blocked" => \A p \in Proc : proc[p].pc # "install"
    /\ Found(w) # "none"
    /\ proc' = [proc EXCEPT ![w] = [@ EXCEPT !.pc = "complete", !.status = Found(w)]]
    /\ UNCHANGED <<codexVars, entryVars, cancelled, before, after, hooks, stored, history, used>>

SeesCancel(w) ==
    /\ proc[w].pc = "watching"
    /\ w \in cancelled
    /\ Goes(w, "done")
    /\ UNCHANGED <<codexVars, entryVars, cancelled, before, after, hooks, stored, history, used>>

Uninstall(kind) == installed' = [installed EXCEPT ![kind] = 0]

\* The status that matchesCodexActivity and matchesAgentInterrupt require.
Expected(kind) == IF kind = "activity" THEN "blocked" ELSE "running"

\* Fault: the timer does not check that the entry still owns its watch.
StillWantedUnchecked(w) ==
    proc[w].kind # "blocked" => /\ installed[proc[w].kind] = w
                                /\ metadata.status = Expected(proc[w].kind)

StillWanted(w) ==
    /\ installed[proc[w].kind] = w
    /\ proc[w].kind # "blocked" => metadata.status = Expected(proc[w].kind)

\* complete... gives up: another watch or hook has taken over.
StandDown(w) ==
    /\ proc[w].pc = "complete"
    /\ metadataSaveMu = 0
    /\ ~StillWanted(w)
    /\ Goes(w, "done")
    /\ UNCHANGED <<codexVars, entryVars, cancelled, before, after, hooks, stored, history, used>>

\* completeBlockedStatus checks in one critical section and applies the
\* update in the next; metadataSaveMu is held across both.
ConfirmBlocked(w) ==
    /\ proc[w].pc = "complete" /\ proc[w].kind = "blocked"
    /\ metadataSaveMu = 0
    /\ StillWanted(w)
    /\ Uninstall("blocked")
    /\ metadataSaveMu' = w
    /\ Goes(w, "apply")
    /\ UNCHANGED <<codexVars, metadata, cancelled, before, after, hooks, stored, history, used>>

PublishBlocked(w) ==
    /\ proc[w].pc = "apply"
    /\ ApplyAgentUpdate(w, "blocked", proc[w].hook)
    /\ UNCHANGED hooks

\* completeCodexActivity and completeAgentInterrupt
CompleteFromTranscript(w) ==
    /\ proc[w].pc = "complete" /\ proc[w].kind # "blocked"
    /\ metadataSaveMu = 0
    /\ StillWanted(w)
    /\ Uninstall(proc[w].kind)
    /\ Mutate(w, [metadata EXCEPT !.status = proc[w].status,
                                  !.attention = @ \/ proc[w].kind = "interrupt"],
              "completing")
    /\ UNCHANGED <<codexVars, cancelled, hooks, stored, history, used>>

CompletionSaved(w) ==
    /\ proc[w].pc = "completing"
    /\ SaveSucceeds
    /\ cancelled' = cancelled \cup {w}
    /\ Goes(w, "done")
    /\ UNCHANGED <<codexVars, metadata, installed, before, after, hooks, publishedHook, used>>

CompletionNotSaved(w) ==
    /\ proc[w].pc = "completing"
    /\ SaveFails
    /\ Goes(w, "rollback")
    /\ UNCHANGED <<codexVars, entryVars, cancelled, before, after, hooks, publishedHook>>

\* The rollback compares and restores the whole metadata, and installs the
\* watch again although its goroutine is about to return.
RollBack(w) ==
    /\ proc[w].pc = "rollback"
    /\ IF metadata = after
         THEN metadata' = before /\ installed' = [installed EXCEPT ![proc[w].kind] = w]
         ELSE UNCHANGED <<metadata, installed>>
    /\ metadataSaveMu' = 0
    /\ Goes(w, "done")
    /\ UNCHANGED <<codexVars, cancelled, before, after, hooks, stored, history, used>>

WatchRuns(w) ==
    \/ Due(w) \/ SeesCancel(w) \/ StandDown(w)
    \/ ConfirmBlocked(w) \/ PublishBlocked(w) \/ Update(w)
    \/ CompleteFromTranscript(w) \/ CompletionSaved(w) \/ CompletionNotSaved(w) \/ RollBack(w)

-----------------------------------------------------------------------------

CodexProceeds == ToolEnds \/ Stop \/ Abort

Next ==
    \/ UserPromptSubmit \/ PreToolUse \/ PermissionRequest \/ Approve \/ CodexProceeds
    \/ UpdateAgent
    \/ AcknowledgeAttention \/ UpdateSaved(Viewer) \/ UpdateNotSaved(Viewer)
    \/ UpdateForegroundProcessName
    \/ WriteTerminal
    \/ \E w \in Watch : WatchRuns(w)

\* Goroutines run, timers fire and saves return.  A tool ends, a turn that
\* is neither waiting for the user nor interrupted stops, and an interrupted
\* one is aborted.  Nobody is obliged to prompt, to approve, to press Ctrl-C
\* or to look.
Fairness ==
    /\ WF_vars(UpdateAgent)
    /\ WF_vars(UpdateSaved(Viewer) \/ UpdateNotSaved(Viewer))
    /\ WF_vars(WriteInput \/ WatchAgentInterrupt)
    /\ \A w \in Watch : WF_vars(WatchRuns(w))
    /\ WF_vars(ToolEnds) /\ WF_vars(Stop) /\ WF_vars(Abort)

SafetySpec == Init /\ [][Next]_vars
Spec == SafetySpec /\ Fairness

-----------------------------------------------------------------------------

Locations == {"idle", "arrived", "write", "watching", "complete", "apply", "stat", "saving",
              "install", "completing", "rollback", "done"}

\* Of a goroutine, when there have been h hooks, n records and t turns.
LocalState(h, n, t) ==
    [pc : Locations, kind : Kind \cup {"none"}, status : Status \cup {"none"},
     hook : 0..h, offset : 0..n, turn : 0..t]

Metadata == [status : Status, attention : BOOLEAN, process : {0, 1}]
Record   == [kind : {"task_started", "tool_output", "task_complete", "turn_aborted"},
             turn : 1..MaxTurns]

TypeOK ==
    /\ codex \in {"idle", "working", "tool", "asking"}
    /\ turn \in 0..MaxTurns
    /\ interrupted \in BOOLEAN
    /\ transcript \in Seq(Record)
    /\ metadata \in Metadata /\ before \in Metadata /\ after \in Metadata
    /\ metadataSaveMu \in Proc \cup {0}
    /\ installed \in [Kind -> Watch \cup {0}]
    /\ proc \in [Proc -> LocalState(hooks, Len(transcript), turn)]
    /\ cancelled \subseteq Watch
    /\ hooks \in 0..(MaxTurns * 2 + MaxTools + MaxAsks)
    /\ stored \in [status : Status, attention : BOOLEAN]
    /\ publishedHook \in 0..hooks
    /\ unread \in BOOLEAN
    /\ used \in [{"tools", "asks", "interrupts", "acks", "samples", "failures", "watches"} -> Nat]

\* "The transient blocked hook must not be observable": whatever the order of
\* hooks, timers and cancellations, an update is only ever applied while no
\* hook that came after it has been accepted.
LatestHookWins == [][publishedHook' # publishedHook => publishedHook' = hooks']_vars

\* Attention that has been saved is shown until somebody acknowledges it: no
\* hook, poller or rollback takes it back.
UnreadKeepsAttention == unread => metadata.attention

StatusInv == TypeOK /\ UnreadKeepsAttention

\* No poller or timer is left running once the entry has forgotten it: a
\* goroutine that still watches is the installed one or has been cancelled.
NoOrphanWatch ==
    \A w \in Watch :
        proc[w].pc = "watching" /\ w \notin cancelled => installed[proc[w].kind] = w

\* A permission request that stays open is published.
AskIsPublished ==
    codex = "asking" ~> metadata.status = "blocked" \/ codex # "asking"

\* "So a transient approval request cannot leave it stale": a terminal whose
\* turn is over does not stay blocked.
BlockedEnds ==
    metadata.status = "blocked" /\ codex = "idle" ~> metadata.status # "blocked" \/ codex # "idle"

\* "The agent remains running until Codex records that the turn was aborted",
\* and not for ever after.  A session that asked for an approval is exempt: a
\* Ctrl-C pressed while its blocked status is published starts no watch.
RunningEnds ==
    metadata.status = "running" /\ codex = "idle"
      ~> metadata.status # "running" \/ codex # "idle" \/ used.asks > 0

\* The published status follows Codex: into a request, and out of its turn.
StatusFollowsCodex == AskIsPublished /\ BlockedEnds /\ RunningEnds

=============================================================================
