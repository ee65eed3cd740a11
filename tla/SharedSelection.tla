-------------------------- MODULE SharedSelection --------------------------
(***************************************************************************)
(* The selection of terminals that every client of one server shares.      *)
(* The server holds it with a revision (src/internal/control/service.go    *)
(* and src/internal/selection); a browser mirrors it in React state, edits *)
(* it before the server knows, writes the edits back one at a time and     *)
(* takes over what others write (src/web/src/App.tsx).  One browser is     *)
(* modelled in detail; other browsers, the command line and shells that    *)
(* exit are the Other... actions.                                          *)
(*                                                                         *)
(* A selection is the set of selected terminals and the focused one.       *)
(* Filters and pins, which decide it together with the user's clicks, are  *)
(* the subject of WorkspaceFilters.                                        *)
(***************************************************************************)
EXTENDS Naturals, FiniteSets, Sequences, SequencesExt

CONSTANTS
    Terminals,      \* terminals, numbered in the order of their creation
    Existing,       \* those that exist when the page is loaded
    SidebarOrder,   \* the order the sidebar shows them in
    UserChoices,    \* selections the user of the browser clicks together
    OtherChoices,   \* selections other clients ask for
    None,           \* no terminal, no request
    MaxEdits,       \* edits of the user
    MaxActs,        \* closes, creations, acts of other clients and failures
    MaxSteps,       \* both together
    MaxEvents,      \* events on their way
    MaxAnswers      \* answers to GET on their way

Choice == [ids : SUBSET Terminals, focus : Terminals \cup {None}]

ASSUME SelectionAssumption ==
    /\ Terminals \subseteq Nat /\ Existing \in (SUBSET Terminals) \ {{}}
    /\ None \notin Terminals
    /\ \A S \in (SUBSET Terminals) \ {{}} :   \* finitely many
           \E a, b \in S : \A t \in S : a <= t /\ t <= b
    /\ UserChoices \cup OtherChoices \subseteq Choice
    /\ {MaxEdits, MaxActs, MaxSteps} \subseteq Nat
    /\ {MaxEvents, MaxAnswers} \subseteq Nat \ {0}

VARIABLES
    live,       \* terminals of the server
    stored,     \* the server's selection, with its revision
    subscribed, \* is the event stream of the browser open?
    events,     \* snapshots in the event stream
    answers,    \* snapshots that answer a GET of the poll or of a refresh
    shown,      \* selectedIDs and focusedID
    edits,      \* selectionLocalVersionRef
    synced,     \* selectionSyncedLocalVersionRef
    pending,    \* selectionPendingRequestRef
    write,      \* the request of flushSelectionWrites
    known,      \* selectionRevisionRef
    signature,  \* selectionServerSignatureRef
    changed,    \* will React run the synchronising effect?
    closing,    \* deleteSessions or archiveSession of one terminal
    creating,   \* createSession
    accepted,   \* history: the last edit the server had, by its number
    rejected,   \* history: the last write ended in an error
    refocused,  \* history: the user pressed the mouse in the focused pane
    author,     \* history: who changed the server's selection last
    acts        \* closes, creations, acts of others and failures so far

serverVars == <<live, stored>>
wireVars == <<subscribed, events, answers>>
writeVars == <<pending, write>>
mirrorVars == <<shown, known, signature, changed>>
versionVars == <<edits, synced>>
historyVars == <<accepted, rejected, refocused, author>>
vars == <<serverVars, wireVars, writeVars, mirrorVars, versionVars, closing,
          creating, historyVars, acts>>

Snapshot == [ids : SUBSET Terminals, focus : Terminals \cup {None}, rev : Nat]
Sel(s) == [ids |-> s.ids, focus |-> s.focus]
Nothing == [ids |-> {}, focus |-> None]
Idle == [stage |-> "idle"]

Act == acts < MaxActs /\ edits + acts < MaxSteps /\ acts' = acts + 1

Least(S) == CHOOSE t \in S : \A u \in S : t <= u
Greatest(S) == CHOOSE t \in S : \A u \in S : u <= t

-----------------------------------------------------------------------------
(* The server. *)

\* Resolve: a focus that is not selected falls back to the first selected one.
Resolve(ids, focus) ==
    [ids |-> ids,
     focus |-> IF focus \in ids THEN focus
               ELSE IF ids = {} THEN None ELSE Least(ids)]

\* The neighbour the server selects when the only selected terminal is gone.
ReplacementTerminal(deleted, remaining) ==
    LET later == {t \in remaining : t >= deleted}
    IN IF later # {} THEN Least(later) ELSE Greatest(remaining)

\* Fault: the selection changes and keeps its revision.
AfterDeletionUnnumbered(s, deleted, remaining) ==
    Resolve(s.ids \ {deleted}, s.focus) @@ [rev |-> s.rev]

\* ReconcileAfterTerminalDeletion, without filters.
AfterDeletion(s, deleted, remaining) ==
    LET kept == Resolve(s.ids \ {deleted}, s.focus)
        replaced == s.ids = {deleted} /\ s.focus = deleted /\ remaining # {}
        next == IF replaced
                THEN LET r == ReplacementTerminal(deleted, remaining)
                     IN [ids |-> {r}, focus |-> r]
                ELSE kept
    IN [ids |-> next.ids, focus |-> next.focus,
        rev |-> IF next = Sel(s) THEN s.rev ELSE s.rev + 1]

\* Saving a selection publishes it to the open event streams.
Store(s, by) ==
    /\ stored' = s
    /\ author' = by
    /\ events' = IF subscribed /\ s # stored THEN Append(events, s) ELSE events
    /\ Len(events') <= MaxEvents

\* Fault: the expected revision is not compared.
ReplaceOutcomeUnconditional(sel, expected) ==
    IF ~(sel.ids \subseteq live) THEN "terminal_not_found"
    ELSE IF sel.focus # None /\ sel.focus \notin sel.ids
         THEN "terminal_not_selected"
    ELSE "ok"

\* Apply with ActionReplaceState: the outcome of PUT /api/selection.
ReplaceOutcome(sel, expected) ==
    IF expected # stored.rev THEN "selection_conflict"
    ELSE IF ~(sel.ids \subseteq live) THEN "terminal_not_found"
    ELSE IF sel.focus # None /\ sel.focus \notin sel.ids
         THEN "terminal_not_selected"
    ELSE "ok"
Replaced(sel) ==
    LET r == Resolve(sel.ids, sel.focus)
    IN [ids |-> r.ids, focus |-> r.focus, rev |-> stored.rev + 1]

\* Another client replaces the selection.
OtherSelects(c) ==
    /\ Act
    /\ ReplaceOutcome(c, stored.rev) = "ok"
    /\ Store(Replaced(c), "other")
    /\ UNCHANGED <<live, subscribed, answers, writeVars, mirrorVars,
                   versionVars, closing, creating, accepted, rejected, refocused>>

\* Another client deletes a terminal, or its shell exits.
OtherDeletes(t) ==
    /\ Act
    /\ t \in live /\ live' = live \ {t}
    /\ LET s == AfterDeletion(stored, t, live')
       IN Store(s, IF s = stored THEN author ELSE "other")
    /\ UNCHANGED <<subscribed, answers, writeVars, mirrorVars, versionVars,
                   closing, creating, accepted, rejected, refocused>>

\* The event stream breaks, by an error or because the subscriber lagged:
\* what it still held is lost.  consume subscribes again after a delay.
StreamBreaks ==
    /\ Act
    /\ subscribed /\ subscribed' = FALSE
    /\ events' = <<>>
    /\ UNCHANGED <<serverVars, answers, writeVars, mirrorVars, versionVars,
                   closing, creating, historyVars>>

Resubscribe ==
    /\ ~subscribed /\ subscribed' = TRUE
    /\ UNCHANGED <<serverVars, events, answers, writeVars, mirrorVars,
                   versionVars, closing, creating, historyVars, acts>>

\* The poll, or a refresh of the event loop, reads the selection.  Reads that
\* find what the browser knows are left out, to bound the states.
ReadSelection ==
    /\ stored.rev > known
    /\ Cardinality(answers \cup {stored}) <= MaxAnswers
    /\ answers' = answers \cup {stored}
    /\ UNCHANGED <<serverVars, subscribed, events, writeVars, mirrorVars,
                   versionVars, closing, creating, historyVars, acts>>
-----------------------------------------------------------------------------
(* How the browser takes a snapshot. *)

Record(s) ==
    /\ known' = s.rev
    /\ signature' = Sel(s)

\* applyServerSelection: every setter gets a new array, so the effect runs.
ApplySelection(s) ==
    /\ Record(s)
    /\ shown' = Sel(s)
    /\ changed' = TRUE

\* Fault: an edit counts as synchronised until its request is sent.
HasUnsyncedWrite == write # Idle

HasUnsynced ==
    \/ edits > synced
    \/ pending # None
    \/ write # Idle

\* acceptServerSelection
AcceptSelection(s) ==
    \/ /\ s.rev <= known
       /\ UNCHANGED mirrorVars
    \/ /\ s.rev > known /\ HasUnsynced
       /\ Record(s)
       /\ UNCHANGED <<shown, changed>>
    \/ /\ s.rev > known /\ ~HasUnsynced
       /\ ApplySelection(s)

DeliverEvent ==
    /\ events # <<>> /\ events' = Tail(events)
    /\ AcceptSelection(Head(events))
    /\ UNCHANGED <<serverVars, subscribed, answers, writeVars, versionVars,
                   closing, creating, historyVars, acts>>

DeliverRead(s) ==
    /\ s \in answers /\ answers' = answers \ {s}
    /\ AcceptSelection(s)
    /\ UNCHANGED <<serverVars, subscribed, events, writeVars, versionVars,
                   closing, creating, historyVars, acts>>
-----------------------------------------------------------------------------
(* What the user does, and how it is written back. *)

\* markLocalSelectionMutation, with setters that change the selection.
Edit(c) ==
    /\ edits < MaxEdits /\ edits + acts < MaxSteps /\ edits' = edits + 1
    /\ c # shown /\ shown' = c /\ changed' = TRUE
    /\ UNCHANGED <<serverVars, wireVars, writeVars, known, signature, synced,
                   closing, creating, historyVars, acts>>

\* focusPane on the focused pane: every setter keeps its value, no effect runs.
Refocus ==
    /\ shown.focus # None /\ refocused' = TRUE
    /\ edits < MaxEdits /\ edits + acts < MaxSteps /\ edits' = edits + 1
    /\ UNCHANGED <<serverVars, wireVars, writeVars, mirrorVars, synced,
                   closing, creating, accepted, rejected, author, acts>>

\* flushSelectionWrites takes a request, with the revision it knows.
Send(request, expected) ==
    /\ write' = [stage |-> "sent", sel |-> request.sel,
                 version |-> request.version, expected |-> expected]
    /\ pending' = None

\* The effect on the selection: nothing to write, or a request that is sent
\* at once or waits for the one on its way.
RunEffect ==
    /\ changed /\ changed' = FALSE
    /\ LET request == [sel |-> shown, version |-> edits] IN
       \/ /\ write = Idle /\ shown = signature
          /\ synced' = edits /\ accepted' = edits
          /\ UNCHANGED writeVars
       \/ /\ write = Idle /\ shown # signature
          /\ Send(request, known)
          /\ UNCHANGED <<synced, accepted>>
       \/ /\ write # Idle /\ pending' = request
          /\ UNCHANGED <<write, synced, accepted>>
    /\ UNCHANGED <<serverVars, wireVars, shown, known, signature, edits,
                   closing, creating, author, rejected, refocused, acts>>

ServerWrites ==
    /\ write.stage = "sent"
    /\ LET outcome == ReplaceOutcome(write.sel, write.expected) IN
       \/ /\ outcome = "ok"
          /\ Store(Replaced(write.sel), "browser")
          /\ accepted' = IF write.version > accepted THEN write.version
                         ELSE accepted
          /\ write' = [stage |-> "answered", sel |-> write.sel,
                       version |-> write.version, snap |-> stored']
       \/ /\ outcome # "ok"
          /\ write' = [stage |-> IF outcome = "selection_conflict"
                                THEN "refused" ELSE "failed",
                       sel |-> write.sel, version |-> write.version]
          /\ UNCHANGED <<stored, events, accepted, author>>
    /\ UNCHANGED <<live, subscribed, answers, mirrorVars, versionVars, pending,
                   closing, creating, rejected, refocused, acts>>

\* Fault: the loop ends after one request.
ContinueOnce(revision) == write' = Idle /\ pending' = None

\* The loop of flushSelectionWrites: the pending request, if there is one.
Continue(revision) ==
    \/ pending # None /\ Send(pending, revision)
    \/ pending = None /\ write' = Idle /\ UNCHANGED pending

WriteAnswered ==
    /\ write.stage = "answered"
    /\ \/ /\ pending # None \/ edits > write.version
          /\ Record(write.snap)
          /\ UNCHANGED <<shown, changed, synced>>
       \/ /\ pending = None /\ edits <= write.version
          /\ synced' = write.version
          /\ ApplySelection(write.snap)
    /\ Continue(write.snap.rev)
    /\ UNCHANGED <<serverVars, wireVars, edits, closing, creating,
                   historyVars, acts>>

\* selection_conflict: read the selection, then ask again with its revision.
ReadAfterConflict ==
    /\ write.stage = "refused"
    /\ write' = [stage |-> "reread", sel |-> write.sel,
                 version |-> write.version, snap |-> stored]
    /\ UNCHANGED <<serverVars, wireVars, mirrorVars, versionVars, pending,
                   closing, creating, historyVars, acts>>

RetryWrite ==
    /\ write.stage = "reread"
    /\ Record(write.snap)
    /\ Send(IF pending # None THEN pending ELSE write, write.snap.rev)
    /\ UNCHANGED <<serverVars, wireVars, shown, changed, versionVars, closing,
                   creating, historyVars, acts>>

\* The network fails a request before or after the server ran it.
WriteBreaks ==
    /\ Act
    /\ write.stage \in {"sent", "answered", "refused"}
    /\ write' = [stage |-> "failed"]
    /\ UNCHANGED <<serverVars, wireVars, mirrorVars, versionVars, pending,
                   closing, creating, historyVars>>

\* Any other error: the request is given up and a message is shown.
WriteFailed ==
    /\ write.stage = "failed" /\ Continue(known)
    /\ rejected' = TRUE
    /\ UNCHANGED <<serverVars, wireVars, mirrorVars, versionVars, closing,
                   creating, accepted, refocused, author, acts>>
-----------------------------------------------------------------------------
(* Closing one terminal: deleteSessions and archiveSession. *)

\* isSingleTargetCloseIntent
SingleTarget(c, removed) == c.ids = {removed} /\ c.focus = removed

\* replacementSessionForClose: the neighbour in the order the sidebar shows.
RenderedReplacement(removed) ==
    LET at == CHOOSE i \in DOMAIN SidebarOrder : SidebarOrder[i] = removed
        after == {i \in DOMAIN SidebarOrder :
                    i > at /\ SidebarOrder[i] \in closing.previous}
        before == {i \in DOMAIN SidebarOrder :
                    i < at /\ SidebarOrder[i] \in closing.previous}
    IN IF after # {} THEN SidebarOrder[Least(after)]
       ELSE IF before # {} THEN SidebarOrder[Greatest(before)] ELSE None

\* sharedCloseSelectionRequest: None when the server's choice stands.
Correction(s) ==
    LET mine == RenderedReplacement(closing.removed)
        remaining == closing.previous \ {closing.removed}
        theirs == IF remaining = {} THEN None
                  ELSE ReplacementTerminal(closing.removed, remaining)
    IN IF mine \in {None, theirs} \/ ~SingleTarget(s, theirs) THEN None
       ELSE [ids |-> {mine}, focus |-> mine]

StartClose(t) ==
    /\ Act
    /\ closing = Idle /\ t \in live
    /\ closing' = [stage |-> "deleting", removed |-> t, before |-> shown,
                   rev |-> known, previous |-> live, chose |-> FALSE,
                   snap |-> None, now |-> None]
    /\ UNCHANGED <<serverVars, wireVars, writeVars, mirrorVars, versionVars,
                   creating, historyVars>>

\* The handler deletes the terminal and then reads the selection it answers.
ServerCloses ==
    \/ /\ closing.stage = "deleting"
       /\ closing.removed \in live /\ live' = live \ {closing.removed}
       /\ LET s == AfterDeletion(stored, closing.removed, live')
          IN /\ closing' = [closing EXCEPT !.stage = "deleted",
                                           !.chose = s # stored]
             /\ Store(s, IF s = stored THEN author ELSE "close")
       /\ UNCHANGED <<subscribed, answers, writeVars, mirrorVars, versionVars,
                      creating, accepted, rejected, refocused, acts>>
    \/ /\ closing.stage = "deleting"
       /\ closing.removed \notin live /\ closing' = Idle
       /\ UNCHANGED <<serverVars, wireVars, writeVars, mirrorVars, versionVars,
                      creating, historyVars, acts>>
    \/ /\ closing.stage = "deleted"
       /\ closing' = [closing EXCEPT !.stage = "answered", !.snap = stored]
       /\ UNCHANGED <<serverVars, wireVars, writeVars, mirrorVars, versionVars,
                      creating, historyVars, acts>>

\* The intent is still the one the terminal was closed with.
SameIntent ==
    /\ known = closing.rev
    /\ shown = closing.before

\* applySharedCloseSelection, up to its GET.
CloseAnswered ==
    /\ closing.stage = "answered"
    /\ \/ /\ ~SingleTarget(closing.before, closing.removed)
          /\ closing' = Idle
          /\ AcceptSelection(closing.snap)
       \/ /\ SingleTarget(closing.before, closing.removed)
          /\ closing' = [closing EXCEPT !.stage =
                           IF SameIntent /\ closing.snap.rev = closing.rev + 1
                           THEN "checking" ELSE "rereading"]
          /\ UNCHANGED mirrorVars
    /\ UNCHANGED <<serverVars, wireVars, writeVars, versionVars, creating,
                   historyVars, acts>>

CloseReads ==
    /\ closing.stage \in {"checking", "rereading"}
    /\ closing' = [closing EXCEPT !.stage = IF @ = "checking" THEN "checked"
                                           ELSE "reread", !.now = stored]
    /\ UNCHANGED <<serverVars, wireVars, writeVars, mirrorVars, versionVars,
                   creating, historyVars, acts>>

\* acceptServerSelection of what was read; then perhaps a correction of it.
CloseTakes ==
    /\ closing.stage \in {"checked", "reread"}
    /\ AcceptSelection(closing.now)
    /\ closing' = IF /\ closing.stage = "checked"
                      /\ closing.now = closing.snap /\ SameIntent
                      /\ Correction(closing.now) # None
                      /\ known' = closing.now.rev
                   THEN [stage |-> "correcting", removed |-> closing.removed,
                         sel |-> Correction(closing.now),
                         expected |-> closing.now.rev, chose |-> closing.chose]
                   ELSE Idle
    /\ UNCHANGED <<serverVars, wireVars, writeVars, versionVars, creating,
                   historyVars, acts>>

ServerCorrects ==
    /\ closing.stage = "correcting"
    /\ IF ReplaceOutcome(closing.sel, closing.expected) = "ok"
       THEN /\ Store(Replaced(closing.sel), "browser")
            /\ closing' = [stage |-> "reread", now |-> stored']
       ELSE /\ closing' = IF closing.expected # stored.rev
                          THEN [stage |-> "rereading", now |-> None] ELSE Idle
            /\ UNCHANGED <<stored, events, author>>
    /\ UNCHANGED <<live, subscribed, answers, writeVars, mirrorVars,
                   versionVars, creating, accepted, rejected, refocused, acts>>

\* A request of the close fails; what it did at the server stays done.
CloseBreaks ==
    /\ Act
    /\ closing # Idle /\ closing' = Idle
    /\ UNCHANGED <<serverVars, wireVars, writeVars, mirrorVars, versionVars,
                   creating, historyVars>>
-----------------------------------------------------------------------------
(* Creating a terminal: the server selects it, alone or with the others. *)

ServerCreates(t, split) ==
    /\ Act
    /\ creating = Idle
    /\ t \in Terminals /\ t \notin Existing /\ t \notin live
    /\ live' = live \cup {t}
    /\ Store([ids |-> IF split THEN stored.ids \cup {t} ELSE {t},
              focus |-> t, rev |-> stored.rev + 1], "browser")
    /\ creating' = [stage |-> "created", snap |-> stored']
    /\ UNCHANGED <<subscribed, answers, writeVars, mirrorVars, versionVars,
                   closing, accepted, rejected, refocused>>

\* createSession applies the answer, whatever the browser did meanwhile.
CreateAnswered ==
    /\ creating # Idle /\ creating' = Idle
    /\ ApplySelection(creating.snap)
    /\ UNCHANGED <<serverVars, wireVars, writeVars, versionVars, closing,
                   historyVars, acts>>
-----------------------------------------------------------------------------
Start == CHOOSE t \in Existing : \A u \in Existing : t <= u

\* loadInitialState: an empty selection is replaced by the first terminal.
Init ==
    /\ live = Existing
    /\ stored = [ids |-> {Start}, focus |-> Start, rev |-> 1]
    /\ subscribed = TRUE /\ events = <<>> /\ answers = {}
    /\ shown = Sel(stored) /\ known = 1 /\ signature = Sel(stored)
    /\ changed = TRUE
    /\ edits = 0 /\ synced = 0 /\ pending = None
    /\ write = Idle /\ closing = Idle /\ creating = Idle
    /\ accepted = 0 /\ rejected = FALSE /\ refocused = FALSE
    /\ author = "start" /\ acts = 0

Others == \E c \in OtherChoices : OtherSelects(c)
Deletions == \E t \in Terminals : OtherDeletes(t)
Edits == \E c \in UserChoices : Edit(c)
Closes == \E t \in Terminals : StartClose(t)
Creates == \E t \in Terminals, split \in BOOLEAN : ServerCreates(t, split)
Deliveries == DeliverEvent \/ \E s \in answers : DeliverRead(s)

Next ==
    \/ Others \/ Deletions \/ Edits \/ Refocus \/ Closes \/ Creates
    \/ Deliveries \/ RunEffect \/ ServerWrites \/ WriteAnswered
    \/ ReadAfterConflict \/ RetryWrite \/ WriteFailed \/ ServerCloses
    \/ CloseAnswered \/ CloseReads \/ CloseTakes \/ ServerCorrects
    \/ CreateAnswered \/ ReadSelection \/ Resubscribe
    \/ StreamBreaks \/ WriteBreaks \/ CloseBreaks

\* React runs its effects, the server and the network answer, and the page
\* reads the selection every 1.5 seconds; nothing makes a user, another
\* client or a failure act.
Fairness ==
    /\ WF_vars(RunEffect) /\ WF_vars(ServerWrites)
    /\ WF_vars(WriteAnswered) /\ WF_vars(ReadAfterConflict)
    /\ WF_vars(RetryWrite) /\ WF_vars(WriteFailed)
    /\ WF_vars(ServerCloses) /\ WF_vars(CloseAnswered)
    /\ WF_vars(CloseReads) /\ WF_vars(CloseTakes) /\ WF_vars(ServerCorrects)
    /\ WF_vars(CreateAnswered) /\ WF_vars(Deliveries)
    /\ WF_vars(ReadSelection) /\ WF_vars(Resubscribe)

Spec == Init /\ [][Next]_vars /\ Fairness
-----------------------------------------------------------------------------
TypeOK ==
    /\ live \subseteq Terminals /\ stored \in Snapshot
    /\ subscribed \in BOOLEAN /\ events \in Seq(Snapshot)
    /\ answers \subseteq Snapshot
    /\ shown \in Choice /\ signature \in Choice /\ known \in Nat
    /\ changed \in BOOLEAN /\ {rejected, refocused} \subseteq BOOLEAN
    /\ {edits, synced, accepted} \subseteq Nat
    /\ pending = None \/ pending \in [sel : Choice, version : Nat]

\* The server's selection names terminals that exist and focuses one of them,
\* and a revision names one selection: a browser that knows the server's
\* revision knows its selection.
SelectionInv ==
    /\ TypeOK
    /\ stored.ids \subseteq live
    /\ stored.focus \in stored.ids \/ Sel(stored) = Nothing
    /\ known <= stored.rev
    /\ known = stored.rev => signature = Sel(stored)

\* A snapshot of the server replaces what the user of this browser chose only
\* after the server has had that choice: an answer or an event that was on
\* its way while the user clicked never undoes the click.  The answer to a
\* creation is the exception, it is applied at once.
EditsReachServer ==
    [][shown' # shown /\ edits' = edits /\ creating' = creating
        => accepted' = edits]_vars

\* The browser may prefer another neighbour of a closed terminal than the
\* server chose.  Nothing that was written after the server chose is overwritten
\* by that correction, however its requests and others' writes interleave.  When
\* the server had nothing to choose, as the click that selected the terminal was
\* not written yet, a browser may take the selection of another client for the
\* server's choice.
CorrectionKeepsOthers ==
    [][closing.stage = "correcting" /\ closing.chose /\ closing'.stage = "reread"
        => author = "close"]_vars

\* Once users stop, the browser shows the server's selection and writes
\* nothing more, unless one of its writes failed or it counted an edit that
\* changed nothing.
Converges ==
    <>[](\/ rejected \/ refocused
         \/ /\ shown = Sel(stored) /\ known = stored.rev
            /\ write = Idle /\ pending = None)

=============================================================================
