-------------------------- MODULE WorkspaceFilters --------------------------
(***************************************************************************)
(* Why a terminal is selected: clicked, pinned, or matched by a filter.    *)
(* Both sides derive the selection.  The server resolves it from its       *)
(* sources (src/internal/selection/reducer.go); the browser computes what  *)
(* a click will give before the server answers, keeps a terminal that      *)
(* stopped matching for ten seconds, and gathers the sources from what it  *)
(* shows when it writes back (src/web/src/App.tsx).                        *)
(*                                                                         *)
(* A write and its answer are one step here: their interleaving with other *)
(* clients is the subject of SharedSelection.  Neither terminals nor       *)
(* working directories come or go.  The order of the browser's panes is    *)
(* left out: where it takes the first of them, any of them is taken.       *)
(***************************************************************************)
EXTENDS Absence, Naturals, FiniteSets

CONSTANTS
    Terminals,      \* numbered in the order of their creation
    Cwd,            \* the working directory of each
    Activities,     \* what sessionActivity says; "terminal" is a plain shell
    OtherSources,   \* selections other clients ask for
    Attentions,     \* may a terminal need attention?
    MaxEdits, MaxChanges, MaxOthers,    \* bounds on three kinds of events
    MaxSteps        \* and on their sum

Statuses == Activities \cup {"attention"}
Filters == [statuses : SUBSET Statuses,
            cwds : SUBSET (Statuses \X {Cwd[t] : t \in Terminals})]
Source == [manual : SUBSET Terminals, pinned : SUBSET Terminals,
           filters : Filters, pinnedFilters : Filters,
           focus : Terminals \cup {None}]

ASSUME WorkspaceAssumption ==
    /\ Terminals \subseteq Nat /\ Terminals # {} /\ IsFiniteSet(Terminals)
    /\ None \notin Terminals
    /\ {"terminal", "waiting"} \subseteq Activities /\ "attention" \notin Activities
    /\ OtherSources \subseteq Source
    /\ Attentions \subseteq BOOLEAN
    /\ {MaxEdits, MaxChanges, MaxOthers, MaxSteps} \subseteq Nat

VARIABLES
    terminals,      \* activity and attention of each terminal
    server,         \* the sources of the selection the server stores
    seen,           \* the last snapshot of the selection the browser had
    view,           \* the sessions the browser shows
    selected, pinned, focus, filters, pinnedFilters,    \* React state
    filterSelected, \* filterSelectedIDsRef
    manualSelected, \* manualSelectedIDsRef
    timers,         \* filterDeselectTimersRef
    expired,        \* expiredFilterDeselectIDsRef
    launched,       \* pendingAgentLaunchIDsRef
    unsynced,       \* a local mutation the server has not confirmed
    changed,        \* the effect that writes the selection will run
    refused,        \* history: the server refused a selection
    predicted,      \* history: the write follows a click on the current state
    edits, changes, others

shown == <<selected, pinned, focus, filters, pinnedFilters>>
refs == <<filterSelected, manualSelected>>
deselection == <<timers, expired>>
bounds == <<edits, changes, others>>
vars == <<terminals, server, seen, view, shown, refs, deselection, launched,
          unsynced, changed, refused, predicted, bounds>>

NoFilters == [statuses |-> {}, cwds |-> {}]
Step == edits + changes + others < MaxSteps

Least(S) == CHOOSE t \in S : \A u \in S : t <= u

-----------------------------------------------------------------------------
(* Matching, on both sides. *)

\* matchesWorkspaceFilter and matchesFilters
StatusesOf(s) == {s.activity} \cup {a \in {"attention"} : s.attention}
Matching(sessions, f) ==
    {t \in Terminals :
        \E status \in StatusesOf(sessions[t]) :
            status \in f.statuses \/ <<status, Cwd[t]>> \in f.cwds}

OfStatus(cwds, status) == {f \in cwds : f[1] = status}

-----------------------------------------------------------------------------
(* The server. *)

\* Resolve
Resolved(source, sessions) ==
    source.manual \cup source.pinned \cup Matching(sessions, source.filters)

ResolvedFocus(source, sessions) ==
    LET ids == Resolved(source, sessions)
    IN IF source.focus \in ids THEN source.focus
       ELSE IF ids = {} THEN None ELSE Least(ids)

\* normalize: pinned filters are filters, and a pinned status subsumes its
\* directories.
Normalize(source, sessions) ==
    LET cwds == {f \in source.pinnedFilters.cwds :
                    f[1] \notin source.pinnedFilters.statuses}
        full == [source EXCEPT
                    !.pinnedFilters.cwds = cwds,
                    !.filters = [statuses |-> @.statuses \cup source.pinnedFilters.statuses,
                                 cwds |-> @.cwds \cup cwds]]
    IN [full EXCEPT !.focus = ResolvedFocus(full, sessions)]

SnapshotOf(source) == [source |-> source, ids |-> Resolved(source, terminals)]
Snapshot == SnapshotOf(server)

\* ActionReplaceState is refused when it focuses what it does not select.
Accepted(source) ==
    source.focus = None \/ source.focus \in Resolved(source, terminals)

\* An agent starts, works, waits or ends, and its attention is raised or
\* acknowledged; reconcileFromSessions follows.
TerminalChanges(t, activity, attention) ==
    /\ changes < MaxChanges /\ Step /\ changes' = changes + 1
    /\ activity = "terminal" => ~attention
    /\ terminals' = [terminals EXCEPT
                        ![t] = [activity |-> activity, attention |-> attention]]
    /\ terminals' # terminals
    /\ server' = IF /\ terminals[t].activity = "terminal"
                    /\ activity # "terminal" /\ server.focus = t
                 THEN Normalize([server EXCEPT !.manual = {t}, !.focus = t,
                                               !.filters = server.pinnedFilters],
                                terminals')
                 ELSE Normalize(server, terminals')
    /\ UNCHANGED <<seen, view, shown, refs, deselection, launched, unsynced,
                   changed, refused, edits, others,
                   predicted>>

OtherSelects(source) ==
    /\ others < MaxOthers /\ Step /\ others' = others + 1
    /\ Accepted(source)
    /\ server' = Normalize(source, terminals)
    /\ UNCHANGED <<terminals, seen, view, shown, refs, deselection, launched,
                   unsynced, changed, refused, edits, changes,
                   predicted>>

-----------------------------------------------------------------------------
(* What the browser takes from the server. *)

\* React runs its effects before the next event.
Settled == ~changed /\ launched = {} /\ expired = {}

\* applySessionSnapshot: a terminal that stops matching is kept for a while,
\* one that matches again stays.
ReadSessions ==
    /\ Settled /\ view # terminals
    /\ view' = terminals
    /\ LET was == Matching(view, filters)
           now == Matching(terminals, filters)
           leaving == (was \ now) \cap filterSelected \cap (selected \ pinned)
       IN timers' = (timers \ now) \cup leaving
    /\ launched' = {t \in Terminals : /\ view[t].activity = "terminal"
                                      /\ terminals[t].activity # "terminal"}
    /\ UNCHANGED <<terminals, server, seen, shown, refs, expired, unsynced,
                   changed, refused, bounds,
                   predicted>>

\* applyServerSelection: terminals whose time is not up stay selected.
Apply(s) ==
    LET same == /\ filters = s.source.filters
                /\ filters # NoFilters
        missing == (selected \ pinned) \ s.ids
        waiting == timers \cup
                   IF same THEN (filterSelected \cap missing) \ expired ELSE {}
        kept == waiting \cap missing
    IN /\ timers' = waiting
       /\ selected' = s.ids \cup kept
       /\ pinned' = s.source.pinned
       /\ focus' = IF focus \in kept THEN focus ELSE s.source.focus
       /\ filters' = s.source.filters
       /\ pinnedFilters' = s.source.pinnedFilters
       /\ filterSelected' = (selected' \ s.source.manual) \ s.source.pinned
       /\ manualSelected' = s.source.manual
       /\ seen' = s
       /\ changed' = TRUE

\* acceptServerSelection of an event or of the poll.
ReadSelection ==
    /\ Settled /\ Snapshot # seen
    /\ \/ /\ unsynced /\ seen' = Snapshot
          /\ UNCHANGED <<shown, refs, timers, changed>>
       \/ /\ ~unsynced /\ Apply(Snapshot)
    /\ UNCHANGED <<terminals, server, view, expired, launched, unsynced,
                   refused, bounds,
                   predicted>>

-----------------------------------------------------------------------------
(* Effects. *)

\* Fault: only what the last snapshot called chosen by hand is written so.
IntentOfSnapshot ==
    [manual |-> selected \cap manualSelected,
     pinned |-> pinned, filters |-> filters, pinnedFilters |-> pinnedFilters,
     focus |-> focus]

\* The sources the browser writes, gathered from what it shows.
Intent ==
    [manual |-> {t \in selected : /\ t \notin filterSelected
                                  /\ t \notin pinned \/ t \in manualSelected},
     pinned |-> pinned, filters |-> filters, pinnedFilters |-> pinnedFilters,
     focus |-> focus]

WriteSelection ==
    /\ changed /\ predicted' = FALSE
    /\ \/ /\ Intent = seen.source
          /\ unsynced' = FALSE /\ changed' = FALSE
          /\ UNCHANGED <<server, seen, shown, refs, timers, refused>>
       \/ /\ Intent # seen.source /\ Accepted(Intent)
          /\ server' = Normalize(Intent, terminals)
          /\ unsynced' = FALSE
          /\ Apply(SnapshotOf(Normalize(Intent, terminals)))
          /\ UNCHANGED refused
       \/ /\ Intent # seen.source /\ ~Accepted(Intent)
          /\ refused' = TRUE /\ changed' = FALSE
          /\ UNCHANGED <<server, seen, shown, refs, timers, unsynced>>
    /\ UNCHANGED <<terminals, view, expired, launched, bounds>>

\* A focus that is no longer selected moves to the first pane.
Refocused(ids) ==
    focus' \in IF focus \in ids THEN {focus}
               ELSE IF ids = {} THEN {None} ELSE ids

Mutated == unsynced' = TRUE /\ changed' = TRUE

\* The browser has seen what the server has.  Current: it shows just that,
\* and remembers no terminal as selected by a filter that it does not show.
Informed == view = terminals /\ seen = Snapshot
Current == /\ Informed /\ timers = {}
           /\ selected = seen.ids /\ Intent = seen.source
           /\ filterSelected \subseteq selected

\* A focused shell in which an agent started is shown alone.
FollowLaunch ==
    /\ launched # {} /\ launched' = {}
    /\ \/ /\ focus \in launched \cap selected
          /\ LET matches == Matching(view, pinnedFilters)
             IN /\ selected' = (selected \cap pinned) \cup matches \cup {focus}
                /\ filterSelected' = matches \ pinned
          /\ filters' = pinnedFilters
          /\ Mutated /\ predicted' = FALSE
          /\ UNCHANGED <<pinned, focus, pinnedFilters, manualSelected>>
       \/ /\ focus \notin launched \cap selected
          /\ UNCHANGED <<shown, refs, unsynced, changed, predicted>>
    /\ UNCHANGED <<terminals, server, seen, view, deselection, refused, bounds>>

\* scheduleFilterDeselect: the timer rings.
TimerRings(t) ==
    /\ Settled /\ t \in timers
    /\ timers' = timers \ {t} /\ expired' = {t}
    /\ UNCHANGED <<terminals, server, seen, view, shown, refs, launched,
                   unsynced, changed, refused, bounds,
                   predicted>>

DropExpired ==
    /\ expired # {} /\ expired' = {}
    /\ LET gone == IF filters = NoFilters THEN {}
                   ELSE (expired \ Matching(view, filters)) \ pinned
       IN \/ /\ gone \cap selected # {}
             /\ selected' = selected \ gone
             /\ filterSelected' = filterSelected \ gone
             /\ Refocused(selected')
             /\ Mutated /\ predicted' = FALSE
          \/ /\ gone \cap selected = {}
             /\ UNCHANGED <<selected, focus, filterSelected, unsynced, changed,
                            predicted>>
    /\ UNCHANGED <<terminals, server, seen, view, pinned, filters,
                   pinnedFilters, manualSelected, timers, launched, refused,
                   bounds>>

-----------------------------------------------------------------------------
(* What the user does. *)

Edited ==
    /\ Settled /\ edits < MaxEdits /\ Step /\ edits' = edits + 1
    /\ Mutated /\ predicted' = Current
    /\ UNCHANGED <<terminals, server, seen, view, manualSelected, deselection,
                   launched, refused, changes, others>>

\* A click in the sidebar: the terminal, and what is pinned.
SelectAlone(t) ==
    /\ LET matches == Matching(view, pinnedFilters)
       IN /\ selected' = (selected \cap pinned) \cup matches \cup {t}
          /\ filterSelected' = matches \ pinned
    /\ filters' = pinnedFilters /\ focus' = t
    /\ UNCHANGED <<pinned, pinnedFilters>>
    /\ Edited

\* Option-click on a checkbox pins.
Pin(t) ==
    /\ t \notin pinned /\ pinned' = pinned \cup {t}
    /\ selected' = selected \cup {t} /\ focus' = t
    /\ filterSelected' = filterSelected \ {t}
    /\ UNCHANGED <<filters, pinnedFilters>>
    /\ Edited

\* Command-click on a terminal, or its checkbox.
SelectAlso(t) ==
    /\ t \notin selected /\ selected' = selected \cup {t} /\ focus' = t
    /\ UNCHANGED <<pinned, filters, pinnedFilters, filterSelected>>
    /\ Edited

\* What is left of filters when the terminal is taken out of them: its status
\* becomes the directories of the other terminals of that status.
Decomposed(f, t, split) ==
    LET status == view[t].activity
        siblings == {<<status, Cwd[u]>> :
                        u \in {v \in Terminals : /\ view[v].activity = status
                                                 /\ Cwd[v] # Cwd[t]}}
    IN [statuses |-> f.statuses \ {status},
        cwds |-> IF split
                 THEN (f.cwds \ OfStatus(f.cwds, status)) \cup siblings
                 ELSE f.cwds \ {<<status, Cwd[t]>>}]

\* A filter of the terminal's own activity selects it.
Owned(t) ==
    \/ view[t].activity \in filters.statuses
    \/ <<view[t].activity, Cwd[t]>> \in filters.cwds

\* A selected terminal is unchecked.  A pin goes with it; the last terminal
\* stays, unless it was pinned.
Deselect(t) ==
    /\ t \in selected
    /\ pinned' = pinned \ {t}
    /\ LET empty == t \in pinned
           status == view[t].activity
           split == status \in filters.statuses
           next == Decomposed(filters, t, split)
           matches == Matching(view, next)
           ids == (selected \ {t}) \cup matches
       IN \/ /\ Owned(t)
             /\ filters' = next
             /\ pinnedFilters' =
                    IF split /\ status \in pinnedFilters.statuses
                    THEN Decomposed(pinnedFilters, t, TRUE)
                    ELSE Decomposed(pinnedFilters, t, FALSE)
             /\ selected' = IF ids = {} /\ ~empty THEN {t} ELSE ids
             /\ filterSelected' = matches \ pinned'
          \/ /\ ~Owned(t)
             /\ Cardinality(selected) > 1 \/ empty
             /\ selected' = selected \ {t}
             /\ UNCHANGED <<filters, pinnedFilters, filterSelected>>
    /\ Refocused(selected')
    /\ Edited

\* Quick Actions: show only the terminals of one status.
SelectStatus(status) ==
    /\ \E t \in Terminals : view[t].activity = status /\ focus' = t
    /\ filters' = [pinnedFilters EXCEPT !.statuses = @ \cup {status}]
    /\ LET matches == Matching(view, filters')
       IN /\ selected' = (selected \cap pinned) \cup matches
          /\ filterSelected' = matches \ pinned
    /\ UNCHANGED <<pinned, pinnedFilters>>
    /\ Edited

FocusPane(t) ==
    /\ t \in selected \ {focus} /\ focus' = t
    /\ UNCHANGED <<selected, pinned, filters, pinnedFilters, filterSelected>>
    /\ Edited

-----------------------------------------------------------------------------
First == Least(Terminals)

Init ==
    /\ terminals = [t \in Terminals |->
                        [activity |-> IF t = First THEN "terminal" ELSE "waiting",
                         attention |-> FALSE]]
    /\ server = [manual |-> {First}, pinned |-> {}, filters |-> NoFilters,
                 pinnedFilters |-> NoFilters, focus |-> First]
    /\ seen = Snapshot /\ view = terminals
    /\ selected = {First} /\ pinned = {} /\ focus = First
    /\ filters = NoFilters /\ pinnedFilters = NoFilters
    /\ filterSelected = {} /\ manualSelected = {First}
    /\ timers = {} /\ expired = {} /\ launched = {}
    /\ unsynced = FALSE /\ changed = FALSE /\ refused = FALSE
    /\ predicted = FALSE
    /\ edits = 0 /\ changes = 0 /\ others = 0

Changes == \E t \in Terminals, a \in Activities, b \in Attentions :
                TerminalChanges(t, a, b)
Others == \E source \in OtherSources : OtherSelects(source)
Rings == \E t \in Terminals : TimerRings(t)
Clicks == \E t \in Terminals :
              \/ SelectAlone(t) \/ Pin(t) \/ SelectAlso(t) \/ Deselect(t)
              \/ FocusPane(t)
QuickActions == \E status \in Activities : SelectStatus(status)

Next ==
    \/ Changes \/ Others \/ ReadSessions \/ ReadSelection
    \/ WriteSelection \/ FollowLaunch \/ Rings \/ DropExpired
    \/ Clicks \/ QuickActions

Spec == Init /\ [][Next]_vars
-----------------------------------------------------------------------------
TypeOK ==
    /\ \A source \in {server, Intent, seen.source} :
           /\ source.manual \cup source.pinned \subseteq Terminals
           /\ source.filters.statuses \subseteq Statuses
           /\ source.focus \in Terminals \cup {None}
    /\ {filterSelected, manualSelected, timers, expired, launched}
           \subseteq SUBSET Terminals
    /\ {unsynced, changed, refused, predicted} \subseteq BOOLEAN

\* A pin, of a terminal or of a filter, keeps what it pins selected, in the
\* browser's state and in the server's, whatever filters come and go.  A pinned
\* directory may be out of the browser's filters until its write is answered.
PinsHold ==
    /\ pinned \subseteq selected
    /\ server.pinned \subseteq Resolved(server, terminals)
    /\ pinnedFilters.statuses \subseteq filters.statuses
    /\ server.pinnedFilters.statuses \subseteq server.filters.statuses
    /\ server.pinnedFilters.cwds \subseteq server.filters.cwds
    /\ changed \/ refused \/ pinnedFilters.cwds \subseteq filters.cwds

\* The terminals that a filter of attention selects, whatever their activity.
HeldByAttention ==
    {t \in Terminals : /\ view[t].attention
                       /\ \/ "attention" \in filters.statuses
                          \/ <<"attention", Cwd[t]>> \in filters.cwds}

\* What a click shows at once is what the server makes of it: the write is
\* accepted and its answer leaves the panes as they are, provided the browser
\* showed what the server had when the user clicked and when it answered.  The
\* exception is an attention filter, out of which no terminal is taken.
PredictionHolds ==
    [][WriteSelection /\ predicted /\ Informed /\ HeldByAttention \subseteq selected
        => /\ refused' = refused /\ selected' = selected
           /\ Resolved(server', terminals) = selected]_vars

\* Once the page has nothing left to do, no answer to read, no effect to run
\* and no timer to wait for, what it shows has a reason: the user chose it, or
\* it matches.  A refused write, which leaves the browser to itself, is the
\* exception.
Quiet == Informed /\ Settled /\ timers = {} /\ ~refused
Justified ==
    selected \subseteq Intent.manual \cup pinned \cup Matching(view, filters)

\* While a filter is active, a terminal that only a filter selected and that
\* stopped matching is gone when its ten seconds are over.
StaleMatchLeaves == Quiet /\ filters # NoFilters => Justified

\* The types, what is kept and what leaves.
FiltersInv == TypeOK /\ PinsHold /\ StaleMatchLeaves

=============================================================================
