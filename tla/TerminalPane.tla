----------------------------- MODULE TerminalPane -----------------------------
(***************************************************************************)
(* A pane (web/src/components/TerminalPane.tsx): which of its sources are  *)
(* shown, alone or side by side, and the review an agent may ask for,      *)
(* whose document and notes are the fifth source (AnnotationView.tsx).     *)
(* The server's side of a review is internal/annotation/store.go and       *)
(* internal/server/annotation_api.go.                                      *)
(*                                                                         *)
(* A note is the review it was written about; documents, selections and    *)
(* the width of a split are left out.                                      *)
(***************************************************************************)
EXTENDS Naturals, FiniteSets, Absence

CONSTANTS
    MaxReviews,     \* bound: reviews the agent asks for
    MaxClicks,      \* bound: what the user does with the tabs
    MaxFaults       \* bound: requests that fail

Reviews == 1..MaxReviews
Sources == {"terminal", "agent-log", "changes", "files", "annotation"}
Request == [phase : {"asked", "answered"}, result : Reviews \cup {None}]

ASSUME PaneAssumption ==
    /\ MaxReviews \in Nat /\ MaxClicks \in Nat /\ MaxFaults \in Nat
    /\ None \notin 1..MaxReviews /\ None \notin Sources
    /\ None \notin Request

VARIABLES
    source, secondary,  \* the states source and secondarySource
    dragging,           \* resizingSplit
    suppress,           \* suppressTerminalFocus
    focused,            \* the property active
    refit,              \* the last step changed fitVersion
    annotation,         \* the review shown
    annotationID,       \* annotationIDRef
    syncFailed,         \* annotationSyncFailed
    fetch,              \* the current request of getCurrentAnnotation
    notes, submitting,  \* of the mounted AnnotationView
    sends,              \* requests of completeAnnotation
    open, reviews,      \* the server: the review that waits, those asked for
    due,                \* an annotation event, or a new event stream, is coming
    stale,              \* history: a request failed, or a late answer hid a
                        \* review, since the last one that was applied
    clicks, faults

tabs == <<source, secondary, dragging, suppress, focused>>
review == <<annotation, annotationID, syncFailed, notes, submitting>>
store == <<open, reviews, due>>
paneVars == <<tabs, refit, review, fetch, sends, store, stale, clicks, faults>>

-----------------------------------------------------------------------------
(* The tabs. *)

Offered == {s \in Sources : s = "annotation" => annotation # None}

\* What a step makes of source and secondary, with the two effects that follow
\* a change: a closed split stops a drag and fits the terminal, a pane that is
\* left or shows something else may focus its terminal again.
Shows(first, second, suppressed, fits) ==
    LET suppress1 == suppressed /\ (first = source \/ (focused /\ first = "terminal"))
    IN  /\ source' = first /\ secondary' = second
        /\ dragging' = (dragging /\ second # None)
        /\ suppress' = suppress1
        /\ refit' = (fits \/ (secondary # None /\ second = None))

\* Fault: the terminal is not fitted when a tab gives it the pane.
ChangeSourceUnfitted(next) == Shows(next, None, FALSE, FALSE)

\* changeSource
ChangeSource(next) ==
    Shows(next, None, FALSE, source # "terminal" /\ next = "terminal")

Clicked == clicks < MaxClicks /\ clicks' = clicks + 1

\* A click on a tab; the one on the selected tab only closes the split.
ClickTab(s) ==
    /\ Clicked /\ s \in Offered
    /\ IF s = source
       THEN Shows(source, None, suppress /\ s # "terminal", FALSE)
       ELSE ChangeSource(s)
    /\ UNCHANGED <<focused, review, fetch, sends, store, stale, faults>>

\* The shortcut selects the tab after the selected one.
Order == <<"terminal", "agent-log", "changes", "files", "annotation">>
NextTab ==
    LET n == Cardinality(Offered)
        at == CHOOSE i \in 1..5 : Order[i] = source
    IN  /\ Clicked /\ focused
        /\ ChangeSource(Order[1 + (at % n)])
        /\ UNCHANGED <<focused, review, fetch, sends, store, stale, faults>>

\* toggleSecondarySource, by a click with Command or by Command-Enter.
ToggleSecond(s) ==
    LET closes == source = "terminal" /\ secondary # None
                     /\ s \in {source, secondary}
    IN  /\ Clicked /\ s \in Offered
        /\ Shows(source, IF s \in {source, secondary} THEN None ELSE s,
                 suppress \/ closes, FALSE)
        /\ UNCHANGED <<focused, review, fetch, sends, store, stale, faults>>

Drag ==
    /\ Clicked /\ secondary # None /\ dragging' = ~dragging
    /\ refit' = FALSE
    /\ UNCHANGED <<source, secondary, suppress, focused, review, fetch, sends,
                   store, stale, faults>>

FocusPane ==
    /\ Clicked /\ focused' = ~focused
    /\ suppress' = (suppress /\ focused' /\ source = "terminal")
    /\ refit' = FALSE
    /\ UNCHANGED <<source, secondary, dragging, review, fetch, sends, store,
                   stale, faults>>

Visible(s) == s \in {source, secondary}
SoleTerminal == source = "terminal" /\ secondary = None
TerminalActive == focused /\ SoleTerminal /\ ~suppress

-----------------------------------------------------------------------------
(* The review shown follows getCurrentAnnotation, which every annotation      *)
(* event, every new event stream and Retry ask for again.                     *)

Fetches ==
    /\ fetch' = [phase |-> "asked", result |-> None]
    /\ refit' = FALSE
    /\ UNCHANGED <<tabs, review, sends, open, reviews, stale, faults>>

HearEvent == due /\ due' = FALSE /\ Fetches /\ UNCHANGED clicks
Retry == annotation # None /\ syncFailed /\ Clicked /\ Fetches /\ UNCHANGED due

ServerReads ==
    /\ fetch # None /\ fetch.phase = "asked"
    /\ fetch' = [phase |-> "answered", result |-> open]
    /\ refit' = FALSE
    /\ UNCHANGED <<tabs, review, sends, store, stale, clicks, faults>>

\* AnnotationView is unmounted with its notes when no review is shown; another
\* review takes its place without a new mount.
Displays(next) ==
    /\ annotation' = next
    /\ IF next = None
       THEN /\ notes' = {} /\ submitting' = FALSE
            /\ sends' = {[s EXCEPT !.here = FALSE] : s \in sends}
       ELSE UNCHANGED <<notes, submitting, sends>>

\* Fault: the split keeps the review that was taken away.
SplitKept(second) == second

Repaired(second) == IF second = "annotation" THEN None ELSE second
Fallback(first) == IF first = "annotation" THEN "terminal" ELSE first

Fetched ==
    LET next == fetch.result IN
    /\ fetch # None /\ fetch.phase = "answered"
    /\ annotationID' = next /\ syncFailed' = FALSE /\ stale' = FALSE
    /\ IF next # None /\ next # annotationID
       THEN Shows("annotation", None, suppress, FALSE)
       ELSE IF next = None /\ annotationID # None
       THEN Shows(Fallback(source), Repaired(secondary), suppress, TRUE)
       ELSE Shows(source, secondary, suppress, FALSE)
    /\ Displays(next)
    /\ fetch' = None
    /\ UNCHANGED <<focused, store, clicks, faults>>

FetchFails ==
    /\ fetch # None /\ faults < MaxFaults
    /\ faults' = faults + 1
    /\ syncFailed' = (syncFailed \/ annotationID # None)
    /\ stale' = TRUE /\ fetch' = None /\ refit' = FALSE
    /\ UNCHANGED <<tabs, annotation, annotationID, notes, submitting, sends,
                   store, clicks>>

-----------------------------------------------------------------------------
(* The notes. *)

\* A comment on a selection, or the one on the whole document.
Comment ==
    /\ annotation # None /\ ~submitting /\ annotation \notin notes
    /\ notes' = notes \cup {annotation} /\ refit' = FALSE
    /\ UNCHANGED <<tabs, annotation, annotationID, syncFailed, submitting,
                   fetch, sends, store, stale, clicks, faults>>

Send ==
    /\ annotation # None /\ ~submitting
    /\ submitting' = TRUE
    /\ sends' = sends \cup {[id |-> annotation, phase |-> "asked",
                             here |-> TRUE]}
    /\ refit' = FALSE
    /\ UNCHANGED <<tabs, annotation, annotationID, syncFailed, notes, fetch,
                   store, stale, clicks, faults>>

Goes(s, phase) == sends' = (sends \ {s}) \cup {[s EXCEPT !.phase = phase]}

ServerCompletes(s) ==
    /\ s.phase = "asked" /\ refit' = FALSE
    /\ IF open = s.id
       THEN /\ open' = None /\ due' = TRUE /\ Goes(s, "done")
       ELSE /\ Goes(s, "refused") /\ UNCHANGED <<open, due>>
    /\ UNCHANGED <<tabs, review, fetch, reviews, stale, clicks, faults>>

SendBreaks(s) ==
    /\ s.phase # "refused" /\ faults < MaxFaults
    /\ faults' = faults + 1 /\ refit' = FALSE
    /\ Goes(s, "refused")
    /\ UNCHANGED <<tabs, review, fetch, store, stale, clicks>>

\* onCompleted: whatever review is shown by now is taken away.
Answered(s) ==
    /\ s.phase = "done"
    /\ annotationID' = None /\ annotation' = None
    /\ notes' = {} /\ submitting' = FALSE
    /\ sends' = {[t EXCEPT !.here = FALSE] : t \in sends \ {s}}
    /\ Shows(Fallback(source), Repaired(secondary), suppress, TRUE)
    /\ stale' = (stale \/ annotation \notin {s.id, None})
    /\ UNCHANGED <<focused, syncFailed, fetch, store, clicks, faults>>

Refused(s) ==
    /\ s.phase = "refused" /\ sends' = sends \ {s}
    /\ submitting' = (submitting /\ ~s.here) /\ refit' = FALSE
    /\ UNCHANGED <<tabs, annotation, annotationID, syncFailed, notes, fetch,
                   store, stale, clicks, faults>>

-----------------------------------------------------------------------------
(* The agent, whose command waits for the notes or is interrupted. *)

AgentAsks ==
    /\ open = None /\ reviews < MaxReviews
    /\ reviews' = reviews + 1 /\ open' = reviews + 1 /\ due' = TRUE
    /\ refit' = FALSE
    /\ UNCHANGED <<tabs, review, fetch, sends, stale, clicks, faults>>

\* Fault: no event tells that a review was cancelled.
AgentCancelsSilently ==
    /\ open # None /\ open' = None /\ refit' = FALSE
    /\ UNCHANGED <<tabs, review, fetch, sends, reviews, due, stale, clicks,
                   faults>>

AgentCancels ==
    /\ open # None /\ open' = None /\ due' = TRUE /\ refit' = FALSE
    /\ UNCHANGED <<tabs, review, fetch, sends, reviews, stale, clicks,
                   faults>>

PaneInit ==
    /\ source = "terminal" /\ secondary = None /\ dragging = FALSE
    /\ suppress = FALSE /\ focused = TRUE /\ refit = FALSE
    /\ annotation = None /\ annotationID = None /\ syncFailed = FALSE
    /\ fetch = [phase |-> "asked", result |-> None]
    /\ notes = {} /\ submitting = FALSE /\ sends = {}
    /\ open = None /\ reviews = 0
    /\ due = FALSE /\ stale = FALSE /\ clicks = 0 /\ faults = 0

PaneNext ==
    \/ \E s \in Sources : ClickTab(s) \/ ToggleSecond(s)
    \/ NextTab \/ Drag \/ FocusPane
    \/ HearEvent \/ Retry \/ ServerReads \/ Fetched \/ FetchFails
    \/ Comment \/ Send
    \/ \E s \in sends :
           ServerCompletes(s) \/ SendBreaks(s) \/ Answered(s) \/ Refused(s)
    \/ AgentAsks \/ AgentCancels

-----------------------------------------------------------------------------
(* Properties. *)

PaneTypeOK ==
    /\ source \in Sources /\ secondary \in Sources \cup {None}
    /\ {dragging, suppress, focused, refit, syncFailed, submitting, due, stale}
           \subseteq BOOLEAN
    /\ {annotation, annotationID, open} \subseteq Reviews \cup {None}
    /\ notes \subseteq Reviews /\ reviews \in 0..MaxReviews
    /\ \A s \in sends : s.id \in Reviews

\* A pane never shows a source that is not there: whichever of an answer, an
\* event and the completion of a review comes first, the tab and the split that
\* showed the review are repaired in the same step that takes it away.
NoBlankSource == Visible("annotation") => annotation # None

\* Once it heard of every event and no fetch is under way, the pane shows exactly
\* the review the agent waits for.  A request that failed, and an answer to Send
\* comments that comes after the next review is shown, are the exceptions.
ReviewShown ==
    ~due /\ fetch = None /\ ~stale => annotation = open

\* Notes about a review the agent still waits for are never dropped: not by a
\* refresh, not by a Send that failed and not by an answer that was asked for
\* before.  Only the late answer of ReviewShown drops them.
NotesSafe ==
    [][\A r \in notes \ notes' : r # open' \/ stale']_paneVars

\* A terminal that gets the whole pane back is fitted again, whether a tab, a
\* split that closes or a review that ends gives it the room.
TerminalRefitted ==
    [][~SoleTerminal /\ SoleTerminal' => refit']_paneVars

\* What no step of the pane may do.
PaneKeeps == NotesSafe /\ TerminalRefitted

PaneSpec == PaneInit /\ [][PaneNext]_paneVars

=============================================================================
