------------------------------ MODULE PaneRail ------------------------------
(***************************************************************************)
(* The panes of the selected terminals, of which as many show as fit       *)
(* (web/src/components/PaneCarousel.tsx), and the views of terminals that  *)
(* are no longer selected, which the page keeps mounted but hidden so that *)
(* they need not replay their output (web/src/App.tsx).                    *)
(***************************************************************************)
EXTENDS Absence, Rows, FiniteSets

CONSTANTS
    Panes,
    MaxCapacity,    \* the widest window, in panes of MIN_PANE_WIDTH
    MaxCached,      \* maxCachedTerminalViews
    MaxSelections   \* bound: changes of the selection and of the terminals

ASSUME RailAssumption ==
    /\ IsFiniteSet(Panes) /\ None \notin Panes
    /\ {MaxCapacity, MaxCached} \subseteq Nat \ {0} /\ MaxSelections \in Nat

VARIABLES
    living,         \* the terminals of the last list
    chosen,         \* selectedIDs
    front,          \* focusedID
    capacity,       \* viewportWidth divided by MIN_PANE_WIDTH, at least 1
    offset,         \* the first pane that shows
    byHand,         \* manualNavigationRef
    lastFront, lastRow, lastCount,  \* previousFocusedIDRef, previousPaneKeyRef,
                                    \* previousVisibleCountRef
    opened,         \* openedTerminalIDs, a set in the order of insertion
    hidden,         \* cachedPanes of the last render
    chosenAt,       \* history: when each terminal was last selected
    evicted,        \* history: a view went although another should have gone
    selections

railVars == <<living, chosen, front, capacity, offset, byHand, lastFront, lastRow,
              lastCount, opened, hidden, chosenAt, evicted, selections>>
carousel == <<offset, byHand, lastFront, lastRow, lastCount>>
views == <<living, chosen, front, opened, hidden, chosenAt, evicted, selections>>

Newest(row) == IF Len(row) <= MaxCached THEN row
               ELSE SubSeq(row, Len(row) - MaxCached + 1, Len(row))

Smaller(a, b) == IF a < b THEN a ELSE b

\* displayedPanes, visiblePaneCount and maxOffset.
Row == Keep(chosen, living)
Count(row, c) == Smaller(Len(row), c)
LastOffset(row, c) == Len(row) - Count(row, c)
Visible == {Row[i] : i \in {j \in DOMAIN Row :
                j > offset /\ j <= offset + Count(Row, capacity)}}
Mounted == Visible \cup ToSet(hidden)

-----------------------------------------------------------------------------
\* focusOrPanesChanged, or capacityChanged while the user has not moved the row.
Follows(row, focus, count, hand) ==
    focus # lastFront \/ row # lastRow \/ (count # lastCount /\ ~hand)

\* The two layout effects: an offset comes back into the row, and the row moves
\* until its focused pane shows.  Indices count from 0.
LaidOut(row, focus, c) ==
    LET max == LastOffset(row, c)
        count == Count(row, c)
        hand == byHand /\ max # 0
        within == Smaller(offset, max)
        index == {i \in 0..(Len(row) - 1) : row[i + 1] = focus}
        at == CHOOSE i \in index : TRUE
    IN  /\ byHand' = (hand /\ focus = lastFront /\ row = lastRow)
        /\ lastFront' = focus /\ lastRow' = row /\ lastCount' = count
        /\ offset' =
             IF ~Follows(row, focus, count, hand) \/ index = {} THEN within
             ELSE IF at < within THEN at
             ELSE IF at >= within + count THEN Smaller(max, at - count + 1)
             ELSE within

\* The layout effect of the page: terminals that are gone leave openedTerminalIDs,
\* selected ones move to its end, and the oldest hidden ones leave.
Opened(row, alive) ==
    LET visited == Drop(Keep(opened, alive), ToSet(row)) \o Keep(row, alive)
        kept == ToSet(Newest(Drop(visited, ToSet(row))))
    IN  Keep(visited, kept \cup ToSet(row))

\* A render of the page: what is hidden is computed before the effect runs, and a
\* terminal that has just gone still takes a place.
Render(alive, row, focus) ==
    /\ living' = alive /\ chosen' = row /\ front' = focus
    /\ hidden' = Keep(Newest(Drop(opened, ToSet(row))), alive)
    /\ opened' = Opened(row, alive)
    /\ LaidOut(Keep(row, alive), focus, capacity)
    /\ chosenAt' = [p \in Panes |-> IF p \in ToSet(row) THEN selections'
                                    ELSE chosenAt[p]]
    /\ evicted' = (evicted \/
            \E p \in (Mounted \cap alive) \ (ToSet(row) \cup ToSet(hidden')) :
                /\ ToSet(opened) \subseteq alive
                /\ \/ Len(hidden') < MaxCached
                   \/ \E q \in ToSet(hidden') : chosenAt[q] < chosenAt[p])
    /\ UNCHANGED capacity

Counted == selections < MaxSelections /\ selections' = selections + 1

\* A click, a snapshot of the selection, a new terminal.
SelectPanes(row) ==
    /\ Counted /\ row # chosen /\ ToSet(row) \subseteq living
    /\ \E focus \in ToSet(row) \cup {None} :
           /\ (focus = None) = (row = <<>>)
           /\ Render(living, row, focus)

\* Its session leaves the list, with its selection or before it.
TerminalGone(p) ==
    /\ Counted /\ p \in living
    /\ \E row \in {chosen, Drop(chosen, {p})} :
           Render(living \ {p}, row,
                  IF front # p \/ p \in ToSet(row) THEN front
                  ELSE IF row = <<>> THEN None ELSE Head(row))

\* focusPane, by a click on a pane that shows or by a shortcut.
FocusRail(p) ==
    /\ p \in ToSet(Row) /\ p # front
    /\ UNCHANGED selections /\ Render(living, chosen, p)

\* The page renders again, as it does with every poll.
RenderAgain ==
    /\ UNCHANGED selections /\ Render(living, chosen, front)

\* The ResizeObserver.
ResizeRail(c) ==
    /\ c # capacity /\ capacity' = c
    /\ LaidOut(Row, front, c)
    /\ UNCHANGED views

PreviousPane ==
    /\ offset > 0 /\ offset' = offset - 1 /\ byHand' = TRUE
    /\ UNCHANGED <<lastFront, lastRow, lastCount, capacity, views>>

NextPane ==
    /\ offset < LastOffset(Row, capacity) /\ offset' = offset + 1 /\ byHand' = TRUE
    /\ UNCHANGED <<lastFront, lastRow, lastCount, capacity, views>>

-----------------------------------------------------------------------------
RailInit ==
    /\ living = Panes /\ chosen = <<>> /\ front = None
    /\ capacity = 1 /\ offset = 0 /\ byHand = FALSE
    /\ lastFront = None /\ lastRow = <<>> /\ lastCount = 0
    /\ opened = <<>> /\ hidden = <<>>
    /\ chosenAt = [p \in Panes |-> 0] /\ evicted = FALSE /\ selections = 0

RailNext ==
    \/ \E S \in SUBSET Panes : \E row \in SetToSeqs(S) : SelectPanes(row)
    \/ \E p \in Panes : TerminalGone(p) \/ FocusRail(p)
    \/ RenderAgain \/ PreviousPane \/ NextPane
    \/ \E c \in 1..MaxCapacity : ResizeRail(c)

RailTypeOK ==
    /\ {ToSet(chosen), ToSet(opened), ToSet(hidden)} \subseteq SUBSET Panes
    /\ living \subseteq Panes /\ front \in Panes \cup {None}
    /\ capacity \in 1..MaxCapacity /\ offset \in Nat

\* The row never scrolls past its end, and shows the focused pane unless the user
\* moved it by hand, whatever panes come and go and however the window changes.
FocusShows ==
    /\ offset <= LastOffset(Row, capacity)
    /\ ~byHand /\ front \in ToSet(Row) => front \in Visible

\* Hidden views stay few and are never of a terminal that is selected or gone; one
\* is given up only for as many that were selected later.
RecentViewsKept ==
    /\ Len(hidden) <= MaxCached /\ ToSet(hidden) \cap ToSet(chosen) = {}
    /\ ToSet(hidden) \subseteq living
    /\ ~evicted
=============================================================================
