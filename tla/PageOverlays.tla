---------------------------- MODULE PageOverlays ----------------------------
(***************************************************************************)
(* What opens over the page (web/src/App.tsx): the palette of quick        *)
(* actions with its recent ones, the dialogs that rename and delete        *)
(* terminals, and the card about the terminal under the pointer            *)
(* (components/SessionNavigation.tsx).  Each keeps what it showed when it  *)
(* opened while the terminals change under it.                             *)
(*                                                                         *)
(* The selection that follows is the subject of SharedSelection.  One      *)
(* batch of deletions runs at a time.                                      *)
(***************************************************************************)
EXTENDS Absence, Rows, FiniteSets

CONSTANTS
    Shells,         \* terminals
    StatusOf,       \* sessionActivity of each
    Searches,       \* what the user types into the palette: the values it matches
    RecentLimit,    \* recentQuickActionsLimit
    MaxGestures,    \* bound: acts of the user
    MaxMishaps      \* bound: terminals deleted elsewhere, requests that fail

ShellStatuses == {StatusOf[t] : t \in Shells}
Standing == {"delete-selected", "rename", "alerts"}
Values == Standing \cup Shells \cup ShellStatuses

\* The order of the palette: actions first, then terminals.
PaletteOrder ==
    <<"delete-selected", "rename", "alerts">> \o SetToSeq(ShellStatuses) \o SetToSeq(Shells)

ASSUME OverlayAssumption ==
    /\ IsFiniteSet(Shells) /\ Shells \cap (Standing \cup ShellStatuses) = {}
    /\ Standing \cap ShellStatuses = {} /\ RecentLimit \in Nat \ {0}
    /\ Searches \subseteq SUBSET Values
    /\ {MaxGestures, MaxMishaps} \subseteq Nat

NoRequest == [phase |-> "none"]

VARIABLES
    alive,          \* the server's terminals
    nameAt,         \* and their names, as numbers
    onPage,         \* the terminals of the page
    nameShown,      \* and their names there
    ticked,         \* the selected ones
    recent,         \* recentQuickActionValues
    paletteOpen, search, highlighted,   \* commandOpen, commandQuery, commandValue
    pendingDelete,  \* the terminals of the dialog, in order, <<>> if closed
    batch,          \* deleteSessions: what is left of it, and its request
    confirmed,      \* history: terminals a confirmed dialog named
    pendingRename, renameDraft,
    renameRequest,  \* renameSubmitting and the request
    attended,       \* history: the last row that was entered and not left
    cardTimer, cardOf,  \* sessionInfoPendingIDRef with its timer, sessionInfoHover
    astray,         \* history: an answer was lost
    gestures, mishaps

paletteVars == <<recent, paletteOpen, search, highlighted>>
deleteVars == <<pendingDelete, batch, confirmed>>
renameVars == <<pendingRename, renameDraft, renameRequest>>
cardVars == <<attended, cardTimer, cardOf>>
terminalVars == <<alive, nameAt, onPage, nameShown, ticked>>
overlayVars == <<terminalVars, paletteVars, deleteVars, renameVars, cardVars,
                 astray, gestures, mishaps>>

Gesture == gestures < MaxGestures /\ gestures' = gestures + 1 /\ UNCHANGED mishaps
Mishap == mishaps < MaxMishaps /\ mishaps' = mishaps + 1 /\ UNCHANGED gestures
Quietly == UNCHANGED <<gestures, mishaps>>

-----------------------------------------------------------------------------
(* The palette. *)

\* availableQuickActionValues
Available(page, selected) ==
    {"alerts"} \cup (IF selected \cap page # {} THEN {"delete-selected", "rename"} ELSE {})
        \cup page \cup {StatusOf[t] : t \in page}

\* quickActionGroups: without a query the recent ones come first.
OfferedFor(query) ==
    LET matching == Available(onPage, ticked) \cap query
        first == IF query = Values THEN Keep(recent, matching) ELSE <<>>
    IN  first \o Keep(PaletteOrder, matching \ ToSet(first))

Offered == OfferedFor(search)

TopOf(row) == IF row = <<>> THEN None ELSE Head(row)

\* openCommands highlights a recent action, or one that creates a terminal.
OpenCommands ==
    /\ Gesture /\ ~paletteOpen /\ paletteOpen' = TRUE /\ search' = Values
    /\ highlighted' = TopOf(Keep(recent, Available(onPage, ticked)))
    /\ UNCHANGED <<terminalVars, recent, deleteVars, renameVars, cardVars, astray>>

CloseCommands ==
    /\ paletteOpen /\ paletteOpen' = FALSE /\ Quietly
    /\ UNCHANGED <<terminalVars, recent, search, highlighted, deleteVars, renameVars,
                   cardVars, astray>>

\* updateCommandQuery
Search(query) ==
    /\ Gesture /\ paletteOpen /\ search # query /\ search' = query
    /\ highlighted' = TopOf(OfferedFor(query))
    /\ UNCHANGED <<terminalVars, recent, paletteOpen, deleteVars, renameVars, cardVars,
                   astray>>

\* moveCommandSelection: from the end it goes round, from nowhere to an end.
MoveHighlight(offset) ==
    /\ Gesture /\ paletteOpen /\ Offered # <<>>
    /\ LET n == Len(Offered)
           at == {i \in 1..n : Offered[i] = highlighted}
           next == IF at = {} THEN IF offset = 1 THEN 1 ELSE n
                   ELSE 1 + (((CHOOSE i \in at : TRUE) - 1 + offset + n) % n)
       IN  highlighted' = Offered[next]
    /\ UNCHANGED <<terminalVars, recent, paletteOpen, search, deleteVars, renameVars,
                   cardVars, astray>>

\* runQuickAction, by a click or by Enter on what is highlighted.
Remembered(value) ==
    LET row == <<value>> \o Drop(recent, {value})
    IN  SubSeq(row, 1, IF Len(row) < RecentLimit THEN Len(row) ELSE RecentLimit)

Run(value) ==
    /\ Gesture /\ paletteOpen /\ value \in ToSet(Offered)
    /\ recent' = Remembered(value) /\ paletteOpen' = FALSE
    /\ ticked' = IF value \in Shells THEN {value}
                 ELSE IF value \in ShellStatuses THEN {t \in onPage : StatusOf[t] = value}
                 ELSE ticked
    /\ IF value = "delete-selected" THEN pendingDelete' = Keep(PaletteOrder, ticked)
       ELSE UNCHANGED pendingDelete
    /\ IF value = "rename"
       THEN \E t \in ticked : pendingRename' = t /\ renameDraft' = nameShown[t]
       ELSE UNCHANGED <<pendingRename, renameDraft>>
    /\ UNCHANGED <<alive, nameAt, onPage, nameShown, search, highlighted, batch,
                   confirmed, renameRequest, cardVars, astray>>

\* The effect on recentQuickActionValues.
RecentLeft(page, selected) == Keep(recent, Available(page, selected))

\* A render with other terminals or another selection.
PageHas(page, selected) ==
    /\ onPage' = page /\ ticked' = selected \cap page
    /\ recent' = RecentLeft(page, selected \cap page)
    /\ UNCHANGED <<paletteOpen, search, highlighted>>

Tick(t) ==
    /\ Gesture /\ t \in onPage
    /\ PageHas(onPage, IF t \in ticked THEN ticked \ {t} ELSE ticked \cup {t})
    /\ UNCHANGED <<alive, nameAt, nameShown, deleteVars, renameVars, cardVars, astray>>

GoneElsewhere(t) ==
    /\ Mishap /\ t \in alive /\ alive' = alive \ {t}
    /\ UNCHANGED <<nameAt, onPage, nameShown, ticked, paletteVars, deleteVars,
                   renameVars, cardVars, astray>>

PollPage ==
    /\ PageHas(alive, ticked) /\ nameShown' = nameAt /\ Quietly
    /\ UNCHANGED <<alive, nameAt, deleteVars, renameVars, cardVars, astray>>

-----------------------------------------------------------------------------
(* Deleting. *)

AskToDelete(t) ==
    /\ Gesture /\ t \in onPage /\ pendingDelete = <<>> /\ pendingDelete' = <<t>>
    /\ UNCHANGED <<terminalVars, paletteVars, batch, confirmed, renameVars, cardVars,
                   astray>>

CancelDelete ==
    /\ pendingDelete # <<>> /\ pendingDelete' = <<>> /\ Quietly
    /\ UNCHANGED <<terminalVars, paletteVars, batch, confirmed, renameVars, cardVars,
                   astray>>

ConfirmDelete ==
    /\ pendingDelete # <<>> /\ batch = NoRequest /\ Quietly
    /\ batch' = [phase |-> "sent", rest |-> pendingDelete]
    /\ confirmed' = confirmed \cup ToSet(pendingDelete) /\ pendingDelete' = <<>>
    /\ UNCHANGED <<terminalVars, paletteVars, renameVars, cardVars, astray>>

\* DeleteTerminal; a terminal that has gone is an error.
ServerDeletes ==
    /\ batch.phase = "sent"
    /\ LET t == Head(batch.rest)
       IN  \/ /\ t \in alive /\ alive' = alive \ {t} /\ Quietly
              /\ batch' = [batch EXCEPT !.phase = "done"]
           \/ /\ IF t \in alive THEN Mishap ELSE Quietly
              /\ batch' = [batch EXCEPT !.phase = "failed"]
              /\ UNCHANGED alive
    /\ UNCHANGED <<nameAt, onPage, nameShown, ticked, paletteVars, pendingDelete,
                   confirmed, renameVars, cardVars, astray>>

\* The loop of deleteSessions goes on with the next.
DeleteAnswered ==
    /\ batch.phase = "done" /\ Quietly
    /\ batch' = IF Len(batch.rest) = 1 THEN NoRequest
                ELSE [phase |-> "sent", rest |-> Tail(batch.rest)]
    /\ PageHas(onPage \ {Head(batch.rest)}, ticked)
    /\ UNCHANGED <<alive, nameAt, nameShown, pendingDelete, confirmed, renameVars,
                   cardVars, astray>>

\* One that fails ends it.
DeleteFailed ==
    /\ batch.phase = "failed" /\ batch' = NoRequest /\ Quietly
    /\ UNCHANGED <<terminalVars, paletteVars, pendingDelete, confirmed, renameVars,
                   cardVars, astray>>

-----------------------------------------------------------------------------
(* Renaming. *)

OpenRename(t) ==
    /\ Gesture /\ t \in onPage /\ pendingRename = None
    /\ pendingRename' = t /\ renameDraft' = nameShown[t]
    /\ UNCHANGED <<terminalVars, paletteVars, deleteVars, renameRequest, cardVars,
                   astray>>

\* The dialog can be closed while its request is under way.
CloseRename ==
    /\ pendingRename # None /\ pendingRename' = None /\ Quietly
    /\ UNCHANGED <<terminalVars, paletteVars, deleteVars, renameDraft, renameRequest,
                   cardVars, astray>>

TypeName ==
    /\ Gesture /\ pendingRename # None /\ renameRequest = NoRequest
    /\ renameDraft' = renameDraft + 1
    /\ UNCHANGED <<terminalVars, paletteVars, deleteVars, pendingRename, renameRequest,
                   cardVars, astray>>

SubmitRename ==
    /\ pendingRename # None /\ renameRequest = NoRequest /\ Quietly
    /\ renameRequest' = [phase |-> "sent", of |-> pendingRename, name |-> renameDraft]
    /\ UNCHANGED <<terminalVars, paletteVars, deleteVars, pendingRename, renameDraft,
                   cardVars, astray>>

ServerRenames ==
    /\ renameRequest.phase = "sent"
    /\ LET t == renameRequest.of
       IN  \/ /\ t \in alive /\ nameAt' = [nameAt EXCEPT ![t] = renameRequest.name]
              /\ renameRequest' = [renameRequest EXCEPT !.phase = "done"] /\ Quietly
           \/ /\ IF t \in alive THEN Mishap ELSE Quietly
              /\ renameRequest' = [renameRequest EXCEPT !.phase = "failed"]
              /\ UNCHANGED nameAt
    /\ UNCHANGED <<alive, onPage, nameShown, ticked, paletteVars, deleteVars,
                   pendingRename, renameDraft, cardVars, astray>>

RenameAnswerLost ==
    /\ renameRequest.phase = "done" /\ Mishap /\ astray' = TRUE
    /\ renameRequest' = [renameRequest EXCEPT !.phase = "failed"]
    /\ UNCHANGED <<terminalVars, paletteVars, deleteVars, pendingRename, renameDraft,
                   cardVars>>

\* The answer closes whatever rename dialog is open.
RenameAnswered ==
    /\ renameRequest.phase = "done" /\ renameRequest' = NoRequest /\ Quietly
    /\ nameShown' = [nameShown EXCEPT ![renameRequest.of] = renameRequest.name]
    /\ pendingRename' = None
    /\ UNCHANGED <<alive, nameAt, onPage, ticked, paletteVars, deleteVars, renameDraft,
                   cardVars, astray>>

RenameFailed ==
    /\ renameRequest.phase = "failed" /\ renameRequest' = NoRequest /\ Quietly
    /\ UNCHANGED <<terminalVars, paletteVars, deleteVars, pendingRename, renameDraft,
                   cardVars, astray>>

-----------------------------------------------------------------------------
(* The card of a terminal. *)

\* scheduleSessionInfo, when the pointer or the focus comes to a row.
EnterRow(t) ==
    /\ Gesture /\ t \in onPage /\ attended' = t
    /\ cardTimer' = t /\ cardOf' = None
    /\ UNCHANGED <<terminalVars, paletteVars, deleteVars, renameVars, astray>>

\* cancelSessionInfo, when either leaves one, or on Escape.
LeaveRow ==
    /\ attended # None /\ attended' = None /\ Quietly
    /\ cardTimer' = None /\ cardOf' = None
    /\ UNCHANGED <<terminalVars, paletteVars, deleteVars, renameVars, astray>>

CardTimer ==
    /\ cardTimer # None /\ cardTimer' = None /\ Quietly
    /\ cardOf' = IF cardTimer \in onPage THEN cardTimer ELSE cardOf
    /\ UNCHANGED <<terminalVars, paletteVars, deleteVars, renameVars, attended, astray>>

\* hoveredSession
Card == IF cardOf \in onPage THEN cardOf ELSE None

-----------------------------------------------------------------------------
OverlayInit ==
    /\ alive = Shells /\ onPage = Shells /\ ticked = {}
    /\ nameAt = [t \in Shells |-> 0] /\ nameShown = nameAt
    /\ recent = <<>> /\ paletteOpen = FALSE /\ search = Values /\ highlighted = None
    /\ pendingDelete = <<>> /\ batch = NoRequest /\ confirmed = {}
    /\ pendingRename = None /\ renameDraft = 0 /\ renameRequest = NoRequest
    /\ attended = None /\ cardTimer = None /\ cardOf = None
    /\ astray = FALSE /\ gestures = 0 /\ mishaps = 0

OverlayNext ==
    \/ OpenCommands \/ CloseCommands \/ MoveHighlight(1) \/ MoveHighlight(-1)
    \/ \E query \in Searches : Search(query)
    \/ \E value \in Values : Run(value)
    \/ \E t \in Shells :
           Tick(t) \/ GoneElsewhere(t) \/ AskToDelete(t) \/ OpenRename(t) \/ EnterRow(t)
    \/ PollPage
    \/ CancelDelete \/ ConfirmDelete \/ ServerDeletes \/ DeleteAnswered \/ DeleteFailed
    \/ CloseRename \/ TypeName \/ SubmitRename \/ ServerRenames \/ RenameAnswerLost
    \/ RenameAnswered \/ RenameFailed
    \/ LeaveRow \/ CardTimer

OverlayTypeOK ==
    /\ {alive, onPage, ticked, confirmed} \subseteq SUBSET Shells
    /\ ToSet(recent) \subseteq Values /\ search \subseteq Values
    /\ highlighted \in Values \cup {None}
    /\ {pendingRename, attended, cardTimer, cardOf} \subseteq Shells \cup {None}

\* The recent actions can be run, are told apart and are few, whatever terminals
\* go and however the selection changes.
RecentsRunnable ==
    /\ ToSet(recent) \subseteq Available(onPage, ticked)
    /\ IsInjective(recent) /\ Len(recent) <= RecentLimit

\* A terminal the server still runs is never missing from the page, though a batch
\* of deletions fails half way, and the page asks to delete only what a dialog named
\* when it was confirmed, however the selection has changed since.
DeletesAreMeant ==
    /\ alive \subseteq onPage
    /\ batch # NoRequest => ToSet(batch.rest) \subseteq confirmed

\* The page shows the names the server has unless a request is under way or its
\* answer was lost.
NamesAgree ==
    renameRequest = NoRequest /\ ~astray =>
        \A t \in onPage \cap alive : nameShown[t] = nameAt[t]

\* A card shows only while its row is the last that was entered and not left.
CardIsAttended == Card # None => Card = attended

OverlayInv ==
    /\ OverlayTypeOK /\ RecentsRunnable /\ DeletesAreMeant /\ NamesAgree
    /\ CardIsAttended
=============================================================================
