---------------------------- MODULE ProjectGroups ----------------------------
(***************************************************************************)
(* The sidebar's projects and the terminals under them                     *)
(* (web/src/components/ProjectSidebar.tsx, web/src/App.tsx): dragging      *)
(* terminals within their group, dragging projects, and adding one.        *)
(*                                                                         *)
(* The order of the projects goes to internal/project/project.go, which    *)
(* takes only complete lists, and the page never reads it again.  What     *)
(* becomes of the order of terminals is the subject of SessionLists.       *)
(* Archived rows, which cannot be moved, are left out.                     *)
(***************************************************************************)
EXTENDS Absence, Rows, FiniteSets

CONSTANTS
    Projects,
    Grouped,        \* the terminals of the sidebar
    ProjectOf,      \* the project of each
    MaxDrags,       \* bound: acts of the user
    MaxTrouble      \* bound: requests that fail, answers lost, other clients

ASSUME ProjectsAssumption ==
    /\ IsFiniteSet(Projects) /\ None \notin Projects
    /\ ProjectOf \in [Grouped -> Projects]
    /\ {MaxDrags, MaxTrouble} \subseteq Nat

Rests == [phase |-> "none"]

VARIABLES
    listed,         \* the terminals of the page, in their order
    held,           \* draggedSessionIDRef
    filtering,      \* a filter is typed
    ordinalOf, nextOrdinal,     \* the numbers in names of new terminals, 0 for none
    inGroup,        \* history: each group as its own drags should have left it
    saved,          \* the server's projects
    row,            \* the page's projects, projectStateRef
    committed, desired, revision,   \* sidebarProjectOrderSyncRef, <<>> for null
    flight,         \* its request in flight
    dialogOpen, draftPath, picking, \* the dialog that adds a project
    picks,          \* folder pickers that have not answered
    creating,       \* the request of submitProject
    undisturbed,    \* history: see ProjectsAgree
    drags, trouble

groupVars == <<listed, held, filtering, ordinalOf, nextOrdinal, inGroup>>
orderVars == <<committed, desired, revision, flight>>
dialogVars == <<dialogOpen, draftPath, picking, picks, creating>>
projectVars == <<saved, row, orderVars, dialogVars, undisturbed, trouble>>
sidebarVars == <<groupVars, projectVars, drags>>

Drags == drags < MaxDrags /\ drags' = drags + 1
Troubles == trouble < MaxTrouble /\ trouble' = trouble + 1

-----------------------------------------------------------------------------
(* Terminals in their groups.  A project this page does not know has its     *)
(* terminals under "Unassigned".                                             *)

Group(t) == IF ProjectOf[t] \in ToSet(row) THEN ProjectOf[t] ELSE None
Members(g) == {t \in Grouped : Group(t) = g}

\* reorderSessionGroup and reorderSessionByOffset: the group is permuted, and its
\* places in the whole list are filled with it.
MovedInGroup(from, to) ==
    LET group == Keep(listed, Members(Group(to)))
        permuted == Moved(group, Place(group, from), Place(group, to))
    IN  [i \in DOMAIN listed |->
            IF listed[i] \in ToSet(group)
            THEN permuted[Cardinality({j \in 1..i : listed[j] \in ToSet(group)})]
            ELSE listed[i]]

Move(from, to) ==
    /\ {from, to} \subseteq ToSet(listed) /\ from # to
    /\ Group(from) = Group(to) /\ ~filtering
    /\ listed' = MovedInGroup(from, to)
    /\ LET group == inGroup[Group(to)]
       IN  inGroup' = [inGroup EXCEPT
               ![Group(to)] = Moved(group, Place(group, from), Place(group, to))]
    /\ UNCHANGED <<filtering, ordinalOf, nextOrdinal, projectVars>>

Grab(t) ==
    /\ Drags /\ t \in ToSet(listed) /\ ~filtering /\ held' = t
    /\ UNCHANGED <<listed, filtering, ordinalOf, nextOrdinal, inGroup, projectVars>>

\* A drop on another row; dragend follows unless the dragged row has gone.
DropOn(t) == held # None /\ Move(held, t) /\ held' = None /\ UNCHANGED drags

LetGo ==
    /\ held # None /\ held' = None
    /\ UNCHANGED <<listed, filtering, ordinalOf, nextOrdinal, inGroup, projectVars,
                   drags>>

\* Alt with an arrow, or the context menu: the neighbour in the group.
StepTo(t, other) ==
    /\ Drags /\ Move(t, other) /\ UNCHANGED held
    /\ LET group == Keep(listed, Members(Group(t)))
       IN  Place(group, t) \in {Place(group, other) - 1, Place(group, other) + 1}

TypeFilter ==
    /\ Drags /\ filtering' = ~filtering
    /\ UNCHANGED <<listed, held, ordinalOf, nextOrdinal, inGroup, projectVars>>

\* A terminal of a list; the render numbers it once and for all.
Appears(t) ==
    /\ Drags /\ t \notin ToSet(listed) /\ listed' = Append(listed, t)
    /\ LET p == ProjectOf[t]
       IN  /\ nextOrdinal' = IF ordinalOf[t] # 0 THEN nextOrdinal
                             ELSE [nextOrdinal EXCEPT ![p] = @ + 1]
           /\ ordinalOf' = IF ordinalOf[t] # 0 THEN ordinalOf
                           ELSE [ordinalOf EXCEPT ![t] = nextOrdinal[p] + 1]
           /\ inGroup' = [inGroup EXCEPT ![Group(t)] = Append(@, t)]
    /\ UNCHANGED <<held, filtering, projectVars>>

\* It leaves, and takes the dragend of its row with it.
Vanishes(t) ==
    /\ Drags /\ t \in ToSet(listed) /\ listed' = Drop(listed, {t})
    /\ inGroup' = [inGroup EXCEPT ![Group(t)] = Drop(@, {t})]
    /\ UNCHANGED <<held, filtering, ordinalOf, nextOrdinal, projectVars>>

-----------------------------------------------------------------------------
(* The order of the projects: optimistic, one request at a time.             *)

\* flushSidebarProjectOrder, with the values after the step.
Flushed == IF desired' = <<>> THEN Rests
           ELSE [phase |-> "sent", ids |-> desired', revision |-> revision']

\* The order the server had when it last answered, or has put in force.
Known == IF flight.phase = "saved" THEN flight.ids ELSE committed
Added == ToSet(row) \ ToSet(Known)

\* dropProject and reorderProjectByOffset, then reorderSidebarProjects.
DragProject(from, to) ==
    /\ Drags /\ {from, to} \subseteq DOMAIN row /\ from # to /\ ~filtering
    /\ row' = Moved(row, from, to)
    /\ committed' = IF desired = <<>> THEN row ELSE committed
    /\ desired' = row' /\ revision' = revision + 1
    /\ flight' = IF flight = Rests THEN Flushed ELSE flight
    /\ undisturbed' = (undisturbed /\ (flight = Rests \/ Cardinality(Added) <= 1))
    /\ UNCHANGED <<groupVars, saved, dialogVars, trouble>>

\* Service.Reorder, of a complete list.
ServerReorders ==
    /\ flight.phase = "sent" /\ ToSet(flight.ids) = ToSet(saved)
    /\ saved' = flight.ids
    /\ flight' = [flight EXCEPT !.phase = "saved"]
    /\ UNCHANGED <<groupVars, row, committed, desired, revision, dialogVars, undisturbed,
                   trouble, drags>>

\* It is not complete, or the store fails.
ServerRefuses ==
    /\ flight.phase = "sent"
    /\ \/ ToSet(flight.ids) # ToSet(saved) /\ UNCHANGED trouble
       \/ Troubles
    /\ flight' = [flight EXCEPT !.phase = "failed"]
    /\ UNCHANGED <<groupVars, saved, row, committed, desired, revision, dialogVars,
                   undisturbed, drags>>

OrderAnswerLost ==
    /\ flight.phase = "saved" /\ Troubles /\ undisturbed' = FALSE
    /\ flight' = [flight EXCEPT !.phase = "failed"]
    /\ UNCHANGED <<groupVars, saved, row, committed, desired, revision, dialogVars,
                   drags>>

\* The list in the answer names the projects of the request.
OrderSaved ==
    /\ flight.phase = "saved" /\ committed' = flight.ids
    /\ LET last == flight.revision = revision
       IN  /\ desired' = IF last THEN <<>> ELSE desired
           /\ row' = IF last THEN InOrder(row, flight.ids) ELSE row
    /\ UNCHANGED revision /\ flight' = Flushed
    /\ UNCHANGED <<groupVars, saved, dialogVars, undisturbed, trouble, drags>>

\* A failure of the last request puts back what was saved before.
RolledBack == committed

OrderFailed ==
    /\ flight.phase = "failed"
    /\ LET last == flight.revision = revision
       IN  /\ desired' = IF last THEN <<>> ELSE desired
           /\ row' = IF last THEN InOrder(row, RolledBack) ELSE row
    /\ UNCHANGED revision /\ flight' = Flushed
    /\ UNCHANGED <<groupVars, saved, committed, dialogVars, undisturbed, trouble, drags>>

-----------------------------------------------------------------------------
(* Adding a project.                                                         *)

\* openProjectDialog forgets a picker that is still open.
OpenDialog ==
    /\ Drags /\ ~dialogOpen /\ dialogOpen' = TRUE
    /\ draftPath' = None /\ picking' = FALSE
    /\ UNCHANGED <<groupVars, saved, row, orderVars, picks, creating, undisturbed,
                   trouble>>

CloseDialog ==
    /\ dialogOpen /\ creating = Rests /\ dialogOpen' = FALSE
    /\ UNCHANGED <<groupVars, saved, row, orderVars, draftPath, picking, picks,
                   creating, undisturbed, trouble, drags>>

TypePath(p) ==
    /\ Drags /\ dialogOpen /\ creating = Rests /\ ~picking /\ p # draftPath
    /\ draftPath' = p
    /\ UNCHANGED <<groupVars, saved, row, orderVars, dialogOpen, picking, picks,
                   creating, undisturbed, trouble>>

\* chooseProjectDirectory
Pick ==
    /\ Drags /\ dialogOpen /\ creating = Rests /\ ~picking
    /\ picking' = TRUE /\ picks' = picks + 1
    /\ UNCHANGED <<groupVars, saved, row, orderVars, dialogOpen, draftPath, creating,
                   undisturbed, trouble>>

\* A folder, or nothing; it fills whatever dialog there is.
Picked(p) ==
    /\ picks > 0 /\ picks' = picks - 1 /\ picking' = FALSE
    /\ draftPath' = IF p = None THEN draftPath ELSE p
    /\ UNCHANGED <<groupVars, saved, row, orderVars, dialogOpen, creating, undisturbed,
                   trouble, drags>>

SubmitProject ==
    /\ dialogOpen /\ creating = Rests /\ draftPath # None
    /\ creating' = [phase |-> "sent", project |-> draftPath]
    /\ UNCHANGED <<groupVars, saved, row, orderVars, dialogOpen, draftPath, picking,
                   picks, undisturbed, trouble, drags>>

\* Service.Create: a project for this directory may exist already; another is
\* numbered after the others.
ServerCreatesProject ==
    /\ creating.phase = "sent"
    /\ IF creating.project \in ToSet(saved)
       THEN /\ creating' = [creating EXCEPT !.phase = "failed"]
            /\ UNCHANGED <<saved, trouble>>
       ELSE \/ /\ saved' = Append(saved, creating.project)
               /\ creating' = [creating EXCEPT !.phase = "created"]
               /\ UNCHANGED trouble
            \/ /\ Troubles /\ creating' = [creating EXCEPT !.phase = "failed"]
               /\ UNCHANGED saved
    /\ UNCHANGED <<groupVars, row, orderVars, dialogOpen, draftPath, picking, picks,
                   undisturbed, drags>>

CreateAnswerLost ==
    /\ creating.phase = "created" /\ Troubles /\ undisturbed' = FALSE
    /\ creating' = [creating EXCEPT !.phase = "failed"]
    /\ UNCHANGED <<groupVars, saved, row, orderVars, dialogOpen, draftPath, picking,
                   picks, drags>>

ProjectCreated ==
    /\ creating.phase = "created" /\ creating' = Rests
    /\ row' = Append(Drop(row, {creating.project}), creating.project)
    /\ draftPath' = None /\ dialogOpen' = FALSE
    /\ UNCHANGED <<groupVars, saved, orderVars, picking, picks, undisturbed, trouble,
                   drags>>

ProjectRefused ==
    /\ creating.phase = "failed" /\ creating' = Rests
    /\ UNCHANGED <<groupVars, saved, row, orderVars, dialogOpen, draftPath, picking,
                   picks, undisturbed, trouble, drags>>

OtherCreates(p) ==
    /\ Troubles /\ p \notin ToSet(saved) /\ saved' = Append(saved, p)
    /\ undisturbed' = FALSE
    /\ UNCHANGED <<groupVars, row, orderVars, dialogVars, drags>>

-----------------------------------------------------------------------------
SidebarInit ==
    /\ saved \in {<<>>, SetToSeq(Projects)} \cup
           {Drop(SetToSeq(Projects), {p}) : p \in Projects}
    /\ row = saved
    /\ listed = <<>> /\ held = None /\ filtering = FALSE
    /\ ordinalOf = [t \in Grouped |-> 0] /\ nextOrdinal = [p \in Projects |-> 0]
    /\ inGroup = [g \in Projects \cup {None} |-> <<>>]
    /\ committed = <<>> /\ desired = <<>> /\ revision = 0 /\ flight = Rests
    /\ dialogOpen = FALSE /\ draftPath = None /\ picking = FALSE /\ picks = 0
    /\ creating = Rests /\ undisturbed = TRUE /\ drags = 0 /\ trouble = 0

GroupsNext ==
    \/ \E t \in Grouped : Grab(t) \/ DropOn(t) \/ Appears(t) \/ Vanishes(t)
    \/ \E t, u \in Grouped : StepTo(t, u)
    \/ LetGo \/ TypeFilter

ProjectsNext ==
    \/ \E i, j \in DOMAIN row : DragProject(i, j)
    \/ ServerReorders \/ ServerRefuses \/ OrderAnswerLost
    \/ OrderSaved \/ OrderFailed
    \/ OpenDialog \/ CloseDialog \/ Pick \/ SubmitProject
    \/ \E p \in Projects : TypePath(p) \/ OtherCreates(p)
    \/ \E p \in Projects \cup {None} : Picked(p)
    \/ ServerCreatesProject \/ CreateAnswerLost \/ ProjectCreated \/ ProjectRefused

SidebarTypeOK ==
    /\ ToSet(listed) \subseteq Grouped /\ held \in Grouped \cup {None}
    /\ {ToSet(saved), ToSet(row)} \subseteq SUBSET Projects
    /\ draftPath \in Projects \cup {None} /\ picks \in Nat
    /\ flight.phase \in {"none", "sent", "saved", "failed"}
    /\ creating.phase \in {"none", "sent", "created", "failed"}

\* A drag moves a terminal among those of its own project and leaves the others
\* where they were, and no two terminals of a project have one number.
GroupsKeepOrder ==
    /\ \A g \in DOMAIN inGroup : Keep(listed, Members(g)) = inGroup[g]
    /\ \A t, u \in ToSet(listed) :
           t # u /\ ProjectOf[t] = ProjectOf[u] => ordinalOf[t] # ordinalOf[u]

\* Once its requests are answered the page has the server's projects in their
\* order, whichever drags and additions overlapped or failed, provided no answer
\* was lost, nobody else added one, and none was dragged while an order was on its
\* way that lacked two: a failure leaves new ones as they were dragged.  A request
\* to add keeps its dialog open.
ProjectsAgree ==
    /\ undisturbed /\ flight = Rests /\ creating = Rests => row = saved
    /\ creating # Rests => dialogOpen
=============================================================================
