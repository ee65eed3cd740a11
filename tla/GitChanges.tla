------------------------------ MODULE GitChanges ------------------------------
(***************************************************************************)
(* The Changes tab of a pane (web/src/components/GitChangesView.tsx): the  *)
(* changed files of the terminal's repository, read every two seconds,     *)
(* with the diff of the selected one (internal/gitchanges/reader.go).      *)
(***************************************************************************)
EXTENDS Naturals, FiniteSets, FiniteSetsExt, Absence

CONSTANTS
    Paths,          \* numbers, in the order the server lists files in
    MaxChanges,     \* bound: changes of the working tree
    MaxMoves,       \* bound: what the user does
    MaxErrors       \* bound: requests that fail

\* What the server answers, a load with the answer it has, and what is shown.
GitAnswer == [kind : {"missing", "not found"}]
             \cup [kind : {"snapshot"}, files : SUBSET Paths, patch : Paths \cup {None}]
GitRequest == [path : Paths \cup {None}, answer : GitAnswer \cup {None}]
Snapshot == [files : SUBSET Paths, patch : Paths \cup {None}]

ASSUME ChangesAssumption ==
    /\ Paths \subseteq Nat /\ IsFiniteSet(Paths) /\ None \notin Paths
    /\ None \notin GitAnswer \cup GitRequest \cup Snapshot
    /\ {MaxChanges, MaxMoves, MaxErrors} \subseteq Nat

VARIABLES
    changed, repository,    \* the working tree; whether it is one
    onScreen,               \* the property active
    snapshot, selected, gitLoading, gitError,
    first,                  \* the effect closed over no snapshot
    request, timer,         \* load under way, or its next turn
    changes, moves, errors

tree == <<changed, repository, changes>>
changesVars == <<tree, onScreen, snapshot, selected, gitLoading, gitError,
                 first, request, timer, moves, errors>>

\* load, called at once by the effect and later by its timer.
Loads(path, empty) ==
    /\ request' = [path |-> path, answer |-> None]
    /\ gitLoading' = (gitLoading \/ empty)
    /\ timer' = FALSE

\* The effect on active and selectedPath, after a step that set selectedPath.
Effect(on, path) ==
    IF on THEN Loads(path, snapshot' = None) /\ first' = (snapshot' = None)
    ELSE request' = None /\ timer' = FALSE /\ UNCHANGED <<gitLoading, first>>

Leaves(path) ==
    /\ selected' = path
    /\ IF path = selected
       THEN /\ request' = None /\ timer' = TRUE /\ gitLoading' = FALSE
            /\ UNCHANGED first
       ELSE /\ first' = (snapshot' = None)
            /\ request' = [path |-> path, answer |-> None]
            /\ gitLoading' = (snapshot' = None) /\ timer' = FALSE

Select(path) ==
    /\ moves < MaxMoves /\ moves' = moves + 1
    /\ onScreen /\ repository /\ snapshot # None /\ gitError # "missing"
    /\ path \in snapshot.files \ {selected}
    /\ selected' = path /\ UNCHANGED snapshot /\ Effect(TRUE, path)
    /\ UNCHANGED <<tree, onScreen, gitError, errors>>

Turn ==
    /\ moves < MaxMoves /\ moves' = moves + 1
    /\ onScreen' = ~onScreen /\ UNCHANGED snapshot /\ Effect(onScreen', selected)
    /\ UNCHANGED <<tree, selected, gitError, errors>>

TimerRings ==
    /\ timer /\ Loads(selected, first)
    /\ UNCHANGED <<tree, onScreen, snapshot, selected, gitError, first, moves,
                   errors>>

\* read: the changed files, the patch of the selected one alone.
GitAnswers ==
    /\ request # None /\ request.answer = None
    /\ request' = [request EXCEPT !.answer =
           IF ~repository THEN [kind |-> "missing"]
           ELSE IF request.path \notin changed \cup {None}
           THEN [kind |-> "not found"]
           ELSE [kind |-> "snapshot", files |-> changed, patch |-> request.path]]
    /\ UNCHANGED <<tree, onScreen, snapshot, selected, gitLoading, gitError,
                   first, timer, moves, errors>>

\* The file that stays selected, or the first one.
Kept(files) ==
    IF selected \in files THEN selected
    ELSE IF files = {} THEN None ELSE Min(files)

Loaded ==
    /\ request # None /\ request.answer # None
    /\ request.answer.kind = "snapshot"
    /\ snapshot' = [files |-> request.answer.files,
                    patch |-> request.answer.patch]
    /\ gitError' = None
    /\ Leaves(Kept(request.answer.files))
    /\ UNCHANGED <<tree, onScreen, moves, errors>>

NotFound ==
    /\ request # None /\ request.answer # None
    /\ request.answer.kind = "not found"
    /\ UNCHANGED <<snapshot, gitError>> /\ Leaves(None)
    /\ UNCHANGED <<tree, onScreen, moves, errors>>

Missing ==
    /\ request # None /\ request.answer # None
    /\ request.answer.kind = "missing"
    /\ gitError' = "missing" /\ UNCHANGED snapshot /\ Leaves(selected)
    /\ UNCHANGED <<tree, onScreen, moves, errors>>

LoadFails ==
    /\ request # None /\ errors < MaxErrors /\ errors' = errors + 1
    /\ gitError' = "other" /\ UNCHANGED snapshot /\ Leaves(selected)
    /\ UNCHANGED <<tree, onScreen, moves>>

TreeChanges ==
    /\ changes < MaxChanges /\ changes' = changes + 1
    /\ \/ changed' \in SUBSET Paths \ {changed} /\ UNCHANGED repository
       \/ repository' = ~repository /\ UNCHANGED changed
    /\ UNCHANGED <<onScreen, snapshot, selected, gitLoading, gitError, first,
                   request, timer, moves, errors>>

ChangesInit ==
    /\ changed \in SUBSET Paths /\ repository = TRUE /\ changes = 0
    /\ onScreen = FALSE /\ snapshot = None /\ selected = None
    /\ gitLoading = FALSE /\ gitError = None /\ first = TRUE
    /\ request = None /\ timer = FALSE
    /\ moves = 0 /\ errors = 0

ChangesNext ==
    \/ \E p \in Paths : Select(p)
    \/ Turn \/ TimerRings \/ GitAnswers \/ Loaded \/ NotFound \/ Missing
    \/ LoadFails
    \/ TreeChanges

\* The timer rings and git answers; an answer is handled as soon as it is there.
ChangesFairness ==
    /\ WF_changesVars(TimerRings) /\ WF_changesVars(GitAnswers)
    /\ WF_changesVars(Loaded) /\ WF_changesVars(NotFound)
    /\ WF_changesVars(Missing)

-----------------------------------------------------------------------------
(* What is rendered. *)

InList(path) == snapshot # None /\ path \in snapshot.files

ChangesPart ==
    IF gitError = "missing" THEN "no repository"
    ELSE IF snapshot = None
    THEN IF gitLoading THEN "skeleton"
         ELSE IF gitError # None THEN "unavailable" ELSE "blank"
    ELSE IF snapshot.files # {}
    THEN IF ~InList(selected) THEN "list"
         ELSE IF snapshot.patch = selected THEN "diff" ELSE "diff loading"
    ELSE IF gitLoading THEN "blank" ELSE "no changes"

-----------------------------------------------------------------------------
(* Properties. *)

ChangesTypeOK ==
    /\ changed \subseteq Paths /\ selected \in Paths \cup {None}
    /\ {repository, onScreen, gitLoading, first, timer} \subseteq BOOLEAN
    /\ gitError \in {None, "missing", "other"}
    /\ snapshot \in Snapshot \cup {None} /\ request \in GitRequest \cup {None}
    /\ request # None => ~timer /\ request.path = selected

\* The polling never stops and never runs twice while the tab is on screen, and
\* stops when it is not, whatever ends a load: an answer, a file that is no
\* longer changed, an error, or another selection meanwhile.
PolledOnce == onScreen <=> (request # None) # timer

\* A tab that stays on screen comes to show the diff of a file that is changed,
\* or what there is instead; a file that is committed while it is selected is
\* replaced by one that has a diff.
DiffArrives ==
    []<>(~onScreen \/ ~repository \/ gitError # None \/ changed = {}
         \/ (ChangesPart = "diff" /\ selected \in changed))

ChangesSpec == ChangesInit /\ [][ChangesNext]_changesVars /\ ChangesFairness

=============================================================================
