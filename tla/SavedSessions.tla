---------------------------- MODULE SavedSessions ----------------------------
(***************************************************************************)
(* Agent sessions that are not running: the archived ones of the sidebar   *)
(* and the dialog of all sessions (web/src/App.tsx,                        *)
(* components/AllSessionsDialog.tsx), and resuming one, which takes the    *)
(* server several steps (internal/server/all_sessions.go).                 *)
(*                                                                         *)
(* A poll of the list of terminals is one step here; SessionLists is about *)
(* polls.  The page archives one session at a time.                        *)
(***************************************************************************)
EXTENDS Absence, Naturals, Sequences, SequencesExt, FiniteSets

CONSTANTS
    AgentSessions,
    MaxResumes,     \* bound: requests to resume
    MaxActions,     \* bound: other acts of the user, and of other clients
    MaxLapses       \* bound: requests that fail, answers lost

ASSUME SavedAssumption ==
    /\ IsFiniteSet(AgentSessions) /\ None \notin AgentSessions
    /\ {MaxResumes, MaxActions, MaxLapses} \subseteq Nat

Idle == [phase |-> "none"]

VARIABLES
    running,        \* the server: terminals that run each session
    archived,       \* its sessions with an archived row
    handlers,       \* its requests to resume, answered ones included
    active,         \* sessions of the page that have a terminal
    archivedRows,   \* archivedSessions
    archivedShown,  \* archivedVisible
    archivedLoaded, \* archivedLoadedRef
    archivedLoad,   \* the request of showArchivedSessions, archivedLoadingRef
    archiving,      \* the request of archiveSession
    resuming,       \* resumingAllSessionID
    dialogShown,    \* allSessionsOpen
    dialogLoading,  \* allSessionsLoading
    dialogRows,     \* those of allSessions that it calls open
    dialogLoad,     \* the request of refreshAllSessions
    crossed,        \* history: a request to resume came while another was handled
    muddled,        \* history: requests overlapped, failed, or came from elsewhere
    actions, lapses

storeVars == <<running, archived>>
archiveVars == <<archivedRows, archivedShown, archivedLoaded, archivedLoad>>
dialogShownVars == <<dialogShown, dialogLoading, dialogRows, dialogLoad>>
savedVars == <<storeVars, handlers, active, archiveVars, archiving, resuming,
               dialogShownVars, crossed, muddled, actions, lapses>>

Acts == actions < MaxActions /\ actions' = actions + 1
Lapses == lapses < MaxLapses /\ lapses' = lapses + 1
Running == {s \in AgentSessions : running[s] > 0}
Handled == \E n \in DOMAIN handlers : handlers[n].phase \notin {"done", "failed"}
Busy == {archivedLoad, archiving, resuming} # {Idle} \/ Handled

\* The rows of the sidebar: sidebarSessions drops an archived row that is active.
Rows == [active |-> active,
         archived |-> IF archivedShown THEN archivedRows \ active ELSE {}]

-----------------------------------------------------------------------------
(* The archived rows of the sidebar. *)

\* showArchivedSessions, with the values after the step.
ShowArchived(loaded) ==
    /\ archivedShown' = TRUE
    /\ archivedLoad' = IF loaded \/ archivedLoad # Idle THEN archivedLoad
                       ELSE [phase |-> "sent"]

PressShow ==
    /\ Acts /\ ~archivedShown /\ ShowArchived(archivedLoaded)
    /\ muddled' = (muddled \/ Busy)
    /\ UNCHANGED <<storeVars, handlers, active, archivedRows, archivedLoaded,
                   archiving, resuming, dialogShownVars, crossed, lapses>>

PressHide ==
    /\ Acts /\ archivedShown /\ archivedShown' = FALSE
    /\ muddled' = (muddled \/ Busy)
    /\ UNCHANGED <<storeVars, handlers, active, archivedRows, archivedLoaded,
                   archivedLoad, archiving, resuming, dialogShownVars, crossed, lapses>>

ServerListsArchived ==
    /\ archivedLoad.phase = "sent"
    /\ archivedLoad' = [phase |-> "answered", rows |-> archived]
    /\ UNCHANGED <<storeVars, handlers, active, archivedRows, archivedShown,
                   archivedLoaded, archiving, resuming, dialogShownVars, crossed,
                   muddled, actions, lapses>>

TakeArchived ==
    /\ archivedLoad.phase = "answered" /\ archivedLoad' = Idle
    /\ archivedRows' = archivedLoad.rows /\ archivedLoaded' = TRUE
    /\ UNCHANGED <<storeVars, handlers, active, archivedShown, archiving, resuming,
                   dialogShownVars, crossed, muddled, actions, lapses>>

ArchivedLoadFails ==
    /\ archivedLoad # Idle /\ Lapses /\ archivedLoad' = Idle
    /\ UNCHANGED <<storeVars, handlers, active, archivedRows, archivedShown,
                   archivedLoaded, archiving, resuming, dialogShownVars, crossed,
                   muddled, actions>>

-----------------------------------------------------------------------------
(* Archiving. *)

\* archiveSession keeps the archivedVisible of this moment.
StartArchiving(s) ==
    /\ Acts /\ archiving = Idle /\ s \in active
    /\ archiving' = [phase |-> "sent", session |-> s, visible |-> archivedShown]
    /\ muddled' = (muddled \/ Busy)
    /\ UNCHANGED <<storeVars, handlers, active, archiveVars, resuming,
                   dialogShownVars, crossed, lapses>>

ServerArchives ==
    /\ archiving.phase = "sent"
    /\ LET s == archiving.session
       IN  IF s \in Running
           THEN /\ running' = [running EXCEPT ![s] = @ - 1]
                /\ archived' = archived \cup {s}
                /\ archiving' = [archiving EXCEPT !.phase = "done"]
           ELSE /\ archiving' = [archiving EXCEPT !.phase = "failed"]
                /\ UNCHANGED storeVars
    /\ UNCHANGED <<handlers, active, archiveVars, resuming, dialogShownVars, crossed,
                   muddled, actions, lapses>>

ArchiveBreaks ==
    /\ archiving.phase \in {"sent", "done"} /\ Lapses
    /\ archiving' = [archiving EXCEPT !.phase = "failed"]
    /\ muddled' = TRUE
    /\ UNCHANGED <<storeVars, handlers, active, archiveVars, resuming,
                   dialogShownVars, crossed, actions>>

\* The list is read again only if it was loaded, and at once only if it showed.
ArchiveAnswered ==
    /\ archiving.phase = "done" /\ archiving' = Idle
    /\ active' = active \ {archiving.session}
    /\ archivedLoaded' = FALSE
    /\ IF archivedLoaded /\ archiving.visible THEN ShowArchived(FALSE)
       ELSE UNCHANGED <<archivedShown, archivedLoad>>
    /\ UNCHANGED <<storeVars, handlers, archivedRows, resuming, dialogShownVars,
                   crossed, muddled, actions, lapses>>

ArchiveFailed ==
    /\ archiving.phase = "failed" /\ archiving' = Idle
    /\ UNCHANGED <<storeVars, handlers, active, archiveVars, resuming,
                   dialogShownVars, crossed, muddled, actions, lapses>>

-----------------------------------------------------------------------------
(* Resuming. *)

Ask(s, from) ==
    /\ resuming = Idle /\ Len(handlers) < MaxResumes
    /\ resuming' = [phase |-> "sent", session |-> s, from |-> from,
                    handler |-> Len(handlers) + 1]
    /\ handlers' = Append(handlers, [session |-> s, phase |-> "asked"])
    /\ crossed' = (crossed \/ Handled)

\* resumeArchivedSidebarSession
ResumeRow(s) ==
    /\ s \in Rows.archived /\ Ask(s, "sidebar")
    /\ muddled' = (muddled \/ Busy)
    /\ UNCHANGED <<storeVars, active, archiveVars, archiving, dialogShownVars, actions,
                   lapses>>

\* selectAllSession, of a session the dialog does not call open.
ResumeFromDialog(s) ==
    /\ dialogShown /\ s \notin dialogRows /\ Ask(s, "dialog") /\ muddled' = TRUE
    /\ UNCHANGED <<storeVars, active, archiveVars, archiving, dialogShownVars, actions,
                   lapses>>

\* It calls it open: the terminal is selected.
SelectFromDialog(s) ==
    /\ dialogShown /\ resuming = Idle /\ s \in dialogRows /\ dialogShown' = FALSE
    /\ UNCHANGED <<storeVars, handlers, active, archiveVars, archiving, resuming,
                   dialogLoading, dialogRows, dialogLoad, crossed, muddled, actions,
                   lapses>>

Handle(n, from, to) ==
    /\ n \in DOMAIN handlers /\ handlers[n].phase = from
    /\ handlers' = [handlers EXCEPT ![n].phase = to]

Unhandled == UNCHANGED <<active, archiveVars, archiving, resuming, dialogShownVars,
                         crossed, muddled, actions>>

\* Fault: a session that runs is started once more.
FindsNothing(s) == TRUE

\* resumeAllSession looks for a terminal that runs the session.
FindsNoTerminal(s) == s \notin Running

ServerLooks(n) ==
    /\ n \in DOMAIN handlers
    /\ Handle(n, "asked", IF FindsNoTerminal(handlers[n].session) THEN "creating"
                          ELSE "done")
    /\ UNCHANGED <<storeVars, lapses>> /\ Unhandled

\* CreateTerminalWithCommandArgs: nothing says yet which session it runs.
ServerStarts(n) ==
    /\ \/ Handle(n, "creating", "created") /\ UNCHANGED lapses
       \/ Handle(n, "creating", "failed") /\ Lapses
    /\ UNCHANGED storeVars /\ Unhandled

\* UpdateAgent; a terminal that cannot be updated is deleted.
ServerNames(n) ==
    /\ n \in DOMAIN handlers
    /\ \/ /\ Handle(n, "created", "named") /\ UNCHANGED lapses
          /\ running' = [running EXCEPT ![handlers[n].session] = @ + 1]
       \/ Handle(n, "created", "failed") /\ Lapses /\ UNCHANGED running
    /\ UNCHANGED archived /\ Unhandled

\* SetAgentSessionArchived, as above.
ServerRestores(n) ==
    /\ n \in DOMAIN handlers
    /\ LET s == handlers[n].session
       IN  \/ /\ Handle(n, "named", "done") /\ UNCHANGED <<lapses, running>>
              /\ archived' = archived \ {s}
           \/ /\ s \in archived /\ Handle(n, "named", "failed") /\ Lapses
              /\ running' = [running EXCEPT ![s] = IF @ > 0 THEN @ - 1 ELSE 0]
              /\ UNCHANGED archived
    /\ Unhandled

ResumeAnswered ==
    /\ resuming # Idle /\ handlers[resuming.handler].phase = "done"
    /\ resuming' = Idle /\ active' = active \cup {resuming.session}
    /\ IF resuming.from = "sidebar"
       THEN /\ archivedRows' = archivedRows \ {resuming.session}
            /\ UNCHANGED dialogShown
       ELSE dialogShown' = FALSE /\ UNCHANGED archivedRows
    /\ UNCHANGED <<storeVars, handlers, archivedShown, archivedLoaded, archivedLoad,
                   archiving, dialogLoading, dialogRows, dialogLoad, crossed, muddled,
                   actions, lapses>>

\* A refusal, or a broken connection: the server goes on with the request.
ResumeFailed ==
    /\ resuming # Idle /\ resuming' = Idle
    /\ IF handlers[resuming.handler].phase = "failed" THEN UNCHANGED <<lapses, muddled>>
       ELSE Lapses /\ muddled' = TRUE
    /\ UNCHANGED <<storeVars, handlers, active, archiveVars, archiving,
                   dialogShownVars, crossed, actions>>

-----------------------------------------------------------------------------
(* The dialog. *)

\* refreshAllSessions, one at a time.
Refresh(loud) ==
    IF dialogLoad # Idle THEN UNCHANGED <<dialogLoad, dialogLoading>>
    ELSE /\ dialogLoad' = [phase |-> "sent", loud |-> loud]
         /\ dialogLoading' = (dialogLoading \/ loud)

OpenAllSessions ==
    /\ Acts /\ ~dialogShown /\ dialogShown' = TRUE /\ Refresh(TRUE)
    /\ UNCHANGED <<storeVars, handlers, active, archiveVars, archiving, resuming,
                   dialogRows, crossed, muddled, lapses>>

CloseAllSessions ==
    /\ dialogShown /\ dialogShown' = FALSE
    /\ UNCHANGED <<storeVars, handlers, active, archiveVars, archiving, resuming,
                   dialogLoading, dialogRows, dialogLoad, crossed, muddled, actions,
                   lapses>>

RefreshTimer ==
    /\ dialogShown /\ dialogLoad = Idle /\ Refresh(FALSE)
    /\ UNCHANGED <<storeVars, handlers, active, archiveVars, archiving, resuming,
                   dialogShown, dialogRows, crossed, muddled, actions, lapses>>

ServerListsAll ==
    /\ dialogLoad.phase = "sent"
    /\ dialogLoad' = [phase |-> "answered", loud |-> dialogLoad.loud, rows |-> Running]
    /\ UNCHANGED <<storeVars, handlers, active, archiveVars, archiving, resuming,
                   dialogShown, dialogLoading, dialogRows, crossed, muddled, actions,
                   lapses>>

\* The answer, or after eight seconds none.
RefreshEnds ==
    /\ dialogLoad # Idle /\ dialogLoad' = Idle
    /\ dialogLoading' = (dialogLoading /\ ~dialogLoad.loud)
    /\ \/ /\ dialogLoad.phase = "answered" /\ dialogRows' = dialogLoad.rows
          /\ UNCHANGED lapses
       \/ Lapses /\ UNCHANGED dialogRows
    /\ UNCHANGED <<storeVars, handlers, active, archiveVars, archiving, resuming,
                   dialogShown, crossed, muddled, actions>>

-----------------------------------------------------------------------------
Poll ==
    /\ active' = Running
    /\ UNCHANGED <<storeVars, handlers, archiveVars, archiving, resuming,
                   dialogShownVars, crossed, muddled, actions, lapses>>

\* Another client archives a session, or resumes it undisturbed.
OtherClient(s) ==
    /\ Acts /\ muddled' = TRUE
    /\ \/ /\ s \in Running /\ running' = [running EXCEPT ![s] = @ - 1]
          /\ archived' = archived \cup {s}
       \/ /\ s \notin Running /\ ~Handled /\ archived' = archived \ {s}
          /\ running' = [running EXCEPT ![s] = 1]
    /\ UNCHANGED <<handlers, active, archiveVars, archiving, resuming,
                   dialogShownVars, crossed, lapses>>

SavedInit ==
    /\ archived \in SUBSET AgentSessions
    /\ running = [s \in AgentSessions |-> IF s \in archived THEN 0 ELSE 1]
    /\ handlers = <<>> /\ active = Running
    /\ archivedRows = {} /\ archivedShown = FALSE /\ archivedLoaded = FALSE
    /\ archivedLoad = Idle /\ archiving = Idle /\ resuming = Idle
    /\ dialogShown = FALSE /\ dialogLoading = FALSE /\ dialogRows = {}
    /\ dialogLoad = Idle /\ crossed = FALSE /\ muddled = FALSE
    /\ actions = 0 /\ lapses = 0

SavedNext ==
    \/ PressShow \/ PressHide \/ ServerListsArchived \/ TakeArchived
    \/ ArchivedLoadFails
    \/ ServerArchives \/ ArchiveBreaks \/ ArchiveAnswered \/ ArchiveFailed
    \/ \E s \in AgentSessions :
           \/ StartArchiving(s) \/ ResumeRow(s) \/ ResumeFromDialog(s)
           \/ SelectFromDialog(s) \/ OtherClient(s)
    \/ \E n \in 1..MaxResumes :
           ServerLooks(n) \/ ServerStarts(n) \/ ServerNames(n) \/ ServerRestores(n)
    \/ ResumeAnswered \/ ResumeFailed
    \/ OpenAllSessions \/ CloseAllSessions \/ RefreshTimer \/ ServerListsAll
    \/ RefreshEnds \/ Poll

SavedTypeOK ==
    /\ running \in [AgentSessions -> Nat]
    /\ {archived, active, archivedRows, dialogRows} \subseteq SUBSET AgentSessions
    /\ {archivedShown, archivedLoaded, dialogShown, dialogLoading, crossed,
        muddled} \subseteq BOOLEAN

\* A session runs in one terminal at most, though its resumption takes several
\* steps, may fail at each and may be asked for again when an answer was lost,
\* as long as the server handles one request to resume at a time.
RunsOnce == crossed \/ \A s \in AgentSessions : running[s] <= 1

\* A session the page archives or resumes moves between the lists of the sidebar:
\* what the list of archived ones shows when nothing is under way is what the
\* server has, unless requests overlapped, an answer was lost, or a session was
\* archived or resumed from elsewhere.
ArchiveShown ==
    ~muddled /\ ~Busy /\ archivedShown /\ archivedLoaded => archivedRows = archived

\* The dialog says that it loads only while an answer may come.
LoadingEnds == dialogLoading => dialogLoad # Idle /\ dialogLoad.loud

SavedInv == SavedTypeOK /\ RunsOnce /\ ArchiveShown /\ LoadingEnds
=============================================================================
