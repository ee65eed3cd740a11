----------------------------- MODULE Workspace -----------------------------
(***************************************************************************)
(* The workspace page: the filters that select its terminals, the row of   *)
(* panes, the sidebar with its projects and archived sessions, the         *)
(* settings and what opens over the page.                                  *)
(*                                                                         *)
(* Their React state is apart, and what the selection or the list of       *)
(* terminals may do to one of them is a step of its module, in whatever    *)
(* order.  A behaviour therefore moves the one part it studies.            *)
(***************************************************************************)
EXTENDS WorkspaceFilters, SettingsForm, PaneRail, ProjectGroups, SavedSessions,
        PageOverlays

VARIABLE studied

workspaceVars == <<vars, settingsVars, railVars, sidebarVars, savedVars, overlayVars,
                   studied>>

\* A part that is not studied has one initial state.
WorkspaceInit ==
    /\ studied \in {"filters", "settings", "rail", "groups", "projects", "saved",
                    "overlays"}
    /\ Init /\ SettingsInit /\ RailInit /\ SidebarInit /\ SavedInit /\ OverlayInit
    /\ studied # "settings" => stored = settings
    /\ studied \notin {"groups", "projects"} => Len(saved) = Cardinality(Projects)
    /\ studied # "saved" => archived = {}

WorkspaceNext ==
    /\ UNCHANGED studied
    /\ \/ /\ studied = "filters" /\ Next
          /\ UNCHANGED <<settingsVars, railVars, sidebarVars, savedVars, overlayVars>>
       \/ /\ studied = "settings" /\ SettingsNext
          /\ UNCHANGED <<vars, railVars, sidebarVars, savedVars, overlayVars>>
       \/ /\ studied = "rail" /\ RailNext
          /\ UNCHANGED <<vars, settingsVars, sidebarVars, savedVars, overlayVars>>
       \/ /\ studied = "groups" /\ GroupsNext
          /\ UNCHANGED <<vars, settingsVars, railVars, savedVars, overlayVars>>
       \/ /\ studied = "projects" /\ ProjectsNext
          /\ UNCHANGED <<vars, settingsVars, railVars, savedVars, overlayVars>>
       \/ /\ studied = "saved" /\ SavedNext
          /\ UNCHANGED <<vars, settingsVars, railVars, sidebarVars, overlayVars>>
       \/ /\ studied = "overlays" /\ OverlayNext
          /\ UNCHANGED <<vars, settingsVars, railVars, sidebarVars, savedVars>>

WorkspaceSpec == WorkspaceInit /\ [][WorkspaceNext]_workspaceVars

-----------------------------------------------------------------------------
\* What holds of each part at every moment.  Selected terminals have a reason; the
\* shortcuts differ, the sidebar is as wide as the settings say, and what was saved
\* is what shows; the focused pane shows and the latest views stay; groups keep the
\* order of their drags and projects that of the server; a session runs once, and
\* archived rows are those the server has; recent actions can be run, only what a
\* dialog named is deleted, names agree, and a card is about the row under the
\* pointer.
WorkspaceInv ==
    /\ FiltersInv
    /\ SettingsTypeOK /\ ShortcutsDiffer /\ BarFollows /\ SettingsSaved
    /\ RailTypeOK /\ FocusShows /\ RecentViewsKept
    /\ SidebarTypeOK /\ GroupsKeepOrder /\ ProjectsAgree
    /\ SavedInv
    /\ OverlayInv
=============================================================================
