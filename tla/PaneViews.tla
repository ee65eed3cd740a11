------------------------------ MODULE PaneViews ------------------------------
(***************************************************************************)
(* A pane with the views it keeps mounted.  All start hidden behind the    *)
(* terminal; whether one is visible is free, as the pane may show any two. *)
(* The terminal's view is modelled twice, for its output and for its size. *)
(*                                                                         *)
(* The views share nothing, so that a property of one that every           *)
(* behaviour of it alone satisfies holds whatever the others do: a         *)
(* behaviour moves the one view it is about.                               *)
(***************************************************************************)
EXTENDS TerminalPane, AgentLog, WorkspaceFiles, GitChanges, TerminalStream,
        TerminalSizes

VARIABLE studied

viewsVars == <<paneVars, logVars, filesVars, changesVars, streamVars, sizesVars,
               studied>>

\* A view that is not studied has one initial state.
ViewsInit ==
    /\ studied \in {"pane", "log", "files", "changes", "stream", "sizes"}
    /\ PaneInit /\ LogInit /\ FilesInit /\ ChangesInit /\ StreamInit /\ SizesInit
    /\ studied # "log" => /\ linked = CHOOSE t \in Transcripts : TRUE
                          /\ \A t \in Transcripts : length[t] = 1
    /\ studied # "changes" => changed = {}
    /\ studied # "sizes" => room = [v \in Views |-> Max(Rooms)]

ViewsNext ==
    /\ UNCHANGED studied
    /\ \/ /\ studied = "pane" /\ PaneNext
          /\ UNCHANGED <<logVars, filesVars, changesVars, streamVars, sizesVars>>
       \/ /\ studied = "log" /\ LogNext
          /\ UNCHANGED <<paneVars, filesVars, changesVars, streamVars, sizesVars>>
       \/ /\ studied = "files" /\ FilesNext
          /\ UNCHANGED <<paneVars, logVars, changesVars, streamVars, sizesVars>>
       \/ /\ studied = "changes" /\ ChangesNext
          /\ UNCHANGED <<paneVars, logVars, filesVars, streamVars, sizesVars>>
       \/ /\ studied = "stream" /\ StreamNext
          /\ UNCHANGED <<paneVars, logVars, filesVars, changesVars, sizesVars>>
       \/ /\ studied = "sizes" /\ SizesNext
          /\ UNCHANGED <<paneVars, logVars, filesVars, changesVars, streamVars>>

\* LogFairness, ChangesFairness, StreamFairness and SizesFairness, each of the
\* view that is studied: hidden views that are not have nothing to do, and the
\* terminal waits.
ViewsFairness ==
    /\ LogFairness /\ ChangesFairness
    /\ WF_streamVars(studied = "stream" /\ Accept)
    /\ WF_streamVars(studied = "stream" /\ WriteFrame)
    /\ WF_streamVars(studied = "stream" /\ ServerHears)
    /\ WF_streamVars(studied = "stream" /\ HearFrame)
    /\ WF_streamVars(studied = "stream" /\ Parse)
    /\ WF_streamVars(studied = "stream" /\ FlushTimer)
    /\ WF_streamVars(studied = "stream" /\ Reconnect)
    /\ \A v \in Views : WF_sizesVars(studied = "sizes" /\ PageTurns(v))
    /\ WF_sizesVars(studied = "sizes" /\ Group)

ViewsSpec == ViewsInit /\ [][ViewsNext]_viewsVars /\ ViewsFairness

-----------------------------------------------------------------------------
ViewsTypeOK ==
    /\ PaneTypeOK /\ LogTypeOK /\ FilesTypeOK /\ ChangesTypeOK
    /\ StreamTypeOK /\ SizesTypeOK

\* What holds of each view at every moment.  The pane shows no source that is
\* not there; calls and results of a transcript meet; no folder shows an old
\* listing or waits for one that was given up; previews are released; the diff
\* is polled once; replayed output is not answered again, and a terminal says
\* that it exited only when it has all of it; the shared size settles.
ViewsInv ==
    /\ ViewsTypeOK
    /\ NoBlankSource /\ CallsMeetResults /\ ShowsLatest /\ NoStuckFolder
    /\ URLsRevoked /\ PolledOnce
    /\ NoReplayedAnswers /\ ExitedMeansComplete /\ SizeSettles

\* Whatever breaks, is lost or comes late, a view that shows something live gets
\* to it: the log to the end of the transcript, the changes to a diff, the
\* terminal to all the process wrote, and its size to the claims of its views.
ViewsSettle ==
    /\ ReachesLiveEdge
    /\ DiffArrives
    /\ studied = "stream" => CatchesUp
    /\ studied = "sizes" => Settles
=============================================================================
