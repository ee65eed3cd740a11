---------------------------- MODULE MCWorkspace ----------------------------
(* A shell and two agents in two directories, of which another client        *)
(* filters by status, by directory or by attention, or pins a filter; four   *)
(* terminals in two of three projects; a running and a waiting terminal under*)
(* the palette, which is asked for everything or for terminals only.         *)
EXTENDS Workspace, TLC

MCCwd == 1 :> "a" @@ 2 :> "a" @@ 3 :> "b"
Filtered(f, p) == [manual |-> {}, pinned |-> {}, filters |-> f,
                   pinnedFilters |-> p, focus |-> None]
Status(s) == [statuses |-> {s}, cwds |-> {}]
MCOtherSources ==
    {Filtered(NoFilters, [statuses |-> {}, cwds |-> {<<"waiting", "b">>}]),
     Filtered(Status("waiting"), NoFilters),
     Filtered(NoFilters, Status("waiting")),
     Filtered(Status("attention"), NoFilters),
     Filtered([statuses |-> {}, cwds |-> {<<"waiting", "a">>}], NoFilters)}

MCProjectOf == [t \in Grouped |-> 1 + (t % 2)]

MCStatusOf == "t1" :> "running" @@ "t2" :> "waiting"
MCSearches == {Shells, Values}
=============================================================================
