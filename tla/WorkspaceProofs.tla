--------------------------- MODULE WorkspaceProofs ---------------------------
(***************************************************************************)
(* Whatever a behaviour of the page studies, what holds of each part holds *)
(* at every moment, for any terminals, projects, sessions and settings.    *)
(* Each part has an inductive invariant of its own, of which its steps     *)
(* keep every conjunct: what its requests in flight say, next to what the  *)
(* page shows and the server has.                                          *)
(***************************************************************************)
EXTENDS Workspace, RowsProofs, FiniteSetTheorems, TLAPS

-----------------------------------------------------------------------------

-----------------------------------------------------------------------------
(* Why a terminal is selected. *)

Sessions == [Terminals -> [activity : Activities, attention : BOOLEAN]]

FilterTypes ==
    /\ terminals \in Sessions /\ view \in Sessions
    /\ server \in Source /\ seen \in [source : Source, ids : SUBSET Terminals]
    /\ selected \subseteq Terminals /\ pinned \subseteq Terminals
    /\ focus \in Terminals \cup {None}
    /\ filters \in Filters /\ pinnedFilters \in Filters
    /\ filterSelected \subseteq Terminals /\ manualSelected \subseteq Terminals
    /\ timers \subseteq Terminals /\ expired \subseteq Terminals
    /\ launched \subseteq Terminals
    /\ unsynced \in BOOLEAN /\ changed \in BOOLEAN /\ refused \in BOOLEAN
    /\ predicted \in BOOLEAN

\* A source that was normalized has its pinned filters among its filters, and
\* focuses a terminal it selects.
Normal(source, ids) ==
    /\ source.pinnedFilters.statuses \subseteq source.filters.statuses
    /\ source.pinnedFilters.cwds \subseteq source.filters.cwds
    /\ source.focus \in ids \cup {None} /\ source.pinned \subseteq ids

Normals ==
    /\ Normal(server, Resolved(server, terminals))
    /\ Normal(seen.source, seen.ids)

\* What the browser writes as chosen by hand.
Chosen == {t \in selected : /\ t \notin filterSelected
                            /\ t \notin pinned \/ t \in manualSelected}

\* A local change is written before anything else, or it was refused.
Turns ==
    /\ unsynced => changed \/ refused
    /\ changed => launched = {} /\ expired = {}
    /\ launched # {} => expired = {}

\* The terminals that the last snapshot selected by the filters that show.
Backed == IF filters = seen.source.filters
          THEN (seen.ids \ seen.source.manual) \ seen.source.pinned ELSE {}

\* A terminal that a filter selected still matches, or has a timer, or the server
\* has not said yet that it stopped matching; or it was just clicked.
Reasons ==
    ~refused /\ filters # NoFilters =>
        \A t \in selected \cap filterSelected :
            \/ t \in pinned \cup Matching(view, filters)
            \/ t \in timers \cup expired \cup Backed
            \/ changed /\ t = focus

\* The inductive invariant of the filters.
FiltersKnown == FilterTypes /\ Normals /\ Turns /\ PinsHold /\ Reasons

-----------------------------------------------------------------------------
(* What the server makes of a source. *)

LEMMA MatchingIn == ASSUME NEW sess, NEW f PROVE Matching(sess, f) \subseteq Terminals
BY DEF Matching

\* The least terminal of a set is one of it.
LEMMA LeastIn == ASSUME NEW S \in SUBSET Terminals, S # {} PROVE Least(S) \in S
<1>1. S \in SUBSET Nat
  BY WorkspaceAssumption DEF WorkspaceAssumption
<1>2. \E t \in S : \A u \in S : t <= u
  BY <1>1, NatMin
<1>3. QED
  BY <1>2 DEF Least

\* A source selects terminals, its pinned ones among them.
LEMMA ResolvedIn ==
    ASSUME NEW source \in Source, NEW sess
    PROVE  Resolved(source, sess) \subseteq Terminals /\ source.pinned \subseteq Resolved(source, sess)
BY MatchingIn DEF Resolved, Source

\* What is changed of a source before its focus is.
LEMMA FullSource ==
    ASSUME NEW source \in Source, NEW c \in SUBSET (Statuses \X {Cwd[t] : t \in Terminals}),
           NEW full, full = [source EXCEPT
                                !.pinnedFilters.cwds = c,
                                !.filters = [statuses |-> @.statuses \cup source.pinnedFilters.statuses,
                                             cwds |-> @.cwds \cup c]]
    PROVE  /\ full \in Source
           /\ full.pinnedFilters.statuses \subseteq full.filters.statuses
           /\ full.pinnedFilters.cwds \subseteq full.filters.cwds
<1> DEFINE D == Statuses \X {Cwd[t] : t \in Terminals}
<1>1. source.filters \in [statuses : SUBSET Statuses, cwds : SUBSET D]
      /\ source.pinnedFilters \in [statuses : SUBSET Statuses, cwds : SUBSET D]
      /\ source.manual \in SUBSET Terminals /\ source.pinned \in SUBSET Terminals
      /\ source.focus \in Terminals \cup {None}
  BY DEF Source, Filters
<1>2. c \in SUBSET D
  OBVIOUS
<1> HIDE DEF D
<1> DEFINE pf == [source.pinnedFilters EXCEPT !.cwds = c]
           ff == [statuses |-> source.filters.statuses \cup source.pinnedFilters.statuses,
                  cwds |-> source.filters.cwds \cup c]
<1>3. pf \in [statuses : SUBSET Statuses, cwds : SUBSET D] /\ pf.cwds = c
      /\ pf.statuses = source.pinnedFilters.statuses
  BY <1>1, <1>2
<1>4. ff \in [statuses : SUBSET Statuses, cwds : SUBSET D]
      /\ pf.statuses \subseteq ff.statuses /\ pf.cwds \subseteq ff.cwds
  BY <1>1, <1>2, <1>3
<1>5. full = [source EXCEPT !.pinnedFilters = pf, !.filters = ff]
  BY <1>1 DEF Source
<1> HIDE DEF pf, ff
<1>6. full.pinnedFilters = pf /\ full.filters = ff /\ full \in Source
  BY <1>3, <1>4, <1>5 DEF Source, Filters, D
<1>7. QED
  BY <1>4, <1>6

\* What the server normalizes is normal.
LEMMA NormalizedIs ==
    ASSUME NEW source \in Source, NEW sess, NEW n, n = Normalize(source, sess)
    PROVE  n \in Source /\ Normal(n, Resolved(n, sess))
<1> DEFINE c == {f \in source.pinnedFilters.cwds : f[1] \notin source.pinnedFilters.statuses}
           full == [source EXCEPT
                       !.pinnedFilters.cwds = c,
                       !.filters = [statuses |-> @.statuses \cup source.pinnedFilters.statuses,
                                    cwds |-> @.cwds \cup c]]
<1>1. c \in SUBSET (Statuses \X {Cwd[t] : t \in Terminals})
  BY DEF Source, Filters
<1>2. n = [full EXCEPT !.focus = ResolvedFocus(full, sess)]
  BY DEF Normalize
<1> HIDE DEF c
<1>3. /\ full \in Source
      /\ full.pinnedFilters.statuses \subseteq full.filters.statuses
      /\ full.pinnedFilters.cwds \subseteq full.filters.cwds
  BY <1>1, FullSource
<1> HIDE DEF full
<1>4. Resolved(full, sess) \subseteq Terminals
  BY <1>3, ResolvedIn
<1>5. ResolvedFocus(full, sess) \in Resolved(full, sess) \cup {None}
  BY <1>4, LeastIn DEF ResolvedFocus
<1>6. n \in Source /\ n.focus = ResolvedFocus(full, sess) /\ n.manual = full.manual
      /\ n.pinned = full.pinned /\ n.filters = full.filters
      /\ n.pinnedFilters = full.pinnedFilters
  BY <1>2, <1>3, <1>4, <1>5 DEF Source
<1>7. Resolved(n, sess) = Resolved(full, sess)
  BY <1>6 DEF Resolved
<1>8. QED
  BY <1>3, <1>5, <1>6, <1>7, ResolvedIn DEF Normal

\* A snapshot of a source.
LEMMA SnapshotIs ==
    ASSUME NEW source \in Source, Normal(source, Resolved(source, terminals)),
           NEW s, s = SnapshotOf(source)
    PROVE  /\ s \in [source : Source, ids : SUBSET Terminals] /\ Normal(s.source, s.ids)
           /\ s.source = source /\ s.ids = Resolved(source, terminals)
BY ResolvedIn DEF SnapshotOf

-----------------------------------------------------------------------------
(* Steps. *)

LEMMA FiltersStart == Init => FiltersKnown
<1> SUFFICES ASSUME Init PROVE FiltersKnown
  OBVIOUS
<1>1. First \in Terminals
  BY LeastIn, WorkspaceAssumption DEF First, WorkspaceAssumption
<1>2. NoFilters \in Filters
  BY DEF NoFilters, Filters
<1>3. terminals \in Sessions /\ "waiting" \in Activities
  BY WorkspaceAssumption DEF Init, Sessions, WorkspaceAssumption
<1>4. server \in Source
  BY <1>1, <1>2 DEF Init, Source
<1>5. Normal(server, Resolved(server, terminals))
  BY <1>1 DEF Init, Normal, Resolved
<1>6. seen \in [source : Source, ids : SUBSET Terminals] /\ Normal(seen.source, seen.ids)
      /\ seen.source = server
  BY <1>4, <1>5, SnapshotIs DEF Init, Snapshot
<1>7. FilterTypes
  BY <1>1, <1>2, <1>3, <1>4, <1>6 DEF Init, FilterTypes
<1>8. Normals
  BY <1>5, <1>6 DEF Normals
<1>9. Turns /\ PinsHold /\ Reasons
  BY <1>5 DEF Init, Turns, PinsHold, Reasons, Normal
<1>10. QED
  BY <1>7, <1>8, <1>9 DEF FiltersKnown

\* Only the server's part changes.
LEMMA ServerMovesOn ==
    ASSUME FiltersKnown, terminals' \in Sessions, NEW source \in Source,
           server' = Normalize(source, terminals'),
           UNCHANGED <<seen, view, shown, refs, deselection, launched, unsynced,
                       changed, refused, predicted>>
    PROVE  FiltersKnown'
<1>1. server' \in Source /\ Normal(server', Resolved(server', terminals'))
  BY NormalizedIs
<1>2. FilterTypes'
  BY <1>1 DEF FiltersKnown, FilterTypes, shown, refs, deselection
<1>3. Normals'
  BY <1>1 DEF FiltersKnown, Normals
<1>4. Turns'
  BY DEF FiltersKnown, Turns, deselection
<1>5. PinsHold'
  BY <1>1, ResolvedIn DEF FiltersKnown, PinsHold, Normal, shown
<1>6. Reasons'
  BY DEF FiltersKnown, Reasons, Backed, shown, refs, deselection
<1>7. QED
  BY <1>2, <1>3, <1>4, <1>5, <1>6 DEF FiltersKnown

\* A terminal changes at the server.
LEMMA TerminalChangesStep ==
    ASSUME FiltersKnown, NEW t \in Terminals, NEW a \in Activities, NEW b \in Attentions,
           TerminalChanges(t, a, b)
    PROVE  FiltersKnown'
<1>1. b \in BOOLEAN /\ server \in Source /\ terminals \in Sessions
  BY WorkspaceAssumption DEF WorkspaceAssumption, FiltersKnown, FilterTypes
<1>2. terminals' \in Sessions
  BY <1>1 DEF TerminalChanges, Sessions
<1> DEFINE alone == [server EXCEPT !.manual = {t}, !.focus = t, !.filters = server.pinnedFilters]
<1>3. alone \in Source
  BY <1>1 DEF Source
<1>4. server' = Normalize(alone, terminals') \/ server' = Normalize(server, terminals')
  BY DEF TerminalChanges
<1>5. UNCHANGED <<seen, view, shown, refs, deselection, launched, unsynced, changed,
                  refused, predicted>>
  BY DEF TerminalChanges
<1> HIDE DEF alone
<1>6. QED
  BY <1>1, <1>2, <1>3, <1>4, <1>5, ServerMovesOn

\* Another client selects.
LEMMA OtherSelectsStep ==
    ASSUME FiltersKnown, NEW source \in OtherSources, OtherSelects(source)
    PROVE  FiltersKnown'
<1>1. source \in Source
  BY WorkspaceAssumption DEF WorkspaceAssumption
<1>2. terminals' \in Sessions /\ server' = Normalize(source, terminals')
  BY DEF OtherSelects, FiltersKnown, FilterTypes
<1>3. UNCHANGED <<seen, view, shown, refs, deselection, launched, unsynced, changed,
                  refused, predicted>>
  BY DEF OtherSelects
<1>4. QED
  BY <1>1, <1>2, <1>3, ServerMovesOn

\* The page reads the terminals: those that match no more get a timer.
LEMMA ReadSessionsStep == ASSUME FiltersKnown, ReadSessions PROVE FiltersKnown'
<1> DEFINE was == Matching(view, filters)
           now == Matching(terminals, filters)
           leaving == (was \ now) \cap filterSelected \cap (selected \ pinned)
<1>1. timers' = (timers \ now) \cup leaving /\ view' = terminals
      /\ now \subseteq Terminals /\ leaving \subseteq Terminals
  BY MatchingIn DEF ReadSessions
<1>2. Settled /\ launched' \subseteq Terminals
  BY DEF ReadSessions
<1>3. UNCHANGED <<terminals, server, seen, shown, refs, expired, unsynced, changed,
                  refused, predicted>>
  BY DEF ReadSessions
<1>4. Matching(view', filters') = now
  BY <1>1, <1>3 DEF shown
<1>5. FilterTypes'
  <2> HIDE DEF now, leaving
  <2>1. timers' \subseteq Terminals
    BY <1>1 DEF FiltersKnown, FilterTypes
  <2>2. QED
    BY <1>1, <1>2, <1>3, <2>1 DEF FiltersKnown, FilterTypes, shown, refs
<1>6. Normals' /\ PinsHold'
  BY <1>3 DEF FiltersKnown, Normals, PinsHold, shown
<1>7. Turns'
  BY <1>2, <1>3 DEF FiltersKnown, Turns, Settled
<1>8. Reasons'
  <2>1. SUFFICES ASSUME ~refused, filters # NoFilters, NEW t \in selected \cap filterSelected
                 PROVE  \/ t \in pinned \cup now
                        \/ t \in timers' \cup expired \cup Backed
    BY <1>3, <1>4 DEF Reasons, Backed, shown, refs
  <2>2. \/ t \in pinned \cup was
        \/ t \in timers \cup expired \cup Backed
    BY <1>2, <2>1 DEF FiltersKnown, Reasons, Settled
  <2>3. QED
    BY <1>1, <2>1, <2>2
<1>9. QED
  BY <1>5, <1>6, <1>7, <1>8 DEF FiltersKnown

\* What the page takes over from a snapshot.
LEMMA ApplyKeepsKnown ==
    ASSUME FilterTypes, NEW s \in [source : Source, ids : SUBSET Terminals],
           Normal(s.source, s.ids), Apply(s), Normal(server', Resolved(server', terminals')),
           server' \in Source, terminals' \in Sessions, view' \in Sessions,
           unsynced' = FALSE, launched' = {}, expired' = {}, refused' = refused,
           predicted' \in BOOLEAN
    PROVE  FiltersKnown'
<1> DEFINE missing == (selected \ pinned) \ s.ids
           kept == timers' \cap missing
<1>1. timers' \subseteq Terminals /\ kept \subseteq Terminals
  BY DEF Apply, FilterTypes
<1>2. /\ selected' = s.ids \cup kept /\ pinned' = s.source.pinned
      /\ filters' = s.source.filters /\ pinnedFilters' = s.source.pinnedFilters
      /\ filterSelected' = (selected' \ s.source.manual) \ s.source.pinned
      /\ manualSelected' = s.source.manual /\ seen' = s /\ changed' = TRUE
      /\ focus' \in {focus, s.source.focus}
  BY DEF Apply
<1> HIDE DEF kept
<1>3. FilterTypes'
  BY <1>1, <1>2 DEF FilterTypes, Source
<1>4. Normals' /\ Turns'
  BY <1>2 DEF Normals, Turns
<1>5. PinsHold'
  BY <1>2, ResolvedIn DEF PinsHold, Normal
<1>6. Reasons'
  BY <1>2 DEF Reasons, Backed, kept
<1>7. QED
  BY <1>3, <1>4, <1>5, <1>6 DEF FiltersKnown

\* The page reads the selection.
LEMMA ReadSelectionStep == ASSUME FiltersKnown, ReadSelection PROVE FiltersKnown'
<1>1. /\ server \in Source /\ Normal(server, Resolved(server, terminals))
      /\ FilterTypes /\ Settled
  BY DEF ReadSelection, FiltersKnown, FilterTypes, Normals
<1>2. Snapshot \in [source : Source, ids : SUBSET Terminals]
      /\ Normal(Snapshot.source, Snapshot.ids)
  BY <1>1, SnapshotIs DEF Snapshot
<1>3. UNCHANGED <<terminals, server, view, expired, launched, unsynced, refused, predicted>>
  BY DEF ReadSelection
<1>4. CASE unsynced /\ seen' = Snapshot /\ UNCHANGED <<shown, refs, timers, changed>>
  <2>1. refused
    BY <1>1, <1>4 DEF FiltersKnown, Turns, Settled
  <2>2. FilterTypes'
    BY <1>1, <1>2, <1>3, <1>4 DEF FilterTypes, shown, refs
  <2>3. Normals' /\ Turns' /\ PinsHold'
    BY <1>2, <1>3, <1>4 DEF FiltersKnown, Normals, Turns, PinsHold, shown
  <2>4. Reasons'
    BY <1>3, <2>1 DEF Reasons
  <2>5. QED
    BY <2>2, <2>3, <2>4 DEF FiltersKnown
<1>5. CASE ~unsynced /\ Apply(Snapshot)
  <2>1. server' = server /\ terminals' = terminals /\ view' = view /\ refused' = refused
        /\ launched' = {} /\ expired' = {} /\ unsynced' = unsynced /\ predicted' = predicted
    BY <1>1, <1>3 DEF Settled
  <2>2. unsynced' = FALSE /\ predicted' \in BOOLEAN /\ terminals' \in Sessions
        /\ view' \in Sessions
    BY <1>1, <1>5, <2>1 DEF FilterTypes
  <2>3. Normal(server', Resolved(server', terminals')) /\ server' \in Source
    BY <1>1, <2>1
  <2> DEFINE s == Snapshot
  <2>4. s \in [source : Source, ids : SUBSET Terminals] /\ Normal(s.source, s.ids) /\ Apply(s)
    BY <1>2, <1>5
  <2> HIDE DEF s
  <2>5. QED
    BY <1>1, <2>1, <2>2, <2>3, <2>4, ApplyKeepsKnown
<1>6. QED
  BY <1>4, <1>5 DEF ReadSelection

\* What the page asks for is a source.
LEMMA IntentIs == ASSUME FilterTypes PROVE Intent \in Source
BY DEF Intent, FilterTypes, Source

\* The server takes what the page asks for, or refuses it.
LEMMA WriteSelectionStep == ASSUME FiltersKnown, WriteSelection PROVE FiltersKnown'
<1>1. FilterTypes /\ Normals /\ Turns /\ PinsHold /\ Reasons /\ changed
  BY DEF WriteSelection, FiltersKnown
<1>2. UNCHANGED <<terminals, view, expired, launched>> /\ predicted' = FALSE
  BY DEF WriteSelection
<1>3. CASE /\ Intent = seen.source /\ unsynced' = FALSE /\ changed' = FALSE
           /\ UNCHANGED <<server, seen, shown, refs, timers, refused>>
  <2>1. FilterTypes' /\ Normals' /\ Turns'
    BY <1>1, <1>2, <1>3 DEF FilterTypes, Normals, Turns, shown, refs
  <2>2. /\ pinned = seen.source.pinned /\ filters = seen.source.filters
        /\ pinnedFilters = seen.source.pinnedFilters /\ focus = seen.source.focus
        /\ seen.source.manual = Chosen
    <3>1. /\ Intent.pinned = pinned /\ Intent.filters = filters
          /\ Intent.pinnedFilters = pinnedFilters /\ Intent.focus = focus
          /\ Intent.manual = Chosen
      BY DEF Intent, Chosen
    <3>2. QED
      BY <1>3, <3>1
  <2>3. PinsHold'
    BY <1>1, <1>2, <1>3, <2>2 DEF Normals, Normal, PinsHold, shown
  <2>4. Reasons'
    <3>1. SUFFICES ASSUME ~refused, filters # NoFilters, NEW t \in selected \cap filterSelected
                   PROVE  \/ t \in pinned \cup Matching(view, filters)
                          \/ t \in timers \cup expired \cup Backed
      BY <1>2, <1>3 DEF Reasons, Backed, shown, refs
    <3>2. CASE t # focus
      BY <1>1, <3>1, <3>2 DEF Reasons
    <3>3. CASE t = focus /\ t \notin pinned
      <4>1. t \in seen.ids
        BY <1>1, <2>2, <3>1, <3>3, WorkspaceAssumption
           DEF Normals, Normal, WorkspaceAssumption, FilterTypes
      <4>2. t \notin seen.source.manual /\ t \notin seen.source.pinned
        BY <2>2, <3>1, <3>3 DEF Chosen
      <4>3. QED
        BY <2>2, <4>1, <4>2 DEF Backed
    <3>4. QED
      BY <3>2, <3>3
  <2>5. QED
    BY <2>1, <2>3, <2>4 DEF FiltersKnown
<1>4. CASE /\ server' = Normalize(Intent, terminals) /\ unsynced' = FALSE
           /\ Apply(SnapshotOf(Normalize(Intent, terminals))) /\ UNCHANGED refused
  <2>1. server' \in Source /\ Normal(server', Resolved(server', terminals))
    BY <1>1, <1>4, IntentIs, NormalizedIs
  <2> DEFINE s == SnapshotOf(server')
  <2>2. s \in [source : Source, ids : SUBSET Terminals] /\ Normal(s.source, s.ids)
    BY <2>1, SnapshotIs
  <2>3. Apply(s)
    BY <1>4
  <2> HIDE DEF s
  <2>4. /\ Normal(server', Resolved(server', terminals')) /\ terminals' \in Sessions
        /\ view' \in Sessions /\ launched' = {} /\ expired' = {} /\ predicted' \in BOOLEAN
        /\ unsynced' = FALSE /\ refused' = refused
    BY <1>1, <1>2, <1>4, <2>1 DEF FilterTypes, Turns
  <2>5. QED
    BY <1>1, <2>1, <2>2, <2>3, <2>4, ApplyKeepsKnown
<1>5. CASE /\ refused' = TRUE /\ changed' = FALSE
           /\ UNCHANGED <<server, seen, shown, refs, timers, unsynced>>
  BY <1>1, <1>2, <1>5 DEF FiltersKnown, FilterTypes, Normals, Normal, Turns, PinsHold, Reasons,
                          shown, refs
<1>6. QED
  BY <1>3, <1>4, <1>5 DEF WriteSelection

\* What is selected anew has a reason by its own filters.
LEMMA ChosenAnew ==
    ASSUME FiltersKnown, Turns', filters' \in Filters,
           NEW S \in SUBSET Terminals,
           selected' \subseteq Terminals, pinned' \subseteq selected', pinned' \subseteq Terminals,
           focus' \in Terminals \cup {None}, pinnedFilters' \in Filters,
           pinnedFilters'.statuses \subseteq filters'.statuses,
           filterSelected' = Matching(view, filters') \ S, changed' = TRUE, unsynced' = TRUE,
           predicted' \in BOOLEAN,
           UNCHANGED <<terminals, server, seen, view, manualSelected, timers, expired, refused>>,
           launched' \subseteq Terminals
    PROVE  FiltersKnown'
<1>1. FilterTypes'
  BY MatchingIn DEF FiltersKnown, FilterTypes
<1>2. Normals'
  BY DEF FiltersKnown, Normals
<1>3. PinsHold'
  BY DEF FiltersKnown, PinsHold
<1>4. Reasons'
  BY DEF Reasons
<1>5. QED
  BY <1>1, <1>2, <1>3, <1>4 DEF FiltersKnown

\* The focus is at a terminal that stays, or nowhere.
LEMMA RefocusedIs ==
    ASSUME focus \in Terminals \cup {None}, NEW ids \in SUBSET Terminals, Refocused(ids)
    PROVE  focus' \in Terminals \cup {None}
BY DEF Refocused

\* The page focuses the terminal it launched.
LEMMA FollowLaunchStep == ASSUME FiltersKnown, FollowLaunch PROVE FiltersKnown'
<1>1. /\ UNCHANGED <<terminals, server, seen, view, timers, expired, refused>>
      /\ launched' = {} /\ launched # {} /\ expired = {}
  BY DEF FollowLaunch, deselection, FiltersKnown, Turns
<1>2. CASE focus \notin launched \cap selected
           /\ UNCHANGED <<shown, refs, unsynced, changed, predicted>>
  BY <1>1, <1>2 DEF FiltersKnown, FilterTypes, Normals, Turns, PinsHold, Reasons, Backed, shown, refs
<1>3. CASE ~(focus \notin launched \cap selected
             /\ UNCHANGED <<shown, refs, unsynced, changed, predicted>>)
  <2> DEFINE matches == Matching(view, pinnedFilters)
  <2>1. /\ focus \in launched \cap selected
        /\ selected' = (selected \cap pinned) \cup matches \cup {focus}
        /\ filterSelected' = matches \ pinned /\ filters' = pinnedFilters
        /\ unsynced' = TRUE /\ changed' = TRUE /\ predicted' = FALSE
        /\ UNCHANGED <<pinned, focus, pinnedFilters, manualSelected>>
    BY <1>3 DEF FollowLaunch, Mutated
  <2>2. matches \subseteq Terminals /\ filterSelected' = Matching(view, filters') \ pinned
    BY <2>1, MatchingIn
  <2> HIDE DEF matches
  <2>3. Turns'
    BY <1>1, <2>1 DEF Turns
  <2>4. /\ selected' \subseteq Terminals /\ pinned' \subseteq selected' /\ pinned' \subseteq Terminals
        /\ focus' \in Terminals \cup {None} /\ pinned \in SUBSET Terminals
        /\ filters' \in Filters /\ pinnedFilters' \in Filters /\ predicted' \in BOOLEAN
        /\ pinnedFilters'.statuses \subseteq filters'.statuses /\ launched' \subseteq Terminals
    BY <1>1, <2>1, <2>2 DEF FiltersKnown, FilterTypes, PinsHold
  <2>5. QED
    BY <1>1, <2>1, <2>2, <2>3, <2>4, ChosenAnew
<1>4. QED
  BY <1>2, <1>3

\* A timer rings.
LEMMA TimerRingsStep ==
    ASSUME FiltersKnown, NEW t \in Terminals, TimerRings(t) PROVE FiltersKnown'
<1>1. /\ timers' = timers \ {t} /\ expired' = {t} /\ Settled
      /\ UNCHANGED <<terminals, server, seen, view, shown, refs, launched, unsynced, changed,
                     refused, predicted>>
  BY DEF TimerRings
<1>2. FilterTypes' /\ Normals' /\ PinsHold'
  BY <1>1 DEF FiltersKnown, FilterTypes, Normals, PinsHold, shown, refs
<1>3. Turns'
  BY <1>1 DEF FiltersKnown, Turns, Settled
<1>4. Reasons'
  <2>1. SUFFICES ASSUME ~refused, filters # NoFilters, NEW u \in selected \cap filterSelected
                 PROVE  \/ u \in pinned \cup Matching(view, filters)
                        \/ u \in timers' \cup expired' \cup Backed
    BY <1>1 DEF Reasons, Backed, shown, refs
  <2>2. \/ u \in pinned \cup Matching(view, filters)
        \/ u \in timers \cup Backed
    BY <1>1, <2>1 DEF FiltersKnown, Reasons, Settled
  <2>3. QED
    BY <1>1, <2>2
<1>5. QED
  BY <1>2, <1>3, <1>4 DEF FiltersKnown

\* Terminals whose time is over leave the selection.
LEMMA DropExpiredStep == ASSUME FiltersKnown, DropExpired PROVE FiltersKnown'
<1> DEFINE gone == IF filters = NoFilters THEN {}
                   ELSE (expired \ Matching(view, filters)) \ pinned
<1>1. /\ expired # {} /\ expired' = {}
      /\ UNCHANGED <<terminals, server, seen, view, pinned, filters, pinnedFilters,
                     manualSelected, timers, launched, refused>>
  BY DEF DropExpired
<1>2. \/ /\ selected' = selected \ gone /\ filterSelected' = filterSelected \ gone
         /\ Refocused(selected') /\ unsynced' = TRUE /\ changed' = TRUE /\ predicted' = FALSE
      \/ /\ gone \cap selected = {}
         /\ UNCHANGED <<selected, focus, filterSelected, unsynced, changed, predicted>>
  BY DEF DropExpired, Mutated
<1>3. gone \cap pinned = {} /\ (filters # NoFilters => expired \subseteq gone \cup pinned
                                   \cup Matching(view, filters))
  OBVIOUS
<1> HIDE DEF gone
<1>4. ~changed /\ launched = {}
  BY <1>1 DEF FiltersKnown, Turns
<1>5. FilterTypes'
  <2>1. selected' \subseteq Terminals /\ filterSelected' \subseteq Terminals
    BY <1>2 DEF FiltersKnown, FilterTypes
  <2>2. focus' \in Terminals \cup {None}
    BY <1>2, <2>1, RefocusedIs DEF FiltersKnown, FilterTypes
  <2>3. unsynced' \in BOOLEAN /\ changed' \in BOOLEAN /\ predicted' \in BOOLEAN
    BY <1>2 DEF FiltersKnown, FilterTypes
  <2>4. QED
    BY <1>1, <2>1, <2>2, <2>3 DEF FiltersKnown, FilterTypes
<1>6. Normals' /\ PinsHold'
  BY <1>1, <1>2, <1>3, <1>4 DEF FiltersKnown, Normals, PinsHold
<1>7. Turns'
  BY <1>1, <1>2, <1>4 DEF FiltersKnown, Turns
<1>8. Reasons'
  <2>1. SUFFICES ASSUME ~refused, filters # NoFilters,
                        NEW t \in selected' \cap filterSelected'
                 PROVE  \/ t \in pinned \cup Matching(view, filters)
                        \/ t \in timers \cup Backed
    BY <1>1 DEF Reasons, Backed
  <2>2. t \in selected \cap filterSelected /\ t \notin gone
    BY <1>2, <2>1
  <2>3. \/ t \in pinned \cup Matching(view, filters)
        \/ t \in timers \cup expired \cup Backed
    BY <1>4, <2>1, <2>2 DEF FiltersKnown, Reasons
  <2>4. QED
    BY <1>3, <2>1, <2>2, <2>3
<1>9. QED
  BY <1>5, <1>6, <1>7, <1>8 DEF FiltersKnown

-----------------------------------------------------------------------------
(* What the user does. *)

\* What every click leaves alone.
LEMMA EditedIs ==
    ASSUME FiltersKnown, Edited
    PROVE  /\ Settled /\ unsynced' = TRUE /\ changed' = TRUE /\ predicted' \in BOOLEAN
           /\ UNCHANGED <<terminals, server, seen, view, manualSelected, timers, expired,
                          launched, refused>>
           /\ launched = {} /\ expired = {} /\ ~changed /\ Turns'
<1>1. predicted' = Current
  BY DEF Edited
<1>2. predicted' \in BOOLEAN
  BY <1>1, Zenon DEF Current, Informed
<1>3. QED
  BY <1>2 DEF Edited, Mutated, Settled, Turns, deselection

\* A click that keeps the filters and what they selected.
LEMMA SameFilters ==
    ASSUME FiltersKnown, Edited, UNCHANGED <<filters, pinnedFilters>>,
           selected' \subseteq Terminals, pinned' \subseteq selected',
           filterSelected' \subseteq filterSelected,
           focus' \in Terminals \cup {None},
           \A t \in selected' \cap filterSelected' :
               \/ t \in selected /\ (t \in pinned => t \in pinned')
               \/ t = focus'
    PROVE  FiltersKnown'
<1>1. /\ unsynced' = TRUE /\ changed' = TRUE /\ predicted' \in BOOLEAN
      /\ UNCHANGED <<terminals, server, seen, view, manualSelected, timers, expired,
                     launched, refused>>
      /\ ~changed /\ Turns'
  BY EditedIs
<1>2. FilterTypes'
  BY <1>1 DEF FiltersKnown, FilterTypes
<1>3. Normals' /\ PinsHold'
  BY <1>1 DEF FiltersKnown, Normals, PinsHold
<1>4. Reasons'
  BY <1>1 DEF FiltersKnown, Reasons, Backed
<1>5. QED
  BY <1>1, <1>2, <1>3, <1>4 DEF FiltersKnown

\* A click selects one terminal.
LEMMA SelectAloneStep ==
    ASSUME FiltersKnown, NEW t \in Terminals, SelectAlone(t) PROVE FiltersKnown'
<1> DEFINE matches == Matching(view, pinnedFilters)
<1>1. /\ selected' = (selected \cap pinned) \cup matches \cup {t}
      /\ filterSelected' = matches \ pinned /\ filters' = pinnedFilters /\ focus' = t
      /\ UNCHANGED <<pinned, pinnedFilters>> /\ Edited
  BY DEF SelectAlone
<1>2. matches \subseteq Terminals /\ filterSelected' = Matching(view, filters') \ pinned
  BY <1>1, MatchingIn
<1> HIDE DEF matches
<1>3. /\ unsynced' = TRUE /\ changed' = TRUE /\ predicted' \in BOOLEAN
      /\ UNCHANGED <<terminals, server, seen, view, manualSelected, timers, expired,
                     launched, refused>> /\ Turns'
  BY <1>1, EditedIs
<1>4. /\ selected' \subseteq Terminals /\ pinned' \subseteq selected' /\ pinned' \subseteq Terminals
      /\ focus' \in Terminals \cup {None} /\ pinned \in SUBSET Terminals
      /\ filters' \in Filters /\ pinnedFilters' \in Filters
      /\ pinnedFilters'.statuses \subseteq filters'.statuses /\ launched' \subseteq Terminals
  BY <1>1, <1>2, <1>3 DEF FiltersKnown, FilterTypes, PinsHold
<1>5. QED
  BY <1>2, <1>3, <1>4, ChosenAnew

\* A terminal is pinned or not any more.
LEMMA PinStep == ASSUME FiltersKnown, NEW t \in Terminals, Pin(t) PROVE FiltersKnown'
BY SameFilters DEF Pin, FiltersKnown, FilterTypes, PinsHold

\* A terminal is selected too.
LEMMA SelectAlsoStep == ASSUME FiltersKnown, NEW t \in Terminals, SelectAlso(t) PROVE FiltersKnown'
BY SameFilters DEF SelectAlso, FiltersKnown, FilterTypes, PinsHold

\* A pane is focused.
LEMMA FocusPaneStep == ASSUME FiltersKnown, NEW t \in Terminals, FocusPane(t) PROVE FiltersKnown'
BY SameFilters DEF FocusPane, FiltersKnown, FilterTypes, PinsHold

\* What is left of filters are filters.
LEMMA DecomposedIs ==
    ASSUME FiltersKnown, NEW f \in Filters, NEW t \in Terminals, NEW split \in BOOLEAN
    PROVE  /\ Decomposed(f, t, split) \in Filters
           /\ Decomposed(f, t, split).statuses = f.statuses \ {view[t].activity}
<1> DEFINE D == Statuses \X {Cwd[u] : u \in Terminals}
           status == view[t].activity
           siblings == {<<status, Cwd[u]>> :
                           u \in {v \in Terminals : /\ view[v].activity = status
                                                    /\ Cwd[v] # Cwd[t]}}
           c == IF split THEN (f.cwds \ OfStatus(f.cwds, status)) \cup siblings
                ELSE f.cwds \ {<<status, Cwd[t]>>}
<1>1. status \in Statuses
  BY DEF FiltersKnown, FilterTypes, Sessions, Statuses
<1> HIDE DEF status
<1>2. siblings \subseteq D
  BY <1>1
<1>3. f.cwds \subseteq D /\ f.statuses \subseteq Statuses
  BY DEF Filters
<1>4. c \subseteq D
  BY <1>2, <1>3
<1>5. Decomposed(f, t, split) = [statuses |-> f.statuses \ {status}, cwds |-> c]
  BY DEF Decomposed, status
<1> HIDE DEF c
<1>6. QED
  BY <1>3, <1>4, <1>5 DEF Filters, status

\* A terminal is deselected: the filters that hold it are split.
LEMMA DeselectStep == ASSUME FiltersKnown, NEW t \in Terminals, Deselect(t) PROVE FiltersKnown'
<1> DEFINE status == view[t].activity
           split == status \in filters.statuses
           next == Decomposed(filters, t, split)
           matches == Matching(view, next)
           ids == (selected \ {t}) \cup matches
<1>1. pinned' = pinned \ {t} /\ Refocused(selected') /\ Edited
  BY DEF Deselect
<1>2. /\ unsynced' = TRUE /\ changed' = TRUE /\ predicted' \in BOOLEAN
      /\ UNCHANGED <<terminals, server, seen, view, manualSelected, timers, expired,
                     launched, refused>> /\ Turns'
  BY <1>1, EditedIs
<1>3. CASE ~Owned(t)
  <2>1. selected' = selected \ {t} /\ UNCHANGED <<filters, pinnedFilters, filterSelected>>
    BY <1>3 DEF Deselect
  <2>2. focus' \in Terminals \cup {None} /\ selected' \subseteq Terminals
    BY <1>1, <2>1, RefocusedIs DEF FiltersKnown, FilterTypes
  <2>3. QED
    BY <1>1, <2>1, <2>2, SameFilters DEF FiltersKnown, PinsHold
<1>4. CASE Owned(t)
  <2>1. /\ filters' = next
        /\ pinnedFilters' \in {Decomposed(pinnedFilters, t, TRUE), Decomposed(pinnedFilters, t, FALSE)}
        /\ selected' \in {ids} \cup (IF ids = {} THEN {{t}} ELSE {})
        /\ filterSelected' = matches \ pinned'
    BY <1>4 DEF Deselect
  <2>2. split \in BOOLEAN
    OBVIOUS
  <2> HIDE DEF split
  <2>3. filters' \in Filters /\ filters'.statuses = filters.statuses \ {status}
    BY <2>1, <2>2, DecomposedIs DEF FiltersKnown, FilterTypes
  <2>4. pinnedFilters' \in Filters /\ pinnedFilters'.statuses = pinnedFilters.statuses \ {status}
    <3>1. pinnedFilters \in Filters /\ TRUE \in BOOLEAN /\ FALSE \in BOOLEAN
      BY DEF FiltersKnown, FilterTypes
    <3> HIDE DEF status
    <3> DEFINE a == Decomposed(pinnedFilters, t, TRUE)
               b == Decomposed(pinnedFilters, t, FALSE)
    <3>2. a \in Filters /\ a.statuses = pinnedFilters.statuses \ {status}
          /\ b \in Filters /\ b.statuses = pinnedFilters.statuses \ {status}
      BY <3>1, DecomposedIs DEF status
    <3>3. pinnedFilters' \in {a, b}
      BY <2>1
    <3> HIDE DEF a, b
    <3>4. QED
      BY <3>2, <3>3
  <2>5. matches \subseteq Terminals /\ filterSelected' = Matching(view, filters') \ pinned'
    BY <2>1, MatchingIn
  <2> HIDE DEF status, next, matches
  <2>6. selected' \subseteq Terminals /\ pinned' \subseteq selected' /\ pinned' \in SUBSET Terminals
    BY <1>1, <2>1, <2>5 DEF FiltersKnown, FilterTypes, PinsHold
  <2>7. focus' \in Terminals \cup {None}
    BY <1>1, <2>6, RefocusedIs DEF FiltersKnown, FilterTypes
  <2>8. pinnedFilters'.statuses \subseteq filters'.statuses /\ launched' \subseteq Terminals
    BY <1>2, <2>3, <2>4 DEF FiltersKnown, FilterTypes, PinsHold
  <2> DEFINE S == pinned'
  <2>9. S \in SUBSET Terminals /\ filterSelected' = Matching(view, filters') \ S
        /\ pinned' \subseteq Terminals
    BY <2>5, <2>6
  <2> HIDE DEF S
  <2>10. QED
    BY <1>2, <2>3, <2>4, <2>6, <2>7, <2>8, <2>9, ChosenAnew
<1>5. QED
  BY <1>3, <1>4

\* A quick action selects the terminals of a status.
LEMMA SelectStatusStep ==
    ASSUME FiltersKnown, NEW status \in Activities, SelectStatus(status) PROVE FiltersKnown'
<1>1. PICK t \in Terminals : focus' = t
  BY DEF SelectStatus
<1> DEFINE matches == Matching(view, filters')
<1>2. /\ filters' = [pinnedFilters EXCEPT !.statuses = @ \cup {status}]
      /\ selected' = (selected \cap pinned) \cup matches
      /\ filterSelected' = matches \ pinned
      /\ UNCHANGED <<pinned, pinnedFilters>> /\ Edited
  BY DEF SelectStatus
<1>3. matches \subseteq Terminals
  BY MatchingIn
<1>4. filterSelected' = Matching(view, filters') \ pinned
  BY <1>2
<1> HIDE DEF matches
<1>5. /\ unsynced' = TRUE /\ changed' = TRUE /\ predicted' \in BOOLEAN
      /\ UNCHANGED <<terminals, server, seen, view, manualSelected, timers, expired,
                     launched, refused>> /\ Turns'
  BY <1>2, EditedIs
<1>6. filters' \in Filters /\ pinnedFilters'.statuses \subseteq filters'.statuses
  BY <1>2 DEF FiltersKnown, FilterTypes, Filters, Statuses
<1>7. /\ selected' \subseteq Terminals /\ pinned' \subseteq selected' /\ pinned' \subseteq Terminals
      /\ focus' \in Terminals \cup {None} /\ pinned \in SUBSET Terminals
      /\ pinnedFilters' \in Filters /\ launched' \subseteq Terminals
  BY <1>1, <1>2, <1>3, <1>5 DEF FiltersKnown, FilterTypes, PinsHold
<1>8. QED
  BY <1>4, <1>5, <1>6, <1>7, ChosenAnew

\* No step breaks what is known of the filters.
LEMMA FiltersStep == FiltersKnown /\ [Next]_vars => FiltersKnown'
<1> SUFFICES ASSUME FiltersKnown, [Next]_vars PROVE FiltersKnown'
  OBVIOUS
<1>1. CASE Changes \/ Others
  BY <1>1, TerminalChangesStep, OtherSelectsStep DEF Changes, Others
<1>2. CASE ReadSessions \/ ReadSelection \/ WriteSelection \/ FollowLaunch \/ DropExpired
  BY <1>2, ReadSessionsStep, ReadSelectionStep, WriteSelectionStep, FollowLaunchStep,
     DropExpiredStep
<1>3. CASE Rings \/ Clicks \/ QuickActions
  BY <1>3, TimerRingsStep, SelectAloneStep, PinStep, SelectAlsoStep, DeselectStep,
     FocusPaneStep, SelectStatusStep DEF Rings, Clicks, QuickActions
<1>4. CASE UNCHANGED vars
  BY <1>4 DEF vars, shown, refs, deselection, FiltersKnown, FilterTypes, Normals, Turns,
              PinsHold, Reasons, Backed
<1>5. QED
  BY <1>1, <1>2, <1>3, <1>4 DEF Next

\* So what stays selected has a reason once nothing is left to do.
LEMMA FiltersHold == FiltersKnown => FiltersInv
<1> SUFFICES ASSUME FiltersKnown PROVE FiltersInv
  OBVIOUS
<1>1. TypeOK
  <2>1. Intent \in Source
    BY IntentIs DEF FiltersKnown
  <2>2. \A source \in Source :
            /\ source.manual \cup source.pinned \subseteq Terminals
            /\ source.filters.statuses \subseteq Statuses
            /\ source.focus \in Terminals \cup {None}
    BY DEF Source, Filters
  <2>3. QED
    BY <2>1, <2>2 DEF FiltersKnown, FilterTypes, TypeOK
<1>2. ASSUME Quiet, filters # NoFilters PROVE Justified
  <2>1. SUFFICES ASSUME NEW t \in selected
                 PROVE  t \in Intent.manual \cup pinned \cup Matching(view, filters)
    BY DEF Justified
  <2>2. Intent.manual = Chosen
    BY DEF Intent, Chosen
  <2>3. CASE t \notin filterSelected \/ t \in pinned
    BY <2>1, <2>2, <2>3 DEF Chosen
  <2>4. CASE t \in filterSelected /\ t \notin pinned
    <3>1. t \in Matching(view, filters) \cup Backed
      BY <1>2, <2>1, <2>4 DEF FiltersKnown, Reasons, Quiet, Settled
    <3>2. CASE t \in Backed
      <4>1. filters = seen.source.filters /\ t \in seen.ids /\ t \notin seen.source.manual
            /\ t \notin seen.source.pinned
        BY <3>2 DEF Backed
      <4>2. seen.source = server /\ seen.ids = Resolved(server, terminals) /\ view = terminals
        BY <1>2 DEF Quiet, Informed, Snapshot, SnapshotOf
      <4>3. QED
        BY <4>1, <4>2 DEF Resolved
    <3>3. QED
      BY <3>1, <3>2
  <2>5. QED
    BY <2>3, <2>4
<1>3. QED
  BY <1>1, <1>2 DEF FiltersKnown, FiltersInv, StaleMatchLeaves

-----------------------------------------------------------------------------
(* What a click shows at once. *)

\* Every terminal that shows is chosen, pinned or matched, those of the pinned
\* filters are matched, and the focused pane shows.
Reasoned ==
    /\ Chosen \cup pinned \cup Matching(view, filters) = selected
    /\ Matching(view, pinnedFilters) \subseteq Matching(view, filters)
    /\ focus \in selected \cup {None}

\* A click on the current state is written next, and shows what has a reason.
Predicts ==
    predicted => changed /\ (HeldByAttention \subseteq selected => Reasoned)

\* At first nothing is predicted.
LEMMA PredictsStart == Init => Predicts
BY DEF Init, Predicts

\* More filters match more.
LEMMA MatchesMore ==
    ASSUME NEW f, NEW g, f.statuses \subseteq g.statuses, f.cwds \subseteq g.cwds
    PROVE  Matching(view, f) \subseteq Matching(view, g)
BY DEF Matching

\* What a click on the current state finds.
LEMMA CurrentIs ==
    ASSUME FiltersKnown, Current
    PROVE  /\ Reasoned /\ filterSelected \subseteq selected /\ pinned \subseteq selected
           /\ pinnedFilters.statuses \subseteq filters.statuses
           /\ pinnedFilters.cwds \subseteq filters.cwds
<1>1. /\ view = terminals /\ seen.source = server /\ seen.ids = Resolved(server, terminals)
      /\ selected = seen.ids /\ Intent = seen.source /\ filterSelected \subseteq selected
  BY DEF Current, Informed, Snapshot, SnapshotOf
<1>2. /\ server.manual = Chosen /\ server.pinned = pinned /\ server.filters = filters
      /\ server.pinnedFilters = pinnedFilters /\ server.focus = focus
  BY <1>1 DEF Intent, Chosen
<1>3. Chosen \cup pinned \cup Matching(view, filters) = selected
  BY <1>1, <1>2 DEF Resolved
<1>4. /\ pinnedFilters.statuses \subseteq filters.statuses
      /\ pinnedFilters.cwds \subseteq filters.cwds /\ focus \in selected \cup {None}
  BY <1>1, <1>2 DEF FiltersKnown, Normals, Normal
<1>5. QED
  BY <1>1, <1>3, <1>4, MatchesMore DEF Reasoned

\* A click on another state predicts nothing.
LEMMA ClickPredicts ==
    ASSUME FiltersKnown, Edited, Current /\ HeldByAttention' \subseteq selected' => Reasoned'
    PROVE  Predicts'
BY DEF Edited, Mutated, Predicts

\* A click that selects what is pinned, what the filters match and a terminal.
LEMMA AloneIsReasoned ==
    ASSUME FiltersKnown, UNCHANGED <<view, manualSelected, pinned, pinnedFilters>>,
           NEW T \in SUBSET Terminals,
           selected' = (selected \cap pinned) \cup Matching(view, filters') \cup T,
           filterSelected' = Matching(view, filters') \ pinned,
           pinnedFilters.statuses \subseteq filters'.statuses,
           pinnedFilters.cwds \subseteq filters'.cwds, focus' \in selected'
    PROVE  Reasoned'
<1> DEFINE matches == Matching(view, filters')
<1>1. pinned \subseteq selected
  BY DEF FiltersKnown, PinsHold
<1>2. Chosen' = {u \in selected' : u \notin matches \ pinned /\ (u \notin pinned \/ u \in manualSelected)}
  BY DEF Chosen
<1>3. Matching(view', pinnedFilters') \subseteq matches /\ Matching(view', filters') = matches
  BY MatchesMore
<1>4. selected' = (selected \cap pinned) \cup matches \cup T
  OBVIOUS
<1> HIDE DEF matches
<1>5. Chosen' \cup pinned' \cup matches = selected'
  BY <1>1, <1>2, <1>4
<1>6. QED
  BY <1>3, <1>5 DEF Reasoned

\* A click selects one terminal: it is chosen, or matched.
LEMMA SelectAlonePredicts ==
    ASSUME FiltersKnown, NEW t \in Terminals, SelectAlone(t) PROVE Predicts'
<1>1. /\ selected' = (selected \cap pinned) \cup Matching(view, pinnedFilters) \cup {t}
      /\ filterSelected' = Matching(view, pinnedFilters) \ pinned
      /\ filters' = pinnedFilters /\ focus' = t
      /\ UNCHANGED <<pinned, pinnedFilters>> /\ Edited
  BY DEF SelectAlone
<1>2. UNCHANGED <<view, manualSelected>>
  BY <1>1 DEF Edited
<1> DEFINE T == {t}
<1>3. /\ T \in SUBSET Terminals /\ focus' \in selected'
      /\ selected' = (selected \cap pinned) \cup Matching(view, filters') \cup T
      /\ filterSelected' = Matching(view, filters') \ pinned
  BY <1>1
<1>4. pinnedFilters.statuses \subseteq filters'.statuses /\ pinnedFilters.cwds \subseteq filters'.cwds
  BY <1>1
<1> HIDE DEF T
<1>5. Reasoned'
  BY <1>1, <1>2, <1>3, <1>4, AloneIsReasoned
<1>6. QED
  BY <1>1, <1>5, ClickPredicts

\* A quick action selects the terminals of a status: they are matched.
LEMMA SelectStatusPredicts ==
    ASSUME FiltersKnown, NEW status \in Activities, SelectStatus(status) PROVE Predicts'
<1>1. PICK t \in Terminals : view[t].activity = status /\ focus' = t
  BY DEF SelectStatus
<1>2. /\ filters' = [pinnedFilters EXCEPT !.statuses = @ \cup {status}]
      /\ selected' = (selected \cap pinned) \cup Matching(view, filters')
      /\ filterSelected' = Matching(view, filters') \ pinned
      /\ UNCHANGED <<pinned, pinnedFilters>> /\ Edited
  BY DEF SelectStatus
<1>3. UNCHANGED <<view, manualSelected>>
  BY <1>2 DEF Edited
<1>4. pinnedFilters.statuses \subseteq filters'.statuses /\ pinnedFilters.cwds \subseteq filters'.cwds
      /\ status \in filters'.statuses
  BY <1>2 DEF FiltersKnown, FilterTypes, Filters
<1>5. t \in Matching(view, filters')
  BY <1>1, <1>4 DEF Matching, StatusesOf
<1> DEFINE T == {}
<1>6. /\ T \in SUBSET Terminals /\ focus' \in selected'
      /\ selected' = (selected \cap pinned) \cup Matching(view, filters') \cup T
  BY <1>1, <1>2, <1>5
<1> HIDE DEF T
<1>7. Reasoned'
  BY <1>2, <1>3, <1>4, <1>6, AloneIsReasoned
<1>8. QED
  BY <1>2, <1>7, ClickPredicts

\* A click that keeps the filters, and takes at most one terminal in.
LEMMA PinPredicts == ASSUME FiltersKnown, NEW t \in Terminals, Pin(t) PROVE Predicts'
<1>1. /\ pinned' = pinned \cup {t} /\ selected' = selected \cup {t} /\ focus' = t
      /\ filterSelected' = filterSelected \ {t}
      /\ UNCHANGED <<filters, pinnedFilters, view, manualSelected>> /\ Edited
  BY DEF Pin, Edited
<1>2. ASSUME Current PROVE Reasoned'
  <2>1. Reasoned /\ filterSelected \subseteq selected
    BY <1>2, CurrentIs
  <2> DEFINE matches == Matching(view, filters)
  <2>2. Matching(view', filters') = matches /\ Matching(view', pinnedFilters') \subseteq matches
        /\ Chosen \cup pinned \cup matches = selected
    BY <1>1, <2>1 DEF Reasoned
  <2> HIDE DEF matches
  <2>3. Chosen' \cup pinned' \cup matches = selected'
    BY <1>1, <2>2 DEF Chosen
  <2>4. QED
    BY <1>1, <2>2, <2>3 DEF Reasoned
<1>3. QED
  BY <1>1, <1>2, ClickPredicts

\* A terminal that was not selected is chosen, whatever selected it before.
LEMMA SelectAlsoPredicts == ASSUME FiltersKnown, NEW t \in Terminals, SelectAlso(t) PROVE Predicts'
<1>1. /\ t \notin selected /\ selected' = selected \cup {t} /\ focus' = t
      /\ UNCHANGED <<pinned, filters, pinnedFilters, filterSelected, view, manualSelected>>
      /\ Edited
  BY DEF SelectAlso, Edited
<1>2. ASSUME Current PROVE Reasoned'
  <2>1. Reasoned /\ filterSelected \subseteq selected /\ pinned \subseteq selected
    BY <1>2, CurrentIs
  <2> DEFINE matches == Matching(view, filters)
  <2>2. Matching(view', filters') = matches /\ Matching(view', pinnedFilters') \subseteq matches
        /\ Chosen \cup pinned \cup matches = selected
    BY <1>1, <2>1 DEF Reasoned
  <2> HIDE DEF matches
  <2>3. Chosen' \cup pinned' \cup matches = selected'
    BY <1>1, <2>1, <2>2 DEF Chosen
  <2>4. QED
    BY <1>1, <2>2, <2>3 DEF Reasoned
<1>3. QED
  BY <1>1, <1>2, ClickPredicts

\* Another pane that shows is focused.
LEMMA FocusPanePredicts == ASSUME FiltersKnown, NEW t \in Terminals, FocusPane(t) PROVE Predicts'
<1>1. /\ t \in selected /\ focus' = t
      /\ UNCHANGED <<selected, pinned, filters, pinnedFilters, filterSelected, view,
                     manualSelected>> /\ Edited
  BY DEF FocusPane, Edited
<1>2. ASSUME Current PROVE Reasoned'
  <2>1. Reasoned
    BY <1>2, CurrentIs
  <2>2. Chosen' = Chosen
    BY <1>1 DEF Chosen
  <2>3. QED
    BY <1>1, <2>1, <2>2 DEF Reasoned
<1>3. QED
  BY <1>1, <1>2, ClickPredicts

\* A terminal that is unchecked: its own filters no longer match it, and what is
\* left of the pinned filters matches no more than what is left of the filters.
LEMMA LeftoverMatches ==
    ASSUME FiltersKnown, NEW t \in Terminals,
           pinnedFilters.statuses \subseteq filters.statuses,
           pinnedFilters.cwds \subseteq filters.cwds,
           NEW split, split = (view[t].activity \in filters.statuses),
           NEW both, both = (split /\ view[t].activity \in pinnedFilters.statuses)
    PROVE  Matching(view, Decomposed(pinnedFilters, t, both))
               \subseteq Matching(view, Decomposed(filters, t, split))
<1> DEFINE status == view[t].activity
           p == Decomposed(pinnedFilters, t, both)
           f == Decomposed(filters, t, split)
           siblings == {<<status, Cwd[v]>> :
                           v \in {w \in Terminals : /\ view[w].activity = status
                                                    /\ Cwd[w] # Cwd[t]}}
<1>1. p.statuses \subseteq f.statuses
  BY DEF Decomposed
<1>2. status \in Activities /\ status # "attention"
  BY WorkspaceAssumption DEF FiltersKnown, FilterTypes, Sessions, WorkspaceAssumption
<1>3. SUFFICES ASSUME NEW u \in Terminals, NEW s \in StatusesOf(view[u]),
                      <<s, Cwd[u]>> \in p.cwds
               PROVE  <<s, Cwd[u]>> \in f.cwds
  BY <1>1 DEF Matching
<1>4. CASE both
  <2>1. p.cwds = (pinnedFilters.cwds \ OfStatus(pinnedFilters.cwds, status)) \cup siblings
        /\ f.cwds = (filters.cwds \ OfStatus(filters.cwds, status)) \cup siblings
    BY <1>4 DEF Decomposed
  <2> HIDE DEF p, f, siblings, status
  <2>2. QED
    BY <1>3, <2>1 DEF OfStatus
<1>5. CASE ~both /\ ~split
  <2>1. p.cwds = pinnedFilters.cwds \ {<<status, Cwd[t]>>}
        /\ f.cwds = filters.cwds \ {<<status, Cwd[t]>>}
    BY <1>5 DEF Decomposed
  <2> HIDE DEF p, f, status
  <2>2. QED
    BY <1>3, <2>1
<1>6. CASE ~both /\ split
  <2>1. p.cwds = pinnedFilters.cwds \ {<<status, Cwd[t]>>}
        /\ f.cwds = (filters.cwds \ OfStatus(filters.cwds, status)) \cup siblings
    BY <1>6 DEF Decomposed
  <2>2. <<s, Cwd[u]>> \in filters.cwds /\ <<s, Cwd[u]>> # <<status, Cwd[t]>>
    <3> HIDE DEF p, status
    <3>1. QED
      BY <1>3, <2>1
  <2>3. CASE s # status
    <3> HIDE DEF f, siblings, status
    <3>1. QED
      BY <2>1, <2>2, <2>3 DEF OfStatus
  <2>4. CASE s = status
    <3>1. view[u].activity = status
      BY <1>2, <1>3, <2>4 DEF StatusesOf
    <3>2. Cwd[u] # Cwd[t]
      BY <2>2, <2>4
    <3>3. <<status, Cwd[u]>> \in siblings
      BY <3>1, <3>2
    <3>4. QED
      BY <2>1, <2>4, <3>3
  <2>5. QED
    BY <2>3, <2>4
<1>7. QED
  BY <1>4, <1>5, <1>6

\* An unchecked terminal is out of what matches, unless attention holds it.
LEMMA DeselectPredicts == ASSUME FiltersKnown, NEW t \in Terminals, Deselect(t) PROVE Predicts'
<1> DEFINE status == view[t].activity
           split == status \in filters.statuses
           next == Decomposed(filters, t, split)
           matches == Matching(view, next)
           ids == (selected \ {t}) \cup matches
<1>1. pinned' = pinned \ {t} /\ Refocused(selected') /\ Edited
      /\ UNCHANGED <<view, manualSelected>>
  BY DEF Deselect, Edited
<1>2. focus' \in selected' \cup {None}
  BY <1>1 DEF Refocused
<1>3. ASSUME ~Owned(t), Current, HeldByAttention' \subseteq selected' PROVE Reasoned'
  <2>1. selected' = selected \ {t} /\ UNCHANGED <<filters, pinnedFilters, filterSelected>>
    BY <1>3 DEF Deselect
  <2>2. t \notin Matching(view, filters)
    <3>1. t \notin HeldByAttention'
      BY <1>3, <2>1
    <3>2. ~(view[t].attention /\ ("attention" \in filters.statuses
                                  \/ <<"attention", Cwd[t]>> \in filters.cwds))
      BY <1>1, <2>1, <3>1 DEF HeldByAttention
    <3>3. QED
      BY <1>3, <3>2 DEF Matching, StatusesOf, Owned
  <2>3. Reasoned
    BY <1>3, CurrentIs
  <2> DEFINE m == Matching(view, filters)
  <2>4. Matching(view', filters') = m /\ Matching(view', pinnedFilters') \subseteq m
        /\ Chosen \cup pinned \cup m = selected /\ t \notin m
    BY <1>1, <2>1, <2>2, <2>3 DEF Reasoned
  <2> HIDE DEF m
  <2>5. Chosen' \cup pinned' \cup m = selected'
    BY <1>1, <2>1, <2>4 DEF Chosen
  <2>6. QED
    BY <1>2, <2>4, <2>5 DEF Reasoned
<1>4. ASSUME Owned(t), Current PROVE Reasoned'
  <2> DEFINE both == split /\ status \in pinnedFilters.statuses
  <2>1. /\ filters' = next
        /\ pinnedFilters' = IF both THEN Decomposed(pinnedFilters, t, TRUE)
                            ELSE Decomposed(pinnedFilters, t, FALSE)
        /\ selected' = IF ids = {} /\ ~(t \in pinned) THEN {t} ELSE ids
        /\ filterSelected' = matches \ pinned'
    BY <1>4 DEF Deselect
  <2>2. pinnedFilters' = Decomposed(pinnedFilters, t, both)
    BY <2>1 DEF Decomposed
  <2>3. Matching(view, pinnedFilters') \subseteq matches
    <3>1. /\ pinnedFilters.statuses \subseteq filters.statuses
          /\ pinnedFilters.cwds \subseteq filters.cwds
      BY <1>4, CurrentIs
    <3>2. QED
      BY <2>2, <3>1, LeftoverMatches
  <2>4. Matching(view', filters') = matches /\ Matching(view', pinnedFilters') \subseteq matches
    BY <1>1, <2>1, <2>3
  <2>5. pinned \subseteq selected
    BY DEF FiltersKnown, PinsHold
  <2> HIDE DEF matches, next, both, split, status
  <2>6. Chosen' \cup pinned' \cup matches = selected'
    BY <1>1, <2>1, <2>5 DEF Chosen
  <2>7. QED
    BY <1>2, <2>4, <2>6 DEF Reasoned
<1>5. QED
  BY <1>1, <1>3, <1>4, ClickPredicts

\* Nothing comes between a click and its write but what moves elsewhere.
LEMMA PredictsStep == FiltersKnown /\ Predicts /\ [Next]_vars => Predicts'
<1> SUFFICES ASSUME FiltersKnown, Predicts, [Next]_vars PROVE Predicts'
  OBVIOUS
<1>1. ASSUME UNCHANGED <<view, shown, refs, changed, predicted>> PROVE Predicts'
  <2>1. /\ view' = view /\ selected' = selected /\ pinned' = pinned /\ focus' = focus
        /\ filters' = filters /\ pinnedFilters' = pinnedFilters
        /\ filterSelected' = filterSelected /\ manualSelected' = manualSelected
    BY <1>1 DEF shown, refs
  <2>2. Chosen' = Chosen /\ HeldByAttention' = HeldByAttention
    BY <2>1 DEF Chosen, HeldByAttention
  <2>3. QED
    BY <1>1, <2>1, <2>2 DEF Predicts, Reasoned
<1>2. CASE Changes \/ Others \/ UNCHANGED vars
  BY <1>1, <1>2 DEF Changes, Others, TerminalChanges, OtherSelects, vars
<1>3. ASSUME ~changed, predicted' = predicted PROVE Predicts'
  BY <1>3 DEF Predicts
<1>4. CASE ReadSessions \/ ReadSelection \/ Rings
  BY <1>3, <1>4 DEF ReadSessions, ReadSelection, Rings, TimerRings, Settled
<1>5. CASE WriteSelection \/ FollowLaunch \/ DropExpired
  <2>1. WriteSelection => predicted' = FALSE
    BY DEF WriteSelection
  <2>2. FollowLaunch \/ DropExpired => ~changed
    BY DEF FollowLaunch, DropExpired, FiltersKnown, Turns
  <2>3. FollowLaunch \/ DropExpired => predicted' \in {predicted, FALSE}
    BY DEF FollowLaunch, DropExpired
  <2>4. QED
    BY <1>3, <1>5, <2>1, <2>2, <2>3 DEF Predicts
<1>6. CASE Clicks \/ QuickActions
  BY <1>6, SelectAlonePredicts, PinPredicts, SelectAlsoPredicts, DeselectPredicts,
     FocusPanePredicts, SelectStatusPredicts DEF Clicks, QuickActions
<1>7. QED
  BY <1>2, <1>4, <1>5, <1>6 DEF Next

\* What the server makes of the sources of what has a reason.
LEMMA WrittenIs ==
    ASSUME FiltersKnown, Reasoned, view = terminals,
           NEW n, n = Normalize(Intent, terminals)
    PROVE  Resolved(n, terminals) = selected /\ Resolved(Intent, terminals) = selected
<1> DEFINE c == {f \in pinnedFilters.cwds : f[1] \notin pinnedFilters.statuses}
           g == [statuses |-> filters.statuses \cup pinnedFilters.statuses,
                 cwds |-> filters.cwds \cup c]
           full == [Intent EXCEPT
                       !.pinnedFilters.cwds = c,
                       !.filters = [statuses |-> @.statuses \cup Intent.pinnedFilters.statuses,
                                    cwds |-> @.cwds \cup c]]
<1>1. /\ Intent.manual = Chosen /\ Intent.pinned = pinned /\ Intent.filters = filters
      /\ Intent.pinnedFilters = pinnedFilters
  BY DEF Intent, Chosen
<1>2. n = [full EXCEPT !.focus = ResolvedFocus(full, terminals)]
  BY <1>1 DEF Normalize
<1>3. n.manual = Chosen /\ n.pinned = pinned /\ n.filters = g
  BY <1>1, <1>2 DEF Intent
<1>4. Matching(terminals, g) \subseteq
          Matching(terminals, filters) \cup Matching(terminals, pinnedFilters)
  BY DEF Matching
<1>5. Matching(terminals, filters) \subseteq Matching(terminals, g)
  BY MatchesMore
<1> HIDE DEF g
<1>6. Matching(terminals, g) = Matching(terminals, filters)
      /\ Chosen \cup pinned \cup Matching(terminals, filters) = selected
  BY <1>4, <1>5 DEF Reasoned
<1>7. QED
  BY <1>1, <1>3, <1>6 DEF Resolved

\* So the answer leaves a click as it was shown.
LEMMA ClickShown ==
    ASSUME FiltersKnown, Predicts, WriteSelection, predicted, Informed,
           HeldByAttention \subseteq selected
    PROVE  /\ refused' = refused /\ selected' = selected
           /\ Resolved(server', terminals) = selected
<1>1. Reasoned /\ view = terminals /\ seen.source = server
  BY DEF Predicts, Informed, Snapshot, SnapshotOf
<1> DEFINE n == Normalize(Intent, terminals)
<1>2. Resolved(n, terminals) = selected /\ Resolved(Intent, terminals) = selected
  BY <1>1, WrittenIs
<1>3. CASE Intent = seen.source /\ UNCHANGED <<server, shown, refused>>
  BY <1>1, <1>2, <1>3 DEF shown
<1>4. CASE Intent # seen.source /\ ~Accepted(Intent)
  <2>1. Intent.focus = focus
    BY DEF Intent
  <2>2. QED
    BY <1>1, <1>2, <1>4, <2>1 DEF Accepted, Reasoned
<1>5. CASE server' = n /\ Apply(SnapshotOf(n)) /\ UNCHANGED refused
  <2> HIDE DEF n
  <2>1. SnapshotOf(n).ids = selected
    BY <1>2 DEF SnapshotOf
  <2> DEFINE s == SnapshotOf(n)
             kept == timers' \cap ((selected \ pinned) \ s.ids)
  <2>2. selected' = s.ids \cup kept
    BY <1>5 DEF Apply
  <2>3. QED
    BY <1>2, <1>5, <2>1, <2>2
<1>6. QED
  BY <1>3, <1>4, <1>5 DEF WriteSelection

-----------------------------------------------------------------------------
(* The settings of a browser. *)

\* A request to save settings.
SaveRequest ==
    [next : Settings, previous : Settings, byForm : BOOLEAN,
     answer : {None, "saved", "failed"}]

\* Everything that is saved, asked for, answered or put back is usable.
SettingsTyped ==
    /\ stored \in Settings /\ settings \in Settings
    /\ draft \in [prefix : Keys \cup {Bad}, tab : Keys \cup {Bad},
                  size : Sizes \cup {Bad}]
    /\ formOpen \in BOOLEAN /\ resizing \in BOOLEAN /\ calm \in BOOLEAN
    /\ formError \in Fields \cup {None}
    /\ sending \in Seq(SaveRequest) /\ Len(sending) <= MaxSaves
    /\ loading \in [phase : {"asked", "answered", "handled"}, value : Settings]

\* In a browser that was calm so far the only request says what the server had
\* and will have, and an answer to the first load what it has.
CalmKnown ==
    calm =>
        /\ Len(sending) <= 1
        /\ Len(sending) = 1 =>
               /\ loading.phase = "handled"
               /\ stored = IF sending[1].answer = "saved" THEN sending[1].next
                           ELSE sending[1].previous
        /\ loading.phase = "answered" => loading.value = stored
        /\ Len(sending) = 0 /\ loading.phase = "handled" => settings = stored

\* The inductive invariant of the settings.
SettingsKnown == SettingsTyped /\ BarFollows /\ CalmKnown

\* Settings have all their fields, of their kinds.
LEMMA SettingsFields ==
    ASSUME NEW s
    PROVE  s \in Settings <=>
               /\ s \in [prefix : Keys, tab : Keys, size : Sizes, bar : Widths]
               /\ s.prefix # s.tab
  BY DEF Settings, UsableKeys

\* At first nothing is asked but the settings.
LEMMA SettingsStart == SettingsInit => SettingsKnown
<1> SUFFICES ASSUME SettingsInit PROVE SettingsKnown
  OBVIOUS
<1>1. \E s \in Settings : s.bar = 1
  <2>1. stored \in [prefix : Keys, tab : Keys, size : Sizes, bar : Widths]
        /\ stored.prefix # stored.tab
    BY SettingsFields DEF SettingsInit
  <2>2. [stored EXCEPT !.bar = 1] \in Settings /\ [stored EXCEPT !.bar = 1].bar = 1
    BY <2>1, SettingsFields DEF Widths
  <2>3. QED
    BY <2>2
<1>2. stored \in Settings /\ settings \in Settings
  BY <1>1 DEF SettingsInit
<1>3. draft \in [prefix : Keys \cup {Bad}, tab : Keys \cup {Bad}, size : Sizes \cup {Bad}]
  BY <1>2, SettingsFields DEF SettingsInit, Drafts
<1>4. sending = <<>> /\ Len(sending) = 0 /\ sending \in Seq(SaveRequest)
      /\ loading = [phase |-> "asked", value |-> settings]
  BY DEF SettingsInit
<1>5. MaxSaves \in Nat
  BY SettingsAssumption DEF SettingsAssumption
<1>6. SettingsTyped
  <2>1. loading \in [phase : {"asked", "answered", "handled"}, value : Settings]
    BY <1>2, <1>4
  <2>2. Len(sending) <= MaxSaves /\ formError \in Fields \cup {None}
    BY <1>4, <1>5 DEF SettingsInit
  <2>3. QED
    BY <1>2, <1>3, <1>4, <2>1, <2>2 DEF SettingsTyped, SettingsInit
<1>7. BarFollows /\ CalmKnown
  BY <1>4 DEF BarFollows, CalmKnown, SettingsInit
<1>8. QED
  BY <1>6, <1>7 DEF SettingsKnown

\* persistSettings of settings that are usable.
LEMMA PersistKeeps ==
    ASSUME SettingsKnown, NEW next \in Settings, NEW byForm \in BOOLEAN,
           Persist(next, byForm), UNCHANGED <<stored, loading>>
    PROVE  /\ settings' \in Settings /\ calm' \in BOOLEAN
           /\ sending' \in Seq(SaveRequest) /\ Len(sending') <= MaxSaves
           /\ CalmKnown'
<1> DEFINE r == [next |-> next, previous |-> settings, byForm |-> byForm, answer |-> None]
<1>1. r \in SaveRequest /\ r.previous = settings /\ r.answer = None
  BY DEF SaveRequest, SettingsKnown, SettingsTyped
<1>2. sending' = Append(sending, r) /\ settings' = next /\ Len(sending) < MaxSaves
  BY DEF Persist
<1>3. calm' = (calm /\ sending = <<>> /\ loading.phase = "handled")
  BY DEF Persist
<1> HIDE DEF r
<1>4. sending \in Seq(SaveRequest) /\ MaxSaves \in Nat
  BY SettingsAssumption DEF SettingsAssumption, SettingsKnown, SettingsTyped
<1>5. sending' \in Seq(SaveRequest) /\ Len(sending') = Len(sending) + 1
      /\ Len(sending') <= MaxSaves /\ sending'[Len(sending) + 1] = r
  BY <1>1, <1>2, <1>4
<1>6. calm' \in BOOLEAN
  BY <1>3, Zenon
<1>7. ASSUME calm' PROVE CalmKnown'
  <2>1. calm /\ sending = <<>> /\ loading.phase = "handled"
    BY <1>3, <1>7
  <2>2. Len(sending) = 0 /\ settings = stored
    BY <2>1 DEF SettingsKnown, CalmKnown
  <2>3. Len(sending') = 1 /\ sending'[1] = r
    BY <1>5, <2>2
  <2>4. stored' = stored /\ loading' = loading /\ None # "saved"
    BY SettingsAssumption DEF SettingsAssumption
  <2>5. QED
    BY <1>1, <2>1, <2>2, <2>3, <2>4 DEF CalmKnown
<1>8. ~calm' => CalmKnown'
  BY DEF CalmKnown
<1>9. QED
  BY <1>2, <1>5, <1>6, <1>7, <1>8

\* A new width of the sidebar.
LEMMA BarIsSettings ==
    ASSUME NEW s \in Settings, NEW w \in Widths
    PROVE  [s EXCEPT !.bar = w] \in Settings /\ [s EXCEPT !.bar = w].bar = w
  BY SettingsFields

\* What the form sends.
LEMMA FormIsSettings ==
    ASSUME SettingsKnown, Complaint = None
    PROVE  LET s == [prefix |-> draft.prefix, tab |-> draft.tab, size |-> draft.size,
                     bar |-> settings.bar]
           IN  s \in Settings /\ s.bar = settings.bar
<1>1. draft.prefix # Bad /\ draft.tab # Bad /\ draft.tab # draft.prefix /\ draft.size # Bad
  BY SettingsAssumption DEF SettingsAssumption, Complaint, Fields
<1>2. draft.prefix \in Keys /\ draft.tab \in Keys /\ draft.size \in Sizes
  BY <1>1 DEF SettingsKnown, SettingsTyped
<1>3. settings.bar \in Widths
  BY SettingsFields DEF SettingsKnown, SettingsTyped
<1>4. QED
  BY <1>1, <1>2, <1>3, SettingsFields

\* A request that is answered, or whose answer is lost.
LEMMA AnsweredRequest ==
    ASSUME NEW q \in Seq(SaveRequest), NEW i \in DOMAIN q, NEW a \in {"saved", "failed"},
           NEW p, p = [q EXCEPT ![i].answer = a]
    PROVE  /\ p \in Seq(SaveRequest) /\ Len(p) = Len(q)
           /\ p[i].next = q[i].next /\ p[i].previous = q[i].previous
           /\ p[i].answer = a
<1>1. \A j \in DOMAIN q : q[j] \in SaveRequest
  OBVIOUS
<1>2. [q[i] EXCEPT !.answer = a] \in SaveRequest
  BY <1>1 DEF SaveRequest
<1>3. p = [q EXCEPT ![i] = [q[i] EXCEPT !.answer = a]]
  OBVIOUS
<1>4. p[i] = [q[i] EXCEPT !.answer = a]
  BY <1>3
<1>5. p \in Seq(SaveRequest) /\ Len(p) = Len(q)
  BY <1>2, <1>3, ExceptSeq
<1>6. q[i] \in SaveRequest
  BY <1>1
<1>7. p[i].next = q[i].next /\ p[i].previous = q[i].previous /\ p[i].answer = a
  BY <1>4, <1>6 DEF SaveRequest
<1>8. QED
  BY <1>5, <1>7

\* A request that is forgotten.
LEMMA ForgottenRequest ==
    ASSUME NEW q \in Seq(SaveRequest), NEW i \in DOMAIN q
    PROVE  RemoveAt(q, i) \in Seq(SaveRequest) /\ Len(RemoveAt(q, i)) = Len(q) - 1
<1>1. /\ Len(q) \in Nat /\ i \in 1..Len(q)
  OBVIOUS
<1> DEFINE a == SubSeq(q, 1, i - 1)
           b == SubSeq(q, i + 1, Len(q))
<1>2. \A j \in 1..Len(q) : q[j] \in SaveRequest
  OBVIOUS
<1>3. a \in Seq(SaveRequest) /\ Len(a) = i - 1
  BY <1>1, <1>2, SubSeqProperties
<1>4. b \in Seq(SaveRequest) /\ Len(b) = Len(q) - i
  BY <1>1, <1>2, SubSeqProperties
<1>5. RemoveAt(q, i) = a \o b
  BY DEF RemoveAt
<1> HIDE DEF a, b
<1>6. a \o b \in Seq(SaveRequest) /\ Len(a \o b) = Len(a) + Len(b)
  BY <1>3, <1>4, ConcatProperties
<1>7. QED
  BY <1>1, <1>3, <1>4, <1>5, <1>6

\* No step breaks what is known of the settings.
LEMMA SettingsStep == SettingsKnown /\ [SettingsNext]_settingsVars => SettingsKnown'
<1> SUFFICES ASSUME SettingsKnown, [SettingsNext]_settingsVars PROVE SettingsKnown'
  OBVIOUS
<1>0. MaxSaves \in Nat /\ None # "saved" /\ None # "failed" /\ "saved" # "failed"
  BY SettingsAssumption DEF SettingsAssumption
<1>1. ASSUME NEW w \in Widths, ChangeBar(w) PROVE SettingsKnown'
  <2>1. [settings EXCEPT !.bar = w] \in Settings /\ [settings EXCEPT !.bar = w].bar = w
    BY BarIsSettings DEF SettingsKnown, SettingsTyped
  <2>2. Persist([settings EXCEPT !.bar = w], FALSE) /\ UNCHANGED <<stored, loading>>
    BY <1>1 DEF ChangeBar
  <2>3. /\ settings' \in Settings /\ calm' \in BOOLEAN
        /\ sending' \in Seq(SaveRequest) /\ Len(sending') <= MaxSaves /\ CalmKnown'
    BY <2>1, <2>2, PersistKeeps
  <2>4. barShown' = settings'.bar
    BY <1>1, <2>1 DEF ChangeBar, Persist
  <2>5. QED
    BY <1>1, <2>3, <2>4 DEF ChangeBar, SettingsKnown, SettingsTyped, BarFollows
<1>2. ASSUME NEW w \in Widths, Resize(w) PROVE SettingsKnown'
  BY <1>2 DEF Resize, SettingsKnown, SettingsTyped, BarFollows, CalmKnown
<1>3. ASSUME NEW w \in Widths, FinishResize(w) PROVE SettingsKnown'
  <2>1. [settings EXCEPT !.bar = w] \in Settings /\ [settings EXCEPT !.bar = w].bar = w
    BY BarIsSettings DEF SettingsKnown, SettingsTyped
  <2>2. Persist([settings EXCEPT !.bar = w], FALSE) /\ UNCHANGED <<stored, loading>>
    BY <1>3 DEF FinishResize
  <2>3. /\ settings' \in Settings /\ calm' \in BOOLEAN
        /\ sending' \in Seq(SaveRequest) /\ Len(sending') <= MaxSaves /\ CalmKnown'
    BY <2>1, <2>2, PersistKeeps
  <2>4. barShown' = settings'.bar
    BY <1>3, <2>1 DEF FinishResize, Persist
  <2>5. QED
    BY <1>3, <2>3, <2>4 DEF FinishResize, SettingsKnown, SettingsTyped, BarFollows
<1>4. CASE StartResize
  BY <1>4 DEF StartResize, Edits, SettingsKnown, SettingsTyped, BarFollows, CalmKnown
<1>5. CASE OpenForm
  <2>1. draft' \in [prefix : Keys \cup {Bad}, tab : Keys \cup {Bad}, size : Sizes \cup {Bad}]
    BY <1>5, SettingsFields DEF OpenForm, Drafts, SettingsKnown, SettingsTyped
  <2>2. QED
    BY <1>5, <2>1 DEF OpenForm, SettingsKnown, SettingsTyped, BarFollows, CalmKnown
<1>6. CASE CancelForm
  BY <1>6 DEF CancelForm, SettingsKnown, SettingsTyped, BarFollows, CalmKnown
<1>7. CASE RefuseForm
  <2>1. formError' \in Fields \cup {None}
    BY <1>7 DEF RefuseForm, Complaint, Fields
  <2>2. QED
    BY <1>7, <2>1 DEF RefuseForm, SettingsKnown, SettingsTyped, BarFollows, CalmKnown
<1>8. CASE SubmitForm
  <2> DEFINE s == [prefix |-> draft.prefix, tab |-> draft.tab, size |-> draft.size,
                   bar |-> settings.bar]
  <2>1. s \in Settings /\ s.bar = settings.bar
    BY <1>8, FormIsSettings DEF SubmitForm
  <2>2. Persist(s, TRUE) /\ UNCHANGED <<stored, loading>>
    BY <1>8 DEF SubmitForm
  <2> HIDE DEF s
  <2>3. /\ settings' \in Settings /\ calm' \in BOOLEAN
        /\ sending' \in Seq(SaveRequest) /\ Len(sending') <= MaxSaves /\ CalmKnown'
    BY <2>1, <2>2, PersistKeeps
  <2>4. settings'.bar = settings.bar
    BY <2>1, <2>2 DEF Persist
  <2>5. QED
    BY <1>8, <2>3, <2>4 DEF SubmitForm, SettingsKnown, SettingsTyped, BarFollows
<1>9. ASSUME NEW f \in Fields, NEW v \in {Bad} \cup (IF f = "size" THEN Sizes ELSE Keys),
             Type(f, v)
      PROVE  SettingsKnown'
  <2>1. draft' \in [prefix : Keys \cup {Bad}, tab : Keys \cup {Bad}, size : Sizes \cup {Bad}]
    <3>1. draft \in [prefix : Keys \cup {Bad}, tab : Keys \cup {Bad}, size : Sizes \cup {Bad}]
          /\ draft' = [draft EXCEPT ![f] = v]
      BY <1>9 DEF Type, SettingsKnown, SettingsTyped
    <3>2. CASE f = "size"
      BY <3>1, <3>2
    <3>3. CASE f = "prefix"
      BY <3>1, <3>3
    <3>4. CASE f = "tab"
      BY <3>1, <3>4
    <3>5. QED
      BY <3>2, <3>3, <3>4 DEF Fields
  <2>2. formError' \in Fields \cup {None}
    BY <1>9 DEF Type, SettingsKnown, SettingsTyped
  <2>3. QED
    BY <1>9, <2>1, <2>2 DEF Type, SettingsKnown, SettingsTyped, BarFollows, CalmKnown
<1>10. ASSUME NEW i \in 1..MaxSaves, ServerSaves(i) PROVE SettingsKnown'
  <2>1. i \in 1..Len(sending) /\ sending \in Seq(SaveRequest) /\ sending[i].answer = None
        /\ sending[i] \in SaveRequest /\ Len(sending) \in Nat
    BY <1>10 DEF ServerSaves, SettingsKnown, SettingsTyped
  <2>2. PICK a \in {"saved", "failed"} :
            /\ sending' = [sending EXCEPT ![i].answer = a]
            /\ stored' = IF a = "saved" THEN sending[i].next ELSE stored
    BY <1>10, Zenon DEF ServerSaves
  <2>3. /\ sending' \in Seq(SaveRequest) /\ Len(sending') = Len(sending)
        /\ sending'[i].next = sending[i].next /\ sending'[i].previous = sending[i].previous
        /\ sending'[i].answer = a
    <3>1. sending[i].answer = None /\ i \in DOMAIN sending
      BY <2>1
    <3>2. sending' = [sending EXCEPT ![i].answer = a] /\ a \in {"saved", "failed"}
      BY <2>2
    <3>3. QED
      BY <2>1, <3>1, <3>2, AnsweredRequest
  <2>4. stored' \in Settings
    BY <2>1, <2>2 DEF SettingsKnown, SettingsTyped, SaveRequest
  <2>5. UNCHANGED <<settings, draft, formOpen, formError, loading, barShown, resizing, calm>>
    BY <1>10 DEF ServerSaves
  <2>6. SettingsTyped' /\ BarFollows'
    BY <2>3, <2>4, <2>5 DEF SettingsKnown, SettingsTyped, BarFollows
  <2>7. ASSUME calm' PROVE CalmKnown'
    <3>1. calm /\ Len(sending) = 1 /\ i = 1
      <4>1. calm /\ Len(sending) <= 1
        BY <2>5, <2>7 DEF SettingsKnown, CalmKnown
      <4> DEFINE n == Len(sending)
      <4>2. n \in Nat /\ n <= 1 /\ i \in 1..n
        BY <2>1, <4>1
      <4> HIDE DEF n
      <4>3. n = 1 /\ i = 1
        BY <4>2
      <4>4. QED
        BY <4>1, <4>3 DEF n
    <3>2. loading.phase = "handled" /\ stored = sending[1].previous
      BY <1>0, <2>1, <3>1 DEF SettingsKnown, CalmKnown
    <3>3. stored' = IF sending'[1].answer = "saved" THEN sending'[1].next
                    ELSE sending'[1].previous
      <4>1. CASE a = "saved"
        BY <2>2, <2>3, <3>1, <4>1
      <4>2. CASE a = "failed"
        BY <1>0, <2>2, <2>3, <3>1, <3>2, <4>2
      <4>3. QED
        BY <2>2, <4>1, <4>2
    <3>4. Len(sending') = 1 /\ loading'.phase = "handled"
      BY <2>3, <2>5, <3>1, <3>2
    <3>5. QED
      BY <3>3, <3>4 DEF CalmKnown
  <2>8. QED
    BY <2>6, <2>7 DEF SettingsKnown, CalmKnown
<1>11. ASSUME NEW i \in 1..MaxSaves, SaveAnswerLost(i) PROVE SettingsKnown'
  <2>1. i \in DOMAIN sending /\ sending \in Seq(SaveRequest)
    BY <1>11 DEF SaveAnswerLost, SettingsKnown, SettingsTyped
  <2>2. sending' = [sending EXCEPT ![i].answer = "failed"] /\ calm' = FALSE
    BY <1>11 DEF SaveAnswerLost
  <2>3. sending' \in Seq(SaveRequest) /\ Len(sending') = Len(sending)
    BY <2>1, <2>2, AnsweredRequest
  <2>4. UNCHANGED <<stored, settings, draft, formOpen, formError, loading, barShown, resizing>>
    BY <1>11 DEF SaveAnswerLost
  <2>5. QED
    BY <2>2, <2>3, <2>4 DEF SettingsKnown, SettingsTyped, BarFollows, CalmKnown
<1>12. ASSUME NEW i \in 1..MaxSaves, SaveAnswered(i) PROVE SettingsKnown'
  <2>1. i \in DOMAIN sending /\ sending \in Seq(SaveRequest) /\ sending[i].answer # None
        /\ sending[i] \in SaveRequest
    BY <1>12 DEF SaveAnswered, SettingsKnown, SettingsTyped
  <2>0. i \in 1..Len(sending) /\ Len(sending) \in Nat
    BY <2>1
  <2>2. sending' \in Seq(SaveRequest) /\ Len(sending') = Len(sending) - 1
    BY <1>12, <2>1, ForgottenRequest DEF SaveAnswered
  <2>3. settings' = IF sending[i].answer = "saved" THEN sending[i].next
                    ELSE sending[i].previous
    BY <1>12 DEF SaveAnswered
  <2>4. settings' \in Settings
    BY <2>1, <2>3 DEF SaveRequest
  <2>5. formOpen' \in BOOLEAN
    <3>1. formOpen' = (formOpen /\ ~sending[i].byForm)
      BY <1>12 DEF SaveAnswered
    <3>2. QED
      BY <3>1, Zenon
  <2>6. UNCHANGED <<stored, draft, formError, loading, resizing, calm>>
    BY <1>12 DEF SaveAnswered
  <2>7. BarFollows'
    BY <1>12, <2>6 DEF SaveAnswered, Rendered, SettingsKnown, BarFollows
  <2>8. SettingsTyped'
    BY <1>0, <2>2, <2>4, <2>5, <2>6 DEF SettingsKnown, SettingsTyped
  <2>9. ASSUME calm' PROVE CalmKnown'
    <3>1. calm /\ Len(sending) = 1 /\ i = 1
      <4>1. calm /\ Len(sending) <= 1
        BY <2>6, <2>9 DEF SettingsKnown, CalmKnown
      <4> DEFINE n == Len(sending)
      <4>2. n \in Nat /\ n <= 1 /\ i \in 1..n
        BY <2>0, <4>1
      <4> HIDE DEF n
      <4>3. n = 1 /\ i = 1
        BY <4>2
      <4>4. QED
        BY <4>1, <4>3 DEF n
    <3>2. loading.phase = "handled" /\ settings' = stored
      BY <2>3, <3>1 DEF SettingsKnown, CalmKnown
    <3>3. QED
      BY <2>2, <2>6, <3>1, <3>2 DEF CalmKnown
  <2>10. QED
    BY <2>7, <2>8, <2>9 DEF SettingsKnown, CalmKnown
<1>13. CASE LoadAnswered
  <2>1. loading' \in [phase : {"asked", "answered", "handled"}, value : Settings]
    BY <1>13 DEF LoadAnswered, SettingsKnown, SettingsTyped
  <2>2. loading.phase = "asked" /\ loading' = [phase |-> "answered", value |-> stored]
        /\ UNCHANGED <<stored, settings, draft, formOpen, formError, sending,
                       barShown, resizing, calm>>
    BY <1>13 DEF LoadAnswered
  <2>3. QED
    BY <2>1, <2>2 DEF SettingsKnown, SettingsTyped, BarFollows, CalmKnown
<1>14. CASE TakeSettings
  <2>1. loading.phase = "answered" /\ loading' = [loading EXCEPT !.phase = "handled"]
        /\ loading \in [phase : {"asked", "answered", "handled"}, value : Settings]
        /\ UNCHANGED <<stored, formOpen, formError, sending, resizing, calm>>
        /\ settings' = loading.value
    BY <1>14 DEF TakeSettings, SettingsKnown, SettingsTyped
  <2>2. settings' \in Settings /\ loading'.phase = "handled"
        /\ loading' \in [phase : {"asked", "answered", "handled"}, value : Settings]
    BY <2>1
  <2>3. draft' \in [prefix : Keys \cup {Bad}, tab : Keys \cup {Bad}, size : Sizes \cup {Bad}]
    <3>1. draft \in [prefix : Keys \cup {Bad}, tab : Keys \cup {Bad}, size : Sizes \cup {Bad}]
          /\ draft' = [draft EXCEPT !.prefix = settings'.prefix, !.tab = settings'.tab]
      BY <1>14 DEF TakeSettings, SettingsKnown, SettingsTyped
    <3>2. settings'.prefix \in Keys /\ settings'.tab \in Keys
      BY <2>2, SettingsFields
    <3>3. QED
      BY <3>1, <3>2
  <2>4. SettingsTyped'
    BY <2>1, <2>2, <2>3 DEF SettingsKnown, SettingsTyped
  <2>5. BarFollows'
    BY <1>14, <2>1 DEF TakeSettings, Rendered, SettingsKnown, BarFollows
  <2>6. CalmKnown'
    BY <2>1, <2>2 DEF SettingsKnown, CalmKnown
  <2>7. QED
    BY <2>4, <2>5, <2>6 DEF SettingsKnown
<1>15. CASE LoadFails
  <2>1. loading' \in [phase : {"asked", "answered", "handled"}, value : Settings]
    BY <1>15 DEF LoadFails, SettingsKnown, SettingsTyped
  <2>2. QED
    BY <1>15, <2>1 DEF LoadFails, SettingsKnown, SettingsTyped, BarFollows, CalmKnown
<1>16. CASE UNCHANGED settingsVars
  BY <1>16 DEF settingsVars, SettingsKnown, SettingsTyped, BarFollows, CalmKnown
<1>17. QED
  BY <1>1, <1>2, <1>3, <1>4, <1>5, <1>6, <1>7, <1>8, <1>9, <1>10, <1>11, <1>12, <1>13,
     <1>14, <1>15, <1>16 DEF SettingsNext

\* So the shortcuts differ, the sidebar follows, and what was saved shows.
LEMMA SettingsHold ==
    SettingsKnown => SettingsTypeOK /\ ShortcutsDiffer /\ BarFollows /\ SettingsSaved
<1> SUFFICES ASSUME SettingsKnown
             PROVE  SettingsTypeOK /\ ShortcutsDiffer /\ BarFollows /\ SettingsSaved
  OBVIOUS
<1>1. SettingsTypeOK
  BY SettingsFields DEF SettingsKnown, SettingsTyped, SettingsTypeOK
<1>2. ShortcutsDiffer
  BY SettingsFields DEF SettingsKnown, SettingsTyped, ShortcutsDiffer, UsableKeys
<1>3. SettingsSaved
  BY DEF SettingsKnown, SettingsTyped, CalmKnown, SettingsSaved
<1>4. QED
  BY <1>1, <1>2, <1>3 DEF SettingsKnown

-----------------------------------------------------------------------------
(* The newest items of a row. *)

LEMMA NewestFacts ==
    ASSUME NEW T, NEW D \in Seq(T)
    PROVE  /\ Newest(D) \in Seq(T) /\ Len(Newest(D)) <= MaxCached
           /\ ToSet(Newest(D)) \subseteq ToSet(D)
           /\ \/ Newest(D) = D /\ Len(D) <= MaxCached
              \/ /\ Len(Newest(D)) = MaxCached
                 /\ \E pre \in Seq(T) : D = pre \o Newest(D)
<1> DEFINE n == Len(D)
           k == n - MaxCached
           pre == SubSeq(D, 1, k)
           suf == SubSeq(D, k + 1, n)
<1>1. n \in Nat /\ MaxCached \in Nat
  BY RailAssumption
<1>2. CASE n <= MaxCached
  <2>1. Newest(D) = D
    BY <1>2 DEF Newest
  <2>2. QED
    BY <1>2, <2>1
<1>3. CASE n > MaxCached
  <2>1. Newest(D) = suf
    BY <1>1, <1>3 DEF Newest
  <2>2. k \in 0..n
    BY <1>1, <1>3
  <2>3. /\ pre \in Seq(T) /\ suf \in Seq(T) /\ Len(suf) = n - k /\ D = pre \o suf
    BY <2>2, SplitRow
  <2>4. n - k = MaxCached
    BY <1>1
  <2> HIDE DEF pre, suf, n, k
  <2>5. Len(suf) = MaxCached
    BY <2>3, <2>4
  <2>6. ToSet(D) = ToSet(pre) \cup ToSet(suf)
    BY <2>3, JoinedRows
  <2>7. QED
    BY <1>1, <2>1, <2>3, <2>5, <2>6
<1>4. QED
  BY <1>1, <1>2, <1>3

\* The last items of a row, when they are few, are among its newest.
LEMMA NewestHasLast ==
    ASSUME NEW T, NEW a \in Seq(T), NEW b \in Seq(T), Len(b) <= MaxCached
    PROVE  ToSet(b) \subseteq ToSet(Newest(a \o b))
<1> DEFINE c == a \o b
<1>1. c \in Seq(T) /\ ToSet(c) = ToSet(a) \cup ToSet(b)
  BY JoinedRows
<1>2. CASE Newest(c) = c
  BY <1>1, <1>2
<1>3. ASSUME Newest(c) # c, NEW x \in ToSet(b) PROVE x \in ToSet(Newest(c))
  <2> DEFINE n == Len(c)
             k == n - MaxCached
             suf == SubSeq(c, k + 1, n)
             m == Len(a)
  <2>1. /\ n \in Nat /\ m \in Nat /\ Len(b) \in Nat /\ n = m + Len(b) /\ MaxCached \in Nat
        /\ \A i \in 1..Len(b) : c[m + i] = b[i]
    BY RailAssumption
  <2>2. n > MaxCached /\ Newest(c) = suf
    BY <1>3, <2>1 DEF Newest
  <2>3. PICK i \in 1..Len(b) : b[i] = x
    BY <1>3 DEF ToSet
  <2> HIDE DEF c
  <2>4. k \in 0..n
    BY <2>1, <2>2
  <2>5. suf \in Seq(T) /\ Len(suf) = n - k /\ c = SubSeq(c, 1, k) \o suf
        /\ SubSeq(c, 1, k) \in Seq(T) /\ Len(SubSeq(c, 1, k)) = k
    BY <1>1, <2>4, SplitRow
  <2> DEFINE pre == SubSeq(c, 1, k)
             j == m + i - k
  <2>6. pre \in Seq(T) /\ Len(pre) = k /\ c = pre \o suf
    BY <2>5
  <2> HIDE DEF pre, suf
  <2>7. k = n - MaxCached /\ n - k = MaxCached
    BY <2>1
  <2>8. Len(suf) = MaxCached
    BY <2>5, <2>7
  <2> HIDE DEF n, k, m
  <2>9. j \in 1..MaxCached /\ k + j = m + i
    BY <2>1, <2>3, <2>4, <2>7
  <2> HIDE DEF j
  <2>10. (pre \o suf)[k + j] = suf[j]
    BY <2>5, <2>6, <2>8, <2>9
  <2>11. suf[j] = x
    BY <2>1, <2>3, <2>6, <2>9, <2>10
  <2>12. suf[j] \in ToSet(suf)
    BY <2>5, <2>8, <2>9 DEF ToSet
  <2>13. QED
    BY <2>2, <2>11, <2>12
<1>4. QED
  BY <1>2, <1>3

\* What is kept of the newest items is among the newest of what is kept.
LEMMA NewestKept ==
    ASSUME NEW T, NEW D \in Seq(T), NEW S
    PROVE  ToSet(Newest(D)) \cap S \subseteq ToSet(Newest(Keep(D, S)))
<1> DEFINE E == Keep(D, S)
           w == Newest(D)
           kw == Keep(w, S)
<1>1. E \in Seq(T) /\ ToSet(E) = ToSet(D) \cap S /\ Len(E) <= Len(D)
      /\ Len(E) \in Nat /\ Len(D) \in Nat /\ MaxCached \in Nat
  BY KeepFacts, KeepShort, RailAssumption
<1>2. w \in Seq(T) /\ Len(w) <= MaxCached
      /\ \/ w = D /\ Len(D) <= MaxCached
         \/ \E pre \in Seq(T) : D = pre \o w
  BY NewestFacts
<1> HIDE DEF w
<1>3. kw \in Seq(T) /\ ToSet(kw) = ToSet(w) \cap S /\ Len(kw) <= Len(w)
      /\ Len(kw) \in Nat /\ Len(w) \in Nat
  BY <1>2, KeepFacts, KeepShort
<1> HIDE DEF kw, E
<1>4. CASE w = D /\ Len(D) <= MaxCached
  <2>1. Len(E) <= MaxCached
    BY <1>1, <1>4
  <2>2. Newest(E) = E
    BY <2>1 DEF Newest
  <2>3. QED
    BY <1>1, <1>4, <2>2 DEF E, w
<1>5. ASSUME NEW pre \in Seq(T), D = pre \o w PROVE ToSet(w) \cap S \subseteq ToSet(Newest(E))
  <2> DEFINE kp == Keep(pre, S)
  <2>1. E = kp \o kw /\ kp \in Seq(T)
    <3>1. w \in Seq(T) /\ pre \in Seq(T)
      BY <1>2, <1>5
    <3>2. Keep(pre \o w, S) = Keep(pre, S) \o Keep(w, S)
      BY <3>1, KeepConcat
    <3>3. Keep(pre, S) \in Seq(T)
      BY <3>1, KeepFacts
    <3>4. QED
      BY <1>5, <3>2, <3>3 DEF E, kw
  <2> HIDE DEF kp
  <2>2. Len(kw) <= MaxCached
    BY <1>1, <1>2, <1>3
  <2>3. ToSet(kw) \subseteq ToSet(Newest(kp \o kw))
    BY <1>3, <2>1, <2>2, NewestHasLast
  <2>4. QED
    BY <1>3, <2>1, <2>3
<1>6. QED
  BY <1>2, <1>4, <1>5 DEF E, w

-----------------------------------------------------------------------------
(* The row of panes and the views that are hidden. *)

RailTypes ==
    /\ living \subseteq Panes /\ front \in Panes \cup {None}
    /\ chosen \in Seq(Panes) /\ opened \in Seq(Panes) /\ hidden \in Seq(Panes)
    /\ capacity \in 1..MaxCapacity /\ offset \in Nat /\ byHand \in BOOLEAN
    /\ selections \in Nat /\ chosenAt \in [Panes -> Nat]
    /\ \A p \in Panes : chosenAt[p] <= selections

\* The effects have run.
LaidOutLast ==
    /\ lastFront = front /\ lastRow = Row /\ lastCount = Count(Row, capacity)

\* Terminals are opened in the order in which they were selected last.
Earlier(when) == {p \in Panes \X Panes : when[p[1]] <= when[p[2]]}
OpenedInOrder ==
    /\ Ordered(opened, Earlier(chosenAt))
    /\ ToSet(chosen) \cap living \subseteq ToSet(opened)
    /\ ToSet(hidden) \subseteq ToSet(opened)

\* The inductive invariant of the rail.
RailKnown == RailTypes /\ LaidOutLast /\ OpenedInOrder /\ FocusShows /\ RecentViewsKept

\* A pane that shows, when the row stands at an offset.
Shows(r, c, o, f) == \E i \in 1..Len(r) : r[i] = f /\ i > o /\ i <= o + Count(r, c)

\* The visible panes are those between the ends of the row.
LEMMA VisibleIs ==
    ASSUME Row \in Seq(Panes)
    PROVE  \A f : f \in Visible <=> Shows(Row, capacity, offset, f)
BY DEF Visible, Shows

\* As many panes show as there are and as fit.
LEMMA CountIs ==
    ASSUME NEW r \in Seq(Panes), NEW c \in 1..MaxCapacity
    PROVE  /\ Len(r) \in Nat /\ Count(r, c) \in Nat /\ Count(r, c) <= Len(r)
           /\ Len(r) > 0 => Count(r, c) > 0
           /\ LastOffset(r, c) \in Nat /\ LastOffset(r, c) = Len(r) - Count(r, c)
<1> DEFINE n == Len(r)
<1>1. n \in Nat /\ c \in Nat /\ c > 0
  BY RailAssumption
<1> HIDE DEF n
<1>2. QED
  BY <1>1 DEF Count, Smaller, LastOffset, n

\* The row shows its focused pane after it has been laid out.
LEMMA LaidOutShows ==
    ASSUME RailTypes, LaidOutLast, FocusShows, NEW r \in Seq(Panes), NEW f,
           NEW c \in 1..MaxCapacity, LaidOut(r, f, c)
    PROVE  /\ offset' \in Nat /\ byHand' \in BOOLEAN
           /\ lastFront' = f /\ lastRow' = r /\ lastCount' = Count(r, c)
           /\ offset' <= LastOffset(r, c)
           /\ ~byHand' /\ f \in ToSet(r) => Shows(r, c, offset', f)
<1> DEFINE max == LastOffset(r, c)
           count == Count(r, c)
           hand == byHand /\ max # 0
           within == Smaller(offset, max)
           index == {i \in 0..(Len(r) - 1) : r[i + 1] = f}
           at == CHOOSE i \in index : TRUE
           n == Len(r)
<1>1. /\ n \in Nat /\ count \in Nat /\ count <= n /\ (n > 0 => count > 0)
      /\ max \in Nat /\ max = n - count
  BY CountIs
<1>2. /\ byHand' = (hand /\ f = lastFront /\ r = lastRow)
      /\ lastFront' = f /\ lastRow' = r /\ lastCount' = count
      /\ offset' = IF ~Follows(r, f, count, hand) \/ index = {} THEN within
                   ELSE IF at < within THEN at
                   ELSE IF at >= within + count THEN Smaller(max, at - count + 1)
                   ELSE within
  BY DEF LaidOut
<1>3. byHand' \in BOOLEAN
  BY <1>2
<1>4. offset \in Nat /\ within \in Nat /\ within <= max /\ (offset <= max => within = offset)
  BY <1>1 DEF RailTypes, Smaller
<1>5. f \in ToSet(r) => index # {}
  <2>1. ASSUME f \in ToSet(r) PROVE index # {}
    <3>1. PICK i \in 1..n : r[i] = f
      BY <2>1 DEF ToSet
    <3>2. i - 1 \in 0..(n - 1) /\ r[(i - 1) + 1] = f
      BY <1>1, <3>1
    <3>3. i - 1 \in index
      BY <3>2
    <3>4. QED
      BY <3>3
  <2>2. QED
    BY <2>1
<1>6. CASE Follows(r, f, count, hand) /\ index # {}
  <2>1. at \in 0..(n - 1) /\ r[at + 1] = f
    <3>1. at \in index
      BY <1>6
    <3>2. QED
      BY <3>1
  <2> HIDE DEF at
  <2>2. offset' = IF at < within THEN at
                  ELSE IF at >= within + count THEN Smaller(max, at - count + 1)
                  ELSE within
    BY <1>2, <1>6
  <2> HIDE DEF within, index, hand, count, n, max
  <2>3. at + 1 \in 1..n /\ count > 0
    BY <1>1, <2>1
  <2>4. /\ offset' \in Nat /\ offset' <= max
        /\ at + 1 > offset' /\ at + 1 <= offset' + count
    <3>1. CASE at < within
      BY <1>1, <1>4, <2>1, <2>2, <2>3, <3>1
    <3>2. CASE at >= within + count
      <4>1. ~(at < within)
        BY <1>1, <1>4, <2>1, <3>2
      <4>2. offset' = Smaller(max, at - count + 1)
        BY <2>2, <3>2, <4>1
      <4>3. offset' = at - count + 1
        BY <1>1, <1>4, <2>1, <2>3, <3>2, <4>2 DEF Smaller
      <4>4. QED
        BY <1>1, <1>4, <2>1, <2>3, <3>2, <4>3
    <3>3. CASE ~(at < within) /\ ~(at >= within + count)
      BY <1>1, <1>4, <2>1, <2>2, <2>3, <3>3
    <3>4. QED
      BY <3>1, <3>2, <3>3
  <2>5. Shows(r, c, offset', f)
    BY <2>1, <2>3, <2>4 DEF Shows, count, n
  <2>6. QED
    BY <1>2, <1>3, <2>4, <2>5 DEF count, max
<1>7. CASE index = {}
  BY <1>2, <1>3, <1>4, <1>5, <1>7
<1>8. CASE ~Follows(r, f, count, hand)
  <2>1. f = front /\ r = Row /\ (count = Count(Row, capacity) \/ hand)
    BY <1>8 DEF Follows, LaidOutLast
  <2>2. offset' = within /\ (byHand' <=> hand)
    BY <1>2, <1>8, <2>1 DEF LaidOutLast
  <2>3. ASSUME ~byHand', f \in ToSet(r) PROVE Shows(r, c, offset', f)
    <3>1. CASE max = 0
      <4>1. offset' = 0 /\ count = n
        BY <1>1, <1>4, <2>2, <3>1
      <4>2. PICK i \in 1..n : r[i] = f
        BY <2>3 DEF ToSet
      <4> HIDE DEF n, count
      <4>3. i > 0 /\ i <= 0 + count
        BY <1>1, <4>1, <4>2
      <4>4. QED
        BY <4>1, <4>2, <4>3 DEF Shows, n, count
    <3>2. CASE max # 0
      <4>1. ~byHand /\ count = Count(Row, capacity)
        BY <2>1, <2>2, <2>3, <3>2
      <4>2. offset <= LastOffset(Row, capacity) /\ LastOffset(Row, capacity) = Len(Row) - Count(Row, capacity)
        BY DEF FocusShows, LastOffset
      <4>3. offset <= max
        BY <1>1, <2>1, <4>1, <4>2
      <4>4. offset' = offset
        BY <1>4, <2>2, <4>3
      <4>5. front \in Visible
        BY <2>1, <2>3, <4>1 DEF FocusShows
      <4>6. Shows(Row, capacity, offset, front)
        BY <2>1, <4>5, VisibleIs
      <4>7. QED
        BY <2>1, <4>1, <4>4, <4>6 DEF Shows
    <3>3. QED
      BY <3>1, <3>2
  <2>4. QED
    BY <1>2, <1>3, <1>4, <2>2, <2>3
<1>9. QED
  BY <1>6, <1>7, <1>8

\* An effect that runs for what shows now.
LEMMA LaidOutStep ==
    ASSUME RailKnown, Row' \in Seq(Panes), capacity' \in 1..MaxCapacity,
           LaidOut(Row', front', capacity')
    PROVE  /\ LaidOutLast' /\ FocusShows' /\ offset' \in Nat /\ byHand' \in BOOLEAN
<1> DEFINE r == Row'
           f == front'
           c == capacity'
<1>1. RailTypes /\ LaidOutLast /\ FocusShows /\ r \in Seq(Panes) /\ c \in 1..MaxCapacity
      /\ LaidOut(r, f, c)
  BY DEF RailKnown
<1> HIDE DEF r, f, c
<1>2. /\ offset' \in Nat /\ byHand' \in BOOLEAN
      /\ lastFront' = f /\ lastRow' = r /\ lastCount' = Count(r, c)
      /\ offset' <= LastOffset(r, c)
      /\ ~byHand' /\ f \in ToSet(r) => Shows(r, c, offset', f)
  BY <1>1, LaidOutShows
<1>3. LaidOutLast'
  BY <1>2 DEF LaidOutLast, r, f, c
<1>4. ~byHand' /\ front' \in ToSet(Row') => front' \in Visible'
  <2>1. (Row \in Seq(Panes))' => (\A x : x \in Visible' <=> Shows(Row', capacity', offset', x))
    BY DEF Visible, Shows
  <2>2. QED
    BY <1>1, <1>2, <2>1 DEF r, f, c
<1>5. FocusShows'
  BY <1>2, <1>4 DEF FocusShows, r, c
<1>6. QED
  BY <1>2, <1>3, <1>5

\* What is opened after a render.
LEMMA OpenedIs ==
    ASSUME RailTypes, OpenedInOrder, NEW order \in Seq(Panes), NEW live \in SUBSET Panes,
           NEW when \in [Panes -> Nat], NEW now \in Nat, now >= selections,
           when = [p \in Panes |-> IF p \in ToSet(order) THEN now ELSE chosenAt[p]]
    PROVE  LET D == Drop(opened, ToSet(order))
               O == Opened(order, live)
               H == Keep(Newest(D), live)
           IN  /\ O \in Seq(Panes) /\ Ordered(O, Earlier(when))
               /\ ToSet(order) \cap live \subseteq ToSet(O)
               /\ D \in Seq(Panes) /\ ToSet(D) = ToSet(opened) \ ToSet(order)
               /\ Ordered(D, Earlier(chosenAt))
               /\ H \in Seq(Panes) /\ ToSet(H) = ToSet(Newest(D)) \cap live
               /\ Len(H) <= MaxCached /\ ToSet(H) \subseteq ToSet(O)
<1> DEFINE C == ToSet(order)
           D == Drop(opened, C)
           w == Newest(D)
           H == Keep(w, live)
           a == Keep(opened, live)
           b == Drop(a, C)
           d == Keep(order, live)
           visited == b \o d
           kept == ToSet(Newest(Drop(visited, C)))
           O == Keep(visited, kept \cup C)
<1>1. opened \in Seq(Panes) /\ Ordered(opened, Earlier(chosenAt)) /\ C \subseteq Panes
      /\ ToSet(opened) \subseteq Panes
  BY ItemsAre DEF RailTypes, OpenedInOrder
<1>2. D \in Seq(Panes) /\ ToSet(D) = ToSet(opened) \ C /\ Ordered(D, Earlier(chosenAt))
  <2>1. D \in Seq(Panes) /\ ToSet(D) = ToSet(opened) \ C
    BY <1>1, DropFacts
  <2>2. Ordered(Keep(opened, ToSet(opened) \ C), Earlier(chosenAt))
    BY <1>1, KeepOrdered
  <2>3. QED
    BY <2>1, <2>2 DEF Drop
<1>3. a \in Seq(Panes) /\ ToSet(a) = ToSet(opened) \cap live /\ Ordered(a, Earlier(chosenAt))
  BY <1>1, KeepFacts, KeepOrdered
<1>4. b \in Seq(Panes) /\ ToSet(b) = (ToSet(opened) \cap live) \ C /\ Ordered(b, Earlier(chosenAt))
  <2> HIDE DEF a
  <2>1. b \in Seq(Panes) /\ ToSet(b) = ToSet(a) \ C
    BY <1>3, DropFacts
  <2>2. Ordered(Keep(a, ToSet(a) \ C), Earlier(chosenAt))
    BY <1>3, KeepOrdered
  <2>3. QED
    BY <1>3, <2>1, <2>2 DEF Drop
<1>5. d \in Seq(Panes) /\ ToSet(d) = C \cap live
  BY KeepFacts
<1>6. Drop(visited, C) = Keep(D, live)
  <2> DEFINE R == ToSet(visited) \ C
  <2>1. Drop(visited, C) = Keep(visited, R) /\ R = (ToSet(opened) \cap live) \ C
    <3> HIDE DEF b, d
    <3>1. ToSet(b \o d) = ToSet(b) \cup ToSet(d)
      BY <1>4, <1>5, JoinedRows
    <3>2. QED
      BY <1>4, <1>5, <3>1 DEF Drop
  <2> HIDE DEF R, b, d
  <2>2. Keep(b \o d, R) = Keep(b, R) \o Keep(d, R)
    BY <1>4, <1>5, KeepConcat
  <2>3. Keep(b, R) = b
    BY <1>4, <2>1, KeepAll
  <2>4. Keep(d, R) = <<>>
    <3>1. ToSet(d) \cap R = {}
      BY <1>5, <2>1
    <3>2. QED
      BY <1>5, <3>1, KeepNothing
  <2>5. b \o <<>> = b
    BY <1>4, ConcatEmptySeq
  <2>6. Drop(visited, C) = b
    BY <2>1, <2>2, <2>3, <2>4, <2>5
  <2> DEFINE A == ToSet(a) \ C
             E == ToSet(opened) \ C
  <2>7. b = Keep(Keep(opened, live), A) /\ D = Keep(opened, E)
    BY DEF Drop, b
  <2>8. Keep(Keep(opened, live), A) = Keep(opened, live \cap A)
        /\ Keep(Keep(opened, E), live) = Keep(opened, E \cap live)
    BY <1>1, KeepTwice
  <2>9. Keep(opened, live \cap A) = Keep(opened, E \cap live)
    <3>1. live \cap A = E \cap live
      BY <1>3
    <3>2. QED
      BY <3>1
  <2>10. QED
    BY <2>6, <2>7, <2>8, <2>9
<1>7. w \in Seq(Panes) /\ Len(w) <= MaxCached /\ ToSet(w) \subseteq ToSet(D)
      /\ ToSet(w) \cap live \subseteq kept
  <2> HIDE DEF D, visited
  <2>1. w \in Seq(Panes) /\ Len(w) <= MaxCached /\ ToSet(w) \subseteq ToSet(D)
    BY <1>2, NewestFacts
  <2>2. ToSet(w) \cap live \subseteq ToSet(Newest(Keep(D, live)))
    BY <1>2, NewestKept
  <2>3. QED
    BY <1>6, <2>1, <2>2
<1>8. H \in Seq(Panes) /\ ToSet(H) = ToSet(w) \cap live /\ Len(H) <= MaxCached
  <2> HIDE DEF w
  <2>1. H \in Seq(Panes) /\ ToSet(H) = ToSet(w) \cap live /\ Len(H) <= Len(w) /\ Len(H) \in Nat
    BY <1>7, KeepFacts, KeepShort
  <2>2. Len(w) \in Nat /\ MaxCached \in Nat
    BY <1>7, RailAssumption
  <2> HIDE DEF H
  <2>3. QED
    BY <1>7, <2>1, <2>2
<1>9. visited \in Seq(Panes) /\ ToSet(visited) = ((ToSet(opened) \cap live) \ C) \cup (C \cap live)
  <2> HIDE DEF b, d
  <2>1. QED
    BY <1>4, <1>5, JoinedRows
<1>10. Ordered(visited, Earlier(when))
  <2>1. \A x, y \in Panes : <<x, y>> \in Earlier(when) <=> when[x] <= when[y]
    BY DEF Earlier
  <2>2. \A x, y \in Panes : <<x, y>> \in Earlier(chosenAt) <=> chosenAt[x] <= chosenAt[y]
    BY DEF Earlier
  <2>3. /\ \A x \in Panes \ C : when[x] = chosenAt[x]
        /\ \A x \in C : when[x] = now
    BY <1>1
  <2> HIDE DEF b, d
  <2>4. /\ DOMAIN b = 1..Len(b) /\ DOMAIN d = 1..Len(d)
        /\ \A i \in DOMAIN b : b[i] \in ToSet(b)
        /\ \A i \in DOMAIN d : d[i] \in ToSet(d)
    BY <1>4, <1>5 DEF ToSet
  <2>5. Ordered(b, Earlier(when))
    <3>1. SUFFICES ASSUME NEW i \in DOMAIN b, NEW j \in DOMAIN b, i < j
                   PROVE  <<b[i], b[j]>> \in Earlier(when)
      BY DEF Ordered
    <3>2. <<b[i], b[j]>> \in Earlier(chosenAt)
      BY <1>4, <3>1 DEF Ordered
    <3>3. b[i] \in Panes \ C /\ b[j] \in Panes \ C
      BY <1>1, <1>4, <2>4
    <3>4. QED
      BY <2>1, <2>2, <2>3, <3>2, <3>3
  <2>6. Ordered(d, Earlier(when))
    <3>1. SUFFICES ASSUME NEW i \in DOMAIN d, NEW j \in DOMAIN d, i < j
                   PROVE  <<d[i], d[j]>> \in Earlier(when)
      BY DEF Ordered
    <3>2. d[i] \in C /\ d[j] \in C
      BY <1>5, <2>4
    <3>3. when[d[i]] = now /\ when[d[j]] = now /\ d[i] \in Panes /\ d[j] \in Panes
      BY <1>1, <2>3, <3>2
    <3>4. QED
      BY <2>1, <3>3
  <2>7. ASSUME NEW x \in ToSet(b), NEW y \in ToSet(d) PROVE <<x, y>> \in Earlier(when)
    <3>1. x \in Panes \ C /\ y \in C /\ y \in Panes
      BY <1>1, <1>4, <1>5, <2>7
    <3>2. when[x] = chosenAt[x] /\ when[y] = now /\ chosenAt[x] \in Nat /\ chosenAt[x] <= selections
      BY <2>3, <3>1 DEF RailTypes
    <3>3. when[x] <= when[y]
      BY <3>2 DEF RailTypes
    <3>4. QED
      BY <2>1, <3>1, <3>3
  <2>8. QED
    BY <1>4, <1>5, <2>5, <2>6, <2>7, OrderedConcat
<1> HIDE DEF visited
<1>11. O \in Seq(Panes) /\ Ordered(O, Earlier(when)) /\ ToSet(O) = ToSet(visited) \cap (kept \cup C)
  BY <1>9, <1>10, KeepFacts, KeepOrdered
<1>12. ToSet(H) \subseteq ToSet(O)
  BY <1>1, <1>2, <1>7, <1>8, <1>9, <1>11
<1>13. C \cap live \subseteq ToSet(O)
  BY <1>9, <1>11
<1>14. O = Opened(order, live)
  BY DEF Opened, visited
<1>15. QED
  BY <1>2, <1>8, <1>11, <1>12, <1>13, <1>14

\* A render lays the row out and keeps the views that were chosen last.
LEMMA RenderStep ==
    ASSUME RailKnown, NEW live \in SUBSET Panes, NEW order \in Seq(Panes),
           NEW f \in Panes \cup {None}, Render(live, order, f),
           live \subseteq living,
           selections' \in {selections, selections + 1}
    PROVE  RailKnown'
<1> DEFINE D == Drop(opened, ToSet(order))
           w == Newest(D)
<1>1. RailTypes /\ LaidOutLast /\ OpenedInOrder /\ FocusShows /\ RecentViewsKept
  BY DEF RailKnown
<1>2. /\ living' = live /\ chosen' = order /\ front' = f /\ capacity' = capacity
      /\ hidden' = Keep(w, live) /\ opened' = Opened(order, live)
      /\ LaidOut(Keep(order, live), f, capacity)
      /\ chosenAt' = [p \in Panes |-> IF p \in ToSet(order) THEN selections' ELSE chosenAt[p]]
  BY DEF Render
<1>3. selections' \in Nat /\ selections' >= selections /\ selections \in Nat
  BY <1>1 DEF RailTypes
<1>4. chosenAt' \in [Panes -> Nat] /\ \A p \in Panes : chosenAt'[p] <= selections'
  BY <1>1, <1>2, <1>3 DEF RailTypes
<1>5. /\ opened' \in Seq(Panes) /\ Ordered(opened', Earlier(chosenAt'))
      /\ ToSet(order) \cap live \subseteq ToSet(opened')
      /\ D \in Seq(Panes) /\ ToSet(D) = ToSet(opened) \ ToSet(order)
      /\ Ordered(D, Earlier(chosenAt))
      /\ hidden' \in Seq(Panes) /\ ToSet(hidden') = ToSet(w) \cap live
      /\ Len(hidden') <= MaxCached /\ ToSet(hidden') \subseteq ToSet(opened')
  <2> DEFINE when == chosenAt'
             now == selections'
  <2>1. when \in [Panes -> Nat] /\ now \in Nat /\ now >= selections
        /\ when = [p \in Panes |-> IF p \in ToSet(order) THEN now ELSE chosenAt[p]]
    BY <1>2, <1>3, <1>4
  <2> HIDE DEF when, now
  <2>2. LET L == Drop(opened, ToSet(order))
            O == Opened(order, live)
            H == Keep(Newest(L), live)
        IN  /\ O \in Seq(Panes) /\ Ordered(O, Earlier(when))
            /\ ToSet(order) \cap live \subseteq ToSet(O)
            /\ L \in Seq(Panes) /\ ToSet(L) = ToSet(opened) \ ToSet(order)
            /\ Ordered(L, Earlier(chosenAt))
            /\ H \in Seq(Panes) /\ ToSet(H) = ToSet(Newest(L)) \cap live
            /\ Len(H) <= MaxCached /\ ToSet(H) \subseteq ToSet(O)
    BY <1>1, <2>1, OpenedIs
  <2>3. QED
    BY <1>2, <2>2 DEF when
<1>6. Row' = Keep(order, live)
  BY <1>2 DEF Row
<1>7. /\ LaidOutLast' /\ FocusShows' /\ offset' \in Nat /\ byHand' \in BOOLEAN
  <2>1. Row' \in Seq(Panes) /\ capacity' \in 1..MaxCapacity
    BY <1>1, <1>2, <1>6, KeepFacts DEF RailTypes
  <2>2. LaidOut(Row', front', capacity')
    BY <1>2, <1>6
  <2>3. QED
    BY <2>1, <2>2, LaidOutStep
<1>8. RailTypes' /\ OpenedInOrder'
  BY <1>1, <1>2, <1>3, <1>4, <1>5, <1>7 DEF RailTypes, OpenedInOrder
<1>9. ASSUME NEW p \in (Mounted \cap live) \ (ToSet(order) \cup ToSet(hidden')),
             ToSet(opened) \subseteq live
      PROVE  ~(Len(hidden') < MaxCached) /\ \A q \in ToSet(hidden') : ~(chosenAt[q] < chosenAt[p])
  <2>1. p \in ToSet(opened)
    <3>1. CASE p \in ToSet(hidden)
      BY <1>1, <3>1 DEF OpenedInOrder
    <3>2. CASE p \in Visible
      <4>1. Row \in Seq(Panes) /\ ToSet(Row) = ToSet(chosen) \cap living
        BY <1>1, KeepFacts DEF Row, RailTypes
      <4>2. Visible \subseteq ToSet(Row)
        BY DEF Visible, ToSet
      <4>3. QED
        BY <1>1, <3>2, <4>1, <4>2 DEF OpenedInOrder
    <3>3. QED
      BY <1>9, <3>1, <3>2 DEF Mounted
  <2>2. p \in ToSet(D) /\ ToSet(D) \subseteq live
    BY <1>5, <1>9, <2>1
  <2> HIDE DEF D
  <2>3. /\ w \in Seq(Panes) /\ ToSet(w) \subseteq ToSet(D)
        /\ \/ w = D
           \/ Len(w) = MaxCached /\ \E pre \in Seq(Panes) : D = pre \o w
    BY <1>5, NewestFacts
  <2> HIDE DEF w
  <2>4. hidden' = w
    <3>1. ToSet(w) \subseteq live
      BY <2>2, <2>3
    <3>2. QED
      BY <1>2, <2>3, <3>1, KeepAll
  <2>5. p \notin ToSet(w)
    BY <1>9, <2>4
  <2>6. PICK pre \in Seq(Panes) : Len(w) = MaxCached /\ D = pre \o w
    BY <2>2, <2>3, <2>5
  <2>7. p \in ToSet(pre)
    <3>1. ToSet(pre \o w) = ToSet(pre) \cup ToSet(w)
      BY <2>3, <2>6, JoinedRows
    <3>2. QED
      BY <2>2, <2>5, <2>6, <3>1
  <2>8. \A q \in ToSet(w) : <<p, q>> \in Earlier(chosenAt)
    BY <1>5, <2>3, <2>6, <2>7, OrderedConcat
  <2>9. ASSUME NEW q \in ToSet(w) PROVE ~(chosenAt[q] < chosenAt[p])
    <3>1. p \in Panes /\ q \in Panes /\ chosenAt[p] <= chosenAt[q]
      BY <2>8, <2>9 DEF Earlier
    <3>2. chosenAt[p] \in Nat /\ chosenAt[q] \in Nat
      BY <1>1, <3>1 DEF RailTypes
    <3>3. QED
      BY <3>1, <3>2
  <2>10. MaxCached \in Nat
    BY RailAssumption
  <2>11. QED
    BY <2>4, <2>6, <2>9, <2>10
<1>10. ~evicted'
  <2>1. ~evicted
    BY <1>1 DEF RecentViewsKept
  <2>2. evicted' = (evicted \/
            \E p \in (Mounted \cap live) \ (ToSet(order) \cup ToSet(hidden')) :
                /\ ToSet(opened) \subseteq live
                /\ \/ Len(hidden') < MaxCached
                   \/ \E q \in ToSet(hidden') : chosenAt[q] < chosenAt[p])
    BY DEF Render
  <2>3. ~\E p \in (Mounted \cap live) \ (ToSet(order) \cup ToSet(hidden')) :
                /\ ToSet(opened) \subseteq live
                /\ \/ Len(hidden') < MaxCached
                   \/ \E q \in ToSet(hidden') : chosenAt[q] < chosenAt[p]
    BY <1>9
  <2>4. QED
    BY <2>1, <2>2, <2>3, Zenon
<1>11. RecentViewsKept'
  <2>1. ToSet(w) \subseteq ToSet(D)
    <3> HIDE DEF D
    <3>1. QED
      BY <1>5, NewestFacts
  <2>2. ToSet(hidden') \cap ToSet(chosen') = {} /\ ToSet(hidden') \subseteq living'
    BY <1>2, <1>5, <2>1
  <2>3. QED
    BY <1>5, <1>10, <2>2 DEF RecentViewsKept
<1>12. QED
  BY <1>7, <1>8, <1>11 DEF RailKnown

\* At first the row is empty.
LEMMA RailStart == RailInit => RailKnown
<1> SUFFICES ASSUME RailInit PROVE RailKnown
  OBVIOUS
<1>1. <<>> \in Seq(Panes) /\ Len(<<>>) = 0 /\ DOMAIN <<>> = {}
  OBVIOUS
<1>2. ToSet(<<>>) = {}
  BY <1>1, ItemsAre
<1>3. Row = <<>>
  BY KeepNone DEF RailInit, Row
<1>4. RailTypes
  <2>1. 1 \in 1..MaxCapacity
    BY RailAssumption
  <2>2. selections = 0 /\ chosenAt = [p \in Panes |-> 0]
    BY DEF RailInit
  <2>3. chosenAt \in [Panes -> Nat] /\ \A p \in Panes : chosenAt[p] <= selections
    BY <2>2
  <2>4. chosen \in Seq(Panes) /\ opened \in Seq(Panes) /\ hidden \in Seq(Panes)
    BY <1>1 DEF RailInit
  <2>5. living \subseteq Panes /\ front \in Panes \cup {None} /\ capacity \in 1..MaxCapacity
        /\ offset \in Nat /\ byHand \in BOOLEAN /\ selections \in Nat
    BY <2>1 DEF RailInit
  <2>6. QED
    BY <2>3, <2>4, <2>5 DEF RailTypes
<1>5. LaidOutLast
  <2>1. Count(<<>>, 1) = 0
    BY <1>1 DEF Count, Smaller
  <2>2. QED
    BY <1>3, <2>1 DEF RailInit, LaidOutLast
<1>6. OpenedInOrder
  BY <1>1, <1>2 DEF RailInit, OpenedInOrder, Ordered
<1>7. FocusShows
  <2>1. 1 \in 1..MaxCapacity
    BY RailAssumption
  <2>2. LastOffset(<<>>, 1) \in Nat
    BY <1>1, <2>1, CountIs
  <2>3. QED
    BY <1>2, <1>3, <2>2 DEF RailInit, FocusShows
<1>8. RecentViewsKept
  BY <1>1, <1>2, RailAssumption DEF RailInit, RecentViewsKept
<1>9. QED
  BY <1>4, <1>5, <1>6, <1>7, <1>8 DEF RailKnown

\* The user selects panes.
LEMMA SelectPanesStep ==
    ASSUME RailKnown, NEW S \in SUBSET Panes, NEW order \in SetToSeqs(S), SelectPanes(order)
    PROVE  RailKnown'
<1>1. order \in Seq(Panes)
  <2>1. IsFiniteSet(S)
    BY FS_Subset, RailAssumption
  <2>2. Cardinality(S) \in Nat /\ order \in [1..Cardinality(S) -> S]
    BY <2>1, FS_CardinalityType DEF SetToSeqs
  <2>3. order \in [1..Cardinality(S) -> Panes]
    BY <2>2
  <2>4. QED
    BY <2>2, <2>3
<1>2. PICK f \in ToSet(order) \cup {None} : Render(living, order, f)
  BY DEF SelectPanes
<1>3. f \in Panes \cup {None} /\ living \in SUBSET Panes
  <2>1. ToSet(order) \subseteq Panes
    BY <1>1, ItemsAre
  <2>2. QED
    BY <1>2, <2>1 DEF RailKnown, RailTypes
<1>4. selections' \in {selections, selections + 1}
  BY DEF SelectPanes, Counted
<1>5. QED
  BY <1>1, <1>2, <1>3, <1>4, RenderStep

\* The terminal of a pane is gone.
LEMMA TerminalGoneStep ==
    ASSUME RailKnown, NEW p \in Panes, TerminalGone(p)
    PROVE  RailKnown'
<1> DEFINE Next3(order) == IF front # p \/ p \in ToSet(order) THEN front
                           ELSE IF order = <<>> THEN None ELSE Head(order)
<1>1. RailTypes /\ chosen \in Seq(Panes)
  BY DEF RailKnown, RailTypes
<1>2. Drop(chosen, {p}) \in Seq(Panes)
  BY <1>1, DropFacts
<1>3. PICK order \in {chosen, Drop(chosen, {p})} : Render(living \ {p}, order, Next3(order))
  BY DEF TerminalGone
<1>4. order \in Seq(Panes)
  BY <1>1, <1>2, <1>3
<1>5. Next3(order) \in Panes \cup {None}
  BY <1>1, <1>4 DEF RailTypes
<1>6. living \ {p} \in SUBSET Panes /\ living \ {p} \subseteq living
  BY <1>1 DEF RailTypes
<1>7. selections' \in {selections, selections + 1}
  BY DEF TerminalGone, Counted
<1> HIDE DEF Next3
<1>8. QED
  BY <1>3, <1>4, <1>5, <1>6, <1>7, RenderStep

\* No step breaks what is known of the row.
LEMMA RailStep == RailKnown /\ [RailNext]_railVars => RailKnown'
<1> SUFFICES ASSUME RailKnown, [RailNext]_railVars PROVE RailKnown'
  OBVIOUS
<1>1. RailTypes /\ LaidOutLast /\ OpenedInOrder /\ FocusShows /\ RecentViewsKept
      /\ Row \in Seq(Panes) /\ ToSet(Row) \subseteq Panes /\ living \in SUBSET Panes
      /\ chosen \in Seq(Panes)
  BY KeepFacts, ItemsAre DEF RailKnown, RailTypes, Row
<1>2. CASE UNCHANGED railVars
  BY <1>1, <1>2 DEF railVars, RailKnown, RailTypes, LaidOutLast, OpenedInOrder, FocusShows,
                    RecentViewsKept, Row, Visible
<1>3. ASSUME NEW p \in Panes, FocusRail(p) PROVE RailKnown'
  <2>1. Render(living, chosen, p) /\ selections' = selections
    BY <1>3 DEF FocusRail
  <2>2. selections' \in {selections, selections + 1} /\ p \in Panes \cup {None}
    BY <2>1
  <2>3. QED
    BY <1>1, <2>1, <2>2, RenderStep
<1>4. CASE RenderAgain
  <2>1. Render(living, chosen, front) /\ selections' = selections
    BY <1>4 DEF RenderAgain
  <2>2. selections' \in {selections, selections + 1} /\ front \in Panes \cup {None}
    BY <1>1, <2>1 DEF RailTypes
  <2>3. QED
    BY <1>1, <2>1, <2>2, RenderStep
<1>5. ASSUME NEW c \in 1..MaxCapacity, ResizeRail(c) PROVE RailKnown'
  <2>1. capacity' = c /\ UNCHANGED views /\ LaidOut(Row, front, c)
    BY <1>5 DEF ResizeRail
  <2>2. Row' = Row /\ front' = front
    BY <2>1 DEF views, Row
  <2>3. LaidOutLast' /\ FocusShows' /\ offset' \in Nat /\ byHand' \in BOOLEAN
    BY <1>1, <2>1, <2>2, LaidOutStep
  <2>4. QED
    BY <1>1, <2>1, <2>3 DEF RailKnown, RailTypes, OpenedInOrder, RecentViewsKept, views
<1>6. CASE PreviousPane \/ NextPane
  <2>1. /\ UNCHANGED <<lastFront, lastRow, lastCount, capacity, views>> /\ byHand' = TRUE
        /\ offset' \in Nat /\ offset' <= LastOffset(Row, capacity)
    <3>1. offset \in Nat /\ offset <= LastOffset(Row, capacity) /\ LastOffset(Row, capacity) \in Nat
      BY <1>1, CountIs DEF RailTypes, FocusShows
    <3>2. QED
      BY <1>6, <3>1 DEF PreviousPane, NextPane
  <2>2. Row' = Row
    BY <2>1 DEF views, Row
  <2>3. QED
    BY <1>1, <2>1, <2>2 DEF RailKnown, RailTypes, OpenedInOrder, RecentViewsKept, LaidOutLast,
                            FocusShows, views
<1>7. QED
  BY <1>2, <1>3, <1>4, <1>5, <1>6, SelectPanesStep, TerminalGoneStep DEF RailNext

\* What is known of the row gives its properties.
LEMMA RailHolds == RailKnown => RailTypeOK /\ FocusShows /\ RecentViewsKept
<1> SUFFICES ASSUME RailKnown PROVE RailTypeOK /\ FocusShows /\ RecentViewsKept
  OBVIOUS
<1>1. RailTypes
  BY DEF RailKnown
<1>2. ToSet(chosen) \subseteq Panes /\ ToSet(opened) \subseteq Panes /\ ToSet(hidden) \subseteq Panes
  BY <1>1, ItemsAre DEF RailTypes
<1>3. QED
  BY <1>1, <1>2 DEF RailKnown, RailTypes, RailTypeOK

-----------------------------------------------------------------------------
(* The terminals of the projects. *)

GroupNames == Projects \cup {None}

GroupTypes ==
    /\ listed \in Seq(Grouped) /\ held \in Grouped \cup {None}
    /\ inGroup \in [GroupNames -> Seq(Grouped)]
    /\ ordinalOf \in [Grouped -> Nat] /\ nextOrdinal \in [Projects -> Nat]

GroupsInOrder == \A g \in GroupNames : Keep(listed, Members(g)) = inGroup[g]

\* A terminal has one number for good, which its project has given out.
Numbered ==
    /\ \A t \in ToSet(listed) : ordinalOf[t] # 0
    /\ \A t \in Grouped : ordinalOf[t] <= nextOrdinal[ProjectOf[t]]
    /\ \A t, u \in Grouped :
           t # u /\ ProjectOf[t] = ProjectOf[u] /\ ordinalOf[t] # 0 => ordinalOf[t] # ordinalOf[u]

\* The inductive invariant of the groups.
GroupsKnown == GroupTypes /\ GroupsInOrder /\ Numbered

\* A group is a project, or none.
LEMMA GroupIs == ASSUME NEW t \in Grouped PROVE Group(t) \in GroupNames
BY ProjectsAssumption DEF Group, GroupNames

\* No terminal is on the page.
GroupsEmpty ==
    /\ listed = <<>> /\ held = None /\ inGroup = [g \in GroupNames |-> <<>>]
    /\ ordinalOf = [t \in Grouped |-> 0] /\ nextOrdinal = [p \in Projects |-> 0]

\* Nothing is out of order where no terminal is.
LEMMA GroupsStart == GroupsEmpty => GroupsKnown
<1> SUFFICES ASSUME GroupsEmpty PROVE GroupsKnown
  OBVIOUS
<1>1. <<>> \in Seq(Grouped)
  OBVIOUS
<1>2. ToSet(<<>>) = {}
  BY <1>1, ItemsAre
<1>3. GroupTypes
  <2>1. inGroup \in [GroupNames -> Seq(Grouped)]
    BY <1>1 DEF GroupsEmpty
  <2>2. QED
    BY <1>1, <2>1 DEF GroupsEmpty, GroupTypes
<1>4. GroupsInOrder
  BY KeepNone DEF GroupsEmpty, GroupsInOrder
<1>5. Numbered
  BY <1>2, ProjectsAssumption DEF GroupsEmpty, Numbered
<1>6. QED
  BY <1>3, <1>4, <1>5 DEF GroupsKnown

\* A drag moves a terminal within its group and leaves the others alone.
LEMMA MoveStep ==
    ASSUME GroupsKnown, NEW from \in Grouped, NEW to \in Grouped, Move(from, to),
           held' \in Grouped \cup {None}
    PROVE  GroupsKnown'
<1> DEFINE g == Group(to)
           M == Members(g)
           k == Keep(listed, M)
           S == ToSet(k)
           i == Place(k, from)
           j == Place(k, to)
           p == Moved(k, i, j)
<1>1. GroupTypes /\ GroupsInOrder /\ Numbered /\ listed \in Seq(Grouped)
  BY DEF GroupsKnown, GroupTypes
<1>2. g \in GroupNames /\ from \in M /\ to \in M
  BY GroupIs DEF Move, Members
<1>3. k \in Seq(Grouped) /\ S = ToSet(listed) \cap M /\ {from, to} \subseteq S
  BY <1>1, <1>2, KeepFacts DEF Move
<1>4. k = inGroup[g]
  BY <1>1, <1>2 DEF GroupsInOrder
<1>5. i \in 1..Len(k) /\ j \in 1..Len(k)
  <2> HIDE DEF k, S
  <2>1. from \in ToSet(k) /\ to \in ToSet(k) /\ k \in Seq(Grouped)
    BY <1>3 DEF S
  <2>2. QED
    BY <2>1, PlaceIs
<1>6. p \in Seq(Grouped) /\ ToSet(p) = S /\ Len(p) = Len(k)
  <2> HIDE DEF k, i, j
  <2>1. QED
    BY <1>3, <1>5, MovedFacts
<1>7. listed' = Filled(listed, S, p)
  BY DEF Move, MovedInGroup, Filled, Upto
<1>8. inGroup' = [inGroup EXCEPT ![g] = p]
  BY <1>4 DEF Move
<1>9. /\ UNCHANGED <<row, ordinalOf, nextOrdinal>>
      /\ \A h : Members(h)' = Members(h)
  BY DEF Move, projectVars, Members, Group
<1>10. Keep(listed, S) = k
  <2>1. ToSet(listed) \cap S = ToSet(listed) \cap M
    BY <1>3
  <2> HIDE DEF S, M, k
  <2>2. Keep(listed, S) = Keep(listed, M)
    BY <1>1, <2>1, KeepSame
  <2>3. QED
    BY <2>2 DEF k
<1>11. SubSeq(p, 1, Len(k)) = p
  <2> HIDE DEF p, k
  <2>1. QED
    BY <1>6, SubSeqFull
<1> HIDE DEF p, S, k, M, g, i, j
<1>12. Len(Keep(listed, S)) <= Len(p)
  BY <1>3, <1>6, <1>10
<1>13. ASSUME NEW h \in GroupNames, h # g
       PROVE  Keep(listed', Members(h)) = Keep(listed, Members(h))
  <2> DEFINE M2 == Members(h)
  <2>1. S \cap M2 = {}
    BY <1>3, <1>13 DEF Members, M
  <2> HIDE DEF M2
  <2>2. Keep(Filled(listed, S, p), M2) = Keep(listed, M2)
    BY <1>1, <1>6, <1>12, <2>1, FilledFacts
  <2>3. QED
    BY <1>7, <2>2 DEF M2
<1>14. listed' \in Seq(Grouped) /\ ToSet(listed') \subseteq ToSet(listed) /\ Keep(listed', S) = p
  <2> DEFINE F == Filled(listed, S, p)
             none == {}
  <2>1. S \cap none = {}
    OBVIOUS
  <2> HIDE DEF none
  <2>2. F \in Seq(Grouped) /\ ToSet(F) \subseteq ToSet(listed) \cup ToSet(p)
        /\ Keep(F, S) = SubSeq(p, 1, Len(Keep(listed, S)))
        /\ Keep(F, none) = Keep(listed, none)
    BY <1>1, <1>6, <1>12, <2>1, FilledFacts
  <2>3. QED
    BY <1>3, <1>6, <1>7, <1>10, <1>11, <2>2
<1>15. Keep(listed', M) = p
  <2>1. ToSet(listed') \cap S = ToSet(listed') \cap M
    BY <1>3, <1>14
  <2>2. Keep(listed', S) = Keep(listed', M)
    BY <1>14, <2>1, KeepSame
  <2>3. QED
    BY <1>14, <2>2
<1>16. GroupsInOrder'
  <2>1. SUFFICES ASSUME NEW h \in GroupNames PROVE Keep(listed', Members(h)) = inGroup'[h]
    BY <1>9 DEF GroupsInOrder
  <2>2. CASE h = g
    BY <1>1, <1>2, <1>8, <1>15, <2>2 DEF GroupTypes, M
  <2>3. CASE h # g
    BY <1>1, <1>8, <1>13, <2>3 DEF GroupTypes, GroupsInOrder
  <2>4. QED
    BY <2>2, <2>3
<1>17. GroupTypes'
  BY <1>1, <1>6, <1>8, <1>9, <1>14 DEF GroupTypes
<1>18. Numbered'
  BY <1>1, <1>9, <1>14 DEF Numbered
<1>19. QED
  BY <1>16, <1>17, <1>18 DEF GroupsKnown

\* A terminal appears at the end of its group.
LEMMA AppearsStep == ASSUME GroupsKnown, NEW t \in Grouped, Appears(t) PROVE GroupsKnown'
<1> DEFINE g == Group(t)
           p == ProjectOf[t]
<1>1. GroupTypes /\ GroupsInOrder /\ Numbered /\ listed \in Seq(Grouped) /\ g \in GroupNames
      /\ p \in Projects
  BY GroupIs, ProjectsAssumption DEF GroupsKnown, GroupTypes
<1>2. /\ UNCHANGED <<row, held>> /\ listed' = Append(listed, t)
      /\ inGroup' = [inGroup EXCEPT ![g] = Append(@, t)]
      /\ \A h : Members(h)' = Members(h)
  BY DEF Appears, projectVars, Members, Group
<1>3. listed' \in Seq(Grouped) /\ ToSet(listed') = ToSet(listed) \cup {t}
  BY <1>1, <1>2, ItemsAre
<1>4. inGroup[g] \in Seq(Grouped) /\ inGroup' \in [GroupNames -> Seq(Grouped)]
  BY <1>1, <1>2 DEF GroupTypes
<1>5. GroupsInOrder'
  <2>1. SUFFICES ASSUME NEW h \in GroupNames PROVE Keep(listed', Members(h)) = inGroup'[h]
    BY <1>2 DEF GroupsInOrder
  <2> DEFINE M == Members(h)
  <2>2. t \in M <=> h = g
    BY DEF Members
  <2>3. Keep(listed, M) = inGroup[h]
    BY <1>1 DEF GroupsInOrder
  <2>4. inGroup'[h] = IF h = g THEN Append(inGroup[h], t) ELSE inGroup[h]
    BY <1>1, <1>2 DEF GroupTypes
  <2> HIDE DEF M, g
  <2>5. Keep(Append(listed, t), M) = IF t \in M THEN Append(Keep(listed, M), t) ELSE Keep(listed, M)
    BY <1>1, KeepMore
  <2>6. Keep(listed', M) = inGroup'[h]
    BY <1>2, <2>2, <2>3, <2>4, <2>5
  <2>7. QED
    BY <2>6 DEF M
<1>6. /\ ordinalOf' \in [Grouped -> Nat] /\ nextOrdinal' \in [Projects -> Nat]
      /\ \A u \in Grouped \ {t} : ordinalOf'[u] = ordinalOf[u]
      /\ \A q \in Projects : nextOrdinal[q] <= nextOrdinal'[q]
      /\ \/ ordinalOf[t] # 0 /\ ordinalOf'[t] = ordinalOf[t]
         \/ /\ ordinalOf'[t] = nextOrdinal[p] + 1 /\ nextOrdinal'[p] = nextOrdinal[p] + 1
  <2>1. CASE ordinalOf[t] # 0
    BY <1>1, <2>1 DEF Appears, GroupTypes
  <2>2. CASE ordinalOf[t] = 0
    <3>1. nextOrdinal' = [nextOrdinal EXCEPT ![p] = @ + 1]
          /\ ordinalOf' = [ordinalOf EXCEPT ![t] = nextOrdinal[p] + 1]
      BY <2>2 DEF Appears
    <3>2. nextOrdinal[p] \in Nat /\ \A q \in Projects : nextOrdinal[q] \in Nat
      BY <1>1 DEF GroupTypes
    <3> HIDE DEF p
    <3>3. /\ ordinalOf' \in [Grouped -> Nat] /\ nextOrdinal' \in [Projects -> Nat]
          /\ \A u \in Grouped \ {t} : ordinalOf'[u] = ordinalOf[u]
          /\ ordinalOf'[t] = nextOrdinal[p] + 1 /\ nextOrdinal'[p] = nextOrdinal[p] + 1
          /\ \A q \in Projects : nextOrdinal'[q] = IF q = p THEN nextOrdinal[p] + 1 ELSE nextOrdinal[q]
      BY <1>1, <3>1, <3>2 DEF GroupTypes
    <3>4. \A q \in Projects : nextOrdinal[q] <= nextOrdinal'[q]
      BY <3>2, <3>3
    <3>5. QED
      BY <3>3, <3>4
  <2>3. QED
    BY <2>1, <2>2
<1>7. Numbered'
  <2>1. \A u \in ToSet(listed') : ordinalOf'[u] # 0
    <3>1. ordinalOf'[t] # 0
      BY <1>1, <1>6 DEF GroupTypes
    <3>2. ASSUME NEW u \in ToSet(listed), u # t PROVE ordinalOf'[u] # 0
      <4>1. u \in Grouped
        BY <1>1, ItemsAre
      <4>2. QED
        BY <1>1, <1>6, <3>2, <4>1 DEF Numbered
    <3>3. QED
      BY <1>3, <3>1, <3>2
  <2>2. \A u \in Grouped : ProjectOf[u] \in Projects /\ ordinalOf[u] \in Nat
                           /\ nextOrdinal[ProjectOf[u]] \in Nat /\ nextOrdinal'[ProjectOf[u]] \in Nat
                           /\ ordinalOf[u] <= nextOrdinal[ProjectOf[u]]
    BY <1>1, <1>6, ProjectsAssumption DEF GroupTypes, Numbered
  <2>3. \A u \in Grouped : ordinalOf'[u] <= nextOrdinal'[ProjectOf[u]]
    <3>1. ASSUME NEW u \in Grouped \ {t} PROVE ordinalOf'[u] <= nextOrdinal'[ProjectOf[u]]
      <4>1. ordinalOf[u] <= nextOrdinal[ProjectOf[u]] /\ nextOrdinal[ProjectOf[u]] <= nextOrdinal'[ProjectOf[u]]
        BY <1>6, <2>2
      <4>2. QED
        BY <1>6, <2>2, <4>1
    <3>2. ordinalOf'[t] <= nextOrdinal'[p]
      <4>1. ordinalOf[t] <= nextOrdinal[p] /\ nextOrdinal[p] <= nextOrdinal'[p]
            /\ ordinalOf[t] \in Nat /\ nextOrdinal[p] \in Nat /\ nextOrdinal'[p] \in Nat
        BY <1>1, <1>6, <2>2
      <4>2. QED
        BY <1>6, <4>1
    <3>3. QED
      BY <3>1, <3>2
  <2>4. ASSUME NEW u \in Grouped \ {t}, ProjectOf[u] = p PROVE ordinalOf'[t] # ordinalOf'[u]
    <3>1. ordinalOf[u] <= nextOrdinal[p] /\ nextOrdinal[p] \in Nat /\ ordinalOf[u] \in Nat
      BY <2>2, <2>4
    <3>2. ordinalOf[t] # 0 => ordinalOf[t] # ordinalOf[u]
      BY <1>1, <2>4 DEF Numbered
    <3>3. QED
      BY <1>6, <3>1, <3>2
  <2>5. \A u, v \in Grouped :
            u # v /\ ProjectOf[u] = ProjectOf[v] /\ ordinalOf'[u] # 0 => ordinalOf'[u] # ordinalOf'[v]
    <3>1. SUFFICES ASSUME NEW u \in Grouped, NEW v \in Grouped, u # v, ProjectOf[u] = ProjectOf[v],
                          ordinalOf'[u] # 0
                   PROVE  ordinalOf'[u] # ordinalOf'[v]
      OBVIOUS
    <3>2. CASE u = t
      BY <2>4, <3>1, <3>2
    <3>3. CASE v = t
      BY <2>4, <3>1, <3>3
    <3>4. CASE u # t /\ v # t
      BY <1>1, <1>6, <3>1, <3>4 DEF Numbered
    <3>5. QED
      BY <3>2, <3>3, <3>4
  <2>6. QED
    BY <2>1, <2>3, <2>5 DEF Numbered
<1>8. GroupTypes'
  BY <1>1, <1>2, <1>3, <1>4, <1>6 DEF GroupTypes
<1>9. QED
  BY <1>5, <1>7, <1>8 DEF GroupsKnown

\* A terminal leaves its group.
LEMMA VanishesStep == ASSUME GroupsKnown, NEW t \in Grouped, Vanishes(t) PROVE GroupsKnown'
<1> DEFINE g == Group(t)
<1>1. GroupTypes /\ GroupsInOrder /\ Numbered /\ listed \in Seq(Grouped) /\ g \in GroupNames
  BY GroupIs DEF GroupsKnown, GroupTypes
<1>2. /\ UNCHANGED <<row, held, ordinalOf, nextOrdinal>> /\ listed' = Drop(listed, {t})
      /\ inGroup' = [inGroup EXCEPT ![g] = Drop(@, {t})]
      /\ \A h : Members(h)' = Members(h)
  BY DEF Vanishes, projectVars, Members, Group
<1>3. listed' \in Seq(Grouped) /\ ToSet(listed') = ToSet(listed) \ {t}
  BY <1>1, <1>2, DropFacts
<1>4. inGroup' \in [GroupNames -> Seq(Grouped)]
  <2>1. inGroup[g] \in Seq(Grouped)
    BY <1>1 DEF GroupTypes
  <2>2. Drop(inGroup[g], {t}) \in Seq(Grouped)
    BY <2>1, DropFacts
  <2>3. QED
    BY <1>1, <1>2, <2>2 DEF GroupTypes
<1>5. GroupsInOrder'
  <2>1. SUFFICES ASSUME NEW h \in GroupNames PROVE Keep(listed', Members(h)) = inGroup'[h]
    BY <1>2 DEF GroupsInOrder
  <2> DEFINE M == Members(h)
             L == ToSet(listed) \ {t}
             k == Keep(listed, M)
  <2>2. t \in M <=> h = g
    BY DEF Members
  <2>3. k = inGroup[h]
    BY <1>1 DEF GroupsInOrder
  <2>4. inGroup'[h] = IF h = g THEN Drop(inGroup[h], {t}) ELSE inGroup[h]
    BY <1>1, <1>2 DEF GroupTypes
  <2>5. k \in Seq(Grouped) /\ ToSet(k) = ToSet(listed) \cap M
    BY <1>1, KeepFacts
  <2>6. listed' = Keep(listed, L)
    BY <1>2 DEF Drop
  <2> HIDE DEF M, g, L
  <2>7. Keep(listed', M) = Keep(listed, L \cap M) /\ Keep(k, L) = Keep(listed, M \cap L)
    BY <1>1, <2>6, KeepTwice
  <2>8. Keep(listed', M) = Keep(k, L)
    <3>1. L \cap M = M \cap L
      OBVIOUS
    <3>2. QED
      BY <2>7, <3>1
  <2> HIDE DEF k
  <2>9. CASE h = g
    <3>1. Drop(k, {t}) = Keep(k, ToSet(k) \ {t})
      BY DEF Drop
    <3> DEFINE R == ToSet(k) \ {t}
    <3>2. ToSet(k) \cap R = ToSet(k) \cap L
      BY <2>5 DEF L
    <3> HIDE DEF R
    <3>3. Keep(k, R) = Keep(k, L)
      BY <2>5, <3>2, KeepSame
    <3>4. QED
      BY <2>3, <2>4, <2>8, <2>9, <3>1, <3>3 DEF R, M
  <2>10. CASE h # g
    <3>1. ToSet(k) \subseteq L
      BY <2>2, <2>5, <2>10 DEF L
    <3>2. Keep(k, L) = k
      BY <2>5, <3>1, KeepAll
    <3>3. QED
      BY <2>3, <2>4, <2>8, <2>10, <3>2 DEF M
  <2>11. QED
    BY <2>9, <2>10
<1>6. GroupTypes' /\ Numbered'
  BY <1>1, <1>2, <1>3, <1>4 DEF GroupTypes, Numbered
<1>7. QED
  BY <1>5, <1>6 DEF GroupsKnown

\* No step breaks what is known of the groups.
LEMMA GroupsStep == GroupsKnown /\ [GroupsNext]_<<groupVars, row>> => GroupsKnown'
<1> SUFFICES ASSUME GroupsKnown, [GroupsNext]_<<groupVars, row>> PROVE GroupsKnown'
  OBVIOUS
<1>1. GroupTypes /\ GroupsInOrder /\ Numbered
  BY DEF GroupsKnown
<1>2. ASSUME UNCHANGED <<listed, inGroup, ordinalOf, nextOrdinal, row>>,
             held' \in Grouped \cup {None}
      PROVE  GroupsKnown'
  BY <1>1, <1>2 DEF GroupsKnown, GroupTypes, GroupsInOrder, Numbered, Members, Group
<1>3. CASE UNCHANGED <<groupVars, row>> \/ LetGo \/ TypeFilter \/ \E t \in Grouped : Grab(t)
  BY <1>1, <1>2, <1>3 DEF groupVars, LetGo, TypeFilter, Grab, projectVars, GroupTypes
<1>4. ASSUME NEW t \in Grouped, DropOn(t) PROVE GroupsKnown'
  BY <1>1, <1>4, MoveStep DEF DropOn, GroupTypes
<1>5. ASSUME NEW t \in Grouped, NEW u \in Grouped, StepTo(t, u) PROVE GroupsKnown'
  BY <1>1, <1>5, MoveStep DEF StepTo, GroupTypes
<1>6. QED
  BY <1>3, <1>4, <1>5, AppearsStep, VanishesStep DEF GroupsNext

\* What is known of the groups gives their properties.
LEMMA GroupsHold ==
    ASSUME GroupsKnown
    PROVE  /\ GroupsKeepOrder /\ ToSet(listed) \subseteq Grouped /\ held \in Grouped \cup {None}
<1>1. GroupTypes /\ GroupsInOrder /\ Numbered
  BY DEF GroupsKnown
<1>2. ToSet(listed) \subseteq Grouped
  BY <1>1, ItemsAre DEF GroupTypes
<1>3. GroupsKeepOrder
  BY <1>1, <1>2 DEF GroupTypes, GroupsInOrder, Numbered, GroupsKeepOrder
<1>4. QED
  BY <1>1, <1>2, <1>3 DEF GroupTypes

-----------------------------------------------------------------------------
(* The order of the projects. *)

Orders == {r \in Seq(Projects) : IsInjective(r)}
Within(order) == order \in Orders /\ ToSet(order) \subseteq ToSet(row)
Flights == [phase : {"sent", "saved", "failed"}, ids : Orders, revision : Nat]
Creations == [phase : {"sent", "created", "failed"}, project : Projects]

OrderTypes ==
    /\ saved \in Orders /\ row \in Orders /\ revision \in Nat
    /\ Within(committed) /\ Within(desired)
    /\ flight = Rests <=> desired = <<>>
    /\ flight # Rests => /\ flight \in Flights /\ Within(flight.ids)
                         /\ flight.revision <= revision
                         /\ flight.revision = revision => flight.ids = desired

DialogTypes ==
    /\ draftPath \in Projects \cup {None} /\ picks \in Nat
    /\ creating # Rests => creating \in Creations /\ dialogOpen

\* A project that the server has, and the page will have.
Pend == IF creating.phase = "created" THEN <<creating.project>> ELSE <<>>

\* While nothing disturbs them, the server has the projects as the page will have
\* them when its requests are answered.
OrderAgrees ==
    undisturbed =>
        /\ flight = Rests => saved = row \o Pend
        /\ flight # Rests => saved = InOrder(row, Known) \o Pend

\* The inductive invariant of the projects.
OrderKnown == OrderTypes /\ DialogTypes /\ OrderAgrees

\* Nothing is added when no project was created.
LEMMA NothingPends == ASSUME NEW r \in Seq(Projects), creating.phase # "created"
                      PROVE  Pend = <<>> /\ r \o Pend = r
<1>1. Pend = <<>>
  BY DEF Pend
<1>2. r \o <<>> = r
  BY ConcatEmptySeq
<1>3. QED
  BY <1>1, <1>2

\* No project is an order too.
LEMMA EmptyOrder == <<>> \in Orders /\ ToSet(<<>>) = {}
<1>1. <<>> \in Seq(Projects)
  OBVIOUS
<1>2. ToSet(<<>>) = {}
  BY <1>1, ItemsAre
<1>3. IsInjective(<<>>)
  BY DEF IsInjective
<1>4. QED
  BY <1>1, <1>2, <1>3 DEF Orders

\* The projects in another order are the same projects.
LEMMA OrderedIs ==
    ASSUME row \in Orders, NEW order, Within(order)
    PROVE  InOrder(row, order) \in Orders /\ ToSet(InOrder(row, order)) = ToSet(row)
BY InOrderFacts, InOrderOnce DEF Orders, Within

\* The page orders projects that it shows.
LEMMA KnownIs == ASSUME OrderTypes, flight # Rests PROVE Within(Known)
BY DEF OrderTypes, Known

\* At first the page shows the projects of the server.
LEMMA OrderStart == SidebarInit => OrderKnown
<1> SUFFICES ASSUME SidebarInit PROVE OrderKnown
  OBVIOUS
<1> DEFINE all == SetToSeq(Projects)
<1>1. all \in Orders
  BY SetInSeq, ProjectsAssumption DEF Orders
<1> HIDE DEF all
<1>2. \A p : Drop(all, {p}) \in Orders
  BY <1>1, DropFacts, DropOnce DEF Orders
<1>3. saved \in Orders /\ row = saved
  BY <1>1, <1>2, EmptyOrder DEF SidebarInit, all
<1>4. creating.phase # "created" /\ flight = Rests /\ creating = Rests /\ desired = <<>> /\ committed = <<>>
  BY DEF SidebarInit, Rests
<1>5. Within(<<>>)
  BY EmptyOrder DEF Within
<1>6. OrderTypes
  BY <1>3, <1>4, <1>5 DEF OrderTypes, SidebarInit
<1>7. row \o Pend = row
  BY <1>3, <1>4, NothingPends DEF Orders
<1>8. OrderAgrees
  BY <1>3, <1>4, <1>7 DEF OrderAgrees
<1>9. QED
  BY <1>4, <1>6, <1>8 DEF OrderKnown, DialogTypes, SidebarInit

\* What a request becomes that goes on.
LEMMA OnTheWay ==
    ASSUME OrderTypes, flight # Rests, NEW p \in {"sent", "saved", "failed"},
           flight' = [flight EXCEPT !.phase = p]
    PROVE  /\ flight' \in Flights /\ flight' # Rests /\ flight'.phase = p
           /\ flight'.ids = flight.ids /\ flight'.revision = flight.revision
<1>1. flight \in Flights
  BY DEF OrderTypes
<1>2. PICK i, v : flight = [phase |-> flight.phase, ids |-> i, revision |-> v]
                  /\ i \in Orders /\ v \in Nat /\ flight.ids = i /\ flight.revision = v
  BY <1>1 DEF Flights
<1>3. flight' = [phase |-> p, ids |-> i, revision |-> v]
  BY <1>2
<1>4. flight' # Rests
  BY <1>3 DEF Rests
<1>5. QED
  BY <1>2, <1>3, <1>4 DEF Flights

\* What an order in flight has.
LEMMA FlightIs ==
    ASSUME OrderTypes, flight.phase \in {"sent", "saved", "failed"}
    PROVE  /\ flight # Rests /\ flight \in Flights /\ Within(flight.ids) /\ desired # <<>>
           /\ flight.revision <= revision
           /\ flight.revision = revision => flight.ids = desired
BY DEF OrderTypes, Rests

\* The next request of the page.
LEMMA NextFlight ==
    ASSUME flight' = Flushed, desired' \in Orders, ToSet(desired') \subseteq ToSet(row'),
           revision' \in Nat
    PROVE  /\ flight' = Rests <=> desired' = <<>>
           /\ flight' # Rests => /\ flight' \in Flights /\ Within(flight.ids)'
                                 /\ flight'.phase = "sent"
                                 /\ flight'.revision = revision' /\ flight'.ids = desired'
<1>1. CASE desired' = <<>>
  BY <1>1 DEF Flushed
<1>2. CASE desired' # <<>>
  <2>1. flight' = [phase |-> "sent", ids |-> desired', revision |-> revision']
    BY <1>2 DEF Flushed
  <2>2. flight'.phase = "sent" /\ flight'.ids = desired' /\ flight'.revision = revision'
    BY <2>1
  <2>3. flight' \in Flights /\ flight' # Rests
    BY <2>1, <2>2 DEF Flights, Rests
  <2>4. Within(flight.ids)'
    BY <2>2 DEF Within
  <2>5. QED
    BY <1>2, <2>2, <2>3, <2>4
<1>3. QED
  BY <1>1, <1>2

\* A project is dragged.
LEMMA DragStep ==
    ASSUME OrderKnown, NEW i \in DOMAIN row, NEW j \in DOMAIN row, DragProject(i, j)
    PROVE  OrderKnown'
<1>1. OrderTypes /\ DialogTypes /\ OrderAgrees /\ row \in Seq(Projects) /\ IsInjective(row)
  BY DEF OrderKnown, OrderTypes, Orders
<1>2. row' \in Orders /\ ToSet(row') = ToSet(row) /\ row' = Moved(row, i, j)
  <2>1. i \in 1..Len(row) /\ j \in 1..Len(row) /\ row' = Moved(row, i, j)
    BY <1>1 DEF DragProject
  <2>2. QED
    BY <1>1, <2>1, MovedFacts DEF Orders
<1>3. row' # <<>>
  <2>1. row[i] \in ToSet(row')
    BY <1>1, <1>2 DEF ToSet
  <2>2. QED
    BY <2>1, EmptyOrder
<1>4. Within(row)' /\ Within(row) /\ (\A o : Within(o) => o \in Orders /\ ToSet(o) \subseteq ToSet(row'))
  BY <1>1, <1>2 DEF Within, OrderTypes
<1>5. /\ saved' = saved /\ revision' = revision + 1 /\ desired' = row'
      /\ DialogTypes'
      /\ creating' = creating /\ Pend' = Pend
  BY <1>1 DEF DragProject, dialogVars, DialogTypes, Pend
<1>6. revision' \in Nat /\ desired' \in Orders /\ ToSet(desired') \subseteq ToSet(row')
  BY <1>1, <1>2, <1>5 DEF OrderTypes
<1>7. CASE flight = Rests
  <2>1. committed' = row /\ flight' = Flushed
    BY <1>1, <1>7 DEF DragProject, OrderTypes
  <2>2. /\ flight' # Rests /\ flight' \in Flights /\ Within(flight.ids)' /\ flight'.phase = "sent"
        /\ flight'.revision = revision' /\ flight'.ids = desired'
    BY <1>3, <1>5, <1>6, <2>1, NextFlight
  <2>3. OrderTypes'
    BY <1>1, <1>2, <1>3, <1>4, <1>5, <1>6, <2>1, <2>2 DEF OrderTypes, Within
  <2>4. Known' = row
    BY <2>1, <2>2 DEF Known
  <2>5. InOrder(row', row) = row
    BY <1>1, <1>2, InOrderAll DEF Orders
  <2>6. undisturbed' => undisturbed
    BY DEF DragProject
  <2>7. undisturbed' => saved' = InOrder(row', Known') \o Pend'
    BY <1>1, <1>5, <1>7, <2>4, <2>5, <2>6 DEF OrderAgrees
  <2>8. OrderAgrees'
    BY <2>2, <2>7 DEF OrderAgrees
  <2>9. QED
    BY <1>5, <2>3, <2>8 DEF OrderKnown
<1>8. CASE flight # Rests
  <2>1. committed' = committed /\ flight' = flight
    BY <1>1, <1>8 DEF DragProject, OrderTypes
  <2>2. flight \in Flights /\ Within(flight.ids) /\ flight.revision <= revision
    BY <1>1, <1>8 DEF OrderTypes
  <2>3. flight.revision <= revision' /\ flight.revision # revision'
    BY <1>1, <1>5, <2>2 DEF OrderTypes, Flights
  <2>4. OrderTypes'
    BY <1>1, <1>2, <1>3, <1>4, <1>5, <1>6, <1>8, <2>1, <2>2, <2>3 DEF OrderTypes, Within
  <2>5. Known' = Known /\ Within(Known)
    BY <1>1, <1>8, <2>1, KnownIs DEF Known
  <2>6. undisturbed' => undisturbed /\ Cardinality(Added) <= 1
    BY <1>8 DEF DragProject
  <2>7. ASSUME undisturbed' PROVE InOrder(row', Known) = InOrder(row, Known)
    <3>1. \A x, y \in ToSet(row) \ ToSet(Known) : x = y
      <4>1. Added \subseteq Projects /\ IsFiniteSet(Projects)
        BY <1>1, ItemsAre, ProjectsAssumption DEF Added
      <4>2. IsFiniteSet(Added) /\ Cardinality(Added) <= 1
        BY <2>6, <2>7, <4>1, FS_Subset
      <4>3. Cardinality(Added) \in {0, 1}
        BY <4>2, FS_CardinalityType
      <4>4. \A x, y \in Added : x = y
        BY <4>2, <4>3, FS_EmptySet, FS_Singleton
      <4>5. QED
        BY <4>4 DEF Added
    <3>2. row' \in Seq(Projects) /\ IsInjective(row') /\ Known \in Seq(Projects)
      BY <1>2, <2>5 DEF Orders, Within
    <3>3. QED
      BY <1>1, <1>2, <3>1, <3>2, InOrderAgain
  <2>8. undisturbed' => saved' = InOrder(row', Known') \o Pend'
    BY <1>1, <1>5, <1>8, <2>5, <2>6, <2>7 DEF OrderAgrees
  <2>9. OrderAgrees'
    BY <1>8, <2>1, <2>8 DEF OrderAgrees
  <2>10. QED
    BY <1>5, <2>4, <2>9 DEF OrderKnown
<1>9. QED
  BY <1>7, <1>8

\* The types of the projects say nothing of what else there is.
LEMMA OrderStays ==
    ASSUME OrderTypes, DialogTypes,
           UNCHANGED <<row, committed, desired, revision, flight>>, saved' \in Orders,
           UNCHANGED dialogVars
    PROVE  OrderTypes' /\ DialogTypes' /\ Pend' = Pend /\ Known' = Known
BY DEF OrderTypes, DialogTypes, Within, Pend, Known, dialogVars

\* The server reorders or refuses, or its answer is lost.
LEMMA ServerOrderStep ==
    ASSUME OrderKnown, ServerReorders \/ ServerRefuses \/ OrderAnswerLost
    PROVE  OrderKnown'
<1>1. OrderTypes /\ DialogTypes /\ OrderAgrees /\ row \in Seq(Projects) /\ IsInjective(row)
  BY DEF OrderKnown, OrderTypes, Orders
<1>2. /\ row' = row /\ committed' = committed /\ desired' = desired /\ revision' = revision
      /\ UNCHANGED dialogVars /\ DialogTypes' /\ Pend' = Pend
      /\ \E p \in {"sent", "saved", "failed"} : flight' = [flight EXCEPT !.phase = p]
      /\ flight.phase \in {"sent", "saved", "failed"}
  BY <1>1 DEF ServerReorders, ServerRefuses, OrderAnswerLost, DialogTypes, dialogVars, Pend
<1>3. flight # Rests /\ Within(flight.ids) /\ flight \in Flights
  BY <1>1, <1>2, FlightIs
<1>4. PICK p \in {"sent", "saved", "failed"} : flight' = [flight EXCEPT !.phase = p]
  BY <1>2
<1>5. /\ flight' \in Flights /\ flight' # Rests /\ flight'.phase = p
      /\ flight'.ids = flight.ids /\ flight'.revision = flight.revision
  BY <1>1, <1>3, <1>4, OnTheWay
<1>6. saved' \in Orders => OrderTypes'
  BY <1>1, <1>2, <1>3, <1>5 DEF OrderTypes, Within
<1>7. CASE ServerReorders
  <2>1. saved' = flight.ids /\ saved' \in Orders /\ flight.phase = "sent"
        /\ ToSet(flight.ids) = ToSet(saved) /\ flight'.phase = "saved"
    <3>1. flight' = [flight EXCEPT !.phase = "saved"]
      BY <1>7 DEF ServerReorders
    <3>2. flight'.phase = "saved"
      BY <1>1, <1>3, <3>1, OnTheWay
    <3>3. QED
      BY <1>3, <1>7, <3>2 DEF ServerReorders, Within
  <2>2. Known' = flight.ids /\ Known = committed
    BY <1>5, <2>1 DEF Known
  <2>3. ASSUME undisturbed' PROVE saved' = InOrder(row', Known') \o Pend'
    <3> DEFINE o == InOrder(row, Known)
    <3>1. undisturbed
      BY <1>7, <2>3 DEF ServerReorders
    <3>2. saved = o \o Pend
      BY <1>1, <1>3, <3>1 DEF OrderAgrees
    <3>3. o \in Seq(Projects) /\ ToSet(o) = ToSet(row)
      BY <1>1, <1>3, KnownIs, OrderedIs DEF OrderTypes, Orders
    <3>4. creating.phase # "created"
      <4>1. SUFFICES ASSUME creating.phase = "created" PROVE FALSE
        OBVIOUS
      <4> DEFINE q == creating.project
                 b == <<q>>
      <4>2. q \in Projects /\ Pend = b
        BY <1>1, <4>1 DEF DialogTypes, Pend, Creations, Rests
      <4> HIDE DEF q, o
      <4>3. b \in Seq(Projects) /\ ToSet(b) = {q}
        BY <4>2 DEF ToSet
      <4> HIDE DEF b
      <4>4. saved = o \o b /\ IsInjective(saved)
        BY <1>1, <3>2, <4>2 DEF OrderTypes, Orders, o
      <4>5. ToSet(o) \cap ToSet(b) = {} /\ ToSet(saved) = ToSet(o) \cup ToSet(b)
        BY <3>3, <4>3, <4>4, OnceConcat, JoinedRows DEF o
      <4>6. ToSet(saved) \subseteq ToSet(row)
        BY <1>3, <2>1 DEF Within
      <4>7. QED
        BY <3>3, <4>3, <4>5, <4>6 DEF o
    <3>5. flight.ids \in Seq(Projects) /\ IsInjective(flight.ids) /\ ToSet(flight.ids) = ToSet(row)
      <4>1. Pend = <<>> /\ o \o Pend = o
        BY <3>3, <3>4, NothingPends
      <4>2. saved = o
        BY <3>2, <4>1
      <4>3. QED
        BY <1>3, <2>1, <3>3, <4>2 DEF Within, Orders
    <3>6. InOrder(row', Known') = flight.ids
      BY <1>1, <1>2, <2>2, <3>5, InOrderAll
    <3>7. flight.ids \o Pend = flight.ids
      BY <3>4, <3>5, NothingPends
    <3>8. QED
      BY <1>2, <2>1, <3>6, <3>7
  <2>4. OrderAgrees'
    BY <1>5, <2>3 DEF OrderAgrees
  <2>5. QED
    BY <1>2, <1>6, <2>1, <2>4 DEF OrderKnown
<1>8. CASE ServerRefuses
  <2>1. saved' = saved /\ undisturbed' = undisturbed /\ flight.phase = "sent" /\ flight'.phase = "failed"
    <3>1. flight' = [flight EXCEPT !.phase = "failed"]
      BY <1>8 DEF ServerRefuses
    <3>2. QED
      BY <1>1, <1>3, <1>8, <3>1, OnTheWay DEF ServerRefuses
  <2>2. Known' = Known
    BY <1>2, <2>1 DEF Known
  <2>3. OrderAgrees'
    BY <1>1, <1>2, <1>3, <1>5, <2>1, <2>2 DEF OrderAgrees
  <2>4. QED
    BY <1>1, <1>2, <1>6, <2>1, <2>3 DEF OrderKnown, OrderTypes
<1>9. CASE OrderAnswerLost
  <2>1. saved' = saved /\ ~undisturbed'
    BY <1>9 DEF OrderAnswerLost
  <2>2. QED
    BY <1>1, <1>2, <1>6, <2>1 DEF OrderKnown, OrderTypes, OrderAgrees
<1>10. QED
  BY <1>7, <1>8, <1>9

\* An order is answered: the page goes on with the next, or back.
LEMMA OrderEndsStep ==
    ASSUME OrderKnown, OrderSaved \/ OrderFailed
    PROVE  OrderKnown'
<1> DEFINE known == IF flight.phase = "saved" THEN flight.ids ELSE committed
<1>1. OrderTypes /\ DialogTypes /\ OrderAgrees /\ row \in Orders
  BY DEF OrderKnown, OrderTypes
<1>2. /\ saved' = saved /\ revision' = revision /\ UNCHANGED dialogVars /\ undisturbed' = undisturbed
      /\ DialogTypes' /\ Pend' = Pend /\ flight' = Flushed /\ committed' = known
      /\ flight.phase \in {"saved", "failed"}
  BY <1>1 DEF OrderSaved, OrderFailed, DialogTypes, dialogVars, Pend
<1>3. /\ flight # Rests /\ flight \in Flights /\ Within(flight.ids) /\ desired # <<>>
      /\ flight.revision <= revision
      /\ flight.revision = revision => flight.ids = desired
  BY <1>1, <1>2, FlightIs
<1>4. Known = known /\ Within(known)
  BY <1>1, <1>3, KnownIs DEF Known
<1>5. /\ flight.revision = revision => desired' = <<>> /\ row' = InOrder(row, known)
      /\ flight.revision # revision => desired' = desired /\ row' = row
  BY <1>2 DEF OrderSaved, OrderFailed, RolledBack
<1> HIDE DEF known
<1>6. row' \in Orders /\ ToSet(row') = ToSet(row)
  BY <1>1, <1>4, <1>5, OrderedIs
<1>7. desired' \in Orders /\ ToSet(desired') \subseteq ToSet(row') /\ revision' \in Nat
  BY <1>1, <1>2, <1>5, <1>6, EmptyOrder DEF OrderTypes, Within
<1>8. /\ flight' = Rests <=> desired' = <<>>
      /\ flight' # Rests => /\ flight' \in Flights /\ Within(flight.ids)' /\ flight'.phase = "sent"
                            /\ flight'.revision = revision' /\ flight'.ids = desired'
  BY <1>2, <1>7, NextFlight
<1>9. OrderTypes'
  <2>1. committed' \in Orders /\ ToSet(committed') \subseteq ToSet(row')
    BY <1>2, <1>4, <1>6 DEF Within
  <2>2. saved' \in Orders
    BY <1>1, <1>2 DEF OrderTypes
  <2>3. flight' # Rests => flight'.revision <= revision'
    BY <1>7, <1>8
  <2>4. QED
    BY <1>6, <1>7, <1>8, <2>1, <2>2, <2>3 DEF OrderTypes, Within
<1>10. undisturbed' => saved' = InOrder(row, known) \o Pend'
  BY <1>1, <1>2, <1>3, <1>4 DEF OrderAgrees
<1>11. OrderAgrees'
  <2>1. CASE flight.revision = revision
    <3>1. flight' = Rests /\ row' = InOrder(row, known)
      BY <1>5, <1>8, <2>1
    <3>2. QED
      BY <1>10, <3>1 DEF OrderAgrees
  <2>2. CASE flight.revision # revision
    <3>1. flight' # Rests /\ row' = row
      BY <1>3, <1>5, <1>8, <2>2
    <3>2. Known' = known
      BY <1>2, <1>8, <3>1 DEF Known
    <3>3. QED
      BY <1>10, <3>1, <3>2 DEF OrderAgrees
  <2>3. QED
    BY <2>1, <2>2
<1>12. QED
  BY <1>2, <1>9, <1>11 DEF OrderKnown

\* What a project that is created has.
LEMMA CreationIs ==
    ASSUME DialogTypes, creating.phase \in {"sent", "created", "failed"}
    PROVE  creating # Rests /\ creating \in Creations /\ dialogOpen /\ creating.project \in Projects
BY DEF DialogTypes, Rests, Creations

\* What the user does to the dialog, and what else ends.
LEMMA ProjectDialogStep ==
    ASSUME OrderKnown,
           \/ OpenDialog \/ CloseDialog \/ Pick \/ SubmitProject \/ ProjectRefused
           \/ \E p \in Projects : TypePath(p)
           \/ \E p \in Projects \cup {None} : Picked(p)
    PROVE  OrderKnown'
<1>1. OrderTypes /\ DialogTypes /\ OrderAgrees
  BY DEF OrderKnown
<1>2. /\ saved' = saved /\ undisturbed' = undisturbed
      /\ UNCHANGED <<row, committed, desired, revision, flight>>
  BY DEF OpenDialog, CloseDialog, Pick, SubmitProject, ProjectRefused, TypePath, Picked, orderVars
<1>3. OrderTypes' /\ Known' = Known
  BY <1>1, <1>2 DEF OrderTypes, Within, Known
<1>4. DialogTypes' /\ (creating' = creating \/ (creating.phase # "created" /\ creating'.phase # "created"))
  <2>1. CASE OpenDialog \/ CloseDialog \/ Pick \/ \E p \in Projects : TypePath(p)
    BY <1>1, <2>1 DEF OpenDialog, CloseDialog, Pick, TypePath, DialogTypes
  <2>2. CASE \E p \in Projects \cup {None} : Picked(p)
    BY <1>1, <2>2 DEF Picked, DialogTypes
  <2>3. CASE SubmitProject
    <3>1. draftPath \in Projects /\ creating' = [phase |-> "sent", project |-> draftPath]
          /\ creating = Rests /\ dialogOpen' = dialogOpen /\ dialogOpen
      BY <1>1, <2>3 DEF SubmitProject, DialogTypes
    <3>2. creating' \in Creations
      BY <3>1 DEF Creations
    <3>3. creating.phase # "created" /\ creating'.phase # "created"
      BY <3>1 DEF Rests
    <3>4. QED
      BY <1>1, <2>3, <3>1, <3>2, <3>3 DEF SubmitProject, DialogTypes
  <2>4. CASE ProjectRefused
    BY <1>1, <2>4 DEF ProjectRefused, DialogTypes, Rests
  <2>5. QED
    BY <2>1, <2>2, <2>3, <2>4
<1>5. Pend' = Pend
  BY <1>4 DEF Pend
<1>6. OrderAgrees'
  BY <1>1, <1>2, <1>3, <1>5 DEF OrderAgrees
<1>7. QED
  BY <1>3, <1>4, <1>6 DEF OrderKnown

\* The server creates a project, for this page or another.
LEMMA CreateStep ==
    ASSUME OrderKnown,
           ServerCreatesProject \/ CreateAnswerLost \/ \E p \in Projects : OtherCreates(p)
    PROVE  OrderKnown'
<1>1. OrderTypes /\ DialogTypes /\ OrderAgrees /\ saved \in Orders /\ row \in Orders
  BY DEF OrderKnown, OrderTypes
<1>2. /\ UNCHANGED <<row, committed, desired, revision, flight, dialogOpen, draftPath, picks>>
      /\ undisturbed' => undisturbed
  BY DEF ServerCreatesProject, CreateAnswerLost, OtherCreates, orderVars, dialogVars
<1>3. saved' \in Orders => OrderTypes' /\ Known' = Known
  BY <1>1, <1>2 DEF OrderTypes, Within, Known
<1>4. ASSUME NEW p \in Projects, p \notin ToSet(saved) PROVE Append(saved, p) \in Orders
  BY <1>1, <1>4, OnceMore DEF Orders
<1>5. CASE \E p \in Projects : OtherCreates(p)
  <2>1. saved' \in Orders /\ ~undisturbed' /\ DialogTypes'
    BY <1>1, <1>4, <1>5 DEF OtherCreates, DialogTypes, dialogVars
  <2>2. QED
    BY <1>3, <2>1 DEF OrderKnown, OrderAgrees
<1>6. CASE creating.phase \in {"sent", "created"}
           /\ \E p \in {"created", "failed"} : creating' = [creating EXCEPT !.phase = p]
  <2>1. creating \in Creations /\ dialogOpen /\ creating.project \in Projects
    BY <1>1, <1>6, CreationIs
  <2>2. PICK p \in {"created", "failed"} : creating' = [creating EXCEPT !.phase = p]
    BY <1>6
  <2>3. creating' \in Creations /\ creating'.phase = p /\ creating'.project = creating.project
    BY <2>1, <2>2 DEF Creations
  <2>4. DialogTypes'
    BY <1>1, <1>2, <2>1, <2>3 DEF DialogTypes
  <2>5. CASE saved' = saved /\ creating.phase = "sent" /\ p = "failed"
    <3>1. Pend' = Pend
      BY <2>3, <2>5 DEF Pend
    <3>2. QED
      BY <1>1, <1>2, <1>3, <2>4, <2>5, <3>1 DEF OrderKnown, OrderAgrees
  <2>6. CASE saved' = saved /\ ~undisturbed'
    BY <1>1, <1>3, <2>4, <2>6 DEF OrderKnown, OrderAgrees
  <2>7. CASE /\ creating.project \notin ToSet(saved) /\ creating.phase = "sent" /\ p = "created"
             /\ saved' = Append(saved, creating.project)
    <3> DEFINE q == creating.project
               b == <<q>>
               o == InOrder(row, Known)
    <3>1. saved' \in Orders /\ Pend' = b /\ saved' = saved \o b
      BY <1>1, <1>4, <2>1, <2>3, <2>7 DEF Pend, Orders
    <3>2. OrderTypes' /\ Known' = Known
      BY <1>3, <3>1
    <3>3. row \o Pend = row
      BY <1>1, <2>7, NothingPends DEF Orders
    <3>4. flight # Rests => o \o Pend = o
      <4>1. flight # Rests => o \in Seq(Projects)
        BY <1>1, KnownIs, OrderedIs DEF Orders
      <4>2. QED
        BY <2>7, <4>1, NothingPends
    <3>5. OrderAgrees'
      BY <1>1, <1>2, <3>1, <3>2, <3>3, <3>4 DEF OrderAgrees
    <3>6. QED
      BY <2>4, <3>2, <3>5 DEF OrderKnown
  <2>8. QED
    <3>1. CASE CreateAnswerLost
      BY <1>6, <2>6, <3>1 DEF CreateAnswerLost
    <3>2. CASE ServerCreatesProject
      <4>1. CASE creating' = [creating EXCEPT !.phase = "failed"] /\ saved' = saved
        <5>1. creating'.phase = "failed" /\ creating.phase = "sent"
          BY <2>1, <3>2, <4>1 DEF Creations, ServerCreatesProject
        <5>2. p = "failed"
          BY <2>3, <5>1
        <5>3. QED
          BY <2>5, <4>1, <5>1, <5>2
      <4>2. CASE /\ creating' = [creating EXCEPT !.phase = "created"]
                 /\ saved' = Append(saved, creating.project) /\ creating.project \notin ToSet(saved)
        <5>1. creating'.phase = "created" /\ creating.phase = "sent"
          BY <2>1, <3>2, <4>2 DEF Creations, ServerCreatesProject
        <5>2. p = "created"
          BY <2>3, <5>1
        <5>3. QED
          BY <2>7, <4>2, <5>1, <5>2
      <4>3. QED
        BY <3>2, <4>1, <4>2 DEF ServerCreatesProject
    <3>3. CASE \E r \in Projects : OtherCreates(r)
      BY <1>5, <3>3
    <3>4. QED
      BY <3>1, <3>2, <3>3
<1>7. QED
  BY <1>5, <1>6 DEF ServerCreatesProject, CreateAnswerLost

\* The page adds the project that was created.
LEMMA ProjectCreatedStep == ASSUME OrderKnown, ProjectCreated PROVE OrderKnown'
<1> DEFINE p == creating.project
           o == InOrder(row, Known)
           b == <<p>>
           dropped == Drop(row, {p})
<1>1. OrderTypes /\ DialogTypes /\ OrderAgrees /\ saved \in Orders /\ row \in Orders
  BY DEF OrderKnown, OrderTypes
<1>2. /\ UNCHANGED <<saved, committed, desired, revision, flight, picks>>
      /\ undisturbed' = undisturbed /\ creating' = Rests /\ draftPath' = None
      /\ row' = Append(dropped, p) /\ creating.phase = "created"
  BY DEF ProjectCreated, orderVars
<1>3. p \in Projects
  BY <1>1, <1>2, CreationIs
<1>4. dropped \in Seq(Projects) /\ ToSet(dropped) = ToSet(row) \ {p} /\ IsInjective(dropped)
  BY <1>1, DropFacts, DropOnce DEF Orders
<1> HIDE DEF p, dropped
<1>5. row' \in Orders /\ ToSet(row) \subseteq ToSet(row')
  <2>1. row' \in Seq(Projects) /\ ToSet(row') = ToSet(dropped) \cup {p} /\ IsInjective(row')
    BY <1>2, <1>3, <1>4, ItemsAre, OnceMore
  <2>2. QED
    BY <1>4, <2>1 DEF Orders
<1>6. OrderTypes' /\ Known' = Known
  BY <1>1, <1>2, <1>5 DEF OrderTypes, Within, Known
<1>7. DialogTypes'
  BY <1>1, <1>2 DEF DialogTypes
<1>8. Pend = b /\ Pend' = <<>> /\ b \in Seq(Projects) /\ ToSet(b) = {p}
  BY <1>2, <1>3 DEF Pend, Rests, p, ToSet
<1>9. row' \in Seq(Projects) /\ row \in Seq(Projects)
  BY <1>1, <1>5 DEF Orders
<1>10. ASSUME NEW s \in Seq(Projects), saved = s \o b
       PROVE  p \notin ToSet(s) /\ saved = Append(s, p)
  <2> HIDE DEF b
  <2>1. IsInjective(s \o b)
    BY <1>1, <1>10 DEF Orders
  <2>2. p \notin ToSet(s)
    BY <1>8, <2>1, OnceConcat
  <2>3. QED
    BY <1>10, <2>2 DEF b
<1>11. p \notin ToSet(row) => row' = Append(row, p)
  <2>1. p \notin ToSet(row) => dropped = row
    BY <1>9, KeepAll DEF dropped, Drop
  <2>2. QED
    BY <1>2, <2>1
<1>12. ASSUME undisturbed, flight = Rests PROVE saved = row'
  <2>1. saved = row \o b
    BY <1>1, <1>8, <1>12 DEF OrderAgrees
  <2>2. p \notin ToSet(row) /\ saved = Append(row, p)
    BY <1>9, <1>10, <2>1
  <2>3. QED
    BY <1>11, <2>2
<1>13. ASSUME undisturbed, flight # Rests PROVE saved = InOrder(row', Known)
  <2>1. Within(Known) /\ o \in Seq(Projects) /\ ToSet(o) = ToSet(row)
    BY <1>1, <1>13, KnownIs, OrderedIs DEF Orders
  <2>2. saved = o \o b
    BY <1>1, <1>8, <1>13 DEF OrderAgrees
  <2>3. p \notin ToSet(o) /\ saved = Append(o, p)
    BY <1>10, <2>1, <2>2
  <2>4. Known \in Seq(Projects) /\ ToSet(Known) \subseteq ToSet(row) /\ p \notin ToSet(row)
    BY <2>1, <2>3 DEF Within, Orders
  <2>5. InOrder(Append(row, p), Known) = Append(o, p)
    BY <1>3, <1>9, <2>4, InOrderMore
  <2>6. QED
    BY <1>11, <2>3, <2>4, <2>5
<1>14. OrderAgrees'
  <2>1. row' \o <<>> = row'
    BY <1>9, ConcatEmptySeq
  <2>2. ASSUME flight # Rests PROVE InOrder(row', Known) \o <<>> = InOrder(row', Known)
    <3>1. InOrder(row', Known) \in Seq(Projects)
      BY <1>1, <1>9, <2>2, KnownIs, InOrderFacts DEF Within, Orders
    <3>2. QED
      BY <3>1, ConcatEmptySeq
  <2>3. QED
    BY <1>2, <1>6, <1>8, <1>12, <1>13, <2>1, <2>2 DEF OrderAgrees
<1>15. QED
  BY <1>6, <1>7, <1>14 DEF OrderKnown

\* No step breaks what is known of the projects.
LEMMA OrderStep == OrderKnown /\ [ProjectsNext]_projectVars => OrderKnown'
<1> SUFFICES ASSUME OrderKnown, [ProjectsNext]_projectVars PROVE OrderKnown'
  OBVIOUS
<1>1. CASE UNCHANGED projectVars
  BY <1>1 DEF projectVars, orderVars, dialogVars, OrderKnown, OrderTypes, DialogTypes, OrderAgrees,
              Within, Pend, Known
<1>2. CASE \E i, j \in DOMAIN row : DragProject(i, j)
  BY <1>2, DragStep
<1>3. QED
  BY <1>1, <1>2, ServerOrderStep, OrderEndsStep, ProjectDialogStep, CreateStep, ProjectCreatedStep
     DEF ProjectsNext

\* With no request under way the page and the server agree.
LEMMA OrderHolds ==
    ASSUME OrderKnown
    PROVE  /\ ProjectsAgree /\ {ToSet(saved), ToSet(row)} \subseteq SUBSET Projects
           /\ draftPath \in Projects \cup {None} /\ picks \in Nat
           /\ flight.phase \in {"none", "sent", "saved", "failed"}
           /\ creating.phase \in {"none", "sent", "created", "failed"}
<1>1. OrderTypes /\ DialogTypes /\ OrderAgrees /\ saved \in Seq(Projects) /\ row \in Seq(Projects)
  BY DEF OrderKnown, OrderTypes, Orders
<1>2. {ToSet(saved), ToSet(row)} \subseteq SUBSET Projects
  BY <1>1, ItemsAre
<1>3. /\ flight.phase \in {"none", "sent", "saved", "failed"}
      /\ creating.phase \in {"none", "sent", "created", "failed"}
  BY <1>1 DEF OrderTypes, DialogTypes, Flights, Creations, Rests
<1>4. ASSUME undisturbed, flight = Rests, creating = Rests PROVE row = saved
  <2>1. creating.phase # "created"
    BY <1>4 DEF Rests
  <2>2. row \o Pend = row
    BY <1>1, <2>1, NothingPends
  <2>3. QED
    BY <1>1, <1>4, <2>2 DEF OrderAgrees
<1>5. QED
  BY <1>1, <1>2, <1>3, <1>4 DEF ProjectsAgree, DialogTypes

-----------------------------------------------------------------------------
(* Sessions that are archived and resumed. *)

Loads == [phase : {"none", "sent"}] \cup [phase : {"answered"}, rows : SUBSET AgentSessions]
Handlers == [session : AgentSessions,
             phase : {"asked", "creating", "created", "named", "done", "failed"}]
Archivings == [phase : {"sent", "done", "failed"}, session : AgentSessions, visible : BOOLEAN]
Resumings == [phase : {"sent"}, session : AgentSessions, from : {"sidebar", "dialog"},
              handler : Nat]
DialogLoads == [phase : {"sent"}, loud : BOOLEAN]
                   \cup [phase : {"answered"}, loud : BOOLEAN, rows : SUBSET AgentSessions]

SavedTypes ==
    /\ SavedTypeOK
    /\ handlers \in Seq(Handlers) /\ archivedLoad \in Loads
    /\ archiving \in {Idle} \cup Archivings /\ resuming \in {Idle} \cup Resumings
    /\ dialogLoad \in {Idle} \cup DialogLoads
    /\ resuming # Idle => /\ resuming.handler \in DOMAIN handlers
                          /\ handlers[resuming.handler].session = resuming.session

\* A request that the server handles.
Open(n) == n \in DOMAIN handlers /\ handlers[n].phase \notin {"done", "failed"}

\* One request at a time: nothing runs the session that it is starting.
OnceKnown ==
    ~crossed =>
        /\ \A s \in AgentSessions : running[s] \in {0, 1}
        /\ \A m, n \in DOMAIN handlers : Open(m) /\ Open(n) => m = n
        /\ \A n \in DOMAIN handlers : handlers[n].phase \in {"creating", "created"} =>
               running[handlers[n].session] = 0

\* One act at a time: what the page lists is what the server has, but for the act
\* under way.
ListsKnown ==
    ~muddled =>
        /\ ~crossed
        /\ archivedLoad = Idle \/ (archiving = Idle /\ resuming = Idle)
        /\ archiving = Idle \/ resuming = Idle
        /\ \A n \in DOMAIN handlers :
               Open(n) => resuming # Idle /\ n = resuming.handler
        /\ archivedLoad # Idle => ~archivedLoaded
        /\ archivedLoad.phase = "answered" => archivedLoad.rows = archived
        /\ \A s \in archived : running[s] > 0 =>
               \E n \in DOMAIN handlers :
                   handlers[n].phase = "named" /\ handlers[n].session = s
        /\ archivedLoaded /\ archiving.phase # "done" =>
               archived = IF resuming # Idle /\ handlers[resuming.handler].phase = "done"
                          THEN archivedRows \ {resuming.session} ELSE archivedRows
        /\ resuming # Idle => resuming.from = "sidebar"

\* The inductive invariant of the saved sessions.
SavedKnown == SavedTypes /\ OnceKnown /\ ListsKnown /\ LoadingEnds

\* At first no session is resumed or archived here.
LEMMA SavedStart == SavedInit => SavedKnown
<1> SUFFICES ASSUME SavedInit PROVE SavedKnown
  OBVIOUS
<1>1. DOMAIN handlers = {} /\ handlers \in Seq(Handlers)
  BY DEF SavedInit
<1>2. Running \in SUBSET AgentSessions
  BY DEF Running
<1>3. \A s \in AgentSessions : running[s] = IF s \in archived THEN 0 ELSE 1
  BY DEF SavedInit
<1>4. running \in [AgentSessions -> Nat] /\ archived \in SUBSET AgentSessions
  BY DEF SavedInit
<1>5. SavedTypes
  BY <1>1, <1>2, <1>4, Zenon DEF SavedInit, SavedTypes, SavedTypeOK, Loads, Idle
<1>6. OnceKnown /\ ListsKnown /\ LoadingEnds
  BY <1>1, <1>3, <1>4 DEF SavedInit, OnceKnown, ListsKnown, LoadingEnds, Idle
<1>7. QED
  BY <1>5, <1>6 DEF SavedKnown

-----------------------------------------------------------------------------
(* Steps. *)

\* A step that leaves the server alone, and the acts of the page.
LEMMA SavedStays ==
    ASSUME SavedKnown, SavedTypes', LoadingEnds',
           UNCHANGED <<storeVars, handlers, archivedRows, archivedLoaded, archivedLoad,
                       archiving, resuming, crossed>>,
           muddled => muddled'
    PROVE  SavedKnown'
<1>1. OnceKnown'
  BY DEF SavedKnown, OnceKnown, Open, storeVars
<1>2. ListsKnown'
  BY DEF SavedKnown, ListsKnown, Open, storeVars
<1>3. QED
  BY <1>1, <1>2 DEF SavedKnown

\* The flags of the sidebar and of the dialog, and what is active.
LEMMA PageStays ==
    ASSUME SavedTypes, UNCHANGED <<storeVars, handlers, archivedRows, archivedLoaded,
                                   archivedLoad, archiving, resuming, crossed>>,
           muddled' \in BOOLEAN, archivedShown' \in BOOLEAN, dialogShown' \in BOOLEAN,
           dialogLoading' \in BOOLEAN, active' \subseteq AgentSessions,
           dialogRows' \subseteq AgentSessions, dialogLoad' \in {Idle} \cup DialogLoads
    PROVE  SavedTypes'
BY DEF SavedTypes, SavedTypeOK, storeVars

\* The dialog of all sessions and the polls.
LEMMA DialogStep ==
    ASSUME SavedKnown,
           \/ \E s \in AgentSessions : SelectFromDialog(s)
           \/ OpenAllSessions \/ CloseAllSessions \/ RefreshTimer \/ ServerListsAll
           \/ RefreshEnds \/ Poll \/ PressHide
    PROVE  SavedKnown'
<1>1. SavedTypes /\ LoadingEnds
  BY DEF SavedKnown
<1>2. Running \subseteq AgentSessions
  BY DEF Running
<1>3. dialogLoad \in {Idle} \cup DialogLoads /\ dialogRows \subseteq AgentSessions
      /\ active \subseteq AgentSessions /\ muddled \in BOOLEAN /\ dialogLoading \in BOOLEAN
      /\ dialogShown \in BOOLEAN /\ archivedShown \in BOOLEAN
  BY <1>1 DEF SavedTypes, SavedTypeOK
<1>4. UNCHANGED <<storeVars, handlers, archivedRows, archivedLoaded, archivedLoad,
                  archiving, resuming, crossed>>
  BY DEF SelectFromDialog, OpenAllSessions, CloseAllSessions, RefreshTimer, ServerListsAll,
         RefreshEnds, Poll, PressHide, archiveVars, storeVars
<1>5. CASE \/ \E s \in AgentSessions : SelectFromDialog(s)
           \/ CloseAllSessions \/ Poll \/ PressHide
  <2>1. UNCHANGED <<dialogLoad, dialogLoading, dialogRows>> /\ active' \subseteq AgentSessions
        /\ archivedShown' \in BOOLEAN /\ dialogShown' \in BOOLEAN
    BY <1>2, <1>3, <1>5 DEF SelectFromDialog, CloseAllSessions, Poll, PressHide, archiveVars,
                            dialogShownVars
  <2>2. muddled' = (muddled \/ Busy) \/ muddled' = muddled
    BY <1>5 DEF SelectFromDialog, CloseAllSessions, Poll, PressHide
  <2>3. muddled' \in BOOLEAN /\ (muddled => muddled')
    BY <1>3, <2>2, Zenon
  <2>4. LoadingEnds'
    BY <1>1, <2>1 DEF LoadingEnds
  <2>5. SavedTypes'
    BY <1>1, <1>3, <1>4, <2>1, <2>3, PageStays
  <2>6. QED
    BY <1>4, <2>3, <2>4, <2>5, SavedStays
<1>6. CASE OpenAllSessions \/ RefreshTimer
  <2>1. UNCHANGED <<dialogRows, active, archivedShown, muddled>> /\ dialogShown' \in BOOLEAN
    BY <1>3, <1>6 DEF OpenAllSessions, RefreshTimer, archiveVars
  <2>2. PICK loud \in BOOLEAN : Refresh(loud)
    BY <1>6 DEF OpenAllSessions, RefreshTimer
  <2>3. CASE dialogLoad # Idle
    <3>1. UNCHANGED <<dialogLoad, dialogLoading>>
      BY <2>2, <2>3 DEF Refresh
    <3>2. LoadingEnds'
      BY <1>1, <3>1 DEF LoadingEnds
    <3>3. SavedTypes'
      BY <1>1, <1>3, <1>4, <2>1, <3>1, PageStays
    <3>4. QED
      BY <1>4, <2>1, <3>2, <3>3, SavedStays
  <2>4. CASE dialogLoad = Idle
    <3>1. dialogLoad' = [phase |-> "sent", loud |-> loud] /\ dialogLoading' = (dialogLoading \/ loud)
      BY <2>2, <2>4 DEF Refresh
    <3>2. ~dialogLoading
      BY <1>1, <2>4 DEF LoadingEnds
    <3>3. dialogLoading' = loud /\ dialogLoading' \in BOOLEAN
      BY <2>2, <3>1, <3>2, Zenon
    <3>4. dialogLoad' # Idle /\ dialogLoad'.loud = loud /\ dialogLoad' \in {Idle} \cup DialogLoads
      BY <2>2, <3>1 DEF Idle, DialogLoads
    <3>5. LoadingEnds'
      BY <3>3, <3>4 DEF LoadingEnds
    <3>6. SavedTypes'
      BY <1>1, <1>3, <1>4, <2>1, <3>3, <3>4, PageStays
    <3>7. QED
      BY <1>4, <2>1, <3>5, <3>6, SavedStays
  <2>5. QED
    BY <2>3, <2>4
<1>7. CASE ServerListsAll
  <2>1. dialogLoad.phase = "sent" /\ dialogLoad' = [phase |-> "answered",
                                                  loud |-> dialogLoad.loud, rows |-> Running]
        /\ UNCHANGED <<dialogRows, active, archivedShown, muddled, dialogShown, dialogLoading>>
    BY <1>7 DEF ServerListsAll, archiveVars
  <2>2. dialogLoad.loud \in BOOLEAN /\ dialogLoad # Idle
    BY <1>3, <2>1 DEF Idle, DialogLoads
  <2>3. dialogLoad' # Idle /\ dialogLoad'.loud = dialogLoad.loud
        /\ dialogLoad' \in {Idle} \cup DialogLoads
    BY <1>2, <2>1, <2>2 DEF Idle, DialogLoads
  <2>4. LoadingEnds'
    BY <1>1, <2>1, <2>3 DEF LoadingEnds
  <2>5. SavedTypes'
    BY <1>1, <1>3, <1>4, <2>1, <2>3, PageStays
  <2>6. QED
    BY <1>4, <2>1, <2>4, <2>5, SavedStays
<1>8. CASE RefreshEnds
  <2>1. dialogLoad # Idle /\ dialogLoad' = Idle
        /\ dialogLoading' = (dialogLoading /\ ~dialogLoad.loud)
        /\ UNCHANGED <<active, archivedShown, muddled, dialogShown>>
        /\ \/ dialogRows' = dialogRows
           \/ dialogLoad.phase = "answered" /\ dialogRows' = dialogLoad.rows
    BY <1>8 DEF RefreshEnds, archiveVars
  <2>2. dialogLoad.phase = "answered" => dialogLoad.rows \subseteq AgentSessions
    BY <1>3 DEF Idle, DialogLoads
  <2>3. dialogRows' \subseteq AgentSessions
    BY <1>3, <2>1, <2>2
  <2>4. ~dialogLoading'
    BY <1>1, <2>1 DEF LoadingEnds
  <2>5. dialogLoading' \in BOOLEAN
    BY <2>1, Zenon
  <2>6. LoadingEnds' /\ dialogLoad' \in {Idle} \cup DialogLoads
    BY <2>1, <2>4 DEF LoadingEnds
  <2>7. SavedTypes'
    BY <1>1, <1>3, <1>4, <2>1, <2>3, <2>5, <2>6, PageStays
  <2>8. QED
    BY <1>4, <2>1, <2>6, <2>7, SavedStays
<1>9. QED
  BY <1>5, <1>6, <1>7, <1>8

\* An act when nothing is under way.
LEMMA FirstAct ==
    ASSUME ~(muddled \/ Busy)
    PROVE  /\ ~muddled /\ archivedLoad = Idle /\ archiving = Idle /\ resuming = Idle
           /\ \A n \in DOMAIN handlers : ~Open(n)
<1>1. {archivedLoad, archiving, resuming} = {Idle} /\ ~Handled
  BY DEF Busy
<1>2. QED
  BY <1>1 DEF Handled, Open

\* Phases tell requests from none.
LEMMA LoadsAre ==
    ASSUME NEW l \in Loads
    PROVE  /\ l = Idle <=> l.phase = "none"
           /\ l.phase = "answered" => l.rows \subseteq AgentSessions
BY DEF Loads, Idle

\* What an archiving in flight has.
LEMMA ArchivingIs ==
    ASSUME NEW a \in {Idle} \cup Archivings
    PROVE  /\ a = Idle <=> a.phase = "none"
           /\ a # Idle => a \in Archivings /\ a.session \in AgentSessions /\ a.visible \in BOOLEAN
BY DEF Archivings, Idle

\* What a resuming in flight has.
LEMMA ResumingIs ==
    ASSUME NEW r \in {Idle} \cup Resumings, r # Idle
    PROVE  r.session \in AgentSessions /\ r.handler \in Nat /\ r \in Resumings
BY DEF Resumings, Idle

\* The archived sessions are shown and loaded.
LEMMA ArchivedListStep ==
    ASSUME SavedKnown, PressShow \/ ServerListsArchived \/ TakeArchived \/ ArchivedLoadFails
    PROVE  SavedKnown'
<1>1. SavedTypes /\ OnceKnown /\ ListsKnown /\ LoadingEnds
  BY DEF SavedKnown
<1>2. /\ archived \subseteq AgentSessions /\ archivedRows \subseteq AgentSessions
      /\ archivedLoad \in Loads /\ muddled \in BOOLEAN /\ archivedLoaded \in BOOLEAN
      /\ archivedShown \in BOOLEAN
  BY <1>1 DEF SavedTypes, SavedTypeOK
<1>3. UNCHANGED <<running, archived, handlers, active, archiving, resuming, dialogShown,
                  dialogLoading, dialogRows, dialogLoad, crossed>>
  BY DEF PressShow, ServerListsArchived, TakeArchived, ArchivedLoadFails, storeVars,
         dialogShownVars
<1>4. OnceKnown' /\ LoadingEnds'
  BY <1>1, <1>3 DEF OnceKnown, Open, LoadingEnds
<1>5. CASE PressShow
  <2>1. muddled' = (muddled \/ Busy)
        /\ (archivedLoad' = archivedLoad
              \/ (archivedLoad' = [phase |-> "sent"] /\ ~archivedLoaded))
        /\ UNCHANGED <<archivedRows, archivedLoaded>> /\ archivedShown' = TRUE
    BY <1>5 DEF PressShow, ShowArchived
  <2>2. archivedLoad' \in Loads /\ muddled' \in BOOLEAN
    <3>1. archivedLoad' \in Loads
      BY <1>2, <2>1 DEF Loads
    <3>2. muddled' \in BOOLEAN
      BY <2>1, Zenon
    <3>3. QED
      BY <3>1, <3>2
  <2>3. SavedTypes'
    BY <1>1, <1>3, <2>1, <2>2 DEF SavedTypes, SavedTypeOK
  <2>4. ListsKnown'
    <3>1. SUFFICES ASSUME ~muddled' PROVE ListsKnown'
      BY DEF ListsKnown
    <3>2. /\ ~muddled /\ archivedLoad = Idle /\ archiving = Idle /\ resuming = Idle
          /\ \A n \in DOMAIN handlers : ~Open(n)
      BY <2>1, <3>1, FirstAct
    <3>3. archivedLoad'.phase # "answered" /\ (archivedLoad' # Idle => ~archivedLoaded)
      BY <2>1, <3>2 DEF Idle
    <3>4. QED
      BY <1>1, <1>3, <2>1, <3>2, <3>3 DEF ListsKnown, Open
  <2>5. QED
    BY <1>4, <2>3, <2>4 DEF SavedKnown
<1>6. CASE ServerListsArchived
  <2>1. archivedLoad.phase = "sent" /\ archivedLoad' = [phase |-> "answered", rows |-> archived]
        /\ UNCHANGED <<archivedRows, archivedLoaded, archivedShown, muddled>>
    BY <1>6 DEF ServerListsArchived
  <2>2. archivedLoad' \in Loads /\ archivedLoad'.rows = archived /\ archivedLoad # Idle
    BY <1>2, <2>1 DEF Loads, Idle
  <2>3. SavedTypes'
    BY <1>1, <1>3, <2>1, <2>2 DEF SavedTypes, SavedTypeOK
  <2>4. ListsKnown'
    BY <1>1, <1>3, <2>1, <2>2 DEF ListsKnown, Open
  <2>5. QED
    BY <1>4, <2>3, <2>4 DEF SavedKnown
<1>7. CASE TakeArchived
  <2>1. archivedLoad.phase = "answered" /\ archivedLoad' = Idle
        /\ archivedRows' = archivedLoad.rows /\ archivedLoaded' = TRUE
        /\ UNCHANGED <<archivedShown, muddled>>
    BY <1>7 DEF TakeArchived
  <2>2. archivedLoad # Idle /\ archivedRows' \subseteq AgentSessions /\ archivedLoad' \in Loads
        /\ archivedLoad'.phase = "none"
    BY <1>2, <2>1, LoadsAre DEF Idle, Loads
  <2>3. SavedTypes'
    BY <1>1, <1>3, <2>1, <2>2 DEF SavedTypes, SavedTypeOK
  <2>4. ListsKnown'
    BY <1>1, <1>3, <2>1, <2>2 DEF ListsKnown, Open
  <2>5. QED
    BY <1>4, <2>3, <2>4 DEF SavedKnown
<1>8. CASE ArchivedLoadFails
  <2>1. archivedLoad' = Idle /\ UNCHANGED <<archivedRows, archivedLoaded, archivedShown, muddled>>
    BY <1>8 DEF ArchivedLoadFails
  <2>2. archivedLoad' \in Loads /\ archivedLoad'.phase = "none"
    BY <2>1 DEF Idle, Loads
  <2>3. SavedTypes'
    BY <1>1, <1>3, <2>1, <2>2 DEF SavedTypes, SavedTypeOK
  <2>4. ListsKnown'
    BY <1>1, <1>3, <2>1, <2>2 DEF ListsKnown, Open
  <2>5. QED
    BY <1>4, <2>3, <2>4 DEF SavedKnown
<1>9. QED
  BY <1>5, <1>6, <1>7, <1>8

\* What a request at the server has.
LEMMA HandlersAre ==
    ASSUME handlers \in Seq(Handlers), NEW n \in DOMAIN handlers
    PROVE  /\ handlers[n].session \in AgentSessions
           /\ handlers[n].phase \in {"asked", "creating", "created", "named", "done", "failed"}
<1>1. handlers[n] \in Handlers
  OBVIOUS
<1>2. QED
  BY <1>1 DEF Handlers

\* A session is archived.
LEMMA ArchivingStep ==
    ASSUME SavedKnown,
           \/ \E s \in AgentSessions : StartArchiving(s)
           \/ ServerArchives \/ ArchiveBreaks \/ ArchiveAnswered \/ ArchiveFailed
    PROVE  SavedKnown'
<1>1. SavedTypes /\ OnceKnown /\ ListsKnown /\ LoadingEnds
  BY DEF SavedKnown
<1>2. /\ running \in [AgentSessions -> Nat] /\ archived \subseteq AgentSessions
      /\ archiving \in {Idle} \cup Archivings
      /\ archivedLoad \in Loads /\ muddled \in BOOLEAN /\ archivedLoaded \in BOOLEAN
      /\ archivedShown \in BOOLEAN /\ active \subseteq AgentSessions
      /\ handlers \in Seq(Handlers)
  BY <1>1 DEF SavedTypes, SavedTypeOK
<1>3. UNCHANGED <<handlers, archivedRows, resuming, dialogShown, dialogLoading, dialogRows,
                  dialogLoad, crossed>>
  BY DEF StartArchiving, ServerArchives, ArchiveBreaks, ArchiveAnswered, ArchiveFailed,
         storeVars, dialogShownVars, archiveVars
<1>4. LoadingEnds'
  BY <1>1, <1>3 DEF LoadingEnds
<1>5. ASSUME NEW s \in AgentSessions, StartArchiving(s) PROVE SavedKnown'
  <2>1. /\ archiving' = [phase |-> "sent", session |-> s, visible |-> archivedShown]
        /\ muddled' = (muddled \/ Busy)
        /\ UNCHANGED <<running, archived, active, archivedLoaded, archivedLoad, archivedShown>>
    BY <1>5 DEF StartArchiving, storeVars, archiveVars
  <2>2. archiving' \in {Idle} \cup Archivings /\ archiving'.phase = "sent"
    BY <1>2, <2>1 DEF Archivings
  <2>3. muddled' \in BOOLEAN
    BY <2>1, Zenon
  <2>4. SavedTypes'
    BY <1>1, <1>3, <2>1, <2>2, <2>3 DEF SavedTypes, SavedTypeOK
  <2>5. OnceKnown'
    BY <1>1, <1>3, <2>1 DEF OnceKnown, Open
  <2>6. ListsKnown'
    <3>1. SUFFICES ASSUME ~muddled' PROVE ListsKnown'
      BY DEF ListsKnown
    <3>2. /\ ~muddled /\ archivedLoad = Idle /\ archiving = Idle /\ resuming = Idle
          /\ \A n \in DOMAIN handlers : ~Open(n)
      BY <2>1, <3>1, FirstAct
    <3>3. archiving.phase # "done"
      BY <3>2 DEF Idle
    <3>4. QED
      BY <1>1, <1>3, <2>1, <2>2, <3>2, <3>3 DEF ListsKnown, Open
  <2>7. QED
    BY <1>4, <2>4, <2>5, <2>6 DEF SavedKnown
<1>6. CASE ServerArchives
  <2> DEFINE s == archiving.session
  <2>1. archiving.phase = "sent" /\ archiving # Idle /\ s \in AgentSessions
        /\ archiving \in Archivings
        /\ UNCHANGED <<active, archivedLoaded, archivedLoad, archivedShown, muddled>>
    BY <1>2, <1>6, ArchivingIs DEF ServerArchives, archiveVars, Idle
  <2>2. CASE s \in Running
    <3>1. /\ running' = [running EXCEPT ![s] = @ - 1] /\ archived' = archived \cup {s}
          /\ archiving' = [archiving EXCEPT !.phase = "done"]
      BY <1>6, <2>2 DEF ServerArchives
    <3>2. running[s] > 0
      BY <2>2 DEF Running
    <3>3. archiving' \in Archivings /\ archiving'.phase = "done" /\ archiving' # Idle
      BY <2>1, <3>1 DEF Archivings, Idle
    <3> HIDE DEF s
    <3>4. running' \in [AgentSessions -> Nat] /\ running'[s] = running[s] - 1
          /\ \A u \in AgentSessions : u # s => running'[u] = running[u]
      BY <1>2, <2>1, <3>1, <3>2
    <3>5. SavedTypes'
      BY <1>1, <1>3, <2>1, <3>1, <3>3, <3>4 DEF SavedTypes, SavedTypeOK
    <3>6. OnceKnown'
      <4>1. SUFFICES ASSUME ~crossed
                     PROVE  /\ \A u \in AgentSessions : running'[u] \in {0, 1}
                            /\ \A n \in DOMAIN handlers :
                                   handlers[n].phase \in {"creating", "created"} =>
                                       running'[handlers[n].session] = 0
        BY <1>1, <1>3 DEF OnceKnown, Open
      <4>2. running[s] = 1 /\ running'[s] = 0
        BY <1>1, <2>1, <3>2, <3>4, <4>1 DEF OnceKnown
      <4>3. \A n \in DOMAIN handlers : handlers[n].session \in AgentSessions
        BY <1>2, HandlersAre
      <4>4. QED
        BY <1>1, <2>1, <3>4, <4>1, <4>2, <4>3 DEF OnceKnown
    <3>7. ListsKnown'
      <4>1. SUFFICES ASSUME ~muddled PROVE ListsKnown'
        BY <2>1 DEF ListsKnown
      <4>2. running'[s] = 0
        BY <1>1, <2>1, <3>2, <3>4, <4>1 DEF OnceKnown, ListsKnown
      <4>3. resuming = Idle /\ archivedLoad = Idle
        BY <1>1, <2>1, <4>1 DEF ListsKnown
      <4>4. archivedLoad.phase # "answered"
        BY <4>3 DEF Idle
      <4>5. \A u \in archived' : running'[u] > 0 => u # s /\ u \in archived /\ running[u] > 0
        BY <1>2, <2>1, <3>1, <3>4, <4>2
      <4>6. QED
        BY <1>1, <1>3, <2>1, <3>1, <3>3, <4>1, <4>3, <4>4, <4>5 DEF ListsKnown, Open
    <3>8. QED
      BY <1>4, <3>5, <3>6, <3>7 DEF SavedKnown
  <2>3. CASE s \notin Running
    <3>1. archiving' = [archiving EXCEPT !.phase = "failed"] /\ UNCHANGED <<running, archived>>
      BY <1>6, <2>3 DEF ServerArchives, storeVars
    <3>2. archiving' \in Archivings /\ archiving'.phase = "failed" /\ archiving' # Idle
      BY <2>1, <3>1 DEF Archivings, Idle
    <3>3. SavedTypes' /\ OnceKnown'
      BY <1>1, <1>3, <2>1, <3>1, <3>2 DEF SavedTypes, SavedTypeOK, OnceKnown, Open
    <3>4. ListsKnown'
      BY <1>1, <1>3, <2>1, <3>1, <3>2 DEF ListsKnown, Open
    <3>5. QED
      BY <1>4, <3>3, <3>4 DEF SavedKnown
  <2>4. QED
    BY <2>2, <2>3
<1>7. CASE ArchiveBreaks
  <2>1. archiving.phase \in {"sent", "done"} /\ archiving' = [archiving EXCEPT !.phase = "failed"]
        /\ muddled' = TRUE
        /\ UNCHANGED <<running, archived, active, archivedLoaded, archivedLoad, archivedShown>>
    BY <1>7 DEF ArchiveBreaks, storeVars, archiveVars
  <2>2. archiving' \in Archivings
    BY <1>2, <2>1, ArchivingIs DEF Archivings, Idle
  <2>3. SavedTypes' /\ OnceKnown' /\ ListsKnown'
    BY <1>1, <1>3, <2>1, <2>2 DEF SavedTypes, SavedTypeOK, OnceKnown, Open, ListsKnown
  <2>4. QED
    BY <1>4, <2>3 DEF SavedKnown
<1>8. CASE ArchiveAnswered
  <2>1. /\ archiving.phase = "done" /\ archiving' = Idle /\ archivedLoaded' = FALSE
        /\ active' = active \ {archiving.session} /\ UNCHANGED <<running, archived, muddled>>
        /\ \/ UNCHANGED <<archivedShown, archivedLoad>>
           \/ ShowArchived(FALSE)
    BY <1>8 DEF ArchiveAnswered, storeVars
  <2>2. archivedShown' \in BOOLEAN /\ archivedLoad' \in {archivedLoad, [phase |-> "sent"]}
    BY <1>2, <2>1 DEF ShowArchived
  <2>3. archivedLoad' \in Loads /\ (archivedLoad'.phase = "answered" => archivedLoad' = archivedLoad)
    BY <1>2, <2>2 DEF Loads
  <2>4. archiving # Idle /\ archiving'.phase = "none"
    BY <2>1 DEF Idle
  <2>5. SavedTypes'
    BY <1>1, <1>2, <1>3, <2>1, <2>2, <2>3 DEF SavedTypes, SavedTypeOK
  <2>6. OnceKnown'
    BY <1>1, <1>3, <2>1 DEF OnceKnown, Open
  <2>7. ListsKnown'
    BY <1>1, <1>3, <2>1, <2>2, <2>3, <2>4 DEF ListsKnown, Open
  <2>8. QED
    BY <1>4, <2>5, <2>6, <2>7 DEF SavedKnown
<1>9. CASE ArchiveFailed
  <2>1. archiving.phase = "failed" /\ archiving' = Idle
        /\ UNCHANGED <<running, archived, active, muddled, archivedLoaded, archivedLoad,
                       archivedShown>>
    BY <1>9 DEF ArchiveFailed, storeVars, archiveVars
  <2>2. archiving'.phase = "none"
    BY <2>1 DEF Idle
  <2>3. SavedTypes' /\ OnceKnown'
    BY <1>1, <1>3, <2>1 DEF SavedTypes, SavedTypeOK, OnceKnown, Open
  <2>4. ListsKnown'
    BY <1>1, <1>3, <2>1, <2>2 DEF ListsKnown, Open
  <2>5. QED
    BY <1>4, <2>3, <2>4 DEF SavedKnown
<1>10. QED
  BY <1>5, <1>6, <1>7, <1>8, <1>9

\* What the handling of a request changes.
LEMMA HandleIs ==
    ASSUME handlers \in Seq(Handlers), NEW n, NEW from,
           NEW to \in {"asked", "creating", "created", "named", "done", "failed"},
           Handle(n, from, to)
    PROVE  /\ n \in DOMAIN handlers /\ handlers[n].phase = from
           /\ handlers[n].session \in AgentSessions
           /\ handlers' \in Seq(Handlers) /\ DOMAIN handlers' = DOMAIN handlers
           /\ handlers'[n].phase = to /\ handlers'[n].session = handlers[n].session
           /\ \A m \in DOMAIN handlers : m # n => handlers'[m] = handlers[m]
<1>1. n \in 1..Len(handlers) /\ n \in DOMAIN handlers /\ handlers[n].phase = from
      /\ handlers' = [handlers EXCEPT ![n].phase = to]
  BY DEF Handle
<1> DEFINE h == handlers[n]
           e == [h EXCEPT !.phase = to]
<1>2. h \in Handlers
  BY <1>1
<1>3. e \in Handlers /\ e.phase = to /\ e.session = h.session /\ h.session \in AgentSessions
  BY <1>2 DEF Handlers
<1>4. handlers' = [handlers EXCEPT ![n] = e]
  BY <1>1
<1> HIDE DEF e, h
<1>5. handlers' \in Seq(Handlers) /\ DOMAIN handlers' = DOMAIN handlers /\ handlers'[n] = e
      /\ \A m \in DOMAIN handlers : m # n => handlers'[m] = handlers[m]
  BY <1>1, <1>3, <1>4
<1>6. QED
  BY <1>1, <1>3, <1>5 DEF h

\* A request that the server goes on with.
LEMMA HandledStep ==
    ASSUME SavedKnown,
           NEW n, ServerLooks(n) \/ ServerStarts(n) \/ ServerNames(n) \/ ServerRestores(n)
    PROVE  SavedKnown'
<1>1. SavedTypes /\ OnceKnown /\ ListsKnown /\ LoadingEnds
  BY DEF SavedKnown
<1>2. /\ running \in [AgentSessions -> Nat] /\ archived \subseteq AgentSessions
      /\ handlers \in Seq(Handlers) /\ muddled \in BOOLEAN
      /\ resuming \in {Idle} \cup Resumings
  BY <1>1 DEF SavedTypes, SavedTypeOK
<1>3. UNCHANGED <<active, archivedRows, archivedShown, archivedLoaded, archivedLoad,
                  archiving, resuming, dialogShown, dialogLoading, dialogRows, dialogLoad,
                  crossed, muddled>>
  BY DEF ServerLooks, ServerStarts, ServerNames, ServerRestores, Unhandled, archiveVars,
         dialogShownVars
<1>4. LoadingEnds'
  BY <1>1, <1>3 DEF LoadingEnds
<1> DEFINE s == handlers[n].session
           p == handlers'[n].phase
\* What each of the four may do.
<1>5. /\ n \in DOMAIN handlers /\ s \in AgentSessions
      /\ handlers' \in Seq(Handlers) /\ DOMAIN handlers' = DOMAIN handlers
      /\ handlers'[n].session = s
      /\ \A m \in DOMAIN handlers : m # n => handlers'[m] = handlers[m]
      /\ \/ /\ handlers[n].phase = "asked"
            /\ p = IF running[s] = 0 THEN "creating" ELSE "done"
            /\ UNCHANGED <<running, archived>>
         \/ /\ handlers[n].phase = "creating" /\ p \in {"created", "failed"}
            /\ UNCHANGED <<running, archived>>
         \/ /\ handlers[n].phase = "created" /\ p = "named"
            /\ running' = [running EXCEPT ![s] = @ + 1] /\ UNCHANGED archived
         \/ /\ handlers[n].phase = "created" /\ p = "failed"
            /\ UNCHANGED <<running, archived>>
         \/ /\ handlers[n].phase = "named" /\ p = "done"
            /\ archived' = archived \ {s} /\ UNCHANGED running
         \/ /\ handlers[n].phase = "named" /\ p = "failed"
            /\ running' = [running EXCEPT ![s] = IF @ > 0 THEN @ - 1 ELSE 0]
            /\ UNCHANGED archived
  <2>1. CASE ServerLooks(n)
    <3> DEFINE to == IF FindsNoTerminal(handlers[n].session) THEN "creating" ELSE "done"
    <3>1. Handle(n, "asked", to) /\ UNCHANGED <<running, archived>>
      BY <2>1 DEF ServerLooks, storeVars
    <3>2. to \in {"creating", "done"}
      OBVIOUS
    <3>3. n \in DOMAIN handlers /\ s \in AgentSessions
      BY <1>2, <3>1, HandlersAre DEF Handle
    <3>4. to = IF running[s] = 0 THEN "creating" ELSE "done"
      BY <1>2, <3>3 DEF FindsNoTerminal, Running
    <3> HIDE DEF to
    <3>5. /\ handlers[n].phase = "asked"
          /\ handlers' \in Seq(Handlers) /\ DOMAIN handlers' = DOMAIN handlers
          /\ handlers'[n].phase = to /\ handlers'[n].session = handlers[n].session
          /\ \A m \in DOMAIN handlers : m # n => handlers'[m] = handlers[m]
      BY <1>2, <3>1, <3>2, HandleIs
    <3>6. QED
      BY <3>1, <3>3, <3>4, <3>5
  <2>2. CASE ServerStarts(n)
    <3>1. PICK to \in {"created", "failed"} : Handle(n, "creating", to)
      BY <2>2 DEF ServerStarts
    <3>2. UNCHANGED <<running, archived>>
      BY <2>2 DEF ServerStarts, storeVars
    <3>3. QED
      BY <1>2, <3>1, <3>2, HandleIs
  <2>3. CASE ServerNames(n)
    <3>1. UNCHANGED archived
      BY <2>3 DEF ServerNames
    <3>2. CASE Handle(n, "created", "named") /\ running' = [running EXCEPT ![s] = @ + 1]
      BY <1>2, <3>1, <3>2, HandleIs
    <3>3. CASE Handle(n, "created", "failed") /\ UNCHANGED running
      BY <1>2, <3>1, <3>3, HandleIs
    <3>4. QED
      BY <2>3, <3>2, <3>3 DEF ServerNames
  <2>4. CASE ServerRestores(n)
    <3>1. CASE Handle(n, "named", "done") /\ UNCHANGED running /\ archived' = archived \ {s}
      BY <1>2, <3>1, HandleIs
    <3>2. CASE /\ Handle(n, "named", "failed") /\ UNCHANGED archived
               /\ running' = [running EXCEPT ![s] = IF @ > 0 THEN @ - 1 ELSE 0]
      BY <1>2, <3>2, HandleIs
    <3>3. QED
      BY <2>4, <3>1, <3>2 DEF ServerRestores
  <2>5. QED
    BY <2>1, <2>2, <2>3, <2>4
<1>6. p \in {"creating", "created", "named", "done", "failed"} /\ Open(n)
      /\ \A m \in DOMAIN handlers : Open(m)' => Open(m)
  BY <1>5 DEF Open
<1>7. running[s] \in Nat
  BY <1>2, <1>5
<1>8. \A m \in DOMAIN handlers : handlers[m].session \in AgentSessions
  BY <1>2, HandlersAre
<1>9. /\ running' \in [AgentSessions -> Nat] /\ archived' \subseteq archived
      /\ \A u \in AgentSessions : u # s => running'[u] = running[u]
  <2> HIDE DEF s
  <2>1. QED
    BY <1>2, <1>5, <1>7
<1>10. SavedTypes'
  <2>1. resuming # Idle => handlers'[resuming.handler].session = resuming.session
    BY <1>1, <1>5 DEF SavedTypes
  <2>2. archived' \subseteq AgentSessions
    BY <1>2, <1>9
  <2>3. QED
    BY <1>1, <1>3, <1>5, <1>9, <2>1, <2>2 DEF SavedTypes, SavedTypeOK
<1>11. OnceKnown'
  <2>1. SUFFICES ASSUME ~crossed
                 PROVE  /\ running'[s] \in {0, 1}
                        /\ \A m \in DOMAIN handlers :
                               handlers'[m].phase \in {"creating", "created"} =>
                                   running'[handlers'[m].session] = 0
    BY <1>1, <1>3, <1>5, <1>6, <1>9 DEF OnceKnown
  <2>2. running[s] \in {0, 1}
    BY <1>1, <1>5, <2>1 DEF OnceKnown
  <2>3. \A m \in DOMAIN handlers : m # n => ~Open(m)
    BY <1>1, <1>5, <1>6, <2>1 DEF OnceKnown
  <2>4. \A m \in DOMAIN handlers : m # n => handlers'[m].phase \notin {"creating", "created"}
    BY <1>5, <2>3 DEF Open
  <2>5. handlers[n].phase \in {"creating", "created"} => running[s] = 0
    BY <1>1, <1>5, <2>1 DEF OnceKnown
  <2>6. running'[s] \in {0, 1} /\ (p \in {"creating", "created"} => running'[s] = 0)
    <3> HIDE DEF s, p
    <3>1. running' = [running EXCEPT ![s] = running[s] + 1] => running'[s] = running[s] + 1
      BY <1>2, <1>5
    <3>2. running' = [running EXCEPT ![s] = IF running[s] > 0 THEN running[s] - 1 ELSE 0]
          => running'[s] = IF running[s] > 0 THEN running[s] - 1 ELSE 0
      BY <1>2, <1>5
    <3>3. QED
      BY <1>5, <2>2, <2>5, <3>1, <3>2
  <2>7. QED
    BY <1>5, <2>4, <2>6
<1>12. ListsKnown'
  <2>1. SUFFICES ASSUME ~muddled PROVE ListsKnown'
    BY <1>3 DEF ListsKnown
  <2>2. /\ ~crossed /\ resuming # Idle /\ n = resuming.handler /\ archivedLoad = Idle
        /\ archiving = Idle /\ \A m \in DOMAIN handlers : m # n => ~Open(m)
    BY <1>1, <1>5, <1>6, <2>1 DEF ListsKnown
  <2>3. running[s] \in {0, 1} /\ archiving.phase # "done" /\ archivedLoad.phase # "answered"
    BY <1>1, <1>5, <2>2 DEF OnceKnown, Idle
  <2>4. s = resuming.session
    BY <1>1, <2>2 DEF SavedTypes
  <2>5. \A u \in archived : running[u] > 0 => u = s /\ handlers[n].phase = "named"
    BY <1>1, <2>1, <2>2 DEF ListsKnown, Open
  <2>6. archivedLoaded => archived = archivedRows
    BY <1>1, <1>6, <2>1, <2>2, <2>3 DEF ListsKnown, Open
  <2>7. p = "done" => archived' = archived \ {s}
    <3>1. CASE handlers[n].phase = "asked" /\ p = "done"
      BY <1>5, <1>7, <2>5, <3>1
    <3>2. CASE ~(handlers[n].phase = "asked" /\ p = "done")
      BY <1>5, <3>2
    <3>3. QED
      BY <3>1, <3>2
  <2>8. p # "done" => archived' = archived
    BY <1>5
  <2>9. archivedLoaded => archived' = IF p = "done" THEN archivedRows \ {s} ELSE archivedRows
    BY <2>6, <2>7, <2>8
  <2>10. \A u \in archived' : running'[u] > 0 => u = s /\ p = "named"
    <3> HIDE DEF s, p
    <3>1. running' = [running EXCEPT ![s] = IF running[s] > 0 THEN running[s] - 1 ELSE 0]
          => running'[s] = IF running[s] > 0 THEN running[s] - 1 ELSE 0
      BY <1>2, <1>5
    <3>2. ASSUME NEW u \in archived', u # s PROVE ~(running'[u] > 0)
      BY <1>2, <1>9, <2>5, <3>2
    <3>3. ASSUME s \in archived', running'[s] > 0 PROVE p = "named"
      BY <1>5, <1>9, <2>3, <2>5, <3>1, <3>3
    <3>4. QED
      BY <3>2, <3>3
  <2>11. \A m \in DOMAIN handlers' : Open(m)' => m = n
    BY <1>5, <1>6, <2>2
  <2>12. resuming.from = "sidebar" /\ (archivedLoad # Idle => ~archivedLoaded)
    BY <1>1, <2>1, <2>2 DEF ListsKnown
  <2>13. handlers'[resuming.handler].phase = p /\ n \in DOMAIN handlers'
    BY <1>5, <2>2
  <2> HIDE DEF p
  <2>14. \A u \in archived' : running'[u] > 0 =>
            \E m \in DOMAIN handlers' : handlers'[m].phase = "named" /\ handlers'[m].session = u
    BY <1>5, <2>2, <2>10, <2>13
  <2> HIDE DEF s
  <2>15. QED
    BY <1>3, <2>2, <2>3, <2>4, <2>9, <2>11, <2>12, <2>13, <2>14 DEF ListsKnown
<1>13. QED
  BY <1>4, <1>10, <1>11, <1>12 DEF SavedKnown

\* A request to resume comes in.
LEMMA AskIs ==
    ASSUME SavedTypes, NEW s \in AgentSessions, NEW from \in {"sidebar", "dialog"}, Ask(s, from)
    PROVE  /\ resuming = Idle /\ resuming' # Idle /\ resuming' \in Resumings
           /\ resuming'.session = s /\ resuming'.from = from
           /\ resuming'.handler = Len(handlers) + 1
           /\ handlers' \in Seq(Handlers)
           /\ DOMAIN handlers' = DOMAIN handlers \cup {Len(handlers) + 1}
           /\ Len(handlers) + 1 \notin DOMAIN handlers
           /\ \A m \in DOMAIN handlers : handlers'[m] = handlers[m]
           /\ handlers'[Len(handlers) + 1].session = s
           /\ handlers'[Len(handlers) + 1].phase = "asked"
           /\ crossed' = (crossed \/ Handled)
<1> DEFINE h == [session |-> s, phase |-> "asked"]
           k == Len(handlers) + 1
<1>1. /\ resuming = Idle /\ crossed' = (crossed \/ Handled)
      /\ resuming' = [phase |-> "sent", session |-> s, from |-> from, handler |-> k]
      /\ handlers' = Append(handlers, h)
  BY DEF Ask
<1>2. h \in Handlers /\ h.session = s /\ h.phase = "asked"
  BY DEF Handlers
<1>3. handlers \in Seq(Handlers) /\ k \in Nat
  BY DEF SavedTypes
<1>4. resuming' # Idle /\ resuming' \in Resumings /\ resuming'.session = s
      /\ resuming'.from = from /\ resuming'.handler = k
  BY <1>1, <1>3 DEF Resumings, Idle
<1> HIDE DEF h
<1>5. /\ handlers' \in Seq(Handlers) /\ DOMAIN handlers' = DOMAIN handlers \cup {k}
      /\ k \notin DOMAIN handlers /\ handlers'[k] = h
      /\ \A m \in DOMAIN handlers : handlers'[m] = handlers[m]
  BY <1>1, <1>2, <1>3
<1>6. QED
  BY <1>1, <1>2, <1>4, <1>5

\* A session is resumed, from the sidebar or the dialog.
LEMMA AskStep ==
    ASSUME SavedKnown, NEW s \in AgentSessions, ResumeRow(s) \/ ResumeFromDialog(s)
    PROVE  SavedKnown'
<1>1. SavedTypes /\ OnceKnown /\ ListsKnown /\ LoadingEnds
  BY DEF SavedKnown
<1>2. PICK from \in {"sidebar", "dialog"} :
          /\ Ask(s, from)
          /\ \/ from = "sidebar" /\ s \in Rows.archived /\ muddled' = (muddled \/ Busy)
             \/ muddled' = TRUE
  BY DEF ResumeRow, ResumeFromDialog
<1>3. UNCHANGED <<running, archived, active, archivedRows, archivedShown, archivedLoaded,
                  archivedLoad, archiving, dialogShown, dialogLoading, dialogRows, dialogLoad>>
  BY DEF ResumeRow, ResumeFromDialog, storeVars, archiveVars, dialogShownVars
<1> DEFINE k == Len(handlers) + 1
<1>4. /\ resuming = Idle /\ resuming' # Idle /\ resuming' \in Resumings
      /\ resuming'.session = s /\ resuming'.from = from /\ resuming'.handler = k
      /\ handlers' \in Seq(Handlers) /\ DOMAIN handlers' = DOMAIN handlers \cup {k}
      /\ k \notin DOMAIN handlers /\ \A m \in DOMAIN handlers : handlers'[m] = handlers[m]
      /\ handlers'[k].session = s /\ handlers'[k].phase = "asked"
      /\ crossed' = (crossed \/ Handled)
  BY <1>1, <1>2, AskIs
<1> HIDE DEF k
<1>5. muddled' \in BOOLEAN /\ crossed' \in BOOLEAN
  BY <1>2, <1>4, Zenon
<1>6. SavedTypes'
  BY <1>1, <1>3, <1>4, <1>5 DEF SavedTypes, SavedTypeOK
<1>7. \A m \in DOMAIN handlers : Open(m)' <=> Open(m)
  BY <1>4 DEF Open
<1>8. OnceKnown'
  <2>1. SUFFICES ASSUME ~crossed' PROVE OnceKnown'
    BY DEF OnceKnown
  <2>2. ~crossed /\ \A m \in DOMAIN handlers : ~Open(m)
    BY <1>4, <2>1 DEF Handled, Open
  <2>3. \A m \in DOMAIN handlers' : Open(m)' => m = k
    BY <1>4, <1>7, <2>2
  <2>4. \A m \in DOMAIN handlers' : handlers'[m].phase \notin {"creating", "created"}
    BY <1>4, <2>2 DEF Open
  <2>5. QED
    BY <1>1, <1>3, <2>2, <2>3, <2>4 DEF OnceKnown
<1>9. ListsKnown'
  <2>1. SUFFICES ASSUME ~muddled' PROVE ListsKnown'
    BY DEF ListsKnown
  <2>2. /\ ~(muddled \/ Busy) /\ from = "sidebar"
    BY <1>2, <2>1
  <2>3. /\ ~muddled /\ archivedLoad = Idle /\ archiving = Idle
        /\ \A m \in DOMAIN handlers : ~Open(m)
    BY <2>2, FirstAct
  <2>4. ~crossed /\ ~crossed'
    BY <1>1, <1>4, <2>3 DEF ListsKnown, Handled, Open
  <2>5. \A m \in DOMAIN handlers' : Open(m)' => m = k
    BY <1>4, <1>7, <2>3
  <2>6. \A u \in archived : ~(running[u] > 0)
    BY <1>1, <2>3 DEF ListsKnown, Open
  <2>7. archivedLoaded => archived = archivedRows
    BY <1>1, <1>4, <2>3 DEF ListsKnown, Idle
  <2>8. archivedLoad.phase # "answered"
    BY <2>3 DEF Idle
  <2>9. QED
    BY <1>3, <1>4, <2>2, <2>3, <2>4, <2>5, <2>6, <2>7, <2>8 DEF ListsKnown
<1>10. LoadingEnds'
  BY <1>1, <1>3 DEF LoadingEnds
<1>11. QED
  BY <1>6, <1>8, <1>9, <1>10 DEF SavedKnown

\* A resuming is answered or fails.
LEMMA ResumeEndsStep ==
    ASSUME SavedKnown, ResumeAnswered \/ ResumeFailed PROVE SavedKnown'
<1>1. SavedTypes /\ OnceKnown /\ ListsKnown /\ LoadingEnds
  BY DEF SavedKnown
<1>2. /\ resuming # Idle /\ resuming' = Idle /\ resuming.session \in AgentSessions
      /\ UNCHANGED <<running, archived, handlers, archivedShown, archivedLoaded,
                     archivedLoad, archiving, dialogLoading, dialogRows, dialogLoad, crossed>>
  BY <1>1, ResumingIs DEF ResumeAnswered, ResumeFailed, storeVars, archiveVars,
                          dialogShownVars, SavedTypes
<1>3. \/ /\ handlers[resuming.handler].phase = "done" /\ muddled' = muddled
         /\ resuming.from = "sidebar" => archivedRows' = archivedRows \ {resuming.session}
      \/ /\ handlers[resuming.handler].phase = "failed" /\ muddled' = muddled
         /\ archivedRows' = archivedRows
      \/ muddled' = TRUE
  BY DEF ResumeAnswered, ResumeFailed, archiveVars
<1>4. /\ archivedRows' \subseteq AgentSessions /\ active' \subseteq AgentSessions
      /\ dialogShown' \in BOOLEAN /\ muddled' \in BOOLEAN
  BY <1>1, <1>2 DEF ResumeAnswered, ResumeFailed, archiveVars, dialogShownVars, SavedTypes,
                    SavedTypeOK
<1>5. SavedTypes'
  BY <1>1, <1>2, <1>4 DEF SavedTypes, SavedTypeOK
<1>6. OnceKnown' /\ LoadingEnds'
  BY <1>1, <1>2 DEF OnceKnown, Open, LoadingEnds
<1>7. ListsKnown'
  <2>1. SUFFICES ASSUME ~muddled' PROVE ListsKnown'
    BY DEF ListsKnown
  <2>2. ~muddled /\ handlers[resuming.handler].phase \in {"done", "failed"}
    BY <1>3, <2>1
  <2>3. archiving = Idle /\ archivedLoad = Idle /\ resuming.from = "sidebar"
    BY <1>1, <1>2, <2>2 DEF ListsKnown
  <2>4. archiving.phase # "done" /\ archivedLoad.phase # "answered"
    BY <2>3 DEF Idle
  <2>5. archivedLoaded => archived = archivedRows'
    BY <1>1, <1>2, <1>3, <2>1, <2>2, <2>3, <2>4 DEF ListsKnown
  <2>6. \A m \in DOMAIN handlers : ~Open(m)
    BY <1>1, <2>2 DEF ListsKnown, Open
  <2>7. QED
    BY <1>1, <1>2, <2>2, <2>3, <2>4, <2>5, <2>6 DEF ListsKnown, Open
<1>8. QED
  BY <1>5, <1>6, <1>7 DEF SavedKnown

\* Another client archives or restores a session.
LEMMA OtherClientStep ==
    ASSUME SavedKnown, NEW s \in AgentSessions, OtherClient(s) PROVE SavedKnown'
<1>1. SavedTypes /\ OnceKnown /\ LoadingEnds /\ muddled' = TRUE
      /\ UNCHANGED <<handlers, active, archivedRows, archivedShown, archivedLoaded,
                     archivedLoad, archiving, resuming, dialogShown, dialogLoading,
                     dialogRows, dialogLoad, crossed>>
  BY DEF SavedKnown, OtherClient, archiveVars, dialogShownVars
<1>2. running \in [AgentSessions -> Nat] /\ archived \subseteq AgentSessions
      /\ handlers \in Seq(Handlers)
  BY <1>1 DEF SavedTypes, SavedTypeOK
<1>3. \A m \in DOMAIN handlers : handlers[m].session \in AgentSessions
  BY <1>2, HandlersAre
<1>4. ListsKnown' /\ LoadingEnds'
  BY <1>1 DEF ListsKnown, LoadingEnds
<1>5. CASE /\ s \in Running /\ running' = [running EXCEPT ![s] = @ - 1]
           /\ archived' = archived \cup {s}
  <2>1. running[s] > 0
    BY <1>5 DEF Running
  <2>2. running' \in [AgentSessions -> Nat] /\ running'[s] = running[s] - 1
        /\ \A u \in AgentSessions : u # s => running'[u] = running[u]
    BY <1>2, <1>5, <2>1
  <2>3. SavedTypes'
    BY <1>1, <1>5, <2>2 DEF SavedTypes, SavedTypeOK
  <2>4. OnceKnown'
    <3>1. SUFFICES ASSUME ~crossed
                   PROVE  /\ \A u \in AgentSessions : running'[u] \in {0, 1}
                          /\ \A n \in DOMAIN handlers :
                                 handlers[n].phase \in {"creating", "created"} =>
                                     running'[handlers[n].session] = 0
      BY <1>1 DEF OnceKnown, Open
    <3>2. running[s] = 1 /\ running'[s] = 0
      BY <1>1, <2>1, <2>2, <3>1 DEF OnceKnown
    <3>3. QED
      BY <1>1, <1>3, <2>2, <3>1, <3>2 DEF OnceKnown
  <2>5. QED
    BY <1>4, <2>3, <2>4 DEF SavedKnown
<1>6. CASE /\ ~Handled /\ archived' = archived \ {s} /\ running' = [running EXCEPT ![s] = 1]
  <2>1. running' \in [AgentSessions -> Nat] /\ running'[s] = 1
        /\ \A u \in AgentSessions : u # s => running'[u] = running[u]
    BY <1>2, <1>6
  <2>2. SavedTypes'
    BY <1>1, <1>2, <1>6, <2>1 DEF SavedTypes, SavedTypeOK
  <2>3. \A m \in DOMAIN handlers : ~Open(m) /\ handlers[m].phase \notin {"creating", "created"}
    BY <1>6 DEF Handled, Open
  <2>4. OnceKnown'
    BY <1>1, <2>1, <2>3 DEF OnceKnown, Open
  <2>5. QED
    BY <1>4, <2>2, <2>4 DEF SavedKnown
<1>7. QED
  BY <1>5, <1>6 DEF OtherClient

\* No step breaks what is known of the sessions.
LEMMA SavedStep == SavedKnown /\ [SavedNext]_savedVars => SavedKnown'
<1> SUFFICES ASSUME SavedKnown, [SavedNext]_savedVars PROVE SavedKnown'
  OBVIOUS
<1>1. CASE UNCHANGED savedVars
  BY <1>1 DEF savedVars, storeVars, archiveVars, dialogShownVars, SavedKnown, SavedTypes,
              SavedTypeOK, OnceKnown, ListsKnown, LoadingEnds, Open
<1>2. CASE \E n \in 1..MaxResumes :
               ServerLooks(n) \/ ServerStarts(n) \/ ServerNames(n) \/ ServerRestores(n)
  BY <1>2, HandledStep
<1>3. CASE \E s \in AgentSessions :
               \/ StartArchiving(s) \/ ResumeRow(s) \/ ResumeFromDialog(s)
               \/ SelectFromDialog(s) \/ OtherClient(s)
  BY <1>3, ArchivingStep, AskStep, DialogStep, OtherClientStep
<1>4. QED
  BY <1>1, <1>2, <1>3, DialogStep, ArchivedListStep, ArchivingStep, ResumeEndsStep DEF SavedNext

\* What the lists show when nothing is under way, and how often a session runs.
LEMMA SavedHolds == SavedKnown => SavedInv
<1> SUFFICES ASSUME SavedKnown PROVE SavedInv
  OBVIOUS
<1>1. SavedTypeOK /\ LoadingEnds
  BY DEF SavedKnown, SavedTypes
<1>2. RunsOnce
  BY DEF SavedKnown, OnceKnown, RunsOnce
<1>3. ArchiveShown
  <2>1. SUFFICES ASSUME ~muddled, ~Busy, archivedLoaded PROVE archivedRows = archived
    BY DEF ArchiveShown
  <2>2. archiving = Idle /\ resuming = Idle
    BY <2>1, FirstAct
  <2>3. archiving.phase # "done"
    BY <2>2 DEF Idle
  <2>4. QED
    BY <2>1, <2>2, <2>3 DEF SavedKnown, ListsKnown
<1>4. QED
  BY <1>1, <1>2, <1>3 DEF SavedInv

-----------------------------------------------------------------------------
(* What opens over the page. *)

Batches == [phase : {"sent", "done", "failed"}, rest : Seq(Shells)]
Renamings == [phase : {"sent", "done", "failed"}, of : Shells, name : Nat]

PageKnown ==
    /\ alive \subseteq onPage /\ onPage \subseteq Shells /\ ticked \subseteq Shells
    /\ nameAt \in [Shells -> Nat] /\ nameShown \in [Shells -> Nat]
PaletteKnown ==
    /\ recent \in Seq(Values) /\ RecentsRunnable
    /\ search \subseteq Values /\ highlighted \in Values \cup {None}
DeleteKnown ==
    /\ pendingDelete \in Seq(Shells) /\ confirmed \subseteq Shells
    /\ batch # NoRequest => /\ batch \in Batches /\ batch.rest # <<>>
                            /\ ToSet(batch.rest) \subseteq confirmed
                            /\ batch.phase = "done" => Head(batch.rest) \notin alive
\* The names agree but for one that the server has and its answer brings.
RenameKnown ==
    /\ pendingRename \in Shells \cup {None} /\ renameDraft \in Nat
    /\ renameRequest # NoRequest =>
           /\ renameRequest \in Renamings
           /\ renameRequest.phase = "done" => nameAt[renameRequest.of] = renameRequest.name
    /\ ~astray => \A t \in Shells :
           \/ nameShown[t] = nameAt[t]
           \/ renameRequest.phase = "done" /\ renameRequest.of = t
CardKnown ==
    /\ attended \in Shells \cup {None}
    /\ {cardTimer, cardOf} \subseteq {None, attended}

\* The inductive invariant of what opens over the page.
OverlayKnown == PageKnown /\ PaletteKnown /\ DeleteKnown /\ RenameKnown /\ CardKnown

\* The order of the palette has values only.
LEMMA PaletteOrderIs == PaletteOrder \in Seq(Values)
<1> DEFINE a == <<"delete-selected", "rename", "alerts">>
           b == SetToSeq(ShellStatuses)
           c == SetToSeq(Shells)
           f == [t \in Shells |-> StatusOf[t]]
<1>1. IsFiniteSet(ShellStatuses)
  <2>1. f \in Surjection(Shells, ShellStatuses)
    BY DEF Surjection, ShellStatuses
  <2>2. QED
    BY <2>1, FS_Surjection, OverlayAssumption
<1>2. a \in Seq(Values)
  BY DEF Values, Standing
<1>3. b \in Seq(Values) /\ c \in Seq(Values)
  <2>1. b \in Seq(ShellStatuses) /\ c \in Seq(Shells)
    BY <1>1, SetInSeq, OverlayAssumption
  <2> HIDE DEF b, c
  <2>2. QED
    BY <2>1 DEF Values
<1> HIDE DEF a, b, c
<1>4. (a \o b) \o c \in Seq(Values)
  BY <1>2, <1>3
<1>5. QED
  BY <1>4 DEF PaletteOrder, a, b, c

\* What is available are values.
LEMMA AvailableIn ==
    ASSUME NEW page \in SUBSET Shells, NEW sel PROVE Available(page, sel) \subseteq Values
BY DEF Available, Values, Standing, ShellStatuses

\* What the palette offers is available.
LEMMA OfferedIs ==
    ASSUME PageKnown, PaletteKnown, NEW query
    PROVE  /\ OfferedFor(query) \in Seq(Values)
           /\ ToSet(OfferedFor(query)) \subseteq Available(onPage, ticked)
<1> DEFINE matching == Available(onPage, ticked) \cap query
           one == IF query = Values THEN Keep(recent, matching) ELSE <<>>
           other == Keep(PaletteOrder, matching \ ToSet(one))
<1>1. one \in Seq(Values) /\ ToSet(one) \subseteq matching
  <2>1. Keep(recent, matching) \in Seq(Values) /\ ToSet(Keep(recent, matching)) = ToSet(recent) \cap matching
    BY KeepFacts DEF PaletteKnown
  <2>2. <<>> \in Seq(Values)
    OBVIOUS
  <2>3. ToSet(<<>>) = {}
    BY <2>2, ItemsAre
  <2>4. CASE query = Values
    BY <2>1, <2>4
  <2>5. CASE query # Values
    BY <2>2, <2>3, <2>5
  <2>6. QED
    BY <2>4, <2>5
<1>2. OfferedFor(query) = one \o other
  BY DEF OfferedFor
<1> HIDE DEF one
<1>3. other \in Seq(Values) /\ ToSet(other) \subseteq matching
  BY PaletteOrderIs, KeepFacts
<1> HIDE DEF other
<1>4. one \o other \in Seq(Values) /\ ToSet(one \o other) = ToSet(one) \cup ToSet(other)
  BY <1>1, <1>3, JoinedRows
<1>5. QED
  BY <1>1, <1>2, <1>3, <1>4

\* The first of a row is one of it, if there is one.
LEMMA TopIs == ASSUME NEW T, NEW r \in Seq(T) PROVE TopOf(r) \in T \cup {None}
<1>1. r # <<>> => Head(r) \in T
  OBVIOUS
<1>2. QED
  BY <1>1 DEF TopOf

\* A recent action that can still be run stays.
LEMMA RecentStays ==
    ASSUME PaletteKnown, NEW page \in SUBSET Shells, NEW sel
    PROVE  LET r == Keep(recent, Available(page, sel))
           IN  /\ r \in Seq(Values) /\ IsInjective(r) /\ Len(r) <= RecentLimit
               /\ ToSet(r) \subseteq Available(page, sel)
<1> DEFINE r == Keep(recent, Available(page, sel))
<1>1. recent \in Seq(Values) /\ IsInjective(recent) /\ Len(recent) <= RecentLimit
  BY DEF PaletteKnown, RecentsRunnable
<1>2. r \in Seq(Values) /\ IsInjective(r) /\ ToSet(r) \subseteq Available(page, sel)
      /\ Len(r) <= Len(recent) /\ Len(r) \in Nat
  BY <1>1, KeepFacts, KeepOnce, KeepShort
<1>3. Len(recent) \in Nat /\ RecentLimit \in Nat
  BY <1>1, OverlayAssumption
<1> HIDE DEF r
<1>4. Len(r) <= RecentLimit
  BY <1>1, <1>2, <1>3
<1>5. QED
  BY <1>2, <1>4 DEF r

\* The recent values are distinct and few.
LEMMA RememberedIs ==
    ASSUME PaletteKnown, NEW v \in Values
    PROVE  /\ Remembered(v) \in Seq(Values) /\ IsInjective(Remembered(v))
           /\ Len(Remembered(v)) <= RecentLimit
           /\ ToSet(Remembered(v)) \subseteq ToSet(recent) \cup {v}
<1> DEFINE a == <<v>>
           b == Drop(recent, {v})
           r == a \o b
           k == IF Len(r) < RecentLimit THEN Len(r) ELSE RecentLimit
           pre == SubSeq(r, 1, k)
           suf == SubSeq(r, k + 1, Len(r))
<1>1. recent \in Seq(Values) /\ IsInjective(recent)
  BY DEF PaletteKnown, RecentsRunnable
<1>2. b \in Seq(Values) /\ IsInjective(b) /\ ToSet(b) = ToSet(recent) \ {v}
  BY <1>1, DropFacts, DropOnce
<1>3. a \in Seq(Values) /\ IsInjective(a) /\ ToSet(a) = {v}
  BY DEF IsInjective, ToSet
<1>4. Remembered(v) = pre
  BY DEF Remembered
<1> HIDE DEF a, b
<1>5. r \in Seq(Values) /\ IsInjective(r) /\ ToSet(r) = ToSet(a) \cup ToSet(b)
  BY <1>2, <1>3, JoinedRows, OnceConcat
<1> HIDE DEF r
<1>6. Len(r) \in Nat /\ RecentLimit \in Nat
  BY <1>5, OverlayAssumption
<1>7. k \in 0..Len(r) /\ k <= RecentLimit
  BY <1>6
<1> HIDE DEF k
<1>8. pre \in Seq(Values) /\ suf \in Seq(Values) /\ Len(pre) = k /\ r = pre \o suf
  BY <1>5, <1>7, SplitRow
<1> HIDE DEF pre, suf
<1>9. IsInjective(pre \o suf) /\ ToSet(pre \o suf) = ToSet(pre) \cup ToSet(suf)
  BY <1>5, <1>8, JoinedRows
<1>10. IsInjective(pre)
  BY <1>8, <1>9, OnceConcat
<1>11. ToSet(pre) \subseteq ToSet(recent) \cup {v}
  BY <1>2, <1>3, <1>5, <1>8, <1>9
<1>12. Len(pre) <= RecentLimit
  BY <1>7, <1>8
<1>13. QED
  BY <1>4, <1>8, <1>10, <1>11, <1>12

\* At first nothing is open.
LEMMA OverlayStart == OverlayInit => OverlayKnown
<1> SUFFICES ASSUME OverlayInit PROVE OverlayKnown
  OBVIOUS
<1>1. PageKnown
  BY DEF OverlayInit, PageKnown
<1>2. recent = <<>> /\ Len(recent) = 0 /\ DOMAIN recent = {} /\ recent \in Seq(Values)
      /\ pendingDelete \in Seq(Shells)
  BY DEF OverlayInit
<1>3. ToSet(recent) = {} /\ IsInjective(recent)
  BY <1>2, ItemsAre DEF IsInjective
<1>4. PaletteKnown
  BY <1>2, <1>3, OverlayAssumption DEF OverlayInit, PaletteKnown, RecentsRunnable
<1>5. DeleteKnown /\ RenameKnown /\ CardKnown
  BY <1>1, <1>2 DEF OverlayInit, DeleteKnown, RenameKnown, CardKnown, PageKnown
<1>6. QED
  BY <1>1, <1>4, <1>5 DEF OverlayKnown

\* A render of other terminals, or of another selection.
LEMMA PageHasStep ==
    ASSUME PageKnown, PaletteKnown, NEW page \in SUBSET Shells, NEW sel \in SUBSET Shells,
           PageHas(page, sel)
    PROVE  PaletteKnown' /\ onPage' \subseteq Shells /\ ticked' \subseteq Shells /\ onPage' = page
<1> DEFINE r == Keep(recent, Available(page, sel \cap page))
<1>1. /\ onPage' = page /\ ticked' = sel \cap page /\ recent' = r
      /\ UNCHANGED <<search, highlighted>>
  BY DEF PageHas, RecentLeft
<1>2. /\ r \in Seq(Values) /\ IsInjective(r) /\ Len(r) <= RecentLimit
      /\ ToSet(r) \subseteq Available(page, sel \cap page)
  BY RecentStays
<1> HIDE DEF r
<1>3. RecentsRunnable'
  BY <1>1, <1>2 DEF RecentsRunnable, Available
<1>4. QED
  BY <1>1, <1>2, <1>3 DEF PaletteKnown

\* Recent values can be run while the page has the same terminals.
LEMMA RecentsStay ==
    ASSUME PaletteKnown, UNCHANGED <<recent, onPage, ticked>>
    PROVE  RecentsRunnable' /\ recent' \in Seq(Values)
BY DEF PaletteKnown, RecentsRunnable, Available

\* The palette is opened, closed and searched.
LEMMA PaletteStep ==
    ASSUME OverlayKnown,
           \/ OpenCommands \/ CloseCommands \/ MoveHighlight(1) \/ MoveHighlight(-1)
           \/ \E query \in Searches : Search(query)
    PROVE  OverlayKnown'
<1>1. PageKnown /\ PaletteKnown /\ DeleteKnown /\ RenameKnown /\ CardKnown
  BY DEF OverlayKnown
<1>2. UNCHANGED <<terminalVars, recent, deleteVars, renameVars, cardVars, astray>>
  BY DEF OpenCommands, CloseCommands, MoveHighlight, Search
<1>3. PageKnown' /\ DeleteKnown' /\ RenameKnown' /\ CardKnown'
  BY <1>1, <1>2 DEF terminalVars, deleteVars, renameVars, cardVars, PageKnown, DeleteKnown,
                    RenameKnown, CardKnown
<1>4. RecentsRunnable' /\ recent' \in Seq(Values)
  BY <1>1, <1>2, RecentsStay DEF terminalVars
<1>5. CASE OpenCommands
  <2>1. search' = Values /\ highlighted' = TopOf(Keep(recent, Available(onPage, ticked)))
    BY <1>5 DEF OpenCommands
  <2>2. Keep(recent, Available(onPage, ticked)) \in Seq(Values)
    BY <1>1, KeepFacts DEF PaletteKnown
  <2>3. highlighted' \in Values \cup {None}
    BY <2>1, <2>2, TopIs
  <2>4. QED
    BY <1>3, <1>4, <2>1, <2>3 DEF OverlayKnown, PaletteKnown
<1>6. CASE CloseCommands
  BY <1>1, <1>3, <1>4, <1>6 DEF CloseCommands, OverlayKnown, PaletteKnown
<1>7. ASSUME NEW query \in Searches, Search(query) PROVE OverlayKnown'
  <2>1. search' = query /\ highlighted' = TopOf(OfferedFor(query))
    BY <1>7 DEF Search
  <2>2. OfferedFor(query) \in Seq(Values) /\ query \subseteq Values
    BY <1>1, OfferedIs, OverlayAssumption
  <2>3. highlighted' \in Values \cup {None}
    BY <2>1, <2>2, TopIs
  <2>4. QED
    BY <1>3, <1>4, <2>1, <2>2, <2>3 DEF OverlayKnown, PaletteKnown
<1>8. ASSUME NEW o \in {1, -1}, MoveHighlight(o) PROVE OverlayKnown'
  <2> DEFINE n == Len(Offered)
             at == {i \in 1..n : Offered[i] = highlighted}
             c == CHOOSE i \in at : TRUE
             next == IF at = {} THEN IF o = 1 THEN 1 ELSE n
                     ELSE 1 + ((c - 1 + o + n) % n)
  <2>1. Offered \in Seq(Values) /\ Offered # <<>>
    BY <1>1, <1>8, OfferedIs DEF Offered, MoveHighlight
  <2>2. highlighted' = Offered[next] /\ search' = search
    BY <1>8 DEF MoveHighlight
  <2>3. n \in Nat /\ n > 0
    BY <2>1
  <2>4. at # {} => c \in 1..n
    OBVIOUS
  <2> HIDE DEF n, c, at
  <2>5. next \in 1..n
    <3>1. CASE at = {}
      BY <2>3, <3>1
    <3>2. CASE at # {}
      <4> DEFINE x == c - 1 + o + n
      <4>1. x \in Nat
        BY <1>8, <2>3, <2>4, <3>2
      <4> HIDE DEF x
      <4>2. x % n \in 0..(n - 1)
        BY <2>3, <4>1
      <4>3. 1 + (x % n) \in 1..n
        BY <2>3, <4>2
      <4>4. QED
        BY <3>2, <4>3 DEF x
    <3>3. QED
      BY <3>1, <3>2
  <2> HIDE DEF next
  <2>6. highlighted' \in Values
    BY <2>1, <2>2, <2>5 DEF n
  <2>7. QED
    BY <1>1, <1>3, <1>4, <2>2, <2>6 DEF OverlayKnown, PaletteKnown
<1>9. QED
  BY <1>5, <1>6, <1>7, <1>8

\* A value is run and remembered.
LEMMA RunStep == ASSUME OverlayKnown, NEW v \in Values, Run(v) PROVE OverlayKnown'
<1>1. PageKnown /\ PaletteKnown /\ DeleteKnown /\ RenameKnown /\ CardKnown
  BY DEF OverlayKnown
<1>2. /\ UNCHANGED <<alive, nameAt, onPage, nameShown, search, highlighted, batch, confirmed,
                     renameRequest, cardVars, astray>>
      /\ recent' = Remembered(v)
      /\ ticked' = IF v \in Shells THEN {v}
                   ELSE IF v \in ShellStatuses THEN {t \in onPage : StatusOf[t] = v}
                   ELSE ticked
  BY DEF Run
<1>3. v \in Available(onPage, ticked)
  BY <1>1, OfferedIs DEF Run, Offered
<1>4. ticked' \subseteq Shells /\ Available(onPage, ticked) \subseteq Available(onPage, ticked')
  <2>1. CASE v \in Shells
    <3>1. v \in onPage
      <4>1. v \notin Standing /\ v \notin ShellStatuses
        BY <2>1, OverlayAssumption
      <4>2. v \notin {StatusOf[t] : t \in onPage}
        BY <1>1, <4>1 DEF ShellStatuses, PageKnown
      <4>3. QED
        BY <1>3, <4>1, <4>2 DEF Available, Standing
    <3>2. ticked' = {v}
      BY <1>2, <2>1
    <3>3. QED
      BY <2>1, <3>1, <3>2 DEF Available
  <2>2. CASE v \notin Shells /\ v \in ShellStatuses
    <3>1. ticked' = {t \in onPage : StatusOf[t] = v}
      BY <1>2, <2>2
    <3>2. v \notin Standing /\ v \notin onPage
      BY <1>1, <2>2, OverlayAssumption DEF PageKnown
    <3>3. v \in {StatusOf[t] : t \in onPage}
      BY <1>3, <3>2 DEF Available, Standing
    <3>4. ticked' \cap onPage # {}
      BY <3>1, <3>3
    <3>5. QED
      BY <1>1, <3>1, <3>4 DEF Available, PageKnown
  <2>3. CASE v \notin Shells /\ v \notin ShellStatuses
    BY <1>1, <1>2, <2>3 DEF PageKnown
  <2>4. QED
    BY <2>1, <2>2, <2>3
<1>5. PaletteKnown'
  <2>1. /\ recent' \in Seq(Values) /\ IsInjective(recent') /\ Len(recent') <= RecentLimit
        /\ ToSet(recent') \subseteq ToSet(recent) \cup {v}
    BY <1>1, <1>2, RememberedIs
  <2>2. ToSet(recent) \subseteq Available(onPage, ticked)
    BY <1>1 DEF PaletteKnown, RecentsRunnable
  <2>3. ToSet(recent') \subseteq Available(onPage', ticked')
    BY <1>2, <1>3, <1>4, <2>1, <2>2
  <2>4. QED
    BY <1>1, <1>2, <2>1, <2>3 DEF PaletteKnown, RecentsRunnable, Available
<1>6. PageKnown' /\ CardKnown'
  BY <1>1, <1>2, <1>4 DEF PageKnown, CardKnown, cardVars
<1>7. DeleteKnown'
  <2> DEFINE k == Keep(PaletteOrder, ticked)
  <2>1. k \in Seq(Values) /\ ToSet(k) \subseteq ticked
    BY PaletteOrderIs, KeepFacts
  <2>2. pendingDelete' = k \/ pendingDelete' = pendingDelete
    BY DEF Run
  <2> HIDE DEF k
  <2>3. k \in Seq(Shells)
    BY <1>1, <2>1, SeqWithin DEF PageKnown
  <2>4. pendingDelete' \in Seq(Shells)
    BY <1>1, <2>2, <2>3 DEF DeleteKnown
  <2>5. QED
    BY <1>1, <1>2, <2>4 DEF DeleteKnown
<1>8. RenameKnown'
  <2>1. pendingRename' \in Shells \cup {None} /\ renameDraft' \in Nat
    <3>1. CASE v = "rename"
      <4>1. PICK t \in ticked : pendingRename' = t /\ renameDraft' = nameShown[t]
        BY <3>1 DEF Run
      <4>2. QED
        BY <1>1, <4>1 DEF PageKnown
    <3>2. CASE v # "rename"
      BY <1>1, <3>2 DEF Run, RenameKnown
    <3>3. QED
      BY <3>1, <3>2
  <2>2. QED
    BY <1>1, <1>2, <2>1 DEF RenameKnown
<1>9. QED
  BY <1>5, <1>6, <1>7, <1>8 DEF OverlayKnown

\* What the page learns of its terminals.
LEMMA PageStep ==
    ASSUME OverlayKnown, PollPage \/ \E t \in Shells : Tick(t) \/ GoneElsewhere(t)
    PROVE  OverlayKnown'
<1>1. PageKnown /\ PaletteKnown /\ DeleteKnown /\ RenameKnown /\ CardKnown
      /\ onPage \in SUBSET Shells /\ ticked \in SUBSET Shells /\ alive \in SUBSET Shells
  BY DEF OverlayKnown, PageKnown
<1>2. UNCHANGED <<nameAt, deleteVars, renameVars, cardVars, astray>> /\ alive' \subseteq alive
  BY DEF PollPage, Tick, GoneElsewhere
<1>3. DeleteKnown' /\ CardKnown'
  BY <1>1, <1>2 DEF DeleteKnown, CardKnown, deleteVars, cardVars
<1>4. nameShown' \in [Shells -> Nat] /\ RenameKnown'
  BY <1>1, <1>2 DEF PollPage, Tick, GoneElsewhere, RenameKnown, PageKnown, renameVars
<1>5. CASE PollPage
  <2>1. PageHas(alive, ticked) /\ alive' = alive
    BY <1>5 DEF PollPage
  <2>2. PaletteKnown' /\ onPage' \subseteq Shells /\ ticked' \subseteq Shells /\ onPage' = alive
    BY <1>1, <2>1, PageHasStep
  <2>3. QED
    BY <1>1, <1>2, <1>3, <1>4, <2>1, <2>2 DEF OverlayKnown, PageKnown
<1>6. ASSUME NEW t \in Shells, Tick(t) PROVE OverlayKnown'
  <2> DEFINE sel == IF t \in ticked THEN ticked \ {t} ELSE ticked \cup {t}
  <2>1. PageHas(onPage, sel) /\ alive' = alive
    BY <1>6 DEF Tick
  <2>2. sel \in SUBSET Shells
    BY <1>1
  <2> HIDE DEF sel
  <2>3. PaletteKnown' /\ onPage' \subseteq Shells /\ ticked' \subseteq Shells /\ onPage' = onPage
    BY <1>1, <2>1, <2>2, PageHasStep
  <2>4. QED
    BY <1>1, <1>2, <1>3, <1>4, <2>1, <2>3 DEF OverlayKnown, PageKnown
<1>7. ASSUME NEW t \in Shells, GoneElsewhere(t) PROVE OverlayKnown'
  <2>1. UNCHANGED <<onPage, ticked, paletteVars>>
    BY <1>7 DEF GoneElsewhere
  <2>2. PaletteKnown'
    BY <1>1, <2>1, RecentsStay DEF PaletteKnown, paletteVars
  <2>3. QED
    BY <1>1, <1>2, <1>3, <1>4, <2>1, <2>2 DEF OverlayKnown, PageKnown
<1>8. QED
  BY <1>5, <1>6, <1>7

\* What a batch of deletions in flight has.
LEMMA BatchIs ==
    ASSUME DeleteKnown, batch.phase \in {"sent", "done", "failed"}
    PROVE  /\ batch # NoRequest /\ batch \in Batches /\ batch.rest \in Seq(Shells)
           /\ batch.rest # <<>> /\ ToSet(batch.rest) \subseteq confirmed
           /\ Head(batch.rest) \in Shells
           /\ batch.phase = "done" => Head(batch.rest) \notin alive
<1>1. batch # NoRequest
  BY DEF NoRequest
<1>2. batch \in Batches /\ batch.rest \in Seq(Shells) /\ batch.rest # <<>>
  BY <1>1 DEF DeleteKnown, Batches
<1>3. Head(batch.rest) \in Shells
  BY <1>2
<1>4. QED
  BY <1>1, <1>2, <1>3 DEF DeleteKnown

\* Terminals are deleted, one after the other.
LEMMA DeleteStep ==
    ASSUME OverlayKnown,
           \/ CancelDelete \/ ConfirmDelete \/ ServerDeletes \/ DeleteAnswered \/ DeleteFailed
           \/ \E t \in Shells : AskToDelete(t)
    PROVE  OverlayKnown'
<1>1. PageKnown /\ PaletteKnown /\ DeleteKnown /\ RenameKnown /\ CardKnown
      /\ onPage \in SUBSET Shells /\ ticked \in SUBSET Shells /\ alive \in SUBSET Shells
  BY DEF OverlayKnown, PageKnown
<1>2. UNCHANGED <<nameAt, nameShown, renameVars, cardVars, astray>> /\ alive' \subseteq alive
  BY DEF CancelDelete, ConfirmDelete, ServerDeletes, DeleteAnswered, DeleteFailed, AskToDelete,
         terminalVars
<1>3. RenameKnown' /\ CardKnown'
  BY <1>1, <1>2 DEF RenameKnown, CardKnown, renameVars, cardVars
<1>4. ASSUME UNCHANGED <<onPage, ticked, paletteVars>> PROVE PaletteKnown' /\ PageKnown'
  BY <1>1, <1>2, <1>4, RecentsStay DEF PaletteKnown, paletteVars, PageKnown
<1>5. CASE CancelDelete \/ DeleteFailed \/ \E t \in Shells : AskToDelete(t)
  <2>1. UNCHANGED <<onPage, ticked, paletteVars, alive>>
    BY <1>5 DEF CancelDelete, DeleteFailed, AskToDelete, terminalVars
  <2>2. pendingDelete' \in Seq(Shells) /\ confirmed' = confirmed /\ batch' \in {batch, NoRequest}
    <3>1. pendingDelete \in Seq(Shells)
      BY <1>1 DEF DeleteKnown
    <3>2. CASE CancelDelete \/ DeleteFailed
      <4>1. <<>> \in Seq(Shells)
        OBVIOUS
      <4>2. CancelDelete => pendingDelete' = <<>> /\ confirmed' = confirmed /\ batch' = batch
        BY DEF CancelDelete
      <4>3. DeleteFailed => /\ pendingDelete' = pendingDelete /\ confirmed' = confirmed
                            /\ batch' = NoRequest
        BY DEF DeleteFailed
      <4>4. QED
        BY <3>1, <3>2, <4>1, <4>2, <4>3
    <3>3. ASSUME NEW t \in Shells, AskToDelete(t)
          PROVE  pendingDelete' = <<t>> /\ confirmed' = confirmed /\ batch' = batch
      BY <3>3 DEF AskToDelete
    <3>4. \A t \in Shells : <<t>> \in Seq(Shells)
      OBVIOUS
    <3>5. QED
      BY <1>5, <3>2, <3>3, <3>4
  <2>3. DeleteKnown'
    BY <1>1, <2>1, <2>2 DEF DeleteKnown
  <2>4. QED
    BY <1>3, <1>4, <2>1, <2>3 DEF OverlayKnown
<1>6. CASE ConfirmDelete
  <2>1. /\ UNCHANGED <<onPage, ticked, paletteVars, alive>> /\ pendingDelete # <<>>
        /\ batch' = [phase |-> "sent", rest |-> pendingDelete] /\ pendingDelete' = <<>>
        /\ confirmed' = confirmed \cup ToSet(pendingDelete)
        /\ pendingDelete \in Seq(Shells) /\ confirmed \subseteq Shells
    BY <1>1, <1>6 DEF ConfirmDelete, terminalVars, DeleteKnown
  <2>2. ToSet(pendingDelete) \subseteq Shells
    BY <2>1, ItemsAre
  <2>3. batch' \in Batches /\ batch'.phase = "sent" /\ batch'.rest = pendingDelete
        /\ pendingDelete' \in Seq(Shells)
    BY <2>1 DEF Batches
  <2>4. DeleteKnown'
    BY <2>1, <2>2, <2>3 DEF DeleteKnown
  <2>5. QED
    BY <1>3, <1>4, <2>1, <2>4 DEF OverlayKnown
<1>7. CASE ServerDeletes
  <2>1. /\ UNCHANGED <<onPage, ticked, paletteVars, pendingDelete, confirmed>>
        /\ batch.phase = "sent"
        /\ \/ batch' = [batch EXCEPT !.phase = "done"] /\ alive' = alive \ {Head(batch.rest)}
           \/ batch' = [batch EXCEPT !.phase = "failed"] /\ alive' = alive
    BY <1>7 DEF ServerDeletes
  <2>2. /\ batch # NoRequest /\ batch \in Batches /\ batch.rest \in Seq(Shells)
        /\ batch.rest # <<>> /\ ToSet(batch.rest) \subseteq confirmed
    BY <1>1, <2>1, BatchIs
  <2>3. /\ batch' \in Batches /\ batch'.rest = batch.rest
        /\ batch'.phase = "done" => Head(batch.rest) \notin alive'
    BY <2>1, <2>2 DEF Batches
  <2>4. DeleteKnown'
    BY <1>1, <2>1, <2>2, <2>3 DEF DeleteKnown
  <2>5. QED
    BY <1>3, <1>4, <2>1, <2>4 DEF OverlayKnown
<1>8. CASE DeleteAnswered
  <2> DEFINE r == batch.rest
  <2>1. /\ batch.phase = "done" /\ UNCHANGED <<alive, pendingDelete, confirmed>>
        /\ batch' = IF Len(r) = 1 THEN NoRequest ELSE [phase |-> "sent", rest |-> Tail(r)]
        /\ PageHas(onPage \ {Head(r)}, ticked)
    BY <1>8 DEF DeleteAnswered
  <2>2. r \in Seq(Shells) /\ r # <<>> /\ ToSet(r) \subseteq confirmed /\ Head(r) \notin alive
    BY <1>1, <2>1, BatchIs
  <2> HIDE DEF r
  <2>3. PaletteKnown' /\ onPage' \subseteq Shells /\ ticked' \subseteq Shells
        /\ onPage' = onPage \ {Head(r)}
    <3> DEFINE page == onPage \ {Head(r)}
    <3>1. page \in SUBSET Shells /\ PageHas(page, ticked)
      BY <1>1, <2>1
    <3> HIDE DEF page
    <3>2. PaletteKnown' /\ onPage' \subseteq Shells /\ ticked' \subseteq Shells /\ onPage' = page
      BY <1>1, <3>1, PageHasStep
    <3>3. QED
      BY <3>2 DEF page
  <2>4. PageKnown'
    BY <1>1, <1>2, <2>1, <2>2, <2>3 DEF PageKnown
  <2>5. Tail(r) \in Seq(Shells) /\ ToSet(Tail(r)) \subseteq ToSet(r)
        /\ (Len(r) # 1 => Tail(r) # <<>>)
    <3> DEFINE s == Tail(r)
    <3>1. s \in Seq(Shells) /\ Len(s) = Len(r) - 1 /\ Len(r) \in Nat /\ Len(r) > 0
          /\ \A i \in 1..Len(s) : s[i] = r[i + 1]
      BY <2>2
    <3> HIDE DEF s
    <3>2. s = <<>> => Len(s) = 0
      OBVIOUS
    <3>3. ToSet(s) \subseteq ToSet(r)
      <4>1. SUFFICES ASSUME NEW i \in 1..Len(s) PROVE s[i] \in ToSet(r)
        BY <3>1 DEF ToSet
      <4>2. i + 1 \in 1..Len(r)
        BY <3>1
      <4>3. QED
        BY <2>2, <3>1, <4>2 DEF ToSet
    <3>4. QED
      BY <3>1, <3>2, <3>3 DEF s
  <2>6. DeleteKnown'
    <3>1. CASE Len(r) = 1
      BY <1>1, <2>1, <3>1 DEF DeleteKnown
    <3>2. CASE Len(r) # 1
      <4>1. batch' = [phase |-> "sent", rest |-> Tail(r)]
        BY <2>1, <3>2
      <4>2. batch' \in Batches /\ batch'.phase = "sent" /\ batch'.rest = Tail(r)
        BY <2>5, <4>1 DEF Batches
      <4>3. QED
        BY <1>1, <2>1, <2>2, <2>5, <3>2, <4>2 DEF DeleteKnown
    <3>3. QED
      BY <3>1, <3>2
  <2>7. QED
    BY <1>3, <2>3, <2>4, <2>6 DEF OverlayKnown
<1>9. QED
  BY <1>5, <1>6, <1>7, <1>8

\* What a renaming in flight has.
LEMMA RenamingIs ==
    ASSUME RenameKnown, renameRequest.phase \in {"sent", "done", "failed"}
    PROVE  /\ renameRequest # NoRequest /\ renameRequest \in Renamings
           /\ renameRequest.of \in Shells /\ renameRequest.name \in Nat
           /\ renameRequest.phase = "done" => nameAt[renameRequest.of] = renameRequest.name
BY DEF RenameKnown, NoRequest, Renamings

\* A terminal is renamed.
LEMMA RenameStep ==
    ASSUME OverlayKnown,
           \/ CloseRename \/ TypeName \/ SubmitRename \/ ServerRenames \/ RenameAnswerLost
           \/ RenameAnswered \/ RenameFailed \/ \E t \in Shells : OpenRename(t)
    PROVE  OverlayKnown'
<1>1. PageKnown /\ PaletteKnown /\ DeleteKnown /\ RenameKnown /\ CardKnown
      /\ nameAt \in [Shells -> Nat] /\ nameShown \in [Shells -> Nat]
  BY DEF OverlayKnown, PageKnown
<1>2. UNCHANGED <<alive, onPage, ticked, paletteVars, deleteVars, cardVars>>
  BY DEF CloseRename, TypeName, SubmitRename, ServerRenames, RenameAnswerLost, RenameAnswered,
         RenameFailed, OpenRename, terminalVars
<1>3. PaletteKnown' /\ DeleteKnown' /\ CardKnown'
  BY <1>1, <1>2, RecentsStay DEF PaletteKnown, DeleteKnown, CardKnown, paletteVars, deleteVars, cardVars
<1>4. nameAt' \in [Shells -> Nat] /\ nameShown' \in [Shells -> Nat] => PageKnown'
  BY <1>1, <1>2 DEF PageKnown
<1>5. CASE \/ CloseRename \/ TypeName \/ \E t \in Shells : OpenRename(t)
  <2>1. /\ UNCHANGED <<nameAt, nameShown, renameRequest, astray>>
        /\ pendingRename' \in Shells \cup {None} /\ renameDraft' \in Nat
    BY <1>1, <1>5 DEF CloseRename, TypeName, OpenRename, terminalVars, RenameKnown
  <2>2. RenameKnown'
    BY <1>1, <2>1 DEF RenameKnown
  <2>3. QED
    BY <1>1, <1>3, <1>4, <2>1, <2>2 DEF OverlayKnown
<1>6. CASE SubmitRename
  <2>1. /\ UNCHANGED <<nameAt, nameShown, astray, pendingRename, renameDraft>>
        /\ renameRequest = NoRequest
        /\ renameRequest' = [phase |-> "sent", of |-> pendingRename, name |-> renameDraft]
        /\ pendingRename \in Shells /\ renameDraft \in Nat
    BY <1>1, <1>6 DEF SubmitRename, terminalVars, RenameKnown
  <2>2. renameRequest' \in Renamings /\ renameRequest'.phase = "sent"
    BY <2>1 DEF Renamings
  <2>3. ~astray => \A t \in Shells : nameShown[t] = nameAt[t]
    BY <1>1, <2>1 DEF RenameKnown, NoRequest
  <2>4. RenameKnown'
    BY <2>1, <2>2, <2>3 DEF RenameKnown
  <2>5. QED
    BY <1>1, <1>3, <1>4, <2>1, <2>4 DEF OverlayKnown
<1>7. CASE ServerRenames
  <2> DEFINE s == renameRequest.of
             x == renameRequest.name
  <2>1. /\ UNCHANGED <<nameShown, astray, pendingRename, renameDraft>>
        /\ renameRequest.phase = "sent"
        /\ \/ /\ nameAt' = [nameAt EXCEPT ![s] = x]
              /\ renameRequest' = [renameRequest EXCEPT !.phase = "done"]
           \/ nameAt' = nameAt /\ renameRequest' = [renameRequest EXCEPT !.phase = "failed"]
    BY <1>7 DEF ServerRenames
  <2>2. renameRequest \in Renamings /\ s \in Shells /\ x \in Nat
    BY <1>1, <2>1, RenamingIs
  <2>3. ~astray => \A t \in Shells : nameShown[t] = nameAt[t]
    BY <1>1, <2>1 DEF RenameKnown
  <2>4. renameRequest' \in Renamings /\ renameRequest'.of = s /\ renameRequest'.name = x
    BY <2>1, <2>2 DEF Renamings
  <2>5. nameAt' \in [Shells -> Nat] /\ \A t \in Shells : t # s => nameAt'[t] = nameAt[t]
    <3> HIDE DEF s, x
    <3>1. QED
      BY <1>1, <2>1, <2>2
  <2>6. \/ renameRequest'.phase = "done" /\ nameAt'[s] = x
        \/ renameRequest'.phase = "failed" /\ nameAt' = nameAt
    <3>1. CASE nameAt' = nameAt /\ renameRequest' = [renameRequest EXCEPT !.phase = "failed"]
      BY <2>2, <3>1 DEF Renamings
    <3>2. CASE /\ nameAt' = [nameAt EXCEPT ![s] = x]
               /\ renameRequest' = [renameRequest EXCEPT !.phase = "done"]
      <4>1. renameRequest'.phase = "done"
        BY <2>2, <3>2 DEF Renamings
      <4>2. nameAt'[s] = x
        <5> HIDE DEF s, x
        <5>1. QED
          BY <1>1, <2>2, <3>2
      <4>3. QED
        BY <4>1, <4>2
    <3>3. QED
      BY <2>1, <3>1, <3>2
  <2> HIDE DEF s, x
  <2>7. RenameKnown'
    <3>1. renameRequest'.phase = "done" => nameAt'[renameRequest'.of] = renameRequest'.name
      BY <2>4, <2>6
    <3>2. ASSUME ~astray', NEW t \in Shells
          PROVE  \/ nameShown'[t] = nameAt'[t]
                 \/ renameRequest'.phase = "done" /\ renameRequest'.of = t
      <4>1. nameShown'[t] = nameAt[t]
        BY <2>1, <2>3, <3>2
      <4>2. CASE t = s
        BY <2>4, <2>6, <4>1, <4>2
      <4>3. CASE t # s
        BY <2>5, <4>1, <4>3
      <4>4. QED
        BY <4>2, <4>3
    <3>3. pendingRename' \in Shells \cup {None} /\ renameDraft' \in Nat
      BY <1>1, <2>1 DEF RenameKnown
    <3>4. QED
      BY <2>4, <3>1, <3>2, <3>3 DEF RenameKnown
  <2>8. nameShown' \in [Shells -> Nat]
    BY <1>1, <2>1
  <2>9. QED
    BY <1>3, <1>4, <2>5, <2>7, <2>8 DEF OverlayKnown
<1>8. CASE RenameAnswerLost
  <2>1. /\ UNCHANGED <<nameAt, nameShown, pendingRename, renameDraft>> /\ astray' = TRUE
        /\ renameRequest.phase = "done"
        /\ renameRequest' = [renameRequest EXCEPT !.phase = "failed"]
    BY <1>8 DEF RenameAnswerLost, terminalVars
  <2>2. renameRequest \in Renamings
    BY <1>1, <2>1, RenamingIs
  <2>3. renameRequest' \in Renamings /\ renameRequest'.phase = "failed"
    BY <2>1, <2>2 DEF Renamings
  <2>4. RenameKnown'
    BY <1>1, <2>1, <2>3 DEF RenameKnown
  <2>5. QED
    BY <1>1, <1>3, <1>4, <2>1, <2>4 DEF OverlayKnown
<1>9. CASE RenameAnswered
  <2> DEFINE s == renameRequest.of
             x == renameRequest.name
  <2>1. /\ UNCHANGED <<nameAt, renameDraft, astray>> /\ pendingRename' = None
        /\ renameRequest.phase = "done" /\ renameRequest' = NoRequest
        /\ nameShown' = [nameShown EXCEPT ![s] = x]
    BY <1>9 DEF RenameAnswered
  <2>2. s \in Shells /\ x \in Nat /\ nameAt[s] = x
    BY <1>1, <2>1, RenamingIs
  <2>3. ~astray => \A t \in Shells : nameShown[t] = nameAt[t] \/ s = t
    BY <1>1 DEF RenameKnown
  <2> HIDE DEF s, x
  <2>4. nameShown' \in [Shells -> Nat] /\ \A t \in Shells : nameShown'[t] = IF t = s THEN x ELSE nameShown[t]
    BY <1>1, <2>1, <2>2
  <2>5. ~astray' => \A t \in Shells : nameShown'[t] = nameAt'[t]
    BY <2>1, <2>2, <2>3, <2>4
  <2>6. RenameKnown'
    BY <1>1, <2>1, <2>5 DEF RenameKnown
  <2>7. QED
    BY <1>1, <1>3, <1>4, <2>1, <2>4, <2>6 DEF OverlayKnown
<1>10. CASE RenameFailed
  <2>1. /\ UNCHANGED <<nameAt, nameShown, pendingRename, renameDraft, astray>>
        /\ renameRequest.phase = "failed" /\ renameRequest' = NoRequest
    BY <1>10 DEF RenameFailed, terminalVars
  <2>2. RenameKnown'
    BY <1>1, <2>1 DEF RenameKnown
  <2>3. QED
    BY <1>1, <1>3, <1>4, <2>1, <2>2 DEF OverlayKnown
<1>11. QED
  BY <1>5, <1>6, <1>7, <1>8, <1>9, <1>10

\* The pointer enters and leaves rows.
LEMMA CardStep ==
    ASSUME OverlayKnown, LeaveRow \/ CardTimer \/ \E t \in Shells : EnterRow(t)
    PROVE  OverlayKnown'
<1>1. PageKnown /\ PaletteKnown /\ DeleteKnown /\ RenameKnown /\ CardKnown
  BY DEF OverlayKnown
<1>2. UNCHANGED <<terminalVars, paletteVars, deleteVars, renameVars, astray>>
  BY DEF LeaveRow, CardTimer, EnterRow
<1>3. PageKnown' /\ DeleteKnown' /\ RenameKnown'
  BY <1>1, <1>2 DEF terminalVars, deleteVars, renameVars, PageKnown, DeleteKnown, RenameKnown
<1>4. PaletteKnown'
  BY <1>1, <1>2, RecentsStay DEF terminalVars, paletteVars, PaletteKnown
<1>5. CardKnown'
  BY <1>1 DEF LeaveRow, CardTimer, EnterRow, CardKnown
<1>6. QED
  BY <1>3, <1>4, <1>5 DEF OverlayKnown

\* No step breaks what is known of the overlays.
LEMMA OverlayStep == OverlayKnown /\ [OverlayNext]_overlayVars => OverlayKnown'
<1> SUFFICES ASSUME OverlayKnown, [OverlayNext]_overlayVars PROVE OverlayKnown'
  OBVIOUS
<1>1. CASE UNCHANGED overlayVars
  <2>1. PaletteKnown'
    BY <1>1, RecentsStay DEF overlayVars, terminalVars, paletteVars, OverlayKnown, PaletteKnown
  <2>2. QED
    BY <1>1, <2>1 DEF overlayVars, terminalVars, deleteVars, renameVars, cardVars, OverlayKnown,
                      PageKnown, DeleteKnown, RenameKnown, CardKnown
<1>2. CASE \E v \in Values : Run(v)
  BY <1>2, RunStep
<1>3. CASE \E t \in Shells :
               Tick(t) \/ GoneElsewhere(t) \/ AskToDelete(t) \/ OpenRename(t) \/ EnterRow(t)
  BY <1>3, PageStep, DeleteStep, RenameStep, CardStep
<1>4. QED
  BY <1>1, <1>2, <1>3, PaletteStep, PageStep, DeleteStep, RenameStep, CardStep DEF OverlayNext

\* What is known of the overlays gives their properties.
LEMMA OverlayHolds == OverlayKnown => OverlayInv
<1> SUFFICES ASSUME OverlayKnown PROVE OverlayInv
  OBVIOUS
<1>1. PageKnown /\ PaletteKnown /\ DeleteKnown /\ RenameKnown /\ CardKnown
  BY DEF OverlayKnown
<1>2. ToSet(recent) \subseteq Values
  BY <1>1, ItemsAre DEF PaletteKnown
<1>3. OverlayTypeOK
  BY <1>1, <1>2 DEF OverlayTypeOK, PageKnown, PaletteKnown, DeleteKnown, RenameKnown, CardKnown
<1>4. DeletesAreMeant
  BY <1>1 DEF DeletesAreMeant, PageKnown, DeleteKnown
<1>5. NamesAgree
  BY <1>1 DEF NamesAgree, RenameKnown, PageKnown, NoRequest
<1>6. CardIsAttended
  BY <1>1 DEF CardIsAttended, Card, CardKnown
<1>7. QED
  BY <1>1, <1>3, <1>4, <1>5, <1>6 DEF OverlayInv, PaletteKnown

-----------------------------------------------------------------------------
(* The page. *)

\* The inductive invariant of the page: that of each part.  Terminals are in groups
\* only where they are studied, so that the projects may change where they are.
WorkspaceKnown ==
    /\ FiltersKnown /\ Predicts /\ SettingsKnown /\ RailKnown /\ OrderKnown /\ SavedKnown /\ OverlayKnown
    /\ studied = "groups" => GroupsKnown
    /\ studied # "groups" => GroupsEmpty

\* At first every part is as it starts.
LEMMA WorkspaceStart == WorkspaceInit => WorkspaceKnown
<1> SUFFICES ASSUME WorkspaceInit PROVE WorkspaceKnown
  OBVIOUS
<1>1. FiltersKnown /\ Predicts /\ SettingsKnown /\ RailKnown
  BY FiltersStart, PredictsStart, SettingsStart, RailStart DEF WorkspaceInit
<1>2. OrderKnown /\ SavedKnown /\ OverlayKnown
  BY OrderStart, SavedStart, OverlayStart DEF WorkspaceInit
<1>3. GroupsEmpty
  BY DEF WorkspaceInit, SidebarInit, GroupsEmpty, GroupNames
<1>4. QED
  BY <1>1, <1>2, <1>3, GroupsStart DEF WorkspaceKnown

\* The steps of the terminals in the groups and of the projects leave each other alone.
LEMMA SidebarSteps ==
    /\ GroupsNext => UNCHANGED projectVars
    /\ ProjectsNext => UNCHANGED groupVars
<1>1. ASSUME GroupsNext PROVE UNCHANGED projectVars
  BY <1>1 DEF GroupsNext, Grab, DropOn, Appears, Vanishes, StepTo, LetGo, TypeFilter, Move
<1>2. ASSUME ProjectsNext PROVE UNCHANGED groupVars
  BY <1>2 DEF ProjectsNext, DragProject, ServerReorders, ServerRefuses, OrderAnswerLost,
              OrderSaved, OrderFailed, OpenDialog, CloseDialog, TypePath, Pick, Picked,
              SubmitProject, ServerCreatesProject, ProjectRefused, CreateAnswerLost,
              ProjectCreated, OtherCreates
<1>3. QED
  BY <1>1, <1>2

\* A step of the page is a step of the part that is studied, and none of the others.
LEMMA WorkspaceSteps ==
    ASSUME [WorkspaceNext]_workspaceVars
    PROVE  /\ [Next]_vars /\ [SettingsNext]_settingsVars /\ [RailNext]_railVars
           /\ [ProjectsNext]_projectVars /\ [SavedNext]_savedVars /\ [OverlayNext]_overlayVars
           /\ studied' = studied
           /\ studied = "groups" => [GroupsNext]_<<groupVars, row>>
           /\ studied # "groups" => UNCHANGED groupVars
<1>1. UNCHANGED sidebarVars => UNCHANGED projectVars /\ UNCHANGED groupVars
  BY DEF sidebarVars
<1>2. UNCHANGED projectVars => UNCHANGED row
  BY DEF projectVars
<1>3. CASE UNCHANGED workspaceVars
  <2>1. /\ UNCHANGED vars /\ UNCHANGED settingsVars /\ UNCHANGED railVars
        /\ UNCHANGED sidebarVars /\ UNCHANGED savedVars /\ UNCHANGED overlayVars
        /\ UNCHANGED studied
    BY <1>3 DEF workspaceVars
  <2>2. QED
    BY <1>1, <1>2, <2>1
<1>4. CASE WorkspaceNext
  <2>1. UNCHANGED studied
    BY <1>4 DEF WorkspaceNext
  <2>2. CASE studied = "filters"
    <3>1. /\ Next /\ UNCHANGED settingsVars /\ UNCHANGED railVars
          /\ UNCHANGED sidebarVars /\ UNCHANGED savedVars /\ UNCHANGED overlayVars
      BY <1>4, <2>2 DEF WorkspaceNext
    <3>2. QED
      BY <1>1, <2>1, <2>2, <3>1
  <2>3. CASE studied = "settings"
    <3>1. /\ SettingsNext /\ UNCHANGED vars /\ UNCHANGED railVars
          /\ UNCHANGED sidebarVars /\ UNCHANGED savedVars /\ UNCHANGED overlayVars
      BY <1>4, <2>3 DEF WorkspaceNext
    <3>2. QED
      BY <1>1, <2>1, <2>3, <3>1
  <2>4. CASE studied = "rail"
    <3>1. /\ RailNext /\ UNCHANGED vars /\ UNCHANGED settingsVars
          /\ UNCHANGED sidebarVars /\ UNCHANGED savedVars /\ UNCHANGED overlayVars
      BY <1>4, <2>4 DEF WorkspaceNext
    <3>2. QED
      BY <1>1, <2>1, <2>4, <3>1
  <2>5. CASE studied = "groups"
    <3>1. /\ GroupsNext /\ UNCHANGED vars /\ UNCHANGED settingsVars
          /\ UNCHANGED railVars /\ UNCHANGED savedVars /\ UNCHANGED overlayVars
      BY <1>4, <2>5 DEF WorkspaceNext
    <3>2. UNCHANGED projectVars
      BY <3>1, SidebarSteps
    <3>3. QED
      BY <2>1, <2>5, <3>1, <3>2
  <2>6. CASE studied = "projects"
    <3>1. /\ ProjectsNext /\ UNCHANGED vars /\ UNCHANGED settingsVars
          /\ UNCHANGED railVars /\ UNCHANGED savedVars /\ UNCHANGED overlayVars
      BY <1>4, <2>6 DEF WorkspaceNext
    <3>2. UNCHANGED groupVars
      BY <3>1, SidebarSteps
    <3>3. QED
      BY <2>1, <2>6, <3>1, <3>2
  <2>7. CASE studied = "saved"
    <3>1. /\ SavedNext /\ UNCHANGED vars /\ UNCHANGED settingsVars
          /\ UNCHANGED railVars /\ UNCHANGED sidebarVars /\ UNCHANGED overlayVars
      BY <1>4, <2>7 DEF WorkspaceNext
    <3>2. QED
      BY <1>1, <2>1, <2>7, <3>1
  <2>8. CASE studied = "overlays"
    <3>1. /\ OverlayNext /\ UNCHANGED vars /\ UNCHANGED settingsVars
          /\ UNCHANGED railVars /\ UNCHANGED sidebarVars /\ UNCHANGED savedVars
      BY <1>4, <2>8 DEF WorkspaceNext
    <3>2. QED
      BY <1>1, <2>1, <2>8, <3>1
  <2>9. QED
    BY <1>4, <2>2, <2>3, <2>4, <2>5, <2>6, <2>7, <2>8 DEF WorkspaceNext
<1>5. QED
  BY <1>3, <1>4

\* No step breaks what is known of a part.
LEMMA WorkspaceStep == WorkspaceKnown /\ [WorkspaceNext]_workspaceVars => WorkspaceKnown'
<1> SUFFICES ASSUME WorkspaceKnown, [WorkspaceNext]_workspaceVars PROVE WorkspaceKnown'
  OBVIOUS
<1>1. /\ [Next]_vars /\ [SettingsNext]_settingsVars /\ [RailNext]_railVars
      /\ [ProjectsNext]_projectVars /\ [SavedNext]_savedVars /\ [OverlayNext]_overlayVars
      /\ studied' = studied
      /\ studied = "groups" => [GroupsNext]_<<groupVars, row>>
      /\ studied # "groups" => UNCHANGED groupVars
  BY WorkspaceSteps
<1>2. FiltersKnown' /\ Predicts'
  BY <1>1, FiltersStep, PredictsStep DEF WorkspaceKnown
<1>3. SettingsKnown'
  BY <1>1, SettingsStep DEF WorkspaceKnown
<1>4. RailKnown'
  BY <1>1, RailStep DEF WorkspaceKnown
<1>5. OrderKnown'
  BY <1>1, OrderStep DEF WorkspaceKnown
<1>6. SavedKnown'
  BY <1>1, SavedStep DEF WorkspaceKnown
<1>7. OverlayKnown'
  BY <1>1, OverlayStep DEF WorkspaceKnown
<1>8. studied = "groups" => GroupsKnown'
  BY <1>1, GroupsStep DEF WorkspaceKnown
<1>9. ASSUME studied # "groups" PROVE GroupsEmpty'
  <2>1. UNCHANGED groupVars /\ GroupsEmpty
    BY <1>1, <1>9 DEF WorkspaceKnown
  <2>2. QED
    BY <2>1 DEF groupVars, GroupsEmpty
<1>10. QED
  BY <1>1, <1>2, <1>3, <1>4, <1>5, <1>6, <1>7, <1>8, <1>9 DEF WorkspaceKnown

\* What is known of the parts gives the properties of the page.
LEMMA WorkspaceHolds == WorkspaceKnown => WorkspaceInv
<1> SUFFICES ASSUME WorkspaceKnown PROVE WorkspaceInv
  OBVIOUS
<1>1. FiltersInv
  BY FiltersHold DEF WorkspaceKnown
<1>2. SettingsTypeOK /\ ShortcutsDiffer /\ BarFollows /\ SettingsSaved
  BY SettingsHold DEF WorkspaceKnown
<1>3. RailTypeOK /\ FocusShows /\ RecentViewsKept
  BY RailHolds DEF WorkspaceKnown
<1>4. GroupsKnown /\ OrderKnown
  BY GroupsStart DEF WorkspaceKnown
<1>5. /\ GroupsKeepOrder /\ ToSet(listed) \subseteq Grouped /\ held \in Grouped \cup {None}
  BY <1>4, GroupsHold
<1>6. /\ ProjectsAgree /\ {ToSet(saved), ToSet(row)} \subseteq SUBSET Projects
      /\ draftPath \in Projects \cup {None} /\ picks \in Nat
      /\ flight.phase \in {"none", "sent", "saved", "failed"}
      /\ creating.phase \in {"none", "sent", "created", "failed"}
  BY <1>4, OrderHolds
<1>7. SidebarTypeOK
  BY <1>5, <1>6 DEF SidebarTypeOK
<1>8. SavedInv
  BY SavedHolds DEF WorkspaceKnown
<1>9. OverlayInv
  BY OverlayHolds DEF WorkspaceKnown
<1>10. QED
  BY <1>1, <1>2, <1>3, <1>5, <1>6, <1>7, <1>8, <1>9 DEF WorkspaceInv

\* Whatever part of the page moves, for any terminals, projects, sessions, panes and
\* settings: every selected terminal has a reason, shortcuts differ and what was saved
\* shows, the focused pane is visible and the latest views stay, groups and projects
\* keep the order of the drags, a session runs once and archived rows are those of the
\* server, and only what a dialog named is deleted.
THEOREM WorkspaceSafe == WorkspaceSpec => []WorkspaceInv
<1>1. WorkspaceInit => WorkspaceKnown
  BY WorkspaceStart
<1>2. WorkspaceKnown /\ [WorkspaceNext]_workspaceVars => WorkspaceKnown'
  BY WorkspaceStep
<1>3. WorkspaceKnown => WorkspaceInv
  BY WorkspaceHolds
<1>4. QED
  BY <1>1, <1>2, <1>3, PTL DEF WorkspaceSpec

\* What a click shows at once is what the server makes of it, for any filters, pins and
\* terminals, when nothing moved in between and no attention filter holds the terminal.
THEOREM ClicksArePredicted == WorkspaceSpec => PredictionHolds
<1>1. WorkspaceInit => WorkspaceKnown
  BY WorkspaceStart
<1>2. WorkspaceKnown /\ [WorkspaceNext]_workspaceVars => WorkspaceKnown'
  BY WorkspaceStep
<1>3. ASSUME WorkspaceKnown
      PROVE  WriteSelection /\ predicted /\ Informed /\ HeldByAttention \subseteq selected
                 => /\ refused' = refused /\ selected' = selected
                    /\ Resolved(server', terminals) = selected
  BY <1>3, ClickShown DEF WorkspaceKnown
<1>4. QED
  BY <1>1, <1>2, <1>3, PTL DEF WorkspaceSpec, PredictionHolds
=============================================================================
