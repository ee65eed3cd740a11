---------------------------- MODULE PaneViewsProofs ----------------------------
(***************************************************************************)
(* Proofs about the views of a pane, for any number of reviews, records,   *)
(* chunks, browsers, faults and layouts.  The views share nothing: each    *)
(* has an inductive invariant of its own, and a step of PaneViews moves    *)
(* one of them and leaves the others as they were.                         *)
(*                                                                         *)
(* What a fold or a recursive function computes is proved by first-order   *)
(* induction: a set of numbers, or of sequences, that holds the first and  *)
(* the next of each of its members holds them all.                         *)
(***************************************************************************)
EXTENDS PaneViews, NaturalsInduction, WellFoundedInduction, FiniteSetTheorems,
        SequenceTheorems, TLAPS

-----------------------------------------------------------------------------
(* Induction. *)

\* A set of numbers that is not empty has a least one.
LEMMA NatMin ==
    ASSUME NEW T \in SUBSET Nat, T # {}
    PROVE  \E m \in T : \A k \in T : m <= k
<1> DEFINE R == {x \in Nat \X Nat : x[1] < x[2]}
<1>1. IsWellFoundedOn(R, Nat)
  BY NatLessThanWellFounded DEF OpToRel
<1>2. \A k, m \in Nat : k < m => <<k, m>> \in R
  OBVIOUS
<1> HIDE DEF R
<1>3. PICK m \in T : \A k \in T : ~(<<k, m>> \in R)
  BY <1>1, WFMin
<1>4. \A k \in T : ~(k < m) /\ k \in Nat /\ m \in Nat
  BY <1>2, <1>3
<1>5. QED
  BY <1>3, <1>4

\* Induction, over a set: the form that needs no operator.
LEMMA NatInduction1 ==
    ASSUME NEW S \in SUBSET Nat, 0 \in S, \A n \in S : n + 1 \in S
    PROVE  S = Nat
<1>1. SUFFICES ASSUME Nat \ S # {} PROVE FALSE
  OBVIOUS
<1>2. PICK m \in Nat \ S : \A k \in Nat \ S : m <= k
  BY <1>1, NatMin
<1>3. m - 1 \in Nat /\ m - 1 \notin Nat \ S
  BY <1>2
<1>4. QED
  BY <1>2, <1>3

-----------------------------------------------------------------------------
(* The pane: the review that is shown, the tabs, the annotations. *)

\* The reviews that were asked for so far, and what a submission can be.
Asked == 1..reviews
Sends == [id : Asked, phase : {"asked", "done", "refused"}, here : BOOLEAN]

\* Ranges.  Both copies of the annotation the pane keeps agree, only the
\* newest review can be open, and an answer names a review or nothing.
PaneBounds ==
    /\ reviews \in 0..MaxReviews
    /\ annotation = annotationID /\ annotation \in Asked \cup {None}
    /\ notes \subseteq Asked
    /\ open = None \/ (open = reviews /\ reviews # 0)
    /\ fetch = None \/ (/\ fetch \in Request
                        /\ fetch.result \in Asked \cup {None})
    /\ sends \subseteq Sends

\* The panes show sources there are.
PaneShown == source \in Sources /\ secondary \in Sources \cup {None}

\* A review whose submission the server completed is not open.
DoneIsOver == \A s \in sends : s.phase = "done" => s.id # open

\* While an answer from before the newest review is on its way, the pane
\* does not show that review yet.
NewIsUnseen ==
    fetch # None /\ fetch.phase = "answered" /\ open # None /\ fetch.result # open
        => annotation # open

\* Comments on the open review are comments on the one that is shown.
NotesAreShown == open \in notes => annotation = open

\* Unless an event is still to be heard, a fetch will bring what is open, or
\* none runs and the pane shows what is open or knows that it is stale.
Follows ==
    ~due =>
        \/ fetch # None /\ (fetch.phase = "asked" \/ fetch.result = open)
        \/ fetch = None /\ (stale \/ annotation = open)

\* The inductive invariant of the pane.
PaneKnows ==
    /\ PaneBounds /\ PaneShown /\ DoneIsOver /\ NewIsUnseen /\ NotesAreShown
    /\ Follows /\ NoBlankSource

\* Ids of reviews are not None.
LEMMA NoReviewIsNone ==
    ASSUME PaneBounds PROVE None \notin Asked /\ Asked \subseteq Reviews
<1>1. Asked \subseteq Reviews
  BY PaneAssumption DEF PaneAssumption, PaneBounds, Asked, Reviews
<1>2. QED
  BY <1>1, PaneAssumption DEF PaneAssumption, Reviews

\* A pane that was just mounted satisfies the invariant.
LEMMA PaneStarts == PaneInit => PaneKnows
<1> USE PaneAssumption DEF PaneAssumption, PaneInit, Request, Asked, Reviews
<1> SUFFICES ASSUME PaneInit PROVE PaneKnows
  OBVIOUS
<1>1. PaneBounds
  BY DEF PaneBounds, Sends
<1>2. PaneShown
  BY DEF PaneShown, Sources
<1>3. DoneIsOver /\ NewIsUnseen /\ NotesAreShown
  BY DEF DoneIsOver, NewIsUnseen, NotesAreShown
<1>4. Follows
  BY DEF Follows
<1>5. NoBlankSource
  BY DEF NoBlankSource, Visible, Sources
<1>6. QED
  BY <1>1, <1>2, <1>3, <1>4, <1>5 DEF PaneKnows

\* Four tabs are offered, five with a review: what NextTab counts modulo.
LEMMA TabsOffered ==
    /\ annotation = None => Cardinality(Offered) = 4
    /\ annotation # None => Cardinality(Offered) = 5
<1>1. Cardinality({"terminal", "agent-log", "changes", "files"}) = 4
      /\ IsFiniteSet({"terminal", "agent-log", "changes", "files"})
  <2>0. IsFiniteSet({"terminal"}) /\ Cardinality({"terminal"}) = 1
    BY FS_Singleton
  <2>1. IsFiniteSet({"terminal", "agent-log"})
        /\ Cardinality({"terminal", "agent-log"}) = 2
    <3>1. {"terminal"} \cup {"agent-log"} = {"terminal", "agent-log"}
      OBVIOUS
    <3>2. QED
      BY <2>0, <3>1, FS_AddElement
  <2>2. IsFiniteSet({"terminal", "agent-log", "changes"})
        /\ Cardinality({"terminal", "agent-log", "changes"}) = 3
    <3>1. {"terminal", "agent-log"} \cup {"changes"} = {"terminal", "agent-log", "changes"}
      OBVIOUS
    <3>2. QED
      BY <2>1, <3>1, FS_AddElement
  <2>3. {"terminal", "agent-log", "changes"} \cup {"files"} = {"terminal", "agent-log", "changes", "files"}
    OBVIOUS
  <2>4. QED
    BY <2>2, <2>3, FS_AddElement
<1>2. Cardinality(Sources) = 5
  <2>1. {"terminal", "agent-log", "changes", "files"} \cup {"annotation"} = Sources
    BY DEF Sources
  <2>2. QED
    BY <1>1, <2>1, FS_AddElement
<1>3. CASE annotation = None
  <2>1. Offered = {"terminal", "agent-log", "changes", "files"}
    BY <1>3 DEF Offered, Sources
  <2>2. QED
    BY <2>1, <1>1, <1>3
<1>4. CASE annotation # None
  <2>1. Offered = Sources
    BY <1>4 DEF Offered
  <2>2. QED
    BY <2>1, <1>2, <1>4
<1>5. QED
  BY <1>3, <1>4

\* NextTab selects a tab that is offered.
LEMMA NextIsOffered ==
    ASSUME NoBlankSource, source \in Sources, NextTab
    PROVE  \E s \in Offered : ChangeSource(s)
<1> DEFINE n == Cardinality(Offered)
           at == CHOOSE i \in 1..5 : Order[i] = source
<1>1. \E i \in 1..5 : Order[i] = source
  <2>1. Order[1] = "terminal" /\ Order[2] = "agent-log" /\ Order[3] = "changes"
        /\ Order[4] = "files" /\ Order[5] = "annotation"
    BY DEF Order
  <2>2. QED
    BY <2>1 DEF Sources
<1>2. at \in 1..5 /\ Order[at] = source
  BY <1>1
<1>3. ChangeSource(Order[1 + (at % n)])
  BY DEF NextTab
<1> HIDE DEF at, n
<1>4. Order[1 + (at % n)] \in Offered
  <2>1. CASE annotation = None
    <3>1. source # "annotation"
      BY <2>1 DEF NoBlankSource, Visible
    <3>2. n = 4
      BY <2>1, TabsOffered DEF n
    <3>3. 1 + (at % n) \in 1..4
      BY <3>2, <1>2
    <3>4. \A i \in 1..4 : Order[i] \in Offered
      BY DEF Order, Offered, Sources
    <3>5. QED
      BY <3>3, <3>4
  <2>2. CASE annotation # None
    <3>1. n = 5
      BY <2>2, TabsOffered DEF n
    <3>2. 1 + (at % n) \in 1..5
      BY <3>1, <1>2
    <3>3. \A i \in 1..5 : Order[i] \in Offered
      BY <2>2 DEF Order, Offered, Sources
    <3>4. QED
      BY <3>2, <3>3
  <2>3. QED
    BY <2>1, <2>2
<1>5. QED
  BY <1>3, <1>4

\* The tabs: no step shows a source that is not offered, and the tab of a
\* review that is gone falls back to another.
LEMMA ShownStep ==
    ASSUME PaneShown, NoBlankSource, PaneBounds, [PaneNext]_paneVars
    PROVE  PaneShown' /\ NoBlankSource'
<1> USE PaneAssumption DEF PaneAssumption, PaneShown, NoBlankSource, Visible, Sources
<1>1. \A next \in Offered : ChangeSource(next) /\ UNCHANGED annotation
          => PaneShown' /\ NoBlankSource'
  BY DEF ChangeSource, Shows, Offered
<1>2. CASE \E s \in Sources : ClickTab(s)
  <2>1. PICK s \in Sources : ClickTab(s)
    BY <1>2
  <2>2. UNCHANGED annotation /\ s \in Offered
    BY <2>1 DEF ClickTab, review
  <2>3. CASE s = source
    BY <2>1, <2>2, <2>3 DEF ClickTab, Shows
  <2>4. CASE s # source
    BY <2>1, <2>2, <2>4, <1>1 DEF ClickTab
  <2>5. QED
    BY <2>3, <2>4
<1>3. CASE \E s \in Sources : ToggleSecond(s)
  BY <1>3 DEF ToggleSecond, Shows, Offered, review
<1>4. CASE NextTab
  <2>1. UNCHANGED annotation
    BY <1>4 DEF NextTab, review
  <2>2. PICK s \in Offered : ChangeSource(s)
    BY <1>4, NextIsOffered
  <2>3. QED
    BY <1>1, <2>1, <2>2
<1>5. CASE Drag \/ FocusPane
  BY <1>5 DEF Drag, FocusPane, review
<1>6. CASE HearEvent \/ Retry \/ ServerReads \/ FetchFails
  BY <1>6 DEF HearEvent, Retry, Fetches, ServerReads, FetchFails, tabs, review
<1>7. CASE Fetched
  <2>1. annotation' = fetch.result
    BY <1>7 DEF Fetched, Displays
  <2>2. CASE fetch.result # None /\ fetch.result # annotationID
    BY <1>7, <2>1, <2>2 DEF Fetched, Shows
  <2>3. CASE fetch.result = None /\ annotationID # None
    BY <1>7, <2>1, <2>3 DEF Fetched, Shows, Fallback, Repaired
  <2>4. CASE fetch.result = annotationID
    <3>1. source' = source /\ secondary' = secondary
      BY <1>7, <2>4 DEF Fetched, Shows
    <3>2. annotation' = annotation
      BY <2>1, <2>4 DEF PaneBounds
    <3>3. QED
      BY <3>1, <3>2
  <2>5. QED
    BY <2>2, <2>3, <2>4
<1>8. CASE Comment \/ Send \/ AgentAsks \/ AgentCancels
  BY <1>8 DEF Comment, Send, AgentAsks, AgentCancels, tabs, review
<1>9. CASE \E s \in sends : ServerCompletes(s) \/ SendBreaks(s) \/ Refused(s)
  BY <1>9 DEF ServerCompletes, SendBreaks, Refused, tabs, review
<1>10. CASE \E s \in sends : Answered(s)
  BY <1>10 DEF Answered, Shows, Fallback, Repaired
<1>11. CASE UNCHANGED paneVars
  BY <1>11 DEF paneVars, tabs, review
<1>12. QED
  BY <1>2, <1>3, <1>4, <1>5, <1>6, <1>7, <1>8, <1>9, <1>10, <1>11 DEF PaneNext

\* Choosing tabs does not touch the review.
LEMMA TabStep ==
    ASSUME \/ \E s \in Sources : ClickTab(s) \/ ToggleSecond(s)
           \/ NextTab \/ Drag \/ FocusPane \/ UNCHANGED paneVars
    PROVE  UNCHANGED <<annotation, annotationID, notes, sends, fetch, open, reviews,
                       due, stale>>
<1> USE DEF review, store
<1>1. CASE \E s \in Sources : ClickTab(s)
  BY <1>1 DEF ClickTab
<1>2. CASE \E s \in Sources : ToggleSecond(s)
  BY <1>2 DEF ToggleSecond
<1>3. CASE NextTab
  BY <1>3 DEF NextTab
<1>4. CASE Drag \/ FocusPane
  BY <1>4 DEF Drag, FocusPane
<1>5. CASE UNCHANGED paneVars
  BY <1>5 DEF paneVars
<1>6. QED
  BY <1>1, <1>2, <1>3, <1>4, <1>5

\* No step leaves the ranges.
LEMMA BoundsStep ==
    ASSUME PaneBounds, [PaneNext]_paneVars
    PROVE  PaneBounds'
<1>0. None \notin Asked /\ Asked \subseteq Reviews
  BY NoReviewIsNone
<1> USE PaneAssumption, <1>0 DEF PaneAssumption, PaneBounds, Asked, Request
<1>1. CASE \/ \E s \in Sources : ClickTab(s) \/ ToggleSecond(s)
           \/ NextTab \/ Drag \/ FocusPane \/ UNCHANGED paneVars
  BY <1>1, TabStep DEF Sends
<1>2. CASE HearEvent \/ Retry
  <2>1. fetch' = [phase |-> "asked", result |-> None]
        /\ UNCHANGED <<annotation, annotationID, notes, sends, open, reviews>>
    BY <1>2 DEF HearEvent, Retry, Fetches, review
  <2>2. fetch' \in Request /\ fetch'.result = None
    BY <2>1
  <2>3. Sends' = Sends
    BY <2>1 DEF Sends
  <2>4. QED
    BY <2>1, <2>2, <2>3
<1>3. CASE ServerReads
  BY <1>3 DEF ServerReads, review, store, Sends
<1>4. CASE Fetched
  <2>1. sends' \subseteq Sends /\ UNCHANGED reviews
    <3>1. \A s \in Sends : [s EXCEPT !.here = FALSE] \in Sends
      BY DEF Sends
    <3>2. sends' = {[s EXCEPT !.here = FALSE] : s \in sends} \/ sends' = sends
      BY <1>4 DEF Fetched, Displays
    <3>3. QED
      BY <1>4, <3>1, <3>2 DEF Fetched, store
  <2>2. annotation' = fetch.result /\ annotationID' = fetch.result /\ fetch' = None
    BY <1>4 DEF Fetched, Displays
  <2>3. notes' \subseteq notes
    BY <1>4 DEF Fetched, Displays
  <2>4. UNCHANGED <<open, reviews>> /\ fetch # None
    BY <1>4 DEF Fetched, store
  <2>5. Sends' = Sends
    BY <2>4 DEF Sends
  <2>6. QED
    BY <2>1, <2>2, <2>3, <2>4, <2>5
<1>5. CASE FetchFails
  BY <1>5 DEF FetchFails, store, Sends
<1>6. CASE Comment
  BY <1>6 DEF Comment, store, Sends
<1>7. CASE Send
  <2>1. [id |-> annotation, phase |-> "asked", here |-> TRUE] \in Sends
    BY <1>7 DEF Send, Sends
  <2>2. Sends' = Sends
    BY <1>7 DEF Send, store, Sends
  <2>3. QED
    BY <1>7, <2>1, <2>2 DEF Send, store
<1>8. CASE \E s \in sends : ServerCompletes(s) \/ SendBreaks(s)
  <2>1. PICK s \in sends : ServerCompletes(s) \/ SendBreaks(s)
    BY <1>8
  <2>2. UNCHANGED <<annotation, annotationID, notes, fetch, reviews>>
        /\ (open' = None \/ open' = open)
    BY <2>1 DEF ServerCompletes, SendBreaks, review, store
  <2>3. sends' \subseteq Sends
    <3>1. [s EXCEPT !.phase = "done"] \in Sends /\ [s EXCEPT !.phase = "refused"] \in Sends
      BY DEF Sends
    <3>2. QED
      BY <2>1, <3>1 DEF ServerCompletes, SendBreaks, Goes
  <2>4. Sends' = Sends
    BY <2>2 DEF Sends
  <2>5. QED
    BY <2>2, <2>3, <2>4
<1>9. CASE \E s \in sends : Answered(s)
  <2>1. PICK s \in sends : Answered(s)
    BY <1>9
  <2>2. \A t \in Sends : [t EXCEPT !.here = FALSE] \in Sends
    BY DEF Sends
  <2>3. sends' \subseteq Sends
    BY <2>1, <2>2 DEF Answered
  <2>4. Sends' = Sends
    BY <2>1 DEF Answered, store, Sends
  <2>5. QED
    BY <2>1, <2>3, <2>4 DEF Answered, store
<1>10. CASE \E s \in sends : Refused(s)
  BY <1>10 DEF Refused, store, Sends
<1>11. CASE AgentAsks
  <2>1. reviews' = reviews + 1 /\ reviews' \in 0..MaxReviews /\ open' = reviews'
    BY <1>11 DEF AgentAsks
  <2>2. Asked \subseteq Asked'
    BY <2>1
  <2>3. Sends \subseteq Sends'
    BY <2>2 DEF Sends
  <2>4. UNCHANGED <<annotation, annotationID, notes, sends, fetch>>
    BY <1>11 DEF AgentAsks, review
  <2>5. QED
    BY <2>1, <2>2, <2>3, <2>4
<1>12. CASE AgentCancels
  BY <1>12 DEF AgentCancels, review, Sends
<1>13. QED
  BY <1>1, <1>2, <1>3, <1>4, <1>5, <1>6, <1>7, <1>8, <1>9, <1>10, <1>11, <1>12
  DEF PaneNext

\* A submission whose page went away.
Gone(s) == [s EXCEPT !.here = FALSE]

\* It is the same submission.
LEMMA GoneIsSame == \A s \in Sends : Gone(s).id = s.id /\ Gone(s).phase = s.phase
  BY DEF Gone, Sends

\* What relates the review, its fetch and its submissions.
Related == DoneIsOver /\ NewIsUnseen /\ NotesAreShown /\ Follows

\* Every step keeps the fetch, the submissions and what is shown in line with
\* the review that is open: fetches are numbered, answers that are not the
\* newest are dropped, and a submission is checked against the review shown.
LEMMA RelatedStep ==
    ASSUME PaneBounds, Related, [PaneNext]_paneVars
    PROVE  Related'
<1>0. None \notin Asked /\ Asked \subseteq Reviews
  BY NoReviewIsNone
<1>1. CASE \/ \E s \in Sources : ClickTab(s) \/ ToggleSecond(s)
           \/ NextTab \/ Drag \/ FocusPane \/ UNCHANGED paneVars
  BY <1>1, TabStep DEF Related, DoneIsOver, NewIsUnseen, NotesAreShown, Follows
<1> USE PaneAssumption, <1>0 DEF PaneAssumption, PaneBounds, Asked, Request, Related,
        DoneIsOver, NewIsUnseen, NotesAreShown, Follows
<1>2. CASE HearEvent \/ Retry
  BY <1>2 DEF HearEvent, Retry, Fetches, review
<1>3. CASE ServerReads
  BY <1>3 DEF ServerReads, review, store
<1>4. CASE Fetched
  <2>1. DoneIsOver'
    <3>1. sends' = {Gone(s) : s \in sends} \/ sends' = sends
      BY <1>4 DEF Fetched, Displays, Gone
    <3>2. open' = open
      BY <1>4 DEF Fetched, store
    <3>3. QED
      BY <3>1, <3>2, GoneIsSame
  <2>2. annotation' = fetch.result /\ fetch' = None /\ stale' = FALSE /\ fetch # None
        /\ fetch.phase = "answered"
    BY <1>4 DEF Fetched, Displays
  <2>3. UNCHANGED <<open, due>>
    BY <1>4 DEF Fetched, store
  <2>4. notes' = notes \/ notes' = {}
    BY <1>4 DEF Fetched, Displays
  <2>5. NotesAreShown'
    BY <2>2, <2>3, <2>4
  <2>6. Follows'
    BY <2>2, <2>3
  <2>7. QED
    BY <2>1, <2>2, <2>5, <2>6
<1>5. CASE FetchFails
  BY <1>5 DEF FetchFails, store
<1>6. CASE Comment
  BY <1>6 DEF Comment, store
<1>7. CASE Send
  BY <1>7 DEF Send, store
<1>8. CASE \E s \in sends : ServerCompletes(s) \/ SendBreaks(s)
  <2>1. PICK s \in sends : ServerCompletes(s) \/ SendBreaks(s)
    BY <1>8
  <2>2. UNCHANGED <<annotation, notes, fetch, reviews, stale>>
    BY <2>1 DEF ServerCompletes, SendBreaks, review, store
  <2>3. (open' = open /\ due' = due) \/ (open' = None /\ due' = TRUE)
    <3>1. CASE ServerCompletes(s)
      BY <3>1 DEF ServerCompletes
    <3>2. CASE SendBreaks(s)
      BY <3>2 DEF SendBreaks, store
    <3>3. QED
      BY <2>1, <3>1, <3>2
  <2>4. DoneIsOver'
    <3>1. s \in Sends /\ None # s.id
      BY DEF Sends
    <3>2. CASE ServerCompletes(s) /\ open = s.id
      BY <3>1, <3>2 DEF ServerCompletes, Goes, Sends
    <3>3. CASE ServerCompletes(s) /\ open # s.id
      BY <3>1, <3>3 DEF ServerCompletes, Goes, Sends
    <3>4. CASE SendBreaks(s)
      BY <3>1, <3>4 DEF SendBreaks, Goes, Sends, store
    <3>5. QED
      BY <2>1, <3>2, <3>3, <3>4
  <2>5. QED
    BY <2>2, <2>3, <2>4
<1>9. CASE \E s \in sends : Answered(s)
  <2>1. PICK s \in sends : Answered(s)
    BY <1>9
  <2>2. /\ notes' = {} /\ annotation' = None /\ UNCHANGED <<fetch, open, due>>
        /\ stale' = (stale \/ annotation \notin {s.id, None})
        /\ s.phase = "done"
    BY <2>1 DEF Answered, store
  <2>3. DoneIsOver'
    <3>1. sends' = {Gone(t) : t \in sends \ {s}}
      BY <2>1 DEF Answered, Gone
    <3>2. QED
      BY <2>2, <3>1, GoneIsSame
  <2>4. NewIsUnseen'
    BY <2>2
  <2>5. Follows'
    BY <2>2
  <2>6. QED
    BY <2>2, <2>3, <2>4, <2>5
<1>10. CASE \E s \in sends : Refused(s)
  BY <1>10 DEF Refused, store
<1>11. CASE AgentAsks
  <2>1. reviews' = reviews + 1 /\ open' = reviews + 1 /\ due' /\ stale' = stale
        /\ UNCHANGED <<annotation, notes, sends, fetch>>
    BY <1>11 DEF AgentAsks, review
  <2>2. DoneIsOver'
    BY <2>1 DEF Sends
  <2>3. annotation # open' /\ open' \notin notes
    <3>1. reviews + 1 \in Reviews /\ reviews + 1 \notin Asked
      BY <1>11 DEF AgentAsks, Reviews
    <3>2. QED
      BY <2>1, <3>1 DEF Reviews
  <2>4. QED
    BY <2>1, <2>2, <2>3
<1>12. CASE AgentCancels
  <2>1. open' = None /\ due' /\ stale' = stale
        /\ UNCHANGED <<annotation, notes, sends, fetch>>
    BY <1>12 DEF AgentCancels, review
  <2>2. DoneIsOver'
    BY <2>1 DEF Sends
  <2>3. QED
    BY <2>1, <2>2
<1>13. QED
  BY <1>1, <1>2, <1>3, <1>4, <1>5, <1>6, <1>7, <1>8, <1>9, <1>10, <1>11, <1>12
  DEF PaneNext

\* Every step of the pane keeps its invariant.
LEMMA PaneStep == PaneKnows /\ [PaneNext]_paneVars => PaneKnows'
<1> SUFFICES ASSUME PaneKnows, [PaneNext]_paneVars PROVE PaneKnows'
  OBVIOUS
<1>1. PaneBounds'
  BY BoundsStep DEF PaneKnows
<1>2. PaneShown' /\ NoBlankSource'
  BY ShownStep DEF PaneKnows
<1>3. Related'
  BY RelatedStep DEF PaneKnows, Related
<1>4. QED
  BY <1>1, <1>2, <1>3 DEF PaneKnows, Related

\* A step discards comments only on a review that is over, or when the pane
\* knows that it is stale.
LEMMA NotesKept ==
    PaneKnows /\ [PaneNext]_paneVars => \A r \in notes \ notes' : r # open' \/ stale'
<1> SUFFICES ASSUME PaneKnows, [PaneNext]_paneVars, NEW r \in notes \ notes',
                    r = open'
             PROVE  stale'
  OBVIOUS
<1>0. None \notin Asked /\ r \in Asked
  BY NoReviewIsNone DEF PaneKnows, PaneBounds
<1>1. CASE Fetched
  <2>1. fetch.result = None /\ open = r /\ fetch # None /\ fetch.phase = "answered"
    BY <1>1 DEF Fetched, Displays, store
  <2>2. annotation = open
    BY <2>1 DEF PaneKnows, NotesAreShown
  <2>3. QED
    BY <2>1, <2>2, <1>0 DEF PaneKnows, NewIsUnseen
<1>2. CASE \E s \in sends : Answered(s)
  <2>1. PICK s \in sends : Answered(s)
    BY <1>2
  <2>2. open = r /\ s.phase = "done" /\ stale' = (stale \/ annotation \notin {s.id, None})
    BY <2>1 DEF Answered, store
  <2>3. annotation = r /\ s.id # r
    BY <2>2 DEF PaneKnows, NotesAreShown, DoneIsOver
  <2>4. QED
    BY <2>2, <2>3, <1>0
<1>3. CASE \/ \E s \in Sources : ClickTab(s) \/ ToggleSecond(s)
           \/ NextTab \/ Drag \/ FocusPane \/ UNCHANGED paneVars
  BY <1>3, TabStep
<1>4. CASE HearEvent \/ Retry \/ ServerReads \/ FetchFails \/ Comment \/ Send
           \/ AgentAsks \/ AgentCancels
  BY <1>4 DEF HearEvent, Retry, Fetches, ServerReads, FetchFails, Comment, Send,
              AgentAsks, AgentCancels, review
<1>5. CASE \E s \in sends : ServerCompletes(s) \/ SendBreaks(s) \/ Refused(s)
  BY <1>5 DEF ServerCompletes, SendBreaks, Refused, review
<1>6. QED
  BY <1>1, <1>2, <1>3, <1>4, <1>5 DEF PaneNext

\* When the terminal becomes the only source that is shown it is fitted again.
LEMMA Refitted == [PaneNext]_paneVars => (~SoleTerminal /\ SoleTerminal' => refit')
<1> SUFFICES ASSUME [PaneNext]_paneVars, ~SoleTerminal, SoleTerminal' PROVE refit'
  OBVIOUS
<1> USE PaneAssumption DEF PaneAssumption, SoleTerminal, Sources
<1>1. CASE \E s \in Sources : ClickTab(s)
  BY <1>1 DEF ClickTab, ChangeSource, Shows
<1>2. CASE \E s \in Sources : ToggleSecond(s)
  BY <1>2 DEF ToggleSecond, Shows
<1>3. CASE NextTab
  <2>1. PICK next : ChangeSource(next)
    BY <1>3 DEF NextTab
  <2>2. QED
    BY <2>1 DEF ChangeSource, Shows
<1>4. CASE Drag \/ FocusPane \/ UNCHANGED paneVars
  BY <1>4 DEF Drag, FocusPane, paneVars, tabs
<1>5. CASE HearEvent \/ Retry \/ ServerReads \/ FetchFails
  BY <1>5 DEF HearEvent, Retry, Fetches, ServerReads, FetchFails, tabs
<1>6. CASE Fetched
  BY <1>6 DEF Fetched, Shows
<1>7. CASE Comment \/ Send \/ AgentAsks \/ AgentCancels
  BY <1>7 DEF Comment, Send, AgentAsks, AgentCancels, tabs
<1>8. CASE \E s \in sends : ServerCompletes(s) \/ SendBreaks(s) \/ Refused(s)
  BY <1>8 DEF ServerCompletes, SendBreaks, Refused, tabs
<1>9. CASE \E s \in sends : Answered(s)
  BY <1>9 DEF Answered, Shows
<1>10. QED
  BY <1>1, <1>2, <1>3, <1>4, <1>5, <1>6, <1>7, <1>8, <1>9 DEF PaneNext

-----------------------------------------------------------------------------
(* The shared size of a terminal. *)

\* A finite set of numbers that is not empty has a greatest one.
LEMMA FiniteMax ==
    ASSUME NEW T \in SUBSET Nat, T # {}, IsFiniteSet(T)
    PROVE  Max(T) \in T
<1> DEFINE S == {n \in Nat : \A f \in [1..n -> Nat] :
                     n # 0 => \E i \in 1..n : \A j \in 1..n : f[i] >= f[j]}
<1>1. 0 \in S
  OBVIOUS
<1>2. ASSUME NEW n \in S PROVE n + 1 \in S
  <2>0. n + 1 \in Nat
    OBVIOUS
  <2>1. SUFFICES ASSUME NEW f \in [1..(n + 1) -> Nat]
                 PROVE  \E i \in 1..(n + 1) : \A j \in 1..(n + 1) : f[i] >= f[j]
    BY <2>0, Zenon
  <2>2. CASE n = 0
    <3>1. \A j \in 1..(n + 1) : j = 1
      BY <2>2
    <3>2. QED
      BY <2>2, <3>1
  <2>3. CASE n # 0
    <3> DEFINE g == [i \in 1..n |-> f[i]]
    <3>1. g \in [1..n -> Nat]
      OBVIOUS
    <3>2. PICK i \in 1..n : \A j \in 1..n : g[i] >= g[j]
      BY <2>3, <3>1
    <3>3. i \in 1..(n + 1) /\ n + 1 \in 1..(n + 1)
          /\ \A j \in 1..(n + 1) : j \in 1..n \/ j = n + 1
      OBVIOUS
    <3>4. \A j \in 1..n : f[i] >= f[j]
      BY <3>2
    <3>5. CASE f[i] >= f[n + 1]
      BY <3>3, <3>4, <3>5
    <3>6. CASE ~(f[i] >= f[n + 1])
      <4>1. \A j \in 1..n : f[n + 1] >= f[j]
        BY <3>3, <3>4, <3>6
      <4>2. QED
        BY <3>3, <4>1, f[n + 1] \in Nat, f[n + 1] >= f[n + 1]
    <3>7. QED
      BY <3>5, <3>6
  <2>4. QED
    BY <2>2, <2>3
<1>3. S = Nat
  <2> HIDE DEF S
  <2>1. S \in SUBSET Nat
    BY DEF S
  <2>2. QED
    BY <1>1, <1>2, <2>1, NatInduction1
<1> HIDE DEF S
<1>a. PICK n \in Nat : ExistsSurjection(1..n, T)
  BY FS_NatSurjection
<1>4. PICK f \in [1..n -> T] : \A x \in T : \E i \in 1..n : f[i] = x
  BY <1>a DEF ExistsSurjection, Surjection
<1>5. n # 0
  <2>1. SUFFICES ASSUME n = 0 PROVE FALSE
    OBVIOUS
  <2>2. 1..n = {}
    BY <2>1
  <2>3. QED
    BY <1>4, <2>2
<1>6. f \in [1..n -> Nat]
  OBVIOUS
<1>7. PICK i \in 1..n : \A j \in 1..n : f[i] >= f[j]
  BY <1>3, <1>5, <1>6 DEF S
<1>8. f[i] \in T /\ \A x \in T : f[i] >= x
  BY <1>4, <1>7
<1>9. QED
  BY <1>8 DEF Max

\* What a client can claim: its room, or nothing.
Claimed == Rooms \cup {0}

\* Types: the server knows the claims of the clients that are alive, and
\* messages carry claims.
SizesKnown ==
    /\ DOMAIN clients = alive
    /\ \A c \in DOMAIN clients : clients[c] \in Claimed
    /\ room \in [Views -> Rooms]
    /\ sent \in [Conns -> Seq(Claimed)]
    /\ size \in Rooms

\* The smallest claim is a room, and none that counts is smaller.
LEMMA ClaimsAreRooms ==
    ASSUME NEW next, \A c \in DOMAIN next : next[c] \in Claimed
    PROVE  /\ Claims(next) \subseteq Rooms
           /\ Claims(next) # {} => /\ Min(Claims(next)) \in Rooms
                                   /\ \A c \in DOMAIN next :
                                          next[c] # 0 => Min(Claims(next)) <= next[c]
           /\ Claims(next) = {} => \A c \in DOMAIN next : next[c] = 0
<1>1. Claims(next) \subseteq Rooms
  BY DEF Claims, Claimed
<1>2. \A c \in DOMAIN next : next[c] # 0 => next[c] \in Claims(next)
  BY DEF Claims
<1>3. ASSUME Claims(next) # {}
      PROVE  /\ Min(Claims(next)) \in Claims(next)
             /\ \A k \in Claims(next) : Min(Claims(next)) <= k
  <2>1. Claims(next) \in SUBSET Nat
    BY <1>1, SizesAssumption DEF SizesAssumption
  <2>2. \E m \in Claims(next) : \A k \in Claims(next) : m <= k
    BY <1>3, <2>1, NatMin
  <2>3. QED
    BY <2>2 DEF Min
<1>4. QED
  BY <1>1, <1>2, <1>3

\* The claims after one client changed its own.
LEMMA SetIsKnown ==
    ASSUME SizesKnown, NEW c, NEW claim \in Claimed
    PROVE  /\ DOMAIN Set(c, claim) = alive \cup {c}
           /\ \A d \in DOMAIN Set(c, claim) : Set(c, claim)[d] \in Claimed
           /\ \A d \in alive : d # c => Set(c, claim)[d] = clients[d]
           /\ Set(c, claim)[c] = claim
  BY DEF SizesKnown, Set

\* The claims after one client left.
LEMMA WithoutIsKnown ==
    ASSUME SizesKnown, NEW c
    PROVE  /\ DOMAIN Without(c) = alive \ {c}
           /\ \A d \in DOMAIN Without(c) : Without(c)[d] = clients[d]
  BY DEF SizesKnown, Without

\* Before any view connects the terminal has the largest size.
LEMMA SizesStart == SizesInit => SizesKnown /\ NeverTooLarge
<1> SUFFICES ASSUME SizesInit PROVE SizesKnown /\ NeverTooLarge
  OBVIOUS
<1>1. clients = <<>> /\ alive = {} /\ DOMAIN clients = {}
  BY DEF SizesInit
<1>2. sent \in [Conns -> Seq(Claimed)]
  BY DEF SizesInit
<1>3. size \in Rooms
  <2>1. size = Max(Rooms)
    BY DEF SizesInit
  <2>2. Max(Rooms) \in Rooms
    BY FiniteMax, SizesAssumption DEF SizesAssumption
  <2>3. QED
    BY <2>1, <2>2
<1>4. room \in [Views -> Rooms]
  BY DEF SizesInit
<1>5. QED
  BY <1>1, <1>2, <1>3, <1>4 DEF SizesKnown, NeverTooLarge

\* A view reports its room, or that it claims none, or nothing.
LEMMA CapacityIsClaimed ==
    ASSUME SizesKnown, NEW v \in Views, NEW last, NEW on
    PROVE  Capacity(v, last, on).message \in Seq(Claimed)
<1>1. room[v] \in Claimed /\ 0 \in Claimed
  BY DEF SizesKnown, Claimed
<1>2. <<>> \in Seq(Claimed) /\ <<0>> \in Seq(Claimed) /\ <<room[v]>> \in Seq(Claimed)
  BY <1>1
<1>3. Capacity(v, last, on).message \in {<<>>, <<0>>, <<room[v]>>}
  BY DEF Capacity, Claim
<1>4. QED
  BY <1>2, <1>3

\* So a report keeps the types of the messages.
LEMMA ReportsKeepKnown ==
    ASSUME SizesKnown, NEW v \in Views, NEW c, NEW last, NEW on,
           Reports(v, c, Capacity(v, last, on))
    PROVE  sent' \in [Conns -> Seq(Claimed)]
<1>1. Capacity(v, last, on).message \in Seq(Claimed)
  BY CapacityIsClaimed
<1>2. sent' = [sent EXCEPT ![c] = @ \o Capacity(v, last, on).message]
  BY DEF Reports
<1> HIDE DEF Capacity
<1>3. \A d \in Conns : sent[d] \o Capacity(v, last, on).message \in Seq(Claimed)
  BY <1>1 DEF SizesKnown
<1>4. QED
  BY <1>2, <1>3 DEF SizesKnown

\* What a view does by itself changes neither claims nor size.
LEMMA ViewStep ==
    ASSUME SizesKnown, NeverTooLarge, NEW v \in Views, View(v)
    PROVE  SizesKnown' /\ NeverTooLarge'
<1> USE DEF layout, browser, group
<1>1. CASE Report(v)
  <2>1. UNCHANGED <<clients, alive, room, size>>
    BY <1>1 DEF Report
  <2>2. sent' \in [Conns -> Seq(Claimed)]
    BY <1>1, ReportsKeepKnown DEF Report, SizesKnown
  <2>3. QED
    BY <2>1, <2>2 DEF SizesKnown, NeverTooLarge
<1>2. CASE Resized(v) \/ TogglesPane(v) \/ TogglesSource(v)
  <2>1. UNCHANGED <<clients, alive, sent, size>>
    BY <1>2 DEF Resized, TogglesPane, TogglesSource, Relaid
  <2>2. room' \in [Views -> Rooms]
    BY <1>2 DEF Resized, TogglesPane, TogglesSource, SizesKnown
  <2>3. QED
    BY <2>1, <2>2 DEF SizesKnown, NeverTooLarge
<1>3. CASE Connect(v)
  <2> DEFINE c == <<v, count[v] + 1>>
  <2>1. /\ clients' = Set(c, 0) /\ alive' = alive \cup {c}
        /\ UNCHANGED <<room, size>>
    BY <1>3 DEF Connect, Subscribe
  <2>2. sent' \in [Conns -> Seq(Claimed)]
    <3>1. Reports(v, c, Capacity(v, 0, FALSE))
      BY <1>3 DEF Connect
    <3>2. QED
      BY <3>1, ReportsKeepKnown
  <2> HIDE DEF c
  <2>3. /\ DOMAIN Set(c, 0) = alive \cup {c}
        /\ \A d \in DOMAIN Set(c, 0) : Set(c, 0)[d] \in Claimed
        /\ \A d \in alive : d # c => Set(c, 0)[d] = clients[d]
        /\ Set(c, 0)[c] = 0
    BY SetIsKnown DEF Claimed
  <2>4. QED
    BY <2>1, <2>2, <2>3 DEF SizesKnown, NeverTooLarge
<1>4. CASE ConnectionBreaks(v) \/ HearsClose(v) \/ Reconnects(v) \/ RemountView(v)
  BY <1>4 DEF ConnectionBreaks, HearsClose, Reconnects, RemountView, SizesKnown,
              NeverTooLarge
<1>5. QED
  BY <1>1, <1>2, <1>3, <1>4 DEF View

\* A size that follows the smallest claim when that changes is not too large.
LEMMA SizeFits ==
    ASSUME SizesKnown, NeverTooLarge, NEW next,
           \A d \in DOMAIN next : next[d] \in Claimed,
           ~Changed(next) \/ size' = Min(Claims(next)),
           ~Changed(next) => size' = size,
           Claims(next) = {} => size' = size,
           clients' = next
    PROVE  size' \in Rooms /\ NeverTooLarge'
<1>1. CASE Claims(next) = {}
  BY <1>1, ClaimsAreRooms DEF SizesKnown, NeverTooLarge
<1>2. CASE Claims(next) # {}
  <2>1. size' = Min(Claims(next))
    BY <1>2 DEF Changed
  <2>2. QED
    BY <1>2, <2>1, ClaimsAreRooms DEF NeverTooLarge
<1>3. QED
  BY <1>1, <1>2

\* The server takes the claim of a client.
LEMMA TakesStep ==
    ASSUME SizesKnown, NeverTooLarge, NEW c \in Conns, ServerTakesClaim(c)
    PROVE  SizesKnown' /\ NeverTooLarge'
<1> DEFINE next == Set(c, Head(sent[c]))
<1>1. /\ c \in alive /\ sent[c] # <<>> /\ sent' = [sent EXCEPT ![c] = Tail(@)]
      /\ UNCHANGED room
  BY DEF ServerTakesClaim, layout
<1>2. Head(sent[c]) \in Claimed /\ Tail(sent[c]) \in Seq(Claimed)
  BY <1>1 DEF SizesKnown
<1>3. sent' \in [Conns -> Seq(Claimed)]
  BY <1>1, <1>2 DEF SizesKnown
<1>4. /\ DOMAIN next = alive /\ \A d \in DOMAIN next : next[d] \in Claimed
  BY <1>1, <1>2, SetIsKnown
<1>5. \/ ~Changed(next) /\ clients' = next /\ UNCHANGED <<alive, size>>
      \/ Changed(next) /\ clients' = next /\ size' = Min(Claims(next)) /\ UNCHANGED alive
      \/ clients' = clients /\ UNCHANGED <<alive, size>>
      \/ clients' = Without(c) /\ alive' = alive \ {c} /\ UNCHANGED size
  BY DEF ServerTakesClaim, RolledBack
<1> HIDE DEF next
<1>6. CASE ~Changed(next) /\ clients' = next /\ UNCHANGED <<alive, size>>
  <2>1. size' \in Rooms /\ NeverTooLarge'
    BY <1>4, <1>6, SizeFits
  <2>2. QED
    BY <2>1, <1>1, <1>3, <1>4, <1>6 DEF SizesKnown
<1>7. CASE Changed(next) /\ clients' = next /\ size' = Min(Claims(next)) /\ UNCHANGED alive
  <2>1. size' \in Rooms /\ NeverTooLarge'
    BY <1>4, <1>7, SizeFits DEF Changed
  <2>2. QED
    BY <2>1, <1>1, <1>3, <1>4, <1>7 DEF SizesKnown
<1>8. CASE clients' = clients /\ UNCHANGED <<alive, size>>
  BY <1>1, <1>3, <1>8 DEF SizesKnown, NeverTooLarge
<1>9. CASE clients' = Without(c) /\ alive' = alive \ {c} /\ UNCHANGED size
  BY <1>1, <1>3, <1>9, WithoutIsKnown DEF SizesKnown, NeverTooLarge
<1>10. QED
  BY <1>5, <1>6, <1>7, <1>8, <1>9

\* The server forgets the claim of a client.
LEMMA LeavesStep ==
    ASSUME SizesKnown, NeverTooLarge, NEW c \in Conns, ServerLeaves(c)
    PROVE  SizesKnown' /\ NeverTooLarge'
<1> DEFINE next == Without(c)
<1>1. /\ c \in alive /\ alive' = alive \ {c} /\ clients' = next
      /\ sent' = [sent EXCEPT ![c] = <<>>] /\ UNCHANGED room
      /\ size' = size \/ (Changed(next) /\ size' = Min(Claims(next)))
  BY DEF ServerLeaves, layout
<1>2. /\ DOMAIN next = alive \ {c}
      /\ \A d \in DOMAIN next : next[d] = clients[d]
  BY WithoutIsKnown
<1>3. sent' \in [Conns -> Seq(Claimed)]
  BY <1>1 DEF SizesKnown
<1> HIDE DEF next
<1>4. CASE size' = size
  BY <1>1, <1>2, <1>3, <1>4 DEF SizesKnown, NeverTooLarge
<1>5. CASE Changed(next) /\ size' = Min(Claims(next))
  <2>1. \A d \in DOMAIN next : next[d] \in Claimed
    BY <1>2 DEF SizesKnown
  <2>2. size' \in Rooms /\ NeverTooLarge'
    BY <1>1, <1>5, <2>1, SizeFits DEF Changed
  <2>3. QED
    BY <1>1, <1>2, <1>3, <2>1, <2>2 DEF SizesKnown
<1>6. QED
  BY <1>1, <1>4, <1>5

\* Every step keeps the types and the size that fits.
LEMMA SizesStep ==
    SizesKnown /\ NeverTooLarge /\ [SizesNext]_sizesVars
        => SizesKnown' /\ NeverTooLarge'
<1>1. ASSUME SizesKnown, NeverTooLarge, UNCHANGED sizesVars
      PROVE  SizesKnown' /\ NeverTooLarge'
  BY <1>1 DEF sizesVars, layout, group, SizesKnown, NeverTooLarge
<1>2. QED
  BY <1>1, ViewStep, TakesStep, LeavesStep DEF SizesNext, Group

-----------------------------------------------------------------------------
(* The log of a transcript. *)

\* Induction over sequences, one entry after the other.
LEMMA AppendInduction ==
    ASSUME NEW S, NEW T \in SUBSET Seq(S), <<>> \in T,
           \A s \in T, e \in S : Append(s, e) \in T
    PROVE  T = Seq(S)
<1> DEFINE N == {n \in Nat : \A s \in Seq(S) : Len(s) = n => s \in T}
<1>1. 0 \in N
  <2>1. \A s \in Seq(S) : Len(s) = 0 => s = <<>>
    OBVIOUS
  <2>2. QED
    BY <2>1
<1>2. ASSUME NEW n \in N PROVE n + 1 \in N
  <2>0. n \in Nat /\ n + 1 \in Nat
    OBVIOUS
  <2>1. SUFFICES ASSUME NEW s \in Seq(S), Len(s) = n + 1 PROVE s \in T
    BY <2>0, Zenon
  <2>2. s # <<>>
    BY <2>0, <2>1
  <2>3. PICK t \in Seq(S), e \in S : s = Append(t, e)
    BY <2>2, SequenceEmptyOrAppend
  <2>4. Len(t) = n
    BY <2>0, <2>1, <2>3
  <2>5. QED
    BY <2>3, <2>4
<1>3. N = Nat
  <2> HIDE DEF N
  <2>1. N \in SUBSET Nat
    BY DEF N
  <2>2. QED
    BY <1>1, <1>2, <2>1, NatInduction1
<1>4. ASSUME NEW s \in Seq(S) PROVE s \in T
  <2>1. Len(s) \in N
    BY <1>3
  <2>2. QED
    BY <2>1
<1>5. QED
  BY <1>4

-----------------------------------------------------------------------------
\* The recursive function of MergedInto.
IsMerging(f, base, groups) ==
    f = [i \in 0..Len(groups) |->
             IF i = 0 THEN base ELSE Joined(f[i - 1], groups[i])]

\* It exists for one more group when it exists for the groups before.
LEMMA MergingGrows ==
    ASSUME NEW S, NEW groups \in Seq(S), NEW g \in S, NEW base, NEW f,
           IsMerging(f, base, groups)
    PROVE  \E h : /\ IsMerging(h, base, Append(groups, g))
                  /\ h[Len(groups) + 1] = Joined(f[Len(groups)], g)
<1> DEFINE n == Len(groups)
           new == Append(groups, g)
           h == [i \in 0..(n + 1) |-> IF i = n + 1 THEN Joined(f[n], g) ELSE f[i]]
<1>1. n \in Nat /\ Len(new) = n + 1 /\ new[n + 1] = g
      /\ \A i \in 1..n : new[i] = groups[i]
  OBVIOUS
<1>2. \A i \in 0..n : f[i] = IF i = 0 THEN base ELSE Joined(f[i - 1], groups[i])
  BY DEF IsMerging
<1>3. \A i \in 0..n : h[i] = f[i]
  BY <1>1
<1>4. h[n + 1] = Joined(f[n], g) /\ n + 1 \in 0..(n + 1)
  BY <1>1
<1>5. ASSUME NEW i \in 0..(n + 1)
      PROVE  h[i] = IF i = 0 THEN base ELSE Joined(h[i - 1], new[i])
  <2>1. CASE i = 0
    BY <1>1, <1>2, <1>3, <2>1
  <2>2. CASE i \in 1..n
    <3>1. i - 1 \in 0..n /\ i \in 0..n /\ i # 0
      BY <2>2, <1>1
    <3>2. h[i] = Joined(f[i - 1], groups[i])
      BY <3>1, <1>2, <1>3
    <3>3. QED
      BY <3>1, <3>2, <1>1, <1>3, <2>2
  <2>3. CASE i = n + 1
    <3>1. h[n] = f[n] /\ i - 1 = n /\ i # 0
      BY <1>1, <1>3, <2>3
    <3>2. QED
      BY <3>1, <1>1, <1>4, <2>3
  <2>4. i = 0 \/ i \in 1..n \/ i = n + 1
    BY <1>1
  <2>5. QED
    BY <2>1, <2>2, <2>3, <2>4
<1> HIDE DEF new
<1>6. h = [i \in 0..Len(new) |-> IF i = 0 THEN base ELSE Joined(h[i - 1], new[i])]
  <2>1. 0..Len(new) = 0..(n + 1)
    BY <1>1
  <2>2. h = [i \in 0..(n + 1) |-> h[i]]
    OBVIOUS
  <2> HIDE DEF h
  <2>3. [i \in 0..(n + 1) |-> h[i]]
            = [i \in 0..(n + 1) |-> IF i = 0 THEN base ELSE Joined(h[i - 1], new[i])]
    BY <1>5, Zenon
  <2>4. QED
    BY <2>1, <2>2, <2>3
<1>7. IsMerging(h, base, new)
  BY <1>6 DEF IsMerging
<1>8. QED
  BY <1>4, <1>7 DEF new

\* There is only one.
LEMMA MergingAgrees ==
    ASSUME NEW S, NEW groups \in Seq(S), NEW base, NEW f, NEW h,
           IsMerging(f, base, groups), IsMerging(h, base, groups)
    PROVE  f = h
<1> DEFINE n == Len(groups)
           Same == {i \in Nat : i <= n => f[i] = h[i]}
<1>1. n \in Nat
  OBVIOUS
<1>2. \A i \in 0..n : /\ f[i] = IF i = 0 THEN base ELSE Joined(f[i - 1], groups[i])
                      /\ h[i] = IF i = 0 THEN base ELSE Joined(h[i - 1], groups[i])
  BY DEF IsMerging
<1>3. 0 \in Same
  BY <1>1, <1>2
<1>4. ASSUME NEW i \in Same PROVE i + 1 \in Same
  <2>1. CASE i + 1 <= n
    <3>1. i + 1 \in 0..n /\ i + 1 # 0 /\ (i + 1) - 1 = i /\ i <= n
      BY <1>1, <2>1
    <3>2. f[i] = h[i]
      BY <3>1
    <3>3. f[i + 1] = Joined(f[i], groups[i + 1]) /\ h[i + 1] = Joined(h[i], groups[i + 1])
      BY <3>1, <1>2
    <3>4. QED
      BY <3>2, <3>3
  <2>2. QED
    BY <2>1
<1>5. Same = Nat
  <2> HIDE DEF Same
  <2>1. Same \in SUBSET Nat
    BY DEF Same
  <2>2. QED
    BY <1>3, <1>4, <2>1, NatInduction1
<1>6. \A i \in 0..n : f[i] = h[i]
  BY <1>1, <1>5
<1>7. f = [i \in 0..n |-> f[i]] /\ h = [i \in 0..n |-> h[i]]
  BY DEF IsMerging
<1>8. QED
  BY <1>6, <1>7

\* There is one for every sequence of groups.
LEMMA MergingExists ==
    ASSUME NEW S, NEW groups \in Seq(S), NEW base
    PROVE  \E f : IsMerging(f, base, groups)
<1> DEFINE T == {s \in Seq(S) : \E f : IsMerging(f, base, s)}
<1>1. <<>> \in T
  <2>1. IsMerging([i \in 0..0 |-> base], base, <<>>)
    BY DEF IsMerging
  <2>2. QED
    BY <2>1
<1>2. \A s \in T, e \in S : Append(s, e) \in T
  BY MergingGrows
<1>3. T = Seq(S)
  <2> HIDE DEF T
  <2>1. T \in SUBSET Seq(S)
    BY DEF T
  <2>2. QED
    BY <1>1, <1>2, <2>1, AppendInduction
<1>4. QED
  BY <1>3

\* So MergedInto is its last value.
LEMMA MergedIs ==
    ASSUME NEW S, NEW groups \in Seq(S), NEW base, NEW f,
           IsMerging(f, base, groups)
    PROVE  MergedInto(base, groups) = f[Len(groups)]
<1> DEFINE m == CHOOSE h : h = [i \in 0..Len(groups) |->
                     IF i = 0 THEN base ELSE Joined(h[i - 1], groups[i])]
<1>1. IsMerging(m, base, groups)
  BY DEF IsMerging
<1>2. MergedInto(base, groups) = m[Len(groups)]
  BY DEF MergedInto
<1> HIDE DEF m
<1>3. m = f
  BY <1>1, MergingAgrees
<1>4. QED
  BY <1>2, <1>3

\* Merging nothing leaves what there is.
LEMMA MergeNone == ASSUME NEW base PROVE MergedInto(base, <<>>) = base
<1> DEFINE f == [i \in 0..0 |-> base]
<1>1. IsMerging(f, base, <<>>) /\ f[0] = base /\ Len(<<>>) = 0
  BY DEF IsMerging
<1> HIDE DEF f
<1>2. <<>> \in Seq({})
  OBVIOUS
<1>3. QED
  BY <1>1, <1>2, MergedIs

\* Merging one more group joins it to what was merged.
LEMMA MergeMore ==
    ASSUME NEW S, NEW groups \in Seq(S), NEW g \in S, NEW base
    PROVE  MergedInto(base, Append(groups, g)) = Joined(MergedInto(base, groups), g)
<1>1. PICK f : IsMerging(f, base, groups)
  BY MergingExists
<1>2. PICK h : /\ IsMerging(h, base, Append(groups, g))
               /\ h[Len(groups) + 1] = Joined(f[Len(groups)], g)
  BY <1>1, MergingGrows
<1>3. Append(groups, g) \in Seq(S) /\ Len(Append(groups, g)) = Len(groups) + 1
  OBVIOUS
<1>4. MergedInto(base, Append(groups, g)) = h[Len(groups) + 1]
  BY <1>2, <1>3, MergedIs
<1>5. MergedInto(base, groups) = f[Len(groups)]
  BY <1>1, MergedIs
<1>6. QED
  BY <1>2, <1>4, <1>5

-----------------------------------------------------------------------------
(* Groups: adjacent calls and results, or one other entry. *)

\* What is merged is its front and its last group.
LEMMA LastOfGroups ==
    ASSUME NEW m \in Seq(Groups), m # <<>>
    PROVE  /\ Front(m) \in Seq(Groups) /\ Last(m) \in Groups
           /\ m = Append(Front(m), Last(m))
<1> USE DEF Front, Last
<1>1. PICK s \in Seq(Groups), g \in Groups : m = Append(s, g)
  BY SequenceEmptyOrAppend
<1>2. Len(m) = Len(s) + 1 /\ m[Len(m)] = g
  BY <1>1
<1>3. SubSeq(m, 1, Len(m) - 1) = s
  BY <1>1, <1>2
<1>4. QED
  BY <1>1, <1>2, <1>3

\* And the other way round.
LEMMA AppendParts ==
    ASSUME NEW m \in Seq(Groups), NEW g \in Groups
    PROVE  /\ Append(m, g) # <<>> /\ Front(Append(m, g)) = m
           /\ Last(Append(m, g)) = g /\ Append(m, g) \in Seq(Groups)
  BY DEF Front, Last

\* Two groups together are a group of the same kind.
LEMMA GroupsConcat ==
    ASSUME NEW g \in Groups, NEW h \in Groups
    PROVE  g \o h \in Groups /\ IsGroup(g \o h) = IsGroup(g)
<1>1. g \in Seq(Entry) /\ h \in Seq(Entry) /\ Len(g) > 0
  BY DEF Groups
<1>2. g \o h \in Seq(Entry) /\ Len(g \o h) = Len(g) + Len(h)
  BY <1>1
<1>3. (g \o h)[1] = g[1]
  BY <1>1
<1>4. QED
  BY <1>1, <1>2, <1>3 DEF Groups, IsGroup

\* Joining a group keeps the type.
LEMMA JoinedIsGroups ==
    ASSUME NEW m \in Seq(Groups), NEW g \in Groups
    PROVE  Joined(m, g) \in Seq(Groups)
  BY LastOfGroups, GroupsConcat, AppendParts DEF Joined

\* So does merging several.
LEMMA MergedIsGroups ==
    ASSUME NEW m \in Seq(Groups), NEW s \in Seq(Groups)
    PROVE  MergedInto(m, s) \in Seq(Groups)
<1> DEFINE T == {t \in Seq(Groups) : MergedInto(m, t) \in Seq(Groups)}
<1>1. <<>> \in T
  BY MergeNone
<1>2. \A t \in T, g \in Groups : Append(t, g) \in T
  BY MergeMore, JoinedIsGroups
<1>3. T = Seq(Groups)
  <2> HIDE DEF T
  <2>1. T \in SUBSET Seq(Groups)
    BY DEF T
  <2>2. QED
    BY <1>1, <1>2, <2>1, AppendInduction
<1>4. QED
  BY <1>3

\* Two adjacent groups can be joined one by one, or together.
LEMMA JoinTwice ==
    ASSUME NEW m \in Seq(Groups), NEW g \in Groups, NEW h \in Groups,
           IsGroup(g), IsGroup(h)
    PROVE  Joined(Joined(m, g), h) = Joined(m, g \o h)
<1>1. g \o h \in Groups /\ IsGroup(g \o h)
  BY GroupsConcat
<1>2. CASE m # <<>> /\ IsGroup(Last(m))
  <2>1. Front(m) \in Seq(Groups) /\ Last(m) \in Groups
    BY <1>2, LastOfGroups
  <2>2. Last(m) \o g \in Groups /\ IsGroup(Last(m) \o g)
    BY <1>2, <2>1, GroupsConcat
  <2>3. Joined(m, g) = Append(Front(m), Last(m) \o g)
    BY <1>2 DEF Joined
  <2>4. Joined(Joined(m, g), h) = Append(Front(m), (Last(m) \o g) \o h)
    <3> DEFINE a == Append(Front(m), Last(m) \o g)
    <3>1. a # <<>> /\ Front(a) = Front(m) /\ Last(a) = Last(m) \o g
      BY <2>1, <2>2, AppendParts
    <3> HIDE DEF a
    <3>2. Joined(a, h) = Append(Front(m), (Last(m) \o g) \o h)
      BY <2>2, <3>1 DEF Joined
    <3>3. QED
      BY <2>3, <3>2 DEF a
  <2>5. Joined(m, g \o h) = Append(Front(m), Last(m) \o (g \o h))
    BY <1>1, <1>2 DEF Joined
  <2>6. (Last(m) \o g) \o h = Last(m) \o (g \o h)
    BY <2>1, ConcatAssociative DEF Groups
  <2>7. QED
    BY <2>4, <2>5, <2>6
<1>3. CASE ~(m # <<>> /\ IsGroup(Last(m)))
  <2>1. Joined(m, g) = Append(m, g)
    BY <1>3 DEF Joined
  <2>2. Joined(Joined(m, g), h) = Append(m, g \o h)
    BY <2>1, AppendParts DEF Joined
  <2>3. Joined(m, g \o h) = Append(m, g \o h)
    BY <1>3 DEF Joined
  <2>4. QED
    BY <2>2, <2>3
<1>4. QED
  BY <1>2, <1>3

\* Merging can be cut anywhere.
LEMMA MergeConcat ==
    ASSUME NEW m \in Seq(Groups), NEW s \in Seq(Groups), NEW t \in Seq(Groups)
    PROVE  MergedInto(m, s \o t) = MergedInto(MergedInto(m, s), t)
<1> DEFINE T == {u \in Seq(Groups) :
                     MergedInto(m, s \o u) = MergedInto(MergedInto(m, s), u)}
<1>1. <<>> \in T
  <2>1. s \o <<>> = s /\ <<>> \in Seq(Groups)
    OBVIOUS
  <2>2. QED
    BY <2>1, MergeNone
<1>2. ASSUME NEW u \in T, NEW g \in Groups PROVE Append(u, g) \in T
  <2>1. s \o Append(u, g) = Append(s \o u, g) /\ s \o u \in Seq(Groups)
    OBVIOUS
  <2>2. MergedInto(m, s \o Append(u, g)) = Joined(MergedInto(m, s \o u), g)
    BY <2>1, MergeMore
  <2>3. MergedInto(MergedInto(m, s), Append(u, g))
            = Joined(MergedInto(MergedInto(m, s), u), g)
    BY MergeMore
  <2>4. Append(u, g) \in Seq(Groups)
    OBVIOUS
  <2>5. QED
    BY <2>2, <2>3, <2>4
<1>3. T = Seq(Groups)
  <2> HIDE DEF T
  <2>1. T \in SUBSET Seq(Groups)
    BY DEF T
  <2>2. QED
    BY <1>1, <1>2, <2>1, AppendInduction
<1>4. QED
  BY <1>3

\* Every record in a group of its own.
Single(q) == [i \in DOMAIN q |-> <<q[i]>>]

\* Its groups.
LEMMA SingleOf ==
    ASSUME NEW q \in Seq(Entry)
    PROVE  /\ Single(q) \in Seq(Groups) /\ Len(Single(q)) = Len(q)
           /\ \A i \in 1..Len(q) : Single(q)[i] = <<q[i]>>
<1>1. \A e \in Entry : <<e>> \in Groups
  BY DEF Groups
<1>2. QED
  BY <1>1 DEF Single

\* One more record is one more group.
LEMMA SingleAppend ==
    ASSUME NEW q \in Seq(Entry), NEW e \in Entry
    PROVE  <<e>> \in Groups /\ Single(Append(q, e)) = Append(Single(q), <<e>>)
<1> DEFINE p == Append(q, e)
           s == Append(Single(q), <<e>>)
           n == Len(q)
<1>1. <<e>> \in Groups
  BY DEF Groups
<1>2. /\ p \in Seq(Entry) /\ Len(p) = n + 1 /\ n \in Nat /\ p[n + 1] = e
      /\ \A i \in 1..n : p[i] = q[i]
  BY AppendProperties
<1>3. /\ s \in Seq(Groups) /\ Len(s) = n + 1 /\ s[n + 1] = <<e>>
      /\ \A i \in 1..n : s[i] = Single(q)[i]
  BY <1>1, SingleOf, AppendProperties
<1> HIDE DEF p, s, n
<1>4. /\ Single(p) \in Seq(Groups) /\ Len(Single(p)) = n + 1
      /\ \A i \in 1..(n + 1) : Single(p)[i] = <<p[i]>>
  BY <1>2, SingleOf
<1>5. \A i \in 1..n : Single(q)[i] = <<q[i]>>
  BY SingleOf DEF n
<1>6. ASSUME NEW i \in 1..(n + 1) PROVE Single(p)[i] = s[i]
  <2>1. CASE i \in 1..n
    BY <1>2, <1>3, <1>4, <1>5, <2>1
  <2>2. CASE i = n + 1
    BY <1>2, <1>3, <1>4, <2>2
  <2>3. QED
    BY <1>2, <2>1, <2>2
<1>7. Single(p) = s
  BY <1>3, <1>4, <1>6, SeqEqual
<1>8. QED
  BY <1>1, <1>7 DEF p, s

\* The groups of two pieces are the groups of both.
LEMMA SingleConcat ==
    ASSUME NEW q \in Seq(Entry), NEW r \in Seq(Entry)
    PROVE  Single(q \o r) = Single(q) \o Single(r)
<1> DEFINE p == q \o r
           a == Single(q)
           b == Single(r)
           s == a \o b
           n == Len(q)
           m == Len(r)
<1>1. /\ p \in Seq(Entry) /\ Len(p) = n + m /\ n \in Nat /\ m \in Nat
      /\ \A i \in 1..(n + m) : p[i] = IF i <= n THEN q[i] ELSE r[i - n]
  BY ConcatProperties
<1>2. a \in Seq(Groups) /\ Len(a) = n /\ \A i \in 1..n : a[i] = <<q[i]>>
  BY SingleOf
<1>3. b \in Seq(Groups) /\ Len(b) = m /\ \A i \in 1..m : b[i] = <<r[i]>>
  BY SingleOf
<1> HIDE DEF a, b, p
<1>4. /\ s \in Seq(Groups) /\ Len(s) = n + m
      /\ \A i \in 1..(n + m) : s[i] = IF i <= n THEN a[i] ELSE b[i - n]
  <2>1. a \in Seq(Groups) /\ b \in Seq(Groups)
    BY <1>2, <1>3
  <2>2. /\ s \in Seq(Groups) /\ Len(s) = Len(a) + Len(b)
        /\ \A i \in 1..(Len(a) + Len(b)) :
               s[i] = IF i <= Len(a) THEN a[i] ELSE b[i - Len(a)]
    BY <2>1, ConcatProperties, Zenon
  <2>3. QED
    BY <1>2, <1>3, <2>2
<1> HIDE DEF n, m, s
<1>5. /\ Single(p) \in Seq(Groups) /\ Len(Single(p)) = n + m
      /\ \A i \in 1..(n + m) : Single(p)[i] = <<p[i]>>
  BY <1>1, SingleOf
<1>6. ASSUME NEW i \in 1..(n + m) PROVE Single(p)[i] = s[i]
  <2>1. CASE i <= n
    <3>1. i \in 1..n
      BY <1>1, <2>1
    <3>2. QED
      BY <1>1, <1>2, <1>4, <1>5, <2>1, <3>1
  <2>2. CASE ~(i <= n)
    <3>1. i - n \in 1..m
      BY <1>1, <2>2
    <3>2. QED
      BY <1>1, <1>3, <1>4, <1>5, <2>2, <3>1
  <2>3. QED
    BY <2>1, <2>2
<1>7. Single(p) = s
  BY <1>4, <1>5, <1>6, SeqEqual
<1>8. QED
  BY <1>7 DEF p, s, a, b

\* Compact is merging records that stand alone.
LEMMA CompactParts ==
    ASSUME NEW q \in Seq(Entry)
    PROVE  /\ Compact(q) = MergedInto(<<>>, Single(q)) /\ Compact(q) \in Seq(Groups)
           /\ \A e \in Entry : Compact(Append(q, e)) = Joined(Compact(q), <<e>>)
<1>1. \A r : Compact(r) = MergedInto(<<>>, Single(r))
  BY DEF Compact, Merge, Single
<1>2. <<>> \in Seq(Groups)
  OBVIOUS
<1>3. QED
  BY <1>1, <1>2, SingleOf, SingleAppend, MergedIsGroups, MergeMore

\* Groups that were merged already can be merged as well as their records: what
\* the server compacts before it sends makes no difference.
LEMMA MergeCompacted ==
    ASSUME NEW m \in Seq(Groups), NEW q \in Seq(Entry)
    PROVE  MergedInto(m, Compact(q)) = MergedInto(m, Single(q))
<1> DEFINE T == {r \in Seq(Entry) : MergedInto(m, Compact(r)) = MergedInto(m, Single(r))}
<1>1. <<>> \in T
  <2>1. Single(<<>>) = <<>>
    BY DEF Single
  <2>2. Compact(<<>>) = <<>>
    BY <2>1, MergeNone DEF Compact, Merge, Single
  <2>3. QED
    BY <2>1, <2>2
<1>2. ASSUME NEW r \in T, NEW e \in Entry PROVE Append(r, e) \in T
  <2> DEFINE c == Compact(r)
             g == <<e>>
  <2>0. r \in Seq(Entry) /\ Append(r, e) \in Seq(Entry)
    OBVIOUS
  <2>1. c \in Seq(Groups) /\ g \in Groups /\ Single(r) \in Seq(Groups)
    BY <2>0, CompactParts, SingleOf, SingleAppend
  <2>2. MergedInto(m, c) = MergedInto(m, Single(r))
    OBVIOUS
  <2>3. Compact(Append(r, e)) = Joined(c, g)
    BY <2>0, CompactParts
  <2>4. Single(Append(r, e)) = Append(Single(r), g)
    BY <2>0, SingleAppend
  <2> HIDE DEF c, g
  <2>5. MergedInto(m, Single(Append(r, e))) = Joined(MergedInto(m, c), g)
    BY <2>1, <2>2, <2>4, MergeMore
  <2>6. MergedInto(m, Joined(c, g)) = Joined(MergedInto(m, c), g)
    <3>1. CASE c # <<>> /\ IsGroup(g) /\ IsGroup(Last(c))
      <4>1. Front(c) \in Seq(Groups) /\ Last(c) \in Groups
            /\ c = Append(Front(c), Last(c))
        BY <2>1, <3>1, LastOfGroups
      <4>2. Last(c) \o g \in Groups
        BY <2>1, <4>1, GroupsConcat
      <4>3. MergedInto(m, Joined(c, g)) = Joined(MergedInto(m, Front(c)), Last(c) \o g)
        BY <3>1, <4>1, <4>2, MergeMore DEF Joined
      <4>4. MergedInto(m, c) = Joined(MergedInto(m, Front(c)), Last(c))
        BY <4>1, MergeMore
      <4>5. MergedInto(m, Front(c)) \in Seq(Groups)
        BY <4>1, MergedIsGroups
      <4>6. QED
        BY <2>1, <3>1, <4>1, <4>3, <4>4, <4>5, JoinTwice
    <3>2. CASE ~(c # <<>> /\ IsGroup(g) /\ IsGroup(Last(c)))
      <4>1. Joined(c, g) = Append(c, g)
        BY <3>2 DEF Joined
      <4>2. QED
        BY <2>1, <4>1, MergeMore
    <3>3. QED
      BY <3>1, <3>2
  <2>7. QED
    BY <2>0, <2>3, <2>5, <2>6
<1>3. T = Seq(Entry)
  <2> HIDE DEF T
  <2>1. T \in SUBSET Seq(Entry)
    BY DEF T
  <2>2. QED
    BY <1>1, <1>2, <2>1, AppendInduction
<1>4. QED
  BY <1>3

\* mergeAdjacentToolGroups: two compacted pages that meet merge into the
\* compacted whole, also where a group of tool calls is cut by the page.
LEMMA PagesMeet ==
    ASSUME NEW q \in Seq(Entry), NEW r \in Seq(Entry)
    PROVE  Merge(Compact(q) \o Compact(r)) = Compact(q \o r)
<1>1. /\ Compact(q) \in Seq(Groups) /\ Compact(r) \in Seq(Groups)
      /\ Single(q) \in Seq(Groups) /\ Single(r) \in Seq(Groups)
      /\ <<>> \in Seq(Groups)
  BY CompactParts, SingleOf, SingleAppend
<1>2. Merge(Compact(q) \o Compact(r)) = MergedInto(MergedInto(<<>>, Compact(q)), Compact(r))
  BY <1>1, MergeConcat DEF Merge
<1>3. MergedInto(<<>>, Compact(q)) = MergedInto(<<>>, Single(q))
  BY <1>1, MergeCompacted
<1>4. MergedInto(<<>>, Single(q)) \in Seq(Groups)
  BY <1>1, MergedIsGroups
<1>5. Merge(Compact(q) \o Compact(r)) = MergedInto(MergedInto(<<>>, Single(q)), Single(r))
  BY <1>2, <1>3, <1>4, MergeCompacted
<1>6. MergedInto(MergedInto(<<>>, Single(q)), Single(r))
          = MergedInto(<<>>, Single(q) \o Single(r))
  BY <1>1, MergeConcat
<1>7. Single(q) \o Single(r) = Single(q \o r) /\ q \o r \in Seq(Entry)
  BY SingleConcat
<1>8. QED
  BY <1>5, <1>6, <1>7, CompactParts

-----------------------------------------------------------------------------
\* A page is not None.
LEMMA PageIsThere == \A p \in PageRecord : p # None
  BY LogAssumption DEF LogAssumption

\* The entries of a page are its stretch of the transcript, compacted.
Stretch(p) ==
    /\ p.start <= p.end
    /\ p.entries = Compact(SubSeq(Records[p.id], p.start + 1, p.end))

\* The transcripts, of which a part is written.
FileKnown ==
    /\ linked \in Transcripts /\ length \in [Transcripts -> Nat]
    /\ \A t \in Transcripts : length[t] <= Len(Records[t])

\* What is shown ends where the next poll will start.  Unless pages of two
\* transcripts were mixed, it is a stretch without a gap.
LogKnown ==
    /\ endCursor \in Nat \cup {None} /\ (log = None => endCursor = None)
    /\ log # None => InFile(log) /\ endCursor = log.end
    /\ log # None /\ ~mixed => Stretch(log)

\* A poll asks for what follows the log, and brings a stretch.
PollKnown ==
    poll # None =>
        /\ poll.after = endCursor
        /\ poll.phase = "answered" /\ poll.page # None =>
               InFile(poll.page) /\ Stretch(poll.page)

\* A request for older entries, and its answer.
MoreRecord ==
    [phase : {"asked"}, id : Transcripts, before : Nat, strayed : BOOLEAN]
        \cup [phase : {"answered"}, id : Transcripts, page : PageRecord,
              strayed : BOOLEAN]

\* A request for older entries asked for those before the log, and its answer
\* ends where the log starts, unless the log was replaced since.
MoreKnown ==
    more # None =>
        /\ more \in MoreRecord
        /\ more.phase = "asked" => more.before <= length[more.id]
        /\ more.phase = "answered" => InFile(more.page) /\ Stretch(more.page)
        /\ ~more.strayed /\ ~mixed =>
               /\ log.id = more.id
               /\ more.phase = "asked" => more.before = log.start
               /\ more.phase = "answered" /\ more.page.id = more.id =>
                      more.page.end = log.start

\* The inductive invariant of the log.
LogKnows == FileKnown /\ LogKnown /\ PollKnown /\ MoreKnown

\* Adjacent stretches of a transcript merge into one.
LEMMA StretchesMeet ==
    ASSUME NEW t \in Transcripts, NEW a \in Nat, NEW b \in Nat, NEW c \in Nat,
           a <= b, b <= c, c <= Len(Records[t])
    PROVE  Merge(Compact(SubSeq(Records[t], a + 1, b))
                     \o Compact(SubSeq(Records[t], b + 1, c)))
               = Compact(SubSeq(Records[t], a + 1, c))
<1> DEFINE R == Records[t]
<1>1. R \in Seq(Entry) /\ Len(R) \in Nat
  BY LogAssumption DEF LogAssumption
<1> HIDE DEF R
<1>2. SubSeq(R, a + 1, b) \in Seq(Entry) /\ SubSeq(R, b + 1, c) \in Seq(Entry)
  <2>1. \A i \in 1..Len(R) : R[i] \in Entry
    BY <1>1
  <2>2. c <= Len(R)
    BY DEF R
  <2>3. (\A i \in (a + 1)..b : R[i] \in Entry) /\ (\A i \in (b + 1)..c : R[i] \in Entry)
    BY <1>1, <2>1, <2>2
  <2>4. a + 1 \in Int /\ b + 1 \in Int /\ b \in Int /\ c \in Int
    OBVIOUS
  <2>5. QED
    BY <2>3, <2>4, SubSeqProperties
<1>3. SubSeq(R, a + 1, b) \o SubSeq(R, b + 1, c) = SubSeq(R, a + 1, c)
  <2>1. /\ a + 1 \in 1..(Len(R) + 1) /\ b \in ((a + 1) - 1)..Len(R) /\ c \in b..Len(R)
    BY <1>1 DEF R
  <2>2. QED
    BY <1>1, <2>1, ConcatAdjacentSubSeq
<1>4. QED
  BY <1>2, <1>3, PagesMeet DEF R

\* A page the server cuts is a stretch of the file.
LEMMA PageIsKnown ==
    ASSUME FileKnown, NEW t \in Transcripts, NEW start \in Nat, NEW end \in Nat,
           start <= end, end <= length[t], NEW older \in BOOLEAN
    PROVE  /\ InFile(Page(t, start, end, older)) /\ Stretch(Page(t, start, end, older))
           /\ Page(t, start, end, older).id = t /\ Page(t, start, end, older).end = end
<1> DEFINE q == SubSeq(Records[t], start + 1, end)
           page == Page(t, start, end, older)
<1>1. q \in Seq(Entry)
  <2>1. Records[t] \in Seq(Entry) /\ end <= Len(Records[t])
    BY LogAssumption DEF LogAssumption, FileKnown
  <2>2. \A i \in (start + 1)..end : Records[t][i] \in Entry
    BY <2>1
  <2>3. QED
    BY <2>2, SubSeqProperties
<1>2. Compact(q) \in Seq(Groups)
  BY <1>1, CompactParts
<1>3. page = [id |-> t, start |-> start, end |-> end,
              next |-> IF older /\ start > 0 THEN start ELSE None,
              entries |-> Compact(q)]
  BY DEF Page
<1> HIDE DEF q, page
<1>4. page \in PageRecord
  BY <1>2, <1>3 DEF PageRecord
<1>5. /\ page.id = t /\ page.start = start /\ page.end = end
      /\ page.next \in {None, start} /\ page.entries = Compact(q)
  BY <1>3
<1>6. InFile(page)
  <2>1. start <= length[t]
    BY DEF FileKnown
  <2>2. QED
    BY <1>4, <1>5, <2>1 DEF InFile
<1>7. Stretch(page)
  BY <1>5 DEF Stretch, q
<1>8. QED
  BY <1>5, <1>6, <1>7 DEF page

\* So is a page of older entries, and it ends where it was asked to.
LEMMA BeforeIsKnown ==
    ASSUME FileKnown, NEW t \in Transcripts, NEW before \in Nat
    PROVE  /\ InFile(Before(t, before)) /\ Stretch(Before(t, before))
           /\ before <= length[t] => Before(t, before).end = before
           /\ Before(t, before).id = t
<1> DEFINE end == IF before > length[t] THEN length[t] ELSE before
<1>1. end \in Nat /\ end <= length[t] /\ (before <= length[t] => end = before)
  BY DEF FileKnown
<1>2. Before(t, before) = Page(t, Floor(end), end, TRUE)
  BY DEF Before
<1> HIDE DEF end
<1>3. Floor(end) \in Nat /\ Floor(end) <= end
  BY <1>1, LogAssumption DEF LogAssumption, Floor
<1>4. /\ InFile(Page(t, Floor(end), end, TRUE)) /\ Stretch(Page(t, Floor(end), end, TRUE))
      /\ Page(t, Floor(end), end, TRUE).id = t /\ Page(t, Floor(end), end, TRUE).end = end
  <2>1. TRUE \in BOOLEAN
    OBVIOUS
  <2>2. QED
    BY <1>1, <1>3, <2>1, PageIsKnown
<1>5. QED
  BY <1>1, <1>2, <1>4

\* So is the answer to a poll.
LEMMA AfterIsKnown ==
    ASSUME FileKnown, NEW after \in Nat \cup {None}
    PROVE  InFile(After(linked, after)) /\ Stretch(After(linked, after))
<1>1. CASE after # None /\ after <= length[linked]
  <2> DEFINE end == IF after + PageRecords < length[linked] THEN after + PageRecords
                    ELSE length[linked]
  <2>1. end \in Nat /\ end <= length[linked] /\ after \in Nat /\ after <= end
    BY <1>1, LogAssumption DEF LogAssumption, FileKnown
  <2>2. After(linked, after) = Page(linked, after, end, FALSE)
    BY <1>1 DEF After
  <2> HIDE DEF end
  <2>3. linked \in Transcripts
    BY DEF FileKnown
  <2>4. FALSE \in BOOLEAN /\ end <= length[linked] /\ after <= end
    BY <2>1
  <2>5. InFile(Page(linked, after, end, FALSE)) /\ Stretch(Page(linked, after, end, FALSE))
    BY <2>1, <2>3, <2>4, PageIsKnown
  <2>6. QED
    BY <2>2, <2>5
<1>2. CASE ~(after # None /\ after <= length[linked])
  <2>1. After(linked, after) = Before(linked, length[linked])
    BY <1>2 DEF After
  <2>2. linked \in Transcripts /\ length[linked] \in Nat
    BY DEF FileKnown
  <2>3. QED
    BY <2>1, <2>2, BeforeIsKnown
<1>3. QED
  BY <1>1, <1>2

\* A log that was just mounted satisfies the invariant.
LEMMA LogStarts == LogInit => LogKnows
<1> SUFFICES ASSUME LogInit PROVE LogKnows
  OBVIOUS
<1>1. FileKnown
  BY DEF LogInit, FileKnown
<1>2. LogKnown /\ PollKnown /\ MoreKnown
  BY DEF LogInit, LogKnown, PollKnown, MoreKnown
<1>3. QED
  BY <1>1, <1>2 DEF LogKnows

\* A poll is sent, and answered.
LEMMA LogRead ==
    ASSUME LogKnows, Ask \/ ServerAnswers
    PROVE  LogKnows'
<1> USE DEF LogKnows, FileKnown, LogKnown, MoreKnown, file, view, InFile, Stretch
<1>1. UNCHANGED <<file, view, more, mixed>>
  BY DEF Ask, ServerAnswers
<1>2. FileKnown' /\ LogKnown' /\ MoreKnown'
  BY <1>1
<1>3. CASE Ask
  <2>1. poll' = [phase |-> "asked", etag |-> etag, after |-> endCursor]
    BY <1>3 DEF Ask
  <2>2. QED
    BY <1>1, <1>2, <2>1 DEF PollKnown
<1>4. CASE ServerAnswers
  <2> DEFINE page == After(linked, poll.after)
  <2>1. poll.after = endCursor
    BY <1>4 DEF ServerAnswers, PollKnown
  <2>2. InFile(page) /\ Stretch(page)
    BY <2>1, AfterIsKnown
  <2>3. poll'.after = poll.after /\ (poll'.page = None \/ poll'.page = page)
    BY <1>4 DEF ServerAnswers
  <2> HIDE DEF page
  <2>4. QED
    BY <1>1, <1>2, <2>1, <2>2, <2>3 DEF PollKnown
<1>5. QED
  BY <1>3, <1>4

\* The answer to a poll replaces the log, or is appended to it.
LEMMA LogRefreshed ==
    ASSUME LogKnows, Refreshed
    PROVE  LogKnows'
<1>1. /\ poll # None /\ poll.phase = "answered" /\ poll' = None
      /\ UNCHANGED <<linked, length>>
  BY DEF Refreshed, file
<1>2. FileKnown' /\ PollKnown'
  BY <1>1 DEF LogKnows, FileKnown, PollKnown
<1>3. CASE poll.page = None
  <2>1. UNCHANGED <<log, endCursor, more, mixed>>
    BY <1>3 DEF Refreshed
  <2>2. QED
    BY <1>1, <1>2, <2>1 DEF LogKnows, LogKnown, MoreKnown, InFile, Stretch
<1>4. CASE poll.page # None
  <2> DEFINE page == poll.page
  <2>1. InFile(page) /\ Stretch(page) /\ poll.after = endCursor
    BY <1>1, <1>4 DEF LogKnows, PollKnown
  <2>2. /\ log' = Shown(page, poll.after) /\ endCursor' = page.end
        /\ more' = IF Replaces(page, poll.after) /\ more # None
                   THEN [more EXCEPT !.strayed = TRUE] ELSE more
        /\ mixed' = (mixed /\ ~Replaces(page, poll.after))
    BY <1>4 DEF Refreshed
  <2> HIDE DEF page
  <2>3. CASE Replaces(page, poll.after)
    <3>1. log' = page /\ endCursor' = page.end /\ mixed' = FALSE
      BY <2>2, <2>3 DEF Shown
    <3>2. LogKnown'
      BY <1>1, <1>4, <2>1, <3>1 DEF LogKnown, InFile, Stretch, PageRecord, page
    <3>3. MoreKnown'
      <4>1. CASE more = None
        BY <2>2, <4>1 DEF MoreKnown
      <4>2. CASE more # None
        <5>1. more' = [more EXCEPT !.strayed = TRUE] /\ more \in MoreRecord
          BY <2>2, <2>3, <4>2 DEF LogKnows, MoreKnown
        <5>2. /\ more' \in MoreRecord /\ more'.strayed = TRUE /\ more'.phase = more.phase
              /\ more'.phase = "answered" => more'.page = more.page
              /\ more'.phase = "asked" => more'.before = more.before
              /\ more'.id = more.id
          BY <5>1 DEF MoreRecord
        <5>3. /\ more.phase = "answered" => InFile(more.page) /\ Stretch(more.page)
              /\ more.phase = "asked" => more.before <= length[more.id]
          BY <4>2 DEF LogKnows, MoreKnown
        <5>4. MoreRecord' = MoreRecord
          BY DEF MoreRecord, PageRecord
        <5>5. QED
          BY <1>1, <5>2, <5>3, <5>4 DEF MoreKnown, InFile, Stretch
      <4>3. QED
        BY <4>1, <4>2
    <3>4. QED
      BY <1>2, <3>2, <3>3 DEF LogKnows
  <2>4. CASE ~Replaces(page, poll.after)
    <3>1. /\ log # None /\ log.id = page.id /\ page.start = endCursor
          /\ log' = [log EXCEPT !.entries = Merge(@ \o page.entries), !.end = page.end]
          /\ more' = more /\ (mixed' <=> mixed)
      <4>1. log # None /\ log.id = page.id /\ page.start = endCursor
        BY <2>1, <2>4 DEF Replaces
      <4>2. log' = [log EXCEPT !.entries = Merge(@ \o page.entries), !.end = page.end]
        BY <2>2, <2>4, Zenon DEF Shown
      <4>3. more' = more /\ mixed' = (mixed /\ TRUE)
        BY <2>2, <2>4
      <4>4. QED
        BY <4>1, <4>2, <4>3
    <3>2. InFile(log) /\ endCursor = log.end
      BY <3>1 DEF LogKnows, LogKnown
    <3> DEFINE e == Merge(log.entries \o page.entries)
    <3>3. e \in Seq(Groups)
      <4>1. log.entries \in Seq(Groups) /\ page.entries \in Seq(Groups)
        BY <2>1, <3>2 DEF InFile, PageRecord
      <4>2. log.entries \o page.entries \in Seq(Groups) /\ <<>> \in Seq(Groups)
        BY <4>1
      <4>3. QED
        BY <4>2, MergedIsGroups DEF Merge
    <3> HIDE DEF e
    <3>4. log' = [log EXCEPT !.entries = e, !.end = page.end]
      BY <3>1 DEF e
    <3>5. /\ log' \in PageRecord /\ log'.id = log.id /\ log'.start = log.start
          /\ log'.end = page.end /\ log'.next = log.next /\ log'.entries = e
      BY <2>1, <3>2, <3>3, <3>4 DEF InFile, PageRecord
    <3>6. InFile(log)'
      BY <1>1, <2>1, <3>1, <3>2, <3>5 DEF InFile, PageRecord
    <3>7. ~mixed => Stretch(log)'
      <4>1. SUFFICES ASSUME ~mixed PROVE Stretch(log)'
        OBVIOUS
      <4>2. Stretch(log)
        BY <3>1, <4>1 DEF LogKnows, LogKnown
      <4>3. /\ log.start \in Nat /\ log.end \in Nat /\ page.end \in Nat
            /\ log.start <= log.end /\ page.start = log.end /\ page.start <= page.end
            /\ page.end <= length[log.id] /\ log.id \in Transcripts
        BY <2>1, <3>1, <3>2, <4>2 DEF InFile, PageRecord, Stretch
      <4>4. page.end <= Len(Records[log.id])
        BY <4>3, LogAssumption DEF LogKnows, FileKnown, LogAssumption
      <4>5. e = Compact(SubSeq(Records[log.id], log.start + 1, page.end))
        BY <2>1, <3>1, <4>2, <4>3, <4>4, StretchesMeet DEF e, Stretch
      <4>6. log.start <= page.end
        BY <4>3
      <4>7. QED
        BY <3>5, <4>5, <4>6 DEF Stretch
    <3>8. LogKnown'
      <4>1. endCursor' = page.end /\ page.end \in Nat
        BY <2>1, <2>2 DEF InFile, PageRecord
      <4>2. QED
        BY <3>1, <3>5, <3>6, <3>7, <4>1, PageIsThere DEF LogKnown
    <3>9. MoreKnown'
      <4>1. SUFFICES ASSUME more # None
                     PROVE  MoreKnown'
        BY <3>1 DEF MoreKnown
      <4>2. MoreRecord' = MoreRecord
        BY DEF MoreRecord, PageRecord
      <4>3. more.phase = "answered" => InFile(more.page)' /\ Stretch(more.page)'
        BY <1>1, <3>1, <4>1 DEF LogKnows, MoreKnown, InFile, Stretch, PageRecord
      <4>4. QED
        BY <1>1, <3>1, <3>5, <4>1, <4>2, <4>3 DEF LogKnows, MoreKnown
    <3>10. QED
      BY <1>2, <3>8, <3>9 DEF LogKnows
  <2>5. QED
    BY <2>3, <2>4
<1>5. QED
  BY <1>3, <1>4

\* Older entries are asked for, and read.
LEMMA LogOlder ==
    ASSUME LogKnows, LoadMore \/ ServerReadsOlder
    PROVE  LogKnows'
<1>1. UNCHANGED <<length, linked, log, endCursor, poll, mixed>>
  BY DEF LoadMore, ServerReadsOlder, file, view
<1>2. FileKnown' /\ LogKnown' /\ PollKnown' /\ MoreRecord' = MoreRecord
  BY <1>1 DEF LogKnows, FileKnown, LogKnown, PollKnown, InFile, Stretch, MoreRecord,
              PageRecord
<1>3. CASE LoadMore
  <2>1. /\ log # None /\ log.next # None
        /\ more' = [phase |-> "asked", id |-> log.id, before |-> log.next, strayed |-> FALSE]
    BY <1>3 DEF LoadMore
  <2>2. log \in PageRecord
    BY <2>1 DEF LogKnows, LogKnown, InFile
  <2>3. more' \in MoreRecord /\ more'.phase = "asked" /\ more'.id = log.id
        /\ more'.before = log.next
    BY <2>1, <2>2 DEF PageRecord, MoreRecord
  <2>4. log.next = log.start /\ log.start <= length[log.id]
    BY <2>1 DEF LogKnows, LogKnown, InFile
  <2>5. MoreKnown'
    BY <1>1, <1>2, <2>3, <2>4 DEF MoreKnown
  <2>6. QED
    BY <1>2, <2>5 DEF LogKnows
<1>4. CASE ServerReadsOlder
  <2> DEFINE page == Before(linked, more.before)
  <2>1. /\ more # None /\ more.phase = "asked" /\ more \in MoreRecord
        /\ more' = [phase |-> "answered", id |-> more.id, page |-> page,
                    strayed |-> more.strayed]
    BY <1>4 DEF ServerReadsOlder, LogKnows, MoreKnown
  <2>2. more.before \in Nat /\ more.id \in Transcripts /\ more.strayed \in BOOLEAN
    BY <2>1 DEF MoreRecord
  <2>3. linked \in Transcripts
    BY DEF LogKnows, FileKnown
  <2>4. /\ InFile(page) /\ Stretch(page) /\ page.id = linked
        /\ more.before <= length[linked] => page.end = more.before
    BY <2>2, <2>3, BeforeIsKnown DEF LogKnows
  <2> HIDE DEF page
  <2>5. /\ more' \in MoreRecord /\ more'.phase = "answered" /\ more'.id = more.id
        /\ more'.page = page /\ more'.strayed = more.strayed
    BY <2>1, <2>2, <2>4 DEF MoreRecord, InFile
  <2>6. InFile(more.page)' /\ Stretch(more.page)'
    BY <1>1, <2>4, <2>5 DEF InFile, Stretch, PageRecord
  <2>7. ASSUME ~more.strayed, ~mixed, page.id = more.id
        PROVE  page.end = log.start
    BY <2>1, <2>4, <2>7 DEF LogKnows, MoreKnown
  <2>8. MoreKnown'
    BY <1>1, <1>2, <2>1, <2>4, <2>5, <2>7 DEF LogKnows, MoreKnown, InFile, Stretch, PageRecord
  <2>9. QED
    BY <1>2, <2>8 DEF LogKnows
<1>5. QED
  BY <1>3, <1>4

\* Older entries are put in front, if they still meet the log.
LEMMA LogPrepended ==
    ASSUME LogKnows, Prepended
    PROVE  LogKnows'
<1>1. /\ more # None /\ more.phase = "answered" /\ more' = None
      /\ UNCHANGED <<length, linked, endCursor, poll>>
  BY DEF Prepended, file
<1>2. FileKnown' /\ PollKnown' /\ MoreKnown'
  BY <1>1 DEF LogKnows, FileKnown, PollKnown, MoreKnown, InFile, Stretch, PageRecord
<1> DEFINE page == more.page
<1>3. /\ InFile(page) /\ Stretch(page)
      /\ ~more.strayed /\ ~mixed /\ page.id = more.id => page.end = log.start
  BY <1>1 DEF LogKnows, MoreKnown
<1>4. CASE page.id = more.id /\ log # None /\ log.id = more.id
  <2>1. InFile(log) /\ endCursor = log.end
    BY <1>4 DEF LogKnows, LogKnown
  <2> DEFINE e == Merge(page.entries \o log.entries)
  <2>2. e \in Seq(Groups)
    <3>1. log.entries \in Seq(Groups) /\ page.entries \in Seq(Groups)
      BY <1>3, <2>1 DEF InFile, PageRecord
    <3>2. page.entries \o log.entries \in Seq(Groups) /\ <<>> \in Seq(Groups)
      BY <3>1
    <3>3. QED
      BY <3>2, MergedIsGroups DEF Merge
  <2>3. log' = [log EXCEPT !.entries = Merge(page.entries \o @), !.start = page.start,
                           !.next = page.next]
    BY <1>4, Zenon DEF Prepended
  <2>4. mixed' = (mixed \/ more.strayed)
    BY <1>4, Zenon DEF Prepended
  <2>5. log' = [log EXCEPT !.entries = e, !.start = page.start, !.next = page.next]
    BY <2>3
  <2> HIDE DEF e
  <2>6. /\ log' \in PageRecord /\ log'.id = log.id /\ log'.start = page.start
        /\ log'.end = log.end /\ log'.next = page.next /\ log'.entries = e
    BY <1>3, <2>1, <2>2, <2>5 DEF InFile, PageRecord
  <2>7. InFile(log)'
    BY <1>1, <1>3, <1>4, <2>1, <2>6 DEF InFile, PageRecord
  <2>8. ASSUME ~mixed' PROVE Stretch(log)'
    <3>1. ~mixed /\ ~more.strayed
      BY <2>4, <2>8
    <3>2. Stretch(log) /\ page.end = log.start
      BY <1>3, <1>4, <3>1 DEF LogKnows, LogKnown
    <3>3. /\ page.start \in Nat /\ page.end \in Nat /\ log.end \in Nat
          /\ page.start <= page.end /\ page.end <= log.end
          /\ log.end <= length[log.id] /\ log.id \in Transcripts
      BY <1>3, <2>1, <3>2 DEF InFile, PageRecord, Stretch
    <3>4. log.end <= Len(Records[log.id])
      BY <3>3, LogAssumption DEF LogKnows, FileKnown, LogAssumption
    <3>5. e = Compact(SubSeq(Records[log.id], page.start + 1, log.end))
      BY <1>3, <1>4, <3>2, <3>3, <3>4, StretchesMeet DEF e, Stretch
    <3>6. page.start <= log.end
      BY <3>3
    <3>7. QED
      BY <2>6, <3>5, <3>6 DEF Stretch
  <2>9. LogKnown'
    <3>1. endCursor' \in Nat \cup {None}
      BY <1>1 DEF LogKnows, LogKnown
    <3>2. QED
      BY <1>1, <2>1, <2>6, <2>7, <2>8, <3>1, PageIsThere DEF LogKnown
  <2>10. QED
    BY <1>2, <2>9 DEF LogKnows
<1>5. CASE ~(page.id = more.id /\ log # None /\ log.id = more.id)
  <2>1. UNCHANGED <<log, mixed>>
    BY <1>5, Zenon DEF Prepended
  <2>2. LogKnown'
    BY <1>1, <2>1 DEF LogKnows, LogKnown, InFile, Stretch, PageRecord
  <2>3. QED
    BY <1>2, <2>2 DEF LogKnows
<1>6. QED
  BY <1>4, <1>5

\* Faults, hiding, and what the agent writes or a new transcript brings.
LEMMA LogElse ==
    ASSUME LogKnows,
           \/ PollFails \/ OlderFails \/ Hide \/ Show \/ UNCHANGED logVars
           \/ \E t \in Transcripts : AgentWrites(t) \/ Link(t) \/ Remount(t)
    PROVE  LogKnows'
<1> USE DEF file, view
<1>1. CASE PollFails
  <2>1. UNCHANGED <<length, linked, log, endCursor, mixed, more>> /\ poll' = None
    BY <1>1 DEF PollFails
  <2>2. QED
    BY <2>1 DEF LogKnows, FileKnown, LogKnown, PollKnown, MoreKnown, InFile, Stretch,
                PageRecord, MoreRecord
<1>2. CASE OlderFails
  <2>1. UNCHANGED <<length, linked, log, endCursor, mixed, poll>> /\ more' = None
    BY <1>2 DEF OlderFails
  <2>2. QED
    BY <2>1 DEF LogKnows, FileKnown, LogKnown, PollKnown, MoreKnown, InFile, Stretch,
                PageRecord, MoreRecord
<1>3. CASE Hide
  <2>1. UNCHANGED <<length, linked, log, endCursor, mixed, more>> /\ poll' = None
    BY <1>3 DEF Hide
  <2>2. QED
    BY <2>1 DEF LogKnows, FileKnown, LogKnown, PollKnown, MoreKnown, InFile, Stretch,
                PageRecord, MoreRecord
<1>4. CASE Show \/ UNCHANGED logVars
  <2>1. UNCHANGED <<length, linked, log, endCursor, mixed, poll, more>>
    BY <1>4 DEF Show, logVars
  <2>2. QED
    BY <2>1 DEF LogKnows, FileKnown, LogKnown, PollKnown, MoreKnown, InFile, Stretch,
                PageRecord, MoreRecord
<1>5. CASE \E t \in Transcripts : Link(t)
  <2>1. UNCHANGED <<length, log, endCursor, mixed, poll, more>> /\ linked' \in Transcripts
    BY <1>5 DEF Link
  <2>2. QED
    BY <2>1 DEF LogKnows, FileKnown, LogKnown, PollKnown, MoreKnown, InFile, Stretch,
                PageRecord, MoreRecord
<1>6. CASE \E t \in Transcripts : Remount(t)
  <2>1. /\ UNCHANGED length /\ linked' \in Transcripts
        /\ log' = None /\ endCursor' = None /\ poll' = None /\ more' = None
    BY <1>6 DEF Remount
  <2>2. QED
    BY <2>1 DEF LogKnows, FileKnown, LogKnown, PollKnown, MoreKnown
<1>7. CASE \E t \in Transcripts : AgentWrites(t)
  <2>1. PICK t \in Transcripts : AgentWrites(t)
    BY <1>7
  <2>2. /\ UNCHANGED <<linked, log, endCursor, mixed, poll, more>>
        /\ length[t] < Len(Records[t]) /\ length' = [length EXCEPT ![t] = @ + 1]
    BY <2>1 DEF AgentWrites
  <2>3. FileKnown' /\ \A u \in Transcripts : length[u] <= length'[u]
    <3>1. \A u \in Transcripts : Len(Records[u]) \in Nat
      BY LogAssumption DEF LogAssumption
    <3>2. QED
      BY <2>2, <3>1 DEF LogKnows, FileKnown
  <2>4. \A p \in PageRecord : p.start <= length[p.id] /\ p.end <= length[p.id] =>
            p.start <= length'[p.id] /\ p.end <= length'[p.id]
    BY <2>3 DEF PageRecord, LogKnows, FileKnown
  <2>5. LogKnown'
    BY <2>2, <2>4 DEF LogKnows, LogKnown, InFile, Stretch, PageRecord
  <2>6. PollKnown'
    BY <2>2, <2>4 DEF LogKnows, PollKnown, InFile, Stretch, PageRecord
  <2>7. MoreRecord' = MoreRecord
    BY DEF MoreRecord, PageRecord
  <2>8. more # None /\ more.phase = "asked" => more.before <= length'[more.id]
    BY <2>3 DEF LogKnows, MoreKnown, MoreRecord, FileKnown
  <2>9. more # None /\ more.phase = "answered" => InFile(more.page)' /\ Stretch(more.page)'
    BY <2>2, <2>4 DEF LogKnows, MoreKnown, InFile, Stretch, PageRecord
  <2>10. MoreKnown'
    BY <2>2, <2>7, <2>8, <2>9 DEF LogKnows, MoreKnown
  <2>11. QED
    BY <2>3, <2>5, <2>6, <2>10 DEF LogKnows
<1>8. QED
  BY <1>1, <1>2, <1>3, <1>4, <1>5, <1>6, <1>7

\* Every step of the log keeps its invariant.
LEMMA LogStep == LogKnows /\ [LogNext]_logVars => LogKnows'
<1> SUFFICES ASSUME LogKnows, [LogNext]_logVars PROVE LogKnows'
  OBVIOUS
<1>1. QED
  BY LogRead, LogRefreshed, LogOlder, LogPrepended, LogElse DEF LogNext, LogProgress

-----------------------------------------------------------------------------
(* The output of a terminal. *)

-----------------------------------------------------------------------------
\* The chunks after a, up to b.
Run(d, a, b) ==
    /\ d \in Seq(Nat) /\ b = a + Len(d)
    /\ \A i \in 1..Len(d) : d[i] = a + i

\* They are determined by a and b.
RunOf(a, b) == [i \in 1..(b - a) |-> a + i]

\* A run is the one there is.
LEMMA RunIs ==
    ASSUME NEW d, NEW a \in Nat, NEW b \in Nat, Run(d, a, b)
    PROVE  a <= b /\ d = RunOf(a, b)
<1>1. Len(d) \in Nat /\ Len(d) = b - a
  BY DEF Run
<1>2. d = [i \in 1..Len(d) |-> d[i]]
  BY DEF Run
<1>3. QED
  BY <1>1, <1>2 DEF Run, RunOf

\* And that is one.
LEMMA RunOfIs ==
    ASSUME NEW a \in Nat, NEW b \in Nat, a <= b
    PROVE  Run(RunOf(a, b), a, b)
<1>1. b - a \in Nat /\ \A i \in 1..(b - a) : a + i \in Nat
  OBVIOUS
<1>2. RunOf(a, b) \in Seq(Nat) /\ Len(RunOf(a, b)) = b - a
  BY <1>1 DEF RunOf
<1>3. QED
  BY <1>1, <1>2 DEF Run, RunOf

\* Runs that meet are a run.
LEMMA RunConcat ==
    ASSUME NEW d, NEW e, NEW a \in Nat, NEW b \in Nat, NEW c \in Nat,
           Run(d, a, b), Run(e, b, c)
    PROVE  Run(d \o e, a, c)
<1> DEFINE s == d \o e
           n == Len(d)
           m == Len(e)
<1>1. d \in Seq(Nat) /\ e \in Seq(Nat) /\ n \in Nat /\ m \in Nat
  BY DEF Run
<1>2. /\ s \in Seq(Nat) /\ Len(s) = n + m
      /\ \A i \in 1..(n + m) : s[i] = IF i <= n THEN d[i] ELSE e[i - n]
  BY <1>1, ConcatProperties
<1>3. /\ b = a + n /\ c = b + m
      /\ \A i \in 1..n : d[i] = a + i
      /\ \A i \in 1..m : e[i] = b + i
  BY DEF Run
<1> HIDE DEF s, n, m
<1>4. ASSUME NEW i \in 1..(n + m) PROVE s[i] = a + i
  <2>1. CASE i <= n
    <3>1. i \in 1..n
      BY <1>1, <2>1
    <3>2. QED
      BY <1>1, <1>2, <1>3, <2>1, <3>1
  <2>2. CASE ~(i <= n)
    <3>1. i - n \in 1..m
      BY <1>1, <2>2
    <3>2. s[i] = e[i - n] /\ e[i - n] = b + (i - n)
      BY <1>1, <1>2, <1>3, <2>2, <3>1
    <3>3. QED
      BY <1>1, <1>3, <3>2
  <2>3. QED
    BY <2>1, <2>2
<1>5. s \in Seq(Nat) /\ Len(s) = n + m /\ c = a + (n + m)
  BY <1>1, <1>2, <1>3
<1>6. QED
  BY <1>4, <1>5 DEF Run, s

\* Nothing is a run.
LEMMA RunNone == ASSUME NEW a \in Nat PROVE Run(<<>>, a, a)
  BY DEF Run

\* The recursive function of FlattenSeq.
IsFlattening(f, seqs) ==
    f = [i \in 1..Len(seqs) |-> IF i = 1 THEN seqs[i] ELSE f[i - 1] \o seqs[i]]

\* The batcher: messages that follow each other are one, when flattened.
LEMMA FlattenRuns ==
    ASSUME NEW S, NEW seqs \in Seq(S), NEW p \in [0..Len(seqs) -> Nat],
           \A i \in 1..Len(seqs) : Run(seqs[i], p[i - 1], p[i])
    PROVE  Run(FlattenSeq(seqs), p[0], p[Len(seqs)])
<1> DEFINE n == Len(seqs)
<1>1. CASE n = 0
  <2>1. FlattenSeq(seqs) = seqs /\ seqs = <<>>
    BY <1>1 DEF FlattenSeq
  <2>2. QED
    BY <1>1, <2>1, RunNone
<1>2. CASE n # 0
  <2>1. n \in Nat /\ 1 \in 1..n /\ n \in 1..n
    BY <1>2
  <2> DEFINE F == [i \in 1..n |-> RunOf(p[0], p[i])]
  <2>2. ASSUME NEW i \in 1..n
        PROVE  p[0] <= p[i] /\ p[i - 1] <= p[i]
    <3> DEFINE T == {k \in Nat : k <= n => p[0] <= p[k]}
    <3>1. 0 \in T
      BY <2>1
    <3>2. ASSUME NEW k \in T PROVE k + 1 \in T
      <4>1. SUFFICES ASSUME k + 1 <= n PROVE p[0] <= p[k + 1]
        OBVIOUS
      <4>2. k \in 0..n /\ k + 1 \in 1..n /\ k + 1 \in 0..n /\ 0 \in 0..n /\ (k + 1) - 1 = k
        BY <4>1, <2>1
      <4>3. Run(seqs[k + 1], p[k], p[k + 1])
        BY <4>2
      <4>4. p[k] <= p[k + 1] /\ p[0] <= p[k]
        BY <4>1, <4>2, <4>3, RunIs
      <4>5. QED
        BY <4>2, <4>4
    <3>3. T = Nat
      <4> HIDE DEF T
      <4>1. T \in SUBSET Nat
        BY DEF T
      <4>2. QED
        BY <3>1, <3>2, <4>1, NatInduction1
    <3>4. i \in T /\ i <= n
      BY <3>3, <2>1
    <3>5. i - 1 \in 0..n /\ i \in 0..n
      BY <2>1
    <3>6. Run(seqs[i], p[i - 1], p[i])
      OBVIOUS
    <3>7. QED
      BY <3>4, <3>5, <3>6, RunIs
  <2>3. \A i \in 1..n : i \in 0..n /\ i - 1 \in 0..n
    BY <2>1
  <2>4. \A i \in 1..n : Run(RunOf(p[0], p[i]), p[0], p[i])
    BY <2>1, <2>2, <2>3, RunOfIs
  <2>5. ASSUME NEW i \in 1..n
        PROVE  RunOf(p[0], p[i]) = IF i = 1 THEN seqs[i] ELSE RunOf(p[0], p[i - 1]) \o seqs[i]
    <3>1. Run(seqs[i], p[i - 1], p[i]) /\ p[i - 1] \in Nat /\ p[i] \in Nat /\ p[0] \in Nat
      BY <2>1, <2>3
    <3>2. CASE i = 1
      BY <3>1, <3>2, RunIs
    <3>3. CASE i # 1
      <4>1. i - 1 \in 1..n
        BY <3>3, <2>1
      <4>2. Run(RunOf(p[0], p[i - 1]), p[0], p[i - 1])
        BY <2>4, <4>1
      <4>3. Run(RunOf(p[0], p[i - 1]) \o seqs[i], p[0], p[i])
        BY <3>1, <4>2, RunConcat
      <4> DEFINE d == RunOf(p[0], p[i - 1]) \o seqs[i]
      <4>a. Run(d, p[0], p[i])
        BY <4>3
      <4>4. d = RunOf(p[0], p[i])
        <5> HIDE DEF d
        <5> QED
          BY <3>1, <4>a, RunIs
      <4>5. QED
        BY <3>3, <4>4
    <3>4. QED
      BY <3>2, <3>3
  <2>6. IsFlattening(F, seqs)
    <3>1. ASSUME NEW i \in 1..n PROVE F[i] = IF i = 1 THEN seqs[i] ELSE F[i - 1] \o seqs[i]
      <4>1. i # 1 => i - 1 \in 1..n
        BY <2>1
      <4>2. F[i] = RunOf(p[0], p[i]) /\ (i # 1 => F[i - 1] = RunOf(p[0], p[i - 1]))
        BY <4>1
      <4>3. QED
        BY <2>5, <4>2
    <3>2. F = [i \in 1..n |-> F[i]]
      OBVIOUS
    <3> HIDE DEF F
    <3>3. [i \in 1..n |-> F[i]] = [i \in 1..n |-> IF i = 1 THEN seqs[i] ELSE F[i - 1] \o seqs[i]]
      BY <3>1, Zenon
    <3>4. QED
      BY <3>2, <3>3 DEF IsFlattening
  <2> DEFINE G == CHOOSE f : f = [i \in 1..Len(seqs) |->
                     IF i = 1 THEN seqs[i] ELSE f[i - 1] \o seqs[i]]
  <2>7. IsFlattening(G, seqs)
    BY <2>6 DEF IsFlattening
  <2>8. FlattenSeq(seqs) = G[n]
    BY <1>2 DEF FlattenSeq
  <2> HIDE DEF F, G
  <2>9. \A i \in 1..n : G[i] = IF i = 1 THEN seqs[i] ELSE G[i - 1] \o seqs[i]
    BY <2>7 DEF IsFlattening
  <2> DEFINE T == {k \in Nat : k + 1 <= n => Run(G[k + 1], p[0], p[k + 1])}
  <2>10. 0 \in T
    BY <2>1, <2>9
  <2>11. ASSUME NEW k \in T PROVE k + 1 \in T
    <3>1. SUFFICES ASSUME (k + 1) + 1 <= n PROVE Run(G[(k + 1) + 1], p[0], p[(k + 1) + 1])
      OBVIOUS
    <3> DEFINE i == (k + 1) + 1
    <3>2. i \in 1..n /\ i # 1 /\ i - 1 = k + 1 /\ k + 1 <= n /\ k + 1 \in 0..n /\ i \in 0..n
      BY <3>1, <2>1
    <3> HIDE DEF i
    <3>3. G[i] = G[i - 1] \o seqs[i] /\ Run(seqs[i], p[i - 1], p[i])
      BY <3>2, <2>9
    <3>4. Run(G[i - 1], p[0], p[i - 1])
      BY <3>2
    <3>5. p[0] \in Nat /\ p[i - 1] \in Nat /\ p[i] \in Nat
      BY <2>1, <3>2
    <3>6. Run(G[i], p[0], p[i])
      BY <3>3, <3>4, <3>5, RunConcat
    <3>7. QED
      BY <3>6 DEF i
  <2>12. T = Nat
    <3> HIDE DEF T
    <3>1. T \in SUBSET Nat
      BY DEF T
    <3>2. QED
      BY <2>10, <2>11, <3>1, NatInduction1
  <2>13. n - 1 \in Nat /\ (n - 1) + 1 = n /\ n <= n
    BY <2>1
  <2>14. n - 1 \in T
    BY <2>12, <2>13
  <2>15. QED
    BY <2>8, <2>13, <2>14
<1>3. QED
  BY <1>1, <1>2

-----------------------------------------------------------------------------
\* What the server sends.
Message ==
    [type : {"resize"}, at : Nat] \cup [type : {"history", "output"}, data : Seq(Nat)]
        \cup [type : {"history_end", "exit", "close"}]

\* A message takes the output from chunk a to chunk b.
Moves(m, a, b) ==
    \/ m.type = "resize" /\ m.at = a /\ b = a
    \/ m.type \in {"history", "output"} /\ Run(m.data, a, b)
    \/ m.type \in {"history_end", "exit", "close"} /\ b = a

\* The messages of a queue, one after the other, take it from a to b.
Links(s, a, b) ==
    \E p \in [0..Len(s) -> Nat] :
        /\ p[0] = a /\ p[Len(s)] = b
        /\ \A i \in 1..Len(s) : Moves(s[i], p[i - 1], p[i])

\* An empty queue leaves it where it is.
LEMMA LinksNone ==
    ASSUME NEW a \in Nat PROVE Links(<<>>, a, a) /\ \A b : Links(<<>>, a, b) => b = a
<1>1. Links(<<>>, a, a)
  <2> DEFINE p == [i \in 0..0 |-> a]
  <2>1. p \in [0..Len(<<>>) -> Nat] /\ p[0] = a /\ p[Len(<<>>)] = a
        /\ \A i \in 1..Len(<<>>) : FALSE
    OBVIOUS
  <2> HIDE DEF p
  <2>2. QED
    BY <2>1 DEF Links
<1>2. \A b : Links(<<>>, a, b) => b = a
  BY DEF Links
<1>3. QED
  BY <1>1, <1>2

\* One more message.
LEMMA LinksAppend ==
    ASSUME NEW S, NEW s \in Seq(S), NEW m \in S, NEW a \in Nat, NEW b \in Nat, NEW c \in Nat,
           Links(s, a, b), Moves(m, b, c)
    PROVE  Links(Append(s, m), a, c)
<1> DEFINE n == Len(s)
           t == Append(s, m)
<1>1. n \in Nat /\ Len(t) = n + 1 /\ t[n + 1] = m /\ \A i \in 1..n : t[i] = s[i]
  BY AppendProperties
<1>2. PICK p \in [0..n -> Nat] :
        /\ p[0] = a /\ p[n] = b
        /\ \A i \in 1..n : Moves(s[i], p[i - 1], p[i])
  BY DEF Links
<1> HIDE DEF n, t
<1> DEFINE q == [i \in 0..(n + 1) |-> IF i = n + 1 THEN c ELSE p[i]]
<1>3. q \in [0..(n + 1) -> Nat] /\ q[n + 1] = c /\ \A i \in 0..n : q[i] = p[i]
  BY <1>1
<1> HIDE DEF q
<1>4. q[0] = a /\ q[n] = b
  BY <1>1, <1>2, <1>3
<1>5. ASSUME NEW i \in 1..(n + 1) PROVE Moves(t[i], q[i - 1], q[i])
  <2>1. CASE i \in 1..n
    <3>1. i - 1 \in 0..n /\ i \in 0..n
      BY <1>1, <2>1
    <3>2. QED
      BY <1>1, <1>2, <1>3, <2>1, <3>1
  <2>2. CASE i = n + 1
    <3>1. i - 1 = n
      BY <1>1, <2>2
    <3>2. QED
      BY <1>1, <1>3, <1>4, <2>2, <3>1
  <2>3. QED
    BY <1>1, <2>1, <2>2
<1>6. QED
  BY <1>1, <1>3, <1>4, <1>5 DEF Links, t

\* A queue can be cut anywhere.
LEMMA LinksSplit ==
    ASSUME NEW S, NEW s \in Seq(S), NEW n \in 0..Len(s), NEW a \in Nat, NEW b \in Nat,
           Links(s, a, b)
    PROVE  \E c \in Nat : /\ Links(SubSeq(s, 1, n), a, c)
                          /\ Links(SubSeq(s, n + 1, Len(s)), c, b)
<1> DEFINE l == Len(s)
           t == SubSeq(s, 1, n)
           u == SubSeq(s, n + 1, l)
<1>1. l \in Nat /\ n \in Nat /\ n <= l
  OBVIOUS
<1>2. /\ Len(t) = n /\ \A i \in 1..n : t[i] = s[i]
      /\ Len(u) = l - n /\ \A i \in 1..(l - n) : u[i] = s[n + i]
  <2>1. \A i \in 1..l : s[i] \in S
    OBVIOUS
  <2>2. (\A i \in 1..n : s[i] \in S) /\ (\A i \in (n + 1)..l : s[i] \in S)
    BY <1>1, <2>1
  <2>3. 1 \in Int /\ n \in Int /\ n + 1 \in Int /\ l \in Int
    BY <1>1
  <2>4. Len(t) = (IF 1 <= n THEN n - 1 + 1 ELSE 0) /\ \A i \in 1..(n - 1 + 1) : t[i] = s[1 + i - 1]
    BY <2>2, <2>3, SubSeqProperties
  <2>5. Len(u) = (IF n + 1 <= l THEN l - (n + 1) + 1 ELSE 0)
        /\ \A i \in 1..(l - (n + 1) + 1) : u[i] = s[(n + 1) + i - 1]
    BY <2>2, <2>3, SubSeqProperties
  <2>6. \A i \in 1..n : 1 + i - 1 = i
    OBVIOUS
  <2>7. \A i \in 1..(l - n) : (n + 1) + i - 1 = n + i
    BY <1>1
  <2>8. QED
    BY <1>1, <2>4, <2>5, <2>6, <2>7
<1>3. PICK p \in [0..l -> Nat] :
        /\ p[0] = a /\ p[l] = b
        /\ \A i \in 1..l : Moves(s[i], p[i - 1], p[i])
  BY DEF Links
<1> HIDE DEF l, t, u
<1> DEFINE q == [i \in 0..n |-> p[i]]
           r == [i \in 0..(l - n) |-> p[n + i]]
<1>4. /\ q \in [0..n -> Nat] /\ \A i \in 0..n : q[i] = p[i]
      /\ r \in [0..(l - n) -> Nat] /\ \A i \in 0..(l - n) : r[i] = p[n + i]
  BY <1>1
<1> HIDE DEF q, r
<1>5. p[n] \in Nat /\ q[0] = a /\ q[n] = p[n] /\ r[0] = p[n] /\ r[l - n] = b
  BY <1>1, <1>3, <1>4
<1>6. ASSUME NEW i \in 1..n PROVE Moves(t[i], q[i - 1], q[i])
  <2>1. i \in 1..l /\ i \in 0..n /\ i - 1 \in 0..n
    BY <1>1
  <2>2. QED
    BY <1>2, <1>3, <1>4, <2>1
<1>7. ASSUME NEW i \in 1..(l - n) PROVE Moves(u[i], r[i - 1], r[i])
  <2>1. n + i \in 1..l /\ i \in 0..(l - n) /\ i - 1 \in 0..(l - n) /\ n + (i - 1) = (n + i) - 1
    BY <1>1
  <2>2. QED
    BY <1>2, <1>3, <1>4, <2>1
<1>8. Links(t, a, p[n])
  BY <1>2, <1>4, <1>5, <1>6 DEF Links
<1>9. Links(u, p[n], b)
  BY <1>2, <1>4, <1>5, <1>7 DEF Links
<1>10. QED
  BY <1>5, <1>8, <1>9 DEF t, u, l

\* A queue of one message.
LEMMA LinksOne ==
    ASSUME NEW m, NEW a \in Nat, NEW b \in Nat
    PROVE  Links(<<m>>, a, b) <=> Moves(m, a, b)
<1>1. ASSUME Moves(m, a, b) PROVE Links(<<m>>, a, b)
  <2>1. Links(<<>>, a, a) /\ <<>> \in Seq({m}) /\ m \in {m}
    BY LinksNone
  <2>2. Links(Append(<<>>, m), a, b)
    BY <1>1, <2>1, LinksAppend
  <2>3. QED
    BY <2>2
<1>2. ASSUME Links(<<m>>, a, b) PROVE Moves(m, a, b)
  <2>1. Len(<<m>>) = 1 /\ <<m>>[1] = m
    OBVIOUS
  <2>2. PICK p \in [0..1 -> Nat] :
          /\ p[0] = a /\ p[1] = b
          /\ \A i \in 1..1 : Moves(<<m>>[i], p[i - 1], p[i])
    BY <1>2, <2>1 DEF Links
  <2>3. Moves(<<m>>[1], p[1 - 1], p[1]) /\ 1 - 1 = 0
    BY <2>2
  <2>4. QED
    BY <2>1, <2>2, <2>3
<1>3. QED
  BY <1>1, <1>2

\* A piece of length one.
LEMMA Alone ==
    ASSUME NEW S, NEW s \in Seq(S), NEW k \in 1..Len(s)
    PROVE  SubSeq(s, k, k) = <<s[k]>>
<1> DEFINE t == SubSeq(s, k, k)
<1>1. k \in Int /\ \A i \in k..k : s[i] \in S
  OBVIOUS
<1>2. t \in Seq(S) /\ Len(t) = (IF k <= k THEN k - k + 1 ELSE 0)
      /\ \A i \in 1..(k - k + 1) : t[i] = s[k + i - 1]
  BY <1>1, SubSeqProperties
<1>3. Len(t) = 1 /\ t[1] = s[k]
  BY <1>1, <1>2
<1> HIDE DEF t
<1>4. t = <<s[k]>>
  BY <1>2, <1>3
<1>5. QED
  BY <1>4 DEF t

\* The first message and the rest.
LEMMA LinksFirst ==
    ASSUME NEW S, NEW s \in Seq(S), s # <<>>, NEW a \in Nat, NEW b \in Nat, Links(s, a, b)
    PROVE  \E c \in Nat : Moves(Head(s), a, c) /\ Links(Tail(s), c, b)
<1>1. 1 \in 0..Len(s)
  OBVIOUS
<1>2. PICK c \in Nat : Links(SubSeq(s, 1, 1), a, c) /\ Links(SubSeq(s, 1 + 1, Len(s)), c, b)
  BY <1>1, LinksSplit
<1>3. SubSeq(s, 1, 1) = <<Head(s)>> /\ SubSeq(s, 1 + 1, Len(s)) = Tail(s)
  <2>1. SubSeq(s, 1 + 1, Len(s)) = Tail(s)
    BY TailIsSubSeq
  <2>2. SubSeq(s, 1, 1) = <<s[1]>>
    BY Alone
  <2>3. QED
    BY <2>1, <2>2
<1>4. QED
  BY <1>2, <1>3, LinksOne

\* The last message and those before.
LEMMA LinksFrontLast ==
    ASSUME NEW S, NEW s \in Seq(S), s # <<>>, NEW a \in Nat, NEW b \in Nat, Links(s, a, b)
    PROVE  \E c \in Nat : Links(Front(s), a, c) /\ Moves(Last(s), c, b)
<1> DEFINE n == Len(s) - 1
<1>1. n \in 0..Len(s) /\ n + 1 = Len(s)
  OBVIOUS
<1>2. PICK c \in Nat : Links(SubSeq(s, 1, n), a, c) /\ Links(SubSeq(s, n + 1, Len(s)), c, b)
  BY <1>1, LinksSplit
<1>3. SubSeq(s, n + 1, Len(s)) = <<Last(s)>> /\ SubSeq(s, 1, n) = Front(s)
  <2>1. SubSeq(s, Len(s), Len(s)) = <<s[Len(s)]>>
    <3>1. Len(s) \in 1..Len(s)
      OBVIOUS
    <3>2. QED
      BY <3>1, Alone
  <2>2. QED
    BY <1>1, <2>1 DEF Front, Last
<1>4. QED
  BY <1>2, <1>3, LinksOne

\* Two queues, one after the other.
LEMMA LinksConcat ==
    ASSUME NEW S, NEW s \in Seq(S), NEW t \in Seq(S),
           NEW a \in Nat, NEW b \in Nat, NEW c \in Nat, Links(s, a, b), Links(t, b, c)
    PROVE  Links(s \o t, a, c)
<1> DEFINE n == Len(s)
           m == Len(t)
           u == s \o t
<1>1. n \in Nat /\ m \in Nat
  OBVIOUS
<1>2. /\ Len(u) = n + m
      /\ \A i \in 1..(n + m) : u[i] = IF i <= n THEN s[i] ELSE t[i - n]
  BY ConcatProperties
<1>3. PICK p \in [0..n -> Nat] :
        p[0] = a /\ p[n] = b /\ \A i \in 1..n : Moves(s[i], p[i - 1], p[i])
  BY DEF Links
<1>4. PICK q \in [0..m -> Nat] :
        q[0] = b /\ q[m] = c /\ \A i \in 1..m : Moves(t[i], q[i - 1], q[i])
  BY DEF Links
<1> HIDE DEF n, m, u
<1> DEFINE r == [i \in 0..(n + m) |-> IF i <= n THEN p[i] ELSE q[i - n]]
<1>5. /\ r \in [0..(n + m) -> Nat]
      /\ \A i \in 0..(n + m) : r[i] = IF i <= n THEN p[i] ELSE q[i - n]
  BY <1>1
<1> HIDE DEF r
<1>6. /\ \A i \in 0..n : r[i] = p[i]
      /\ \A i \in 0..m : r[n + i] = q[i]
  <2>1. \A i \in 0..n : i \in 0..(n + m) /\ i <= n
    BY <1>1
  <2>2. ASSUME NEW i \in 0..m PROVE r[n + i] = q[i]
    <3>1. n + i \in 0..(n + m) /\ (n + i) - n = i
      BY <1>1
    <3>2. CASE i = 0
      BY <1>1, <1>3, <1>4, <1>5, <3>1, <3>2
    <3>3. CASE i # 0
      <4>1. ~(n + i <= n)
        BY <1>1, <3>3
      <4>2. QED
        BY <1>5, <3>1, <4>1
    <3>4. QED
      BY <3>2, <3>3
  <2>3. QED
    BY <1>5, <2>1, <2>2
<1>7. r[0] = a /\ r[n + m] = c
  BY <1>1, <1>3, <1>4, <1>6
<1>8. ASSUME NEW i \in 1..(n + m) PROVE Moves(u[i], r[i - 1], r[i])
  <2>1. CASE i <= n
    <3>1. i \in 1..n /\ i \in 0..n /\ i - 1 \in 0..n
      BY <1>1, <2>1
    <3>2. u[i] = s[i] /\ r[i] = p[i] /\ r[i - 1] = p[i - 1]
      BY <1>2, <1>6, <2>1, <3>1
    <3>3. QED
      BY <1>3, <3>1, <3>2
  <2>2. CASE ~(i <= n)
    <3> DEFINE j == i - n
    <3>1. j \in 1..m /\ j \in 0..m /\ j - 1 \in 0..m /\ n + j = i /\ n + (j - 1) = i - 1
      BY <1>1, <2>2
    <3>2. u[i] = t[j]
      BY <1>2, <2>2
    <3> HIDE DEF j
    <3>3. r[i] = q[j] /\ r[i - 1] = q[j - 1]
      BY <1>6, <3>1
    <3>4. QED
      BY <1>4, <3>1, <3>2, <3>3
  <2>3. QED
    BY <2>1, <2>2
<1>9. QED
  BY <1>2, <1>5, <1>7, <1>8 DEF Links, u

\* Flattening nothing, two pieces, one.
LEMMA FlattenNothing == FlattenSeq(<<>>) = <<>>
  BY DEF FlattenSeq

\* Two pieces that meet.
LEMMA FlattenPair ==
    ASSUME NEW S, NEW s \in Seq(S), Len(s) = 2, NEW a \in Nat, NEW b \in Nat, NEW c \in Nat,
           Run(s[1], a, b), Run(s[2], b, c)
    PROVE  Run(FlattenSeq(s), a, c)
<1> DEFINE p == [i \in 0..2 |-> IF i = 0 THEN a ELSE IF i = 1 THEN b ELSE c]
<1>2. p \in [0..2 -> Nat] /\ p[0] = a /\ p[1] = b /\ p[2] = c
  OBVIOUS
<1> HIDE DEF p
<1>3. ASSUME NEW i \in 1..2 PROVE Run(s[i], p[i - 1], p[i])
  <2>1. CASE i = 1
    BY <1>2, <2>1
  <2>2. CASE i = 2
    BY <1>2, <2>2
  <2>3. QED
    BY <2>1, <2>2
<1>4. Run(FlattenSeq(s), p[0], p[Len(s)])
  BY <1>2, <1>3, FlattenRuns
<1>5. QED
  BY <1>2, <1>4

\* One piece.
LEMMA FlattenSingle ==
    ASSUME NEW x, NEW a \in Nat, NEW b \in Nat, Run(x, a, b)
    PROVE  Run(FlattenSeq(<<x>>), a, b)
<1> DEFINE s == <<x>>
           p == [i \in 0..1 |-> IF i = 0 THEN a ELSE b]
<1>1. s \in Seq({x}) /\ Len(s) = 1 /\ s[1] = x
  OBVIOUS
<1>2. p \in [0..1 -> Nat] /\ p[0] = a /\ p[1] = b
  OBVIOUS
<1> HIDE DEF s, p
<1>3. ASSUME NEW i \in 1..1 PROVE Run(s[i], p[i - 1], p[i])
  BY <1>1, <1>2
<1>4. Run(FlattenSeq(s), p[0], p[Len(s)])
  BY <1>1, <1>2, <1>3, FlattenRuns
<1>5. QED
  BY <1>1, <1>2, <1>4 DEF s

\* flush: what is batched is handed over whole.
LEMMA FlushedRuns ==
    ASSUME NEW a \in Nat, NEW b \in Nat, Run(batch, a, b)
    PROVE  Run(FlattenSeq(Flushed), a, b)
<1>1. CASE batch = <<>>
  BY <1>1, FlattenNothing DEF Flushed
<1>2. CASE batch # <<>>
  BY <1>2, FlattenSingle DEF Flushed
<1>3. QED
  BY <1>1, <1>2

\* It goes before the output that just came.
LEMMA FlushedPair ==
    ASSUME NEW a \in Nat, NEW b \in Nat, NEW c \in Nat, NEW y, Run(batch, a, b), Run(y, b, c)
    PROVE  Run(FlattenSeq(Flushed \o <<y>>), a, c)
<1>1. CASE batch = <<>>
  <2>1. a = b
    BY <1>1, RunIs DEF Run
  <2>2. Flushed \o <<y>> = <<y>>
    BY <1>1 DEF Flushed
  <2>3. QED
    BY <2>1, <2>2, FlattenSingle
<1>2. CASE batch # <<>>
  <2> DEFINE u == <<batch>>
             v == <<y>>
             s == u \o v
  <2>1. /\ u \in Seq({batch, y}) /\ Len(u) = 1 /\ u[1] = batch
        /\ v \in Seq({batch, y}) /\ Len(v) = 1 /\ v[1] = y
    OBVIOUS
  <2> HIDE DEF u, v
  <2> DEFINE S == {batch, y}
  <2>a. u \in Seq(S) /\ v \in Seq(S)
    BY <2>1
  <2> HIDE DEF S
  <2>2. /\ s \in Seq(S) /\ Len(s) = Len(u) + Len(v)
        /\ \A i \in 1..(Len(u) + Len(v)) : s[i] = IF i <= Len(u) THEN u[i] ELSE v[i - Len(u)]
    BY <2>a, ConcatProperties
  <2>3. Len(s) = 2 /\ s[1] = batch /\ s[2] = y
    BY <2>1, <2>2
  <2>4. Flushed \o <<y>> = s
    BY <1>2 DEF Flushed, u, v
  <2> HIDE DEF s
  <2>5. Run(FlattenSeq(s), a, c)
    BY <2>2, <2>3, FlattenPair
  <2>6. QED
    BY <2>4, <2>5
<1>3. QED
  BY <1>1, <1>2

-----------------------------------------------------------------------------
\* What a terminal is handed: chunks and sizes.
Handed == [type : {"chunk", "resize"}, at : Nat]

\* Each chunk follows the last, each size comes where it was made.
Ordered(s) ==
    \A i \in 2..Len(s) :
        s[i].at = IF s[i].type = "resize" THEN s[i - 1].at ELSE s[i - 1].at + 1

\* A terminal was handed the output up to h, in order.
Ends(s, h) == s \in Seq(Handed) /\ Ordered(s) /\ (s # <<>> => s[Len(s)].at = h)

\* A run that follows what was handed is handed in order.
LEMMA HandChunks ==
    ASSUME NEW s, NEW h \in Nat, NEW b \in Nat, NEW d, Ends(s, h), Run(d, h, b)
    PROVE  Ends(s \o Marked(d), b)
<1> DEFINE n == Len(s)
           m == Len(d)
           w == Marked(d)
           t == s \o w
<1>1. s \in Seq(Handed) /\ d \in Seq(Nat) /\ n \in Nat /\ m \in Nat /\ b = h + m
  BY DEF Ends, Run
<1>2. \A i \in 1..m : d[i] \in Nat /\ d[i] = h + i
  BY DEF Run
<1>3. w \in Seq(Handed) /\ Len(w) = m /\ \A i \in 1..m : w[i] = [type |-> "chunk", at |-> d[i]]
  <2>1. \A i \in 1..m : [type |-> "chunk", at |-> d[i]] \in Handed
    BY <1>2 DEF Handed
  <2>2. QED
    BY <1>1, <2>1 DEF Marked
<1>4. /\ t \in Seq(Handed) /\ Len(t) = n + m
      /\ \A i \in 1..(n + m) : t[i] = IF i <= n THEN s[i] ELSE w[i - n]
  <2>1. s \in Seq(Handed) /\ w \in Seq(Handed) /\ Len(w) = m
    BY <1>1, <1>3
  <2> HIDE DEF w
  <2>2. /\ s \o w \in Seq(Handed) /\ Len(s \o w) = Len(s) + Len(w)
        /\ \A i \in 1..(Len(s) + Len(w)) : (s \o w)[i] = IF i <= Len(s) THEN s[i] ELSE w[i - Len(s)]
    BY <2>1, ConcatProperties
  <2>3. QED
    BY <2>1, <2>2
<1>5. Ordered(s) /\ (n # 0 => s[n].at = h)
  BY <1>1 DEF Ends
<1> HIDE DEF n, m, w, t
<1>6. \A i \in 1..m : t[n + i].at = h + i /\ t[n + i].type = "chunk"
  <2>1. ASSUME NEW i \in 1..m PROVE t[n + i] = w[i]
    <3>1. n + i \in 1..(n + m) /\ ~(n + i <= n) /\ (n + i) - n = i
      BY <1>1
    <3>2. QED
      BY <1>4, <3>1
  <2>2. QED
    BY <1>2, <1>3, <2>1
<1>7. \A i \in 1..n : t[i] = s[i]
  <2>1. \A i \in 1..n : i \in 1..(n + m) /\ i <= n
    BY <1>1
  <2>2. QED
    BY <1>4, <2>1
<1>8. Ordered(t)
  <2>1. SUFFICES ASSUME NEW i \in 2..(n + m)
                 PROVE  t[i].at = IF t[i].type = "resize" THEN t[i - 1].at ELSE t[i - 1].at + 1
    BY <1>4 DEF Ordered
  <2>2. CASE i <= n
    <3>1. i \in 2..n /\ i \in 1..n /\ i - 1 \in 1..n
      BY <1>1, <2>2
    <3>2. t[i] = s[i] /\ t[i - 1] = s[i - 1]
      BY <1>7, <3>1
    <3>3. i \in 2..Len(s)
      BY <3>1 DEF n
    <3>4. QED
      BY <1>5, <3>2, <3>3 DEF Ordered
  <2>3. CASE i = n + 1
    <3>1. n \in 1..n /\ n # 0 /\ 1 \in 1..m /\ i - 1 = n
      BY <1>1, <2>3
    <3>2. t[n].at = h /\ t[n + 1].at = h + 1 /\ t[n + 1].type = "chunk"
      BY <1>5, <1>6, <1>7, <3>1
    <3>3. QED
      BY <2>3, <3>1, <3>2
  <2>4. CASE i > n + 1
    <3> DEFINE j == i - n
    <3>1. j \in 1..m /\ j - 1 \in 1..m /\ n + j = i /\ n + (j - 1) = i - 1 /\ j \in Nat
      BY <1>1, <2>4
    <3> HIDE DEF j
    <3>2. t[n + j].at = h + j /\ t[n + j].type = "chunk" /\ t[n + (j - 1)].at = h + (j - 1)
      BY <1>6, <3>1
    <3>3. t[i].at = h + j /\ t[i].type = "chunk" /\ t[i - 1].at = h + (j - 1)
      BY <3>1, <3>2
    <3>4. (h + (j - 1)) + 1 = h + j
      BY <3>1
    <3>5. QED
      BY <3>3, <3>4
  <2>5. QED
    BY <1>1, <2>2, <2>3, <2>4
<1>9. n + m # 0 => t[n + m].at = b
  <2>1. CASE m = 0
    <3>1. n + m = n /\ b = h /\ (n # 0 => n \in 1..n)
      BY <1>1, <2>1
    <3>2. QED
      BY <1>5, <1>7, <3>1
  <2>2. CASE m # 0
    <3>1. m \in 1..m
      BY <1>1, <2>2
    <3>2. QED
      BY <1>1, <1>6, <3>1
  <2>3. QED
    BY <2>1, <2>2
<1>10. t # <<>> => n + m # 0
  BY <1>4
<1>11. Ends(t, b)
  BY <1>4, <1>8, <1>9, <1>10 DEF Ends
<1>12. QED
  BY <1>11 DEF t, w

\* So is a size that belongs there.
LEMMA HandSize ==
    ASSUME NEW s, NEW h \in Nat, NEW m \in Handed, Ends(s, h), m.type = "resize", m.at = h
    PROVE  Ends(Append(s, m), h)
<1> DEFINE n == Len(s)
           t == Append(s, m)
<1>1. s \in Seq(Handed) /\ n \in Nat /\ Ordered(s) /\ (n # 0 => s[n].at = h)
  BY DEF Ends
<1>2. t \in Seq(Handed) /\ Len(t) = n + 1 /\ t[n + 1] = m /\ \A i \in 1..n : t[i] = s[i]
  BY <1>1, AppendProperties
<1> HIDE DEF n, t
<1>3. Ordered(t)
  <2>1. SUFFICES ASSUME NEW i \in 2..(n + 1)
                 PROVE  t[i].at = IF t[i].type = "resize" THEN t[i - 1].at ELSE t[i - 1].at + 1
    BY <1>2 DEF Ordered
  <2>2. CASE i <= n
    <3>1. i \in 2..n /\ i \in 1..n /\ i - 1 \in 1..n
      BY <1>1, <2>2
    <3>2. t[i] = s[i] /\ t[i - 1] = s[i - 1]
      BY <1>2, <3>1
    <3>3. i \in 2..Len(s)
      BY <3>1 DEF n
    <3>4. QED
      BY <1>1, <3>2, <3>3 DEF Ordered
  <2>3. CASE i = n + 1
    <3>1. n \in 1..n /\ n # 0 /\ i - 1 = n
      BY <1>1, <2>3
    <3>2. QED
      BY <1>1, <1>2, <2>3, <3>1
  <2>4. QED
    BY <1>1, <2>2, <2>3
<1>4. Ends(t, h)
  BY <1>2, <1>3 DEF Ends
<1>5. QED
  BY <1>4 DEF t

-----------------------------------------------------------------------------
\* k frames fit in x chunks, and no more.
Covers(k, x) == k \in Nat /\ k * FrameLimit <= x /\ x < k * FrameLimit + FrameLimit

\* Frames are not empty.
LEMMA Frame == FrameLimit \in Nat /\ FrameLimit > 0
  BY StreamAssumption

\* The number of frames that fit.
LEMMA FrameCount == ASSUME NEW x \in Nat PROVE Covers(x \div FrameLimit, x)
<1>1. FrameLimit \in Nat /\ FrameLimit > 0
  BY Frame
<1>2. QED
  BY <1>1 DEF Covers

\* More frames take more chunks.
LEMMA FrameOrder ==
    ASSUME NEW i \in Nat, NEW k \in Nat, i <= k
    PROVE  i * FrameLimit \in Nat /\ i * FrameLimit <= k * FrameLimit
           /\ (i + 1) * FrameLimit = i * FrameLimit + FrameLimit
  BY Frame

\* batchTerminalHistory: where frame i of l chunks ends, and how many there are.
LastOf(i, l) == IF i * FrameLimit < l THEN i * FrameLimit ELSE l
CountOf(l) == (l + FrameLimit - 1) \div FrameLimit

\* The frames of the history cover it: the first starts at its start, the last
\* ends at its end, each starts where the one before ends.
LEMMA FramesCover ==
    ASSUME NEW l \in Nat
    PROVE  /\ CountOf(l) \in Nat
           /\ LastOf(0, l) = 0 /\ LastOf(CountOf(l), l) = l
           /\ \A i \in 1..CountOf(l) :
                  /\ LastOf(i - 1, l) = (i - 1) * FrameLimit
                  /\ LastOf(i, l) \in Nat /\ LastOf(i, l) <= l
                  /\ LastOf(i - 1, l) <= LastOf(i, l)
<1> DEFINE c == CountOf(l)
           x == l + FrameLimit - 1
<1>1. FrameLimit \in Nat /\ FrameLimit > 0 /\ x \in Nat
  BY Frame
<1>2. Covers(c, x)
  <2> HIDE DEF x
  <2>1. Covers(x \div FrameLimit, x)
    BY <1>1, FrameCount
  <2>2. QED
    BY <2>1 DEF CountOf, x
<1>3. c \in Nat /\ c * FrameLimit \in Nat /\ c * FrameLimit <= x /\ x < c * FrameLimit + FrameLimit
  BY <1>1, <1>2, FrameOrder DEF Covers
<1>4. c * FrameLimit >= l
  <2> DEFINE z == c * FrameLimit
  <2>1. z \in Nat /\ z <= x /\ x < z + FrameLimit
    BY <1>3
  <2> HIDE DEF z, c
  <2>2. z >= l
    BY <1>1, <2>1
  <2>3. QED
    BY <2>2 DEF z
<1>5. LastOf(c, l) = l
  <2> HIDE DEF c
  <2>1. QED
    BY <1>3, <1>4 DEF LastOf
<1>6. 0 * FrameLimit = 0 /\ LastOf(0, l) = 0
  <2>1. 0 * FrameLimit = 0
    BY <1>1
  <2>2. QED
    BY <2>1 DEF LastOf
<1> HIDE DEF c
<1>7. ASSUME NEW i \in 1..c
      PROVE  /\ LastOf(i - 1, l) = (i - 1) * FrameLimit
             /\ LastOf(i, l) \in Nat /\ LastOf(i, l) <= l
             /\ LastOf(i - 1, l) <= LastOf(i, l)
  <2> DEFINE y == (i - 1) * FrameLimit
             z == i * FrameLimit
             w == c * FrameLimit
  <2>1. i \in Nat /\ i - 1 \in Nat /\ i <= c /\ i - 1 <= i /\ (i - 1) + 1 = i
    BY <1>3
  <2>2. y \in Nat /\ z \in Nat /\ y <= z /\ z = y + FrameLimit /\ z <= w /\ w \in Nat /\ w <= x
    BY <1>3, <2>1, FrameOrder
  <2>3. LastOf(i, l) = (IF z < l THEN z ELSE l) /\ LastOf(i - 1, l) = (IF y < l THEN y ELSE l)
    BY DEF LastOf
  <2> HIDE DEF y, z, w
  <2>4. y < l
    BY <1>1, <2>2
  <2>5. LastOf(i - 1, l) = y /\ LastOf(i, l) \in Nat /\ LastOf(i, l) <= l /\ y <= LastOf(i, l)
    BY <2>2, <2>3, <2>4
  <2>6. QED
    BY <2>5 DEF y
<1>8. QED
  BY <1>3, <1>5, <1>6, <1>7 DEF c

\* batchTerminalHistory cuts the history without a gap or an overlap.
LEMMA FramesLink ==
    ASSUME NEW a \in Nat, NEW b \in Nat, NEW chunks, Run(chunks, a, b)
    PROVE  Links(Frames(chunks), a, b)
<1> DEFINE l == Len(chunks)
           c == CountOf(l)
           f == Frames(chunks)
<1>1. l \in Nat /\ chunks \in Seq(Nat) /\ b = a + l /\ \A i \in 1..l : chunks[i] = a + i /\ chunks[i] \in Nat
  BY DEF Run
<1>2. /\ c \in Nat
      /\ LastOf(0, l) = 0 /\ LastOf(c, l) = l
      /\ \A i \in 1..c :
             /\ LastOf(i - 1, l) = (i - 1) * FrameLimit
             /\ LastOf(i, l) \in Nat /\ LastOf(i, l) <= l
             /\ LastOf(i - 1, l) <= LastOf(i, l)
  BY <1>1, FramesCover
<1>3. f = [i \in 1..c |->
             [type |-> "history", data |-> SubSeq(chunks, (i - 1) * FrameLimit + 1, LastOf(i, l))]]
  BY DEF Frames, History, CountOf, LastOf
<1> HIDE DEF l, c, f
<1>4. /\ Len(f) = c
      /\ \A i \in 1..c : f[i] = [type |-> "history",
                                 data |-> SubSeq(chunks, LastOf(i - 1, l) + 1, LastOf(i, l))]
  <2> DEFINE G(i) == [type |-> "history",
                      data |-> SubSeq(chunks, (i - 1) * FrameLimit + 1, LastOf(i, l))]
  <2>1. ASSUME NEW i \in 1..c
        PROVE  G(i) = [type |-> "history",
                       data |-> SubSeq(chunks, LastOf(i - 1, l) + 1, LastOf(i, l))]
    <3>1. LastOf(i - 1, l) = (i - 1) * FrameLimit
      BY <1>2
    <3>2. QED
      BY <3>1, Zenon
  <2>2. f = [i \in 1..c |-> G(i)]
    BY <1>3
  <2> HIDE DEF G
  <2>3. Len(f) = c /\ \A i \in 1..c : f[i] = G(i)
    BY <1>2, <2>2
  <2>4. QED
    BY <2>1, <2>3
<1> DEFINE p == [i \in 0..c |-> a + LastOf(i, l)]
<1>5. /\ p \in [0..c -> Nat] /\ p[0] = a /\ p[c] = b
      /\ \A i \in 0..c : p[i] = a + LastOf(i, l)
  <2>1. \A i \in 0..c : LastOf(i, l) \in Nat
    BY <1>2
  <2>2. QED
    BY <1>1, <1>2, <2>1
<1> HIDE DEF p
<1>6. ASSUME NEW i \in 1..c PROVE Moves(f[i], p[i - 1], p[i])
  <2> DEFINE u == LastOf(i - 1, l)
             v == LastOf(i, l)
             d == SubSeq(chunks, u + 1, v)
  <2>1. i - 1 \in 0..c /\ i \in 0..c
    BY <1>2
  <2>2. u \in Nat /\ v \in Nat /\ u <= v /\ v <= l
    <3>1. CASE i = 1
      BY <1>2, <3>1
    <3>2. CASE i # 1
      <4>1. i - 1 \in 1..c
        BY <1>2, <3>2
      <4>2. QED
        BY <1>2, <4>1
    <3>3. QED
      BY <3>1, <3>2
  <2>3. p[i - 1] = a + u /\ p[i] = a + v
    BY <1>5, <2>1
  <2>4. f[i].type = "history" /\ f[i].data = d
    BY <1>4
  <2> HIDE DEF u, v
  <2>5. \A j \in (u + 1)..v : chunks[j] \in Nat /\ chunks[j] = a + j
    BY <1>1, <2>2
  <2>6. /\ d \in Seq(Nat)
        /\ Len(d) = (IF u + 1 <= v THEN v - (u + 1) + 1 ELSE 0)
        /\ \A j \in 1..(v - (u + 1) + 1) : d[j] = chunks[(u + 1) + j - 1]
    <3>1. u + 1 \in Int /\ v \in Int
      BY <2>2
    <3>2. QED
      BY <2>5, <3>1, SubSeqProperties
  <2> HIDE DEF d
  <2>7. Len(d) = v - u
    BY <2>2, <2>6
  <2>8. ASSUME NEW j \in 1..(v - u) PROVE d[j] = (a + u) + j
    <3>1. j \in 1..(v - (u + 1) + 1) /\ (u + 1) + j - 1 = u + j /\ u + j \in (u + 1)..v
      BY <2>2
    <3>2. d[j] = chunks[u + j]
      BY <2>6, <3>1
    <3>3. QED
      BY <2>2, <2>5, <3>1, <3>2
  <2>9. Run(d, a + u, a + v)
    BY <2>2, <2>6, <2>7, <2>8 DEF Run
  <2>10. QED
    BY <2>3, <2>4, <2>9 DEF Moves
<1>7. Links(f, a, b)
  BY <1>4, <1>5, <1>6 DEF Links
<1>8. QED
  BY <1>7 DEF f

\* What the server retains ends at the last chunk the process wrote.
LEMMA HistoryRun ==
    ASSUME produced \in Nat
    PROVE  Oldest - 1 \in Nat /\ Oldest - 1 <= produced
           /\ Run(HistoryChunks, Oldest - 1, produced)
<1> DEFINE a == Oldest - 1
           l == produced + 1 - Oldest
<1>1. Retained \in Nat /\ Retained > 0
  BY StreamAssumption
<1>2. a \in Nat /\ a <= produced /\ l \in Nat /\ produced = a + l /\ Oldest \in Nat
  BY <1>1 DEF Oldest
<1>3. /\ HistoryChunks \in Seq(Nat) /\ Len(HistoryChunks) = l
      /\ \A i \in 1..l : HistoryChunks[i] = a + i
  <2>1. \A i \in 1..l : Oldest + i - 1 \in Nat /\ Oldest + i - 1 = a + i
    BY <1>2
  <2> HIDE DEF a
  <2>2. HistoryChunks = [i \in 1..l |-> Oldest + i - 1]
    BY DEF HistoryChunks
  <2> HIDE DEF l
  <2>3. QED
    BY <1>2, <2>1, <2>2
<1> HIDE DEF a, l
<1>4. Run(HistoryChunks, a, produced)
  BY <1>2, <1>3 DEF Run
<1>5. QED
  BY <1>2, <1>4 DEF a

-----------------------------------------------------------------------------
\* What the server sends before, and what it sends after the history.
LeadMessage ==
    [type : {"resize"}, at : Nat] \cup [type : {"history"}, data : Seq(Nat)]
        \cup [type : {"history_end"}]
QueueMessage == [type : {"resize"}, at : Nat] \cup [type : {"output"}, data : Seq(Nat)]

\* Types.
StreamTyped ==
    /\ produced \in Nat /\ ended \in BOOLEAN /\ serving \in BOOLEAN
    /\ connection \in {"connecting", "connected", "disconnected", "exited"}
    /\ down \in Seq(Message) /\ lead \in Seq(LeadMessage) /\ queue \in Seq(QueueMessage)
    /\ batch \in Seq(Nat)

\* A terminal has been handed, has batched and will hear the output up to n.
Ahead(ha, ba, d, n) ==
    \E h \in Nat, b \in Nat : Ends(ha, h) /\ Run(ba, h, b) /\ Links(d, b, n)
\* And what the server still has to write follows it, up to the last chunk.
Behind(l, q, n, pr) == \E m \in Nat : Links(l, n, m) /\ Links(q, m, pr)

\* A queue holds no message of some types.
Lacks(s, types) == \A i \in 1..Len(s) : s[i].type \notin types

\* The exit is known, or on its way.
Over == connection = "exited" \/ ~Lacks(down, {"exit"})

\* What is still to come; when the exit was sent nothing is.
Rest(n) ==
    /\ serving => Behind(lead, queue, n, produced)
    /\ Over => n = produced /\ ended

\* From the terminal to the process, every chunk is in one place.
StreamPlaced == \E n \in Nat : Ahead(handed, batch, down, n) /\ Rest(n)

\* The history comes before the live output.
HistoryFirst(s) ==
    \A i \in 1..Len(s) : s[i].type = "history" => \A j \in 1..(i - 1) : s[j].type # "output"

\* While history is to come nothing is batched, so that it is not overtaken;
\* the server writes only to a browser that is connected, and a browser that
\* connects starts with nothing.
StreamRoles ==
    /\ HistoryFirst(down)
    /\ batch = <<>> \/ Lacks(down, {"history"})
    /\ lead = <<>> \/ (batch = <<>> /\ Lacks(down, {"output"}))
    /\ serving => connection = "connected" /\ Lacks(down, {"exit", "close"})
    /\ connection = "connecting" =>
           ~serving /\ down = <<>> /\ handed = <<>> /\ batch = <<>> /\ xterm = <<>>

\* The inductive invariant of the stream.
StreamKnown == StreamTyped /\ StreamPlaced /\ StreamRoles

\* Before the browser connects it holds.
LEMMA StreamStarts == StreamInit => StreamKnown
<1> SUFFICES ASSUME StreamInit PROVE StreamKnown
  OBVIOUS
<1>1. StreamTyped
  <2>1. <<>> \in Seq(Message) /\ <<>> \in Seq(LeadMessage) /\ <<>> \in Seq(QueueMessage)
        /\ <<>> \in Seq(Nat)
    OBVIOUS
  <2>2. QED
    BY <2>1 DEF StreamInit, StreamTyped
<1>2. StreamRoles
  BY DEF StreamInit, StreamRoles, HistoryFirst, Lacks
<1>3. StreamPlaced
  <2>1. Ends(<<>>, 0) /\ Run(<<>>, 0, 0)
    BY RunNone DEF Ends, Ordered
  <2>2. Links(<<>>, 0, 0)
    BY LinksNone
  <2>3. Ahead(<<>>, <<>>, <<>>, 0)
    BY <2>1, <2>2 DEF Ahead
  <2>4. QED
    BY <2>3 DEF StreamPlaced, StreamInit, Rest, Over, Lacks
<1>4. QED
  BY <1>1, <1>2, <1>3 DEF StreamKnown

\* One more message for the browser.
LEMMA AppendDown ==
    ASSUME NEW ha, NEW ba, NEW d \in Seq(Message), NEW n \in Nat, NEW m \in Message, NEW k \in Nat,
           Ahead(ha, ba, d, n), Moves(m, n, k)
    PROVE  Ahead(ha, ba, Append(d, m), k)
<1>1. PICK h \in Nat, b \in Nat : Ends(ha, h) /\ Run(ba, h, b) /\ Links(d, b, n)
  BY DEF Ahead
<1>2. Links(Append(d, m), b, k)
  BY <1>1, LinksAppend
<1>3. QED
  BY <1>1, <1>2 DEF Ahead

\* Types of a queue with one more message.
LEMMA LacksAppend ==
    ASSUME NEW S, NEW s \in Seq(S), NEW m \in S, NEW types
    PROVE  Lacks(Append(s, m), types) <=> (Lacks(s, types) /\ m.type \notin types)
<1>1. Len(s) \in Nat /\ Len(Append(s, m)) = Len(s) + 1 /\ Append(s, m)[Len(s) + 1] = m
      /\ \A i \in 1..Len(s) : Append(s, m)[i] = s[i]
  BY AppendProperties
<1>2. 1..(Len(s) + 1) = 1..Len(s) \cup {Len(s) + 1}
  BY <1>1
<1>3. QED
  BY <1>1, <1>2 DEF Lacks

\* History is not sent after live output.
LEMMA HistoryFirstAppend ==
    ASSUME NEW S, NEW s \in Seq(S), NEW m \in S, HistoryFirst(s),
           m.type # "history" \/ Lacks(s, {"output"})
    PROVE  HistoryFirst(Append(s, m))
<1> DEFINE n == Len(s)
           t == Append(s, m)
<1>1. n \in Nat /\ Len(t) = n + 1 /\ t[n + 1] = m /\ \A i \in 1..n : t[i] = s[i]
  BY AppendProperties
<1>2. HistoryFirst(s) /\ (m.type # "history" \/ \A i \in 1..n : s[i].type # "output")
  BY DEF Lacks
<1> HIDE DEF t
<1>3. ASSUME NEW i \in 1..(n + 1), t[i].type = "history", NEW j \in 1..(i - 1)
      PROVE  t[j].type # "output"
  <2>1. j \in 1..n /\ t[j] = s[j]
    BY <1>1
  <2>2. CASE i = n + 1
    BY <1>1, <1>2, <1>3, <2>1, <2>2
  <2>3. CASE i # n + 1
    <3>1. i \in 1..n
      BY <1>1, <2>3
    <3>2. QED
      BY <1>1, <1>2, <1>3, <2>1, <3>1 DEF HistoryFirst
  <2>4. QED
    BY <2>2, <2>3
<1>4. HistoryFirst(t)
  BY <1>1, <1>3 DEF HistoryFirst
<1>5. QED
  BY <1>4 DEF t

\* What a queue without its first message keeps.
LEMMA TailRoles ==
    ASSUME NEW S, NEW s \in Seq(S), s # <<>>
    PROVE  /\ Tail(s) \in Seq(S)
           /\ HistoryFirst(s) => HistoryFirst(Tail(s))
           /\ \A types : Lacks(s, types) => Lacks(Tail(s), types) /\ Head(s).type \notin types
           /\ HistoryFirst(s) /\ Head(s).type = "output" => Lacks(Tail(s), {"history"})
<1> DEFINE n == Len(s)
           t == Tail(s)
<1>1. n \in Nat /\ n >= 1 /\ t \in Seq(S) /\ Len(t) = n - 1 /\ Head(s) = s[1]
      /\ \A i \in 1..(n - 1) : t[i] = s[i + 1]
  BY HeadTailProperties
<1>2. ASSUME HistoryFirst(s) PROVE HistoryFirst(t)
  <2>1. ASSUME NEW i \in 1..(n - 1), t[i].type = "history", NEW j \in 1..(i - 1)
        PROVE  t[j].type # "output"
    <3>1. i + 1 \in 1..n /\ j + 1 \in 1..((i + 1) - 1) /\ j \in 1..(n - 1)
      BY <1>1
    <3>2. s[i + 1].type = "history"
      BY <1>1, <2>1
    <3>3. s[j + 1].type # "output"
      BY <1>2, <3>1, <3>2 DEF HistoryFirst
    <3>4. QED
      BY <1>1, <3>1, <3>3
  <2> HIDE DEF t
  <2>2. QED
    BY <1>1, <2>1 DEF HistoryFirst
<1>3. ASSUME NEW types, Lacks(s, types) PROVE Lacks(t, types) /\ Head(s).type \notin types
  <2>1. \A i \in 1..(n - 1) : i + 1 \in 1..n
    BY <1>1
  <2>2. 1 \in 1..n
    BY <1>1
  <2> HIDE DEF t
  <2>3. QED
    BY <1>1, <1>3, <2>1, <2>2 DEF Lacks
<1>4. ASSUME HistoryFirst(s), Head(s).type = "output" PROVE Lacks(t, {"history"})
  <2>1. ASSUME NEW i \in 1..(n - 1) PROVE t[i].type # "history"
    <3>1. i + 1 \in 1..n /\ 1 \in 1..((i + 1) - 1)
      BY <1>1
    <3>2. s[i + 1].type # "history"
      BY <1>1, <1>4, <3>1 DEF HistoryFirst
    <3>3. QED
      BY <1>1, <3>2
  <2> HIDE DEF t
  <2>2. QED
    BY <1>1, <2>1 DEF Lacks
<1>5. QED
  BY <1>1, <1>2, <1>3, <1>4

\* The frames of the history are messages of their type.
LEMMA FramesTyped ==
    ASSUME NEW a \in Nat, NEW b \in Nat, NEW chunks, Run(chunks, a, b)
    PROVE  Frames(chunks) \in Seq(LeadMessage)
<1> DEFINE l == Len(chunks)
           c == CountOf(l)
           D(i) == SubSeq(chunks, (i - 1) * FrameLimit + 1, LastOf(i, l))
           G(i) == [type |-> "history", data |-> D(i)]
<1>1. l \in Nat /\ chunks \in Seq(Nat)
  BY DEF Run
<1>2. c \in Nat /\ \A i \in 1..c : LastOf(i, l) \in Nat /\ LastOf(i, l) <= l
  BY <1>1, FramesCover
<1>3. Frames(chunks) = [i \in 1..c |-> G(i)]
  BY DEF Frames, History, CountOf, LastOf
<1>4. ASSUME NEW i \in 1..c PROVE G(i) \in LeadMessage
  <2> DEFINE u == (i - 1) * FrameLimit + 1
             v == LastOf(i, l)
  <2>1. i \in Nat /\ i - 1 \in Nat /\ FrameLimit \in Nat
    BY <1>2, Frame
  <2>2. (i - 1) * FrameLimit \in Nat
    BY <2>1, FrameOrder
  <2>3. u \in Nat /\ u >= 1 /\ v \in Nat /\ v <= l
    BY <1>2, <2>2
  <2> HIDE DEF u, v
  <2>4. \A j \in u..v : chunks[j] \in Nat
    BY <1>1, <2>3
  <2>5. u \in Int /\ v \in Int
    BY <2>3
  <2>6. SubSeq(chunks, u, v) \in Seq(Nat)
    BY <2>4, <2>5, SubSeqProperties
  <2>7. D(i) \in Seq(Nat)
    BY <2>6 DEF u, v
  <2> HIDE DEF D
  <2>8. QED
    BY <2>7 DEF LeadMessage
<1> HIDE DEF c, G
<1>5. [i \in 1..c |-> G(i)] \in Seq(LeadMessage)
  BY <1>2, <1>4
<1>6. QED
  BY <1>3, <1>5

\* Messages without data move nothing.
LEMMA CloseIs ==
    /\ \A t \in {"history_end", "exit", "close"} :
           Bare(t) \in Message /\ Bare(t).type = t /\ \A n : Moves(Bare(t), n, n)
  BY DEF Bare, Message, Moves

\* Messages that precede the live output are messages.
LEMMA LeadTypes ==
    ASSUME NEW m \in LeadMessage
    PROVE  m \in Message /\ m.type \in {"resize", "history", "history_end"}
  BY DEF LeadMessage, Message

\* So are those of the live output.
LEMMA QueueTypes ==
    ASSUME NEW m \in QueueMessage
    PROVE  m \in Message /\ m.type \in {"resize", "output"} /\ (IsSize(m) <=> m.type = "resize")
  BY DEF QueueMessage, Message, IsSize

\* A size that is queued replaces one it would follow.
LEMMA SizeQueued ==
    ASSUME queue \in Seq(QueueMessage), produced \in Nat, produced' \in Nat,
           NEW event \in QueueMessage, IsSize(event), Moves(event, produced, produced'),
           queue' = (IF queue # <<>> /\ IsSize(Last(queue))
                     THEN Append(Front(queue), event) ELSE Append(queue, event)),
           NEW m \in Nat, Links(queue, m, produced)
    PROVE  queue' \in Seq(QueueMessage) /\ Links(queue', m, produced')
<1>1. produced' = produced
  BY DEF Moves, IsSize
<1>2. CASE queue # <<>> /\ IsSize(Last(queue))
  <2>1. PICK c \in Nat : Links(Front(queue), m, c) /\ Moves(Last(queue), c, produced)
    BY <1>2, LinksFrontLast
  <2>2. c = produced
    BY <1>2, <2>1 DEF Moves, IsSize
  <2>3. Front(queue) \in Seq(QueueMessage)
    <3>1. \A i \in 1..(Len(queue) - 1) : queue[i] \in QueueMessage
      OBVIOUS
    <3>2. 1 \in Int /\ Len(queue) - 1 \in Int
      OBVIOUS
    <3>3. QED
      BY <3>1, <3>2, SubSeqProperties DEF Front
  <2>4. Links(Append(Front(queue), event), m, produced)
    BY <1>1, <2>1, <2>2, <2>3, LinksAppend
  <2>5. Append(Front(queue), event) \in Seq(QueueMessage)
    BY <2>3, AppendProperties
  <2>6. QED
    BY <1>1, <1>2, <2>4, <2>5
<1>3. CASE ~(queue # <<>> /\ IsSize(Last(queue)))
  <2>1. Links(Append(queue, event), m, produced')
    BY LinksAppend
  <2>2. Append(queue, event) \in Seq(QueueMessage)
    BY AppendProperties
  <2>3. QED
    BY <1>3, <2>1, <2>2
<1>4. QED
  BY <1>2, <1>3

\* enqueueEvent: what follows the last chunk is queued, a size replaces one that
\* waits behind it, and a browser that is too slow is cut off.
LEMMA Enqueues ==
    ASSUME StreamKnown, NEW event \in QueueMessage, Enqueue(event), produced' \in Nat,
           Moves(event, produced, produced'),
           UNCHANGED <<lead, connection, batch, handed, xterm, ended>>, ~ended
    PROVE  StreamKnown'
<1>1. StreamTyped /\ StreamPlaced /\ StreamRoles
  BY DEF StreamKnown
<1>2. PICK n \in Nat : Ahead(handed, batch, down, n)
                       /\ (serving => Behind(lead, queue, n, produced)) /\ ~Over
  BY <1>1 DEF StreamPlaced, Rest
<1>3. down \in Seq(Message) /\ queue \in Seq(QueueMessage) /\ produced \in Nat
  BY <1>1 DEF StreamTyped
<1>4. CASE ~serving /\ UNCHANGED <<serving, queue, down>>
  <2>1. StreamTyped'
    BY <1>1, <1>4 DEF StreamTyped
  <2>2. StreamPlaced'
    BY <1>2, <1>4 DEF StreamPlaced, Rest, Over
  <2>3. StreamRoles'
    BY <1>1, <1>4 DEF StreamRoles
  <2>4. QED
    BY <2>1, <2>2, <2>3 DEF StreamKnown
<1>5. CASE serving /\ IsSize(event)
           /\ queue' = (IF queue # <<>> /\ IsSize(Last(queue))
                        THEN Append(Front(queue), event) ELSE Append(queue, event))
           /\ UNCHANGED <<serving, down>>
  <2>1. PICK m \in Nat : Links(lead, n, m) /\ Links(queue, m, produced)
    BY <1>2, <1>5 DEF Behind
  <2>2. produced' = produced
    BY <1>5 DEF Moves, IsSize
  <2>3. queue' \in Seq(QueueMessage) /\ Links(queue', m, produced')
    BY <1>3, <1>5, <2>1, SizeQueued
  <2>4. StreamTyped'
    BY <1>1, <1>5, <2>2, <2>3 DEF StreamTyped
  <2>5. Behind(lead', queue', n, produced')
    BY <2>1, <2>3 DEF Behind
  <2>6. StreamPlaced'
    BY <1>2, <1>5, <2>5 DEF StreamPlaced, Rest, Over
  <2>7. StreamRoles'
    BY <1>1, <1>5 DEF StreamRoles
  <2>8. QED
    BY <2>4, <2>6, <2>7 DEF StreamKnown
<1>6. CASE serving /\ queue' = Append(queue, event) /\ UNCHANGED <<serving, down>>
  <2>1. PICK m \in Nat : Links(lead, n, m) /\ Links(queue, m, produced)
    BY <1>2, <1>6 DEF Behind
  <2>2. Links(Append(queue, event), m, produced') /\ Append(queue, event) \in Seq(QueueMessage)
    BY <1>3, <2>1, LinksAppend, AppendProperties
  <2>3. Behind(lead', queue', n, produced')
    BY <1>6, <2>1, <2>2 DEF Behind
  <2>4. StreamTyped'
    BY <1>1, <1>6, <2>2 DEF StreamTyped
  <2>5. StreamPlaced'
    BY <1>2, <1>6, <2>3 DEF StreamPlaced, Rest, Over
  <2>6. StreamRoles'
    BY <1>1, <1>6 DEF StreamRoles
  <2>7. QED
    BY <2>4, <2>5, <2>6 DEF StreamKnown
<1>7. CASE serving /\ serving' = FALSE /\ queue' = <<>> /\ down' = Append(down, Bare("close"))
  <2>1. Bare("close") \in Message /\ Bare("close").type = "close" /\ Moves(Bare("close"), n, n)
    BY CloseIs
  <2>2. Ahead(handed', batch', down', n)
    BY <1>2, <1>3, <1>7, <2>1, AppendDown
  <2>a. ~Over'
    <3>1. Lacks(down, {"exit"}) /\ Bare("close").type \notin {"exit"}
      BY <1>2, <2>1 DEF Over
    <3>2. Lacks(down', {"exit"})
      BY <1>3, <1>7, <2>1, <3>1, LacksAppend
    <3>3. QED
      BY <1>2, <3>2 DEF Over
  <2>3. StreamPlaced'
    BY <1>7, <2>2, <2>a DEF StreamPlaced, Rest
  <2>4. down' \in Seq(Message) /\ queue' \in Seq(QueueMessage)
    BY <1>3, <1>7, <2>1
  <2>5. StreamTyped'
    BY <1>1, <1>7, <2>4 DEF StreamTyped
  <2>6. HistoryFirst(down')
    BY <1>1, <1>3, <1>7, <2>1, HistoryFirstAppend DEF StreamRoles
  <2>7. /\ Lacks(down, {"history"}) => Lacks(down', {"history"})
        /\ Lacks(down, {"output"}) => Lacks(down', {"output"})
    BY <1>3, <1>7, <2>1, LacksAppend
  <2>8. connection # "connecting"
    BY <1>1, <1>7 DEF StreamRoles
  <2>9. StreamRoles'
    BY <1>1, <1>7, <2>6, <2>7, <2>8 DEF StreamRoles
  <2>10. QED
    BY <2>3, <2>5, <2>9 DEF StreamKnown
<1>8. QED
  BY <1>4, <1>5, <1>6, <1>7 DEF Enqueue

\* publish: the process writes.
LEMMA StepProduce == ASSUME StreamKnown, ProcessWrites PROVE StreamKnown'
<1>1. produced \in Nat /\ produced' = produced + 1 /\ ~ended /\ UNCHANGED ended
  BY DEF StreamKnown, StreamTyped, ProcessWrites
<1> DEFINE e == Output(<<produced + 1>>)
<1>2. Enqueue(e) /\ UNCHANGED <<lead, connection, batch, handed, xterm>>
  BY DEF ProcessWrites, output
<1>3. e \in QueueMessage /\ Moves(e, produced, produced')
  <2>1. <<produced + 1>> \in Seq(Nat) /\ Run(<<produced + 1>>, produced, produced + 1)
    BY <1>1 DEF Run
  <2>2. QED
    BY <1>1, <2>1 DEF QueueMessage, Moves, Output
<1> HIDE DEF e
<1>4. QED
  BY <1>1, <1>2, <1>3, Enqueues

\* Another browser changes the size.
LEMMA StepSize == ASSUME StreamKnown, SizeChanges PROVE StreamKnown'
<1>1. produced \in Nat /\ produced' = produced /\ ~ended /\ UNCHANGED ended
  BY DEF StreamKnown, StreamTyped, SizeChanges, process
<1> DEFINE e == Size(produced)
<1>2. Enqueue(e) /\ UNCHANGED <<lead, connection, batch, handed, xterm>>
  BY DEF SizeChanges, output
<1>3. e \in QueueMessage /\ Moves(e, produced, produced')
  BY <1>1 DEF QueueMessage, Moves, Size
<1> HIDE DEF e
<1>4. QED
  BY <1>1, <1>2, <1>3, Enqueues

\* A browser connects: size, history, live output meet at the last chunk.
LEMMA StepAccept == ASSUME StreamKnown, Accept PROVE StreamKnown'
<1>1. StreamTyped /\ StreamRoles /\ produced \in Nat
  BY DEF StreamKnown, StreamTyped
<1>2. /\ connection = "connecting" /\ connection' = "connected"
      /\ serving' = TRUE /\ queue' = <<>>
      /\ lead' = <<Size(Oldest - 1)>> \o Frames(HistoryChunks) \o <<Bare("history_end")>>
      /\ UNCHANGED <<produced, ended, down, batch, handed, xterm>>
  BY DEF Accept, process, output
<1>3. down = <<>> /\ handed = <<>> /\ batch = <<>> /\ xterm = <<>>
  BY <1>1, <1>2 DEF StreamRoles
<1> DEFINE a == Oldest - 1
           f == Frames(HistoryChunks)
           u == <<Size(a)>>
           v == <<Bare("history_end")>>
<1>4. a \in Nat /\ Links(f, a, produced) 
  BY <1>1, HistoryRun, FramesLink
<1>5. f \in Seq(LeadMessage)
  <2>1. Run(HistoryChunks, a, produced)
    BY <1>1, HistoryRun
  <2> HIDE DEF a
  <2>2. QED
    BY <1>1, <1>4, <2>1, FramesTyped
<1> HIDE DEF f
<1>6. u \in Seq(LeadMessage) /\ v \in Seq(LeadMessage) /\ Links(u, a, a) /\ Links(v, produced, produced)
  <2>1. Size(a) \in LeadMessage /\ Moves(Size(a), a, a)
    BY <1>4 DEF Size, LeadMessage, Moves
  <2>2. Bare("history_end") \in LeadMessage /\ Moves(Bare("history_end"), produced, produced)
    BY DEF Bare, LeadMessage, Moves
  <2>3. u \in Seq(LeadMessage) /\ v \in Seq(LeadMessage)
    BY <2>1, <2>2
  <2>4. Links(u, a, a)
    <3> HIDE DEF a
    <3>1. QED
      BY <1>4, <2>1, LinksOne DEF u
  <2>5. Links(v, produced, produced)
    BY <1>1, <2>2, LinksOne
  <2>6. QED
    BY <2>3, <2>4, <2>5
<1>7. lead' = u \o f \o v
  BY <1>2 DEF f
<1> HIDE DEF a, u, v
<1>8. u \o f \in Seq(LeadMessage) /\ Links(u \o f, a, produced)
  BY <1>1, <1>4, <1>5, <1>6, LinksConcat
<1> DEFINE uf == u \o f
<1>9. uf \in Seq(LeadMessage) /\ Links(uf, a, produced)
  BY <1>8
<1> HIDE DEF uf
<1>10. uf \o v \in Seq(LeadMessage) /\ Links(uf \o v, a, produced)
  BY <1>1, <1>4, <1>6, <1>9, LinksConcat
<1>11. lead' \in Seq(LeadMessage) /\ Links(lead', a, produced')
  BY <1>2, <1>7, <1>10 DEF uf
<1>12. Links(queue', produced', produced')
  BY <1>1, <1>2, LinksNone
<1>13. Behind(lead', queue', a, produced')
  BY <1>1, <1>2, <1>11, <1>12 DEF Behind
<1>14. Ahead(handed', batch', down', a)
  <2>1. Ends(<<>>, a) /\ Run(<<>>, a, a)
    BY <1>4, RunNone DEF Ends, Ordered
  <2>2. Links(<<>>, a, a)
    BY <1>4, LinksNone
  <2>3. QED
    BY <1>2, <1>3, <1>4, <2>1, <2>2 DEF Ahead
<1>15. StreamPlaced'
  <2>1. ~Over'
    BY <1>2, <1>3 DEF Over, Lacks
  <2>2. QED
    BY <1>4, <1>13, <1>14, <2>1 DEF StreamPlaced, Rest
<1>16. StreamTyped'
  BY <1>1, <1>2, <1>11 DEF StreamTyped
<1>17. Lacks(<<>>, {"output"}) /\ Lacks(<<>>, {"history"}) /\ Lacks(<<>>, {"exit", "close"})
       /\ HistoryFirst(<<>>)
  BY DEF Lacks, HistoryFirst
<1>18. StreamRoles'
  BY <1>2, <1>3, <1>17 DEF StreamRoles
<1>19. QED
  BY <1>15, <1>16, <1>18 DEF StreamKnown

\* The server sends what precedes the live output.
LEMMA WriteLead ==
    ASSUME StreamKnown, serving, lead # <<>>, lead' = Tail(lead),
           down' = Append(down, Head(lead)),
           UNCHANGED <<queue, serving, produced, ended, connection, batch, handed, xterm>>
    PROVE  StreamKnown'
<1>1. StreamTyped /\ StreamPlaced /\ StreamRoles
  BY DEF StreamKnown
<1>2. PICK n \in Nat : Ahead(handed, batch, down, n) /\ Behind(lead, queue, n, produced)
  BY <1>1 DEF StreamPlaced, Rest
<1>3. down \in Seq(Message) /\ lead \in Seq(LeadMessage)
  BY <1>1 DEF StreamTyped
<1> DEFINE m == Head(lead)
<1>4. m \in LeadMessage /\ Tail(lead) \in Seq(LeadMessage)
  BY <1>3, HeadTailProperties
<1> HIDE DEF m
<1>5. m \in Message /\ m.type \in {"resize", "history", "history_end"}
  BY <1>4, LeadTypes
<1>6. down' = Append(down, m) /\ down' \in Seq(Message)
  BY <1>3, <1>5 DEF m
<1>7. PICK k \in Nat : Links(lead, n, k) /\ Links(queue, k, produced)
  BY <1>2 DEF Behind
<1>8. PICK c \in Nat : Moves(m, n, c) /\ Links(Tail(lead), c, k)
  BY <1>3, <1>7, LinksFirst DEF m
<1>9. Ahead(handed', batch', down', c)
  BY <1>2, <1>3, <1>5, <1>6, <1>8, AppendDown
<1>10. Behind(lead', queue', c, produced')
  BY <1>7, <1>8 DEF Behind
<1>12. StreamTyped'
  BY <1>1, <1>4, <1>6 DEF StreamTyped
<1>13. batch = <<>> /\ Lacks(down, {"output"}) /\ HistoryFirst(down)
       /\ connection = "connected" /\ Lacks(down, {"exit", "close"})
  BY <1>1 DEF StreamRoles
<1>14. HistoryFirst(down')
  BY <1>3, <1>5, <1>6, <1>13, HistoryFirstAppend
<1>15. Lacks(down', {"output"}) /\ Lacks(down', {"exit", "close"})
  <2>1. m.type \notin {"output"} /\ m.type \notin {"exit", "close"}
    BY <1>5
  <2>2. QED
    BY <1>3, <1>5, <1>6, <1>13, <2>1, LacksAppend
<1>11. StreamPlaced'
  <2>1. ~Over'
    BY <1>13, <1>15 DEF Over, Lacks
  <2>2. QED
    BY <1>9, <1>10, <2>1 DEF StreamPlaced, Rest
<1>16. StreamRoles'
  BY <1>13, <1>14, <1>15 DEF StreamRoles
<1>17. QED
  BY <1>11, <1>12, <1>16 DEF StreamKnown

\* A message of the queue, or several in one, is sent when nothing precedes it.
LEMMA WriteQueued ==
    ASSUME StreamKnown, serving, lead = <<>>, NEW m \in QueueMessage, NEW c \in Nat,
           NEW n \in Nat, Ahead(handed, batch, down, n), Moves(m, n, c),
           Links(queue', c, produced), queue' \in Seq(QueueMessage),
           down' = Append(down, m),
           UNCHANGED <<lead, serving, produced, ended, connection, batch, handed, xterm>>
    PROVE  StreamKnown'
<1>1. StreamTyped /\ StreamRoles /\ down \in Seq(Message)
  BY DEF StreamKnown, StreamTyped
<1>2. m \in Message /\ m.type \in {"resize", "output"}
  BY QueueTypes
<1>3. down' \in Seq(Message)
  BY <1>1, <1>2
<1>4. Ahead(handed', batch', down', c)
  BY <1>1, <1>2, AppendDown
<1>5. Links(lead', c, c)
  BY LinksNone
<1>6. Behind(lead', queue', c, produced')
  BY <1>5 DEF Behind
<1>8. StreamTyped'
  BY <1>1, <1>3 DEF StreamTyped
<1>9. HistoryFirst(down')
  <2>1. HistoryFirst(down)
    BY <1>1 DEF StreamRoles
  <2>2. QED
    BY <1>1, <1>2, <2>1, HistoryFirstAppend
<1>10. (Lacks(down, {"history"}) => Lacks(down', {"history"}))
       /\ (Lacks(down, {"exit", "close"}) => Lacks(down', {"exit", "close"}))
  <2>1. m.type \notin {"history"} /\ m.type \notin {"exit", "close"}
    BY <1>2
  <2>2. QED
    BY <1>1, <1>2, <2>1, LacksAppend
<1>7. StreamPlaced'
  <2>1. connection = "connected" /\ Lacks(down, {"exit", "close"})
    BY <1>1 DEF StreamRoles
  <2>2. ~Over'
    BY <1>10, <2>1 DEF Over, Lacks
  <2>3. QED
    BY <1>4, <1>6, <2>2 DEF StreamPlaced, Rest
<1>11. StreamRoles'
  BY <1>1, <1>9, <1>10 DEF StreamRoles
<1>12. QED
  BY <1>7, <1>8, <1>11 DEF StreamKnown

\* Then the queue follows what was sent.
LEMMA QueueNext ==
    ASSUME StreamKnown, serving, lead = <<>>
    PROVE  \E n \in Nat : Ahead(handed, batch, down, n) /\ Links(queue, n, produced)
<1>1. PICK n \in Nat : Ahead(handed, batch, down, n) /\ Behind(lead, queue, n, produced)
  BY DEF StreamKnown, StreamPlaced, Rest
<1>2. PICK k \in Nat : Links(lead, n, k) /\ Links(queue, k, produced)
  BY <1>1 DEF Behind
<1>3. k = n
  BY <1>2, LinksNone
<1>4. QED
  BY <1>1, <1>2, <1>3

\* It sends a size.
LEMMA WriteSize ==
    ASSUME StreamKnown, serving, lead = <<>>, queue # <<>>,
           down' = Append(down, Head(queue)), queue' = Tail(queue),
           UNCHANGED <<lead, serving, produced, ended, connection, batch, handed, xterm>>
    PROVE  StreamKnown'
<1>1. PICK n \in Nat : Ahead(handed, batch, down, n) /\ Links(queue, n, produced)
  BY QueueNext
<1>2. queue \in Seq(QueueMessage) /\ produced \in Nat
  BY DEF StreamKnown, StreamTyped
<1>3. Head(queue) \in QueueMessage /\ Tail(queue) \in Seq(QueueMessage)
  BY <1>2, HeadTailProperties
<1>4. PICK c \in Nat : Moves(Head(queue), n, c) /\ Links(Tail(queue), c, produced)
  BY <1>1, <1>2, LinksFirst
<1>5. QED
  BY <1>1, <1>3, <1>4, WriteQueued

\* The output that waits is one run, as long as no size comes between.
LEMMA BatchRuns ==
    ASSUME queue \in Seq(QueueMessage), produced \in Nat, NEW n \in 1..FrameLimit,
           n <= Len(queue), \A i \in 1..n : ~IsSize(queue[i]),
           NEW a \in Nat, Links(queue, a, produced)
    PROVE  \E c \in Nat : /\ Run(FlattenSeq([i \in 1..n |-> queue[i].data]), a, c)
                          /\ Links(SubSeq(queue, n + 1, Len(queue)), c, produced)
<1> DEFINE l == Len(queue)
<1>2. l \in Nat /\ n \in 0..l /\ n \in Nat /\ n >= 1
  BY Frame
<1>3. PICK c \in Nat : /\ Links(SubSeq(queue, 1, n), a, c)
                      /\ Links(SubSeq(queue, n + 1, l), c, produced)
  BY <1>2, LinksSplit
<1> DEFINE t == SubSeq(queue, 1, n)
<1>5. Len(t) = n /\ \A i \in 1..n : t[i] = queue[i]
  <2>1. \A i \in 1..n : queue[i] \in QueueMessage /\ 1 + i - 1 = i
    BY <1>2
  <2>2. 1 \in Int /\ n \in Int /\ 1 <= n /\ n - 1 + 1 = n
    BY <1>2
  <2>3. Len(t) = (IF 1 <= n THEN n - 1 + 1 ELSE 0) /\ \A i \in 1..(n - 1 + 1) : t[i] = queue[1 + i - 1]
    BY <2>1, <2>2, SubSeqProperties
  <2> HIDE DEF t
  <2>4. QED
    BY <2>1, <2>2, <2>3
<1>6. PICK p \in [0..n -> Nat] :
         p[0] = a /\ p[n] = c /\ \A i \in 1..n : Moves(t[i], p[i - 1], p[i])
  <2> HIDE DEF t
  <2>1. Links(t, a, c)
    BY <1>3 DEF t
  <2>2. QED
    BY <1>5, <2>1 DEF Links
<1> DEFINE D(i) == queue[i].data
           ds == [i \in 1..n |-> D(i)]
<1>7. ASSUME NEW i \in 1..n PROVE D(i) \in Seq(Nat) /\ Run(D(i), p[i - 1], p[i])
  <2>1. queue[i] \in QueueMessage /\ queue[i].type # "resize"
    BY <1>2 DEF IsSize
  <2>2. Moves(queue[i], p[i - 1], p[i])
    BY <1>5, <1>6
  <2>3. Run(queue[i].data, p[i - 1], p[i])
    BY <2>1, <2>2 DEF Moves, QueueMessage
  <2>4. QED
    BY <2>3 DEF Run
<1> HIDE DEF D, t
<1>8. ds \in Seq(Seq(Nat)) /\ Len(ds) = n /\ \A i \in 1..n : ds[i] = D(i)
  BY <1>2, <1>7
<1> HIDE DEF ds
<1>9. Run(FlattenSeq(ds), a, c)
  BY <1>6, <1>7, <1>8, FlattenRuns
<1>10. QED
  BY <1>3, <1>9 DEF ds, D

\* It sends the output that waits in one message.
LEMMA WriteBatch ==
    ASSUME StreamKnown, serving, lead = <<>>, NEW n \in 1..FrameLimit, n <= Len(queue),
           \A i \in 1..n : ~IsSize(queue[i]),
           down' = Append(down, Output(FlattenSeq([i \in 1..n |-> queue[i].data]))),
           queue' = SubSeq(queue, n + 1, Len(queue)),
           UNCHANGED <<lead, serving, produced, ended, connection, batch, handed, xterm>>
    PROVE  StreamKnown'
<1> DEFINE l == Len(queue)
           d == FlattenSeq([i \in 1..n |-> queue[i].data])
<1>1. PICK a \in Nat : Ahead(handed, batch, down, a) /\ Links(queue, a, produced)
  BY QueueNext
<1>2. queue \in Seq(QueueMessage) /\ produced \in Nat /\ l \in Nat /\ n \in Nat /\ n >= 1
  BY Frame DEF StreamKnown, StreamTyped
<1>3. PICK c \in Nat : Run(d, a, c) /\ Links(queue', c, produced)
  BY <1>1, <1>2, BatchRuns
<1>4. queue' \in Seq(QueueMessage)
  <2>1. \A i \in (n + 1)..l : queue[i] \in QueueMessage
    BY <1>2
  <2>2. n + 1 \in Int /\ l \in Int
    BY <1>2
  <2>3. QED
    BY <2>1, <2>2, SubSeqProperties
<1> HIDE DEF d
<1> DEFINE m == Output(d)
<1>10. m \in QueueMessage /\ Moves(m, a, c)
  <2>1. d \in Seq(Nat)
    BY <1>3 DEF Run
  <2>2. QED
    BY <1>3, <2>1 DEF Output, QueueMessage, Moves
<1>11. down' = Append(down, m)
  BY DEF m, d
<1> HIDE DEF m
<1>12. QED
  BY <1>1, <1>3, <1>4, <1>10, <1>11, WriteQueued

\* It sends the exit when nothing waits.
LEMMA WriteExit ==
    ASSUME StreamKnown, serving, down' = down \o <<Bare("exit"), Bare("close")>>,
           serving' = FALSE, ended, lead = <<>>, queue = <<>>,
           UNCHANGED <<lead, queue, produced, ended, connection, batch, handed, xterm>>
    PROVE  StreamKnown'
<1>1. StreamTyped /\ StreamPlaced /\ StreamRoles /\ down \in Seq(Message)
  BY DEF StreamKnown, StreamTyped
<1>2. PICK n \in Nat : Ahead(handed, batch, down, n) /\ Links(queue, n, produced)
  BY QueueNext
<1>a. n = produced
  BY <1>2, LinksNone
<1> DEFINE e == Bare("exit")
           c == Bare("close")
           d == Append(down, e)
<1>3. /\ e \in Message /\ e.type = "exit" /\ Moves(e, n, n)
      /\ c \in Message /\ c.type = "close" /\ Moves(c, n, n)
  BY CloseIs
<1> HIDE DEF e, c
<1>4. down' = Append(d, c)
  <2>1. down' = down \o <<e, c>>
    BY DEF e, c
  <2>2. QED
    BY <1>1, <1>3, <2>1
<1>5. d \in Seq(Message) /\ Ahead(handed, batch, d, n)
  BY <1>1, <1>2, <1>3, AppendDown
<1>6. HistoryFirst(d)
  BY <1>1, <1>3, HistoryFirstAppend DEF StreamRoles
<1>7. /\ Lacks(down, {"history"}) => Lacks(d, {"history"})
      /\ Lacks(down, {"output"}) => Lacks(d, {"output"})
  BY <1>1, <1>3, LacksAppend
<1> HIDE DEF d
<1>8. down' \in Seq(Message) /\ Ahead(handed', batch', down', n)
  <2>1. Append(d, c) \in Seq(Message)
    BY <1>3, <1>5
  <2>2. Ahead(handed, batch, Append(d, c), n)
    BY <1>3, <1>5, AppendDown
  <2>3. QED
    BY <1>4, <2>1, <2>2
<1>9. HistoryFirst(down')
  BY <1>3, <1>4, <1>5, <1>6, HistoryFirstAppend
<1>10. /\ Lacks(d, {"history"}) => Lacks(down', {"history"})
       /\ Lacks(d, {"output"}) => Lacks(down', {"output"})
  BY <1>3, <1>4, <1>5, LacksAppend
<1>11. StreamPlaced'
  BY <1>8, <1>a DEF StreamPlaced, Rest
<1>12. StreamTyped'
  BY <1>1, <1>8 DEF StreamTyped
<1>13. connection # "connecting"
  BY <1>1 DEF StreamRoles
<1>14. StreamRoles'
  BY <1>1, <1>7, <1>9, <1>10, <1>13 DEF StreamRoles
<1>15. QED
  BY <1>11, <1>12, <1>14 DEF StreamKnown

\* The server writes to the socket.
LEMMA StepWrite == ASSUME StreamKnown, WriteFrame PROVE StreamKnown'
<1>1. serving /\ UNCHANGED <<produced, ended, connection, batch, handed, xterm>>
  BY DEF WriteFrame, process, output
<1>2. CASE lead # <<>> /\ lead' = Tail(lead) /\ down' = Append(down, Head(lead))
           /\ UNCHANGED <<queue, serving>>
  BY <1>1, <1>2, WriteLead
<1>3. CASE lead = <<>> /\ queue # <<>> /\ IsSize(Head(queue))
           /\ down' = Append(down, Head(queue)) /\ queue' = Tail(queue)
           /\ UNCHANGED <<lead, serving>>
  BY <1>1, <1>3, WriteSize
<1>4. CASE /\ lead = <<>>
           /\ \E n \in 1..FrameLimit :
                  /\ n <= Len(queue)
                  /\ \A i \in 1..n : ~IsSize(queue[i])
                  /\ down' = Append(down, Output(
                         FlattenSeq([i \in 1..n |-> queue[i].data])))
                  /\ queue' = SubSeq(queue, n + 1, Len(queue))
           /\ UNCHANGED <<lead, serving>>
  <2>1. PICK n \in 1..FrameLimit :
                  /\ n <= Len(queue)
                  /\ \A i \in 1..n : ~IsSize(queue[i])
                  /\ down' = Append(down, Output(
                         FlattenSeq([i \in 1..n |-> queue[i].data])))
                  /\ queue' = SubSeq(queue, n + 1, Len(queue))
    BY <1>4, Zenon
  <2>2. QED
    BY <1>1, <1>4, <2>1, WriteBatch
<1>5. CASE lead = <<>> /\ queue = <<>> /\ ended
           /\ down' = down \o <<Bare("exit"), Bare("close")>>
           /\ serving' = FALSE /\ UNCHANGED <<lead, queue>>
  BY <1>1, <1>5, WriteExit
<1>6. QED
  BY <1>2, <1>3, <1>4, <1>5, Zenon DEF WriteFrame

\* The connection breaks.
LEMMA StepBreak == ASSUME StreamKnown, LinkBreaks PROVE StreamKnown'
<1>1. StreamTyped /\ StreamPlaced /\ StreamRoles
  BY DEF StreamKnown
<1>2. /\ connection = "connected" /\ connection' = connection
      /\ serving' = FALSE /\ queue' = <<>> /\ lead' = <<>> /\ down' = <<Bare("close")>>
      /\ UNCHANGED <<produced, ended, batch, handed, xterm>>
  BY DEF LinkBreaks, process, output
<1>3. PICK h \in Nat, b \in Nat : Ends(handed, h) /\ Run(batch, h, b)
  BY <1>1 DEF StreamPlaced, Ahead
<1> DEFINE c == Bare("close")
<1>4. c \in Message /\ c.type = "close" /\ Moves(c, b, b)
  BY CloseIs
<1> HIDE DEF c
<1>5. down' = <<c>> /\ down' \in Seq(Message) /\ queue' \in Seq(QueueMessage) /\ lead' \in Seq(LeadMessage)
  BY <1>2, <1>4 DEF c
<1>6. Links(down', b, b)
  BY <1>4, <1>5, LinksOne
<1>7. Ahead(handed', batch', down', b)
  BY <1>2, <1>3, <1>6 DEF Ahead
<1>8. StreamPlaced'
  <2>1. ~Over'
    BY <1>2, <1>4, <1>5 DEF Over, Lacks
  <2>2. QED
    BY <1>2, <1>7, <2>1 DEF StreamPlaced, Rest
<1>9. StreamTyped'
  BY <1>1, <1>2, <1>5 DEF StreamTyped
<1>10. HistoryFirst(down') /\ Lacks(down', {"history"})
  BY <1>4, <1>5 DEF HistoryFirst, Lacks
<1>11. StreamRoles'
  BY <1>2, <1>10 DEF StreamRoles
<1>12. QED
  BY <1>8, <1>9, <1>11 DEF StreamKnown

\* The page starts over.
LEMMA StepReconnect == ASSUME StreamKnown, Reconnect PROVE StreamKnown'
<1>1. StreamTyped /\ StreamRoles
  BY DEF StreamKnown
<1>2. /\ connection = "disconnected" /\ connection' = "connecting"
      /\ down' = <<>> /\ lead' = <<>> /\ batch' = <<>> /\ handed' = <<>> /\ xterm' = <<>>
      /\ UNCHANGED <<serving, queue, produced, ended>>
  BY DEF Reconnect, process
<1>3. ~serving'
  BY <1>1, <1>2 DEF StreamRoles
<1>4. <<>> \in Seq(Message) /\ <<>> \in Seq(LeadMessage) /\ <<>> \in Seq(Nat)
  OBVIOUS
<1>5. StreamTyped'
  BY <1>1, <1>2, <1>4 DEF StreamTyped
<1>6. StreamPlaced'
  <2>1. Ends(<<>>, 0) /\ Run(<<>>, 0, 0) /\ Links(<<>>, 0, 0)
    BY RunNone, LinksNone DEF Ends, Ordered
  <2>2. Ahead(<<>>, <<>>, <<>>, 0)
    BY <2>1 DEF Ahead
  <2>3. QED
    BY <1>2, <1>3, <2>2 DEF StreamPlaced, Rest, Over, Lacks
<1>7. HistoryFirst(<<>>)
  BY DEF HistoryFirst
<1>8. StreamRoles'
  BY <1>2, <1>3, <1>7 DEF StreamRoles
<1>9. QED
  BY <1>5, <1>6, <1>8 DEF StreamKnown

-----------------------------------------------------------------------------
\* write: what a terminal is handed by several pieces.
LEMMA WritesHands ==
    ASSUME NEW pieces, NEW history, Writes(pieces, history)
    PROVE  handed' = handed \o Marked(FlattenSeq(pieces))
  BY Zenon DEF Writes

\* flush, from a timer, a key or an answer of xterm.
LEMMA Flushes ==
    ASSUME StreamKnown, connection # "connecting", batch' = <<>>,
           handed' = handed \o Marked(FlattenSeq(Flushed)) \/ handed' = handed \o Marked(batch),
           UNCHANGED <<produced, ended, serving, lead, queue, down, connection>>
    PROVE  StreamKnown'
<1>1. StreamTyped /\ StreamPlaced /\ StreamRoles
  BY DEF StreamKnown
<1>2. PICK n \in Nat : Ahead(handed, batch, down, n) /\ Rest(n)
  BY <1>1 DEF StreamPlaced
<1>3. PICK h \in Nat, b \in Nat : Ends(handed, h) /\ Run(batch, h, b) /\ Links(down, b, n)
  BY <1>2 DEF Ahead
<1>4. Ends(handed', b)
  <2>1. Run(FlattenSeq(Flushed), h, b)
    BY <1>3, FlushedRuns
  <2>2. QED
    BY <1>3, <2>1, HandChunks
<1>5. Run(batch', b, b)
  BY <1>3, RunNone
<1>6. Ahead(handed', batch', down', n)
  BY <1>3, <1>4, <1>5 DEF Ahead
<1>7. StreamPlaced'
  BY <1>2, <1>6 DEF StreamPlaced, Rest, Over
<1>8. batch' \in Seq(Nat)
  OBVIOUS
<1>9. StreamTyped'
  BY <1>1, <1>8 DEF StreamTyped
<1>10. StreamRoles'
  BY <1>1 DEF StreamRoles
<1>11. QED
  BY <1>7, <1>9, <1>10 DEF StreamKnown

\* Hearing a message keeps the roles.
LEMMA HearRoles ==
    ASSUME StreamKnown, down # <<>>, down' = Tail(down),
           batch' = <<>> \/ batch' = batch \/ Head(down).type = "output",
           UNCHANGED <<serving, lead>>,
           connection' = connection
           \/ (connection' # "connecting" /\ Head(down).type \in {"exit", "close"})
    PROVE  StreamRoles'
<1>1. StreamTyped /\ StreamRoles /\ down \in Seq(Message)
  BY DEF StreamKnown, StreamTyped
<1>2. /\ HistoryFirst(down) => HistoryFirst(down')
      /\ \A types : Lacks(down, types) => Lacks(down', types) /\ Head(down).type \notin types
      /\ HistoryFirst(down) /\ Head(down).type = "output" => Lacks(down', {"history"})
  BY <1>1, TailRoles
<1>3. HistoryFirst(down')
  BY <1>1, <1>2 DEF StreamRoles
<1>4. batch' = <<>> \/ Lacks(down', {"history"})
  BY <1>1, <1>2 DEF StreamRoles
<1>5. lead' = <<>> \/ (batch' = <<>> /\ Lacks(down', {"output"}))
  <2>1. CASE lead = <<>>
    BY <2>1
  <2>2. CASE lead # <<>>
    <3>1. batch = <<>> /\ Lacks(down, {"output"})
      BY <1>1, <2>2 DEF StreamRoles
    <3>2. Lacks(down', {"output"}) /\ Head(down).type # "output"
      BY <1>2, <3>1
    <3>3. QED
      BY <3>1, <3>2
  <2>3. QED
    BY <2>1, <2>2
<1>6. serving' => connection' = "connected" /\ Lacks(down', {"exit", "close"})
  <2>1. SUFFICES ASSUME serving PROVE connection' = "connected" /\ Lacks(down', {"exit", "close"})
    OBVIOUS
  <2>2. connection = "connected" /\ Lacks(down, {"exit", "close"})
    BY <1>1, <2>1 DEF StreamRoles
  <2>3. Lacks(down', {"exit", "close"}) /\ Head(down).type \notin {"exit", "close"}
    BY <1>2, <2>2
  <2>4. QED
    BY <2>2, <2>3
<1>7. connection' # "connecting"
  BY <1>1 DEF StreamRoles
<1>8. QED
  BY <1>3, <1>4, <1>5, <1>6, <1>7 DEF StreamRoles

\* The first message on its way follows what is batched.
LEMMA Hears ==
    ASSUME StreamKnown, down # <<>>
    PROVE  /\ Head(down) \in Message /\ Tail(down) \in Seq(Message)
           /\ connection # "connecting"
           /\ \E n \in Nat, h \in Nat, b \in Nat, c \in Nat :
                  /\ Rest(n)
                  /\ Ends(handed, h) /\ Run(batch, h, b)
                  /\ Moves(Head(down), b, c) /\ Links(Tail(down), c, n)
<1>1. StreamTyped /\ StreamPlaced /\ StreamRoles /\ down \in Seq(Message)
  BY DEF StreamKnown, StreamTyped
<1>2. PICK n \in Nat : Ahead(handed, batch, down, n) /\ Rest(n)
  BY <1>1 DEF StreamPlaced
<1>3. PICK h \in Nat, b \in Nat : Ends(handed, h) /\ Run(batch, h, b) /\ Links(down, b, n)
  BY <1>2 DEF Ahead
<1>4. \E c \in Nat : Moves(Head(down), b, c) /\ Links(Tail(down), c, n)
  BY <1>1, <1>3, LinksFirst
<1>5. Head(down) \in Message /\ Tail(down) \in Seq(Message)
  BY <1>1, HeadTailProperties
<1>6. connection # "connecting"
  BY <1>1 DEF StreamRoles
<1>7. QED
  BY <1>2, <1>3, <1>4, <1>5, <1>6, Zenon

\* When it is heard, the rest still follows.
LEMMA HeardRest ==
    ASSUME StreamKnown, down # <<>>, down' = Tail(down),
           batch' = <<>> \/ batch' = batch \/ Head(down).type = "output", batch' \in Seq(Nat),
           UNCHANGED <<produced, ended, serving, lead, queue>>,
           connection' = connection
           \/ (connection' \in {"exited", "disconnected"} /\ Head(down).type \in {"exit", "close"}),
           connection' = "exited" => connection = "exited" \/ Head(down).type = "exit",
           NEW n \in Nat, Rest(n),
           NEW h \in Nat, NEW b \in Nat, Ends(handed', h), Run(batch', h, b),
           Links(Tail(down), b, n)
    PROVE  StreamKnown'
<1>1. Ahead(handed', batch', down', n)
  BY DEF Ahead
<1>2. StreamPlaced'
  <2>1. Over' => Over
    <3>1. down \in Seq(Message)
      BY DEF StreamKnown, StreamTyped
    <3>2. Lacks(down, {"exit"}) => Lacks(down', {"exit"}) /\ Head(down).type \notin {"exit"}
      BY <3>1, TailRoles
    <3>3. QED
      BY <3>2 DEF Over
  <2>2. Rest(n)'
    BY <2>1 DEF Rest
  <2>3. QED
    BY <1>1, <2>2 DEF StreamPlaced
<1>3. StreamTyped'
  <2>1. Tail(down) \in Seq(Message)
    BY Hears
  <2>2. QED
    BY <2>1 DEF StreamKnown, StreamTyped
<1>4. StreamRoles'
  BY HearRoles
<1>5. QED
  BY <1>2, <1>3, <1>4 DEF StreamKnown

\* The browser hears a piece of the history,
LEMMA StepHistory == ASSUME StreamKnown, HearHistory PROVE StreamKnown'
<1>1. /\ down # <<>> /\ down' = Tail(down) /\ Head(down).type = "history"
      /\ Writes(<<Head(down).data>>, TRUE)
      /\ UNCHANGED <<produced, ended, serving, lead, queue, connection, batch>>
  BY Zenon DEF HearHistory, Hear, Heard, process, server
<1> DEFINE d == Head(down).data
<1>2. handed' = handed \o Marked(FlattenSeq(<<d>>))
  BY <1>1, WritesHands
<1>3. PICK n \in Nat, h \in Nat, b \in Nat, c \in Nat :
          /\ Rest(n)
          /\ Ends(handed, h) /\ Run(batch, h, b)
          /\ Moves(Head(down), b, c) /\ Links(Tail(down), c, n)
  BY <1>1, Hears, Zenon
<1>4. Run(d, b, c)
  BY <1>1, <1>3 DEF Moves
<1>5. batch = <<>> /\ batch \in Seq(Nat)
  <2>1. down \in Seq(Message) /\ StreamRoles /\ batch \in Seq(Nat)
    BY DEF StreamKnown, StreamTyped
  <2>2. Lacks(down, {"history"}) => Head(down).type \notin {"history"}
    BY <1>1, <2>1, TailRoles
  <2>3. QED
    BY <1>1, <2>1, <2>2 DEF StreamRoles
<1>6. b = h
  BY <1>3, <1>5 DEF Run
<1> HIDE DEF d
<1>7. Run(FlattenSeq(<<d>>), h, c)
  BY <1>4, <1>6, FlattenSingle
<1>8. Ends(handed', c)
  BY <1>2, <1>3, <1>7, HandChunks
<1>9. Run(batch', c, c)
  BY <1>1, <1>5, RunNone
<1>10. QED
  BY <1>1, <1>3, <1>5, <1>8, <1>9, HeardRest

\* live output,
LEMMA StepOutput == ASSUME StreamKnown, HearOutput PROVE StreamKnown'
<1>1. /\ down # <<>> /\ down' = Tail(down) /\ Head(down).type = "output"
      /\ \/ interactive /\ batch' = <<>> /\ Writes(Flushed \o <<Head(down).data>>, FALSE)
         \/ batch' = batch \o Head(down).data /\ handed' = handed
      /\ UNCHANGED <<produced, ended, serving, lead, queue, connection>>
  BY Zenon DEF HearOutput, Hear, Heard, process, server
<1> DEFINE d == Head(down).data
<1>2. PICK n \in Nat, h \in Nat, b \in Nat, c \in Nat :
          /\ Rest(n)
          /\ Ends(handed, h) /\ Run(batch, h, b)
          /\ Moves(Head(down), b, c) /\ Links(Tail(down), c, n)
  BY <1>1, Hears, Zenon
<1>3. Run(d, b, c)
  BY <1>1, <1>2 DEF Moves
<1> HIDE DEF d
<1>4. CASE batch' = <<>> /\ Writes(Flushed \o <<Head(down).data>>, FALSE)
  <2>1. handed' = handed \o Marked(FlattenSeq(Flushed \o <<d>>))
    BY <1>4, WritesHands DEF d
  <2>2. Run(FlattenSeq(Flushed \o <<d>>), h, c)
    BY <1>2, <1>3, FlushedPair
  <2>3. Ends(handed', c)
    BY <1>2, <2>1, <2>2, HandChunks
  <2>4. Run(batch', c, c) /\ batch' \in Seq(Nat)
    BY <1>4, RunNone
  <2>5. QED
    BY <1>1, <1>2, <2>3, <2>4, HeardRest
<1>5. CASE batch' = batch \o Head(down).data /\ handed' = handed
  <2>1. batch' = batch \o d
    BY <1>5 DEF d
  <2>2. Run(batch \o d, h, c)
    BY <1>2, <1>3, RunConcat
  <2>3. Run(batch', h, c) /\ batch' \in Seq(Nat) /\ Ends(handed', h)
    BY <1>2, <1>5, <2>1, <2>2 DEF Run
  <2>4. QED
    BY <1>1, <1>2, <2>3, HeardRest
<1>6. QED
  BY <1>1, <1>4, <1>5

\* a size,
LEMMA StepHearSize == ASSUME StreamKnown, HearSize PROVE StreamKnown'
<1>1. /\ down # <<>> /\ down' = Tail(down) /\ Head(down).type = "resize" /\ batch' = <<>>
      /\ handed' = Append(handed \o Marked(batch), Head(down))
      /\ UNCHANGED <<produced, ended, serving, lead, queue, connection>>
  BY Zenon DEF HearSize, Hear, Heard, process, server
<1>2. PICK n \in Nat, h \in Nat, b \in Nat, c \in Nat :
          /\ Rest(n)
          /\ Ends(handed, h) /\ Run(batch, h, b)
          /\ Moves(Head(down), b, c) /\ Links(Tail(down), c, n)
  BY <1>1, Hears, Zenon
<1>3. Head(down) \in Message
  BY <1>1, Hears
<1> DEFINE m == Head(down)
           w == handed \o Marked(batch)
<1>4. m \in Handed /\ m.type = "resize" /\ m.at = b /\ c = b
  BY <1>1, <1>2, <1>3 DEF Moves, Message, Handed
<1>5. Ends(w, b)
  BY <1>2, HandChunks
<1> HIDE DEF m, w
<1>6. Ends(Append(w, m), b)
  BY <1>4, <1>5, HandSize
<1>7. Ends(handed', b) /\ Run(batch', b, b) /\ batch' \in Seq(Nat)
  BY <1>1, <1>6, RunNone DEF m, w
<1>8. QED
  BY <1>1, <1>2, <1>4, <1>7, HeardRest

\* the end of the history,
LEMMA StepHistoryEnd == ASSUME StreamKnown, HearHistoryEnd PROVE StreamKnown'
<1>1. /\ down # <<>> /\ down' = Tail(down) /\ Head(down).type = "history_end"
      /\ UNCHANGED <<produced, ended, serving, lead, queue, connection, batch, handed>>
  BY Zenon DEF HearHistoryEnd, Hear, Heard, process, server, output
<1>2. PICK n \in Nat, h \in Nat, b \in Nat, c \in Nat :
          /\ Rest(n)
          /\ Ends(handed, h) /\ Run(batch, h, b)
          /\ Moves(Head(down), b, c) /\ Links(Tail(down), c, n)
  BY <1>1, Hears, Zenon
<1>3. c = b
  BY <1>1, <1>2 DEF Moves
<1>4. Ends(handed', h) /\ Run(batch', h, b) /\ batch' \in Seq(Nat)
  BY <1>1, <1>2 DEF Run
<1>5. QED
  BY <1>1, <1>2, <1>3, <1>4, HeardRest

\* the exit,
LEMMA StepExit == ASSUME StreamKnown, HearExit PROVE StreamKnown'
<1>1. /\ down # <<>> /\ down' = Tail(down) /\ Head(down).type = "exit"
      /\ batch' = <<>> /\ Writes(Flushed, FALSE) /\ connection' = "exited"
      /\ UNCHANGED <<produced, ended, serving, lead, queue>>
  BY Zenon DEF HearExit, Hear, Heard, Flush, process, server
<1>2. PICK n \in Nat, h \in Nat, b \in Nat, c \in Nat :
          /\ Rest(n)
          /\ Ends(handed, h) /\ Run(batch, h, b)
          /\ Moves(Head(down), b, c) /\ Links(Tail(down), c, n)
  BY <1>1, Hears, Zenon
<1>3. c = b
  BY <1>1, <1>2 DEF Moves
<1>4. handed' = handed \o Marked(FlattenSeq(Flushed))
  BY <1>1, WritesHands
<1>5. Run(FlattenSeq(Flushed), h, b)
  BY <1>2, FlushedRuns
<1>6. Ends(handed', b)
  BY <1>2, <1>4, <1>5, HandChunks
<1>7. Run(batch', b, b) /\ batch' \in Seq(Nat)
  BY <1>1, RunNone
<1>8. QED
  BY <1>1, <1>2, <1>3, <1>6, <1>7, HeardRest

\* or that the connection is closed.
LEMMA StepClose == ASSUME StreamKnown, HearClose PROVE StreamKnown'
<1>1. /\ down # <<>> /\ down' = Tail(down) /\ Head(down).type = "close"
      /\ connection' = "exited" => connection = "exited"
      /\ connection' \in {"exited", "disconnected"}
      /\ UNCHANGED <<produced, ended, serving, lead, queue, batch, handed>>
  BY DEF HearClose, Hear, Heard, process, server, output
<1>2. PICK n \in Nat, h \in Nat, b \in Nat, c \in Nat :
          /\ Rest(n)
          /\ Ends(handed, h) /\ Run(batch, h, b)
          /\ Moves(Head(down), b, c) /\ Links(Tail(down), c, n)
  BY <1>1, Hears, Zenon
<1>3. c = b
  BY <1>1, <1>2 DEF Moves
<1>4. Ends(handed', h) /\ Run(batch', h, b) /\ batch' \in Seq(Nat)
  BY <1>1, <1>2 DEF Run
<1>5. QED
  BY <1>1, <1>2, <1>3, <1>4, HeardRest

\* xterm parses, and may answer.
LEMMA StepParse == ASSUME StreamKnown, Parse PROVE StreamKnown'
<1>1. /\ xterm # <<>>
      /\ (batch' = <<>> /\ handed' = handed \o Marked(batch)) \/ UNCHANGED <<batch, handed>>
      /\ UNCHANGED <<produced, ended, serving, lead, queue, down, connection>>
  BY Zenon DEF Parse, process, server
<1>2. connection # "connecting"
  BY <1>1 DEF StreamKnown, StreamRoles
<1>3. CASE batch' = <<>> /\ handed' = handed \o Marked(batch)
  BY <1>1, <1>2, <1>3, Flushes
<1>4. CASE UNCHANGED <<batch, handed>>
  BY <1>1, <1>2, <1>4 DEF StreamKnown, StreamTyped, StreamPlaced, StreamRoles, Rest, Over
<1>5. QED
  BY <1>1, <1>3, <1>4

\* The timer of the batcher rings, or the user types.
LEMMA StepFlush == ASSUME StreamKnown, FlushTimer \/ UserTypes PROVE StreamKnown'
<1>1. /\ batch' = <<>> /\ Writes(Flushed, FALSE)
      /\ batch # <<>> \/ connection = "connected"
      /\ UNCHANGED <<produced, ended, serving, lead, queue, down, connection>>
  BY Zenon DEF FlushTimer, UserTypes, Flush, process, server
<1>2. handed' = handed \o Marked(FlattenSeq(Flushed))
  BY <1>1, WritesHands
<1>3. connection # "connecting"
  BY <1>1 DEF StreamKnown, StreamRoles
<1>4. QED
  BY <1>1, <1>2, <1>3, Flushes

\* Every step keeps the invariant.
LEMMA StreamStep == StreamKnown /\ [StreamNext]_streamVars => StreamKnown'
<1> SUFFICES ASSUME StreamKnown, [StreamNext]_streamVars PROVE StreamKnown'
  OBVIOUS
<1>1. CASE ProcessEnds
  BY <1>1 DEF ProcessEnds, server, output, StreamKnown, StreamTyped, StreamPlaced, StreamRoles, Rest, Over
<1>2. CASE ServerHears \/ InteractiveTimer
  BY <1>2 DEF ServerHears, InteractiveTimer, process, server, output, StreamKnown, StreamTyped,
              StreamPlaced, StreamRoles, Rest, Over
<1>3. CASE UNCHANGED streamVars
  BY <1>3 DEF streamVars, process, server, output, StreamKnown, StreamTyped, StreamPlaced,
              StreamRoles, Rest, Over
<1>4. QED
  BY <1>1, <1>2, <1>3, StepProduce, StepSize, StepAccept, StepWrite, StepBreak, StepReconnect,
     StepHistory, StepHistoryEnd, StepOutput, StepHearSize, StepExit, StepClose, StepParse,
     StepFlush DEF StreamNext, HearFrame

\* It says that what a terminal was handed is in order.
LEMMA StreamOrdered == StreamKnown => HandedInOrder
<1> SUFFICES ASSUME StreamKnown PROVE HandedInOrder
  OBVIOUS
<1>1. Ordered(handed)
  BY DEF StreamKnown, StreamPlaced, Ahead, Ends
<1>2. QED
  BY <1>1 DEF Ordered, HandedInOrder, IsSize

-----------------------------------------------------------------------------
\* Nothing follows the close of a connection, and only the close follows an exit.
Closes(d) ==
    \A i \in 1..Len(d) :
        /\ d[i].type = "close" => i = Len(d)
        /\ d[i].type = "exit" => i + 1 = Len(d) /\ d[i + 1].type = "close"

\* No more than the close is on its way.
AllClose(d) == \A i \in 1..Len(d) : d[i].type = "close"

\* The size the server sends first: that of the oldest chunk it retained.
Begins(m, pr) == m.type = "resize" /\ (m.at < pr \/ m.at = 0)

\* How a connection ends: nothing is heard after it, nothing is batched after
\* the exit.
StreamEnds ==
    /\ Closes(down)
    /\ connection = "disconnected" => down = <<>>
    /\ connection = "exited" => batch = <<>> /\ AllClose(down)

\* How it begins: the size is the first thing the terminal is handed, and until
\* then it is the first thing on its way, or the first the server writes.
StreamBegins ==
    /\ IF handed = <<>> THEN batch = <<>> /\ connection # "exited"
       ELSE Begins(handed[1], produced)
    /\ connection = "connected" /\ handed = <<>> =>
           IF down = <<>> THEN serving /\ lead # <<>> /\ Begins(Head(lead), produced)
           ELSE Head(down).type = "close" \/ Begins(Head(down), produced)

\* Both, which the exit needs: a terminal that was handed nothing knows no exit.
StreamWhole == StreamEnds /\ StreamBegins

\* Before the browser connects both hold.
LEMMA WholeStarts == StreamInit => StreamWhole
  BY DEF StreamInit, StreamWhole, StreamEnds, StreamBegins, Closes

\* The last of a sequence is of the type of the sequence.
LEMMA AppendTyped ==
    ASSUME NEW S, NEW s \in Seq(S), NEW m, Append(s, m) \in Seq(S) PROVE m \in S
<1> DEFINE T == S \cup {m}
           t == Append(s, m)
<1>1. s \in Seq(T) /\ m \in T
  OBVIOUS
<1> HIDE DEF T
<1>2. Len(s) \in Nat /\ Len(t) = Len(s) + 1 /\ t[Len(s) + 1] = m
  BY <1>1, AppendProperties
<1>3. t \in Seq(S)
  OBVIOUS
<1> HIDE DEF t
<1>4. QED
  BY <1>2, <1>3

\* More may follow what is neither a close nor an exit.
LEMMA ClosesAppend ==
    ASSUME NEW d \in Seq(Message), NEW m \in Message, Closes(d), Lacks(d, {"exit", "close"}),
           m.type # "exit"
    PROVE  Closes(Append(d, m)) /\ Append(d, m) # <<>>
           /\ Head(Append(d, m)) = IF d = <<>> THEN m ELSE Head(d)
<1> DEFINE n == Len(d)
           t == Append(d, m)
<1>1. n \in Nat /\ Len(t) = n + 1 /\ t[n + 1] = m /\ \A i \in 1..n : t[i] = d[i]
  BY AppendProperties
<1>2. \A i \in 1..n : d[i].type \notin {"exit", "close"}
  BY DEF Lacks
<1>3. t \in Seq(Message) /\ t # <<>> /\ Head(t) = t[1]
  BY AppendProperties
<1>4. d # <<>> => n > 0 /\ Head(d) = d[1]
  OBVIOUS
<1>5. d = <<>> => n = 0
  OBVIOUS
<1> HIDE DEF t
<1>6. Closes(t)
  BY <1>1, <1>2 DEF Closes
<1>7. Head(t) = IF d = <<>> THEN m ELSE Head(d)
  BY <1>1, <1>3, <1>4, <1>5
<1>8. QED
  BY <1>3, <1>6, <1>7 DEF t

\* What is left when the first message is heard.
LEMMA ClosesTail ==
    ASSUME NEW d \in Seq(Message), d # <<>>, Closes(d)
    PROVE  /\ Closes(Tail(d))
           /\ Head(d).type = "close" => Tail(d) = <<>>
           /\ Head(d).type = "exit" => AllClose(Tail(d))
           /\ AllClose(d) => Head(d).type = "close"
<1> DEFINE n == Len(d)
           t == Tail(d)
<1>1. n \in Nat /\ n > 0 /\ Len(t) = n - 1 /\ Head(d) = d[1] /\ t \in Seq(Message)
      /\ \A i \in 1..(n - 1) : t[i] = d[i + 1]
  OBVIOUS
<1> HIDE DEF t
<1>2. Len(t) = 0 => t = <<>>
  BY <1>1
<1>3. Closes(t)
  BY <1>1 DEF Closes
<1>4. d[1].type = "close" => n = 1
  BY <1>1 DEF Closes
<1>5. d[1].type = "exit" => n = 2 /\ d[2].type = "close"
  BY <1>1 DEF Closes
<1>6. d[1].type = "exit" => AllClose(t)
  BY <1>1, <1>5 DEF AllClose
<1>7. AllClose(d) => d[1].type = "close"
  BY <1>1 DEF AllClose
<1>8. QED
  BY <1>1, <1>2, <1>3, <1>4, <1>6, <1>7 DEF t

\* What began a connection still did after more was produced.
LEMMA BeginsStay ==
    ASSUME NEW m, NEW a \in Nat, NEW b \in Nat, a <= b, Begins(m, a),
           m.type = "resize" => m.at \in Nat
    PROVE  Begins(m, b)
  BY DEF Begins

\* What the invariant says of types and roles.
LEMMA WholeTypes ==
    ASSUME StreamKnown
    PROVE  /\ produced \in Nat /\ down \in Seq(Message) /\ lead \in Seq(LeadMessage)
           /\ batch \in Seq(Nat) /\ handed \in Seq(Handed)
           /\ serving => connection = "connected" /\ Lacks(down, {"exit", "close"})
           /\ connection = "connecting" =>
                  ~serving /\ down = <<>> /\ handed = <<>> /\ batch = <<>> /\ xterm = <<>>
<1>1. handed \in Seq(Handed)
  BY DEF StreamKnown, StreamPlaced, Ahead, Ends
<1>2. QED
  BY <1>1 DEF StreamKnown, StreamTyped, StreamRoles

\* That holds for what was handed, what is on its way and what is to be written.
LEMMA BeginsLater ==
    ASSUME StreamKnown, NEW b \in Nat, produced <= b
    PROVE  /\ handed # <<>> /\ Begins(handed[1], produced) => Begins(handed[1], b)
           /\ down # <<>> /\ Begins(Head(down), produced) => Begins(Head(down), b)
           /\ lead # <<>> /\ Begins(Head(lead), produced) => Begins(Head(lead), b)
<1>1. /\ produced \in Nat /\ down \in Seq(Message) /\ lead \in Seq(LeadMessage)
      /\ handed \in Seq(Handed)
  BY WholeTypes
<1>2. handed # <<>> => handed[1] \in Handed
  BY <1>1
<1>3. down # <<>> => Head(down) \in Message
  BY <1>1
<1>4. lead # <<>> => Head(lead) \in LeadMessage
  BY <1>1
<1>5. \A m \in Handed \cup Message \cup LeadMessage : m.type = "resize" => m.at \in Nat
  BY DEF Handed, Message, LeadMessage
<1>6. QED
  BY <1>1, <1>2, <1>3, <1>4, <1>5, BeginsStay

\* enqueueEvent leaves them, or cuts the browser off.
LEMMA WholeEnqueues ==
    ASSUME StreamKnown, StreamWhole, NEW event, Enqueue(event), produced' \in Nat,
           produced <= produced', UNCHANGED <<lead, connection, batch, handed>>
    PROVE  StreamWhole'
<1>1. StreamEnds /\ StreamBegins
  BY DEF StreamWhole
<1>2. /\ produced \in Nat /\ down \in Seq(Message)
      /\ serving => connection = "connected" /\ Lacks(down, {"exit", "close"})
  BY WholeTypes
<1>3. /\ handed # <<>> /\ Begins(handed[1], produced) => Begins(handed[1], produced')
      /\ down # <<>> /\ Begins(Head(down), produced) => Begins(Head(down), produced')
      /\ lead # <<>> /\ Begins(Head(lead), produced) => Begins(Head(lead), produced')
  BY BeginsLater
<1>4. CASE UNCHANGED <<serving, down>>
  BY <1>1, <1>3, <1>4 DEF StreamWhole, StreamEnds, StreamBegins
<1>5. CASE serving /\ down' = Append(down, Bare("close"))
  <2>1. Bare("close") \in Message /\ Bare("close").type = "close"
    BY CloseIs
  <2>2. /\ Closes(down') /\ down' # <<>>
        /\ Head(down') = IF down = <<>> THEN Bare("close") ELSE Head(down)
    BY <1>1, <1>2, <1>5, <2>1, ClosesAppend DEF StreamEnds
  <2>3. connection = "connected"
    BY <1>2, <1>5
  <2>4. StreamEnds'
    BY <2>2, <2>3 DEF StreamEnds
  <2>5. StreamBegins'
    BY <1>1, <1>3, <2>1, <2>2, <2>3 DEF StreamBegins
  <2>6. QED
    BY <2>4, <2>5 DEF StreamWhole
<1>6. UNCHANGED <<serving, down>> \/ (serving /\ down' = Append(down, Bare("close")))
  BY DEF Enqueue
<1>7. QED
  BY <1>4, <1>5, <1>6

\* A frame follows what is on its way, and the first comes from the lead.
LEMMA WholeFollows ==
    ASSUME StreamKnown, StreamWhole, serving, NEW m, m.type # "exit", down' \in Seq(Message),
           down' = Append(down, m), lead # <<>> => m = Head(lead),
           UNCHANGED <<produced, connection, batch, handed>>
    PROVE  StreamWhole'
<1>1. StreamEnds /\ StreamBegins
  BY DEF StreamWhole
<1>2. /\ down \in Seq(Message) /\ connection = "connected"
      /\ Lacks(down, {"exit", "close"})
  BY WholeTypes
<1>a. m \in Message
  BY <1>2, AppendTyped
<1>3. /\ Closes(down') /\ down' # <<>>
      /\ Head(down') = IF down = <<>> THEN m ELSE Head(down)
  BY <1>1, <1>2, <1>a, ClosesAppend DEF StreamEnds
<1>4. StreamEnds'
  BY <1>2, <1>3 DEF StreamEnds
<1>5. StreamBegins'
  BY <1>1, <1>2, <1>3 DEF StreamBegins
<1>6. QED
  BY <1>4, <1>5 DEF StreamWhole

\* The exit and the close follow the last output.
LEMMA WholeExit ==
    ASSUME StreamKnown, StreamWhole, serving, lead = <<>>,
           down' = down \o <<Bare("exit"), Bare("close")>>,
           UNCHANGED <<produced, connection, batch, handed>>
    PROVE  StreamWhole'
<1>1. StreamEnds /\ StreamBegins
  BY DEF StreamWhole
<1>2. /\ down \in Seq(Message) /\ connection = "connected"
      /\ Lacks(down, {"exit", "close"})
  BY WholeTypes
<1> DEFINE e == Bare("exit")
           c == Bare("close")
           z == <<e, c>>
           n == Len(down)
<1>3. e \in Message /\ e.type = "exit" /\ c \in Message /\ c.type = "close"
  BY CloseIs
<1> HIDE DEF e, c
<1>4. z \in Seq(Message) /\ Len(z) = 2 /\ z[1] = e /\ z[2] = c
  BY <1>3
<1>5. down' = down \o z
  BY DEF e, c
<1> HIDE DEF z
<1>6. /\ down' \in Seq(Message) /\ Len(down') = n + 2
      /\ \A i \in 1..(n + 2) : down'[i] = IF i <= n THEN down[i] ELSE z[i - n]
  <2> DEFINE t == down \o z
             S == Message
  <2> HIDE DEF S
  <2>1. down \in Seq(S) /\ z \in Seq(S)
    BY <1>2, <1>4 DEF S
  <2>2. /\ t \in Seq(S) /\ Len(t) = Len(down) + Len(z)
        /\ \A i \in 1..(Len(down) + Len(z)) : t[i] = IF i <= Len(down) THEN down[i] ELSE z[i - Len(down)]
    BY <2>1, ConcatProperties
  <2>3. down' = t
    BY <1>5
  <2> HIDE DEF t
  <2>4. QED
    BY <1>4, <2>2, <2>3 DEF S
<1>7. n \in Nat /\ \A i \in 1..n : down'[i] = down[i] /\ down[i].type \notin {"exit", "close"}
  BY <1>2, <1>6 DEF Lacks
<1>8. down'[n + 1] = e /\ down'[n + 2] = c
  <2>1. n + 1 \in 1..(n + 2) /\ n + 2 \in 1..(n + 2) /\ ~(n + 1 <= n) /\ ~(n + 2 <= n)
        /\ (n + 1) - n = 1 /\ (n + 2) - n = 2
    BY <1>7
  <2>2. QED
    BY <1>4, <1>6, <2>1
<1>9. Closes(down')
  <2>1. ASSUME NEW i \in 1..Len(down')
        PROVE  /\ down'[i].type = "close" => i = Len(down')
               /\ down'[i].type = "exit" => i + 1 = Len(down') /\ down'[i + 1].type = "close"
    <3>1. i \in 1..n \/ i = n + 1 \/ i = n + 2
      BY <1>6, <1>7
    <3>2. CASE i \in 1..n
      BY <1>7, <3>2
    <3>3. CASE i = n + 1
      <4>1. i + 1 = n + 2 /\ Len(down') = n + 2
        BY <1>6, <1>7, <3>3
      <4>2. QED
        BY <1>3, <1>8, <3>3, <4>1
    <3>4. CASE i = n + 2
      BY <1>3, <1>6, <1>8, <3>4
    <3>5. QED
      BY <3>1, <3>2, <3>3, <3>4
  <2>2. QED
    BY <2>1 DEF Closes
<1>10. handed = <<>> => down # <<>>
  BY <1>1, <1>2 DEF StreamBegins
<1>11. down # <<>> => down' # <<>> /\ Head(down') = Head(down)
  <2>1. SUFFICES ASSUME down # <<>> PROVE down' # <<>> /\ Head(down') = Head(down)
    OBVIOUS
  <2>2. n >= 1 /\ Head(down) = down[1]
    BY <1>2, <2>1
  <2>3. 1 \in 1..n /\ Len(down') # 0
    BY <1>6, <1>7, <2>2
  <2>4. down' # <<>> /\ Head(down') = down'[1]
    BY <1>6, <2>3
  <2>5. QED
    BY <1>7, <2>2, <2>3, <2>4
<1>12. StreamEnds'
  BY <1>2, <1>9 DEF StreamEnds
<1>13. StreamBegins'
  BY <1>1, <1>2, <1>10, <1>11 DEF StreamBegins
<1>14. QED
  BY <1>12, <1>13 DEF StreamWhole

\* The server writes to the socket.
LEMMA WholeWrite == ASSUME StreamKnown, StreamWhole, WriteFrame PROVE StreamWhole'
<1>1. serving /\ UNCHANGED <<produced, connection, batch, handed>>
  BY DEF WriteFrame, process, output
<1>2. lead \in Seq(LeadMessage) /\ queue \in Seq(QueueMessage)
  BY DEF StreamKnown, StreamTyped
<1>3. down' \in Seq(Message)
  BY StepWrite DEF StreamKnown, StreamTyped
<1>4. CASE lead # <<>> /\ down' = Append(down, Head(lead))
  <2>1. Head(lead) \in LeadMessage
    BY <1>2, <1>4
  <2>2. Head(lead).type # "exit"
    BY <2>1, LeadTypes
  <2>3. QED
    BY <1>1, <1>3, <1>4, <2>2, WholeFollows
<1>5. CASE lead = <<>> /\ queue # <<>> /\ down' = Append(down, Head(queue))
  <2>1. Head(queue) \in QueueMessage
    BY <1>2, <1>5
  <2>2. Head(queue).type # "exit"
    BY <2>1, QueueTypes
  <2>3. QED
    BY <1>1, <1>3, <1>5, <2>2, WholeFollows
<1>6. ASSUME lead = <<>>, NEW d, down' = Append(down, Output(d)) PROVE StreamWhole'
  <2>1. Output(d).type # "exit"
    BY DEF Output
  <2>2. QED
    BY <1>1, <1>3, <1>6, <2>1, WholeFollows
<1>7. CASE lead = <<>> /\ down' = down \o <<Bare("exit"), Bare("close")>>
  BY <1>1, <1>7, WholeExit
<1>8. \/ lead # <<>> /\ down' = Append(down, Head(lead))
      \/ lead = <<>> /\ queue # <<>> /\ down' = Append(down, Head(queue))
      \/ lead = <<>> /\ \E n \in 1..FrameLimit :
             down' = Append(down, Output(FlattenSeq([i \in 1..n |-> queue[i].data])))
      \/ lead = <<>> /\ down' = down \o <<Bare("exit"), Bare("close")>>
  BY Zenon DEF WriteFrame
<1>9. QED
  BY <1>4, <1>5, <1>6, <1>7, <1>8, Zenon

\* What precedes the live output starts with the size.
LEMMA LeadBegins ==
    ASSUME NEW S, NEW x \in S, NEW f \in Seq(S), NEW v \in Seq(S)
    PROVE  <<x>> \o f \o v # <<>> /\ Head(<<x>> \o f \o v) = x
<1> DEFINE u == <<x>>
           w == u \o f
           t == w \o v
<1>1. u \in Seq(S) /\ Len(u) = 1 /\ u[1] = x
  OBVIOUS
<1> HIDE DEF u
<1>2. /\ w \in Seq(S) /\ Len(w) = 1 + Len(f)
      /\ \A i \in 1..(Len(u) + Len(f)) : w[i] = IF i <= Len(u) THEN u[i] ELSE f[i - Len(u)]
  BY <1>1, ConcatProperties
<1>3. Len(f) \in Nat /\ Len(v) \in Nat
  OBVIOUS
<1>4. w[1] = x
  BY <1>1, <1>2, <1>3
<1>a. w \in Seq(S)
  BY <1>2
<1> HIDE DEF w
<1>5. /\ t \in Seq(S) /\ Len(t) = Len(w) + Len(v)
      /\ \A i \in 1..(Len(w) + Len(v)) : t[i] = IF i <= Len(w) THEN w[i] ELSE v[i - Len(w)]
  BY <1>a, ConcatProperties
<1>6. t[1] = x /\ Len(t) # 0
  BY <1>2, <1>3, <1>4, <1>5
<1> HIDE DEF t
<1>7. t # <<>> /\ Head(t) = x
  BY <1>5, <1>6
<1>8. QED
  BY <1>7 DEF t, w, u

\* A browser connects: the size is first.
LEMMA WholeAccept == ASSUME StreamKnown, Accept PROVE StreamWhole'
<1>1. /\ connection = "connecting" /\ connection' = "connected" /\ down = <<>>
      /\ serving' = TRUE
      /\ lead' = <<Size(Oldest - 1)>> \o Frames(HistoryChunks) \o <<Bare("history_end")>>
      /\ UNCHANGED <<produced, down, batch, handed>>
  BY DEF Accept, process, output
<1>2. produced \in Nat /\ handed = <<>> /\ batch = <<>>
  BY <1>1, WholeTypes
<1>3. lead' # <<>> /\ Head(lead') = Size(Oldest - 1)
  <2> DEFINE x == Size(Oldest - 1)
             f == Frames(HistoryChunks)
             v == <<Bare("history_end")>>
  <2>1. Oldest - 1 \in Nat /\ Oldest - 1 <= produced /\ Run(HistoryChunks, Oldest - 1, produced)
    BY <1>2, HistoryRun
  <2>2. f \in Seq(LeadMessage)
    BY <1>2, <2>1, FramesTyped
  <2>3. x \in LeadMessage
    BY <2>1 DEF Size, LeadMessage
  <2>4. v \in Seq(LeadMessage)
    BY DEF Bare, LeadMessage
  <2>5. lead' = <<x>> \o f \o v
    BY <1>1
  <2> HIDE DEF x, f, v
  <2>6. lead' # <<>> /\ Head(lead') = x
    BY <2>2, <2>3, <2>4, <2>5, LeadBegins
  <2>7. QED
    BY <2>6 DEF x
<1>4. Begins(Size(Oldest - 1), produced)
  <2>1. Retained \in Nat /\ Retained > 0
    BY StreamAssumption
  <2>2. Oldest - 1 < produced \/ Oldest - 1 = 0
    BY <1>2, <2>1 DEF Oldest
  <2>3. QED
    BY <2>2 DEF Begins, Size
<1>5. StreamEnds'
  BY <1>1 DEF StreamEnds, Closes
<1>6. StreamBegins'
  BY <1>1, <1>2, <1>3, <1>4 DEF StreamBegins
<1>7. QED
  BY <1>5, <1>6 DEF StreamWhole

\* The connection breaks: only the close is on its way.
LEMMA WholeBreak == ASSUME StreamKnown, StreamWhole, LinkBreaks PROVE StreamWhole'
<1>1. /\ connection = "connected" /\ connection' = connection /\ down' = <<Bare("close")>>
      /\ UNCHANGED <<produced, batch, handed>>
  BY DEF LinkBreaks, process, output
<1> DEFINE c == Bare("close")
<1>2. c.type = "close" /\ down' = <<c>>
  BY <1>1, CloseIs
<1> HIDE DEF c
<1>3. down' # <<>> /\ Head(down') = c /\ Len(down') = 1 /\ down'[1] = c
  BY <1>2
<1>4. Closes(down')
  BY <1>2, <1>3 DEF Closes
<1>5. StreamEnds'
  BY <1>1, <1>4 DEF StreamEnds
<1>6. StreamBegins'
  BY <1>1, <1>2, <1>3 DEF StreamWhole, StreamBegins
<1>7. QED
  BY <1>5, <1>6 DEF StreamWhole

\* The page starts over.
LEMMA WholeReconnect == ASSUME StreamWhole, Reconnect PROVE StreamWhole'
<1>1. connection' = "connecting" /\ down' = <<>> /\ batch' = <<>> /\ handed' = <<>>
  BY DEF Reconnect
<1>2. Closes(<<>>)
  BY DEF Closes
<1>3. QED
  BY <1>1, <1>2 DEF StreamWhole, StreamEnds, StreamBegins

\* More is handed over behind what is there, and nothing of nothing.
LEMMA HandedGrows ==
    ASSUME NEW s \in Seq(Handed), NEW d \in Seq(Nat)
    PROVE  /\ s # <<>> => s \o Marked(d) # <<>> /\ (s \o Marked(d))[1] = s[1]
           /\ s = <<>> /\ d = <<>> => s \o Marked(d) = <<>>
           /\ s \o Marked(d) \in Seq(Handed)
<1> DEFINE w == Marked(d)
           t == s \o w
           n == Len(s)
<1>1. w \in Seq(Handed) /\ Len(w) = Len(d)
  <2>1. Len(d) \in Nat /\ \A i \in 1..Len(d) : [type |-> "chunk", at |-> d[i]] \in Handed
    BY DEF Handed
  <2>2. QED
    BY <2>1 DEF Marked
<1> HIDE DEF w
<1>2. /\ t \in Seq(Handed) /\ Len(t) = n + Len(w)
      /\ \A i \in 1..(n + Len(w)) : t[i] = IF i <= n THEN s[i] ELSE w[i - n]
  BY <1>1, ConcatProperties
<1>3. n \in Nat /\ Len(w) \in Nat
  BY <1>1
<1> HIDE DEF t
<1>4. s # <<>> => n >= 1
  OBVIOUS
<1>5. s # <<>> => t # <<>> /\ t[1] = s[1]
  BY <1>2, <1>3, <1>4
<1>6. s = <<>> /\ d = <<>> => Len(t) = 0
  BY <1>1, <1>2
<1>7. QED
  BY <1>2, <1>5, <1>6 DEF t, w

\* What is batched is output.
LEMMA FlushedTyped ==
    ASSUME StreamKnown
    PROVE  FlattenSeq(Flushed) \in Seq(Nat) /\ (batch = <<>> => FlattenSeq(Flushed) = <<>>)
<1>1. PICK h \in Nat, b \in Nat : Run(batch, h, b)
  BY DEF StreamKnown, StreamPlaced, Ahead
<1>2. Run(FlattenSeq(Flushed), h, b)
  BY <1>1, FlushedRuns
<1>3. batch = <<>> => FlattenSeq(Flushed) = <<>>
  BY FlattenNothing DEF Flushed
<1>4. QED
  BY <1>2, <1>3 DEF Run

\* So is what the data of a message is handed over with.
LEMMA HeardPieces ==
    ASSUME StreamKnown, down # <<>>, Head(down).type \in {"history", "output"}
    PROVE  /\ FlattenSeq(<<Head(down).data>>) \in Seq(Nat)
           /\ Head(down).type = "output" => FlattenSeq(Flushed \o <<Head(down).data>>) \in Seq(Nat)
<1> DEFINE d == Head(down).data
<1>1. PICK n \in Nat, h \in Nat, b \in Nat, c \in Nat :
          /\ Rest(n)
          /\ Ends(handed, h) /\ Run(batch, h, b)
          /\ Moves(Head(down), b, c) /\ Links(Tail(down), c, n)
  BY Hears, Zenon
<1>2. Run(d, b, c)
  BY <1>1 DEF Moves
<1> HIDE DEF d
<1>3. Run(FlattenSeq(<<d>>), b, c)
  BY <1>2, FlattenSingle
<1>4. Run(FlattenSeq(Flushed \o <<d>>), h, c)
  BY <1>1, <1>2, FlushedPair
<1>5. QED
  BY <1>3, <1>4 DEF Run, d

\* flush, from a timer, a key or an answer of xterm.
LEMMA WholeFlushes ==
    ASSUME StreamKnown, StreamWhole, batch' = <<>>,
           handed' = handed \o Marked(FlattenSeq(Flushed)) \/ handed' = handed \o Marked(batch),
           UNCHANGED <<produced, serving, lead, down, connection>>
    PROVE  StreamWhole'
<1>1. StreamEnds /\ StreamBegins
  BY DEF StreamWhole
<1>2. handed \in Seq(Handed) /\ batch \in Seq(Nat)
  BY WholeTypes
<1>3. PICK d \in Seq(Nat) : handed' = handed \o Marked(d) /\ (batch = <<>> => d = <<>>)
  BY <1>2, FlushedTyped, Zenon
<1>4. /\ handed # <<>> => handed' # <<>> /\ handed'[1] = handed[1]
      /\ handed = <<>> => handed' = <<>>
  BY <1>1, <1>2, <1>3, HandedGrows DEF StreamBegins
<1>5. StreamEnds'
  BY <1>1 DEF StreamEnds
<1>6. StreamBegins'
  BY <1>1, <1>4 DEF StreamBegins
<1>7. QED
  BY <1>5, <1>6 DEF StreamWhole

\* A message is heard: what is handed over first is the size that began the
\* connection.
LEMMA WholeHears ==
    ASSUME StreamKnown, StreamWhole, down # <<>>, down' = Tail(down),
           UNCHANGED <<produced, serving, lead>>,
           handed # <<>> => handed' # <<>> /\ handed'[1] = handed[1],
           handed = <<>> /\ Head(down).type = "resize" => handed' # <<>> /\ handed'[1] = Head(down),
           handed = <<>> /\ Head(down).type = "close" => handed' = <<>> /\ batch' = batch,
           \/ Head(down).type \notin {"exit", "close"} /\ connection' = connection
           \/ Head(down).type = "exit" /\ connection' = "exited" /\ batch' = <<>>
           \/ /\ Head(down).type = "close" /\ batch' = batch
              /\ connection' = IF connection = "exited" THEN "exited" ELSE "disconnected"
    PROVE  StreamWhole'
<1>1. StreamEnds /\ StreamBegins
  BY DEF StreamWhole
<1>2. down \in Seq(Message) /\ connection \in {"connecting", "connected", "disconnected", "exited"}
      /\ (connection = "connecting" => down = <<>>)
  BY DEF StreamKnown, StreamTyped, StreamRoles
<1>3. /\ Closes(down')
      /\ Head(down).type = "close" => down' = <<>>
      /\ Head(down).type = "exit" => AllClose(down')
      /\ AllClose(down) => Head(down).type = "close"
  BY <1>1, <1>2, ClosesTail DEF StreamEnds
<1>4. connection = "connected" \/ (connection = "exited" /\ Head(down).type = "close")
  BY <1>1, <1>2, <1>3 DEF StreamEnds
<1>5. handed = <<>> => connection = "connected"
           /\ (Head(down).type = "close" \/ Begins(Head(down), produced)) /\ batch = <<>>
  BY <1>1, <1>4 DEF StreamBegins
<1>6. AllClose(<<>>)
  BY DEF AllClose
<1>7. StreamEnds'
  BY <1>1, <1>3, <1>4, <1>6 DEF StreamEnds
<1>8. StreamBegins'
  <2>1. CASE handed # <<>>
    BY <1>1, <2>1 DEF StreamBegins
  <2>2. CASE handed = <<>> /\ Head(down).type = "close"
    BY <1>5, <2>2 DEF StreamBegins
  <2>3. CASE handed = <<>> /\ Head(down).type # "close"
    <3>1. Head(down).type = "resize" /\ Begins(Head(down), produced)
      BY <1>5, <2>3 DEF Begins
    <3>2. QED
      BY <2>3, <3>1 DEF StreamBegins
  <2>4. QED
    BY <2>1, <2>2, <2>3
<1>9. QED
  BY <1>7, <1>8 DEF StreamWhole

\* The browser hears a piece of the history,
LEMMA WholeHistory == ASSUME StreamKnown, StreamWhole, HearHistory PROVE StreamWhole'
<1>1. /\ down # <<>> /\ down' = Tail(down) /\ Head(down).type = "history"
      /\ Writes(<<Head(down).data>>, TRUE)
      /\ UNCHANGED <<produced, serving, lead, connection, batch>>
  BY Zenon DEF HearHistory, Hear, Heard, process, server
<1> DEFINE d == Head(down).data
<1>2. handed' = handed \o Marked(FlattenSeq(<<d>>))
  BY <1>1, WritesHands
<1>3. handed \in Seq(Handed)
  BY WholeTypes
<1>4. FlattenSeq(<<d>>) \in Seq(Nat)
  BY <1>1, HeardPieces
<1> HIDE DEF d
<1>5. handed # <<>> => handed' # <<>> /\ handed'[1] = handed[1]
  BY <1>2, <1>3, <1>4, HandedGrows
<1>6. QED
  BY <1>1, <1>5, WholeHears

\* live output,
LEMMA WholeOutput == ASSUME StreamKnown, StreamWhole, HearOutput PROVE StreamWhole'
<1>1. /\ down # <<>> /\ down' = Tail(down) /\ Head(down).type = "output"
      /\ \/ Writes(Flushed \o <<Head(down).data>>, FALSE)
         \/ handed' = handed
      /\ UNCHANGED <<produced, serving, lead, connection>>
  BY Zenon DEF HearOutput, Hear, Heard, process, server
<1> DEFINE d == Head(down).data
<1>2. handed \in Seq(Handed)
  BY WholeTypes
<1>3. CASE handed' = handed
  BY <1>1, <1>3, WholeHears
<1>4. CASE Writes(Flushed \o <<Head(down).data>>, FALSE)
  <2>1. handed' = handed \o Marked(FlattenSeq(Flushed \o <<d>>))
    BY <1>4, WritesHands
  <2>2. FlattenSeq(Flushed \o <<d>>) \in Seq(Nat)
    BY <1>1, HeardPieces
  <2> HIDE DEF d
  <2>3. handed # <<>> => handed' # <<>> /\ handed'[1] = handed[1]
    BY <1>2, <2>1, <2>2, HandedGrows
  <2>4. QED
    BY <1>1, <2>3, WholeHears
<1>5. QED
  BY <1>1, <1>3, <1>4

\* a size,
LEMMA WholeSize == ASSUME StreamKnown, StreamWhole, HearSize PROVE StreamWhole'
<1>1. /\ down # <<>> /\ down' = Tail(down) /\ Head(down).type = "resize"
      /\ handed' = Append(handed \o Marked(batch), Head(down))
      /\ UNCHANGED <<produced, serving, lead, connection>>
  BY Zenon DEF HearSize, Hear, Heard, process, server
<1>2. handed \in Seq(Handed) /\ batch \in Seq(Nat) /\ (handed = <<>> => batch = <<>>)
  BY WholeTypes DEF StreamWhole, StreamBegins
<1> DEFINE w == handed \o Marked(batch)
           m == Head(down)
<1>3. m \in Handed
  BY <1>1, Hears DEF Message, Handed
<1>4. /\ w \in Seq(Handed)
      /\ handed # <<>> => w # <<>> /\ w[1] = handed[1]
      /\ handed = <<>> => w = <<>>
  BY <1>2, HandedGrows
<1>5. handed' = Append(w, m)
  BY <1>1
<1> HIDE DEF w, m
<1>6. Append(w, m) # <<>> /\ (w = <<>> => Append(w, m)[1] = m) /\ (w # <<>> => Append(w, m)[1] = w[1])
  BY <1>3, <1>4, AppendProperties
<1>7. /\ handed # <<>> => handed' # <<>> /\ handed'[1] = handed[1]
      /\ handed = <<>> => handed' # <<>> /\ handed'[1] = Head(down)
  BY <1>4, <1>5, <1>6 DEF m
<1>8. QED
  BY <1>1, <1>7, WholeHears

\* the end of the history or of the connection,
LEMMA WholeOthers ==
    ASSUME StreamKnown, StreamWhole, HearHistoryEnd \/ HearClose PROVE StreamWhole'
<1>1. /\ down # <<>> /\ down' = Tail(down)
      /\ \/ Head(down).type = "history_end" /\ connection' = connection
         \/ /\ Head(down).type = "close"
            /\ connection' = IF connection = "exited" THEN "exited" ELSE "disconnected"
      /\ UNCHANGED <<produced, serving, lead, batch, handed>>
  BY DEF HearHistoryEnd, HearClose, Hear, Heard, process, server, output
<1>2. QED
  BY <1>1, WholeHears

\* or the exit.
LEMMA WholeHearExit == ASSUME StreamKnown, StreamWhole, HearExit PROVE StreamWhole'
<1>1. /\ down # <<>> /\ down' = Tail(down) /\ Head(down).type = "exit"
      /\ batch' = <<>> /\ Writes(Flushed, FALSE) /\ connection' = "exited"
      /\ UNCHANGED <<produced, serving, lead>>
  BY Zenon DEF HearExit, Hear, Heard, Flush, process, server
<1>2. handed \in Seq(Handed) /\ batch \in Seq(Nat)
  BY WholeTypes
<1>3. PICK d \in Seq(Nat) : handed' = handed \o Marked(d)
  BY <1>1, <1>2, WritesHands, FlushedTyped, Zenon
<1>4. handed # <<>> => handed' # <<>> /\ handed'[1] = handed[1]
  BY <1>2, <1>3, HandedGrows
<1>5. QED
  BY <1>1, <1>4, WholeHears

\* xterm parses, a timer rings, or the user types.
LEMMA WholeParse ==
    ASSUME StreamKnown, StreamWhole, Parse \/ FlushTimer \/ UserTypes PROVE StreamWhole'
<1>1. /\ UNCHANGED <<produced, serving, lead, down, connection>>
      /\ \/ UNCHANGED <<batch, handed>>
         \/ batch' = <<>> /\ handed' = handed \o Marked(batch)
         \/ batch' = <<>> /\ Writes(Flushed, FALSE)
  BY Zenon DEF Parse, FlushTimer, UserTypes, Flush, process, server
<1>2. CASE UNCHANGED <<batch, handed>>
  BY <1>1, <1>2 DEF StreamWhole, StreamEnds, StreamBegins
<1>3. CASE batch' = <<>> /\ handed' = handed \o Marked(batch)
  BY <1>1, <1>3, WholeFlushes
<1>4. CASE batch' = <<>> /\ Writes(Flushed, FALSE)
  BY <1>1, <1>4, WritesHands, WholeFlushes
<1>5. QED
  BY <1>1, <1>2, <1>3, <1>4

\* Every step keeps how a connection begins and ends.
LEMMA WholeStep == StreamKnown /\ StreamWhole /\ [StreamNext]_streamVars => StreamWhole'
<1> SUFFICES ASSUME StreamKnown, StreamWhole, [StreamNext]_streamVars PROVE StreamWhole'
  OBVIOUS
<1>1. CASE ProcessWrites
  <2>1. /\ Enqueue(Output(<<produced + 1>>)) /\ produced' = produced + 1
        /\ UNCHANGED <<lead, connection, batch, handed>>
    BY <1>1 DEF ProcessWrites, output
  <2>2. produced \in Nat
    BY WholeTypes
  <2>3. produced' \in Nat /\ produced <= produced'
    BY <2>1, <2>2
  <2>4. QED
    BY <2>1, <2>3, WholeEnqueues
<1>2. CASE SizeChanges
  <2>1. Enqueue(Size(produced)) /\ UNCHANGED <<produced, lead, connection, batch, handed>>
    BY <1>2 DEF SizeChanges, output, process
  <2>2. produced \in Nat
    BY WholeTypes
  <2>3. produced' \in Nat /\ produced <= produced'
    BY <2>1, <2>2
  <2>4. QED
    BY <2>1, <2>3, WholeEnqueues
<1>3. CASE ProcessEnds \/ ServerHears \/ InteractiveTimer \/ UNCHANGED streamVars
  <2>1. UNCHANGED <<produced, serving, lead, down, connection, batch, handed>>
    BY <1>3 DEF ProcessEnds, ServerHears, InteractiveTimer, streamVars, process, server, output
  <2>2. QED
    BY <2>1 DEF StreamWhole, StreamEnds, StreamBegins
<1>4. QED
  BY <1>1, <1>2, <1>3, WholeAccept, WholeWrite, WholeBreak, WholeReconnect, WholeHistory,
     WholeOthers, WholeOutput, WholeSize, WholeHearExit, WholeParse DEF StreamNext, HearFrame

\* From a size earlier than all that is produced up to the last chunk, that chunk
\* itself was handed over.
LEMMA LastChunk ==
    ASSUME NEW s \in Seq(Handed), Ordered(s), s # <<>>, NEW k \in Nat, k > 0,
           Begins(s[1], k), s[Len(s)].at = k
    PROVE  \E i \in 1..Len(s) : s[i] = [type |-> "chunk", at |-> k]
<1> DEFINE n == Len(s)
           T == {i \in 1..n : s[i].at = k}
<1>1. n \in Nat /\ n >= 1 /\ \A i \in 1..n : s[i] \in Handed
  OBVIOUS
<1>2. T \in SUBSET Nat /\ n \in T
  BY <1>1
<1>3. PICK m \in T : \A j \in T : m <= j
  BY <1>2, NatMin
<1>4. s[1].at # k
  BY <1>1 DEF Begins, Handed
<1>5. m \in 2..n /\ s[m].at = k /\ m - 1 \in 1..n
  BY <1>1, <1>3, <1>4
<1>6. s[m - 1].at # k
  <2>1. m - 1 \notin T
    BY <1>1, <1>3, <1>5
  <2>2. QED
    BY <1>5, <2>1
<1>7. s[m].type # "resize"
  BY <1>5, <1>6 DEF Ordered
<1>8. s[m] \in Handed /\ m \in 1..n
  BY <1>1, <1>5
<1>9. s[m] = [type |-> "chunk", at |-> k]
  BY <1>5, <1>7, <1>8 DEF Handed
<1>10. QED
  BY <1>8, <1>9

\* A terminal that knows of the exit was handed all output.
LEMMA ExitIsComplete == StreamKnown /\ StreamWhole => ExitedMeansComplete
<1> SUFFICES ASSUME StreamKnown, StreamWhole, connection = "exited" PROVE ended /\ HasAll
  BY DEF ExitedMeansComplete
<1>1. batch = <<>> /\ AllClose(down) /\ Closes(down) /\ handed # <<>> /\ Begins(handed[1], produced)
  BY DEF StreamWhole, StreamEnds, StreamBegins
<1>2. produced \in Nat /\ down \in Seq(Message) /\ handed \in Seq(Handed)
  BY WholeTypes
<1>3. PICK n \in Nat : Ahead(handed, batch, down, n) /\ Rest(n)
  BY DEF StreamKnown, StreamPlaced
<1>4. n = produced /\ ended
  BY <1>3 DEF Rest, Over
<1>5. PICK h \in Nat, b \in Nat : Ends(handed, h) /\ Run(batch, h, b) /\ Links(down, b, n)
  BY <1>3 DEF Ahead
<1>6. b = h
  BY <1>1, <1>5 DEF Run
<1>7. n = b
  <2>1. CASE down = <<>>
    BY <1>5, <2>1, LinksNone
  <2>2. CASE down # <<>>
    <3>1. Head(down).type = "close" /\ Tail(down) = <<>>
      BY <1>1, <1>2, <2>2, ClosesTail
    <3>2. PICK c \in Nat : Moves(Head(down), b, c) /\ Links(Tail(down), c, n)
      BY <1>2, <1>5, <2>2, LinksFirst
    <3>3. c = b
      BY <3>1, <3>2 DEF Moves
    <3>4. QED
      BY <3>1, <3>2, <3>3, LinksNone
  <2>3. QED
    BY <2>1, <2>2
<1>8. Ordered(handed) /\ handed[Len(handed)].at = produced
  BY <1>1, <1>4, <1>5, <1>6, <1>7 DEF Ends
<1>9. HasAll
  <2>1. SUFFICES ASSUME produced > 0 PROVE [type |-> "chunk", at |-> produced] \in ToSet(handed)
    BY DEF HasAll
  <2>2. PICK i \in 1..Len(handed) : handed[i] = [type |-> "chunk", at |-> produced]
    BY <1>1, <1>2, <1>8, <2>1, LastChunk
  <2>3. QED
    BY <2>2 DEF ToSet
<1>10. QED
  BY <1>4, <1>9

-----------------------------------------------------------------------------
\* What is switched on and off in a pane.
PaneFlags ==
    /\ dragging \in BOOLEAN /\ suppress \in BOOLEAN /\ focused \in BOOLEAN
    /\ refit \in BOOLEAN /\ syncFailed \in BOOLEAN /\ submitting \in BOOLEAN
    /\ due \in BOOLEAN /\ stale \in BOOLEAN

LEMMA FlagsStart == PaneInit => PaneFlags
  BY DEF PaneInit, PaneFlags

\* What is shown switches only what the effects of the tabs switch.
LEMMA ShowsFlags ==
    ASSUME PaneFlags, NEW one, NEW two, NEW suppressed \in BOOLEAN,
           NEW fits \in BOOLEAN, Shows(one, two, suppressed, fits)
    PROVE  dragging' \in BOOLEAN /\ suppress' \in BOOLEAN /\ refit' \in BOOLEAN
<1>1. /\ dragging' = (dragging /\ two # None)
      /\ refit' = (fits \/ (secondary # None /\ two = None))
      /\ suppress' = (suppressed /\ (one = source \/ (focused /\ one = "terminal")))
  BY Zenon DEF Shows
<1>2. QED
  BY <1>1, Zenon

LEMMA FlagsStep ==
    ASSUME PaneFlags, PaneBounds, [PaneNext]_paneVars
    PROVE  PaneFlags'
<1> USE DEF PaneFlags, tabs, review, store
<1>1. CASE \E s \in Sources : ClickTab(s)
  <2>1. PICK s \in Sources : ClickTab(s)
    BY <1>1
  <2>2. UNCHANGED <<focused, syncFailed, submitting, due, stale>>
    BY <2>1, Zenon DEF ClickTab
  <2>3. CASE s = source
    <3>1. Shows(source, None, suppress /\ s # "terminal", FALSE)
      BY <2>1, <2>3, Zenon DEF ClickTab
    <3>2. (suppress /\ s # "terminal") \in BOOLEAN /\ FALSE \in BOOLEAN
      BY Zenon
    <3>3. QED
      BY <2>2, <3>1, <3>2, ShowsFlags, Zenon
  <2>4. CASE s # source
    <3>1. Shows(s, None, FALSE, source # "terminal" /\ s = "terminal")
      BY <2>1, <2>4, Zenon DEF ClickTab, ChangeSource
    <3>2. (source # "terminal" /\ s = "terminal") \in BOOLEAN /\ FALSE \in BOOLEAN
      BY Zenon
    <3>3. QED
      BY <2>2, <3>1, <3>2, ShowsFlags, Zenon
  <2>5. QED
    BY <2>3, <2>4
<1>2. CASE \E s \in Sources : ToggleSecond(s)
  <2>1. PICK s \in Sources : ToggleSecond(s)
    BY <1>2
  <2>2. UNCHANGED <<focused, syncFailed, submitting, due, stale>>
    BY <2>1, Zenon DEF ToggleSecond
  <2>3. PICK closes \in BOOLEAN :
            Shows(source, IF s \in {source, secondary} THEN None ELSE s,
                  suppress \/ closes, FALSE)
    BY <2>1, Zenon DEF ToggleSecond
  <2>4. (suppress \/ closes) \in BOOLEAN /\ FALSE \in BOOLEAN
    BY Zenon
  <2>5. QED
    BY <2>2, <2>3, <2>4, ShowsFlags, Zenon
<1>3. CASE NextTab
  <2>1. UNCHANGED <<focused, syncFailed, submitting, due, stale>>
    BY <1>3, Zenon DEF NextTab
  <2>2. PICK s : ChangeSource(s)
    BY <1>3, Zenon DEF NextTab
  <2>3. Shows(s, None, FALSE, source # "terminal" /\ s = "terminal")
    BY <2>2, Zenon DEF ChangeSource
  <2>4. (source # "terminal" /\ s = "terminal") \in BOOLEAN /\ FALSE \in BOOLEAN
    BY Zenon
  <2>5. QED
    BY <2>1, <2>3, <2>4, ShowsFlags, Zenon
<1>4. CASE Drag
  <2>1. dragging' = ~dragging /\ refit' = FALSE
        /\ UNCHANGED <<suppress, focused, syncFailed, submitting, due, stale>>
    BY <1>4, Zenon DEF Drag
  <2>2. QED
    BY <2>1, Zenon
<1>5. CASE FocusPane
  <2>1. /\ focused' = ~focused /\ refit' = FALSE
        /\ suppress' = (suppress /\ focused' /\ source = "terminal")
        /\ UNCHANGED <<dragging, syncFailed, submitting, due, stale>>
    BY <1>5, Zenon DEF FocusPane
  <2>2. QED
    BY <2>1, Zenon
<1>6. CASE HearEvent \/ Retry
  <2>1. /\ refit' = FALSE /\ due' \in {due, FALSE}
        /\ UNCHANGED <<tabs, syncFailed, submitting, stale>>
    BY <1>6, Zenon DEF HearEvent, Retry, Fetches
  <2>2. QED
    BY <2>1, Zenon
<1>7. CASE Fetched
  <2>1. /\ syncFailed' = FALSE /\ stale' = FALSE /\ submitting' \in {FALSE, submitting}
        /\ UNCHANGED <<focused, due>>
    BY <1>7, Zenon DEF Fetched, Displays
  <2>2. \E one, two : \E fits \in BOOLEAN : Shows(one, two, suppress, fits)
    BY <1>7, Zenon DEF Fetched
  <2>3. QED
    BY <2>1, <2>2, ShowsFlags, Zenon
<1>8. CASE FetchFails
  <2>1. /\ syncFailed' = (syncFailed \/ annotationID # None)
        /\ stale' = TRUE /\ refit' = FALSE
        /\ UNCHANGED <<tabs, submitting, due>>
    BY <1>8, Zenon DEF FetchFails
  <2>2. QED
    BY <2>1, Zenon
<1>9. CASE ServerReads \/ Comment \/ Send
  <2>1. /\ refit' = FALSE /\ submitting' \in {TRUE, submitting}
        /\ UNCHANGED <<tabs, syncFailed, due, stale>>
    BY <1>9, Zenon DEF ServerReads, Comment, Send
  <2>2. QED
    BY <2>1, Zenon
<1>10. CASE \E s \in sends : ServerCompletes(s) \/ SendBreaks(s)
  <2>1. /\ refit' = FALSE /\ due' \in {TRUE, due}
        /\ UNCHANGED <<tabs, syncFailed, submitting, stale>>
    BY <1>10, Zenon DEF ServerCompletes, SendBreaks
  <2>2. QED
    BY <2>1, Zenon
<1>11. CASE \E s \in sends : Answered(s)
  <2>1. PICK s \in sends : Answered(s)
    BY <1>11
  <2>2. /\ submitting' = FALSE /\ UNCHANGED <<focused, syncFailed, due>>
        /\ stale' = (stale \/ annotation \notin {s.id, None})
        /\ Shows(Fallback(source), Repaired(secondary), suppress, TRUE)
    BY <2>1, Zenon DEF Answered
  <2>3. suppress \in BOOLEAN /\ TRUE \in BOOLEAN
    BY Zenon
  <2>4. dragging' \in BOOLEAN /\ suppress' \in BOOLEAN /\ refit' \in BOOLEAN
    BY <2>2, <2>3, ShowsFlags, Zenon
  <2>5. stale' \in BOOLEAN
    BY <2>2, Zenon
  <2>6. QED
    BY <2>2, <2>4, <2>5, Zenon
<1>12. CASE \E s \in sends : Refused(s)
  <2>1. PICK s \in sends : Refused(s)
    BY <1>12
  <2>2. /\ submitting' = (submitting /\ ~s.here) /\ refit' = FALSE
        /\ UNCHANGED <<tabs, syncFailed, due, stale>>
    BY <2>1, Zenon DEF Refused
  <2>3. submitting' \in BOOLEAN
    BY <2>2, Zenon
  <2>4. QED
    BY <2>2, <2>3, Zenon
<1>13. CASE AgentAsks \/ AgentCancels
  <2>1. refit' = FALSE /\ due' = TRUE
        /\ UNCHANGED <<tabs, syncFailed, submitting, stale>>
    BY <1>13, Zenon DEF AgentAsks, AgentCancels
  <2>2. QED
    BY <2>1, Zenon
<1>14. CASE UNCHANGED paneVars
  BY <1>14, Zenon DEF paneVars
<1>15. QED
  BY <1>1, <1>2, <1>3, <1>4, <1>5, <1>6, <1>7, <1>8, <1>9, <1>10, <1>11, <1>12,
     <1>13, <1>14 DEF PaneNext

LEMMA PaneTyped == PaneKnows /\ PaneFlags => PaneTypeOK
<1> SUFFICES ASSUME PaneKnows, PaneFlags PROVE PaneTypeOK
  OBVIOUS
<1>1. Asked \subseteq Reviews /\ PaneBounds /\ PaneShown
  BY NoReviewIsNone DEF PaneKnows
<1>2. open \in Reviews \cup {None}
  BY <1>1 DEF PaneBounds, Reviews
<1>3. {annotation, annotationID, open} \subseteq Reviews \cup {None} /\ notes \subseteq Reviews
  BY <1>1, <1>2 DEF PaneBounds
<1>4. \A s \in sends : s.id \in Reviews
  BY <1>1 DEF PaneBounds, Sends
<1>5. {dragging, suppress, focused, refit, syncFailed, submitting, due, stale}
          \subseteq BOOLEAN
  BY Zenon DEF PaneFlags
<1>6. QED
  BY <1>1, <1>3, <1>4, <1>5 DEF PaneTypeOK, PaneShown, PaneBounds

-----------------------------------------------------------------------------
\* What is switched on and off in the tab of the log, which polls only while it
\* is visible.
LogFlags ==
    /\ active \in BOOLEAN /\ loading \in BOOLEAN /\ mixed \in BOOLEAN
    /\ poll # None => active

LEMMA LogFlagsStart == LogInit => LogFlags
  BY DEF LogInit, LogFlags

LEMMA LogFlagsStep ==
    ASSUME LogKnows, LogFlags, [LogNext]_logVars
    PROVE  LogFlags'
<1> USE DEF LogFlags, file, view
<1>1. CASE Ask \/ ServerAnswers
  <2>1. active' = active /\ loading' = loading /\ mixed' = mixed /\ active
    BY <1>1, Zenon DEF Ask, ServerAnswers
  <2>2. QED
    BY <2>1
<1>2. CASE Refreshed
  <2>1. active' = active /\ loading' = FALSE /\ poll' = None
    BY <1>2 DEF Refreshed
  <2>2. mixed' = mixed \/ \E r \in BOOLEAN : mixed' = (mixed /\ ~r)
    <3>1. CASE poll.page = None
      BY <1>2, <3>1, Zenon DEF Refreshed
    <3>2. CASE poll.page # None
      <4>1. mixed' = (mixed /\ ~Replaces(poll.page, poll.after))
        BY <1>2, <3>2, Zenon DEF Refreshed
      <4>2. QED
        BY <4>1
    <3>3. QED
      BY <3>1, <3>2
  <2>3. QED
    BY <2>1, <2>2
<1>3. CASE PollFails
  BY <1>3 DEF PollFails
<1>4. CASE LoadMore \/ ServerReadsOlder \/ OlderFails
  <2>1. UNCHANGED <<active, loading, mixed, poll>>
    BY <1>4, Zenon DEF LoadMore, ServerReadsOlder, OlderFails
  <2>2. QED
    BY <2>1
<1>5. CASE Prepended
  <2>1. UNCHANGED <<active, loading, poll>>
    BY <1>5, Zenon DEF Prepended
  <2>2. mixed' = mixed \/ mixed' = (mixed \/ more.strayed)
    BY <1>5, Zenon DEF Prepended
  <2>3. more \in MoreRecord
    BY <1>5 DEF Prepended, LogKnows, MoreKnown
  <2>4. more.strayed \in BOOLEAN
    BY <2>3 DEF MoreRecord
  <2>5. QED
    BY <2>1, <2>2, <2>4
<1>6. CASE Hide
  BY <1>6 DEF Hide
<1>7. CASE Show
  BY <1>7 DEF Show
<1>8. CASE \E t \in Transcripts : AgentWrites(t) \/ Link(t) \/ Remount(t)
  <2>1. PICK t \in Transcripts : AgentWrites(t) \/ Link(t) \/ Remount(t)
    BY <1>8
  <2>2. CASE AgentWrites(t) \/ Link(t)
    <3>1. UNCHANGED <<active, loading, mixed, poll>>
      BY <2>2, Zenon DEF AgentWrites, Link
    <3>2. QED
      BY <3>1
  <2>3. CASE Remount(t)
    BY <2>3 DEF Remount
  <2>4. QED
    BY <2>1, <2>2, <2>3
<1>9. CASE UNCHANGED logVars
  BY <1>9 DEF logVars
<1>10. QED
  BY <1>1, <1>2, <1>3, <1>4, <1>5, <1>6, <1>7, <1>8, <1>9 DEF LogNext, LogProgress

LEMMA LogTyped == LogKnows /\ LogFlags => LogTypeOK
<1> SUFFICES ASSUME LogKnows, LogFlags PROVE LogTypeOK
  OBVIOUS
<1>1. linked \in Transcripts /\ \A t \in Transcripts : length[t] \in 0..Len(Records[t])
  <2>1. \A t \in Transcripts : Len(Records[t]) \in Nat
    BY LogAssumption DEF LogAssumption
  <2>2. QED
    BY <2>1 DEF LogKnows, FileKnown
<1>2. (log = None \/ InFile(log)) /\ endCursor \in Nat \cup {None}
  BY DEF LogKnows, LogKnown
<1>3. (log = None) = (endCursor = None)
  <2>1. log # None => endCursor \in Nat
    BY DEF LogKnows, LogKnown, InFile, PageRecord
  <2>2. QED
    BY <2>1, LogAssumption DEF LogKnows, LogKnown, LogAssumption
<1>4. more # None => more.id \in Transcripts
  BY DEF LogKnows, MoreKnown, MoreRecord
<1>5. QED
  BY <1>1, <1>2, <1>3, <1>4 DEF LogTypeOK, LogFlags

-----------------------------------------------------------------------------
(* Calls of tools, and the results they get. *)

\* The recursive function of Pairs.
IsPairing(f, calls) ==
    f = [i \in 0..Len(calls) |-> IF i = 0 THEN <<>> ELSE Paired(f[i - 1], calls[i])]

\* It exists for one more entry when it exists for the entries before.
LEMMA PairingGrows ==
    ASSUME NEW S, NEW calls \in Seq(S), NEW e \in S, NEW f, IsPairing(f, calls)
    PROVE  \E h : /\ IsPairing(h, Append(calls, e))
                  /\ h[Len(calls) + 1] = Paired(f[Len(calls)], e)
<1> DEFINE n == Len(calls)
           new == Append(calls, e)
           h == [i \in 0..(n + 1) |-> IF i = n + 1 THEN Paired(f[n], e) ELSE f[i]]
<1>1. n \in Nat /\ Len(new) = n + 1 /\ new[n + 1] = e
      /\ \A i \in 1..n : new[i] = calls[i]
  OBVIOUS
<1>2. \A i \in 0..n : f[i] = IF i = 0 THEN <<>> ELSE Paired(f[i - 1], calls[i])
  BY DEF IsPairing
<1>3. \A i \in 0..n : h[i] = f[i]
  BY <1>1
<1>4. h[n + 1] = Paired(f[n], e) /\ n + 1 \in 0..(n + 1)
  BY <1>1
<1>5. ASSUME NEW i \in 0..(n + 1)
      PROVE  h[i] = IF i = 0 THEN <<>> ELSE Paired(h[i - 1], new[i])
  <2>1. CASE i = 0
    BY <1>1, <1>2, <1>3, <2>1
  <2>2. CASE i \in 1..n
    <3>1. i - 1 \in 0..n /\ i \in 0..n /\ i # 0
      BY <2>2, <1>1
    <3>2. h[i] = Paired(f[i - 1], calls[i])
      BY <3>1, <1>2, <1>3
    <3>3. QED
      BY <3>1, <3>2, <1>1, <1>3, <2>2
  <2>3. CASE i = n + 1
    <3>1. h[n] = f[n] /\ i - 1 = n /\ i # 0
      BY <1>1, <1>3, <2>3
    <3>2. QED
      BY <3>1, <1>1, <1>4, <2>3
  <2>4. i = 0 \/ i \in 1..n \/ i = n + 1
    BY <1>1
  <2>5. QED
    BY <2>1, <2>2, <2>3, <2>4
<1> HIDE DEF new
<1>6. h = [i \in 0..Len(new) |-> IF i = 0 THEN <<>> ELSE Paired(h[i - 1], new[i])]
  <2>1. 0..Len(new) = 0..(n + 1)
    BY <1>1
  <2>2. h = [i \in 0..(n + 1) |-> h[i]]
    OBVIOUS
  <2> HIDE DEF h
  <2>3. [i \in 0..(n + 1) |-> h[i]]
            = [i \in 0..(n + 1) |-> IF i = 0 THEN <<>> ELSE Paired(h[i - 1], new[i])]
    BY <1>5, Zenon
  <2>4. QED
    BY <2>1, <2>2, <2>3
<1>7. IsPairing(h, new)
  BY <1>6 DEF IsPairing
<1>8. QED
  BY <1>4, <1>7 DEF new

\* There is only one.
LEMMA PairingAgrees ==
    ASSUME NEW S, NEW calls \in Seq(S), NEW f, NEW h,
           IsPairing(f, calls), IsPairing(h, calls)
    PROVE  f = h
<1> DEFINE n == Len(calls)
           Same == {i \in Nat : i <= n => f[i] = h[i]}
<1>1. n \in Nat
  OBVIOUS
<1>2. \A i \in 0..n : /\ f[i] = IF i = 0 THEN <<>> ELSE Paired(f[i - 1], calls[i])
                      /\ h[i] = IF i = 0 THEN <<>> ELSE Paired(h[i - 1], calls[i])
  BY DEF IsPairing
<1>3. 0 \in Same
  BY <1>1, <1>2
<1>4. ASSUME NEW i \in Same PROVE i + 1 \in Same
  <2>1. CASE i + 1 <= n
    <3>1. i + 1 \in 0..n /\ i + 1 # 0 /\ (i + 1) - 1 = i /\ i <= n
      BY <1>1, <2>1
    <3>2. f[i] = h[i]
      BY <3>1
    <3>3. f[i + 1] = Paired(f[i], calls[i + 1]) /\ h[i + 1] = Paired(h[i], calls[i + 1])
      BY <3>1, <1>2
    <3>4. QED
      BY <3>2, <3>3
  <2>2. QED
    BY <2>1
<1>5. Same = Nat
  <2> HIDE DEF Same
  <2>1. Same \in SUBSET Nat
    BY DEF Same
  <2>2. QED
    BY <1>3, <1>4, <2>1, NatInduction1
<1>6. \A i \in 0..n : f[i] = h[i]
  BY <1>1, <1>5
<1>7. f = [i \in 0..n |-> f[i]] /\ h = [i \in 0..n |-> h[i]]
  BY DEF IsPairing
<1>8. QED
  BY <1>6, <1>7

\* There is one for every group.
LEMMA PairingExists ==
    ASSUME NEW S, NEW calls \in Seq(S)
    PROVE  \E f : IsPairing(f, calls)
<1> DEFINE T == {s \in Seq(S) : \E f : IsPairing(f, s)}
<1>1. <<>> \in T
  <2>1. IsPairing([i \in 0..0 |-> <<>>], <<>>)
    BY DEF IsPairing
  <2>2. QED
    BY <2>1
<1>2. \A s \in T, e \in S : Append(s, e) \in T
  BY PairingGrows
<1>3. T = Seq(S)
  <2> HIDE DEF T
  <2>1. T \in SUBSET Seq(S)
    BY DEF T
  <2>2. QED
    BY <1>1, <1>2, <2>1, AppendInduction
<1>4. QED
  BY <1>3

\* So Pairs is its last value.
LEMMA PairsIs ==
    ASSUME NEW S, NEW calls \in Seq(S), NEW f, IsPairing(f, calls)
    PROVE  Pairs(calls) = f[Len(calls)]
<1> DEFINE m == CHOOSE h : h = [i \in 0..Len(calls) |->
                     IF i = 0 THEN <<>> ELSE Paired(h[i - 1], calls[i])]
<1>1. IsPairing(m, calls)
  BY DEF IsPairing
<1>2. Pairs(calls) = m[Len(calls)]
  BY DEF Pairs
<1> HIDE DEF m
<1>3. m = f
  BY <1>1, PairingAgrees
<1>4. QED
  BY <1>2, <1>3

\* An empty group has no executions.
LEMMA PairsNone == Pairs(<<>>) = <<>>
<1> DEFINE f == [i \in 0..0 |-> <<>>]
<1>1. IsPairing(f, <<>>) /\ f[0] = <<>> /\ Len(<<>>) = 0
  BY DEF IsPairing
<1> HIDE DEF f
<1>2. <<>> \in Seq({})
  OBVIOUS
<1>3. QED
  BY <1>1, <1>2, PairsIs

\* One more entry of a group is paired with the executions before it.
LEMMA PairsMore ==
    ASSUME NEW S, NEW calls \in Seq(S), NEW e \in S
    PROVE  Pairs(Append(calls, e)) = Paired(Pairs(calls), e)
<1>1. PICK f : IsPairing(f, calls)
  BY PairingExists
<1>2. PICK h : /\ IsPairing(h, Append(calls, e))
               /\ h[Len(calls) + 1] = Paired(f[Len(calls)], e)
  BY <1>1, PairingGrows
<1>3. Append(calls, e) \in Seq(S) /\ Len(Append(calls, e)) = Len(calls) + 1
  OBVIOUS
<1>4. Pairs(Append(calls, e)) = h[Len(calls) + 1]
  BY <1>2, <1>3, PairsIs
<1>5. Pairs(calls) = f[Len(calls)]
  BY <1>1, PairsIs
<1>6. QED
  BY <1>2, <1>4, <1>5

-----------------------------------------------------------------------------
\* An execution shows a call, a result or both.
Execution == [call : Entry \cup {None}, result : Entry \cup {None}]

\* No call has the ID of a call or a result before it.
NamedCalls(q) ==
    \A i, j \in DOMAIN q :
        i < j /\ IsTool(q[i]) /\ q[j].kind = "tool" /\ q[j].call # 0 =>
            q[i].call # q[j].call

\* The execution shows a call that has an ID.
HasCall(x) == x.call # None /\ x.call.call # 0

\* The executions show calls of the group, each ID once, and a call without a
\* result is one whose result is not in the group.
Met(ex, q) ==
    /\ ex \in Seq(Execution)
    /\ \A k \in DOMAIN ex : ex[k].call # None =>
           \E j \in DOMAIN q : q[j] = ex[k].call /\ q[j].kind = "tool"
    /\ \A k, m \in DOMAIN ex :
           HasCall(ex[k]) /\ HasCall(ex[m]) /\ ex[k].call.call = ex[m].call.call =>
               k = m
    /\ \A k \in DOMAIN ex : HasCall(ex[k]) /\ ex[k].result = None =>
           \A j \in DOMAIN q : q[j].kind = "tool_result" =>
               q[j].call # ex[k].call.call

\* An entry is not None, and has a number.
LEMMA EntryIsThere == \A e \in Entry : e # None /\ e.call \in Nat
  BY LogAssumption DEF LogAssumption, Entry

\* A call starts an execution of its own.
LEMMA CallIsMet ==
    ASSUME NEW q \in Seq(Entry), NEW ex, Met(ex, q), NEW e \in Entry,
           e.kind = "tool", NamedCalls(Append(q, e))
    PROVE  Met(Append(ex, [call |-> e, result |-> None]), Append(q, e))
<1> DEFINE x == [call |-> e, result |-> None]
           p == Append(ex, x)
           r == Append(q, e)
           n == Len(ex)
           l == Len(q)
<1>1. x \in Execution /\ x.call = e /\ x.result = None /\ e # None
  BY EntryIsThere DEF Execution
<1>2. /\ p \in Seq(Execution) /\ n \in Nat /\ DOMAIN p = 1..(n + 1) /\ p[n + 1] = x
      /\ DOMAIN ex = 1..n /\ \A k \in 1..n : p[k] = ex[k]
  BY <1>1 DEF Met
<1>3. /\ l \in Nat /\ DOMAIN r = 1..(l + 1) /\ r[l + 1] = e
      /\ DOMAIN q = 1..l /\ \A j \in 1..l : r[j] = q[j]
  OBVIOUS
<1> HIDE DEF x, p, r, n, l
<1>4. ASSUME NEW k \in DOMAIN p, p[k].call # None
      PROVE  \E j \in DOMAIN r : r[j] = p[k].call /\ r[j].kind = "tool"
  <2>1. CASE k = n + 1
    BY <1>1, <1>2, <1>3, <2>1
  <2>2. CASE k # n + 1
    <3>1. k \in DOMAIN ex /\ p[k] = ex[k]
      BY <1>2, <2>2
    <3>2. PICK j \in DOMAIN q : q[j] = ex[k].call /\ q[j].kind = "tool"
      BY <1>4, <3>1 DEF Met
    <3>3. j \in DOMAIN r /\ r[j] = q[j]
      BY <1>3, <3>2
    <3>4. QED
      BY <3>1, <3>2, <3>3
  <2>3. QED
    BY <2>1, <2>2
\* The call of an execution of before has another ID.
<1>5. ASSUME NEW k \in 1..n, HasCall(ex[k]) PROVE ex[k].call.call # e.call
  <2>1. PICK j \in DOMAIN q : q[j] = ex[k].call /\ q[j].kind = "tool"
    BY <1>2, <1>5 DEF Met, HasCall
  <2>2. /\ j \in DOMAIN r /\ l + 1 \in DOMAIN r /\ j < l + 1
        /\ r[j] = q[j] /\ r[l + 1] = e
    BY <1>3, <2>1
  <2>3. IsTool(r[j])
    BY <2>1, <2>2 DEF IsTool
  <2>4. CASE e.call # 0
    <3>1. r[j].call # e.call
      BY <2>2, <2>3, <2>4 DEF NamedCalls, r
    <3>2. QED
      BY <2>1, <2>2, <3>1
  <2>5. CASE e.call = 0
    BY <1>5, <2>5 DEF HasCall
  <2>6. QED
    BY <2>4, <2>5
<1>6. ASSUME NEW k \in DOMAIN p, NEW m \in DOMAIN p,
             HasCall(p[k]), HasCall(p[m]), p[k].call.call = p[m].call.call
      PROVE  k = m
  <2>1. CASE k = n + 1 /\ m # n + 1
    <3>1. m \in 1..n /\ p[m] = ex[m] /\ p[k].call = e
      BY <1>1, <1>2, <2>1
    <3>2. QED
      BY <1>5, <1>6, <3>1
  <2>2. CASE k # n + 1 /\ m = n + 1
    <3>1. k \in 1..n /\ p[k] = ex[k] /\ p[m].call = e
      BY <1>1, <1>2, <2>2
    <3>2. QED
      BY <1>5, <1>6, <3>1
  <2>3. CASE k # n + 1 /\ m # n + 1
    <3>1. k \in DOMAIN ex /\ m \in DOMAIN ex /\ p[k] = ex[k] /\ p[m] = ex[m]
      BY <1>2, <2>3
    <3>2. QED
      BY <1>6, <3>1 DEF Met
  <2>4. QED
    BY <2>1, <2>2, <2>3
<1>7. ASSUME NEW k \in DOMAIN p, HasCall(p[k]), p[k].result = None,
             NEW j \in DOMAIN r, r[j].kind = "tool_result"
      PROVE  r[j].call # p[k].call.call
  <2>1. j # l + 1
    BY <1>3, <1>7
  <2>2. j \in DOMAIN q /\ r[j] = q[j] /\ l + 1 \in DOMAIN r /\ j < l + 1
    BY <1>3, <2>1
  <2>3. CASE k = n + 1
    <3>1. p[k].call = e /\ e.call # 0
      BY <1>1, <1>2, <1>7, <2>3 DEF HasCall
    <3>2. IsTool(r[j])
      BY <1>7 DEF IsTool
    <3>3. r[l + 1].kind = "tool" /\ r[l + 1].call # 0 /\ NamedCalls(r)
      BY <1>3, <3>1 DEF r
    <3>4. r[j].call # r[l + 1].call
      BY <2>2, <3>2, <3>3 DEF NamedCalls
    <3>5. QED
      BY <1>3, <3>1, <3>4
  <2>4. CASE k # n + 1
    <3>1. k \in DOMAIN ex /\ p[k] = ex[k]
      BY <1>2, <2>4
    <3>2. QED
      BY <1>7, <2>2, <3>1 DEF Met
  <2>5. QED
    BY <2>3, <2>4
<1>8. Met(p, r)
  BY <1>2, <1>4, <1>6, <1>7 DEF Met
<1>9. QED
  BY <1>8 DEF p, r, x

\* A result that no open call waits for is shown alone.
LEMMA ResultIsMet ==
    ASSUME NEW q \in Seq(Entry), NEW ex, Met(ex, q), NEW e \in Entry,
           e.kind # "tool",
           \A k \in DOMAIN ex :
               HasCall(ex[k]) /\ ex[k].result = None => e.call # ex[k].call.call
    PROVE  Met(Append(ex, [call |-> None, result |-> e]), Append(q, e))
<1> DEFINE x == [call |-> None, result |-> e]
           p == Append(ex, x)
           r == Append(q, e)
           n == Len(ex)
           l == Len(q)
<1>1. x \in Execution /\ x.call = None
  BY DEF Execution
<1>2. /\ p \in Seq(Execution) /\ n \in Nat /\ DOMAIN p = 1..(n + 1) /\ p[n + 1] = x
      /\ DOMAIN ex = 1..n /\ \A k \in 1..n : p[k] = ex[k]
  BY <1>1 DEF Met
<1>3. /\ l \in Nat /\ DOMAIN r = 1..(l + 1) /\ r[l + 1] = e
      /\ DOMAIN q = 1..l /\ \A j \in 1..l : r[j] = q[j]
  OBVIOUS
<1> HIDE DEF x, p, r, n, l
<1>4. \A k \in DOMAIN p : p[k].call # None => k \in DOMAIN ex /\ p[k] = ex[k]
  BY <1>1, <1>2
<1>5. ASSUME NEW k \in DOMAIN p, p[k].call # None
      PROVE  \E j \in DOMAIN r : r[j] = p[k].call /\ r[j].kind = "tool"
  <2>1. PICK j \in DOMAIN q : q[j] = ex[k].call /\ q[j].kind = "tool"
    BY <1>4, <1>5 DEF Met
  <2>2. j \in DOMAIN r /\ r[j] = q[j]
    BY <1>3, <2>1
  <2>3. QED
    BY <1>4, <1>5, <2>1, <2>2
<1>6. ASSUME NEW k \in DOMAIN p, NEW m \in DOMAIN p,
             HasCall(p[k]), HasCall(p[m]), p[k].call.call = p[m].call.call
      PROVE  k = m
  <2>1. k \in DOMAIN ex /\ m \in DOMAIN ex /\ p[k] = ex[k] /\ p[m] = ex[m]
    BY <1>4, <1>6 DEF HasCall
  <2>2. QED
    BY <1>6, <2>1 DEF Met
<1>7. ASSUME NEW k \in DOMAIN p, HasCall(p[k]), p[k].result = None,
             NEW j \in DOMAIN r, r[j].kind = "tool_result"
      PROVE  r[j].call # p[k].call.call
  <2>1. k \in DOMAIN ex /\ p[k] = ex[k]
    BY <1>4, <1>7 DEF HasCall
  <2>2. CASE j = l + 1
    BY <1>3, <1>7, <2>1, <2>2
  <2>3. CASE j # l + 1
    <3>1. j \in DOMAIN q /\ r[j] = q[j]
      BY <1>3, <2>3
    <3>2. QED
      BY <1>7, <2>1, <3>1 DEF Met
  <2>4. QED
    BY <2>2, <2>3
<1>8. Met(p, r)
  BY <1>2, <1>5, <1>6, <1>7 DEF Met
<1>9. QED
  BY <1>8 DEF p, r, x

\* A result may be given to one execution, unless another waits for it.
LEMMA GivenIsMet ==
    ASSUME NEW q \in Seq(Entry), NEW ex, Met(ex, q), NEW e \in Entry,
           NEW i \in DOMAIN ex,
           \A k \in DOMAIN ex : k # i /\ HasCall(ex[k]) /\ ex[k].result = None =>
               e.call # ex[k].call.call
    PROVE  Met([ex EXCEPT ![i].result = e], Append(q, e))
<1> DEFINE p == [ex EXCEPT ![i].result = e]
           r == Append(q, e)
           l == Len(q)
<1>1. ex \in Seq(Execution) /\ ex \in [DOMAIN ex -> Execution]
  BY DEF Met
<1>2. e # None
  BY EntryIsThere
<1>3. DOMAIN p = DOMAIN ex
  OBVIOUS
<1>4. \A k \in DOMAIN ex : p[k].call = ex[k].call /\ p[k].result = IF k = i THEN e
                                                              ELSE ex[k].result
  BY <1>1 DEF Execution
<1>5. p \in Seq(Execution)
  <2>1. \A k \in DOMAIN ex : p[k] \in Execution
    BY <1>1 DEF Execution
  <2>2. Len(ex) \in Nat /\ DOMAIN ex = 1..Len(ex)
    BY <1>1
  <2>3. p = [k \in 1..Len(ex) |-> p[k]]
    BY <2>2
  <2> HIDE DEF p
  <2>4. p \in [1..Len(ex) -> Execution]
    BY <2>1, <2>2, <2>3
  <2>5. QED
    BY <2>2, <2>4
<1>6. /\ l \in Nat /\ DOMAIN r = 1..(l + 1) /\ r[l + 1] = e
      /\ DOMAIN q = 1..l /\ \A j \in 1..l : r[j] = q[j]
  OBVIOUS
<1> HIDE DEF p, r, l
<1>7. \A k \in DOMAIN ex : HasCall(p[k]) = HasCall(ex[k])
  BY <1>4 DEF HasCall
<1>8. ASSUME NEW k \in DOMAIN p, p[k].call # None
      PROVE  \E j \in DOMAIN r : r[j] = p[k].call /\ r[j].kind = "tool"
  <2>1. PICK j \in DOMAIN q : q[j] = ex[k].call /\ q[j].kind = "tool"
    BY <1>3, <1>4, <1>8 DEF Met
  <2>2. j \in DOMAIN r /\ r[j] = q[j]
    BY <1>6, <2>1
  <2>3. QED
    BY <1>3, <1>4, <2>1, <2>2
<1>9. ASSUME NEW k \in DOMAIN p, NEW m \in DOMAIN p,
             HasCall(p[k]), HasCall(p[m]), p[k].call.call = p[m].call.call
      PROVE  k = m
  <2>1. /\ HasCall(ex[k]) /\ HasCall(ex[m])
        /\ ex[k].call.call = ex[m].call.call
    BY <1>3, <1>4, <1>7, <1>9
  <2>2. QED
    BY <1>3, <2>1 DEF Met
<1>10. ASSUME NEW k \in DOMAIN p, HasCall(p[k]), p[k].result = None,
              NEW j \in DOMAIN r, r[j].kind = "tool_result"
       PROVE  r[j].call # p[k].call.call
  <2>1. k # i /\ HasCall(ex[k]) /\ ex[k].result = None /\ k \in DOMAIN ex
        /\ p[k].call = ex[k].call
    BY <1>2, <1>3, <1>4, <1>7, <1>10
  <2>2. CASE j = l + 1
    BY <1>6, <2>1, <2>2
  <2>3. CASE j # l + 1
    <3>1. j \in DOMAIN q /\ r[j] = q[j]
      BY <1>6, <2>3
    <3>2. QED
      BY <1>10, <2>1, <3>1 DEF Met
  <2>4. QED
    BY <2>2, <2>3
<1>11. Met(p, r)
  BY <1>5, <1>8, <1>9, <1>10 DEF Met
<1>12. QED
  BY <1>11 DEF p, r

\* pairToolEntries: whatever the next entry is, calls find their results.
LEMMA PairedIsMet ==
    ASSUME NEW q \in Seq(Entry), NEW ex, Met(ex, q), NEW e \in Entry,
           NamedCalls(Append(q, e))
    PROVE  Met(Paired(ex, e), Append(q, e))
<1> DEFINE named == {k \in DOMAIN ex : ex[k].call # None /\ ex[k].call.call = e.call}
           waiting == {k \in DOMAIN ex : ex[k].call # None /\ ex[k].result = None}
<1>1. /\ e.kind = "tool" => Paired(ex, e) = Append(ex, [call |-> e, result |-> None])
      /\ e.kind # "tool" /\ e.call # 0 /\ named # {} /\ ex[Max(named)].result = None =>
             Paired(ex, e) = [ex EXCEPT ![Max(named)].result = e]
      /\ e.kind # "tool" /\ e.call = 0 /\ waiting # {} =>
             Paired(ex, e) = [ex EXCEPT ![Min(waiting)].result = e]
      /\ \/ e.kind = "tool"
         \/ e.call # 0 /\ named # {} /\ ex[Max(named)].result = None
         \/ e.call = 0 /\ waiting # {}
         \/ Paired(ex, e) = Append(ex, [call |-> None, result |-> e])
  BY Zenon DEF Paired
<1>2. /\ DOMAIN ex \subseteq Nat /\ IsFiniteSet(DOMAIN ex)
  <2>1. ex \in Seq(Execution)
    BY DEF Met
  <2>2. DOMAIN ex = 1..Len(ex) /\ Len(ex) \in Nat
    BY <2>1
  <2>3. QED
    BY <2>2, FS_Interval
<1>3. named # {} => Max(named) \in named
  <2>1. named \in SUBSET Nat /\ IsFiniteSet(named)
    BY <1>2, FS_Subset
  <2> HIDE DEF named
  <2>2. QED
    BY <2>1, FiniteMax
<1>4. waiting # {} => Min(waiting) \in waiting
  <2>1. waiting \in SUBSET Nat
    BY <1>2
  <2> HIDE DEF waiting
  <2>2. ASSUME waiting # {} PROVE Min(waiting) \in waiting
    <3>1. PICK m \in waiting : \A k \in waiting : m <= k
      BY <2>1, <2>2, NatMin
    <3>2. QED
      BY <3>1 DEF Min
  <2>3. QED
    BY <2>2
\* At most one execution has the ID of the entry.
<1>5. \A k, m \in named : e.call # 0 => k = m
  BY DEF Met, HasCall
<1>6. \A k \in DOMAIN ex : HasCall(ex[k]) /\ e.call = ex[k].call.call =>
          e.call # 0 /\ k \in named
  BY DEF HasCall
<1> DEFINE g == Max(named)
           o == Min(waiting)
<1>7. CASE e.kind = "tool"
  BY <1>1, <1>7, CallIsMet
<1>8. CASE e.kind # "tool" /\ e.call # 0 /\ named # {} /\ ex[Max(named)].result = None
  <2>1. g \in DOMAIN ex /\ g \in named
    BY <1>3, <1>8
  <2>2. \A k \in DOMAIN ex : k # g /\ HasCall(ex[k]) /\ ex[k].result = None =>
            e.call # ex[k].call.call
    BY <1>5, <1>6, <2>1
  <2>3. Paired(ex, e) = [ex EXCEPT ![g].result = e]
    BY <1>1, <1>8
  <2> HIDE DEF g, named, waiting
  <2>4. Met([ex EXCEPT ![g].result = e], Append(q, e))
    BY <2>1, <2>2, GivenIsMet
  <2>5. QED
    BY <2>3, <2>4
<1>9. CASE e.kind # "tool" /\ e.call = 0 /\ waiting # {}
  <2>1. o \in DOMAIN ex
    BY <1>4, <1>9
  <2>2. \A k \in DOMAIN ex : k # o /\ HasCall(ex[k]) /\ ex[k].result = None =>
            e.call # ex[k].call.call
    BY <1>6, <1>9
  <2>3. Paired(ex, e) = [ex EXCEPT ![o].result = e]
    BY <1>1, <1>9
  <2> HIDE DEF o, named, waiting
  <2>4. Met([ex EXCEPT ![o].result = e], Append(q, e))
    BY <2>1, <2>2, GivenIsMet
  <2>5. QED
    BY <2>3, <2>4
<1>10. CASE /\ e.kind # "tool"
            /\ ~(e.call # 0 /\ named # {} /\ ex[Max(named)].result = None)
            /\ ~(e.call = 0 /\ waiting # {})
  <2>1. Paired(ex, e) = Append(ex, [call |-> None, result |-> e])
    BY <1>1, <1>10
  <2>2. ASSUME NEW k \in DOMAIN ex, HasCall(ex[k]), ex[k].result = None,
               e.call = ex[k].call.call
        PROVE  FALSE
    <3>1. e.call # 0 /\ k \in named
      BY <1>6, <2>2
    <3>2. Max(named) = k
      BY <1>3, <1>5, <3>1
    <3>3. QED
      BY <1>10, <2>2, <3>1, <3>2
  <2>3. QED
    BY <1>10, <2>1, <2>2, ResultIsMet
<1>11. QED
  BY <1>7, <1>8, <1>9, <1>10

\* Names are kept by what comes before.
LEMMA NamedBefore ==
    ASSUME NEW q \in Seq(Entry), NEW e \in Entry, NamedCalls(Append(q, e))
    PROVE  NamedCalls(q)
<1> DEFINE r == Append(q, e)
<1>1. \A j \in DOMAIN q : j \in DOMAIN r /\ r[j] = q[j]
  OBVIOUS
<1> HIDE DEF r
<1>2. NamedCalls(r)
  BY DEF r
<1>3. QED
  BY <1>1, <1>2 DEF NamedCalls

\* In a group whose calls are named, every call finds its result.
LEMMA PairsMeet ==
    ASSUME NEW q \in Seq(Entry), NamedCalls(q)
    PROVE  Met(Pairs(q), q)
<1> DEFINE T == {r \in Seq(Entry) : NamedCalls(r) => Met(Pairs(r), r)}
<1>1. <<>> \in T
  <2>1. Met(<<>>, <<>>)
    BY DEF Met
  <2>2. QED
    BY <2>1, PairsNone
<1>2. ASSUME NEW r \in T, NEW e \in Entry PROVE Append(r, e) \in T
  <2>1. r \in Seq(Entry) /\ Append(r, e) \in Seq(Entry)
    OBVIOUS
  <2>2. ASSUME NamedCalls(Append(r, e)) PROVE Met(Pairs(Append(r, e)), Append(r, e))
    <3>1. NamedCalls(r)
      BY <2>1, <2>2, NamedBefore
    <3>2. Met(Pairs(r), r)
      BY <3>1
    <3>3. Pairs(Append(r, e)) = Paired(Pairs(r), e)
      BY <2>1, PairsMore
    <3>4. QED
      BY <2>1, <2>2, <3>2, <3>3, PairedIsMet
  <2>3. QED
    BY <2>1, <2>2
<1>3. T = Seq(Entry)
  <2> HIDE DEF T
  <2>1. T \in SUBSET Seq(Entry)
    BY DEF T
  <2>2. QED
    BY <1>1, <1>2, <2>1, AppendInduction
<1>4. QED
  BY <1>3

-----------------------------------------------------------------------------
\* A group of a page has its entries from the page.
Within(g, q) == \A j \in DOMAIN g : \E i \in DOMAIN q : g[j] = q[i]

\* Every group of a page names its calls, and has its entries from the page.
NamedGroups(m, q) == \A k \in DOMAIN m : NamedCalls(m[k]) /\ Within(m[k], q)

\* One more entry in a group is named when it is named in the page.
LEMMA GroupGrows ==
    ASSUME NEW q \in Seq(Entry), NEW e \in Entry, NamedCalls(Append(q, e)),
           NEW g \in Groups, NamedCalls(g), Within(g, q)
    PROVE  NamedCalls(g \o <<e>>) /\ Within(g \o <<e>>, Append(q, e))
<1> DEFINE h == g \o <<e>>
           r == Append(q, e)
           n == Len(g)
           l == Len(q)
<1>1. /\ n \in Nat /\ DOMAIN h = 1..(n + 1) /\ h[n + 1] = e
      /\ DOMAIN g = 1..n /\ \A j \in 1..n : h[j] = g[j]
  BY DEF Groups
<1>2. /\ l \in Nat /\ DOMAIN r = 1..(l + 1) /\ r[l + 1] = e
      /\ DOMAIN q = 1..l /\ \A j \in 1..l : r[j] = q[j]
  OBVIOUS
<1>3. NamedCalls(r)
  OBVIOUS
<1> HIDE DEF h, r, n, l
<1>4. ASSUME NEW i \in DOMAIN h, NEW j \in DOMAIN h,
             i < j, IsTool(h[i]), h[j].kind = "tool", h[j].call # 0
      PROVE  h[i].call # h[j].call
  <2>0. i \in 1..n /\ h[i] = g[i]
    BY <1>1, <1>4
  <2>1. CASE j = n + 1
    <3>1. PICK k \in DOMAIN q : g[i] = q[k]
      BY <1>1, <2>0 DEF Within
    <3>2. k \in DOMAIN r /\ l + 1 \in DOMAIN r /\ k < l + 1 /\ r[k] = g[i]
          /\ r[l + 1] = e
      BY <1>2, <3>1
    <3>3. h[j] = e
      BY <1>1, <2>1
    <3>4. IsTool(r[k]) /\ r[l + 1].kind = "tool" /\ r[l + 1].call # 0
      BY <1>4, <2>0, <3>2, <3>3
    <3>5. r[k].call # r[l + 1].call
      BY <1>3, <3>2, <3>4 DEF NamedCalls
    <3>6. QED
      BY <2>0, <3>2, <3>3, <3>5
  <2>2. CASE j # n + 1
    <3>1. j \in DOMAIN g /\ i \in DOMAIN g /\ h[j] = g[j]
      BY <1>1, <2>0, <2>2
    <3>2. QED
      BY <1>4, <2>0, <3>1 DEF NamedCalls
  <2>3. QED
    BY <2>1, <2>2
<1>5. ASSUME NEW j \in DOMAIN h PROVE \E i \in DOMAIN r : h[j] = r[i]
  <2>1. CASE j = n + 1
    BY <1>1, <1>2, <2>1
  <2>2. CASE j # n + 1
    <3>1. j \in DOMAIN g /\ h[j] = g[j]
      BY <1>1, <2>2
    <3>2. PICK i \in DOMAIN q : g[j] = q[i]
      BY <3>1 DEF Within
    <3>3. i \in DOMAIN r /\ r[i] = q[i]
      BY <1>2, <3>2
    <3>4. QED
      BY <3>1, <3>2, <3>3
  <2>3. QED
    BY <2>1, <2>2
<1>6. NamedCalls(h) /\ Within(h, r)
  BY <1>4, <1>5 DEF NamedCalls, Within
<1>7. QED
  BY <1>6 DEF h, r

\* An entry alone is a group.
LEMMA GroupStarts ==
    ASSUME NEW q \in Seq(Entry), NEW e \in Entry
    PROVE  NamedCalls(<<e>>) /\ Within(<<e>>, Append(q, e))
<1> DEFINE h == <<e>>
           r == Append(q, e)
<1>1. DOMAIN h = {1} /\ h[1] = e /\ Len(q) + 1 \in DOMAIN r /\ r[Len(q) + 1] = e
  OBVIOUS
<1> HIDE DEF h, r
<1>2. NamedCalls(h) /\ Within(h, r)
  BY <1>1 DEF NamedCalls, Within
<1>3. QED
  BY <1>2 DEF h, r

\* The groups of before have their entries from the page that grew.
LEMMA GroupsStay ==
    ASSUME NEW q \in Seq(Entry), NEW e \in Entry, NEW g, Within(g, q)
    PROVE  Within(g, Append(q, e))
<1> DEFINE r == Append(q, e)
<1>1. \A i \in DOMAIN q : i \in DOMAIN r /\ r[i] = q[i]
  OBVIOUS
<1> HIDE DEF r
<1>2. Within(g, r)
  BY <1>1 DEF Within
<1>3. QED
  BY <1>2 DEF r

\* Joining the next entry keeps groups named.
LEMMA JoinedIsNamed ==
    ASSUME NEW q \in Seq(Entry), NEW e \in Entry, NamedCalls(Append(q, e)),
           NEW m \in Seq(Groups), NamedGroups(m, q)
    PROVE  NamedGroups(Joined(m, <<e>>), Append(q, e))
<1> DEFINE g == <<e>>
           r == Append(q, e)
<1>1. g \in Groups /\ NamedCalls(g) /\ Within(g, r)
  BY SingleAppend, GroupStarts
<1>2. \A k \in DOMAIN m : NamedCalls(m[k]) /\ Within(m[k], r)
  BY GroupsStay DEF NamedGroups
<1>3. CASE m # <<>> /\ IsGroup(g) /\ IsGroup(Last(m))
  <2> DEFINE f == Front(m)
             t == Last(m)
             j == Append(f, t \o g)
  <2>1. f \in Seq(Groups) /\ t \in Groups /\ m = Append(f, t)
    BY <1>3, LastOfGroups
  <2>2. Joined(m, g) = j
    BY <1>3 DEF Joined
  <2> HIDE DEF f, t, g
  <2>3. /\ DOMAIN m = 1..(Len(f) + 1) /\ m[Len(f) + 1] = t /\ Len(f) \in Nat
        /\ \A k \in 1..Len(f) : m[k] = f[k]
    BY <2>1
  <2>4. NamedCalls(t) /\ Within(t, q)
    BY <2>3 DEF NamedGroups
  <2>5. NamedCalls(t \o g) /\ Within(t \o g, r)
    BY <2>1, <2>4, GroupGrows DEF g
  <2>6. /\ DOMAIN j = 1..(Len(f) + 1) /\ j[Len(f) + 1] = t \o g
        /\ \A k \in 1..Len(f) : j[k] = f[k]
    <3>1. t \o g \in Groups
      BY <1>1, <2>1, GroupsConcat
    <3> DEFINE u == t \o g
    <3> HIDE DEF u
    <3>2. u \in Groups
      BY <3>1 DEF u
    <3>3. /\ DOMAIN Append(f, u) = 1..(Len(f) + 1) /\ Append(f, u)[Len(f) + 1] = u
          /\ \A k \in 1..Len(f) : Append(f, u)[k] = f[k]
      BY <2>1, <3>2
    <3>4. QED
      BY <3>3 DEF u
  <2> DEFINE u == t \o g
  <2> HIDE DEF j, r, u
  <2>7. ASSUME NEW k \in DOMAIN j PROVE NamedCalls(j[k]) /\ Within(j[k], r)
    <3>1. CASE k = Len(f) + 1
      <4>1. j[k] = u
        BY <2>6, <3>1 DEF u
      <4>2. NamedCalls(u) /\ Within(u, r)
        BY <2>5 DEF u
      <4>3. QED
        BY <4>1, <4>2
    <3>2. CASE k # Len(f) + 1
      <4>1. k \in DOMAIN m /\ j[k] = m[k]
        BY <2>3, <2>6, <3>2
      <4>2. QED
        BY <1>2, <4>1
    <3>3. QED
      BY <3>1, <3>2
  <2>8. QED
    BY <2>2, <2>7 DEF NamedGroups, g, r
<1>4. CASE ~(m # <<>> /\ IsGroup(g) /\ IsGroup(Last(m)))
  <2> DEFINE j == Append(m, g)
  <2>1. Joined(m, g) = j
    BY <1>4 DEF Joined
  <2> HIDE DEF g
  <2>2. /\ DOMAIN m = 1..Len(m) /\ Len(m) \in Nat
        /\ DOMAIN j = 1..(Len(m) + 1) /\ j[Len(m) + 1] = g
        /\ \A k \in 1..Len(m) : j[k] = m[k]
    BY <1>1
  <2> HIDE DEF j, r
  <2>3. \A k \in DOMAIN j : NamedCalls(j[k]) /\ Within(j[k], r)
    BY <1>1, <1>2, <2>2
  <2>4. QED
    BY <2>1, <2>3 DEF NamedGroups, g, r
<1>5. QED
  BY <1>3, <1>4

\* So every group of a page names its calls when the page does.
LEMMA GroupsAreNamed ==
    ASSUME NEW q \in Seq(Entry), NamedCalls(q)
    PROVE  NamedGroups(Compact(q), q)
<1> DEFINE T == {r \in Seq(Entry) : NamedCalls(r) => NamedGroups(Compact(r), r)}
<1>1. <<>> \in T
  <2>1. Single(<<>>) = <<>>
    BY DEF Single
  <2>2. Compact(<<>>) = <<>>
    BY <2>1, MergeNone DEF Compact, Merge, Single
  <2>3. QED
    BY <2>2 DEF NamedGroups
<1>2. ASSUME NEW r \in T, NEW e \in Entry PROVE Append(r, e) \in T
  <2>1. r \in Seq(Entry) /\ Append(r, e) \in Seq(Entry)
    OBVIOUS
  <2>2. ASSUME NamedCalls(Append(r, e))
        PROVE  NamedGroups(Compact(Append(r, e)), Append(r, e))
    <3>1. NamedCalls(r)
      BY <2>1, <2>2, NamedBefore
    <3>2. NamedGroups(Compact(r), r) /\ Compact(r) \in Seq(Groups)
      BY <2>1, <3>1, CompactParts
    <3>3. Compact(Append(r, e)) = Joined(Compact(r), <<e>>)
      BY <2>1, CompactParts
    <3>4. QED
      BY <2>1, <2>2, <3>2, <3>3, JoinedIsNamed
  <2>3. QED
    BY <2>1, <2>2
<1>3. T = Seq(Entry)
  <2> HIDE DEF T
  <2>1. T \in SUBSET Seq(Entry)
    BY DEF T
  <2>2. QED
    BY <1>1, <1>2, <2>1, AppendInduction
<1>4. QED
  BY <1>3

\* A stretch of a transcript names its calls, as the transcript does.
LEMMA StretchIsNamed ==
    ASSUME NEW t \in Transcripts, NEW a \in Nat, NEW b \in Nat, b <= Len(Records[t])
    PROVE  /\ SubSeq(Records[t], a + 1, b) \in Seq(Entry)
           /\ NamedCalls(SubSeq(Records[t], a + 1, b))
<1> DEFINE q == Records[t]
           s == SubSeq(q, a + 1, b)
           n == IF a + 1 <= b THEN b - a ELSE 0
<1>1. q \in Seq(Entry) /\ DOMAIN q = 1..Len(q) /\ Len(q) \in Nat
  BY LogAssumption DEF LogAssumption
<1>2. NamedCalls(q)
  BY CallsAreNamed, Zenon DEF NamedCalls
<1> HIDE DEF q
<1>3. s \in Seq(Entry) /\ DOMAIN s = 1..n /\ \A i \in 1..n : s[i] = q[a + i]
  <2>1. \A i \in (a + 1)..b : q[i] \in Entry
    BY <1>1 DEF q
  <2>2. CASE a + 1 > b
    <3>1. s = <<>> /\ n = 0
      BY <1>1, <2>2
    <3>2. QED
      BY <3>1
  <2>3. CASE ~(a + 1 > b)
    <3>1. /\ s \in Seq(Entry) /\ Len(s) = b - (a + 1) + 1
          /\ \A i \in 1..(b - (a + 1) + 1) : s[i] = q[(a + 1) + i - 1]
      BY <1>1, <2>1, <2>3, SubSeqProperties
    <3>2. b - (a + 1) + 1 = n /\ n \in Nat
      BY <2>3
    <3> HIDE DEF n, s
    <3>3. \A i \in 1..n : (a + 1) + i - 1 = a + i
      BY <3>2
    <3>4. QED
      BY <3>1, <3>2, <3>3
  <2>4. QED
    BY <2>2, <2>3
<1> HIDE DEF s
<1>4. \A i \in 1..n : a + i \in DOMAIN q
  BY <1>1 DEF q
<1>0. n \in Nat
  OBVIOUS
<1> HIDE DEF n
<1>5. ASSUME NEW i \in DOMAIN s, NEW j \in DOMAIN s,
             i < j, IsTool(s[i]), s[j].kind = "tool", s[j].call # 0
      PROVE  s[i].call # s[j].call
  <2>0. i \in 1..n /\ j \in 1..n /\ i \in Nat /\ j \in Nat
    BY <1>0, <1>3
  <2>1. /\ a + i \in DOMAIN q /\ a + j \in DOMAIN q /\ a + i < a + j
        /\ s[i] = q[a + i] /\ s[j] = q[a + j]
    BY <1>3, <1>4, <1>5, <2>0
  <2>2. QED
    BY <1>2, <1>5, <2>1 DEF NamedCalls
<1>6. QED
  BY <1>3, <1>5 DEF NamedCalls, s, q

\* What the log shows as one group has its calls with their results.
LEMMA CallsMeet == LogKnows => CallsMeetResults
<1> SUFFICES ASSUME LogKnows, log # None, ~mixed, NEW i \in DOMAIN log.entries,
                    NEW x \in ToSet(Pairs(log.entries[i])),
                    x.call # None /\ x.call.call # 0 /\ x.result = None,
                    NEW j \in DOMAIN log.entries[i],
                    log.entries[i][j].kind = "tool_result"
             PROVE  log.entries[i][j].call # x.call.call
  BY Zenon DEF CallsMeetResults
<1>1. InFile(log) /\ Stretch(log) /\ log \in PageRecord
  BY DEF LogKnows, LogKnown, InFile
<1> DEFINE t == log.id
           q == SubSeq(Records[t], log.start + 1, log.end)
           g == log.entries[i]
<1>2. t \in Transcripts /\ log.start \in Nat /\ log.end \in Nat
  BY <1>1 DEF PageRecord
<1>3. log.end <= Len(Records[t])
  <2>1. length[t] \in Nat /\ length[t] <= Len(Records[t]) /\ Len(Records[t]) \in Nat
    BY <1>2, LogAssumption DEF LogKnows, FileKnown, LogAssumption
  <2>2. QED
    BY <1>1, <1>2, <2>1 DEF InFile
<1>4. q \in Seq(Entry) /\ NamedCalls(q)
  BY <1>2, <1>3, StretchIsNamed
<1>5. log.entries = Compact(q) /\ Compact(q) \in Seq(Groups)
  BY <1>1, <1>4, CompactParts DEF Stretch
<1> HIDE DEF q
<1>6. g \in Seq(Entry) /\ NamedCalls(g)
  <2>1. NamedGroups(log.entries, q)
    BY <1>4, <1>5, GroupsAreNamed
  <2>2. g \in Groups
    BY <1>5
  <2>3. QED
    BY <2>1, <2>2 DEF NamedGroups, Groups
<1> HIDE DEF g
<1>7. Met(Pairs(g), g)
  BY <1>6, PairsMeet
<1>8. PICK k \in DOMAIN Pairs(g) : x = Pairs(g)[k]
  BY DEF ToSet, g
<1>9. HasCall(Pairs(g)[k]) /\ Pairs(g)[k].result = None
  BY <1>8 DEF HasCall
<1>10. j \in DOMAIN g /\ g[j].kind = "tool_result"
  BY DEF g
<1>11. g[j].call # x.call.call
  BY <1>7, <1>8, <1>9, <1>10 DEF Met
<1>12. QED
  BY <1>11 DEF g

-----------------------------------------------------------------------------
(* The Files tab: what its requests, marks and object URLs know of each other. *)

\* A tab that is visible has the root, waits for it or says that it failed.
RootKnown ==
    /\ shown \in BOOLEAN /\ root \in BOOLEAN /\ rootLoading \in BOOLEAN
    /\ rootError \in BOOLEAN /\ rootAsked \in BOOLEAN
    /\ shown => root \/ rootLoading \/ rootError

\* A listing is the last refresh's, a loading mark has its request, and an
\* expanded folder has a mark, an error or its entries.
TreeKnown ==
    /\ refreshVersion \in Nat
    /\ directories \in [Folders -> Nat \cup {None}]
    /\ expanded \subseteq Folders /\ loadingDirectories \subseteq Folders
    /\ directoryErrors \subseteq Folders /\ asked \subseteq Listing
    /\ \A d \in Folders : directories[d] \in {None, refreshVersion}
    /\ \A d \in loadingDirectories : [dir |-> d, at |-> refreshVersion] \in asked
    /\ \A d \in expanded : \/ d \in loadingDirectories \/ d \in directoryErrors
                           \/ directories[d] # None

\* A search that is under way is for the text of the filter, and one that is
\* over left its matches or its error.
SearchKnown ==
    /\ shown \in BOOLEAN
    /\ query \in Queries \cup {None} /\ searchResult \in Queries \cup {None}
    /\ searchAsked \in SearchRequest \cup {None}
    /\ searching \in BOOLEAN /\ searchError \in BOOLEAN
    /\ searchAsked # None => searchAsked.text = query
    /\ shown => (searching <=> searchAsked # None)
    /\ shown /\ query # None /\ ~searching /\ ~searchError =>
           searchResult = query

\* The file that is asked for or shown is the selected one.
OpenFileKnown ==
    /\ shown \in BOOLEAN
    /\ selectedPath \in Files \cup {None} /\ fileAsked \in {None, selectedPath}
    /\ selectedFile \in {None, selectedPath}
    /\ fileLoading \in BOOLEAN /\ fileError \in BOOLEAN
    /\ selectedPath = None => ~fileLoading
    /\ shown => (fileLoading <=> fileAsked # None)

\* The URLs that are alive are those of the preview and of a download, and no
\* preview is asked for while one is shown.
DownloadURL == IF download = None THEN {} ELSE {download.url} \ {0}
URLsKnown ==
    /\ previewAsked \in Files \cup {None}
    /\ imagePreview \in ObjectURL \cup {None} /\ download \in ObjectURL \cup {None}
    /\ imagePreviewLoading \in BOOLEAN /\ imagePreviewError \in BOOLEAN
    /\ downloadError \in BOOLEAN
    /\ previewAsked # None => imagePreview = None
    /\ imagePreview # None => imagePreview.url # 0
    /\ Revoked \cap DownloadURL = {}
    /\ urls = Revoked \cup DownloadURL

FilesKnow == RootKnown /\ TreeKnown /\ SearchKnown /\ OpenFileKnown /\ URLsKnown

LEMMA FilesStart == FilesInit => FilesKnow
<1> SUFFICES ASSUME FilesInit PROVE FilesKnow
  OBVIOUS
<1>1. RootKnown
  BY DEF FilesInit, RootKnown
<1>2. TreeKnown
  BY DEF FilesInit, TreeKnown
<1>3. SearchKnown
  BY DEF FilesInit, SearchKnown
<1>4. OpenFileKnown
  BY DEF FilesInit, OpenFileKnown
<1>5. URLsKnown
  BY DEF FilesInit, URLsKnown, Revoked, DownloadURL
<1>6. QED
  BY <1>1, <1>2, <1>3, <1>4, <1>5 DEF FilesKnow

\* Which actions touch the root's listing, the tree, the search, the file and
\* the URLs; any other step leaves them.
LEMMA RootMoves ==
    ASSUME [FilesNext]_filesVars
    PROVE  \/ ToggleTab \/ Refresh \/ \E ok \in BOOLEAN : RootAnswered(ok)
           \/ UNCHANGED <<shown, rootVars>>
<1> USE DEF filesVars
<1> QED
  BY DEF FilesNext, Download, Type, Open, ClickFolder, RetryFolder,
      SearchDelayOver, RevokeTimer, SearchAnswered, FileAnswered, PreviewAnswered,
      DownloadAnswered, FolderAnswered

LEMMA TreeMoves ==
    ASSUME [FilesNext]_filesVars
    PROVE  \/ Refresh \/ \E d \in Folders : ClickFolder(d) \/ RetryFolder(d)
           \/ \E ok \in BOOLEAN : \E r \in asked : FolderAnswered(r, ok)
           \/ UNCHANGED treeVars
<1> USE DEF filesVars
<1> QED
  BY DEF FilesNext, Download, Type, Open, ToggleTab, RootAnswered,
      SearchDelayOver, RevokeTimer, SearchAnswered, FileAnswered, PreviewAnswered,
      DownloadAnswered

LEMMA SearchMoves ==
    ASSUME [FilesNext]_filesVars
    PROVE  \/ ToggleTab \/ Refresh \/ \E q \in Queries \cup {None} : Type(q)
           \/ SearchDelayOver \/ \E ok \in BOOLEAN : SearchAnswered(ok)
           \/ UNCHANGED <<shown, searchVars>>
<1> USE DEF filesVars
<1> QED
  BY DEF FilesNext, Download, Open, ClickFolder, RetryFolder, RootAnswered,
      RevokeTimer, FileAnswered, PreviewAnswered, DownloadAnswered, FolderAnswered

LEMMA FileMoves ==
    ASSUME [FilesNext]_filesVars
    PROVE  \/ ToggleTab \/ Refresh \/ \E p \in Files : Open(p)
           \/ \E ok \in BOOLEAN : FileAnswered(ok)
           \/ UNCHANGED <<shown, fileVars, selectedFile>>
<1> USE DEF filesVars
<1> QED
  BY DEF FilesNext, Download, Type, ClickFolder, RetryFolder, RootAnswered,
      SearchDelayOver, RevokeTimer, SearchAnswered, PreviewAnswered,
      DownloadAnswered, FolderAnswered, previewVars

LEMMA URLMoves ==
    ASSUME [FilesNext]_filesVars
    PROVE  \/ ToggleTab \/ Download \/ RevokeTimer \/ \E p \in Files : Open(p)
           \/ \E ok \in BOOLEAN :
                  \/ FileAnswered(ok) \/ PreviewAnswered(ok)
                  \/ DownloadAnswered(ok)
           \/ UNCHANGED <<previewVars, urls, downloadVars>>
<1> USE DEF filesVars
<1> QED
  BY DEF FilesNext, Refresh, SearchDelayOver, Type, ClickFolder, RetryFolder,
      RootAnswered, SearchAnswered, FolderAnswered

\* The root's listing: the tab, a refresh and the answer.
LEMMA RootStep == RootKnown /\ [FilesNext]_filesVars => RootKnown'
<1> SUFFICES ASSUME RootKnown, [FilesNext]_filesVars PROVE RootKnown'
  OBVIOUS
<1> USE DEF RootKnown, RootEffect
<1>1. CASE ToggleTab
  BY <1>1 DEF ToggleTab
<1>2. CASE Refresh
  BY <1>2 DEF Refresh
<1>3. CASE \E ok \in BOOLEAN : RootAnswered(ok)
  BY <1>3 DEF RootAnswered
<1>4. CASE UNCHANGED <<shown, rootVars>>
  BY <1>4 DEF rootVars
<1>5. QED
  BY <1>1, <1>2, <1>3, <1>4, RootMoves

\* The tree: a folder is asked for and answered, and a refresh forgets it all.
LEMMA TreeStep == TreeKnown /\ [FilesNext]_filesVars => TreeKnown'
<1> SUFFICES ASSUME TreeKnown, [FilesNext]_filesVars PROVE TreeKnown'
  OBVIOUS
<1> USE DEF TreeKnown
<1>1. CASE Refresh
  BY <1>1 DEF Refresh
<1>2. CASE \E d \in Folders : ClickFolder(d) \/ RetryFolder(d)
  <2>1. PICK d \in Folders : ClickFolder(d) \/ RetryFolder(d)
    BY <1>2
  <2>2. CASE LoadDirectory(d)
    <3>1. [dir |-> d, at |-> refreshVersion] \in Listing
      BY DEF Listing
    <3>2. expanded' \subseteq expanded \cup {d}
      BY <2>1 DEF ClickFolder, RetryFolder
    <3>3. QED
      BY <2>2, <3>1, <3>2 DEF LoadDirectory
  <2>3. CASE ClickFolder(d) /\ ~LoadDirectory(d)
    BY <2>3 DEF ClickFolder
  <2>4. QED
    BY <2>1, <2>2, <2>3 DEF RetryFolder
<1>3. CASE \E ok \in BOOLEAN : \E r \in asked : FolderAnswered(r, ok)
  <2>1. PICK r \in asked, ok \in BOOLEAN : FolderAnswered(r, ok)
    BY <1>3
  <2>2. r.dir \in Folders /\ r.at \in Nat
    BY DEF Listing
  <2>3. asked' = asked \ {r} /\ UNCHANGED <<refreshVersion, expanded>>
    BY <2>1 DEF FolderAnswered
  <2>4. CASE r.at # refreshVersion
    <3>1. \A d : [dir |-> d, at |-> refreshVersion] # r
      BY <2>4
    <3>2. UNCHANGED <<directories, loadingDirectories, directoryErrors>>
      BY <2>1, <2>4 DEF FolderAnswered
    <3>3. QED
      BY <2>3, <3>1, <3>2
  <2>5. CASE r.at = refreshVersion
    <3>1. loadingDirectories' = loadingDirectories \ {r.dir}
      BY <2>1, <2>5 DEF FolderAnswered
    <3>2. \A d \in loadingDirectories' : [dir |-> d, at |-> refreshVersion] # r
      BY <3>1
    <3>3. CASE ok
      <4>1. /\ directories' = [directories EXCEPT ![r.dir] = refreshVersion]
            /\ UNCHANGED directoryErrors
        BY <2>1, <2>5, <3>3 DEF FolderAnswered
      <4>2. QED
        BY <2>2, <2>3, <3>1, <3>2, <4>1, FilesAssumption
    <3>4. CASE ~ok
      <4>1. /\ directoryErrors' = directoryErrors \cup {r.dir}
            /\ UNCHANGED directories
        BY <2>1, <2>5, <3>4 DEF FolderAnswered
      <4>2. QED
        BY <2>2, <2>3, <3>1, <3>2, <4>1
    <3>5. QED
      BY <3>3, <3>4
  <2>6. QED
    BY <2>4, <2>5
<1>4. CASE UNCHANGED treeVars
  BY <1>4 DEF treeVars
<1>5. QED
  BY <1>1, <1>2, <1>3, <1>4, TreeMoves

\* The search: each change drops the old one and asks again, or clears it.
LEMMA SearchStarts ==
    ASSUME SearchKnown, NEW on \in BOOLEAN, NEW text \in Queries \cup {None},
           shown' = on, SearchEffect(on, text)
    PROVE  SearchKnown'
<1>1. CASE ~on
  BY <1>1 DEF SearchKnown, SearchEffect
<1>2. CASE on /\ text = None
  BY <1>2 DEF SearchKnown, SearchEffect
<1>3. CASE on /\ text # None
  <2>0. text \in Queries
    BY <1>3
  <2>1. searchAsked' = [text |-> text, sent |-> FALSE]
    BY <1>3 DEF SearchEffect
  <2>a. searchAsked' \in SearchRequest
    BY <2>0, <2>1, Zenon DEF SearchRequest
  <2>2. searchAsked' # None /\ searchAsked'.text = text
    BY <2>1, <2>a, FilesAssumption
  <2>3. QED
    BY <1>3, <2>1, <2>a, <2>2 DEF SearchKnown, SearchEffect
<1>4. QED
  BY <1>1, <1>2, <1>3

LEMMA SearchStep == SearchKnown /\ [FilesNext]_filesVars => SearchKnown'
<1> SUFFICES ASSUME SearchKnown, [FilesNext]_filesVars PROVE SearchKnown'
  OBVIOUS
<1>1. CASE ToggleTab
  BY <1>1, SearchStarts DEF ToggleTab, SearchKnown
<1>2. CASE Refresh
  BY <1>2, SearchStarts DEF Refresh, SearchKnown
<1>3. CASE \E q \in Queries \cup {None} : Type(q)
  BY <1>3, SearchStarts DEF Type, SearchKnown
<1>4. CASE SearchDelayOver
  <2>1. searchAsked \in SearchRequest /\ searchAsked # None
    BY <1>4 DEF SearchDelayOver, SearchKnown
  <2>2. searchAsked' \in SearchRequest /\ searchAsked'.text = searchAsked.text
    BY <1>4, <2>1 DEF SearchDelayOver, SearchRequest
  <2>3. QED
    BY <1>4, <2>1, <2>2, FilesAssumption DEF SearchDelayOver, SearchKnown
<1>5. CASE \E ok \in BOOLEAN : SearchAnswered(ok)
  <2>1. PICK ok \in BOOLEAN : SearchAnswered(ok)
    BY <1>5
  <2>2. searchAsked \in SearchRequest /\ searchAsked.text = query
    BY <2>1 DEF SearchAnswered, SearchKnown
  <2>3. query \in Queries
    BY <2>2 DEF SearchRequest
  <2>4. CASE ok
    BY <2>1, <2>2, <2>3, <2>4 DEF SearchAnswered, SearchKnown
  <2>5. CASE ~ok
    BY <2>1, <2>2, <2>3, <2>5 DEF SearchAnswered, SearchKnown
  <2>6. QED
    BY <2>4, <2>5
<1>6. CASE UNCHANGED <<shown, searchVars>>
  BY <1>6 DEF SearchKnown, searchVars
<1>7. QED
  BY <1>1, <1>2, <1>3, <1>4, <1>5, <1>6, SearchMoves

\* The open file: what is asked for is what is selected.
LEMMA FileStep == OpenFileKnown /\ [FilesNext]_filesVars => OpenFileKnown'
<1> SUFFICES ASSUME OpenFileKnown, [FilesNext]_filesVars PROVE OpenFileKnown'
  OBVIOUS
<1> USE DEF OpenFileKnown, FileEffect, PreviewEffect
<1>1. CASE ToggleTab
  BY <1>1 DEF ToggleTab
<1>2. CASE Refresh
  BY <1>2 DEF Refresh, previewVars
<1>3. CASE \E p \in Files : Open(p)
  BY <1>3, FilesAssumption DEF Open, previewVars
<1>4. CASE \E ok \in BOOLEAN : FileAnswered(ok)
  <2>1. PICK ok \in BOOLEAN : FileAnswered(ok)
    BY <1>4
  <2>2. CASE ok
    BY <2>1, <2>2 DEF FileAnswered
  <2>3. CASE ~ok
    BY <2>1, <2>3 DEF FileAnswered, previewVars
  <2>4. QED
    BY <2>2, <2>3
<1>5. CASE UNCHANGED <<shown, fileVars, selectedFile>>
  BY <1>5 DEF fileVars
<1>6. QED
  BY <1>1, <1>2, <1>3, <1>4, <1>5, FileMoves

\* A URL that is made is new.
LEMMA URLIsFresh ==
    ASSUME URLsKnown PROVE FreshURL \in Nat \ {0} /\ FreshURL \notin urls
<1>1. IsFiniteSet(urls)
  <2>1. IsFiniteSet(Revoked) /\ IsFiniteSet(DownloadURL)
    BY FS_EmptySet, FS_Singleton, FS_Difference DEF Revoked, DownloadURL
  <2>2. QED
    BY <2>1, FS_Union DEF URLsKnown
<1>2. Cardinality(urls) \in Nat
  BY <1>1, FS_CardinalityType
<1> DEFINE T == 1..(Cardinality(urls) + 1)
<1>3. IsFiniteSet(T) /\ Cardinality(T) = Cardinality(urls) + 1
  BY <1>2, FS_Interval
<1>4. ~(T \subseteq urls)
  BY <1>1, <1>2, <1>3, FS_Subset
<1>5. \E n \in T : n \notin urls
  BY <1>4
<1>6. FreshURL \in T /\ FreshURL \notin urls
  BY <1>5 DEF FreshURL
<1>7. QED
  BY <1>2, <1>6

\* The cleanup of the preview's effect revokes its URL and no other.
LEMMA PreviewEnds ==
    ASSUME URLsKnown, NEW on \in BOOLEAN, NEW f \in Files \cup {None},
           PreviewEffect(on, f), UNCHANGED downloadVars
    PROVE  URLsKnown'
<1>1. /\ imagePreview' = None /\ urls' = urls \ Revoked /\ Revoked' = {}
      /\ imagePreviewError' = FALSE /\ imagePreviewLoading' \in BOOLEAN
      /\ previewAsked' \in Files \cup {None} /\ UNCHANGED <<download, downloadError>>
  BY DEF PreviewEffect, Revoked, downloadVars
<1>2. DownloadURL' = DownloadURL
  BY <1>1 DEF DownloadURL
<1>3. QED
  BY <1>1, <1>2 DEF URLsKnown

\* URLs are made for a preview and for a download, and revoked with them.
LEMMA URLStep == OpenFileKnown /\ URLsKnown /\ [FilesNext]_filesVars => URLsKnown'
<1> SUFFICES ASSUME OpenFileKnown, URLsKnown, [FilesNext]_filesVars PROVE URLsKnown'
  OBVIOUS
<1>0. /\ shown \in BOOLEAN /\ selectedFile \in Files \cup {None}
      /\ fileAsked \in Files \cup {None}
  BY DEF OpenFileKnown
<1>1. CASE ToggleTab
  BY <1>0, <1>1, PreviewEnds DEF ToggleTab
<1>2. CASE Download
  <2>1. selectedFile \in Files /\ download = None
    BY <1>0, <1>2 DEF Download
  <2>2. CASE UNCHANGED download
    BY <1>2, <2>2 DEF Download, URLsKnown, Revoked, DownloadURL, previewVars
  <2>3. CASE download' = [path |-> selectedFile, url |-> 0]
    <3>1. download' \in ObjectURL /\ download'.url = 0
      BY <2>1, <2>3 DEF ObjectURL
    <3>2. DownloadURL' = {} /\ DownloadURL = {}
      BY <2>1, <3>1 DEF DownloadURL
    <3>3. QED
      BY <1>2, <3>1, <3>2 DEF Download, URLsKnown, Revoked, previewVars
  <2>4. QED
    BY <1>2, <2>2, <2>3 DEF Download
<1>3. CASE \E p \in Files : Open(p)
  <2>1. CASE UNCHANGED <<previewVars, urls>>
    BY <1>3, <2>1 DEF Open, URLsKnown, Revoked, DownloadURL, previewVars, downloadVars
  <2>2. CASE PreviewEffect(TRUE, None) /\ UNCHANGED downloadVars
    BY <2>2, PreviewEnds
  <2>3. QED
    BY <1>3, <2>1, <2>2 DEF Open
<1>4. CASE RevokeTimer
  <2>1. download \in ObjectURL /\ download.url # 0 /\ DownloadURL = {download.url}
    BY <1>4 DEF RevokeTimer, URLsKnown, DownloadURL
  <2>2. DownloadURL' = {} /\ urls' = urls \ DownloadURL /\ Revoked' = Revoked
    BY <1>4, <2>1 DEF RevokeTimer, DownloadURL, Revoked, previewVars
  <2>3. QED
    BY <1>4, <2>2 DEF RevokeTimer, URLsKnown, previewVars
<1>5. ASSUME NEW ok \in BOOLEAN, FileAnswered(ok) PROVE URLsKnown'
  <2>1. CASE UNCHANGED <<previewVars, urls>>
    BY <1>5, <2>1 DEF FileAnswered, URLsKnown, Revoked, DownloadURL, previewVars, downloadVars
  <2>2. CASE PreviewEffect(shown, IF ok THEN fileAsked ELSE None)
    <3>1. (IF ok THEN fileAsked ELSE None) \in Files \cup {None} /\ UNCHANGED downloadVars
      BY <1>0, <1>5 DEF FileAnswered
    <3>2. QED
      BY <1>0, <2>2, <3>1, PreviewEnds
  <2>3. QED
    BY <1>5, <2>1, <2>2 DEF FileAnswered
<1>6. ASSUME NEW ok \in BOOLEAN, PreviewAnswered(ok) PROVE URLsKnown'
  <2>1. previewAsked \in Files /\ imagePreview = None /\ Revoked = {}
    BY <1>6 DEF PreviewAnswered, URLsKnown, Revoked
  <2>2. UNCHANGED downloadVars /\ DownloadURL' = DownloadURL
    BY <1>6 DEF PreviewAnswered, downloadVars, DownloadURL
  <2>3. CASE ok
    <3>1. /\ imagePreview' = [path |-> previewAsked, url |-> FreshURL]
          /\ urls' = urls \cup {FreshURL}
      BY <1>6, <2>3 DEF PreviewAnswered
    <3>2. imagePreview' \in ObjectURL /\ imagePreview'.url = FreshURL
      BY <2>1, <3>1, URLIsFresh DEF ObjectURL
    <3>3. Revoked' = {FreshURL}
      BY <3>2, FilesAssumption DEF Revoked
    <3>4. QED
      BY <1>6, <2>1, <2>2, <2>3, <3>1, <3>2, <3>3, URLIsFresh
      DEF PreviewAnswered, URLsKnown, downloadVars
  <2>4. CASE ~ok
    BY <1>6, <2>1, <2>2, <2>4 DEF PreviewAnswered, URLsKnown, downloadVars, Revoked
  <2>5. QED
    BY <2>3, <2>4
<1>7. ASSUME NEW ok \in BOOLEAN, DownloadAnswered(ok) PROVE URLsKnown'
  <2>1. download \in ObjectURL /\ download.url = 0 /\ DownloadURL = {}
    BY <1>7 DEF DownloadAnswered, URLsKnown, DownloadURL
  <2>2. UNCHANGED previewVars /\ Revoked' = Revoked
    BY <1>7 DEF DownloadAnswered, previewVars, Revoked
  <2>3. CASE ok
    <3>1. /\ download' = [download EXCEPT !.url = FreshURL]
          /\ urls' = urls \cup {FreshURL}
      BY <1>7, <2>3 DEF DownloadAnswered
    <3>2. download' \in ObjectURL /\ download'.url = FreshURL
      BY <2>1, <3>1, URLIsFresh DEF ObjectURL
    <3>3. DownloadURL' = {FreshURL}
      BY <3>2, URLIsFresh, FilesAssumption DEF DownloadURL
    <3>4. QED
      BY <1>7, <2>1, <2>2, <2>3, <3>1, <3>2, <3>3, URLIsFresh
      DEF DownloadAnswered, URLsKnown, previewVars
  <2>4. CASE ~ok
    BY <1>7, <2>1, <2>2, <2>4 DEF DownloadAnswered, URLsKnown, previewVars, DownloadURL
  <2>5. QED
    BY <2>3, <2>4
<1>8. CASE UNCHANGED <<previewVars, urls, downloadVars>>
  BY <1>8 DEF URLsKnown, Revoked, DownloadURL, previewVars, downloadVars
<1>9. QED
  BY <1>1, <1>2, <1>3, <1>4, <1>5, <1>6, <1>7, <1>8, URLMoves

LEMMA FilesStep == FilesKnow /\ [FilesNext]_filesVars => FilesKnow'
  BY RootStep, TreeStep, SearchStep, FileStep, URLStep DEF FilesKnow

\* What is shown follows from what they know.
LEMMA FilesTyped == FilesKnow => FilesTypeOK
<1> SUFFICES ASSUME FilesKnow PROVE FilesTypeOK
  OBVIOUS
<1>1. {shown, root, rootLoading, rootError, rootAsked, searching, searchError,
       fileLoading, fileError, imagePreviewLoading, imagePreviewError,
       downloadError} \subseteq BOOLEAN
  BY Zenon DEF FilesKnow, RootKnown, SearchKnown, OpenFileKnown, URLsKnown
<1>2. selectedFile \in Files \cup {None} /\ fileAsked \in Files \cup {None}
  BY DEF FilesKnow, OpenFileKnown
<1>3. urls \subseteq Nat \ {0}
  BY DEF FilesKnow, URLsKnown, Revoked, DownloadURL, ObjectURL
<1>4. QED
  BY <1>1, <1>2, <1>3
  DEF FilesTypeOK, FilesKnow, RootKnown, TreeKnown, SearchKnown, OpenFileKnown, URLsKnown

LEMMA FilesShown == FilesKnow => ShowsLatest /\ NoStuckFolder /\ URLsRevoked
<1> SUFFICES ASSUME FilesKnow PROVE ShowsLatest /\ NoStuckFolder /\ URLsRevoked
  OBVIOUS
<1>1. ShowsLatest
  BY DEF FilesKnow, TreeKnown, OpenFileKnown, SearchKnown, ShowsLatest,
         NavigatorPart, ViewerPart
<1>2. NoStuckFolder
  <2>1. \A d \in expanded : Feedback(d) # "nothing"
    BY DEF FilesKnow, TreeKnown, Feedback
  <2>2. shown => NavigatorPart # "blank"
    BY DEF FilesKnow, RootKnown, NavigatorPart
  <2>3. QED
    BY <2>1, <2>2 DEF FilesKnow, TreeKnown, SearchKnown, OpenFileKnown, NoStuckFolder
<1>3. URLsRevoked
  BY DEF FilesKnow, URLsKnown, DownloadURL, URLsRevoked
<1>4. QED
  BY <1>1, <1>2, <1>3

-----------------------------------------------------------------------------
(* The changes: one load at a time, or the timer of the next one. *)

\* The types, and the polling: a tab on screen has either a load under way for
\* the selected file or the timer of the next one.
ChangesKnown ==
    /\ changed \subseteq Paths /\ selected \in Paths \cup {None}
    /\ repository \in BOOLEAN /\ onScreen \in BOOLEAN /\ gitLoading \in BOOLEAN
    /\ first \in BOOLEAN /\ timer \in BOOLEAN
    /\ gitError \in {None, "missing", "other"}
    /\ snapshot \in Snapshot \cup {None} /\ request \in GitRequest \cup {None}
    /\ request # None => ~timer /\ request.path = selected
    /\ onScreen <=> request # None \/ timer

LEMMA ChangesStarts == ChangesInit => ChangesKnown
  BY DEF ChangesInit, ChangesKnown

\* A load that begins is for its path.
LEMMA LoadBegins ==
    ASSUME NEW path \in Paths \cup {None},
           request' = [path |-> path, answer |-> None]
    PROVE  request' \in GitRequest /\ request' # None /\ request'.path = path
<1>1. request' \in GitRequest /\ request'.path = path
  BY DEF GitRequest
<1>2. QED
  BY <1>1, ChangesAssumption DEF ChangesAssumption

\* The effect of a tab that is on screen begins a load, and of one that is not
\* ends it.
LEMMA EffectKnown ==
    ASSUME ChangesKnown, NEW on \in BOOLEAN, NEW path \in Paths \cup {None},
           Effect(on, path), selected' = path, onScreen' = on, UNCHANGED snapshot,
           changed' \subseteq Paths, repository' \in BOOLEAN,
           gitError' \in {None, "missing", "other"}
    PROVE  ChangesKnown'
<1>1. CASE on
  <2>1. /\ request' = [path |-> path, answer |-> None] /\ timer' = FALSE
        /\ gitLoading' = (gitLoading \/ snapshot' = None)
        /\ first' = (snapshot' = None)
    BY <1>1 DEF Effect, Loads
  <2>2. gitLoading' \in BOOLEAN /\ first' \in BOOLEAN
    BY <2>1, Zenon
  <2>3. request' \in GitRequest /\ request' # None /\ request'.path = path
    BY <2>1, LoadBegins
  <2>4. QED
    BY <1>1, <2>1, <2>2, <2>3 DEF ChangesKnown
<1>2. CASE ~on
  BY <1>2 DEF Effect, ChangesKnown
<1>3. QED
  BY <1>1, <1>2

\* The end of a load sets the timer, or begins the load of another file.
LEMMA LeavesKnown ==
    ASSUME ChangesKnown, request # None, NEW path \in Paths \cup {None},
           Leaves(path), UNCHANGED <<tree, onScreen>>,
           snapshot' \in Snapshot \cup {None}, gitError' \in {None, "missing", "other"}
    PROVE  ChangesKnown'
<1>0. onScreen /\ UNCHANGED <<changed, repository>>
  BY DEF ChangesKnown, tree
<1>1. CASE path = selected
  <2>1. selected' = path /\ request' = None /\ timer' = TRUE /\ gitLoading' = FALSE
        /\ UNCHANGED first
    BY <1>1 DEF Leaves
  <2>2. QED
    BY <1>0, <2>1 DEF ChangesKnown
<1>2. CASE path # selected
  <2>1. /\ selected' = path /\ first' = (snapshot' = None)
        /\ request' = [path |-> path, answer |-> None]
        /\ gitLoading' = (snapshot' = None) /\ timer' = FALSE
    BY <1>2 DEF Leaves
  <2>2. gitLoading' \in BOOLEAN /\ first' \in BOOLEAN
    BY <2>1, Zenon
  <2>3. request' \in GitRequest /\ request' # None /\ request'.path = path
    BY <2>1, LoadBegins
  <2>4. QED
    BY <1>0, <2>1, <2>2, <2>3 DEF ChangesKnown
<1>3. QED
  BY <1>1, <1>2

LEMMA StepGitAnswers == ASSUME ChangesKnown, GitAnswers PROVE ChangesKnown'
<1>1. /\ request # None /\ request \in GitRequest
      /\ UNCHANGED <<tree, onScreen, snapshot, selected, gitLoading, gitError,
                     first, timer>>
  BY DEF GitAnswers, ChangesKnown
<1>2. PICK a : a = IF ~repository THEN [kind |-> "missing"]
                   ELSE IF request.path \notin changed \cup {None}
                   THEN [kind |-> "not found"]
                   ELSE [kind |-> "snapshot", files |-> changed, patch |-> request.path]
  OBVIOUS
<1>3. a \in GitAnswer
  <2>1. CASE ~repository
    BY <1>2, <2>1 DEF GitAnswer
  <2>2. CASE repository /\ request.path \notin changed \cup {None}
    BY <1>2, <2>2 DEF GitAnswer
  <2>3. CASE repository /\ request.path \in changed \cup {None}
    <3>1. request.path \in Paths \cup {None} /\ changed \in SUBSET Paths
      BY <1>1 DEF GitRequest, ChangesKnown
    <3>2. a = [kind |-> "snapshot", files |-> changed, patch |-> request.path]
      BY <1>2, <2>3
    <3>3. QED
      BY <3>1, <3>2 DEF GitAnswer
  <2>4. QED
    BY <2>1, <2>2, <2>3 DEF ChangesKnown
<1>4. request' = [request EXCEPT !.answer = a]
  BY <1>2 DEF GitAnswers
<1>5. request' \in GitRequest /\ request'.path = request.path
  BY <1>1, <1>3, <1>4 DEF GitRequest
<1>6. request' # None
  BY <1>5, ChangesAssumption DEF ChangesAssumption
<1>7. QED
  BY <1>1, <1>5, <1>6 DEF ChangesKnown, tree

\* The file that stays selected is one of the list.
LEMMA KeptIsPath ==
    ASSUME ChangesKnown, NEW files \in SUBSET Paths
    PROVE  Kept(files) \in Paths \cup {None}
<1>1. CASE selected \in files \/ files = {}
  BY <1>1 DEF Kept
<1>2. CASE selected \notin files /\ files # {}
  <2>1. files \in SUBSET Nat
    BY ChangesAssumption DEF ChangesAssumption
  <2>2. \E m \in files : \A k \in files : m <= k
    BY <1>2, <2>1, NatMin
  <2>3. Min(files) \in files
    BY <2>2 DEF Min
  <2>4. QED
    BY <1>2, <2>3 DEF Kept
<1>3. QED
  BY <1>1, <1>2

LEMMA StepLoaded == ASSUME ChangesKnown, Loaded PROVE ChangesKnown'
<1>1. /\ request # None /\ request.answer # None /\ request.answer.kind = "snapshot"
      /\ request \in GitRequest
  BY DEF Loaded, ChangesKnown
<1>2. request.answer \in GitAnswer
  BY <1>1 DEF GitRequest
<1>3. request.answer.files \in SUBSET Paths /\ request.answer.patch \in Paths \cup {None}
  BY <1>1, <1>2 DEF GitAnswer
<1>4. snapshot' \in Snapshot
  BY <1>3 DEF Loaded, Snapshot
<1>5. QED
  BY <1>1, <1>3, <1>4, KeptIsPath, LeavesKnown DEF Loaded

LEMMA ChangesStep == ChangesKnown /\ [ChangesNext]_changesVars => ChangesKnown'
<1> SUFFICES ASSUME ChangesKnown, [ChangesNext]_changesVars PROVE ChangesKnown'
  OBVIOUS
<1>1. ASSUME NEW p \in Paths, Select(p) PROVE ChangesKnown'
  BY <1>1, EffectKnown DEF Select, tree, ChangesKnown
<1>2. CASE Turn
  BY <1>2, EffectKnown DEF Turn, tree, ChangesKnown
<1>3. CASE TimerRings
  <2>1. /\ timer /\ Loads(selected, first)
        /\ UNCHANGED <<changed, repository, onScreen, snapshot, selected, gitError, first>>
    BY <1>3 DEF TimerRings, tree
  <2>2. /\ request' = [path |-> selected, answer |-> None] /\ timer' = FALSE
        /\ gitLoading' = (gitLoading \/ first)
    BY <2>1 DEF Loads
  <2>3. gitLoading' \in BOOLEAN
    BY <2>2, Zenon
  <2>4. request' \in GitRequest /\ request' # None /\ request'.path = selected
    BY <2>2, LoadBegins DEF ChangesKnown
  <2>5. QED
    BY <2>1, <2>2, <2>3, <2>4 DEF ChangesKnown
<1>4. CASE GitAnswers
  BY <1>4, StepGitAnswers
<1>5. CASE Loaded
  BY <1>5, StepLoaded
<1>6. CASE NotFound
  BY <1>6, LeavesKnown DEF NotFound, ChangesKnown
<1>7. CASE Missing
  BY <1>7, LeavesKnown DEF Missing, ChangesKnown
<1>8. CASE LoadFails
  BY <1>8, LeavesKnown DEF LoadFails, ChangesKnown
<1>9. CASE TreeChanges
  <2>1. changed' \subseteq Paths /\ repository' \in BOOLEAN
    BY <1>9 DEF TreeChanges, ChangesKnown
  <2>2. QED
    BY <1>9, <2>1 DEF TreeChanges, ChangesKnown
<1>10. CASE UNCHANGED changesVars
  BY <1>10 DEF changesVars, tree, ChangesKnown
<1>11. QED
  BY <1>1, <1>2, <1>3, <1>4, <1>5, <1>6, <1>7, <1>8, <1>9, <1>10 DEF ChangesNext

LEMMA ChangesTyped == ChangesKnown => ChangesTypeOK /\ PolledOnce
<1> SUFFICES ASSUME ChangesKnown PROVE ChangesTypeOK /\ PolledOnce
  OBVIOUS
<1>1. {repository, onScreen, gitLoading, first, timer} \subseteq BOOLEAN
  BY Zenon DEF ChangesKnown
<1>2. PolledOnce
  BY DEF ChangesKnown, PolledOnce
<1>3. QED
  BY <1>1, <1>2 DEF ChangesKnown, ChangesTypeOK

-----------------------------------------------------------------------------
(* What is switched, counted and measured on the way of the output. *)

\* Switches.
StreamFlags ==
    /\ gatePaused \in BOOLEAN /\ replaying \in BOOLEAN /\ streamComplete \in BOOLEAN
    /\ interactive \in BOOLEAN /\ paused \in BOOLEAN

LEMMA StreamFlagsStart == StreamInit => StreamFlags
  BY DEF StreamInit, StreamFlags

\* reconcile pauses or resumes.
LEMMA ReconcilePauses ==
    ASSUME NEW entries, paused \in BOOLEAN, Reconcile(entries) PROVE paused' \in BOOLEAN
<1>1. PICK pause \in BOOLEAN, said \in BOOLEAN : paused' = IF said THEN pause ELSE paused
  <2>1. (~paused /\ Pending(entries) > HighWater) \in BOOLEAN
    BY Zenon
  <2>2. \A r \in BOOLEAN : (connection = "connected" /\ r) \in BOOLEAN
    BY Zenon
  <2>3. \A p, r \in BOOLEAN : (p \/ r) \in BOOLEAN
    BY Zenon
  <2>4. (paused /\ Pending(entries) < LowWater) \in BOOLEAN
    BY Zenon
  <2>5. QED
    BY <2>1, <2>2, <2>3, <2>4, Zenon DEF Reconcile
<1>2. QED
  BY <1>1

\* So does a write.
LEMMA WritesPause ==
    ASSUME NEW pieces, NEW history, paused \in BOOLEAN, Writes(pieces, history)
    PROVE  paused' \in BOOLEAN
<1>1. PICK entries : Reconcile(entries)
  BY Zenon DEF Writes
<1>2. QED
  BY <1>1, ReconcilePauses

\* And parsing, and a size.
LEMMA ParsePauses ==
    ASSUME paused \in BOOLEAN, Parse \/ HearSize PROVE paused' \in BOOLEAN
<1>1. PICK entries : Reconcile(entries)
  BY Zenon DEF Parse, HearSize
<1>2. QED
  BY <1>1, ReconcilePauses

LEMMA StreamFlagsStep ==
    ASSUME StreamFlags, [StreamNext]_streamVars PROVE StreamFlags'
<1> USE DEF StreamFlags, process, server, replay, output
<1>1. CASE ProcessWrites \/ ProcessEnds \/ SizeChanges \/ LinkBreaks
  <2>1. UNCHANGED <<gatePaused, replaying, streamComplete, interactive, paused>>
    BY <1>1, Zenon DEF ProcessWrites, ProcessEnds, SizeChanges, LinkBreaks
  <2>2. QED
    BY <2>1
<1>2. CASE Accept
  <2>1. gatePaused' = FALSE /\ UNCHANGED <<replaying, streamComplete, interactive, paused>>
    BY <1>2, Zenon DEF Accept
  <2>2. QED
    BY <2>1
<1>3. CASE WriteFrame
  <2>1. UNCHANGED <<gatePaused, replaying, streamComplete, interactive, paused>>
    BY <1>3, Zenon DEF WriteFrame
  <2>2. QED
    BY <2>1
<1>4. CASE ServerHears
  <2>1. /\ gatePaused' = (Head(up).type = "pause")
        /\ UNCHANGED <<replaying, streamComplete, interactive, paused>>
    BY <1>4, Zenon DEF ServerHears
  <2>2. gatePaused' \in BOOLEAN
    BY <2>1, Zenon
  <2>3. QED
    BY <2>1, <2>2
<1>5. CASE FlushTimer \/ UserTypes
  <2>1. /\ UNCHANGED <<gatePaused, replaying, streamComplete>>
        /\ interactive' \in {interactive, TRUE}
        /\ Writes(Flushed, FALSE)
    BY <1>5, Zenon DEF FlushTimer, UserTypes, Flush
  <2>2. paused' \in BOOLEAN
    BY <2>1, WritesPause, Zenon
  <2>3. QED
    BY <2>1, <2>2
<1>6. CASE InteractiveTimer
  <2>1. interactive' = FALSE /\ UNCHANGED <<gatePaused, replaying, streamComplete, paused>>
    BY <1>6, Zenon DEF InteractiveTimer
  <2>2. QED
    BY <2>1
<1>7. CASE Parse
  <2>1. /\ UNCHANGED <<gatePaused, streamComplete>>
        /\ interactive' \in {interactive, TRUE}
    BY <1>7, Zenon DEF Parse
  <2>2. paused \in BOOLEAN
    OBVIOUS
  <2>a. paused' \in BOOLEAN
    BY <1>7, <2>2, ParsePauses, Zenon
  <2>3. replaying' \in BOOLEAN
    <3>1. \A r : (replaying /\ ~r) \in BOOLEAN
      BY Zenon
    <3>2. QED
      BY <1>7, <3>1, Zenon DEF Parse
  <2>4. QED
    BY <2>1, <2>a, <2>3
<1>8. CASE HearHistory
  <2>1. /\ UNCHANGED <<gatePaused, streamComplete, interactive>>
        /\ replaying' = TRUE /\ Writes(<<Head(down).data>>, TRUE)
    BY <1>8, Zenon DEF HearHistory
  <2>2. paused' \in BOOLEAN
    BY <2>1, WritesPause, Zenon
  <2>3. QED
    BY <2>1, <2>2
<1>9. CASE HearHistoryEnd
  <2>1. /\ UNCHANGED <<gatePaused, interactive, paused>> /\ streamComplete' = TRUE
        /\ replaying' = (replaying /\ PendingHistory(xterm) # 0)
    BY <1>9, Zenon DEF HearHistoryEnd
  <2>2. replaying' \in BOOLEAN
    BY <2>1, Zenon
  <2>3. QED
    BY <2>1, <2>2
<1>10. CASE HearOutput
  <2>1. /\ UNCHANGED <<gatePaused, replaying, streamComplete, interactive>>
        /\ paused' = paused \/ Writes(Flushed \o <<Head(down).data>>, FALSE)
    BY <1>10, Zenon DEF HearOutput
  <2>2. paused' \in BOOLEAN
    <3>1. CASE paused' = paused
      BY <3>1
    <3>2. CASE Writes(Flushed \o <<Head(down).data>>, FALSE)
      BY <3>2, WritesPause, Zenon
    <3>3. QED
      BY <2>1, <3>1, <3>2
  <2>3. QED
    BY <2>1, <2>2
<1>11. CASE HearSize
  <2>1. /\ UNCHANGED <<gatePaused, streamComplete, interactive>>
        /\ replaying' = (replaying /\ ~(streamComplete /\ PendingHistory(xterm) = 0))
    BY <1>11, Zenon DEF HearSize
  <2>2. replaying' \in BOOLEAN
    BY <2>1, Zenon
  <2>a. paused \in BOOLEAN
    OBVIOUS
  <2>b. paused' \in BOOLEAN
    BY <1>11, <2>a, ParsePauses, Zenon
  <2>3. QED
    BY <2>1, <2>2, <2>b
<1>12. CASE HearExit
  <2>1. /\ UNCHANGED <<gatePaused, replaying, streamComplete, interactive>>
        /\ Writes(Flushed, FALSE)
    BY <1>12, Zenon DEF HearExit, Flush
  <2>2. paused' \in BOOLEAN
    BY <2>1, WritesPause, Zenon
  <2>3. QED
    BY <2>1, <2>2
<1>13. CASE HearClose
  <2>1. UNCHANGED <<gatePaused, replaying, streamComplete, interactive, paused>>
    BY <1>13, Zenon DEF HearClose
  <2>2. QED
    BY <2>1
<1>14. CASE Reconnect
  <2>1. /\ UNCHANGED gatePaused /\ replaying' = FALSE /\ streamComplete' = FALSE
        /\ interactive' = FALSE /\ paused' = FALSE
    BY <1>14, Zenon DEF Reconnect
  <2>2. QED
    BY <2>1
<1>15. CASE UNCHANGED streamVars
  <2>1. UNCHANGED <<gatePaused, replaying, streamComplete, interactive, paused>>
    BY <1>15, Zenon DEF streamVars
  <2>2. QED
    BY <2>1
<1>16. QED
  BY <1>1, <1>2, <1>3, <1>4, <1>5, <1>6, <1>7, <1>8, <1>9, <1>10, <1>11, <1>12,
     <1>13, <1>14, <1>15, Zenon DEF StreamNext, HearFrame

-----------------------------------------------------------------------------
\* The places of the output in a queue.
Lives(q) == {i \in DOMAIN q : ~IsSize(q[i])}

\* They are as many as it takes to count them.
LEMMA LivesFinite ==
    ASSUME NEW S, NEW q \in Seq(S)
    PROVE  IsFiniteSet(Lives(q)) /\ Cardinality(Lives(q)) \in Nat
<1>1. Len(q) \in Nat /\ DOMAIN q = 1..Len(q)
  OBVIOUS
<1>2. Lives(q) \in SUBSET (1..Len(q))
  BY <1>1 DEF Lives
<1>3. IsFiniteSet(1..Len(q))
  BY <1>1, FS_Interval
<1>4. IsFiniteSet(Lives(q))
  BY <1>2, <1>3, FS_Subset
<1>5. QED
  BY <1>4, FS_CardinalityType

\* One more message is one more of them, unless it is a size.
LEMMA LivesAppend ==
    ASSUME NEW S, NEW q \in Seq(S), NEW m \in S
    PROVE  Cardinality(Lives(Append(q, m))) =
               IF IsSize(m) THEN Cardinality(Lives(q)) ELSE Cardinality(Lives(q)) + 1
<1> DEFINE n == Len(q)
           t == Append(q, m)
<1>1. n \in Nat /\ Len(t) = n + 1 /\ t[n + 1] = m /\ \A i \in 1..n : t[i] = q[i]
  BY AppendProperties
<1>2. DOMAIN q = 1..n /\ DOMAIN t = 1..(n + 1)
  BY <1>1
<1> HIDE DEF n, t
<1>3. n + 1 \notin Lives(q) /\ 1..(n + 1) = 1..n \cup {n + 1}
  BY <1>1, <1>2 DEF Lives
<1>4. Lives(t) = IF IsSize(m) THEN Lives(q) ELSE Lives(q) \cup {n + 1}
  <2>1. \A i : i \in Lives(t) <=> (i \in 1..n \/ i = n + 1) /\ ~IsSize(t[i])
    BY <1>2, <1>3 DEF Lives
  <2>2. \A i : i \in Lives(q) <=> i \in 1..n /\ ~IsSize(q[i])
    BY <1>2 DEF Lives
  <2>3. \A i \in 1..n : IsSize(t[i]) <=> IsSize(q[i])
    BY <1>1
  <2>4. IsSize(t[n + 1]) <=> IsSize(m)
    BY <1>1
  <2>5. \A i : i \in Lives(t) <=> i \in Lives(q) \/ (i = n + 1 /\ ~IsSize(m))
    BY <2>1, <2>2, <2>3, <2>4
  <2>6. QED
    BY <2>5
<1>5. IsFiniteSet(Lives(q))
  BY LivesFinite
<1>6. Cardinality(Lives(q) \cup {n + 1}) = Cardinality(Lives(q)) + 1
  BY <1>3, <1>5, FS_AddElement
<1>7. QED
  BY <1>4, <1>6 DEF t

\* A piece of a queue has no more of them.
LEMMA LivesPiece ==
    ASSUME NEW S, NEW q \in Seq(S), NEW t \in Seq(S), NEW n \in Nat,
           Len(t) + n <= Len(q), \A i \in 1..Len(t) : t[i] = q[n + i]
    PROVE  Cardinality(Lives(t)) <= Cardinality(Lives(q))
<1> DEFINE f == [i \in Lives(t) |-> n + i]
<1>1. Len(q) \in Nat /\ Len(t) \in Nat /\ DOMAIN q = 1..Len(q) /\ DOMAIN t = 1..Len(t)
  OBVIOUS
<1>2. ASSUME NEW i \in Lives(t) PROVE n + i \in Lives(q) /\ i \in Nat
  <2>1. i \in 1..Len(t) /\ ~IsSize(t[i]) /\ t[i] = q[n + i]
    BY <1>1 DEF Lives
  <2>2. n + i \in 1..Len(q)
    BY <1>1, <2>1
  <2>3. QED
    BY <1>1, <2>1, <2>2 DEF Lives
<1>3. f \in [Lives(t) -> Lives(q)]
  BY <1>2
<1>4. \A i, j \in Lives(t) : f[i] = f[j] => i = j
  BY <1>2
<1> HIDE DEF f
<1>5. f \in Injection(Lives(t), Lives(q))
  BY <1>3, <1>4 DEF Injection, IsInjective
<1>6. IsFiniteSet(Lives(q))
  BY LivesFinite
<1>7. QED
  BY <1>5, <1>6, FS_Injection

\* A subscriber is cut off before its queue grows beyond the limit.
StreamBounds ==
    /\ produced <= MaxOutput
    /\ Cardinality(Lives(queue)) <= QueueLimit
    /\ written \in 0..Limit

\* An empty queue has none.
LEMMA LivesNone == Cardinality(Lives(<<>>)) = 0
<1>1. Lives(<<>>) = {}
  BY DEF Lives
<1>2. QED
  BY <1>1, FS_EmptySet

LEMMA BoundsStart == StreamInit => StreamBounds
  BY LivesNone, StreamAssumption DEF StreamInit, StreamBounds, StreamAssumption

\* enqueueEvent keeps the limit.
LEMMA EnqueueBounds ==
    ASSUME StreamKnown, StreamBounds, NEW event \in QueueMessage, Enqueue(event)
    PROVE  Cardinality(Lives(queue')) <= QueueLimit
<1>1. queue \in Seq(QueueMessage) /\ QueueLimit \in Nat
  BY StreamAssumption DEF StreamKnown, StreamTyped, StreamAssumption
<1>2. Cardinality(Lives(queue)) \in Nat /\ Cardinality(Lives(queue)) <= QueueLimit
  BY <1>1, LivesFinite DEF StreamBounds
<1>3. CASE UNCHANGED queue
  BY <1>2, <1>3
<1>4. CASE IsSize(event) /\ queue' = (IF queue # <<>> /\ IsSize(Last(queue))
                        THEN Append(Front(queue), event) ELSE Append(queue, event))
  <2>1. CASE queue # <<>> /\ IsSize(Last(queue))
    <3>1. /\ Front(queue) \in Seq(QueueMessage) /\ Len(Front(queue)) = Len(queue) - 1
          /\ \A i \in 1..(Len(queue) - 1) : Front(queue)[i] = queue[i]
      <4>1. \A i \in 1..(Len(queue) - 1) : queue[i] \in QueueMessage
        BY <1>1
      <4>2. 1 \in Int /\ Len(queue) - 1 \in Int /\ Len(queue) \in Nat /\ Len(queue) >= 1
        BY <1>1, <2>1
      <4> DEFINE n == Len(queue) - 1
                 t == SubSeq(queue, 1, n)
      <4>3. /\ t \in Seq(QueueMessage) /\ Len(t) = (IF 1 <= n THEN n - 1 + 1 ELSE 0)
            /\ \A i \in 1..(n - 1 + 1) : t[i] = queue[1 + i - 1]
        BY <4>1, <4>2, SubSeqProperties
      <4>4. Front(queue) = t
        BY DEF Front
      <4> HIDE DEF t
      <4>5. n - 1 + 1 = n /\ n \in Nat /\ \A i \in Nat : 1 + i - 1 = i
        BY <4>2
      <4> HIDE DEF n
      <4>6. Len(t) = n
        BY <4>3, <4>5
      <4>7. \A i \in 1..n : t[i] = queue[i]
        BY <4>3, <4>5
      <4>8. QED
        BY <4>3, <4>4, <4>6, <4>7 DEF n
    <3>2. Cardinality(Lives(Front(queue))) <= Cardinality(Lives(queue))
      <4>1. Len(Front(queue)) + 0 <= Len(queue) /\ 0 \in Nat
            /\ \A i \in 1..Len(Front(queue)) : Front(queue)[i] = queue[0 + i]
        BY <1>1, <3>1
      <4>2. QED
        BY <1>1, <3>1, <4>1, LivesPiece
    <3>3. Cardinality(Lives(queue')) = Cardinality(Lives(Front(queue)))
      BY <1>4, <2>1, <3>1, LivesAppend
    <3>4. Cardinality(Lives(Front(queue))) \in Nat
      BY <3>1, LivesFinite
    <3>5. QED
      BY <1>1, <1>2, <3>2, <3>3, <3>4
  <2>2. CASE ~(queue # <<>> /\ IsSize(Last(queue)))
    <3>1. queue' = Append(queue, event)
      BY <1>4, <2>2
    <3>2. QED
      BY <1>1, <1>2, <1>4, <3>1, LivesAppend
  <2>3. QED
    BY <2>1, <2>2
<1>5. CASE ~IsSize(event) /\ Queued < QueueLimit /\ queue' = Append(queue, event)
  <2>1. Cardinality(Lives(queue)) < QueueLimit
    BY <1>5 DEF Queued, Lives
  <2>2. Cardinality(Lives(queue')) = Cardinality(Lives(queue)) + 1
    BY <1>1, <1>5, LivesAppend
  <2>3. QED
    BY <1>1, <1>2, <2>1, <2>2
<1>6. CASE queue' = <<>>
  BY <1>1, <1>6, LivesNone
<1>7. QED
  BY <1>3, <1>4, <1>5, <1>6 DEF Enqueue

\* WriteFrame takes from the queue.
LEMMA WriteBounds ==
    ASSUME StreamKnown, StreamBounds, WriteFrame
    PROVE  Cardinality(Lives(queue')) <= QueueLimit
<1>1. queue \in Seq(QueueMessage) /\ QueueLimit \in Nat
  BY StreamAssumption DEF StreamKnown, StreamTyped, StreamAssumption
<1>2. Cardinality(Lives(queue)) \in Nat /\ Cardinality(Lives(queue)) <= QueueLimit
  BY <1>1, LivesFinite DEF StreamBounds
<1>3. \/ UNCHANGED queue
      \/ queue # <<>> /\ queue' = Tail(queue)
      \/ \E n \in 1..FrameLimit : n <= Len(queue) /\ queue' = SubSeq(queue, n + 1, Len(queue))
  BY Zenon DEF WriteFrame
<1>4. CASE UNCHANGED queue
  BY <1>2, <1>4
<1>5. CASE queue # <<>> /\ queue' = Tail(queue)
  <2>1. Tail(queue) \in Seq(QueueMessage) /\ Len(Tail(queue)) = Len(queue) - 1
        /\ \A i \in 1..Len(Tail(queue)) : Tail(queue)[i] = queue[i + 1]
    BY <1>1, <1>5, HeadTailProperties
  <2>2. Len(Tail(queue)) + 1 <= Len(queue) /\ 1 \in Nat
        /\ \A i \in 1..Len(Tail(queue)) : Tail(queue)[i] = queue[1 + i]
    <3>1. Len(queue) \in Nat
      BY <1>1
    <3>2. \A i \in Nat : 1 + i = i + 1
      OBVIOUS
    <3>3. QED
      BY <2>1, <3>1, <3>2
  <2>3. Cardinality(Lives(Tail(queue))) <= Cardinality(Lives(queue))
    BY <1>1, <2>1, <2>2, LivesPiece
  <2>4. Cardinality(Lives(Tail(queue))) \in Nat
    BY <2>1, LivesFinite
  <2>5. QED
    BY <1>1, <1>2, <1>5, <2>3, <2>4
<1>6. CASE \E n \in 1..FrameLimit : n <= Len(queue) /\ queue' = SubSeq(queue, n + 1, Len(queue))
  <2>1. PICK n \in 1..FrameLimit : n <= Len(queue) /\ queue' = SubSeq(queue, n + 1, Len(queue))
    BY <1>6
  <2> DEFINE l == Len(queue)
             t == SubSeq(queue, n + 1, l)
  <2>2. l \in Nat /\ n \in Nat /\ n >= 1 /\ n <= l
    BY <1>1, <2>1, Frame
  <2>3. t \in Seq(QueueMessage) /\ Len(t) = l - n /\ \A i \in 1..(l - n) : t[i] = queue[n + i]
    <3>1. \A i \in (n + 1)..l : queue[i] \in QueueMessage
      BY <1>1, <2>2
    <3>2. n + 1 \in Int /\ l \in Int
      BY <2>2
    <3>3. /\ t \in Seq(QueueMessage) /\ Len(t) = (IF n + 1 <= l THEN l - (n + 1) + 1 ELSE 0)
          /\ \A i \in 1..(l - (n + 1) + 1) : t[i] = queue[(n + 1) + i - 1]
      BY <3>1, <3>2, SubSeqProperties
    <3> HIDE DEF t, l
    <3>4. l - (n + 1) + 1 = l - n /\ \A i \in Nat : (n + 1) + i - 1 = n + i
      BY <2>2
    <3>5. Len(t) = l - n
      BY <2>2, <3>3
    <3>6. QED
      BY <3>3, <3>4, <3>5
  <2>4. Cardinality(Lives(t)) <= Cardinality(Lives(queue))
    <3>1. Len(t) + n <= Len(queue) /\ \A i \in 1..Len(t) : t[i] = queue[n + i]
      <4> HIDE DEF t
      <4>1. QED
        BY <2>2, <2>3
    <3> HIDE DEF t, l
    <3>2. QED
      BY <1>1, <2>2, <2>3, <3>1, LivesPiece
  <2>5. Cardinality(Lives(t)) \in Nat
    BY <2>3, LivesFinite
  <2> HIDE DEF t, l
  <2>6. queue' = t
    BY <2>1 DEF t, l
  <2>7. QED
    BY <1>1, <1>2, <2>4, <2>5, <2>6
<1>7. QED
  BY <1>3, <1>4, <1>5, <1>6

-----------------------------------------------------------------------------
\* The recursive function of Writes: what is measured after each piece.
IsMeasuring(f, pieces, history) ==
    f = [i \in 0..Len(pieces) |->
             IF i = 0 THEN written ELSE Count(f[i - 1], pieces[i], history).written]

\* A measure starts over beyond its limit.
LEMMA CountMeasures ==
    ASSUME NEW total \in Nat, NEW data \in Seq(Nat), NEW history
    PROVE  Count(total, data, history).written \in 0..Limit
<1>1. Limit \in Nat /\ Len(data) \in Nat
  BY StreamAssumption DEF StreamAssumption
<1>2. Count(total, data, history).written =
          IF total + Len(data) > Limit THEN 0 ELSE total + Len(data)
  BY DEF Count
<1>3. QED
  BY <1>1, <1>2

\* A write has two pieces at most: what was batched and what came.
Pieces(p) == p \in Seq(Seq(Nat)) /\ Len(p) \in 0..2

LEMMA MeasuringExists ==
    ASSUME NEW pieces, Pieces(pieces), NEW history
    PROVE  \E f : IsMeasuring(f, pieces, history)
<1> DEFINE n == Len(pieces)
           one == Count(written, pieces[1], history).written
           two == Count(one, pieces[2], history).written
           f == [i \in 0..n |-> IF i = 0 THEN written ELSE IF i = 1 THEN one ELSE two]
<1>1. n \in 0..2
  BY DEF Pieces
<1> HIDE DEF n
<1>2. ASSUME NEW i \in 0..n
      PROVE  f[i] = IF i = 0 THEN written ELSE Count(f[i - 1], pieces[i], history).written
  <2>1. CASE i = 0
    BY <2>1
  <2>2. CASE i = 1
    <3>1. f[0] = written /\ f[1] = one
      BY <1>1, <2>2
    <3>2. QED
      BY <2>2, <3>1
  <2>3. CASE i = 2
    <3>1. f[1] = one /\ f[2] = two
      BY <1>1, <2>3
    <3>2. QED
      BY <2>3, <3>1
  <2>4. i = 0 \/ i = 1 \/ i = 2
    BY <1>1
  <2>5. QED
    BY <2>1, <2>2, <2>3, <2>4
<1>3. f = [i \in 0..n |-> f[i]]
  OBVIOUS
<1> HIDE DEF f
<1>4. [i \in 0..n |-> f[i]]
          = [i \in 0..n |-> IF i = 0 THEN written
                             ELSE Count(f[i - 1], pieces[i], history).written]
  BY <1>2, Zenon
<1>5. QED
  BY <1>3, <1>4 DEF IsMeasuring, n

\* However a write is cut, the measure stays within its limit.
LEMMA MeasureBounds ==
    ASSUME NEW pieces, Pieces(pieces), NEW history, NEW f, IsMeasuring(f, pieces, history),
           written \in 0..Limit
    PROVE  f[Len(pieces)] \in 0..Limit
<1> DEFINE n == Len(pieces)
<1>1. n \in 0..2 /\ \A i \in 1..n : pieces[i] \in Seq(Nat)
  <2> DEFINE S == Seq(Nat)
  <2>1. pieces \in Seq(S) /\ n \in 0..2
    BY DEF Pieces
  <2> HIDE DEF S
  <2>2. \A i \in 1..Len(pieces) : pieces[i] \in S
    BY <2>1
  <2>3. QED
    BY <2>1, <2>2 DEF S
<1>2. \A i \in 0..n : f[i] = IF i = 0 THEN written
                              ELSE Count(f[i - 1], pieces[i], history).written
  BY DEF IsMeasuring
<1>3. Limit \in Nat
  BY StreamAssumption DEF StreamAssumption
<1> HIDE DEF n
<1>4. f[0] \in 0..Limit
  BY <1>1, <1>2
<1>5. n >= 1 => f[1] \in 0..Limit
  <2>1. SUFFICES ASSUME n >= 1 PROVE f[1] \in 0..Limit
    OBVIOUS
  <2>2. f[1] = Count(f[0], pieces[1], history).written /\ pieces[1] \in Seq(Nat)
    BY <1>1, <1>2, <2>1
  <2>3. f[0] \in Nat
    BY <1>3, <1>4
  <2>4. QED
    BY <2>2, <2>3, CountMeasures
<1>6. n = 2 => f[2] \in 0..Limit
  <2>1. SUFFICES ASSUME n = 2 PROVE f[2] \in 0..Limit
    OBVIOUS
  <2>2. f[2] = Count(f[1], pieces[2], history).written /\ pieces[2] \in Seq(Nat)
    BY <1>1, <1>2, <2>1
  <2>3. f[1] \in Nat
    BY <1>3, <1>5, <2>1
  <2>4. QED
    BY <2>2, <2>3, CountMeasures
<1>7. n = 0 \/ n = 1 \/ n = 2
  BY <1>1
<1>8. f[n] \in 0..Limit
  BY <1>4, <1>5, <1>6, <1>7
<1>9. QED
  BY <1>8 DEF n

\* So it does when something is written.
LEMMA WritesMeasure ==
    ASSUME NEW pieces, Pieces(pieces), NEW history, Writes(pieces, history),
           written \in 0..Limit
    PROVE  written' \in 0..Limit
<1> DEFINE m == CHOOSE f : f = [i \in 0..Len(pieces) |->
                     IF i = 0 THEN written ELSE Count(f[i - 1], pieces[i], history).written]
<1>1. written' = m[Len(pieces)]
  BY Zenon DEF Writes
<1>2. PICK f : IsMeasuring(f, pieces, history)
  BY MeasuringExists
<1>3. IsMeasuring(m, pieces, history)
  BY <1>2 DEF IsMeasuring
<1> HIDE DEF m
<1>4. QED
  BY <1>1, <1>3, MeasureBounds

\* What is flushed, and what is heard.
LEMMA FlushedPieces ==
    ASSUME batch \in Seq(Nat)
    PROVE  /\ Pieces(Flushed)
           /\ \A d \in Seq(Nat) : Pieces(<<d>>) /\ Pieces(Flushed \o <<d>>)
<1>1. CASE batch = <<>>
  BY <1>1 DEF Flushed, Pieces
<1>2. CASE batch # <<>>
  <2>1. Flushed = <<batch>>
    BY <1>2 DEF Flushed
  <2>2. ASSUME NEW d \in Seq(Nat) PROVE Pieces(<<batch>> \o <<d>>)
    <3> DEFINE S == Seq(Nat)
               u == <<batch>>
               v == <<d>>
    <3>1. u \in Seq(S) /\ v \in Seq(S) /\ Len(u) = 1 /\ Len(v) = 1
      OBVIOUS
    <3> HIDE DEF S, u, v
    <3>2. u \o v \in Seq(S) /\ Len(u \o v) = Len(u) + Len(v)
      BY <3>1, ConcatProperties
    <3>3. u \o v \in Seq(S) /\ Len(u \o v) \in 0..2
      BY <3>1, <3>2
    <3>4. QED
      BY <3>3 DEF Pieces, S, u, v
  <2>3. QED
    BY <2>1, <2>2 DEF Pieces
<1>3. QED
  BY <1>1, <1>2

LEMMA HeardData ==
    ASSUME StreamKnown, down # <<>>, Head(down).type \in {"history", "output"}
    PROVE  Head(down).data \in Seq(Nat)
<1>1. Head(down) \in Message
  BY Hears
<1>2. QED
  BY <1>1 DEF Message

LEMMA WrittenStep ==
    ASSUME StreamKnown, StreamBounds, [StreamNext]_streamVars
    PROVE  written' \in 0..Limit
<1> USE DEF process, server, replay, output
<1>1. written \in 0..Limit /\ batch \in Seq(Nat) /\ Limit \in Nat
  BY StreamAssumption DEF StreamBounds, StreamKnown, StreamTyped, StreamAssumption
<1>2. CASE FlushTimer \/ UserTypes \/ HearExit
  <2>1. Writes(Flushed, FALSE)
    BY <1>2, Zenon DEF FlushTimer, UserTypes, HearExit, Flush
  <2>2. QED
    BY <1>1, <2>1, FlushedPieces, WritesMeasure
<1>3. CASE HearHistory
  <2>1. down # <<>> /\ Head(down).type = "history" /\ Writes(<<Head(down).data>>, TRUE)
    BY <1>3, Zenon DEF HearHistory, Hear, Heard
  <2>2. Pieces(<<Head(down).data>>)
    BY <1>1, <2>1, HeardData, FlushedPieces
  <2>3. QED
    BY <1>1, <2>1, <2>2, WritesMeasure
<1>4. CASE HearOutput
  <2>1. /\ down # <<>> /\ Head(down).type = "output"
        /\ written' = written \/ Writes(Flushed \o <<Head(down).data>>, FALSE)
    BY <1>4, Zenon DEF HearOutput, Hear, Heard
  <2>2. Pieces(Flushed \o <<Head(down).data>>)
    BY <1>1, <2>1, HeardData, FlushedPieces
  <2>3. CASE Writes(Flushed \o <<Head(down).data>>, FALSE)
    BY <1>1, <2>2, <2>3, WritesMeasure
  <2>4. QED
    BY <1>1, <2>1, <2>3
<1>5. CASE Parse \/ HearSize
  <2>1. written' = written \/ written' = Count(written, batch, FALSE).written
    BY <1>5, Zenon DEF Parse, HearSize
  <2>2. Count(written, batch, FALSE).written \in 0..Limit
    <3>1. written \in Nat
      BY <1>1
    <3>2. QED
      BY <1>1, <3>1, CountMeasures
  <2>3. QED
    BY <1>1, <2>1, <2>2
<1>6. CASE Reconnect
  <2>1. written' = 0
    BY <1>6, Zenon DEF Reconnect
  <2>2. QED
    BY <1>1, <2>1
<1>7. CASE \/ ProcessWrites \/ ProcessEnds \/ SizeChanges \/ LinkBreaks \/ Accept
           \/ ServerHears \/ InteractiveTimer \/ HearHistoryEnd \/ HearClose
           \/ UNCHANGED streamVars
  <2>1. written' = written
    BY <1>7, Zenon DEF ProcessWrites, ProcessEnds, SizeChanges, LinkBreaks, Accept,
        ServerHears, InteractiveTimer, HearHistoryEnd, HearClose, streamVars
  <2>2. QED
    BY <1>1, <2>1
<1>8. CASE WriteFrame
  <2>1. written' = written
    BY <1>8, Zenon DEF WriteFrame
  <2>2. QED
    BY <1>1, <2>1
<1>9. QED
  BY <1>2, <1>3, <1>4, <1>5, <1>6, <1>7, <1>8, Zenon DEF StreamNext, HearFrame

LEMMA StreamBoundsStep ==
    ASSUME StreamKnown, StreamBounds, [StreamNext]_streamVars
    PROVE  StreamBounds'
<1> USE DEF process, server, replay, output
<1>1. written' \in 0..Limit
  BY WrittenStep
<1>2. produced' <= MaxOutput
  <2>1. CASE ProcessWrites
    <3>1. produced < MaxOutput /\ produced' = produced + 1
      BY <2>1 DEF ProcessWrites
    <3>2. produced \in Nat /\ MaxOutput \in Nat
      BY StreamAssumption DEF StreamKnown, StreamTyped, StreamAssumption
    <3>3. QED
      BY <3>1, <3>2
  <2>2. CASE ~ProcessWrites
    <3>1. produced' = produced
      BY <2>2, Zenon DEF StreamNext, HearFrame, streamVars, ProcessEnds, SizeChanges,
          LinkBreaks, Accept, WriteFrame, ServerHears, FlushTimer, InteractiveTimer,
          UserTypes, Parse, HearHistory, HearHistoryEnd, HearOutput, HearSize,
          HearExit, HearClose, Reconnect
    <3>2. QED
      BY <3>1 DEF StreamBounds
  <2>3. QED
    BY <2>1, <2>2
<1>3. Cardinality(Lives(queue')) <= QueueLimit
  <2>1. CASE ProcessWrites
    <3>1. produced + 1 \in Nat /\ Enqueue(Output(<<produced + 1>>))
      BY <2>1 DEF ProcessWrites, StreamKnown, StreamTyped
    <3>2. Output(<<produced + 1>>) \in QueueMessage
      BY <3>1 DEF Output, QueueMessage
    <3>3. QED
      BY <3>1, <3>2, EnqueueBounds
  <2>2. CASE SizeChanges
    <3>1. produced \in Nat /\ Enqueue(Size(produced))
      BY <2>2 DEF SizeChanges, StreamKnown, StreamTyped
    <3>2. Size(produced) \in QueueMessage
      BY <3>1 DEF Size, QueueMessage
    <3>3. QED
      BY <3>1, <3>2, EnqueueBounds
  <2>3. CASE WriteFrame
    BY <2>3, WriteBounds
  <2>4. CASE LinkBreaks \/ Accept
    <3>1. queue' = <<>>
      BY <2>4, Zenon DEF LinkBreaks, Accept
    <3>2. QED
      BY <3>1, LivesNone, StreamAssumption DEF StreamAssumption
  <2>5. CASE ~(ProcessWrites \/ SizeChanges \/ WriteFrame \/ LinkBreaks \/ Accept)
    <3>1. queue' = queue
      BY <2>5, Zenon DEF StreamNext, HearFrame, streamVars, ProcessEnds,
          ServerHears, FlushTimer, InteractiveTimer,
          UserTypes, Parse, HearHistory, HearHistoryEnd, HearOutput, HearSize,
          HearExit, HearClose, Reconnect
    <3>2. QED
      BY <3>1 DEF StreamBounds
  <2>6. QED
    BY <2>1, <2>2, <2>3, <2>4, <2>5
<1>4. QED
  BY <1>1, <1>2, <1>3 DEF StreamBounds

\* Together they are the types of the stream.
LEMMA StreamIsTyped == StreamKnown /\ StreamFlags /\ StreamBounds => StreamTypeOK
<1> SUFFICES ASSUME StreamKnown, StreamFlags, StreamBounds PROVE StreamTypeOK
  OBVIOUS
<1>1. produced \in 0..MaxOutput
  BY StreamAssumption DEF StreamKnown, StreamTyped, StreamBounds, StreamAssumption
<1>2. Queued <= QueueLimit
  BY DEF StreamBounds, Queued, Lives
<1>3. written <= Limit
  BY StreamAssumption DEF StreamBounds, StreamAssumption
<1>4. {ended, serving, gatePaused, replaying, streamComplete, interactive, paused}
          \subseteq BOOLEAN
  BY Zenon DEF StreamFlags, StreamKnown, StreamTyped
<1>5. QED
  BY <1>1, <1>2, <1>3, <1>4 DEF StreamTypeOK, StreamKnown, StreamTyped

-----------------------------------------------------------------------------
(* What xterm parses, and what it answers. *)

\* A queue takes the output forward.
LEMMA LinksForward ==
    ASSUME NEW s, Len(s) \in Nat, NEW a \in Nat, NEW b \in Nat, Links(s, a, b)
    PROVE  a <= b
<1> DEFINE n == Len(s)
<1>1. n \in Nat
  OBVIOUS
<1>2. PICK p \in [0..n -> Nat] :
        p[0] = a /\ p[n] = b /\ \A i \in 1..n : Moves(s[i], p[i - 1], p[i])
  BY DEF Links
<1> HIDE DEF n
<1> DEFINE T == {k \in Nat : k <= n => a <= p[k]}
<1>3. 0 \in T
  BY <1>2
<1>4. ASSUME NEW k \in T PROVE k + 1 \in T
  <2>1. SUFFICES ASSUME k + 1 <= n PROVE a <= p[k + 1]
    OBVIOUS
  <2>2. k \in 0..n /\ k + 1 \in 1..n /\ k + 1 \in 0..n /\ (k + 1) - 1 = k
    BY <1>1, <2>1
  <2>3. p[k] \in Nat /\ p[k + 1] \in Nat /\ a <= p[k] /\ Moves(s[k + 1], p[k], p[k + 1])
    BY <1>1, <1>2, <2>1, <2>2
  <2>4. p[k] <= p[k + 1]
    <3>1. CASE p[k + 1] = p[k]
      BY <2>3, <3>1
    <3>2. CASE Run(s[k + 1].data, p[k], p[k + 1])
      BY <2>3, <3>2, RunIs
    <3>3. QED
      BY <2>3, <3>1, <3>2 DEF Moves
  <2>5. QED
    BY <2>3, <2>4
<1>5. T = Nat
  <2> HIDE DEF T
  <2>1. T \in SUBSET Nat
    BY DEF T
  <2>2. QED
    BY <1>3, <1>4, <2>1, NatInduction1
<1>6. n \in T
  BY <1>1, <1>5
<1>7. QED
  BY <1>1, <1>2, <1>6

\* Output between two chunks.
Span(d, a, b) == \A i \in 1..Len(d) : a <= d[i] /\ d[i] <= b

\* A run is.
LEMMA RunSpans ==
    ASSUME NEW d, NEW a \in Nat, NEW b \in Nat, Run(d, a, b) PROVE Span(d, a + 1, b)
  BY DEF Run, Span

\* Nothing is, and what is stays when more is written.
LEMMA SpanGrows ==
    ASSUME NEW d \in Seq(Nat), NEW a \in Nat, NEW b \in Nat, NEW e \in Nat, Span(d, a, b), b <= e
    PROVE  Span(d, a, e)
<1>1. ASSUME NEW i \in 1..Len(d) PROVE a <= d[i] /\ d[i] <= e
  <2>1. d[i] \in Nat /\ a <= d[i] /\ d[i] <= b
    BY DEF Span
  <2>2. QED
    BY <2>1
<1>2. QED
  BY <1>1 DEF Span

\* So are two pieces of it.
LEMMA SpanConcat ==
    ASSUME NEW d \in Seq(Nat), NEW e \in Seq(Nat), NEW a, NEW b, Span(d, a, b), Span(e, a, b)
    PROVE  Span(d \o e, a, b)
<1> DEFINE n == Len(d)
           m == Len(e)
           t == d \o e
<1>1. n \in Nat /\ m \in Nat /\ Len(t) = n + m
      /\ \A i \in 1..(n + m) : t[i] = IF i <= n THEN d[i] ELSE e[i - n]
  BY ConcatProperties
<1>2. (\A i \in 1..n : a <= d[i] /\ d[i] <= b) /\ (\A i \in 1..m : a <= e[i] /\ e[i] <= b)
  BY DEF Span
<1> HIDE DEF n, m, t
<1>3. ASSUME NEW i \in 1..(n + m) PROVE a <= t[i] /\ t[i] <= b
  <2>1. CASE i <= n
    <3>1. i \in 1..n
      BY <1>1, <2>1
    <3>2. QED
      BY <1>1, <1>2, <2>1, <3>1
  <2>2. CASE ~(i <= n)
    <3>1. i - n \in 1..m
      BY <1>1, <2>2
    <3>2. t[i] = e[i - n]
      BY <1>1, <2>2
    <3>3. QED
      BY <1>2, <3>1, <3>2
  <2>3. QED
    BY <2>1, <2>2
<1>4. QED
  BY <1>1, <1>3 DEF Span, t

-----------------------------------------------------------------------------
\* The live output on its way.
DownLive(d, a, b) == \A i \in 1..Len(d) : d[i].type = "output" => Span(d[i].data, a, b)

\* Output is live from the chunk on at which the server subscribed; before it
\* there is only history.
ServerLive ==
    /\ subscribed \in Nat /\ subscribed <= produced + 1
    /\ serving => \E m \in Nat : subscribed <= m + 1 /\ Links(queue, m, produced)
    /\ DownLive(down, subscribed, produced)

LEMMA ServerLiveStarts == StreamInit => ServerLive
  BY DEF StreamInit, ServerLive, DownLive

\* One more message.
LEMMA DownAppend ==
    ASSUME NEW d \in Seq(Message), NEW m \in Message, NEW a, NEW b, DownLive(d, a, b),
           m.type = "output" => Span(m.data, a, b)
    PROVE  DownLive(Append(d, m), a, b)
<1>1. Len(d) \in Nat /\ Len(Append(d, m)) = Len(d) + 1 /\ Append(d, m)[Len(d) + 1] = m
      /\ \A i \in 1..Len(d) : Append(d, m)[i] = d[i]
  BY AppendProperties
<1>2. 1..(Len(d) + 1) = 1..Len(d) \cup {Len(d) + 1}
  BY <1>1
<1>3. QED
  BY <1>1, <1>2 DEF DownLive

\* One less.
LEMMA DownTail ==
    ASSUME NEW d \in Seq(Message), d # <<>>, NEW a, NEW b, DownLive(d, a, b)
    PROVE  DownLive(Tail(d), a, b) /\ (Head(d).type = "output" => Span(Head(d).data, a, b))
<1> DEFINE n == Len(d)
           t == Tail(d)
<1>1. n \in Nat /\ n >= 1 /\ Len(t) = n - 1 /\ Head(d) = d[1] /\ \A i \in 1..(n - 1) : t[i] = d[i + 1]
  BY HeadTailProperties
<1>2. 1 \in 1..n /\ \A i \in 1..(n - 1) : i + 1 \in 1..n
  BY <1>1
<1> HIDE DEF t
<1>3. DownLive(t, a, b)
  BY <1>1, <1>2 DEF DownLive
<1>4. QED
  BY <1>1, <1>2, <1>3 DEF DownLive, t

\* When more is written, what is on its way is no less live.
LEMMA DownGrows ==
    ASSUME NEW d \in Seq(Message), NEW a \in Nat, NEW b \in Nat, NEW e \in Nat, b <= e,
           DownLive(d, a, b)
    PROVE  DownLive(d, a, e)
<1>1. ASSUME NEW i \in 1..Len(d), d[i].type = "output" PROVE Span(d[i].data, a, e)
  <2>1. d[i] \in Message
    OBVIOUS
  <2>2. d[i].data \in Seq(Nat) /\ Span(d[i].data, a, b)
    BY <1>1, <2>1 DEF Message, DownLive
  <2>3. QED
    BY <2>2, SpanGrows
<1>2. QED
  BY <1>1 DEF DownLive

\* enqueueEvent: what is queued follows what is, or the browser is cut off.
LEMMA LiveEnqueue ==
    ASSUME StreamKnown, ServerLive, NEW event \in QueueMessage, Enqueue(event),
           produced' \in Nat, produced <= produced', Moves(event, produced, produced'),
           UNCHANGED subscribed, subscribed <= produced' + 1
    PROVE  ServerLive'
<1>1. /\ queue \in Seq(QueueMessage) /\ down \in Seq(Message) /\ produced \in Nat
      /\ subscribed \in Nat /\ DownLive(down, subscribed, produced)
  BY DEF StreamKnown, StreamTyped, ServerLive
<1>2. subscribed' \in Nat /\ subscribed' <= produced' + 1
  BY <1>1
<1>3. DownLive(down, subscribed, produced')
  BY <1>1, DownGrows
<1>4. DownLive(down', subscribed', produced')
  <2>1. CASE down' = down
    BY <1>3, <2>1
  <2>2. CASE down' = Append(down, Bare("close"))
    <3>1. Bare("close") \in Message /\ Bare("close").type = "close"
      BY CloseIs
    <3>2. DownLive(Append(down, Bare("close")), subscribed, produced')
      BY <1>1, <1>3, <3>1, DownAppend
    <3>3. QED
      BY <2>2, <3>2
  <2>3. QED
    BY <2>1, <2>2 DEF Enqueue
<1>5. serving' => \E m \in Nat : subscribed' <= m + 1 /\ Links(queue', m, produced')
  <2>1. SUFFICES ASSUME serving' PROVE \E m \in Nat : subscribed <= m + 1 /\ Links(queue', m, produced')
    OBVIOUS
  <2>2. serving
    BY <2>1 DEF Enqueue
  <2>3. PICK m \in Nat : subscribed <= m + 1 /\ Links(queue, m, produced)
    BY <2>2 DEF ServerLive
  <2>4. CASE IsSize(event) /\ queue' = (IF queue # <<>> /\ IsSize(Last(queue))
                     THEN Append(Front(queue), event) ELSE Append(queue, event))
    BY <1>1, <2>3, <2>4, SizeQueued
  <2>5. CASE queue' = Append(queue, event)
    BY <1>1, <2>3, <2>5, LinksAppend
  <2>6. QED
    BY <2>1, <2>2, <2>4, <2>5 DEF Enqueue
<1>6. QED
  BY <1>2, <1>4, <1>5 DEF ServerLive

\* The server writes.
LEMMA LiveWrite == ASSUME StreamKnown, ServerLive, WriteFrame PROVE ServerLive'
<1>1. /\ queue \in Seq(QueueMessage) /\ lead \in Seq(LeadMessage) /\ down \in Seq(Message)
      /\ produced \in Nat
      /\ subscribed \in Nat /\ subscribed <= produced + 1 /\ DownLive(down, subscribed, produced)
  BY DEF StreamKnown, StreamTyped, ServerLive
<1>2. serving /\ UNCHANGED <<produced, subscribed>>
  BY DEF WriteFrame, process
<1>3. PICK m \in Nat : subscribed <= m + 1 /\ Links(queue, m, produced)
  BY <1>2 DEF ServerLive
<1>4. CASE lead # <<>> /\ down' = Append(down, Head(lead)) /\ UNCHANGED <<queue, serving>>
  <2>1. Head(lead) \in LeadMessage
    BY <1>1, <1>4, HeadTailProperties
  <2>2. Head(lead) \in Message /\ Head(lead).type # "output"
    BY <2>1, LeadTypes
  <2>3. DownLive(down', subscribed, produced)
    BY <1>1, <1>4, <2>2, DownAppend
  <2>4. QED
    BY <1>1, <1>2, <1>3, <1>4, <2>3 DEF ServerLive
<1>5. CASE queue # <<>> /\ IsSize(Head(queue)) /\ down' = Append(down, Head(queue))
           /\ queue' = Tail(queue) /\ UNCHANGED serving
  <2>1. Head(queue) \in QueueMessage
    BY <1>1, <1>5, HeadTailProperties
  <2>2. Head(queue) \in Message /\ Head(queue).type = "resize"
    BY <1>5, <2>1, QueueTypes
  <2>3. DownLive(down', subscribed, produced)
    BY <1>1, <1>5, <2>2, DownAppend
  <2>4. PICK c \in Nat : Moves(Head(queue), m, c) /\ Links(Tail(queue), c, produced)
    BY <1>1, <1>3, <1>5, LinksFirst
  <2>5. c = m
    BY <2>2, <2>4 DEF Moves
  <2>6. QED
    BY <1>1, <1>2, <1>3, <1>5, <2>3, <2>4, <2>5 DEF ServerLive
<1>6. CASE /\ \E n \in 1..FrameLimit :
                  /\ n <= Len(queue)
                  /\ \A i \in 1..n : ~IsSize(queue[i])
                  /\ down' = Append(down, Output(
                         FlattenSeq([i \in 1..n |-> queue[i].data])))
                  /\ queue' = SubSeq(queue, n + 1, Len(queue))
           /\ UNCHANGED serving
  <2>1. PICK n \in 1..FrameLimit :
                  /\ n <= Len(queue)
                  /\ \A i \in 1..n : ~IsSize(queue[i])
                  /\ down' = Append(down, Output(
                         FlattenSeq([i \in 1..n |-> queue[i].data])))
                  /\ queue' = SubSeq(queue, n + 1, Len(queue))
    BY <1>6, Zenon
  <2> DEFINE d == FlattenSeq([i \in 1..n |-> queue[i].data])
  <2>2. PICK c \in Nat : Run(d, m, c) /\ Links(SubSeq(queue, n + 1, Len(queue)), c, produced)
    BY <1>1, <1>3, <2>1, BatchRuns
  <2>3. down' = Append(down, Output(d)) /\ queue' = SubSeq(queue, n + 1, Len(queue))
    BY <2>1
  <2> HIDE DEF d
  <2>4. queue' \in Seq(QueueMessage)
    <3>1. StreamKnown'
      BY StepWrite
    <3>2. QED
      BY <3>1 DEF StreamKnown, StreamTyped
  <2>5. m <= c /\ c <= produced /\ d \in Seq(Nat)
    <3>1. Len(queue') \in Nat /\ Links(queue', c, produced)
      BY <2>2, <2>3, <2>4
    <3>2. c <= produced
      BY <1>1, <3>1, LinksForward
    <3>3. m <= c
      BY <2>2, RunIs
    <3>4. QED
      BY <2>2, <3>2, <3>3 DEF Run
  <2>6. Span(d, subscribed, produced)
    <3>1. \A i \in 1..Len(d) : d[i] \in Nat /\ m + 1 <= d[i] /\ d[i] <= c
      BY <2>2, <2>5, RunSpans DEF Span
    <3>2. QED
      BY <1>1, <1>3, <2>5, <3>1 DEF Span
  <2>7. Output(d) \in Message /\ Output(d).type = "output" /\ Output(d).data = d
    BY <2>5 DEF Output, Message
  <2>8. DownLive(down', subscribed, produced)
    BY <1>1, <2>3, <2>6, <2>7, DownAppend
  <2>9. subscribed <= c + 1
    BY <1>1, <1>3, <2>5
  <2>10. QED
    BY <1>1, <1>2, <2>2, <2>3, <2>8, <2>9 DEF ServerLive
<1>7. CASE down' = down \o <<Bare("exit"), Bare("close")>> /\ serving' = FALSE
  <2> DEFINE e == Bare("exit")
             c == Bare("close")
  <2>1. e \in Message /\ e.type = "exit" /\ c \in Message /\ c.type = "close"
    BY CloseIs
  <2>2. down' = down \o <<e, c>>
    BY <1>7
  <2> HIDE DEF e, c
  <2>3. down' = Append(Append(down, e), c) /\ Append(down, e) \in Seq(Message)
    BY <1>1, <2>1, <2>2
  <2>4. DownLive(Append(down, e), subscribed, produced)
    BY <1>1, <2>1, DownAppend
  <2>5. DownLive(Append(Append(down, e), c), subscribed, produced)
    BY <2>1, <2>3, <2>4, DownAppend
  <2>6. DownLive(down', subscribed, produced)
    BY <2>3, <2>5
  <2>7. QED
    BY <1>1, <1>2, <1>7, <2>6 DEF ServerLive
<1>8. QED
  BY <1>4, <1>5, <1>6, <1>7, Zenon DEF WriteFrame

\* Every step keeps it.
LEMMA ServerLiveStep ==
    ASSUME StreamKnown, ServerLive, [StreamNext]_streamVars PROVE ServerLive'
<1> USE DEF process, server
<1>1. /\ queue \in Seq(QueueMessage) /\ down \in Seq(Message) /\ produced \in Nat
      /\ subscribed \in Nat /\ subscribed <= produced + 1 /\ DownLive(down, subscribed, produced)
  BY DEF StreamKnown, StreamTyped, ServerLive
<1>2. CASE ProcessWrites
  <2> DEFINE e == Output(<<produced + 1>>)
  <2>1. produced' = produced + 1 /\ Enqueue(e) /\ UNCHANGED subscribed
    BY <1>2 DEF ProcessWrites
  <2>2. e \in QueueMessage /\ Moves(e, produced, produced')
    <3>1. <<produced + 1>> \in Seq(Nat) /\ Run(<<produced + 1>>, produced, produced + 1)
      BY <1>1 DEF Run
    <3>2. QED
      BY <2>1, <3>1 DEF QueueMessage, Moves, Output
  <2> HIDE DEF e
  <2>3. produced' \in Nat /\ produced <= produced' /\ subscribed <= produced' + 1
    BY <1>1, <2>1
  <2>4. QED
    BY <2>1, <2>2, <2>3, LiveEnqueue
<1>3. CASE SizeChanges
  <2> DEFINE e == Size(produced)
  <2>1. produced' = produced /\ Enqueue(e) /\ UNCHANGED subscribed
    BY <1>3 DEF SizeChanges
  <2>2. e \in QueueMessage /\ Moves(e, produced, produced')
    BY <1>1, <2>1 DEF QueueMessage, Moves, Size
  <2> HIDE DEF e
  <2>3. produced' \in Nat /\ produced <= produced' /\ subscribed <= produced' + 1
    BY <1>1, <2>1
  <2>4. QED
    BY <2>1, <2>2, <2>3, LiveEnqueue
<1>4. CASE Accept
  <2>1. down' = <<>> /\ queue' = <<>> /\ subscribed' = produced + 1 /\ produced' = produced
    BY <1>4 DEF Accept
  <2>2. Links(<<>>, produced, produced)
    BY <1>1, LinksNone
  <2>3. QED
    BY <1>1, <2>1, <2>2 DEF ServerLive, DownLive
<1>5. CASE WriteFrame
  BY <1>5, LiveWrite
<1>6. CASE LinkBreaks
  <2>1. serving' = FALSE /\ down' = <<Bare("close")>> /\ UNCHANGED <<produced, subscribed>>
    BY <1>6 DEF LinkBreaks
  <2>2. down'[1].type = "close" /\ Len(down') = 1
    BY <2>1 DEF Bare
  <2>3. DownLive(down', subscribed, produced)
    BY <2>2 DEF DownLive
  <2>4. QED
    BY <1>1, <2>1, <2>3 DEF ServerLive
<1>7. CASE HearFrame
  <2>1. /\ down # <<>> /\ down' = Tail(down)
        /\ UNCHANGED <<produced, subscribed, serving, queue>>
    BY <1>7, Zenon DEF HearFrame, HearHistory, HearHistoryEnd, HearOutput, HearSize, HearExit,
        HearClose, Hear, Heard
  <2>2. DownLive(down', subscribed, produced)
    BY <1>1, <2>1, DownTail
  <2>3. QED
    BY <1>1, <2>1, <2>2 DEF ServerLive
<1>8. CASE Reconnect
  <2>1. down' = <<>> /\ ~serving /\ UNCHANGED <<produced, subscribed, serving>>
    BY <1>8, Zenon DEF Reconnect, StreamKnown, StreamRoles
  <2>2. QED
    BY <1>1, <2>1 DEF ServerLive, DownLive
<1>9. CASE \/ ProcessEnds \/ ServerHears \/ FlushTimer \/ InteractiveTimer \/ UserTypes
           \/ Parse \/ UNCHANGED streamVars
  <2>1. UNCHANGED <<produced, subscribed, serving, queue, down>>
    BY <1>9, Zenon DEF ProcessEnds, ServerHears, FlushTimer, InteractiveTimer, UserTypes,
        Parse, streamVars
  <2>2. QED
    BY <2>1 DEF ServerLive
<1>10. QED
  BY <1>2, <1>3, <1>4, <1>5, <1>6, <1>7, <1>8, <1>9 DEF StreamNext

-----------------------------------------------------------------------------
\* What xterm was handed and has not parsed, of the history or live.
Piece == [data : Seq(Nat), history : BOOLEAN, tracked : BOOLEAN]

\* Some of it is of the history.
Replayed(s) == \E i \in 1..Len(s) : s[i].history

\* What is not is live.
PiecesLive(s, a, b) == \A i \in 1..Len(s) : ~s[i].history => Span(s[i].data, a, b)

\* What is batched is live, and while xterm has history left it is replaying.
ViewLive ==
    /\ Span(batch, subscribed, produced)
    /\ xterm \in Seq(Piece)
    /\ PiecesLive(xterm, subscribed, produced)
    /\ Replayed(xterm) => replaying

LEMMA ViewLiveStarts == StreamInit => ViewLive
<1> SUFFICES ASSUME StreamInit PROVE ViewLive
  OBVIOUS
<1>1. xterm = <<>> /\ batch = <<>>
  BY DEF StreamInit
<1>2. <<>> \in Seq(Piece)
  OBVIOUS
<1>3. QED
  BY <1>1, <1>2 DEF ViewLive, Span, PiecesLive, Replayed

\* Pieces are added to what xterm has, each with its data.
Adds(s, pieces, history, t) ==
    \E added \in Seq(Piece) :
        /\ t = s \o added /\ Len(added) = Len(pieces)
        /\ \A i \in 1..Len(pieces) : added[i].data = pieces[i] /\ added[i].history = history

\* Whether a write is tracked is a matter of its measure.
LEMMA Tracks ==
    ASSUME NEW total, NEW data, NEW history \in BOOLEAN
    PROVE  Count(total, data, history).tracked \in BOOLEAN
<1>1. Count(total, data, history).tracked = (history \/ total + Len(data) > Limit)
  BY DEF Count
<1>2. \A r : (history \/ r) \in BOOLEAN
  BY Zenon
<1>3. QED
  BY <1>1, <1>2, Zenon

\* write adds its pieces.
LEMMA WritesAdd ==
    ASSUME NEW pieces, Pieces(pieces), NEW history \in BOOLEAN, Writes(pieces, history)
    PROVE  Adds(xterm, pieces, history, xterm')
<1> DEFINE m == CHOOSE f : f = [i \in 0..Len(pieces) |->
                     IF i = 0 THEN written ELSE Count(f[i - 1], pieces[i], history).written]
           E(i) == [data |-> pieces[i], history |-> history,
                    tracked |-> Count(m[i - 1], pieces[i], history).tracked]
           added == [i \in 1..Len(pieces) |-> E(i)]
<1>1. xterm' = xterm \o added
  BY Zenon DEF Writes
<1> HIDE DEF m
<1> DEFINE n == Len(pieces)
<1>2. n \in Nat /\ \A i \in 1..n : pieces[i] \in Seq(Nat)
  <2> DEFINE S == Seq(Nat)
  <2>1. pieces \in Seq(S) /\ n \in Nat
    BY DEF Pieces
  <2> HIDE DEF S
  <2>2. \A i \in 1..Len(pieces) : pieces[i] \in S
    BY <2>1
  <2>3. QED
    BY <2>1, <2>2 DEF S
<1>3. ASSUME NEW i \in 1..n
      PROVE  E(i) \in Piece /\ E(i).data = pieces[i] /\ E(i).history = history
  <2>1. Count(m[i - 1], pieces[i], history).tracked \in BOOLEAN
    BY Tracks
  <2>2. PICK r \in BOOLEAN : r = Count(m[i - 1], pieces[i], history).tracked
    BY <2>1
  <2>3. E(i) = [data |-> pieces[i], history |-> history, tracked |-> r]
    BY <2>2
  <2>4. pieces[i] \in Seq(Nat)
    BY <1>2
  <2> HIDE DEF E
  <2>5. QED
    BY <2>3, <2>4 DEF Piece
<1>4. added = [i \in 1..n |-> E(i)]
  OBVIOUS
<1> HIDE DEF E, added, n
<1>5. added \in Seq(Piece) /\ Len(added) = n /\ \A i \in 1..n : added[i] = E(i)
  BY <1>2, <1>3, <1>4
<1>6. /\ Len(added) = Len(pieces)
      /\ \A i \in 1..Len(pieces) : added[i].data = pieces[i] /\ added[i].history = history
  BY <1>3, <1>5 DEF n
<1>7. QED
  BY <1>1, <1>5, <1>6 DEF Adds

\* A size adds what is batched, as flush does.
LEMMA SizeAdds ==
    ASSUME NEW s, s \in Seq(Piece), batch \in Seq(Nat), NEW t,
           t = IF batch = <<>> THEN s
               ELSE Append(s, [data |-> batch, history |-> FALSE,
                               tracked |-> Count(written, batch, FALSE).tracked])
    PROVE  Adds(s, Flushed, FALSE, t)
<1>1. CASE batch = <<>>
  <2>1. Flushed = <<>> /\ t = s
    BY <1>1 DEF Flushed
  <2>2. s = s \o <<>> /\ <<>> \in Seq(Piece) /\ Len(<<>>) = 0
    OBVIOUS
  <2>3. Len(Flushed) = 0 /\ 1..Len(Flushed) = {}
    BY <2>1
  <2>4. QED
    BY <2>1, <2>2, <2>3 DEF Adds
<1>2. CASE batch # <<>>
  <2>1. Count(written, batch, FALSE).tracked \in BOOLEAN
    BY Tracks
  <2>2. PICK r \in BOOLEAN : r = Count(written, batch, FALSE).tracked
    BY <2>1
  <2> DEFINE e == [data |-> batch, history |-> FALSE, tracked |-> r]
  <2>3. t = Append(s, e)
    BY <1>2, <2>2
  <2>4. e \in Piece /\ e.data = batch /\ e.history = FALSE
    BY DEF Piece
  <2> HIDE DEF e
  <2>5. t = s \o <<e>> /\ <<e>> \in Seq(Piece) /\ Len(<<e>>) = 1 /\ <<e>>[1] = e
    <3>1. s \in Seq(Piece) /\ e \in Piece
      BY <2>4
    <3>2. Append(s, e) = s \o <<e>>
      BY <3>1, AppendIsConcat
    <3>3. t = s \o <<e>>
      BY <2>3, <3>2, Zenon
    <3>4. <<e>> \in Seq(Piece) /\ Len(<<e>>) = 1 /\ <<e>>[1] = e
      BY <3>1
    <3>5. QED
      BY <3>3, <3>4, Zenon
  <2>6. Len(Flushed) = 1 /\ Flushed[1] = batch
    BY <1>2 DEF Flushed
  <2>7. \A i \in 1..Len(Flushed) : <<e>>[i].data = Flushed[i] /\ <<e>>[i].history = FALSE
    BY <2>4, <2>5, <2>6
  <2>8. QED
    BY <2>5, <2>6, <2>7 DEF Adds
<1>3. QED
  BY <1>1, <1>2

\* What is added is live if it is not of the history, and of the history only if
\* the replay is on.
LEMMA AddsLive ==
    ASSUME NEW s \in Seq(Piece), NEW pieces, NEW history \in BOOLEAN, NEW t,
           Adds(s, pieces, history, t), NEW a, NEW b,
           PiecesLive(s, a, b),
           ~history => \A i \in 1..Len(pieces) : Span(pieces[i], a, b)
    PROVE  /\ t \in Seq(Piece) /\ PiecesLive(t, a, b)
           /\ Replayed(t) => Replayed(s) \/ history
<1>1. PICK added \in Seq(Piece) :
        /\ t = s \o added /\ Len(added) = Len(pieces)
        /\ \A i \in 1..Len(pieces) : added[i].data = pieces[i] /\ added[i].history = history
  BY DEF Adds
<1> DEFINE n == Len(s)
           m == Len(added)
<1>2. n \in Nat /\ m \in Nat /\ t \in Seq(Piece) /\ Len(t) = n + m
      /\ \A i \in 1..(n + m) : t[i] = IF i <= n THEN s[i] ELSE added[i - n]
  <2> DEFINE u == s \o added
  <2>1. /\ u \in Seq(Piece) /\ Len(u) = Len(s) + Len(added)
        /\ \A i \in 1..(Len(s) + Len(added)) :
               u[i] = IF i <= Len(s) THEN s[i] ELSE added[i - Len(s)]
    BY ConcatProperties
  <2>2. t = u
    BY <1>1
  <2> HIDE DEF u
  <2>3. Len(s) \in Nat /\ Len(added) \in Nat
    OBVIOUS
  <2>4. QED
    BY <2>1, <2>2, <2>3
<1>3. m = Len(pieces) /\ \A i \in 1..m : added[i].data = pieces[i] /\ added[i].history = history
  BY <1>1
<1> HIDE DEF n, m
<1>4. ASSUME NEW i \in 1..(n + m)
      PROVE  \/ i \in 1..n /\ t[i] = s[i]
             \/ i - n \in 1..m /\ t[i].data = pieces[i - n] /\ t[i].history = history
  <2>1. CASE i <= n
    BY <1>2, <2>1
  <2>2. CASE ~(i <= n)
    <3>1. i - n \in 1..m /\ t[i] = added[i - n]
      BY <1>2, <2>2
    <3>2. QED
      BY <1>3, <3>1
  <2>3. QED
    BY <2>1, <2>2
<1>5. \A i \in 1..n : ~s[i].history => Span(s[i].data, a, b)
  BY DEF PiecesLive, n
<1>6. PiecesLive(t, a, b)
  <2>1. SUFFICES ASSUME NEW i \in 1..(n + m), ~t[i].history PROVE Span(t[i].data, a, b)
    BY <1>2 DEF PiecesLive
  <2>2. QED
    BY <1>3, <1>4, <1>5, <2>1
<1>7. Replayed(t) => Replayed(s) \/ history
  BY <1>2, <1>4 DEF Replayed, n
<1>8. QED
  BY <1>2, <1>6, <1>7

\* One parsed.
LEMMA PiecesTail ==
    ASSUME NEW s \in Seq(Piece), s # <<>>, NEW a, NEW b, PiecesLive(s, a, b)
    PROVE  /\ Tail(s) \in Seq(Piece) /\ Head(s) \in Piece /\ PiecesLive(Tail(s), a, b)
           /\ ~Head(s).history => Span(Head(s).data, a, b)
           /\ Replayed(Tail(s)) => Replayed(s)
           /\ Head(s).history => Replayed(s)
<1> DEFINE n == Len(s)
           t == Tail(s)
<1>1. n \in Nat /\ n >= 1 /\ t \in Seq(Piece) /\ Len(t) = n - 1 /\ Head(s) = s[1]
      /\ s[1] \in Piece /\ \A i \in 1..(n - 1) : t[i] = s[i + 1]
  BY HeadTailProperties
<1>2. 1 \in 1..n /\ \A i \in 1..(n - 1) : i + 1 \in 1..n
  BY <1>1
<1> HIDE DEF t
<1>3. PiecesLive(t, a, b) /\ (Replayed(t) => Replayed(s))
  BY <1>1, <1>2 DEF PiecesLive, Replayed
<1>4. QED
  BY <1>1, <1>2, <1>3 DEF PiecesLive, Replayed, t

\* When more is written, they are no less live.
LEMMA PiecesGrow ==
    ASSUME NEW s \in Seq(Piece), NEW a \in Nat, NEW b \in Nat, NEW e \in Nat, b <= e,
           PiecesLive(s, a, b)
    PROVE  PiecesLive(s, a, e)
<1>1. ASSUME NEW i \in 1..Len(s), ~s[i].history PROVE Span(s[i].data, a, e)
  <2>1. s[i] \in Piece
    OBVIOUS
  <2>2. s[i].data \in Seq(Nat) /\ Span(s[i].data, a, b)
    BY <1>1, <2>1 DEF Piece, PiecesLive
  <2>3. QED
    BY <2>2, SpanGrows
<1>2. QED
  BY <1>1 DEF PiecesLive

\* The history that is pending is counted.
LEMMA ReplayedCounts ==
    ASSUME NEW s \in Seq(Piece), Replayed(s) PROVE PendingHistory(s) # 0
<1> DEFINE H == {i \in DOMAIN s : s[i].history}
<1>1. Len(s) \in Nat /\ DOMAIN s = 1..Len(s)
  OBVIOUS
<1>2. H \in SUBSET (1..Len(s)) /\ H # {}
  BY <1>1 DEF Replayed
<1>3. IsFiniteSet(1..Len(s))
  BY <1>1, FS_Interval
<1>4. IsFiniteSet(H)
  BY <1>2, <1>3, FS_Subset
<1>5. Cardinality(H) # 0
  BY <1>2, <1>4, FS_EmptySet
<1>6. QED
  BY <1>5 DEF PendingHistory

\* What is batched is live, and so is what is flushed with it.
LEMMA FlushedLive ==
    ASSUME ViewLive
    PROVE  /\ \A i \in 1..Len(Flushed) : Span(Flushed[i], subscribed, produced)
           /\ \A d : Span(d, subscribed, produced) =>
                  \A i \in 1..Len(Flushed \o <<d>>) :
                      Span((Flushed \o <<d>>)[i], subscribed, produced)
<1>1. CASE batch = <<>>
  <2>1. Flushed = <<>>
    BY <1>1 DEF Flushed
  <2>2. ASSUME NEW d PROVE Flushed \o <<d>> = <<d>> /\ Len(<<d>>) = 1 /\ <<d>>[1] = d
    BY <2>1
  <2>3. QED
    BY <2>1, <2>2
<1>2. CASE batch # <<>>
  <2>1. Flushed = <<batch>>
    BY <1>2 DEF Flushed
  <2>2. ASSUME NEW d
        PROVE  /\ Len(Flushed \o <<d>>) = 2 /\ (Flushed \o <<d>>)[1] = batch
               /\ (Flushed \o <<d>>)[2] = d
    BY <2>1
  <2>3. Len(Flushed) = 1 /\ Flushed[1] = batch /\ Span(batch, subscribed, produced)
    BY <2>1 DEF ViewLive
  <2>4. ASSUME NEW d, Span(d, subscribed, produced), NEW i \in 1..Len(Flushed \o <<d>>)
        PROVE  Span((Flushed \o <<d>>)[i], subscribed, produced)
    <3>1. /\ Len(Flushed \o <<d>>) = 2 /\ (Flushed \o <<d>>)[1] = batch
          /\ (Flushed \o <<d>>)[2] = d
      BY <2>2
    <3>2. i \in 1..2
      BY <2>4, <3>1
    <3>3. i = 1 \/ i = 2
      BY <3>2
    <3>4. CASE i = 1
      BY <2>3, <3>1, <3>4
    <3>5. CASE i = 2
      BY <2>4, <3>1, <3>5
    <3>6. QED
      BY <3>3, <3>4, <3>5
  <2>5. QED
    BY <2>3, <2>4
<1>3. QED
  BY <1>1, <1>2

\* A write of what is live, or of history while it is replayed.
LEMMA LiveAdds ==
    ASSUME ViewLive, NEW pieces, NEW history \in BOOLEAN, Adds(xterm, pieces, history, xterm'),
           ~history => \A i \in 1..Len(pieces) : Span(pieces[i], subscribed, produced),
           Replayed(xterm) => replaying' = replaying, history => replaying',
           batch' = <<>> \/ batch' = batch, UNCHANGED <<subscribed, produced>>
    PROVE  ViewLive'
<1>1. /\ xterm \in Seq(Piece) /\ PiecesLive(xterm, subscribed, produced)
      /\ Span(batch, subscribed, produced)
  BY DEF ViewLive
<1>2. /\ xterm' \in Seq(Piece) /\ PiecesLive(xterm', subscribed, produced)
      /\ Replayed(xterm') => Replayed(xterm) \/ history
  <2>1. /\ Adds(xterm, pieces, history, xterm')
        /\ ~history => \A i \in 1..Len(pieces) : Span(pieces[i], subscribed, produced)
    OBVIOUS
  <2>2. PICK t : t = xterm'
    OBVIOUS
  <2>3. Adds(xterm, pieces, history, t)
    BY <2>1, <2>2
  <2>4. /\ t \in Seq(Piece) /\ PiecesLive(t, subscribed, produced)
        /\ Replayed(t) => Replayed(xterm) \/ history
    <3>1. CASE history
      BY <1>1, <2>3, <3>1, AddsLive
    <3>2. CASE ~history
      BY <1>1, <2>1, <2>3, <3>2, AddsLive
    <3>3. QED
      BY <3>1, <3>2
  <2>5. QED
    BY <2>2, <2>4
<1>3. Span(batch', subscribed, produced)
  <2>1. Span(<<>>, subscribed, produced)
    BY DEF Span
  <2>2. QED
    BY <1>1, <2>1
<1>4. Replayed(xterm') => replaying'
  BY <1>2 DEF ViewLive
<1>5. QED
  BY <1>2, <1>3, <1>4 DEF ViewLive

\* Parsing takes the first piece; an answer flushes.
LEMMA LiveParse == ASSUME StreamKnown, ViewLive, Parse PROVE ViewLive'
<1>1. /\ xterm \in Seq(Piece) /\ PiecesLive(xterm, subscribed, produced)
      /\ Span(batch, subscribed, produced) /\ batch \in Seq(Nat) /\ xterm # <<>>
  BY Zenon DEF ViewLive, StreamKnown, StreamTyped, Parse
<1>2. /\ Tail(xterm) \in Seq(Piece) /\ PiecesLive(Tail(xterm), subscribed, produced)
      /\ Replayed(Tail(xterm)) => Replayed(xterm)
  BY <1>1, PiecesTail
<1>3. UNCHANGED <<subscribed, produced>> /\ (batch' = <<>> \/ batch' = batch)
  BY Zenon DEF Parse, process, server
<1>4. xterm' = Tail(xterm) \/ Adds(Tail(xterm), Flushed, FALSE, xterm')
  <2>1. \/ xterm' = Tail(xterm)
        \/ batch # <<>> /\ xterm' = Append(Tail(xterm),
                               [data |-> batch, history |-> FALSE,
                                tracked |-> Count(written, batch, FALSE).tracked])
    BY Zenon DEF Parse
  <2>2. CASE xterm' = Tail(xterm)
    BY <2>2
  <2>3. CASE batch # <<>> /\ xterm' = Append(Tail(xterm),
                               [data |-> batch, history |-> FALSE,
                                tracked |-> Count(written, batch, FALSE).tracked])
    <3>1. xterm' = IF batch = <<>> THEN Tail(xterm)
                   ELSE Append(Tail(xterm), [data |-> batch, history |-> FALSE,
                               tracked |-> Count(written, batch, FALSE).tracked])
      BY <2>3, Zenon
    <3>2. QED
      BY <1>1, <1>2, <3>1, SizeAdds
  <2>4. QED
    BY <2>1, <2>2, <2>3
<1>5. /\ xterm' \in Seq(Piece) /\ PiecesLive(xterm', subscribed, produced)
      /\ Replayed(xterm') => Replayed(Tail(xterm))
  <2>1. CASE xterm' = Tail(xterm)
    BY <1>2, <2>1
  <2>2. CASE Adds(Tail(xterm), Flushed, FALSE, xterm')
    <3>1. \A i \in 1..Len(Flushed) : Span(Flushed[i], subscribed, produced)
      BY FlushedLive
    <3>2. FALSE \in BOOLEAN
      OBVIOUS
    <3>3. QED
      BY <1>2, <2>2, <3>1, <3>2, AddsLive
  <2>3. QED
    BY <1>4, <2>1, <2>2
<1>6. Replayed(xterm') => replaying'
  <2>1. SUFFICES ASSUME Replayed(xterm') PROVE replaying'
    OBVIOUS
  <2>2. Replayed(Tail(xterm)) /\ replaying
    BY <1>2, <1>5, <2>1 DEF ViewLive
  <2>3. PendingHistory(Tail(xterm)) # 0
    BY <1>2, <2>2, ReplayedCounts
  <2>4. QED
    BY <2>2, <2>3, Zenon DEF Parse
<1>7. Span(batch', subscribed, produced)
  <2>1. Span(<<>>, subscribed, produced)
    BY DEF Span
  <2>2. QED
    BY <1>1, <1>3, <2>1
<1>8. QED
  BY <1>3, <1>5, <1>6, <1>7 DEF ViewLive

\* The data that is heard: live, if it is output.
LEMMA HeardLive ==
    ASSUME StreamKnown, ServerLive, down # <<>>, Head(down).type = "output"
    PROVE  Span(Head(down).data, subscribed, produced)
<1>1. down \in Seq(Message) /\ DownLive(down, subscribed, produced)
  BY DEF StreamKnown, StreamTyped, ServerLive
<1>2. QED
  BY <1>1, DownTail

\* Every step keeps it.
LEMMA ViewLiveStep ==
    ASSUME StreamKnown, ServerLive, ViewLive, [StreamNext]_streamVars PROVE ViewLive'
<1> USE DEF process, server, replay, output
<1>0. FALSE \in BOOLEAN /\ TRUE \in BOOLEAN
  OBVIOUS
<1>1. batch \in Seq(Nat) /\ xterm \in Seq(Piece)
  BY DEF StreamKnown, StreamTyped, ViewLive
<1>2. CASE ProcessWrites
  <2>1. produced' = produced + 1 /\ UNCHANGED <<subscribed, batch, xterm, replaying>>
    BY <1>2 DEF ProcessWrites
  <2>2. produced \in Nat /\ subscribed \in Nat
    BY DEF StreamKnown, StreamTyped, ServerLive
  <2>3. produced' \in Nat /\ produced <= produced'
    BY <2>1, <2>2
  <2>4. Span(batch, subscribed, produced') /\ PiecesLive(xterm, subscribed, produced')
    BY <1>1, <2>2, <2>3, SpanGrows, PiecesGrow DEF ViewLive
  <2>5. QED
    BY <2>1, <2>4 DEF ViewLive
<1>3. CASE Accept
  <2>1. batch = <<>> /\ xterm = <<>> /\ UNCHANGED <<batch, xterm>>
    BY <1>3, Zenon DEF Accept, StreamKnown, StreamRoles
  <2>2. batch' = <<>> /\ xterm' = <<>> /\ xterm' \in Seq(Piece)
    BY <2>1
  <2>3. Span(batch', subscribed', produced') /\ PiecesLive(xterm', subscribed', produced')
        /\ ~Replayed(xterm')
    BY <2>2 DEF Span, PiecesLive, Replayed
  <2>4. QED
    BY <2>2, <2>3 DEF ViewLive
<1>4. CASE Reconnect
  <2>2. batch' = <<>> /\ xterm' = <<>> /\ xterm' \in Seq(Piece)
    <3>1. batch' = <<>> /\ xterm' = <<>>
      BY <1>4, Zenon DEF Reconnect
    <3>2. QED
      BY <3>1
  <2>3. Span(batch', subscribed', produced') /\ PiecesLive(xterm', subscribed', produced')
        /\ ~Replayed(xterm')
    BY <2>2 DEF Span, PiecesLive, Replayed
  <2>4. QED
    BY <2>2, <2>3 DEF ViewLive
<1>5. CASE \/ ProcessEnds \/ SizeChanges \/ WriteFrame \/ ServerHears \/ LinkBreaks
           \/ InteractiveTimer \/ HearClose \/ UNCHANGED streamVars
  <2>1. UNCHANGED <<produced, subscribed, batch, xterm, replaying>>
    BY <1>5, Zenon DEF ProcessEnds, SizeChanges, WriteFrame, ServerHears, LinkBreaks,
        InteractiveTimer, HearClose, streamVars
  <2>2. QED
    BY <2>1 DEF ViewLive
<1>6. CASE FlushTimer \/ UserTypes \/ HearExit
  <2>1. /\ batch' = <<>> /\ Writes(Flushed, FALSE)
        /\ UNCHANGED <<produced, subscribed, replaying>>
    BY <1>6, Zenon DEF FlushTimer, UserTypes, HearExit, Flush
  <2>2. Adds(xterm, Flushed, FALSE, xterm')
    BY <1>0, <1>1, <2>1, FlushedPieces, WritesAdd
  <2>3. QED
    BY <1>0, <2>1, <2>2, FlushedLive, LiveAdds
<1>7. CASE Parse
  BY <1>7, LiveParse
<1>8. CASE HearHistory
  <2>1. /\ down # <<>> /\ Head(down).type = "history" /\ replaying' = TRUE
        /\ Writes(<<Head(down).data>>, TRUE)
        /\ UNCHANGED <<produced, subscribed, batch>>
    BY <1>8, Zenon DEF HearHistory, Hear, Heard
  <2>2. Pieces(<<Head(down).data>>)
    BY <1>1, <2>1, HeardData, FlushedPieces
  <2>3. Adds(xterm, <<Head(down).data>>, TRUE, xterm')
    BY <1>0, <2>1, <2>2, WritesAdd
  <2>4. Replayed(xterm) => replaying' = replaying
    BY <2>1, Zenon DEF ViewLive
  <2>5. QED
    BY <1>0, <2>1, <2>3, <2>4, LiveAdds
<1>9. CASE HearHistoryEnd
  <2>1. /\ UNCHANGED <<produced, subscribed, batch, xterm>>
        /\ replaying' = (replaying /\ PendingHistory(xterm) # 0)
    BY <1>9, Zenon DEF HearHistoryEnd
  <2>2. Replayed(xterm) => PendingHistory(xterm) # 0
    BY <1>1, ReplayedCounts
  <2>3. Replayed(xterm) => replaying'
    BY <2>1, <2>2, Zenon DEF ViewLive
  <2>4. QED
    BY <2>1, <2>3 DEF ViewLive
<1>10. CASE HearOutput
  <2>1. /\ down # <<>> /\ Head(down).type = "output"
        /\ \/ batch' = <<>> /\ Writes(Flushed \o <<Head(down).data>>, FALSE)
           \/ batch' = batch \o Head(down).data /\ UNCHANGED xterm
        /\ UNCHANGED <<produced, subscribed, replaying>>
    BY <1>10, Zenon DEF HearOutput, Hear, Heard
  <2>2. Span(Head(down).data, subscribed, produced) /\ Head(down).data \in Seq(Nat)
    BY <2>1, HeardLive, HeardData
  <2>3. CASE batch' = <<>> /\ Writes(Flushed \o <<Head(down).data>>, FALSE)
    <3>1. Adds(xterm, Flushed \o <<Head(down).data>>, FALSE, xterm')
      BY <1>0, <1>1, <2>2, <2>3, FlushedPieces, WritesAdd
    <3>2. \A i \in 1..Len(Flushed \o <<Head(down).data>>) :
              Span((Flushed \o <<Head(down).data>>)[i], subscribed, produced)
      BY <2>2, FlushedLive
    <3>3. QED
      BY <1>0, <2>1, <2>3, <3>1, <3>2, LiveAdds
  <2>4. CASE batch' = batch \o Head(down).data /\ UNCHANGED xterm
    <3>1. Span(batch', subscribed, produced)
      BY <1>1, <2>2, <2>4, SpanConcat DEF ViewLive
    <3>2. QED
      BY <2>1, <2>4, <3>1 DEF ViewLive
  <2>5. QED
    BY <2>1, <2>3, <2>4
<1>11. CASE HearSize
  <2>1. /\ batch' = <<>> /\ UNCHANGED <<produced, subscribed>>
        /\ replaying' = (replaying /\ ~(streamComplete /\ PendingHistory(xterm) = 0))
        /\ xterm' = IF Flushed = <<>> THEN xterm
                    ELSE Append(xterm, [data |-> batch, history |-> FALSE,
                               tracked |-> Count(written, batch, FALSE).tracked])
    BY <1>11, Zenon DEF HearSize
  <2>2. xterm' = IF batch = <<>> THEN xterm
                 ELSE Append(xterm, [data |-> batch, history |-> FALSE,
                               tracked |-> Count(written, batch, FALSE).tracked])
    <3>1. Flushed = <<>> <=> batch = <<>>
      BY DEF Flushed
    <3>2. QED
      BY <2>1, <3>1, Zenon
  <2>3. Adds(xterm, Flushed, FALSE, xterm')
    BY <1>1, <2>2, SizeAdds
  <2>4. Replayed(xterm) => PendingHistory(xterm) # 0
    BY <1>1, ReplayedCounts
  <2>5. Replayed(xterm) => replaying' /\ replaying
    BY <2>1, <2>4, Zenon DEF ViewLive
  <2>6. PiecesLive(xterm, subscribed, produced)
    BY DEF ViewLive
  <2>7. /\ xterm' \in Seq(Piece) /\ PiecesLive(xterm', subscribed, produced)
        /\ Replayed(xterm') => Replayed(xterm)
    BY <1>0, <1>1, <2>3, <2>6, FlushedLive, AddsLive
  <2>8. Span(batch', subscribed, produced)
    BY <2>1 DEF Span
  <2>9. QED
    BY <2>1, <2>5, <2>7, <2>8 DEF ViewLive
<1>12. QED
  BY <1>2, <1>3, <1>4, <1>5, <1>6, <1>7, <1>8, <1>9, <1>10, <1>11, Zenon
  DEF StreamNext, HearFrame

-----------------------------------------------------------------------------
\* A piece for xterm is output, as a message is.
Outputs(p) == [i \in 1..Len(p) |-> Output(p[i])]
Datas(s) == [i \in 1..Len(s) |-> Output(s[i].data)]

\* What xterm has takes it from a to b.
Feeds(s, a, b) == Links(Datas(s), a, b)

\* Output moves on by what it is.
LEMMA OutputMoves ==
    ASSUME NEW d, NEW a, NEW b
    PROVE  Moves(Output(d), a, b) <=> Run(d, a, b)
<1>1. Output(d).type = "output" /\ Output(d).data = d
  BY DEF Output
<1>2. QED
  BY <1>1 DEF Moves

\* What is flushed takes it over what is batched.
LEMMA FlushedLinks ==
    ASSUME NEW h \in Nat, NEW b \in Nat, Run(batch, h, b)
    PROVE  /\ Links(Outputs(Flushed), h, b)
           /\ Outputs(Flushed) \in Seq({Output(batch)})
<1>1. CASE batch = <<>>
  <2>1. Outputs(Flushed) = <<>> /\ h = b
    BY <1>1 DEF Outputs, Flushed, Run
  <2>2. <<>> \in Seq({Output(batch)})
    OBVIOUS
  <2>3. QED
    BY <2>1, <2>2, LinksNone
<1>2. CASE batch # <<>>
  <2> DEFINE m == Output(batch)
  <2>1. Outputs(Flushed) = <<m>>
    BY <1>2 DEF Outputs, Flushed
  <2>2. Moves(m, h, b)
    BY OutputMoves
  <2> HIDE DEF m
  <2>3. <<m>> \in Seq({m}) /\ Links(<<m>>, h, b)
    BY <2>2, LinksOne
  <2>4. QED
    BY <2>1, <2>3 DEF m
<1>3. QED
  BY <1>1, <1>2

\* And over what came with it.
LEMMA FlushedLinksPair ==
    ASSUME NEW h \in Nat, NEW b \in Nat, NEW c \in Nat, NEW d, Run(batch, h, b), Run(d, b, c)
    PROVE  Links(Outputs(Flushed \o <<d>>), h, c)
<1>1. CASE batch = <<>>
  <2> DEFINE m == Output(d)
  <2>1. Flushed \o <<d>> = <<d>> /\ h = b
    BY <1>1 DEF Flushed, Run
  <2>2. Outputs(<<d>>) = <<m>>
    BY DEF Outputs
  <2>3. Moves(m, b, c)
    BY OutputMoves
  <2> HIDE DEF m
  <2>4. QED
    BY <2>1, <2>2, <2>3, LinksOne
<1>2. CASE batch # <<>>
  <2> DEFINE t == Flushed \o <<d>>
             u == Outputs(t)
             p == [i \in 0..2 |-> IF i = 0 THEN h ELSE IF i = 1 THEN b ELSE c]
  <2>1. Flushed = <<batch>>
    BY <1>2 DEF Flushed
  <2>2. Len(t) = 2 /\ t[1] = batch /\ t[2] = d
    BY <2>1
  <2> HIDE DEF t
  <2>3. Len(u) = 2 /\ u[1] = Output(batch) /\ u[2] = Output(d)
    BY <2>2 DEF Outputs
  <2>4. p \in [0..2 -> Nat] /\ p[0] = h /\ p[1] = b /\ p[2] = c
    OBVIOUS
  <2> HIDE DEF u, p
  <2>5. Moves(u[1], p[0], p[1]) /\ Moves(u[2], p[1], p[2])
    BY <2>3, <2>4, OutputMoves
  <2>6. ASSUME NEW i \in 1..2 PROVE Moves(u[i], p[i - 1], p[i])
    <3>1. i = 1 \/ i = 2
      OBVIOUS
    <3>2. CASE i = 1
      BY <2>5, <3>2
    <3>3. CASE i = 2
      BY <2>5, <3>3
    <3>4. QED
      BY <3>1, <3>2, <3>3
  <2>7. Links(u, h, c)
    BY <2>3, <2>4, <2>6 DEF Links
  <2>8. QED
    BY <2>7 DEF u, t
<1>3. QED
  BY <1>1, <1>2

\* What xterm has is output.
LEMMA DatasTyped ==
    ASSUME NEW s \in Seq(Piece)
    PROVE  /\ Datas(s) \in Seq(Message) /\ Len(Datas(s)) = Len(s)
           /\ \A i \in 1..Len(s) : Datas(s)[i] = Output(s[i].data)
<1>1. Len(s) \in Nat /\ \A i \in 1..Len(s) : s[i].data \in Seq(Nat)
  <2>1. Len(s) \in Nat /\ \A i \in 1..Len(s) : s[i] \in Piece
    OBVIOUS
  <2>2. \A p \in Piece : p.data \in Seq(Nat)
    BY DEF Piece
  <2>3. QED
    BY <2>1, <2>2
<1>2. \A d \in Seq(Nat) : Output(d) \in Message
  BY DEF Output, Message
<1>3. \A i \in 1..Len(s) : Output(s[i].data) \in Message
  BY <1>1, <1>2
<1>4. QED
  BY <1>1, <1>3 DEF Datas

\* A write takes xterm further.
LEMMA AddsFeeds ==
    ASSUME NEW s \in Seq(Piece), NEW pieces, NEW history, NEW t, Adds(s, pieces, history, t),
           NEW x \in Nat, NEW h \in Nat, NEW b \in Nat, Feeds(s, x, h),
           Links(Outputs(pieces), h, b)
    PROVE  Feeds(t, x, b)
<1>1. PICK added \in Seq(Piece) :
        /\ t = s \o added /\ Len(added) = Len(pieces)
        /\ \A i \in 1..Len(pieces) : added[i].data = pieces[i] /\ added[i].history = history
  BY DEF Adds
<1>2. Datas(added) = Outputs(pieces)
  <2>1. \A i \in 1..Len(pieces) : Output(added[i].data) = Output(pieces[i])
    BY <1>1
  <2>2. QED
    BY <1>1, <2>1, Zenon DEF Datas, Outputs
<1> DEFINE u == Datas(s)
           v == Datas(added)
           n == Len(s)
           m == Len(added)
<1>3. n \in Nat /\ m \in Nat
  OBVIOUS
<1>4. u \in Seq(Message) /\ Len(u) = n /\ \A i \in 1..n : u[i] = Output(s[i].data)
  BY DatasTyped
<1>5. v \in Seq(Message) /\ Len(v) = m /\ \A i \in 1..m : v[i] = Output(added[i].data)
  BY <1>1, DatasTyped
<1>6. /\ t \in Seq(Piece) /\ Len(t) = n + m
      /\ \A i \in 1..(n + m) : t[i] = IF i <= n THEN s[i] ELSE added[i - n]
  <2> DEFINE w == s \o added
             P == Piece
  <2> HIDE DEF P
  <2>1. s \in Seq(P) /\ added \in Seq(P)
    BY <1>1 DEF P
  <2>2. /\ w \in Seq(P) /\ Len(w) = Len(s) + Len(added)
        /\ \A i \in 1..(Len(s) + Len(added)) :
               w[i] = IF i <= Len(s) THEN s[i] ELSE added[i - Len(s)]
    BY <2>1, ConcatProperties
  <2>3. t = w
    BY <1>1
  <2> HIDE DEF w
  <2>4. QED
    BY <2>2, <2>3 DEF P
<1>7. /\ Datas(t) \in Seq(Message) /\ Len(Datas(t)) = n + m
      /\ \A i \in 1..(n + m) : Datas(t)[i] = Output(t[i].data)
  <2>1. t \in Seq(Piece)
    BY <1>6
  <2>2. /\ Datas(t) \in Seq(Message) /\ Len(Datas(t)) = Len(t)
        /\ \A i \in 1..Len(t) : Datas(t)[i] = Output(t[i].data)
    BY <2>1, DatasTyped
  <2>3. QED
    BY <1>6, <2>2
<1> DEFINE w == Datas(t)
           z == u \o v
<1> HIDE DEF u, v, n, m, w
<1>8. /\ z \in Seq(Message) /\ Len(z) = n + m
      /\ \A i \in 1..(n + m) : z[i] = IF i <= n THEN u[i] ELSE v[i - n]
  <2>1. u \in Seq(Message) /\ v \in Seq(Message) /\ Len(u) = n /\ Len(v) = m
    BY <1>4, <1>5
  <2>2. /\ z \in Seq(Message) /\ Len(z) = Len(u) + Len(v)
        /\ \A i \in 1..(Len(u) + Len(v)) : z[i] = IF i <= Len(u) THEN u[i] ELSE v[i - Len(u)]
    BY <2>1, ConcatProperties
  <2> HIDE DEF z
  <2>3. QED
    BY <2>1, <2>2
<1> HIDE DEF z
<1>9. ASSUME NEW i \in 1..(n + m) PROVE w[i] = z[i]
  <2>1. w[i] = Output(t[i].data)
    BY <1>7 DEF w
  <2>2. CASE i <= n
    <3>1. i \in 1..n /\ t[i] = s[i] /\ z[i] = u[i]
      BY <1>3, <1>6, <1>8, <2>2
    <3>2. QED
      BY <1>4, <2>1, <3>1
  <2>3. CASE ~(i <= n)
    <3>1. i - n \in 1..m /\ t[i] = added[i - n] /\ z[i] = v[i - n]
      BY <1>3, <1>6, <1>8, <2>3
    <3>2. QED
      BY <1>5, <2>1, <3>1
  <2>4. QED
    BY <2>2, <2>3
<1>10. w = z
  <2>1. w \in Seq(Message) /\ Len(w) = n + m
    BY <1>7 DEF w
  <2>2. QED
    BY <1>3, <1>8, <1>9, <2>1
<1>11. Links(u, x, h) /\ Links(v, h, b)
  BY <1>2 DEF Feeds, u, v
<1>12. Links(u \o v, x, b)
  BY <1>4, <1>5, <1>11, LinksConcat
<1>13. QED
  BY <1>10, <1>12 DEF Feeds, w, z

\* Parsing takes the first.
LEMMA ParseFeeds ==
    ASSUME NEW s \in Seq(Piece), s # <<>>, NEW x \in Nat, NEW h \in Nat, Feeds(s, x, h)
    PROVE  \E y \in Nat : Run(Head(s).data, x, y) /\ Feeds(Tail(s), y, h)
<1> DEFINE u == Datas(s)
           t == Tail(s)
           n == Len(s)
<1>1. u \in Seq(Message) /\ Len(u) = n /\ \A i \in 1..n : u[i] = Output(s[i].data)
  BY DatasTyped
<1>2. n \in Nat /\ n > 0 /\ t \in Seq(Piece) /\ Len(t) = n - 1
      /\ Head(s) = s[1] /\ \A i \in 1..(n - 1) : t[i] = s[i + 1]
  OBVIOUS
<1>3. /\ Datas(t) \in Seq(Message) /\ Len(Datas(t)) = n - 1
      /\ \A i \in 1..(n - 1) : Datas(t)[i] = Output(t[i].data)
  <2>1. t \in Seq(Piece)
    BY <1>2
  <2> HIDE DEF t
  <2>2. /\ Datas(t) \in Seq(Message) /\ Len(Datas(t)) = Len(t)
        /\ \A i \in 1..Len(t) : Datas(t)[i] = Output(t[i].data)
    BY <2>1, DatasTyped
  <2>3. QED
    BY <1>2, <2>2
<1> DEFINE v == Datas(t)
<1> HIDE DEF u, t, n, v
<1>4. u # <<>>
  BY <1>1, <1>2
<1>5. Tail(u) \in Seq(Message) /\ Len(Tail(u)) = n - 1 /\ Head(u) = u[1]
      /\ \A i \in 1..(n - 1) : Tail(u)[i] = u[i + 1]
  BY <1>1, <1>4, HeadTailProperties
<1>6. Tail(u) = v
  <2>1. \A i \in 1..(n - 1) : i + 1 \in 1..n
    BY <1>2
  <2>2. \A i \in 1..(n - 1) : Tail(u)[i] = v[i]
    BY <1>1, <1>2, <1>3, <1>5, <2>1 DEF v
  <2>3. QED
    BY <1>2, <1>3, <1>5, <2>2 DEF v
<1>7. Head(u) = Output(Head(s).data)
  <2>1. 1 \in 1..n
    BY <1>2
  <2>2. QED
    BY <1>1, <1>2, <1>5, <2>1
<1>8. Links(u, x, h)
  BY DEF Feeds, u
<1>9. PICK y \in Nat : Moves(Head(u), x, y) /\ Links(Tail(u), y, h)
  BY <1>1, <1>4, <1>8, LinksFirst
<1>10. Run(Head(s).data, x, y)
  BY <1>7, <1>9, OutputMoves
<1>11. Feeds(Tail(s), y, h)
  BY <1>6, <1>9 DEF Feeds, v, t
<1>12. QED
  BY <1>10, <1>11

-----------------------------------------------------------------------------
\* The sequence of a finite set has each of its elements once.
LEMMA SetToSeqOnce ==
    ASSUME NEW S, IsFiniteSet(S)
    PROVE  /\ SetToSeq(S) \in Seq(S)
           /\ \A i \in 1..Len(SetToSeq(S)) : SetToSeq(S)[i] \in S
           /\ \A i, j \in 1..Len(SetToSeq(S)) :
                  i # j => SetToSeq(S)[i] # SetToSeq(S)[j]
<1> DEFINE n == Cardinality(S)
           q == SetToSeq(S)
<1>1. n \in Nat /\ ExistsBijection(1..n, S)
  BY FS_CardinalityType
<1>2. PICK f \in [1..n -> S] : IsInjective(f)
  BY <1>1 DEF ExistsBijection, Bijection, Injection, IsInjective
<1>3. q \in [1..n -> S] /\ IsInjective(q)
  BY <1>2 DEF SetToSeq
<1> HIDE DEF n, q
<1>4. q \in Seq(S) /\ Len(q) = n
  BY <1>1, <1>3
<1>5. \A i, j \in 1..n : i # j => q[i] # q[j]
  BY <1>3 DEF IsInjective
<1>6. \A i \in 1..Len(q) : q[i] \in S
  BY <1>4
<1>7. QED
  BY <1>4, <1>5, <1>6 DEF q

-----------------------------------------------------------------------------
\* What is answered was parsed by this terminal before chunk x, or by one before
\* this connection.
Told(x) == \A i \in 1..Len(answered) : answered[i][1] <= x \/ answered[i][1] < subscribed

\* Where xterm is: it has what it was handed after chunk x.
Fed(x) == IF handed = <<>> THEN xterm = <<>> /\ x = 0
          ELSE Feeds(xterm, x, handed[Len(handed)].at)

\* No answer is given to what is still to be parsed.
AnswersKnown ==
    /\ answered \in Seq(Nat \X BOOLEAN)
    /\ \A i \in 1..Len(answered) : answered[i][1] <= produced
    /\ NoReplayedAnswers
    /\ connection # "connecting" => \E x \in Nat : Told(x) /\ Fed(x)

LEMMA AnswersStart == StreamInit => AnswersKnown
<1> SUFFICES ASSUME StreamInit PROVE AnswersKnown
  OBVIOUS
<1>1. answered = <<>> /\ connection = "connecting"
  BY DEF StreamInit
<1>2. answered \in Seq(Nat \X BOOLEAN) /\ Len(answered) = 0
  BY <1>1
<1>3. QED
  BY <1>1, <1>2 DEF AnswersKnown, NoReplayedAnswers

\* Before it is handed something, a terminal hears only the size or the close.
LEMMA HeardFirst ==
    ASSUME StreamKnown, StreamWhole, down # <<>>, handed = <<>>
    PROVE  Head(down).type \in {"close", "resize"} /\ batch = <<>>
<1>1. StreamEnds /\ StreamBegins
  BY DEF StreamWhole
<1>2. down \in Seq(Message) /\ connection \in {"connecting", "connected", "disconnected", "exited"}
      /\ (connection = "connecting" => down = <<>>)
  BY DEF StreamKnown, StreamTyped, StreamRoles
<1>3. connection = "connected" /\ batch = <<>>
  BY <1>1, <1>2 DEF StreamEnds, StreamBegins
<1>4. Head(down).type = "close" \/ Begins(Head(down), produced)
  BY <1>1, <1>3 DEF StreamBegins
<1>5. QED
  BY <1>3, <1>4 DEF Begins

\* A terminal that was handed nothing batched nothing.
LEMMA BatchedFirst == ASSUME StreamWhole, handed = <<>> PROVE batch = <<>>
  BY DEF StreamWhole, StreamBegins

\* When nothing is answered and xterm stays where it is, so do the answers.
LEMMA AnswersStay ==
    ASSUME AnswersKnown, UNCHANGED <<answered, subscribed>>,
           produced' \in Nat, produced \in Nat, produced <= produced',
           connection # "connecting", \A x \in Nat : Fed(x) => Fed(x)'
    PROVE  AnswersKnown'
<1>1. PICK x \in Nat : Told(x) /\ Fed(x)
  BY DEF AnswersKnown
<1>2. Told(x)' /\ Fed(x)'
  BY <1>1 DEF Told
<1>3. \A i \in 1..Len(answered) : answered[i] \in Nat \X BOOLEAN
  BY DEF AnswersKnown
<1>4. \A i \in 1..Len(answered) : answered[i][1] \in Nat /\ answered[i][1] <= produced
  BY <1>3 DEF AnswersKnown
<1>5. \A i \in 1..Len(answered) : answered[i][1] <= produced'
  BY <1>4
<1>6. QED
  BY <1>2, <1>5 DEF AnswersKnown, NoReplayedAnswers

\* A write that follows what was handed keeps xterm where it is.
LEMMA WriteFeeds ==
    ASSUME handed # <<>>, xterm \in Seq(Piece), NEW h \in Nat, NEW b \in Nat, NEW d,
           Ends(handed, h), Run(d, h, b), handed' = handed \o Marked(d),
           NEW pieces, NEW history, Adds(xterm, pieces, history, xterm'),
           Links(Outputs(pieces), h, b)
    PROVE  \A x \in Nat : Fed(x) => Fed(x)'
<1>1. Ends(handed', b)
  BY HandChunks
<1>2. handed' # <<>>
  <2>1. handed \in Seq(Handed) /\ d \in Seq(Nat)
    BY DEF Ends, Run
  <2>2. QED
    BY <2>1, HandedGrows
<1>3. handed[Len(handed)].at = h /\ handed'[Len(handed')].at = b
  BY <1>1, <1>2 DEF Ends
<1>4. ASSUME NEW x \in Nat, Fed(x) PROVE Fed(x)'
  <2>1. Feeds(xterm, x, h)
    BY <1>3, <1>4 DEF Fed
  <2>2. PICK t : t = xterm'
    OBVIOUS
  <2>3. Feeds(t, x, b)
    BY <2>1, <2>2, AddsFeeds
  <2>4. Feeds(xterm, x, b)'
    BY <2>2, <2>3 DEF Feeds, Datas, Links
  <2>5. QED
    BY <1>2, <1>3, <2>4 DEF Fed, Feeds, Links, Datas
<1>5. QED
  BY <1>4

\* flush does.
LEMMA FlushFeeds ==
    ASSUME StreamKnown, StreamWhole, ViewLive, Writes(Flushed, FALSE)
    PROVE  \A x \in Nat : Fed(x) => Fed(x)'
<1>1. FALSE \in BOOLEAN /\ batch \in Seq(Nat) /\ xterm \in Seq(Piece)
  BY DEF StreamKnown, StreamTyped, ViewLive
<1>2. Adds(xterm, Flushed, FALSE, xterm')
  BY <1>1, FlushedPieces, WritesAdd
<1>3. handed' = handed \o Marked(FlattenSeq(Flushed))
  BY WritesHands
<1>4. CASE handed # <<>>
  <2>1. PICK h \in Nat, b \in Nat : Ends(handed, h) /\ Run(batch, h, b)
    BY DEF StreamKnown, StreamPlaced, Ahead
  <2>2. Run(FlattenSeq(Flushed), h, b) /\ Links(Outputs(Flushed), h, b)
    BY <2>1, FlushedRuns, FlushedLinks
  <2>3. QED
    BY <1>1, <1>2, <1>3, <1>4, <2>1, <2>2, WriteFeeds
<1>5. CASE handed = <<>>
  <2>1. Flushed = <<>>
    BY <1>5, BatchedFirst DEF Flushed
  <2>2. handed' = <<>>
    BY <1>3, <1>5, <2>1, FlattenNothing DEF Marked
  <2>3. xterm' = xterm
    <3>1. PICK added \in Seq(Piece) : xterm' = xterm \o added /\ Len(added) = Len(Flushed)
      BY <1>2 DEF Adds
    <3>2. added = <<>>
      BY <2>1, <3>1
    <3>3. QED
      BY <1>1, <3>1, <3>2
  <2>4. QED
    BY <1>5, <2>2, <2>3 DEF Fed
<1>6. QED
  BY <1>4, <1>5

\* A piece of the history,
LEMMA HistoryFeeds ==
    ASSUME StreamKnown, StreamWhole, ViewLive, HearHistory
    PROVE  \A x \in Nat : Fed(x) => Fed(x)'
<1>1. down # <<>> /\ Head(down).type = "history" /\ Writes(<<Head(down).data>>, TRUE)
  BY Zenon DEF HearHistory, Hear, Heard
<1> DEFINE d == Head(down).data
<1>2. handed # <<>>
  BY <1>1, HeardFirst
<1>3. PICK n \in Nat, h \in Nat, b \in Nat, c \in Nat :
          /\ Rest(n)
          /\ Ends(handed, h) /\ Run(batch, h, b)
          /\ Moves(Head(down), b, c) /\ Links(Tail(down), c, n)
  BY <1>1, Hears, Zenon
<1>4. Run(d, b, c)
  BY <1>1, <1>3 DEF Moves
<1>5. batch = <<>>
  <2>1. down \in Seq(Message) /\ StreamRoles
    BY DEF StreamKnown, StreamTyped
  <2>2. Lacks(down, {"history"}) => Head(down).type \notin {"history"}
    BY <1>1, <2>1, TailRoles
  <2>3. QED
    BY <1>1, <2>1, <2>2 DEF StreamRoles
<1>6. b = h
  BY <1>3, <1>5 DEF Run
<1>7. Pieces(<<d>>) /\ TRUE \in BOOLEAN /\ xterm \in Seq(Piece)
  <2>1. batch \in Seq(Nat) /\ d \in Seq(Nat) /\ xterm \in Seq(Piece)
    BY <1>1, HeardData DEF StreamKnown, StreamTyped, ViewLive
  <2> HIDE DEF d
  <2>2. QED
    BY <2>1, FlushedPieces
<1>8. Adds(xterm, <<d>>, TRUE, xterm') /\ handed' = handed \o Marked(FlattenSeq(<<d>>))
  BY <1>1, <1>7, WritesAdd, WritesHands
<1> DEFINE m == Output(d)
<1>9. Outputs(<<d>>) = <<m>> /\ Moves(m, h, c)
  <2>1. Outputs(<<d>>) = <<m>>
    BY DEF Outputs
  <2>2. QED
    BY <1>4, <1>6, <2>1, OutputMoves
<1> HIDE DEF d, m
<1>10. Links(Outputs(<<d>>), h, c)
  BY <1>9, LinksOne
<1>11. Run(FlattenSeq(<<d>>), h, c)
  BY <1>4, <1>6, FlattenSingle
<1>12. QED
  BY <1>2, <1>3, <1>7, <1>8, <1>10, <1>11, WriteFeeds

\* and live output.
LEMMA OutputFeeds ==
    ASSUME StreamKnown, StreamWhole, ViewLive, HearOutput
    PROVE  \A x \in Nat : Fed(x) => Fed(x)'
<1>1. /\ down # <<>> /\ Head(down).type = "output"
      /\ \/ Writes(Flushed \o <<Head(down).data>>, FALSE)
         \/ UNCHANGED <<handed, xterm>>
  BY Zenon DEF HearOutput, Hear, Heard
<1> DEFINE d == Head(down).data
<1>2. handed # <<>>
  BY <1>1, HeardFirst
<1>3. PICK n \in Nat, h \in Nat, b \in Nat, c \in Nat :
          /\ Rest(n)
          /\ Ends(handed, h) /\ Run(batch, h, b)
          /\ Moves(Head(down), b, c) /\ Links(Tail(down), c, n)
  BY <1>1, Hears, Zenon
<1>4. Run(d, b, c)
  BY <1>1, <1>3 DEF Moves
<1>5. batch \in Seq(Nat) /\ d \in Seq(Nat) /\ xterm \in Seq(Piece) /\ FALSE \in BOOLEAN
  BY <1>1, HeardData DEF StreamKnown, StreamTyped, ViewLive
<1>6. CASE UNCHANGED <<handed, xterm>>
  BY <1>6 DEF Fed, Feeds, Datas, Links
<1>7. CASE Writes(Flushed \o <<Head(down).data>>, FALSE)
  <2>1. Writes(Flushed \o <<d>>, FALSE)
    BY <1>7, Zenon
  <2> HIDE DEF d
  <2>2. Adds(xterm, Flushed \o <<d>>, FALSE, xterm')
        /\ handed' = handed \o Marked(FlattenSeq(Flushed \o <<d>>))
    BY <1>5, <2>1, FlushedPieces, WritesAdd, WritesHands
  <2>3. Run(FlattenSeq(Flushed \o <<d>>), h, c) /\ Links(Outputs(Flushed \o <<d>>), h, c)
    BY <1>3, <1>4, FlushedPair, FlushedLinksPair
  <2>4. QED
    BY <1>2, <1>3, <1>5, <2>2, <2>3, WriteFeeds
<1>8. QED
  BY <1>1, <1>6, <1>7

\* A size adds what is batched, and is the first that a terminal is handed.
LEMMA SizeFeeds ==
    ASSUME StreamKnown, StreamWhole, ViewLive, HearSize, AnswersKnown
    PROVE  AnswersKnown'
<1>1. /\ down # <<>> /\ Head(down).type = "resize" /\ batch' = <<>>
      /\ handed' = Append(handed \o Marked(batch), Head(down))
      /\ xterm' = IF Flushed = <<>> THEN xterm
                  ELSE Append(xterm, [data |-> batch, history |-> FALSE,
                               tracked |-> Count(written, batch, FALSE).tracked])
      /\ UNCHANGED <<produced, subscribed, answered, connection>>
  BY Zenon DEF HearSize, Hear, Heard, process, server
<1>2. PICK n \in Nat, h \in Nat, b \in Nat, c \in Nat :
          /\ Rest(n)
          /\ Ends(handed, h) /\ Run(batch, h, b)
          /\ Moves(Head(down), b, c) /\ Links(Tail(down), c, n)
  BY <1>1, Hears, Zenon
<1>3. /\ Head(down) \in Message /\ connection # "connecting" /\ produced \in Nat
      /\ batch \in Seq(Nat) /\ xterm \in Seq(Piece)
  BY <1>1, Hears DEF StreamKnown, StreamTyped, ViewLive
<1> DEFINE m == Head(down)
           w == handed \o Marked(batch)
<1>4. m \in Handed /\ m.type = "resize" /\ m.at = b
  BY <1>1, <1>2, <1>3 DEF Moves, Message, Handed
<1>5. Ends(w, b)
  BY <1>2, HandChunks
<1>6. handed' = Append(w, m)
  BY <1>1
<1> HIDE DEF m, w
<1>7. /\ handed' # <<>> /\ handed'[Len(handed')].at = b
  <2>1. w \in Seq(Handed)
    BY <1>5 DEF Ends
  <2>2. Len(handed') = Len(w) + 1 /\ handed'[Len(w) + 1] = m /\ Len(w) \in Nat
    BY <1>4, <1>6, <2>1, AppendProperties
  <2>3. QED
    BY <1>4, <1>6, <2>1, <2>2
<1>8. CASE handed # <<>>
  <2>1. Adds(xterm, Flushed, FALSE, xterm')
    <3>1. Flushed = <<>> <=> batch = <<>>
      BY DEF Flushed
    <3>2. xterm' = IF batch = <<>> THEN xterm
                   ELSE Append(xterm, [data |-> batch, history |-> FALSE,
                                tracked |-> Count(written, batch, FALSE).tracked])
      BY <1>1, <3>1, Zenon
    <3>3. QED
      BY <1>3, <3>2, SizeAdds
  <2>2. Links(Outputs(Flushed), h, b)
    BY <1>2, FlushedLinks
  <2>3. handed[Len(handed)].at = h
    BY <1>2, <1>8 DEF Ends
  <2>4. ASSUME NEW x \in Nat, Fed(x) PROVE Fed(x)'
    <3>1. Feeds(xterm, x, h)
      BY <1>8, <2>3, <2>4 DEF Fed
    <3>2. PICK t : t = xterm'
      OBVIOUS
    <3>3. Feeds(t, x, b)
      BY <1>3, <2>1, <2>2, <3>1, <3>2, AddsFeeds
    <3>4. QED
      BY <1>7, <3>2, <3>3 DEF Fed, Feeds, Links, Datas
  <2>5. produced' = produced /\ produced <= produced /\ UNCHANGED <<answered, subscribed>>
    BY <1>1, <1>3
  <2>6. QED
    BY <1>3, <2>4, <2>5, AnswersStay
<1>9. CASE handed = <<>>
  <2>1. PICK x \in Nat : Told(x) /\ Fed(x)
    BY <1>3 DEF AnswersKnown
  <2>2. Told(0) /\ xterm = <<>> /\ batch = <<>>
    BY <1>9, <2>1, BatchedFirst DEF Fed
  <2>3. xterm' = <<>>
    <3>1. Flushed = <<>>
      BY <2>2 DEF Flushed
    <3>2. QED
      BY <1>1, <2>2, <3>1, Zenon
  <2>4. answered \in Seq(Nat \X BOOLEAN)
    BY DEF AnswersKnown
  <2>5. \A i \in 1..Len(answered) : answered[i][1] \in Nat
    <3>1. \A i \in 1..Len(answered) : answered[i] \in Nat \X BOOLEAN
      BY <2>4
    <3>2. QED
      BY <3>1
  <2>6. Told(b)'
    <3>1. \A i \in 1..Len(answered) : answered[i][1] <= b \/ answered[i][1] < subscribed
      BY <1>2, <2>2, <2>5 DEF Told
    <3>2. QED
      BY <1>1, <3>1 DEF Told
  <2>7. Fed(b)'
    <3>1. Datas(<<>>) = <<>>
      BY DEF Datas
    <3>2. Links(<<>>, b, b)
      BY LinksNone
    <3>3. Feeds(<<>>, b, b)
      BY <3>1, <3>2 DEF Feeds
    <3>4. QED
      BY <1>7, <2>3, <3>3 DEF Fed, Feeds, Links, Datas
  <2>8. QED
    BY <1>1, <1>2, <2>6, <2>7 DEF AnswersKnown, NoReplayedAnswers
<1>10. QED
  BY <1>8, <1>9

\* Answers to what is later than all that is answered are new.
LEMMA AnswersMore ==
    ASSUME NEW a \in Seq(Nat \X BOOLEAN), NEW q \in Seq(Nat \X BOOLEAN),
           NEW x \in Nat, NEW l \in Nat,
           \A i \in 1..Len(a) : ~a[i][2] /\ (a[i][1] <= x \/ a[i][1] < l),
           \A i, j \in 1..Len(a) : i # j => a[i][1] # a[j][1],
           \A i \in 1..Len(q) : ~q[i][2] /\ x < q[i][1] /\ l <= q[i][1],
           \A i, j \in 1..Len(q) : i # j => q[i][1] # q[j][1]
    PROVE  /\ a \o q \in Seq(Nat \X BOOLEAN)
           /\ \A i \in 1..Len(a \o q) : /\ ~(a \o q)[i][2]
                                        /\ \/ \E k \in 1..Len(a) : (a \o q)[i] = a[k]
                                           \/ \E k \in 1..Len(q) : (a \o q)[i] = q[k]
           /\ \A i, j \in 1..Len(a \o q) : i # j => (a \o q)[i][1] # (a \o q)[j][1]
<1> DEFINE T == Nat \X BOOLEAN
           n == Len(a)
           m == Len(q)
           t == a \o q
<1>1. a \in Seq(T) /\ q \in Seq(T) /\ n \in Nat /\ m \in Nat
  OBVIOUS
<1>2. (\A i \in 1..n : a[i][1] \in Nat) /\ (\A i \in 1..m : q[i][1] \in Nat)
  <2>1. (\A i \in 1..n : a[i] \in Nat \X BOOLEAN) /\ (\A i \in 1..m : q[i] \in Nat \X BOOLEAN)
    OBVIOUS
  <2>2. QED
    BY <2>1
<1> HIDE DEF T
<1>3. /\ t \in Seq(T) /\ Len(t) = n + m
      /\ \A i \in 1..(n + m) : t[i] = IF i <= n THEN a[i] ELSE q[i - n]
  BY <1>1, ConcatProperties
<1> HIDE DEF t
<1>4. ASSUME NEW i \in 1..(n + m)
      PROVE  (i \in 1..n /\ t[i] = a[i]) \/ (i - n \in 1..m /\ t[i] = q[i - n] /\ i > n)
  BY <1>1, <1>3
<1>5. ASSUME NEW i \in 1..n, NEW j \in 1..m PROVE a[i][1] # q[j][1]
  <2>1. a[i][1] \in Nat /\ q[j][1] \in Nat /\ (a[i][1] <= x \/ a[i][1] < l)
        /\ x < q[j][1] /\ l <= q[j][1]
    BY <1>2
  <2>2. QED
    BY <2>1
<1> HIDE DEF n, m
<1>6. ASSUME NEW i \in 1..(n + m), NEW j \in 1..(n + m), i # j PROVE t[i][1] # t[j][1]
  <2>1. CASE i \in 1..n /\ t[i] = a[i] /\ j \in 1..n /\ t[j] = a[j]
    BY <1>6, <2>1 DEF n
  <2>2. CASE i \in 1..n /\ t[i] = a[i] /\ j - n \in 1..m /\ t[j] = q[j - n]
    BY <1>5, <2>2
  <2>3. CASE j \in 1..n /\ t[j] = a[j] /\ i - n \in 1..m /\ t[i] = q[i - n]
    BY <1>5, <2>3
  <2>4. CASE i - n \in 1..m /\ t[i] = q[i - n] /\ j - n \in 1..m /\ t[j] = q[j - n]
    <3>1. i - n # j - n
      BY <1>1, <1>6
    <3>2. QED
      BY <2>4, <3>1 DEF m
  <2>5. QED
    BY <1>4, <2>1, <2>2, <2>3, <2>4
<1>7. ASSUME NEW i \in 1..(n + m)
      PROVE  /\ ~t[i][2]
             /\ \/ \E k \in 1..n : t[i] = a[k]
                \/ \E k \in 1..m : t[i] = q[k]
  <2>1. CASE i \in 1..n /\ t[i] = a[i]
    BY <2>1 DEF n
  <2>2. CASE i - n \in 1..m /\ t[i] = q[i - n]
    BY <2>2 DEF m
  <2>3. QED
    BY <1>4, <2>1, <2>2
<1>8. QED
  BY <1>3, <1>6, <1>7 DEF T, t, n, m

\* The answers to what is asked live.
Answers(d) == SetToSeq({<<c, FALSE>> : c \in DeviceQueries \cap ToSet(d)})

\* What is asked in a run of live output is answered once.
LEMMA AskedOnce ==
    ASSUME NEW d \in Seq(Nat), NEW x \in Nat, NEW y \in Nat, Run(d, x, y),
           NEW l \in Nat, NEW r \in Nat, Span(d, l, r)
    PROVE  /\ Answers(d) \in Seq(Nat \X BOOLEAN)
           /\ \A i \in 1..Len(Answers(d)) :
                  /\ ~Answers(d)[i][2] /\ x < Answers(d)[i][1] /\ Answers(d)[i][1] <= y
                  /\ l <= Answers(d)[i][1] /\ Answers(d)[i][1] <= r
           /\ \A i, j \in 1..Len(Answers(d)) :
                  i # j => Answers(d)[i][1] # Answers(d)[j][1]
<1>0. PICK S : S = {<<c, FALSE>> : c \in DeviceQueries \cap ToSet(d)}
  OBVIOUS
<1> DEFINE q == SetToSeq(S)
<1>a. Answers(d) = q
  BY <1>0, Zenon DEF Answers
<1>1. ASSUME NEW c \in ToSet(d) PROVE c \in Nat /\ x < c /\ c <= y /\ l <= c /\ c <= r
  <2>1. PICK i \in 1..Len(d) : c = d[i]
    BY DEF ToSet
  <2>2. Len(d) \in Nat /\ i \in 1..Len(d)
    OBVIOUS
  <2>3. d[i] = x + i /\ y = x + Len(d) /\ l <= d[i] /\ d[i] <= r
    BY DEF Run, Span
  <2>4. QED
    BY <2>1, <2>2, <2>3
<1>2. \A s \in S : \E c \in Nat : /\ s = <<c, FALSE>> /\ x < c /\ c <= y /\ l <= c /\ c <= r
  BY <1>0, <1>1
<1>3. IsFiniteSet(S)
  <2>1. MaxOutput \in Nat /\ DeviceQueries \subseteq 1..MaxOutput
    BY StreamAssumption DEF StreamAssumption
  <2>2. IsFiniteSet(1..MaxOutput)
    BY <2>1, FS_Interval
  <2>3. IsFiniteSet(DeviceQueries \cap ToSet(d))
    BY <2>1, <2>2, FS_Subset
  <2>4. IsFiniteSet({FALSE})
    BY FS_Singleton
  <2>5. IsFiniteSet((DeviceQueries \cap ToSet(d)) \X {FALSE})
    BY <2>3, <2>4, FS_Product
  <2>6. S \in SUBSET ((DeviceQueries \cap ToSet(d)) \X {FALSE})
    <3> DEFINE A == DeviceQueries \cap ToSet(d)
    <3>1. S = {<<c, FALSE>> : c \in A}
      BY <1>0
    <3> HIDE DEF A
    <3>2. ASSUME NEW s \in S PROVE s \in A \X {FALSE}
      <4>1. PICK c \in A : s = <<c, FALSE>>
        BY <3>1
      <4>2. QED
        BY <4>1
    <3>3. QED
      BY <3>2 DEF A
  <2>7. QED
    BY <2>5, <2>6, FS_Subset
<1>4. q \in Seq(S) /\ \A i, j \in 1..Len(q) : i # j => q[i] # q[j]
  BY <1>3, SetToSeqOnce
<1>5. \A i \in 1..Len(q) : q[i] \in S
  BY <1>3, SetToSeqOnce
<1> HIDE DEF q
<1>6. ASSUME NEW i \in 1..Len(q)
      PROVE  /\ q[i] \in Nat \X BOOLEAN /\ q[i] = <<q[i][1], FALSE>> /\ ~q[i][2]
             /\ x < q[i][1] /\ q[i][1] <= y /\ l <= q[i][1] /\ q[i][1] <= r
  <2>1. PICK c \in Nat : q[i] = <<c, FALSE>> /\ x < c /\ c <= y /\ l <= c /\ c <= r
    BY <1>2, <1>5
  <2> DEFINE e == q[i]
  <2> HIDE DEF e
  <2>2. e = <<c, FALSE>> /\ x < c /\ c <= y /\ l <= c /\ c <= r
    BY <2>1 DEF e
  <2>3. e[1] = c /\ e[2] = FALSE /\ e \in Nat \X BOOLEAN
    BY <2>2
  <2>4. QED
    BY <2>2, <2>3 DEF e
<1>7. q \in Seq(Nat \X BOOLEAN)
  <2> DEFINE T == Nat \X BOOLEAN
  <2>1. \A i \in 1..Len(q) : q[i] \in T
    BY <1>6
  <2> HIDE DEF T
  <2>2. q \in Seq(T)
    BY <1>4, <2>1
  <2>3. QED
    BY <2>2 DEF T
<1>8. ASSUME NEW i \in 1..Len(q), NEW j \in 1..Len(q), i # j PROVE q[i][1] # q[j][1]
  <2>1. q[i] # q[j]
    BY <1>4, <1>8
  <2>2. q[i] = <<q[i][1], FALSE>> /\ q[j] = <<q[j][1], FALSE>>
    BY <1>6
  <2> DEFINE c == q[i][1]
             e == q[j][1]
  <2> HIDE DEF c, e
  <2>3. <<c, FALSE>> # <<e, FALSE>>
    BY <2>1, <2>2 DEF c, e
  <2>4. c # e
    BY <2>3
  <2>5. QED
    BY <2>4 DEF c, e
<1>9. QED
  BY <1>a, <1>6, <1>7, <1>8

\* Parsing takes xterm further; what it answers was not parsed before.
LEMMA AnswersParse ==
    ASSUME StreamKnown, ServerLive, ViewLive, AnswersKnown, Parse PROVE AnswersKnown'
<1>1. xterm # <<>> /\ UNCHANGED <<produced, subscribed, connection>>
  BY Zenon DEF Parse, process, server
<1>2. /\ xterm \in Seq(Piece) /\ batch \in Seq(Nat) /\ connection # "connecting"
      /\ produced \in Nat /\ subscribed \in Nat
  BY <1>1 DEF StreamKnown, StreamTyped, StreamRoles, ViewLive, ServerLive
<1>3. PICK x \in Nat : Told(x) /\ Fed(x)
  BY <1>2 DEF AnswersKnown
<1>4. handed # <<>>
  BY <1>1, <1>3 DEF Fed
<1>5. PICK h \in Nat, b \in Nat : Ends(handed, h) /\ Run(batch, h, b)
  BY DEF StreamKnown, StreamPlaced, Ahead
<1>6. handed[Len(handed)].at = h /\ Feeds(xterm, x, h)
  BY <1>3, <1>4, <1>5 DEF Ends, Fed
<1>7. PICK y \in Nat : Run(Head(xterm).data, x, y) /\ Feeds(Tail(xterm), y, h)
  BY <1>1, <1>2, <1>6, ParseFeeds
<1>8. x <= y
  BY <1>7, RunIs
<1>9. /\ Tail(xterm) \in Seq(Piece) /\ Head(xterm) \in Piece
      /\ ~Head(xterm).history => Span(Head(xterm).data, subscribed, produced)
      /\ Head(xterm).history => Replayed(xterm)
  <2>1. PiecesLive(xterm, subscribed, produced)
    BY DEF ViewLive
  <2>2. QED
    BY <1>1, <1>2, <2>1, PiecesTail
<1>10. Fed(y)'
  <2>1. \/ xterm' = Tail(xterm) /\ handed' = handed
        \/ batch = <<>> /\ xterm' = Tail(xterm) /\ handed' = handed \o Marked(batch)
        \/ /\ batch # <<>> /\ handed' = handed \o Marked(batch)
           /\ xterm' = Append(Tail(xterm), [data |-> batch, history |-> FALSE,
                               tracked |-> Count(written, batch, FALSE).tracked])
    BY Zenon DEF Parse
  <2>2. CASE xterm' = Tail(xterm) /\ handed' = handed
    BY <1>4, <1>6, <1>7, <2>2 DEF Fed, Feeds, Links, Datas
  <2>3. CASE /\ handed' = handed \o Marked(batch)
             /\ xterm' = IF batch = <<>> THEN Tail(xterm)
                         ELSE Append(Tail(xterm), [data |-> batch, history |-> FALSE,
                               tracked |-> Count(written, batch, FALSE).tracked])
    <3>1. Adds(Tail(xterm), Flushed, FALSE, xterm')
      BY <1>2, <1>9, <2>3, SizeAdds
    <3>2. Links(Outputs(Flushed), h, b)
      BY <1>5, FlushedLinks
    <3>3. PICK t : t = xterm'
      OBVIOUS
    <3>4. Feeds(t, y, b)
      BY <1>7, <1>9, <3>1, <3>2, <3>3, AddsFeeds
    <3>5. Ends(handed', b)
      BY <1>5, <2>3, HandChunks
    <3>6. handed' # <<>>
      <4>1. handed \in Seq(Handed)
        BY <1>5 DEF Ends
      <4>2. QED
        BY <1>2, <1>4, <2>3, <4>1, HandedGrows
    <3>7. handed'[Len(handed')].at = b
      BY <3>5, <3>6 DEF Ends
    <3>8. QED
      BY <3>3, <3>4, <3>6, <3>7 DEF Fed, Feeds, Links, Datas
  <2>4. QED
    BY <2>1, <2>2, <2>3, Zenon
<1>11. \/ answered' = answered
       \/ /\ ~replaying
          /\ answered' = answered \o SetToSeq(
                 {<<c, Head(xterm).history>> : c \in DeviceQueries \cap ToSet(Head(xterm).data)})
  BY Zenon DEF Parse
<1>12. answered \in Seq(Nat \X BOOLEAN) /\ NoReplayedAnswers
       /\ \A i \in 1..Len(answered) : answered[i][1] <= produced
  BY DEF AnswersKnown
<1>13. ASSUME NEW i \in 1..Len(answered)
       PROVE  answered[i][1] \in Nat /\ (answered[i][1] <= x \/ answered[i][1] < subscribed)
  <2>1. answered[i] \in Nat \X BOOLEAN
    BY <1>12
  <2>2. answered[i][1] <= x \/ answered[i][1] < subscribed
    BY <1>3 DEF Told
  <2>3. QED
    BY <2>1, <2>2
<1>14. CASE answered' = answered
  <2>1. \A i \in 1..Len(answered) : answered[i][1] <= y \/ answered[i][1] < subscribed
    BY <1>8, <1>13
  <2>2. Told(y)'
    BY <1>1, <1>14, <2>1 DEF Told
  <2>3. QED
    BY <1>1, <1>10, <1>12, <1>14, <2>2 DEF AnswersKnown, NoReplayedAnswers
<1>15. CASE /\ ~replaying
            /\ answered' = answered \o SetToSeq(
                 {<<c, Head(xterm).history>> : c \in DeviceQueries \cap ToSet(Head(xterm).data)})
  <2>1. Head(xterm).history = FALSE
    <3>1. Head(xterm).history \in BOOLEAN
      BY <1>9 DEF Piece
    <3>2. ~Replayed(xterm)
      BY <1>15 DEF ViewLive
    <3>3. QED
      BY <1>9, <3>1, <3>2
  <2>2. Head(xterm).data \in Seq(Nat)
    BY <1>9 DEF Piece
  <2>3. Span(Head(xterm).data, subscribed, produced)
    BY <1>9, <2>1
  <2> DEFINE d == Head(xterm).data
             q == Answers(d)
  <2>4. answered' = answered \o q
    BY <1>15, <2>1, Zenon DEF Answers
  <2> HIDE DEF d
  <2>5. /\ q \in Seq(Nat \X BOOLEAN)
        /\ \A i \in 1..Len(q) : /\ ~q[i][2] /\ x < q[i][1] /\ q[i][1] <= y
                                /\ subscribed <= q[i][1] /\ q[i][1] <= produced
        /\ \A i, j \in 1..Len(q) : i # j => q[i][1] # q[j][1]
    <3>1. Run(d, x, y) /\ d \in Seq(Nat) /\ Span(d, subscribed, produced)
      BY <1>7, <2>2, <2>3 DEF d
    <3>2. QED
      BY <1>2, <3>1, AskedOnce
  <2> HIDE DEF q
  <2>6. /\ \A i \in 1..Len(answered) : ~answered[i][2]
                 /\ (answered[i][1] <= x \/ answered[i][1] < subscribed)
        /\ \A i, j \in 1..Len(answered) : i # j => answered[i][1] # answered[j][1]
    BY <1>12, <1>13 DEF NoReplayedAnswers
  <2> DEFINE t == answered \o q
  <2>7. /\ t \in Seq(Nat \X BOOLEAN)
        /\ \A i \in 1..Len(t) : /\ ~t[i][2]
                                /\ \/ \E k \in 1..Len(answered) : t[i] = answered[k]
                                   \/ \E k \in 1..Len(q) : t[i] = q[k]
        /\ \A i, j \in 1..Len(t) : i # j => t[i][1] # t[j][1]
    BY <1>2, <1>12, <2>5, <2>6, AnswersMore
  <2>8. answered' = t
    BY <2>4
  <2> HIDE DEF t
  <2>9. \A i \in 1..Len(t) : t[i][1] <= produced /\ (t[i][1] <= y \/ t[i][1] < subscribed)
    <3>1. \A k \in 1..Len(answered) : /\ answered[k][1] <= produced
                                      /\ answered[k][1] <= y \/ answered[k][1] < subscribed
      BY <1>8, <1>12, <1>13
    <3>2. QED
      BY <2>5, <2>7, <3>1
  <2>10. NoReplayedAnswers'
    BY <2>7, <2>8 DEF NoReplayedAnswers
  <2>11. Told(y)'
    BY <1>1, <2>8, <2>9 DEF Told
  <2>12. QED
    BY <1>1, <1>10, <2>7, <2>8, <2>9, <2>10, <2>11 DEF AnswersKnown
<1>16. QED
  BY <1>11, <1>14, <1>15

\* A new connection: what was answered was produced before it.
LEMMA AnswersAccept == ASSUME StreamKnown, AnswersKnown, Accept PROVE AnswersKnown'
<1>1. /\ connection = "connecting" /\ subscribed' = produced + 1
      /\ UNCHANGED <<produced, answered, handed, xterm>>
  BY Zenon DEF Accept, process, output
<1>2. handed = <<>> /\ xterm = <<>> /\ produced \in Nat
  BY <1>1 DEF StreamKnown, StreamTyped, StreamRoles
<1>3. \A i \in 1..Len(answered) : answered[i] \in Nat \X BOOLEAN
  BY DEF AnswersKnown
<1>4. \A i \in 1..Len(answered) : answered[i][1] \in Nat /\ answered[i][1] <= produced
  BY <1>3 DEF AnswersKnown
<1>5. \A i \in 1..Len(answered) : answered[i][1] < produced + 1
  BY <1>2, <1>4
<1>6. Told(0)'
  BY <1>1, <1>5 DEF Told
<1>7. Fed(0)'
  BY <1>1, <1>2 DEF Fed
<1>8. QED
  BY <1>1, <1>6, <1>7 DEF AnswersKnown, NoReplayedAnswers

\* Every step keeps it.
LEMMA AnswersStep ==
    ASSUME StreamKnown, StreamWhole, ServerLive, ViewLive, AnswersKnown,
           [StreamNext]_streamVars
    PROVE  AnswersKnown'
<1> USE DEF process, server, replay, output
<1>1. produced \in Nat
  BY DEF StreamKnown, StreamTyped
<1>2. CASE Accept
  BY <1>2, AnswersAccept
<1>3. CASE Reconnect
  <2>1. connection' = "connecting" /\ UNCHANGED <<produced, answered>>
    BY <1>3, Zenon DEF Reconnect
  <2>2. QED
    BY <2>1 DEF AnswersKnown, NoReplayedAnswers
<1>4. CASE Parse
  BY <1>4, AnswersParse
<1>5. CASE HearSize
  BY <1>5, SizeFeeds
<1>6. CASE ProcessWrites
  <2>1. produced' = produced + 1 /\ UNCHANGED <<answered, subscribed, connection, handed, xterm>>
    BY <1>6, Zenon DEF ProcessWrites
  <2>2. produced' \in Nat /\ produced <= produced'
    BY <1>1, <2>1
  <2>3. \A x \in Nat : Fed(x) => Fed(x)'
    BY <2>1 DEF Fed, Feeds, Links, Datas
  <2>4. CASE connection # "connecting"
    BY <1>1, <2>1, <2>2, <2>3, <2>4, AnswersStay
  <2>5. CASE connection = "connecting"
    <3>1. \A i \in 1..Len(answered) : answered[i] \in Nat \X BOOLEAN
      BY DEF AnswersKnown
    <3>2. \A i \in 1..Len(answered) : answered[i][1] \in Nat /\ answered[i][1] <= produced
      BY <3>1 DEF AnswersKnown
    <3>3. \A i \in 1..Len(answered) : answered[i][1] <= produced'
      BY <1>1, <2>2, <3>2
    <3>4. QED
      BY <2>1, <2>5, <3>3 DEF AnswersKnown, NoReplayedAnswers
  <2>6. QED
    BY <2>4, <2>5
<1>7. CASE /\ UNCHANGED <<produced, answered, subscribed, connection>>
           /\ \A x \in Nat : Fed(x) => Fed(x)'
  <2>1. CASE connection # "connecting"
    <3>1. produced' \in Nat /\ produced <= produced'
      BY <1>1, <1>7
    <3>2. QED
      BY <1>1, <1>7, <2>1, <3>1, AnswersStay
  <2>2. CASE connection = "connecting"
    BY <1>7, <2>2 DEF AnswersKnown, NoReplayedAnswers
  <2>3. QED
    BY <2>1, <2>2
<1>8. CASE \/ ProcessEnds \/ SizeChanges \/ WriteFrame \/ ServerHears \/ LinkBreaks
           \/ InteractiveTimer \/ HearHistoryEnd \/ UNCHANGED streamVars
  <2>1. UNCHANGED <<produced, answered, subscribed, connection, handed, xterm>>
    BY <1>8, Zenon DEF ProcessEnds, SizeChanges, WriteFrame, ServerHears, LinkBreaks,
        InteractiveTimer, HearHistoryEnd, streamVars
  <2>2. \A x \in Nat : Fed(x) => Fed(x)'
    BY <2>1 DEF Fed, Feeds, Links, Datas
  <2>3. QED
    BY <1>7, <2>1, <2>2
<1>9. CASE FlushTimer \/ UserTypes
  <2>1. Writes(Flushed, FALSE) /\ UNCHANGED <<produced, answered, subscribed, connection>>
    BY <1>9, Zenon DEF FlushTimer, UserTypes, Flush
  <2>2. \A x \in Nat : Fed(x) => Fed(x)'
    BY <2>1, FlushFeeds
  <2>3. QED
    BY <1>7, <2>1, <2>2
<1>10. CASE HearHistory \/ HearOutput
  <2>1. UNCHANGED <<produced, answered, subscribed, connection>>
    BY <1>10, Zenon DEF HearHistory, HearOutput
  <2>2. \A x \in Nat : Fed(x) => Fed(x)'
    BY <1>10, HistoryFeeds, OutputFeeds
  <2>3. QED
    BY <1>7, <2>1, <2>2
<1>11. CASE HearExit \/ HearClose
  <2>1. /\ down # <<>>
        /\ UNCHANGED <<produced, answered, subscribed>>
        /\ Writes(Flushed, FALSE) \/ UNCHANGED <<handed, xterm>>
    BY <1>11, Zenon DEF HearExit, HearClose, Hear, Heard, Flush
  <2>2. \A x \in Nat : Fed(x) => Fed(x)'
    <3>1. CASE Writes(Flushed, FALSE)
      BY <3>1, FlushFeeds
    <3>2. CASE UNCHANGED <<handed, xterm>>
      BY <3>2 DEF Fed, Feeds, Links, Datas
    <3>3. QED
      BY <2>1, <3>1, <3>2
  <2>3. connection # "connecting"
    BY <2>1, Hears
  <2>4. produced' \in Nat /\ produced <= produced'
    BY <1>1, <2>1
  <2>5. QED
    BY <1>1, <2>1, <2>2, <2>3, <2>4, AnswersStay
<1>12. QED
  BY <1>2, <1>3, <1>4, <1>5, <1>6, <1>8, <1>9, <1>10, <1>11, Zenon
  DEF StreamNext, HearFrame

-----------------------------------------------------------------------------
(* The size settles: what each view claims arrives, while the group can resize. *)

Due(v) == IF claimDue[v] THEN 1 ELSE 0
Load(c) == rejected[c] + Len(sent[c])
Spent == losses + layouts

\* A view connects again after a loss, or after the group closed its connection
\* for two claims that it could not apply: the second one follows a change of
\* the layout.  That is what bounds the connections.
Tried(v) ==
    /\ state[v] = "connected" =>
           /\ Conn(v) \in intact
           /\ Conn(v) \notin alive => rejected[Conn(v)] = InvalidLimit
           /\ count[v] + Due(v) <= 1 + Spent
           /\ count[v] + Due(v) + Load(Conn(v)) <= 2 + Spent
    /\ state[v] # "connected" => count[v] + Due(v) <= Spent

\* No connection is known before it is made.
Made(c) == c[2] <= count[c[1]]

SizesCount ==
    /\ state \in [Views -> {"connecting", "connected", "disconnected"}]
    /\ count \in [Views -> Nat] /\ claimDue \in [Views -> BOOLEAN]
    /\ layouts \in 0..MaxLayouts /\ losses \in 0..MaxLosses
    /\ rejected \in [Conns -> Nat]
    /\ alive \subseteq Conns /\ intact \subseteq Conns
    /\ opener \in Conns \cup {None}
    /\ \A c \in alive \cup intact : Made(c)
    /\ opener # None => Made(opener)
    /\ \A c \in Conns : ~Made(c) => sent[c] = <<>> /\ rejected[c] = 0
    /\ \A v \in Views : Tried(v)

LEMMA SizesCountStarts == SizesInit => SizesCount
<1> SUFFICES ASSUME SizesInit PROVE SizesCount
  OBVIOUS
<1>1. \A v \in Views : Tried(v)
  BY DEF SizesInit, Tried, Due, Spent
<1>2. QED
  BY <1>1, SizesAssumption DEF SizesInit, SizesCount, SizesAssumption

\* The connection a view has, and its next one.
LEMMA ConnsOfView ==
    ASSUME SizesCount, NEW v \in Views
    PROVE  /\ state[v] = "connected" => Conn(v) \in Conns
           /\ state[v] # "connected" => /\ <<v, count[v] + 1>> \in Conns
                                        /\ ~Made(<<v, count[v] + 1>>)
           /\ \A w \in Views : w # v => Conn(w) # Conn(v)
           /\ \A w \in Views : Conn(w) # <<v, count[v] + 1>>
           /\ None \notin Conns
<1>1. state[v] = "connected" => Conn(v) \in Conns
  BY DEF SizesCount, Tried
<1>2. ASSUME state[v] # "connected"
      PROVE  <<v, count[v] + 1>> \in Conns /\ ~Made(<<v, count[v] + 1>>)
  <2>1. count[v] \in Nat /\ count[v] + Due(v) <= losses + layouts /\ Due(v) \in {0, 1}
    BY <1>2 DEF SizesCount, Tried, Due, Spent
  <2>2. losses \in Nat /\ losses <= MaxLosses /\ layouts \in Nat /\ layouts <= MaxLayouts
        /\ MaxLosses \in Nat /\ MaxLayouts \in Nat
    BY SizesAssumption DEF SizesCount, SizesAssumption
  <2>3. count[v] + 1 \in 1..(1 + MaxLosses + MaxLayouts)
    BY <2>1, <2>2
  <2>4. QED
    BY <2>1, <2>3 DEF Conns, Made
<1>3. \A w \in Views : w # v => Conn(w) # Conn(v)
  BY DEF Conn
<1>4. \A w \in Views : Conn(w) # <<v, count[v] + 1>>
  BY DEF Conn, SizesCount
<1>5. None \notin Conns
  BY SizesAssumption DEF SizesAssumption, Conns
<1>6. QED
  BY <1>1, <1>2, <1>3, <1>4, <1>5

LEMMA Numbers ==
    ASSUME SizesKnown, SizesCount
    PROVE  /\ losses \in Nat /\ layouts \in Nat /\ Spent \in Nat
           /\ InvalidLimit \in Nat /\ InvalidLimit >= 2
           /\ \A v \in Views : count[v] \in Nat /\ Due(v) \in {0, 1}
           /\ \A c \in Conns : /\ Len(sent[c]) \in Nat /\ rejected[c] \in Nat
                               /\ Load(c) \in Nat
<1>1. InvalidLimit \in Nat /\ InvalidLimit >= 2
  BY SizesAssumption DEF SizesAssumption
<1>2. losses \in Nat /\ layouts \in Nat
  BY DEF SizesCount
<1>3. \A v \in Views : count[v] \in Nat /\ Due(v) \in {0, 1}
  BY DEF SizesCount, Due
<1>4. ASSUME NEW c \in Conns PROVE Len(sent[c]) \in Nat
  <2>1. sent[c] \in Seq(Claimed)
    BY DEF SizesKnown
  <2>2. QED
    BY <2>1
<1>5. \A c \in Conns : rejected[c] \in Nat
  BY DEF SizesCount
<1>6. Spent \in Nat /\ \A c \in Conns : Load(c) \in Nat
  BY <1>2, <1>4, <1>5 DEF Spent, Load
<1>7. QED
  BY <1>1, <1>2, <1>3, <1>4, <1>5, <1>6, Zenon

\* A view that keeps its connection keeps its account when it lasts.
LEMMA TriedKept ==
    ASSUME SizesKnown, SizesCount, NEW w \in Views,
           state'[w] = state[w], count'[w] = count[w],
           Spent' \in Nat, Due(w)' \in {0, 1},
           Due(w)' + Spent <= Due(w) + Spent',
           state[w] = "connected" =>
               /\ Conn(w) \in intact => Conn(w) \in intact'
               /\ \/ Conn(w) \in alive' \/ rejected'[Conn(w)] = InvalidLimit
                  \/ Conn(w) \notin alive /\ rejected'[Conn(w)] = rejected[Conn(w)],
           \A c \in Conns : c = Conn(w) /\ state[w] = "connected" =>
               /\ Load(c)' \in Nat
               /\ Due(w)' + Spent + Load(c)' <= Due(w) + Spent' + Load(c)
    PROVE  Tried(w)'
<1>1. /\ Tried(w) /\ count[w] \in Nat /\ Due(w) \in {0, 1} /\ Spent \in Nat
  BY Numbers DEF SizesCount
<1>2. Conn(w)' = Conn(w)
  BY DEF Conn
<1>3. CASE state[w] # "connected"
  <2>1. count[w] + Due(w) <= Spent
    BY <1>1, <1>3 DEF Tried
  <2>2. count'[w] + Due(w)' <= Spent'
    BY <1>1, <2>1
  <2>3. QED
    BY <1>3, <2>2, Zenon DEF Tried
<1>4. CASE state[w] = "connected"
  <2>0. PICK c \in Conns : c = Conn(w)
    BY <1>4, ConnsOfView
  <2>1. /\ c \in intact
        /\ c \notin alive => rejected[c] = InvalidLimit
        /\ count[w] + Due(w) <= 1 + Spent
        /\ count[w] + Due(w) + Load(c) <= 2 + Spent
    BY <1>1, <1>4, <2>0, Zenon DEF Tried
  <2>2. count'[w] + Due(w)' <= 1 + Spent'
    BY <1>1, <2>1
  <2>3. /\ Load(c)' \in Nat
        /\ Due(w)' + Spent + Load(c)' <= Due(w) + Spent' + Load(c)
    BY <1>4, <2>0, Zenon
  <2>4. Load(c) \in Nat
    BY Numbers
  <2>5. count[w] + Due(w)' + Load(c)' <= 2 + Spent'
    BY <1>1, <2>1, <2>3, <2>4
  <2>6. c \in intact' /\ (c \notin alive' => rejected'[c] = InvalidLimit)
    BY <1>4, <2>0, <2>1
  <2>7. Load(Conn(w))' = Load(c)'
    BY <1>2, <2>0 DEF Load
  <2>8. count'[w] + Due(w)' + Load(Conn(w))' <= 2 + Spent'
    BY <2>5, <2>7, Zenon
  <2>9. state'[w] = "connected" /\ Conn(w)' = c
    BY <1>2, <1>4, <2>0
  <2>10. QED
    BY <2>2, <2>6, <2>8, <2>9, Zenon DEF Tried
<1>5. QED
  BY <1>3, <1>4

\* A view sends one message or none.
LEMMA CapacityIsShort ==
    ASSUME NEW v, NEW last, NEW on
    PROVE  LET m == Capacity(v, last, on).message IN m = <<>> \/ m = <<0>> \/ m = <<room[v]>>
  BY DEF Capacity, Claim

LEMMA Reported ==
    ASSUME SizesKnown, NEW v \in Views, NEW c \in Conns, NEW last, NEW on,
           Reports(v, c, Capacity(v, last, on))
    PROVE  /\ Len(sent'[c]) \in {Len(sent[c]), Len(sent[c]) + 1}
           /\ \A d \in Conns : d # c => sent'[d] = sent[d]
<1> DEFINE m == Capacity(v, last, on).message
<1>a. m = <<>> \/ m = <<0>> \/ m = <<room[v]>>
  BY CapacityIsShort, Zenon
<1>b. m \in Seq(Claimed)
  BY CapacityIsClaimed, Zenon
<1> HIDE DEF m
<1>1. m \in Seq(Claimed) /\ (Len(m) = 0 \/ Len(m) = 1)
  BY <1>a, <1>b
<1>2. sent' = [sent EXCEPT ![c] = @ \o m]
  BY Zenon DEF Reports, m
<1>3. sent \in [Conns -> Seq(Claimed)]
  BY DEF SizesKnown
<1> HIDE DEF m
<1>4. Len(sent[c] \o m) = Len(sent[c]) + Len(m) /\ Len(sent[c]) \in Nat
  BY <1>1, <1>3
<1>5. sent'[c] = sent[c] \o m /\ \A d \in Conns : d # c => sent'[d] = sent[d]
  BY <1>2, <1>3
<1>6. QED
  BY <1>1, <1>4, <1>5

LEMMA CountReport ==
    ASSUME SizesKnown, SizesCount, NEW v \in Views, Report(v) PROVE SizesCount'
<1>1. /\ claimDue[v] /\ claimDue' = [claimDue EXCEPT ![v] = FALSE]
      /\ UNCHANGED <<state, count, intact, alive, opener, rejected, losses, layouts>>
  BY DEF Report, layout, group
<1>2. \A w \in Views : Conn(w)' = Conn(w)
  BY <1>1 DEF Conn
<1>3. \A c : Made(c)' = Made(c)
  BY <1>1 DEF Made
<1>4. /\ \A w \in Views : w # v => Due(w)' = Due(w)
      /\ Due(v) = 1 /\ Due(v)' = 0
  BY <1>1 DEF SizesCount, Due
<1>5. CASE state[v] # "connected"
  <2>1. sent' = sent
    BY <1>5 DEF Report
  <2>2. \A w \in Views : Tried(w)'
    BY <1>1, <1>2, <1>4, <1>5, <2>1 DEF SizesCount, Tried, Load, Spent
  <2>3. QED
    BY <1>1, <1>3, <2>1, <2>2 DEF SizesCount
<1>6. CASE state[v] = "connected"
  <2>1. /\ Len(sent'[Conn(v)]) \in {Len(sent[Conn(v)]), Len(sent[Conn(v)]) + 1}
        /\ \A d \in Conns : d # Conn(v) => sent'[d] = sent[d]
    BY <1>6, Reported, ConnsOfView DEF Report
  <2>2. \A w \in Views : w # v => Tried(w)'
    <3>1. \A w \in Views : w # v /\ state[w] = "connected" =>
              Conn(w) \in Conns /\ Conn(w) # Conn(v)
      BY ConnsOfView
    <3>2. QED
      BY <1>1, <1>2, <1>4, <2>1, <3>1 DEF SizesCount, Tried, Load, Spent
  <2>3. Tried(v)'
    <3>1. /\ Conn(v) \in Conns /\ rejected[Conn(v)] \in Nat /\ count[v] \in Nat
          /\ losses \in Nat /\ layouts \in Nat /\ Len(sent[Conn(v)]) \in Nat
      BY <1>6, ConnsOfView, Numbers
    <3>2. Len(sent'[Conn(v)]) \in Nat /\ Len(sent'[Conn(v)]) <= Len(sent[Conn(v)]) + 1
      BY <2>1, <3>1
    <3>3. /\ Spent' = Spent /\ Spent \in Nat
          /\ Due(v)' + Spent <= Due(v) + Spent'
      BY <1>1, <1>4, <3>1 DEF Spent
    <3>4. ASSUME NEW c \in Conns, c = Conn(v)
          PROVE  /\ Load(c)' \in Nat /\ Due(v)' + Spent + Load(c)' <= Due(v) + Spent' + Load(c)
      <4>1. /\ Load(c)' = rejected[c] + Len(sent'[c]) /\ Load(c) = rejected[c] + Len(sent[c])
        BY <1>1 DEF Load
      <4>2. Load(c)' \in Nat /\ Load(c) \in Nat /\ Load(c)' <= Load(c) + 1
        BY <3>1, <3>2, <3>4, <4>1
      <4>3. QED
        BY <1>4, <3>3, <4>2
    <3>5. Conn(v) \in alive \/ rejected[Conn(v)] = InvalidLimit
      BY <1>6 DEF SizesCount, Tried
    <3>6. QED
      BY <1>1, <1>4, <3>3, <3>4, <3>5, TriedKept
  <2>4. Made(Conn(v)) /\ Conn(v) \in Conns
    BY <1>6 DEF SizesCount, Tried
  <2>5. \A c \in Conns : ~Made(c) => sent'[c] = <<>>
    BY <2>1, <2>4 DEF SizesCount
  <2>6. QED
    BY <1>1, <1>3, <2>2, <2>3, <2>5 DEF SizesCount
<1>7. QED
  BY <1>5, <1>6

LEMMA CountRelaid ==
    ASSUME SizesKnown, SizesCount, NEW v \in Views, Relaid(v) PROVE SizesCount'
<1>1. /\ claimDue' = [claimDue EXCEPT ![v] = TRUE] /\ layouts' = layouts + 1
      /\ layouts < MaxLayouts
      /\ UNCHANGED <<state, count, intact, alive, opener, rejected, losses, sent>>
  BY DEF Relaid, group
<1>2. \A w \in Views : Conn(w)' = Conn(w)
  BY <1>1 DEF Conn
<1>3. \A c : Made(c)' = Made(c)
  BY <1>1 DEF Made
<1>4. \A w \in Views : Due(w) \in {0, 1} /\ Due(w)' \in {Due(w), Due(w) + 1}
  BY <1>1 DEF SizesCount, Due
<1>5. ASSUME NEW w \in Views PROVE Tried(w)'
  <2>1. Spent \in Nat /\ Spent' = Spent + 1 /\ \A c \in Conns : Load(c) \in Nat
    BY <1>1, Numbers DEF Spent
  <2>2. \A c \in Conns : Load(c)' = Load(c)
    BY <1>1 DEF Load
  <2>3. Due(w)' + Spent <= Due(w) + Spent' /\ Due(w)' \in {0, 1}
    BY <1>4, <2>1 DEF Due
  <2>4. \A c \in Conns : Due(w)' + Spent + Load(c)' <= Due(w) + Spent' + Load(c)
    BY <1>4, <2>1, <2>2
  <2>5. state[w] = "connected" => Conn(w) \in alive \/ rejected[Conn(w)] = InvalidLimit
    BY DEF SizesCount, Tried
  <2>6. QED
    BY <1>1, <2>1, <2>2, <2>3, <2>4, <2>5, TriedKept
<1>6. layouts' \in 0..MaxLayouts /\ claimDue' \in [Views -> BOOLEAN]
  BY <1>1, SizesAssumption DEF SizesCount, SizesAssumption
<1>7. QED
  BY <1>1, <1>3, <1>5, <1>6 DEF SizesCount

LEMMA CountConnect ==
    ASSUME SizesKnown, SizesCount, NEW v \in Views, Connect(v) PROVE SizesCount'
<1>0. PICK c : c = <<v, count[v] + 1>>
  OBVIOUS
<1>1. /\ state[v] = "connecting" /\ state' = [state EXCEPT ![v] = "connected"]
      /\ count' = [count EXCEPT ![v] = @ + 1]
      /\ alive' = alive \cup {c} /\ intact' = intact \cup {c}
      /\ opener' \in {opener, c}
      /\ Reports(v, c, Capacity(v, 0, FALSE))
      /\ UNCHANGED <<claimDue, layouts, losses, rejected>>
  BY <1>0 DEF Connect, Subscribe, layout
<1>2. c \in Conns /\ ~Made(c) /\ \A w \in Views : Conn(w) # c
  BY <1>0, <1>1, ConnsOfView
<1>3. sent[c] = <<>> /\ rejected[c] = 0
  BY <1>2 DEF SizesCount
<1>a. /\ Len(sent'[c]) \in {Len(sent[c]), Len(sent[c]) + 1}
      /\ \A d \in Conns : d # c => sent'[d] = sent[d]
  BY <1>1, <1>2, Reported
<1>4. /\ Len(sent'[c]) \in {0, 1} /\ \A d \in Conns : d # c => sent'[d] = sent[d]
  BY <1>3, <1>a
<1>5. Conn(v)' = c /\ \A w \in Views : w # v => Conn(w)' = Conn(w)
  BY <1>0, <1>1 DEF Conn, SizesCount
<1>6. \A w \in Views : Due(w)' = Due(w) /\ Due(w) \in {0, 1}
  BY <1>1 DEF Due
<1>7. ASSUME NEW d \in Conns, Made(d) PROVE Made(d)'
  <2>1. d[1] \in Views /\ d[2] \in Nat /\ count[d[1]] \in Nat
    BY DEF Conns, SizesCount
  <2>2. count'[d[1]] \in Nat /\ count'[d[1]] >= count[d[1]]
    BY <1>1, <2>1 DEF SizesCount
  <2>3. QED
    BY <1>7, <2>1, <2>2 DEF Made
<1>8. Made(c)'
  <2>1. c[1] = v /\ c[2] = count[v] + 1 /\ count'[v] = count[v] + 1 /\ count[v] \in Nat
    BY <1>0, <1>1 DEF SizesCount
  <2>2. QED
    BY <2>1 DEF Made
<1>9. Tried(v)'
  <2>1. count[v] + Due(v) <= Spent /\ count[v] \in Nat /\ Spent \in Nat
    BY <1>1, Numbers DEF SizesCount, Tried
  <2>2. count'[v] = count[v] + 1 /\ state'[v] = "connected" /\ Spent' = Spent
    BY <1>1 DEF SizesCount, Spent
  <2>3. Load(c)' \in {0, 1}
    BY <1>1, <1>3, <1>4 DEF Load
  <2>4. Due(v)' = Due(v) /\ Due(v) \in {0, 1}
    BY <1>6
  <2>5. /\ count'[v] + Due(v)' <= 1 + Spent'
        /\ count'[v] + Due(v)' + Load(c)' <= 2 + Spent'
    BY <2>1, <2>2, <2>3, <2>4
  <2>6. c \in intact' /\ c \in alive'
    BY <1>1
  <2>7. Load(Conn(v))' = Load(c)'
    BY <1>5 DEF Load
  <2>8. count'[v] + Due(v)' + Load(Conn(v))' <= 2 + Spent'
    BY <2>5, <2>7, Zenon
  <2>9. QED
    BY <1>5, <2>2, <2>5, <2>6, <2>8, Zenon DEF Tried
<1>10. ASSUME NEW w \in Views, w # v PROVE Tried(w)'
  <2>1. /\ count'[w] = count[w] /\ state'[w] = state[w] /\ Conn(w)' = Conn(w)
        /\ state[w] = "connected" => Conn(w) \in Conns /\ Conn(w) # c
    BY <1>1, <1>2, <1>5, <1>10, ConnsOfView DEF SizesCount
  <2>2. Tried(w)
    BY DEF SizesCount
  <2>3. QED
    BY <1>1, <1>4, <1>6, <2>1, <2>2 DEF Tried, Load, Spent
<1>11. \A d \in Conns : ~Made(d)' => sent'[d] = <<>> /\ rejected'[d] = 0
  BY <1>1, <1>4, <1>7, <1>8 DEF SizesCount
<1>12. /\ state' \in [Views -> {"connecting", "connected", "disconnected"}]
       /\ count' \in [Views -> Nat]
  BY <1>1 DEF SizesCount
<1>13. /\ \A d \in alive' \cup intact' : d \in Conns /\ Made(d)'
       /\ opener' # None => Made(opener)'
  BY <1>1, <1>2, <1>7, <1>8 DEF SizesCount
<1>14. QED
  BY <1>1, <1>2, <1>9, <1>10, <1>11, <1>12, <1>13 DEF SizesCount

LEMMA CountDrops ==
    ASSUME SizesKnown, SizesCount, NEW v \in Views,
           ConnectionBreaks(v) \/ HearsClose(v) \/ RemountView(v)
    PROVE  SizesCount'
<1>1. /\ state[v] = "connected"
      /\ \E s \in {"connecting", "disconnected"} : state' = [state EXCEPT ![v] = s]
      /\ intact' = intact \ {Conn(v)}
      /\ \/ losses < MaxLosses /\ losses' = losses + 1
         \/ losses' = losses /\ Conn(v) \notin alive
      /\ UNCHANGED <<count, claimDue, layouts, sent, rejected, alive, opener>>
  BY DEF ConnectionBreaks, HearsClose, RemountView, Drop, layout, group
<1>2. \A w \in Views : Conn(w)' = Conn(w) /\ Due(w)' = Due(w) /\ Due(w) \in {0, 1}
  BY <1>1 DEF Conn, Due
<1>3. \A d : Made(d)' = Made(d)
  BY <1>1 DEF Made
<1>4. losses \in Nat /\ losses' \in 0..MaxLosses /\ layouts \in Nat /\ InvalidLimit \in Nat
      /\ InvalidLimit >= 2
  BY <1>1, SizesAssumption DEF SizesCount, SizesAssumption
<1>a. Spent \in Nat /\ Spent' \in Nat /\ Spent' >= Spent
      /\ (Spent' = Spent + 1 \/ (Spent' = Spent /\ Conn(v) \notin alive))
  <2>1. PICK l \in Nat : l = losses
    BY <1>4
  <2>2. PICK k \in Nat : k = layouts
    BY <1>4
  <2>3. Spent = l + k /\ layouts' = k
    BY <1>1, <2>1, <2>2 DEF Spent
  <2>4. CASE losses' = l + 1
    BY <2>3, <2>4 DEF Spent
  <2>5. CASE losses' = l /\ Conn(v) \notin alive
    BY <2>3, <2>5 DEF Spent
  <2>6. QED
    BY <1>1, <2>1, <2>4, <2>5
<1>b. \A c \in Conns : Load(c) \in Nat /\ Load(c)' = Load(c)
  BY <1>1, Numbers DEF Load
<1>5. Tried(v)'
  <2>1. state'[v] # "connected" /\ count[v] \in Nat
    BY <1>1 DEF SizesCount
  <2>2. PICK c \in Conns : c = Conn(v)
    BY <1>1, ConnsOfView
  <2>3. /\ c \notin alive => rejected[c] = InvalidLimit
        /\ count[v] + Due(v) <= 1 + Spent
        /\ count[v] + Due(v) + Load(c) <= 2 + Spent
    BY <1>1, <2>2, Zenon DEF SizesCount, Tried
  <2>4. c \notin alive => Load(c) >= 2
    BY <1>4, <2>3, Numbers DEF Load
  <2>5. count[v] + Due(v) <= Spent'
    BY <1>2, <1>a, <1>b, <2>1, <2>2, <2>3, <2>4
  <2>6. QED
    BY <1>1, <1>2, <2>1, <2>5 DEF Tried
<1>6. ASSUME NEW w \in Views, w # v PROVE Tried(w)'
  <2>1. state'[w] = state[w] /\ Conn(w) # Conn(v)
    BY <1>1, <1>6, ConnsOfView DEF SizesCount
  <2>2. state[w] = "connected" => Conn(w) \in alive \/ rejected[Conn(w)] = InvalidLimit
    BY DEF SizesCount, Tried
  <2>3. /\ Due(w)' + Spent <= Due(w) + Spent'
        /\ \A c \in Conns : Load(c)' \in Nat
                            /\ Due(w)' + Spent + Load(c)' <= Due(w) + Spent' + Load(c)
    BY <1>2, <1>a, <1>b
  <2>4. QED
    BY <1>1, <1>2, <1>a, <2>1, <2>2, <2>3, TriedKept
<1>7. state' \in [Views -> {"connecting", "connected", "disconnected"}]
  BY <1>1 DEF SizesCount
<1>8. QED
  BY <1>1, <1>3, <1>4, <1>5, <1>6, <1>7 DEF SizesCount

LEMMA CountReconnects ==
    ASSUME SizesCount, NEW v \in Views, Reconnects(v) PROVE SizesCount'
<1>1. /\ state[v] = "disconnected" /\ state' = [state EXCEPT ![v] = "connecting"]
      /\ UNCHANGED <<count, claimDue, layouts, losses, sent, rejected, alive, opener,
                     intact>>
  BY DEF Reconnects, layout, group
<1>2. \A w \in Views : Conn(w)' = Conn(w) /\ Due(w)' = Due(w)
  BY <1>1 DEF Conn, Due
<1>3. \A d : Made(d)' = Made(d)
  BY <1>1 DEF Made
<1>4. \A w \in Views : Tried(w)'
  BY <1>1, <1>2 DEF SizesCount, Tried, Load, Spent
<1>5. state' \in [Views -> {"connecting", "connected", "disconnected"}]
  BY <1>1 DEF SizesCount
<1>6. QED
  BY <1>1, <1>3, <1>4, <1>5 DEF SizesCount

LEMMA CountGroup ==
    ASSUME SizesKnown, SizesCount, NEW c \in Conns,
           ServerTakesClaim(c) \/ ServerLeaves(c)
    PROVE  SizesCount'
<1>1. /\ c \in alive /\ UNCHANGED <<state, count, claimDue, intact, layouts, losses>>
      /\ opener' \in {opener, None}
  BY DEF ServerTakesClaim, ServerLeaves, layout, browser
<1>2. /\ \A d \in Conns : d # c => sent'[d] = sent[d] /\ rejected'[d] = rejected[d]
      /\ rejected' \in [Conns -> Nat]
      /\ Load(c)' \in Nat /\ Load(c)' <= Load(c)
  <2>0. sent[c] \in Seq(Claimed) /\ sent \in [Conns -> Seq(Claimed)]
        /\ rejected \in [Conns -> Nat] /\ InvalidLimit \in Nat
    BY SizesAssumption DEF SizesKnown, SizesCount, SizesAssumption
  <2>1. CASE ServerTakesClaim(c)
    <3>1. /\ sent[c] # <<>> /\ sent' = [sent EXCEPT ![c] = Tail(@)]
          /\ \/ rejected' = rejected
             \/ rejected' = [rejected EXCEPT ![c] = @ + 1]
             \/ rejected[c] + 1 = InvalidLimit /\ rejected' = [rejected EXCEPT ![c] = InvalidLimit]
      BY <2>1 DEF ServerTakesClaim
    <3>2. PICK n \in Nat : n = rejected[c]
      BY <2>0
    <3>3. PICK k \in Nat : k = Len(sent[c])
      BY <2>0
    <3>4. k > 0 /\ Len(Tail(sent[c])) = k - 1
      BY <2>0, <3>1, <3>3
    <3>5. sent'[c] = Tail(sent[c]) /\ \A d \in Conns : d # c => sent'[d] = sent[d]
      BY <2>0, <3>1
    <3>6. /\ rejected'[c] = n \/ rejected'[c] = n + 1
          /\ rejected' \in [Conns -> Nat]
          /\ \A d \in Conns : d # c => rejected'[d] = rejected[d]
      <4>1. CASE rejected' = rejected
        BY <2>0, <3>2, <4>1
      <4>2. CASE rejected' = [rejected EXCEPT ![c] = @ + 1]
        BY <2>0, <3>2, <4>2
      <4>3. CASE /\ rejected[c] + 1 = InvalidLimit
                 /\ rejected' = [rejected EXCEPT ![c] = InvalidLimit]
        <5>1. InvalidLimit = n + 1
          BY <3>2, <4>3
        <5>2. QED
          BY <2>0, <3>2, <4>3, <5>1
      <4>4. QED
        BY <3>1, <4>1, <4>2, <4>3
    <3>7. Load(c) = n + k /\ Load(c)' = rejected'[c] + (k - 1)
      BY <3>2, <3>3, <3>4, <3>5 DEF Load
    <3>8. QED
      BY <3>4, <3>5, <3>6, <3>7
  <2>2. CASE ServerLeaves(c)
    <3>1. sent' = [sent EXCEPT ![c] = <<>>] /\ rejected' = rejected
      BY <2>2 DEF ServerLeaves
    <3>2. Len(sent'[c]) = 0 /\ \A d \in Conns : d # c => sent'[d] = sent[d]
      BY <2>0, <3>1
    <3>3. Load(c)' = rejected[c] /\ rejected[c] \in Nat /\ Load(c) >= rejected[c]
      BY <2>0, <3>1, <3>2 DEF Load
    <3>4. QED
      BY <2>0, <3>1, <3>2, <3>3
  <2>3. QED
    BY <2>1, <2>2
<1>3. \/ alive' = alive
      \/ alive' = alive \ {c} /\ c \notin intact
      \/ alive' = alive \ {c} /\ rejected'[c] = InvalidLimit
  BY DEF ServerTakesClaim, ServerLeaves, SizesCount
<1>4. \A w \in Views : Conn(w)' = Conn(w) /\ Due(w)' = Due(w) /\ Due(w) \in {0, 1}
  BY <1>1 DEF Conn, Due
<1>5. \A d : Made(d)' = Made(d)
  BY <1>1 DEF Made
<1>6. ASSUME NEW w \in Views PROVE Tried(w)'
  <2>1. /\ Spent \in Nat /\ Spent' = Spent /\ Due(w)' = Due(w) /\ Due(w) \in {0, 1}
    BY <1>1, <1>4, Numbers DEF Spent
  <2>2. ASSUME state[w] = "connected"
        PROVE  \/ Conn(w) \in alive' \/ rejected'[Conn(w)] = InvalidLimit
               \/ Conn(w) \notin alive /\ rejected'[Conn(w)] = rejected[Conn(w)]
    <3>1. Conn(w) \in Conns /\ Conn(w) \in intact
      BY <2>2, ConnsOfView DEF SizesCount, Tried
    <3>2. QED
      BY <1>1, <1>2, <1>3, <3>1
  <2>3. ASSUME NEW d \in Conns
        PROVE  /\ Load(d)' \in Nat
               /\ Due(w)' + Spent + Load(d)' <= Due(w) + Spent' + Load(d)
    <3>1. Load(d) \in Nat
      BY Numbers
    <3>2. Load(d)' \in Nat /\ Load(d)' <= Load(d)
      BY <1>2, <3>1 DEF Load
    <3>3. QED
      BY <2>1, <3>1, <3>2
  <2>4. Due(w)' + Spent <= Due(w) + Spent'
    BY <2>1
  <2>5. QED
    BY <1>1, <2>1, <2>2, <2>3, <2>4, TriedKept
<1>7. \A d \in Conns : ~Made(d) => sent'[d] = <<>> /\ rejected'[d] = 0
  BY <1>1, <1>2 DEF SizesCount
<1>8. QED
  BY <1>1, <1>2, <1>3, <1>5, <1>6, <1>7 DEF SizesCount

LEMMA SizesCountStep ==
    SizesKnown /\ SizesCount /\ [SizesNext]_sizesVars => SizesCount'
<1>1. ASSUME SizesCount, UNCHANGED sizesVars PROVE SizesCount'
  <2>1. UNCHANGED <<state, count, claimDue, layouts, losses, sent, rejected, alive,
                    opener, intact>>
    BY <1>1 DEF sizesVars, layout, browser, group
  <2>2. \A w \in Views : Conn(w)' = Conn(w) /\ Due(w)' = Due(w)
    BY <2>1 DEF Conn, Due
  <2>3. \A w \in Views : Tried(w)'
    BY <1>1, <2>1, <2>2 DEF SizesCount, Tried, Load, Spent
  <2>4. \A d : Made(d)' = Made(d)
    BY <2>1 DEF Made
  <2>5. QED
    BY <1>1, <2>1, <2>3, <2>4 DEF SizesCount
<1>2. ASSUME SizesKnown, SizesCount, NEW v \in Views, View(v) PROVE SizesCount'
  <2>1. CASE Report(v)
    BY <1>2, <2>1, CountReport
  <2>2. CASE Resized(v) \/ TogglesPane(v) \/ TogglesSource(v)
    BY <1>2, <2>2, CountRelaid DEF Resized, TogglesPane, TogglesSource
  <2>3. CASE Connect(v)
    BY <1>2, <2>3, CountConnect
  <2>4. CASE ConnectionBreaks(v) \/ HearsClose(v) \/ RemountView(v)
    BY <1>2, <2>4, CountDrops
  <2>5. CASE Reconnects(v)
    BY <1>2, <2>5, CountReconnects
  <2>6. QED
    BY <1>2, <2>1, <2>2, <2>3, <2>4, <2>5 DEF View
<1>3. QED
  BY <1>1, <1>2, CountGroup DEF SizesNext, Group
-----------------------------------------------------------------------------
\* The claim a connection comes to when what was sent on it is taken.
Latest(c) == IF sent[c] = <<>> THEN clients[c] ELSE sent[c][Len(sent[c])]

\* A view with nothing due claims what it shows.
Claimant(v) ==
    state[v] = "connected" /\ ~claimDue[v] =>
        /\ hidden[v] => lastSize[v] = 0
        /\ ~hidden[v] /\ ~covered[v] => lastSize[v] = room[v]

\* While the group can resize, the last claim of each view is on its way or
\* there, and the process has the smallest of those that are.
SizesFollow ==
    /\ hidden \in [Views -> BOOLEAN] /\ covered \in [Views -> BOOLEAN]
    /\ claimActive \in [Views -> BOOLEAN] /\ lastSize \in [Views -> Claimed]
    /\ \A v \in Views : (claimActive[v] <=> lastSize[v] # 0) /\ Claimant(v)
    /\ CanResize =>
           /\ \A v \in Views : state[v] = "connected" /\ Conn(v) \in alive =>
                  Latest(Conn(v)) = lastSize[v]
           /\ Claims(clients) # {} => size = Min(Claims(clients))

LEMMA FollowStarts == SizesInit => SizesFollow
<1> SUFFICES ASSUME SizesInit PROVE SizesFollow
  OBVIOUS
<1>1. /\ hidden \in [Views -> BOOLEAN] /\ covered \in [Views -> BOOLEAN]
      /\ claimActive \in [Views -> BOOLEAN] /\ lastSize \in [Views -> Claimed]
  BY DEF SizesInit, Claimed
<1>2. \A v \in Views : (claimActive[v] <=> lastSize[v] # 0) /\ Claimant(v)
  BY DEF SizesInit, Claimant
<1>3. ~CanResize
  BY DEF SizesInit, CanResize
<1>4. QED
  BY <1>1, <1>2, <1>3 DEF SizesFollow

\* What a view says it claims is what it sends.
LEMMA CapacityFollows ==
    ASSUME SizesKnown, SizesFollow, NEW v \in Views, NEW last \in Claimed,
           NEW on \in BOOLEAN, on <=> last # 0, NEW claim, claim = Capacity(v, last, on)
    PROVE  /\ claim.last \in Claimed /\ claim.active \in BOOLEAN
           /\ claim.active <=> claim.last # 0
           /\ \/ claim.message = <<>> /\ claim.last = last
              \/ claim.message = <<claim.last>>
           /\ hidden[v] => claim.last = 0
           /\ ~hidden[v] /\ ~covered[v] => claim.last = room[v]
<1>1. room[v] \in Claimed /\ 0 \in Claimed /\ room[v] # 0 /\ hidden[v] \in BOOLEAN
      /\ covered[v] \in BOOLEAN
  BY SizesAssumption DEF SizesKnown, SizesFollow, Claimed, SizesAssumption
<1>2. CASE hidden[v] /\ on
  <2>1. claim = Claim(0, FALSE, <<0>>)
    BY <1>2 DEF Capacity
  <2>2. claim.last = 0 /\ claim.active = FALSE /\ claim.message = <<0>>
    BY <2>1 DEF Claim
  <2>3. QED
    BY <1>1, <1>2, <2>2
<1>3. CASE ~(hidden[v] /\ on) /\ (hidden[v] \/ covered[v] \/ room[v] = last)
  <2>1. claim = Claim(last, on, <<>>)
    BY <1>3 DEF Capacity
  <2>2. claim.last = last /\ claim.active = on /\ claim.message = <<>>
    BY <2>1 DEF Claim
  <2>3. QED
    BY <1>1, <1>3, <2>2
<1>4. CASE ~hidden[v] /\ ~covered[v] /\ room[v] # last
  <2>1. claim = Claim(room[v], TRUE, <<room[v]>>)
    BY <1>4 DEF Capacity
  <2>2. claim.last = room[v] /\ claim.active = TRUE /\ claim.message = <<room[v]>>
    BY <2>1 DEF Claim
  <2>3. QED
    BY <1>1, <1>4, <2>2
<1>5. QED
  BY <1>2, <1>3, <1>4

LEMMA AppendLatest ==
    ASSUME NEW s \in Seq(Claimed), NEW x \in Claimed
    PROVE  s \o <<x>> # <<>> /\ (s \o <<x>>)[Len(s \o <<x>>)] = x
  OBVIOUS

LEMMA FollowReport ==
    ASSUME SizesKnown, SizesCount, SizesFollow, NEW v \in Views, Report(v)
    PROVE  SizesFollow'
<1>1. /\ claimDue' = [claimDue EXCEPT ![v] = FALSE]
      /\ UNCHANGED <<hidden, covered, room, state, count, alive, clients, opener, size>>
  BY DEF Report, layout, group
<1>2. \A w \in Views : Conn(w)' = Conn(w)
  BY <1>1 DEF Conn
<1>3. CASE state[v] # "connected"
  <2>1. UNCHANGED <<lastSize, claimActive, sent>>
    BY <1>3 DEF Report
  <2>2. \A w \in Views : Claimant(w)'
    BY <1>1, <1>3, <2>1 DEF Claimant, SizesFollow, SizesCount
  <2>3. \A c : Latest(c)' = Latest(c)
    BY <1>1, <2>1 DEF Latest
  <2>4. CanResize' = CanResize /\ Claims(clients)' = Claims(clients)
    BY <1>1 DEF CanResize, Claims
  <2>5. QED
    BY <1>1, <1>2, <2>1, <2>2, <2>3, <2>4 DEF SizesFollow
<1>4. CASE state[v] = "connected"
  <2>0. PICK c \in Conns : c = Conn(v)
    BY <1>4, ConnsOfView
  <2>a. PICK claim : claim = Capacity(v, lastSize[v], claimActive[v])
    OBVIOUS
  <2>1. /\ lastSize' = [lastSize EXCEPT ![v] = claim.last]
        /\ claimActive' = [claimActive EXCEPT ![v] = claim.active]
        /\ sent' = [sent EXCEPT ![c] = @ \o claim.message]
    BY <1>4, <2>0, <2>a DEF Report, Reports
  <2>2. /\ claim.last \in Claimed /\ claim.active \in BOOLEAN
        /\ claim.active <=> claim.last # 0
        /\ \/ claim.message = <<>> /\ claim.last = lastSize[v]
           \/ claim.message = <<claim.last>>
        /\ hidden[v] => claim.last = 0
        /\ ~hidden[v] /\ ~covered[v] => claim.last = room[v]
    BY <2>a, CapacityFollows DEF SizesFollow
  <2>3. /\ lastSize' \in [Views -> Claimed] /\ claimActive' \in [Views -> BOOLEAN]
        /\ lastSize'[v] = claim.last /\ claimActive'[v] = claim.active
        /\ \A w \in Views : w # v => lastSize'[w] = lastSize[w]
                                     /\ claimActive'[w] = claimActive[w]
    BY <2>1, <2>2 DEF SizesFollow
  <2>4. \A w \in Views : claimActive'[w] <=> lastSize'[w] # 0
    BY <2>2, <2>3 DEF SizesFollow
  <2>5. \A w \in Views : Claimant(w)'
    <3>1. Claimant(v)'
      BY <1>1, <2>2, <2>3 DEF Claimant
    <3>2. \A w \in Views : w # v => Claimant(w)'
      BY <1>1, <2>3 DEF Claimant, SizesFollow, SizesCount
    <3>3. QED
      BY <3>1, <3>2
  <2>6. sent[c] \in Seq(Claimed) /\ sent \in [Conns -> Seq(Claimed)]
    BY DEF SizesKnown
  <2>7. \A d \in Conns : d # c => Latest(d)' = Latest(d)
    BY <1>1, <2>1, <2>6 DEF Latest
  <2>8. \/ Latest(c)' = Latest(c) /\ claim.last = lastSize[v]
        \/ Latest(c)' = claim.last
    <3>1. sent'[c] = sent[c] \o claim.message
      BY <2>1, <2>6
    <3>2. CASE claim.message = <<>> /\ claim.last = lastSize[v]
      BY <1>1, <2>6, <3>1, <3>2 DEF Latest
    <3>3. CASE claim.message = <<claim.last>>
      BY <2>2, <2>6, <3>1, <3>3, AppendLatest DEF Latest
    <3>4. QED
      BY <2>2, <3>2, <3>3
  <2>9. CanResize' = CanResize /\ Claims(clients)' = Claims(clients)
    BY <1>1 DEF CanResize, Claims
  <2>10. ASSUME CanResize, NEW w \in Views, state'[w] = "connected", Conn(w)' \in alive'
         PROVE  Latest(Conn(w))' = lastSize'[w]
    <3>1. Conn(w)' = Conn(w) /\ Conn(w) \in Conns /\ Latest(Conn(w)) = lastSize[w]
      BY <1>1, <1>2, <2>10, ConnsOfView DEF SizesFollow
    <3>2. Latest(Conn(w))' = IF sent'[Conn(w)] = <<>> THEN clients'[Conn(w)]
                             ELSE sent'[Conn(w)][Len(sent'[Conn(w)])]
      BY <3>1 DEF Latest
    <3>3. CASE w = v
      BY <2>0, <2>3, <2>8, <3>1, <3>2, <3>3 DEF Latest
    <3>4. CASE w # v
      <4>1. Conn(w) # c
        BY <2>0, <3>4, ConnsOfView
      <4>2. QED
        BY <2>3, <2>7, <3>1, <3>2, <3>4, <4>1 DEF Latest
    <3>5. QED
      BY <3>3, <3>4
  <2>11. QED
    BY <1>1, <2>3, <2>4, <2>5, <2>9, <2>10 DEF SizesFollow
<1>5. QED
  BY <1>3, <1>4

LEMMA FollowRelaid ==
    ASSUME SizesKnown, SizesCount, SizesFollow, NEW v \in Views,
           Resized(v) \/ TogglesPane(v) \/ TogglesSource(v)
    PROVE  SizesFollow'
<1>1. /\ claimDue' = [claimDue EXCEPT ![v] = TRUE]
      /\ UNCHANGED <<state, count, lastSize, claimActive, sent, alive, clients, opener, size>>
      /\ \A w \in Views : w # v => /\ room'[w] = room[w] /\ hidden'[w] = hidden[w]
                                   /\ covered'[w] = covered[w]
      /\ hidden' \in [Views -> BOOLEAN] /\ covered' \in [Views -> BOOLEAN]
  BY DEF Resized, TogglesPane, TogglesSource, Relaid, group, SizesFollow, SizesKnown
<1>2. \A w \in Views : Conn(w)' = Conn(w)
  BY <1>1 DEF Conn
<1>3. \A w \in Views : Claimant(w)'
  BY <1>1 DEF Claimant, SizesFollow, SizesCount
<1>4. \A c : Latest(c)' = Latest(c)
  BY <1>1 DEF Latest
<1>5. CanResize' = CanResize /\ Claims(clients)' = Claims(clients)
  BY <1>1 DEF CanResize, Claims
<1>6. \A w \in Views : Latest(Conn(w))' = Latest(Conn(w))
  BY <1>1, <1>2 DEF Latest
<1>7. QED
  BY <1>1, <1>2, <1>3, <1>5, <1>6 DEF SizesFollow

LEMMA FollowConnect ==
    ASSUME SizesKnown, SizesCount, SizesFollow, NEW v \in Views, Connect(v)
    PROVE  SizesFollow'
<1>0. PICK c : c = <<v, count[v] + 1>>
  OBVIOUS
<1>a. PICK claim : claim = Capacity(v, 0, FALSE)
  OBVIOUS
<1>1. /\ state[v] = "connecting" /\ state' = [state EXCEPT ![v] = "connected"]
      /\ count' = [count EXCEPT ![v] = @ + 1]
      /\ alive' = alive \cup {c} /\ clients' = Set(c, 0)
      /\ opener' = IF DOMAIN clients = {} THEN c ELSE opener
      /\ lastSize' = [lastSize EXCEPT ![v] = claim.last]
      /\ claimActive' = [claimActive EXCEPT ![v] = claim.active]
      /\ sent' = [sent EXCEPT ![c] = @ \o claim.message]
      /\ UNCHANGED <<hidden, covered, room, claimDue, size>>
  BY <1>0, <1>a DEF Connect, Subscribe, Reports, layout
<1>2. c \in Conns /\ ~Made(c) /\ \A w \in Views : Conn(w) # c
  BY <1>0, <1>1, ConnsOfView
<1>3. sent[c] = <<>> /\ c \notin alive /\ (opener # None => opener # c) /\ None # c
      /\ None \notin alive
  BY <1>2, ConnsOfView DEF SizesCount
<1>4. /\ claim.last \in Claimed /\ claim.active \in BOOLEAN
      /\ claim.active <=> claim.last # 0
      /\ \/ claim.message = <<>> /\ claim.last = 0
         \/ claim.message = <<claim.last>>
      /\ hidden[v] => claim.last = 0
      /\ ~hidden[v] /\ ~covered[v] => claim.last = room[v]
  <2>1. 0 \in Claimed
    BY DEF Claimed
  <2>2. QED
    BY <1>a, <2>1, CapacityFollows
<1>5. /\ lastSize' \in [Views -> Claimed] /\ claimActive' \in [Views -> BOOLEAN]
      /\ lastSize'[v] = claim.last /\ claimActive'[v] = claim.active
      /\ \A w \in Views : w # v => lastSize'[w] = lastSize[w]
                                   /\ claimActive'[w] = claimActive[w]
  BY <1>1, <1>4 DEF SizesFollow
<1>6. \A w \in Views : claimActive'[w] <=> lastSize'[w] # 0
  BY <1>4, <1>5 DEF SizesFollow
<1>7. \A w \in Views : Claimant(w)'
  <2>1. Claimant(v)'
    BY <1>1, <1>4, <1>5 DEF Claimant
  <2>2. \A w \in Views : w # v => Claimant(w)'
    BY <1>1, <1>5 DEF Claimant, SizesFollow, SizesCount
  <2>3. QED
    BY <2>1, <2>2
<1>8. Conn(v)' = c /\ \A w \in Views : w # v => Conn(w)' = Conn(w)
  BY <1>0, <1>1 DEF Conn, SizesCount
<1>9. /\ DOMAIN clients' = alive \cup {c} /\ clients'[c] = 0
      /\ \A d \in alive : clients'[d] = clients[d]
  <2>1. 0 \in Claimed
    BY DEF Claimed
  <2>2. QED
    BY <1>1, <1>3, <2>1, SetIsKnown
<1>10. Claims(clients') = Claims(clients)
  <2>1. DOMAIN clients = alive
    BY DEF SizesKnown
  <2>2. {d \in DOMAIN clients' : clients'[d] # 0} = {d \in DOMAIN clients : clients[d] # 0}
    BY <1>3, <1>9, <2>1
  <2>3. QED
    BY <1>9, <2>1, <2>2 DEF Claims
<1>11. sent[c] \in Seq(Claimed) /\ sent \in [Conns -> Seq(Claimed)]
  BY <1>2 DEF SizesKnown
<1>12. sent'[c] = <<>> \o claim.message /\ \A d \in Conns : d # c => sent'[d] = sent[d]
  BY <1>1, <1>2, <1>3, <1>11
<1>13. Latest(Conn(v))' = lastSize'[v]
  <2>1. Latest(Conn(v))' = IF sent'[c] = <<>> THEN clients'[c] ELSE sent'[c][Len(sent'[c])]
    BY <1>8 DEF Latest
  <2>2. CASE claim.message = <<>> /\ claim.last = 0
    <3>1. sent'[c] = <<>>
      BY <1>12, <2>2
    <3>2. QED
      BY <1>5, <1>9, <2>1, <2>2, <3>1
  <2>3. CASE claim.message = <<claim.last>>
    <3>1. sent'[c] = <<claim.last>>
      BY <1>12, <2>3
    <3>2. QED
      BY <1>5, <2>1, <3>1
  <2>4. QED
    BY <1>4, <2>2, <2>3
<1>14. CASE DOMAIN clients = {}
  <2>1. alive = {} /\ Claims(clients) = {}
    BY <1>14 DEF SizesKnown, Claims
  <2>2. ASSUME NEW w \in Views, w # v, state'[w] = "connected" PROVE Conn(w)' \notin alive'
    BY <1>1, <1>2, <1>8, <2>1, <2>2
  <2>3. QED
    BY <1>1, <1>5, <1>6, <1>7, <1>10, <1>13, <2>1, <2>2 DEF SizesFollow
<1>15. CASE DOMAIN clients # {}
  <2>1. CanResize' => CanResize
    BY <1>1, <1>2, <1>3, <1>15 DEF CanResize
  <2>2. ASSUME CanResize, NEW w \in Views, w # v, state'[w] = "connected", Conn(w)' \in alive'
        PROVE  Latest(Conn(w))' = lastSize'[w]
    <3>1. Conn(w)' = Conn(w) /\ Conn(w) # c /\ Conn(w) \in alive /\ state[w] = "connected"
      BY <1>1, <1>2, <1>8, <2>2 DEF SizesCount
    <3>2. Conn(w) \in Conns /\ Latest(Conn(w)) = lastSize[w]
      BY <2>2, <3>1 DEF SizesCount, SizesFollow
    <3>3. Latest(Conn(w))' = IF sent'[Conn(w)] = <<>> THEN clients'[Conn(w)]
                             ELSE sent'[Conn(w)][Len(sent'[Conn(w)])]
      BY <3>1 DEF Latest
    <3>4. QED
      BY <1>5, <1>9, <1>12, <2>2, <3>1, <3>2, <3>3 DEF Latest
  <2>3. QED
    BY <1>1, <1>5, <1>6, <1>7, <1>10, <1>13, <2>1, <2>2 DEF SizesFollow
<1>16. QED
  BY <1>14, <1>15

LEMMA FollowDrops ==
    ASSUME SizesCount, SizesFollow, NEW v \in Views,
           ConnectionBreaks(v) \/ HearsClose(v) \/ RemountView(v) \/ Reconnects(v)
    PROVE  SizesFollow'
<1>1. /\ \E s \in {"connecting", "disconnected"} : state' = [state EXCEPT ![v] = s]
      /\ UNCHANGED <<hidden, covered, room, count, claimDue, lastSize, claimActive, sent,
                     alive, clients, opener, size>>
  BY DEF ConnectionBreaks, HearsClose, RemountView, Reconnects, Drop, layout, group
<1>2. \A w \in Views : state'[w] = "connected" => state[w] = "connected"
  BY <1>1 DEF SizesCount
<1>3. \A w \in Views : Claimant(w)'
  BY <1>1, <1>2 DEF Claimant, SizesFollow
<1>4. \A w \in Views : Conn(w)' = Conn(w) /\ Latest(Conn(w))' = Latest(Conn(w))
  BY <1>1 DEF Conn, Latest
<1>5. CanResize' = CanResize /\ Claims(clients)' = Claims(clients)
  BY <1>1 DEF CanResize, Claims
<1>6. QED
  BY <1>1, <1>2, <1>3, <1>4, <1>5 DEF SizesFollow

LEMMA TailLatest ==
    ASSUME NEW s \in Seq(Claimed), s # <<>>
    PROVE  /\ Tail(s) = <<>> => s[Len(s)] = Head(s)
           /\ Tail(s) # <<>> => Tail(s)[Len(Tail(s))] = s[Len(s)]
<1>1. PICK t \in Seq(Claimed) : t = Tail(s)
  BY HeadTailProperties
<1>2. PICK n \in Nat : n = Len(t)
  BY <1>1
<1>3. Len(s) = n + 1
  BY <1>1, <1>2, HeadTailProperties
<1>4. Head(s) = s[1]
  OBVIOUS
<1>5. CASE t = <<>>
  <2>1. n = 0
    BY <1>2, <1>5
  <2>2. QED
    BY <1>1, <1>3, <1>4, <1>5, <2>1
<1>6. CASE t # <<>>
  <2>1. n \in 1..n
    BY <1>2, <1>6
  <2>2. t[n] = s[n + 1]
    BY <1>1, <1>2, <1>3, <2>1
  <2>3. QED
    BY <1>1, <1>2, <1>3, <1>6, <2>2
<1>7. QED
  BY <1>5, <1>6

LEMMA FollowTakes ==
    ASSUME SizesKnown, SizesCount, SizesFollow, NEW c \in Conns, ServerTakesClaim(c)
    PROVE  SizesFollow'
<1>0. PICK next : next = Set(c, Head(sent[c]))
  OBVIOUS
<1>1. /\ c \in alive /\ sent[c] # <<>> /\ sent' = [sent EXCEPT ![c] = Tail(@)]
      /\ UNCHANGED <<hidden, covered, room, state, count, claimDue, lastSize, claimActive>>
  BY DEF ServerTakesClaim, layout, browser
<1>2. \/ /\ clients' = next /\ UNCHANGED <<alive, opener>>
         /\ \/ ~Changed(next) /\ size' = size
            \/ Changed(next) /\ size' = Min(Claims(next))
      \/ /\ ~CanResize /\ alive' \subseteq alive /\ opener' \in {opener, None}
  BY <1>0 DEF ServerTakesClaim
<1>3. \A w \in Views : Claimant(w)' /\ Conn(w)' = Conn(w)
  BY <1>1 DEF Claimant, Conn, SizesFollow
<1>4. CASE /\ ~CanResize /\ alive' \subseteq alive /\ opener' \in {opener, None}
  <2>1. ~CanResize'
    BY <1>4, ConnsOfView, SizesAssumption DEF CanResize, SizesCount, SizesAssumption, Conns
  <2>2. QED
    BY <1>1, <1>3, <2>1 DEF SizesFollow
<1>5. CASE /\ clients' = next /\ UNCHANGED <<alive, opener>>
           /\ \/ ~Changed(next) /\ size' = size
              \/ Changed(next) /\ size' = Min(Claims(next))
  <2>1. sent[c] \in Seq(Claimed) /\ sent \in [Conns -> Seq(Claimed)]
    BY DEF SizesKnown
  <2>2. Head(sent[c]) \in Claimed
    BY <1>1, <2>1
  <2>3. next[c] = Head(sent[c]) /\ \A d \in alive : d # c => next[d] = clients[d]
    <3>1. PICK x \in Claimed : x = Head(sent[c])
      BY <2>2
    <3>2. next = Set(c, x)
      BY <1>0, <3>1
    <3>3. Set(c, x)[c] = x /\ \A d \in alive : d # c => Set(c, x)[d] = clients[d]
      BY <1>1 DEF SizesKnown, Set
    <3>4. QED
      BY <3>1, <3>2, <3>3
  <2>4. sent'[c] = Tail(sent[c]) /\ \A d \in Conns : d # c => sent'[d] = sent[d]
    BY <1>1, <2>1
  <2>5. ASSUME NEW d \in alive
        PROVE  (IF sent'[d] = <<>> THEN clients'[d] ELSE sent'[d][Len(sent'[d])]) = Latest(d)
    <3>1. d \in Conns
      BY DEF SizesCount
    <3>2. CASE d # c
      BY <1>5, <2>3, <2>4, <3>1, <3>2 DEF Latest
    <3>3. CASE d = c
      BY <1>1, <1>5, <2>1, <2>3, <2>4, <3>3, TailLatest DEF Latest
    <3>4. QED
      BY <3>2, <3>3
  <2>6. \A w \in Views : Conn(w) \in alive => Latest(Conn(w))' = Latest(Conn(w))
    BY <1>3, <2>5 DEF Latest
  <2>7. Claims(clients') # {} => size' = Min(Claims(clients'))
    BY <1>5 DEF Changed
  <2>8. CanResize' => CanResize
    BY <1>5 DEF CanResize
  <2>9. QED
    BY <1>1, <1>3, <1>5, <2>6, <2>7, <2>8 DEF SizesFollow
<1>6. QED
  BY <1>2, <1>4, <1>5

LEMMA FollowLeaves ==
    ASSUME SizesKnown, SizesCount, SizesFollow, NEW c \in Conns, ServerLeaves(c)
    PROVE  SizesFollow'
<1>0. PICK next : next = Without(c)
  OBVIOUS
<1>1. /\ c \in alive /\ alive' = alive \ {c} /\ clients' = next
      /\ size' = IF clients[c] # 0 /\ Changed(next) /\ opener \in alive'
                 THEN Min(Claims(next)) ELSE size
      /\ opener' \in {opener, None}
      /\ sent' = [sent EXCEPT ![c] = <<>>]
      /\ UNCHANGED <<hidden, covered, room, state, count, claimDue, lastSize, claimActive>>
  BY <1>0 DEF ServerLeaves, layout, browser
<1>2. /\ DOMAIN next = alive \ {c} /\ \A d \in alive \ {c} : next[d] = clients[d]
  BY <1>0, WithoutIsKnown
<1>3. \A w \in Views : Claimant(w)' /\ Conn(w)' = Conn(w)
  BY <1>1 DEF Claimant, Conn, SizesFollow
<1>4. CASE opener' \notin alive'
  BY <1>1, <1>3, <1>4 DEF SizesFollow, CanResize
<1>5. CASE opener' \in alive'
  <2>1. opener' = opener /\ opener \in alive' /\ CanResize
    BY <1>1, <1>5, ConnsOfView, SizesAssumption
    DEF CanResize, SizesCount, SizesAssumption, Conns
  <2>2. sent \in [Conns -> Seq(Claimed)] /\ \A d \in alive : d \in Conns
    BY DEF SizesKnown, SizesCount
  <2>3. \A d \in alive' : sent'[d] = sent[d] /\ clients'[d] = clients[d]
    BY <1>1, <1>2, <2>2
  <2>4. \A w \in Views : Conn(w) \in alive' => Latest(Conn(w))' = Latest(Conn(w))
    BY <1>3, <2>3 DEF Latest
  <2>5. CASE clients[c] # 0
    <3>1. Claims(next) # {} => size' = Min(Claims(next))
      BY <1>1, <2>1, <2>5 DEF Changed
    <3>2. QED
      BY <1>1, <1>3, <2>1, <2>4, <3>1 DEF SizesFollow
  <2>6. CASE clients[c] = 0
    <3>1. Claims(next) = Claims(clients)
      <4>1. DOMAIN clients = alive
        BY DEF SizesKnown
      <4>2. {d \in DOMAIN next : next[d] # 0} = {d \in DOMAIN clients : clients[d] # 0}
        BY <1>2, <2>6, <4>1
      <4>3. QED
        BY <1>2, <4>1, <4>2 DEF Claims
    <3>2. size' = size
      BY <1>1, <2>6
    <3>3. QED
      BY <1>1, <1>3, <2>1, <2>4, <3>1, <3>2 DEF SizesFollow
  <2>7. QED
    BY <2>5, <2>6
<1>6. QED
  BY <1>4, <1>5

LEMMA SizesFollowStep ==
    SizesKnown /\ SizesCount /\ SizesFollow /\ [SizesNext]_sizesVars => SizesFollow'
<1>1. ASSUME SizesFollow, UNCHANGED sizesVars PROVE SizesFollow'
  <2>1. UNCHANGED <<state, count, claimDue, hidden, covered, room, lastSize, claimActive,
                    sent, alive, clients, opener, size>>
    BY <1>1 DEF sizesVars, layout, browser, group
  <2>2. \A w \in Views : Conn(w)' = Conn(w) /\ Latest(Conn(w))' = Latest(Conn(w))
                         /\ Claimant(w)' = Claimant(w)
    BY <2>1 DEF Conn, Latest, Claimant
  <2>3. CanResize' = CanResize /\ Claims(clients)' = Claims(clients)
    BY <2>1 DEF CanResize, Claims
  <2>4. QED
    BY <1>1, <2>1, <2>2, <2>3 DEF SizesFollow
<1>2. ASSUME SizesKnown, SizesCount, SizesFollow, NEW v \in Views, View(v) PROVE SizesFollow'
  BY <1>2, FollowReport, FollowRelaid, FollowConnect, FollowDrops DEF View
<1>3. QED
  BY <1>1, <1>2, FollowTakes, FollowLeaves DEF SizesNext, Group

LEMMA SizesTyped == SizesKnown /\ SizesCount /\ SizesFollow => SizesTypeOK
  BY DEF SizesKnown, SizesCount, SizesFollow, SizesTypeOK, Claimed

LEMMA SizesQuiet == SizesKnown /\ SizesCount /\ SizesFollow => SizeSettles
<1> SUFFICES ASSUME SizesKnown, SizesCount, SizesFollow, Quiet, CanResize
             PROVE  /\ \A v \in Views :
                           /\ hidden[v] => clients[Conn(v)] = 0
                           /\ ~hidden[v] /\ ~covered[v] => clients[Conn(v)] = room[v]
                    /\ Claims(clients) # {} => size = Min(Claims(clients))
  BY DEF SizeSettles
<1>1. ASSUME NEW v \in Views PROVE clients[Conn(v)] = lastSize[v] /\ Claimant(v)
  <2>1. state[v] = "connected" /\ Conn(v) \in alive /\ Conn(v) \in Conns
    BY ConnsOfView DEF Quiet
  <2>2. sent[Conn(v)] = <<>> /\ Latest(Conn(v)) = lastSize[v] /\ Claimant(v)
    BY <2>1 DEF Quiet, SizesFollow
  <2>3. QED
    BY <2>2 DEF Latest
<1>2. QED
  BY <1>1 DEF Quiet, SizesFollow, Claimant

-----------------------------------------------------------------------------
(* The pane with all its views. *)

\* The views know what each of them knows.
ViewsKnow ==
    /\ PaneKnows /\ PaneFlags
    /\ LogKnows /\ LogFlags
    /\ FilesKnow
    /\ ChangesKnown
    /\ StreamKnown /\ StreamWhole /\ StreamFlags /\ StreamBounds
    /\ ServerLive /\ ViewLive /\ AnswersKnown
    /\ SizesKnown /\ NeverTooLarge /\ SizesCount /\ SizesFollow

\* It holds when the pane is mounted.
LEMMA ViewsStart == ViewsInit => ViewsKnow
  BY PaneStarts, FlagsStart, LogStarts, LogFlagsStart, FilesStart, ChangesStarts,
     StreamStarts, WholeStarts, StreamFlagsStart, BoundsStart, ServerLiveStarts,
     ViewLiveStarts, AnswersStart, SizesStart, SizesCountStarts, FollowStarts DEF ViewsInit, ViewsKnow

\* A step of the pane with its views is a step of each of them, or leaves it.
LEMMA ViewsMoveOne ==
    [ViewsNext]_viewsVars =>
        /\ [PaneNext]_paneVars /\ [LogNext]_logVars
        /\ [FilesNext]_filesVars /\ [ChangesNext]_changesVars
        /\ [StreamNext]_streamVars /\ [SizesNext]_sizesVars
<1> SUFFICES ASSUME [ViewsNext]_viewsVars
             PROVE  /\ [PaneNext]_paneVars /\ [LogNext]_logVars
                    /\ [FilesNext]_filesVars /\ [ChangesNext]_changesVars
                    /\ [StreamNext]_streamVars /\ [SizesNext]_sizesVars
  OBVIOUS
<1>1. CASE ViewsNext
  BY <1>1, Zenon DEF ViewsNext
<1>2. CASE UNCHANGED viewsVars
  BY <1>2, Zenon DEF viewsVars
<1>3. QED
  BY <1>1, <1>2

\* So every step keeps what they know.
LEMMA ViewsStep == ViewsKnow /\ [ViewsNext]_viewsVars => ViewsKnow'
<1> SUFFICES ASSUME ViewsKnow, [ViewsNext]_viewsVars PROVE ViewsKnow'
  OBVIOUS
<1> USE DEF ViewsKnow
<1>1. PaneKnows' /\ PaneFlags'
  BY ViewsMoveOne, PaneStep, FlagsStep DEF PaneKnows
<1>2. LogKnows' /\ LogFlags'
  BY ViewsMoveOne, LogStep, LogFlagsStep
<1>3. FilesKnow' /\ ChangesKnown'
  BY ViewsMoveOne, FilesStep, ChangesStep
<1>4. StreamKnown' /\ StreamWhole' /\ StreamFlags' /\ StreamBounds'
  BY ViewsMoveOne, StreamStep, WholeStep, StreamFlagsStep, StreamBoundsStep
<1>5. ServerLive' /\ ViewLive' /\ AnswersKnown'
  BY ViewsMoveOne, ServerLiveStep, ViewLiveStep, AnswersStep
<1>6. SizesKnown' /\ NeverTooLarge' /\ SizesCount' /\ SizesFollow'
  BY ViewsMoveOne, SizesStep, SizesCountStep, SizesFollowStep
<1>7. QED
  BY <1>1, <1>2, <1>3, <1>4, <1>5, <1>6

\* Whatever is clicked, dragged, hidden, lost or sent again, every view knows
\* its part: the invariant of the theorems below.
THEOREM ViewsAreKnown == ViewsSpec => []ViewsKnow
<1>1. ViewsInit => ViewsKnow
  BY ViewsStart
<1>2. ViewsKnow /\ [ViewsNext]_viewsVars => ViewsKnow'
  BY ViewsStep
<1>3. QED
  BY <1>1, <1>2, PTL DEF ViewsSpec

\* The state of every view stays of its type, whatever it holds: requests are
\* for what can be asked, a page of the log lies in the file, the queue of a
\* subscriber and the measures of the flow control and of retries keep their
\* limits.
THEOREM ViewsAreTyped == ViewsSpec => []ViewsTypeOK
<1>1. ViewsKnow => ViewsTypeOK
  BY PaneTyped, LogTyped, FilesTyped, ChangesTyped, StreamIsTyped, SizesTyped
     DEF ViewsKnow, ViewsTypeOK
<1>2. QED
  BY <1>1, ViewsAreKnown, PTL

\* The Files tab shows no listing of before the last refresh, no file but the
\* selected one and no matches of another text; no expanded folder waits for a
\* request that was given up, and the object URLs alive are those of the preview
\* and of a download, in whatever order the answers come (WorkspaceFilesView).
THEOREM FilesAreCurrent == ViewsSpec => [](ShowsLatest /\ NoStuckFolder /\ URLsRevoked)
<1>1. ViewsKnow => ShowsLatest /\ NoStuckFolder /\ URLsRevoked
  BY FilesShown DEF ViewsKnow
<1>2. QED
  BY <1>1, ViewsAreKnown, PTL

\* The changes on screen have one load under way or the timer of the next, never
\* both, and neither when they are hidden, however a load ends (GitChangesView).
THEOREM DiffIsPolled == ViewsSpec => []PolledOnce
<1>1. ViewsKnow => PolledOnce
  BY ChangesTyped DEF ViewsKnow
<1>2. QED
  BY <1>1, ViewsAreKnown, PTL

\* Once things are quiet, and the connection that opened the group lives, every
\* view claims the room it has if it is in sight and nothing if it is not, and
\* the process has the smallest claim: none was lost with a connection, a
\* rejection or a change of layout in between.
THEOREM SizeFollowsClaims == ViewsSpec => []SizeSettles
<1>1. ViewsKnow => SizeSettles
  BY SizesQuiet DEF ViewsKnow
<1>2. QED
  BY <1>1, ViewsAreKnown, PTL

\* The pane shows the review that is open, once it heard of it and its fetch is
\* over: answers that come out of order, submissions that break and reviews that
\* are cancelled leave it with no other (the annotation effect of TerminalPane).
THEOREM ReviewIsShown == ViewsSpec => []ReviewShown
<1>1. ViewsKnow => ReviewShown
  BY DEF ViewsKnow, PaneKnows, Follows, ReviewShown
<1>2. QED
  BY <1>1, ViewsAreKnown, PTL

\* No pane shows the tab of a review that is gone (sourceIsVisible and what the
\* effect and onCompleted fall back to).
THEOREM SourcesAreShown == ViewsSpec => []NoBlankSource
<1>1. ViewsKnow => NoBlankSource
  BY DEF ViewsKnow, PaneKnows
<1>2. QED
  BY <1>1, ViewsAreKnown, PTL

\* Comments are discarded only with the review they belong to, and a terminal
\* that is shown alone again is fitted to its pane.
THEOREM PaneIsKept == ViewsSpec => PaneKeeps
<1>1. ViewsKnow /\ [ViewsNext]_viewsVars =>
          [\A r \in notes \ notes' : r # open' \/ stale']_paneVars
  BY ViewsMoveOne, NotesKept DEF ViewsKnow
<1>2. [ViewsNext]_viewsVars => [~SoleTerminal /\ SoleTerminal' => refit']_paneVars
  BY ViewsMoveOne, Refitted
<1>3. QED
  BY <1>1, <1>2, ViewsAreKnown, PTL DEF ViewsSpec, PaneKeeps, NotesSafe, TerminalRefitted

\* The log is one stretch of one transcript, compacted as the server would,
\* however pages, polls, new transcripts and faults interleave, as long as no
\* page of another transcript was mixed in (AgentLogView).
THEOREM TranscriptIsContiguous == ViewsSpec => []TranscriptContiguous
<1>1. ViewsKnow => TranscriptContiguous
  BY DEF ViewsKnow, LogKnows, LogKnown, Stretch, TranscriptContiguous
<1>2. QED
  BY <1>1, ViewsAreKnown, PTL

\* A call and its result that are both shown are shown as one execution, also
\* when pages separated them and results come in another order, in a transcript
\* that names its calls (pairToolEntries of AgentLogView).
THEOREM CallsFindResults == ViewsSpec => []CallsMeetResults
<1>1. ViewsKnow => CallsMeetResults
  BY CallsMeet DEF ViewsKnow
<1>2. QED
  BY <1>1, ViewsAreKnown, PTL

\* The shared size is never larger than the room of a browser that claims one,
\* whoever joins, resizes, hides or is lost.
THEOREM SizeFitsAll == ViewsSpec => []NeverTooLarge
<1>1. ViewsKnow => NeverTooLarge
  BY DEF ViewsKnow
<1>2. QED
  BY <1>1, ViewsAreKnown, PTL

\* A terminal is handed the output in order, without a gap or a repetition,
\* and every size between the chunks it came between: through the history and
\* its frames, the queue that drops sizes, the batches of both sides, keys,
\* breaks and reconnections.
THEOREM OutputIsInOrder == ViewsSpec => []HandedInOrder
<1>1. ViewsKnow => HandedInOrder
  BY StreamOrdered DEF ViewsKnow
<1>2. QED
  BY <1>1, ViewsAreKnown, PTL

\* The process gets an answer to a query once, and none to output that is only
\* replayed: what a terminal has still to parse comes after all that was answered,
\* and what it parses of the history it parses while it answers nothing
\* (TerminalView, the replay of terminalStream).
THEOREM AnswersAreNotReplayed == ViewsSpec => []NoReplayedAnswers
<1>1. ViewsKnow => NoReplayedAnswers
  BY DEF ViewsKnow, AnswersKnown
<1>2. QED
  BY <1>1, ViewsAreKnown, PTL

\* A terminal that says the process exited was handed all it wrote: no frame is
\* lost between the last chunk and the exit, in the queue, on its way or in the
\* batch (HearExit flushes, the server writes the exit last).
THEOREM ExitIsLast == ViewsSpec => []ExitedMeansComplete
<1>1. ViewsKnow => ExitedMeansComplete
  BY ExitIsComplete DEF ViewsKnow
<1>2. QED
  BY <1>1, ViewsAreKnown, PTL

\* Everything that holds of each view at every moment, together.
THEOREM ViewsSafe == ViewsSpec => []ViewsInv
<1>1. ViewsTypeOK /\ NoBlankSource /\ CallsMeetResults /\ (ShowsLatest /\ NoStuckFolder /\ URLsRevoked)
          /\ PolledOnce /\ NoReplayedAnswers /\ ExitedMeansComplete /\ SizeSettles => ViewsInv
  BY Zenon DEF ViewsInv
<1>2. QED
  BY <1>1, ViewsAreTyped, SourcesAreShown, CallsFindResults, FilesAreCurrent,
     DiffIsPolled, AnswersAreNotReplayed, ExitIsLast, SizeFollowsClaims, PTL
=============================================================================
