------------------------ MODULE SharedSelectionProofs ------------------------
(***************************************************************************)
(* Proofs about SharedSelection, for any number of terminals, any choices  *)
(* of the users and any number of edits, acts, events and answers.         *)
(***************************************************************************)
EXTENDS SharedSelection, SequenceTheorems, TLAPS

\* The server held s before it held now, or still does.
Genuine(s, now) ==
    /\ s \in Snapshot /\ s.rev <= now.rev
    /\ s.rev = now.rev => s = now

\* The selection names terminals of the server and focuses one of them.
ServerInv ==
    /\ stored.ids \subseteq live
    /\ stored.focus \in stored.ids \/ Sel(stored) = Nothing

\* The browser knows no later revision than the server, nor another selection
\* under the same one.
KnownInv ==
    /\ known <= stored.rev
    /\ known = stored.rev => signature = Sel(stored)

\* Whatever is on its way was read from the server.
WireInv ==
    /\ \A i \in 1..Len(events) : Genuine(events[i], stored)
    /\ \A s \in answers : Genuine(s, stored)
    /\ creating # Idle => Genuine(creating.snap, stored)

WriteStages == {"idle", "sent", "answered", "refused", "reread", "failed"}

\* No request is about an edit that is still to come, the server has had the
\* edit whose write it answered, and the browser counts nothing as
\* synchronised that the server has not had.
WriteInv ==
    /\ synced <= accepted /\ accepted <= edits
    /\ pending # None => pending.version <= edits
    /\ write.stage \in WriteStages
    /\ write.stage = "idle" => write = Idle
    /\ write.stage \in {"sent", "answered", "refused", "reread"}
           => write.version \in Nat /\ write.version <= edits
    /\ write.stage = "answered" => write.version <= accepted
    /\ write.stage \in {"answered", "reread"} => Genuine(write.snap, stored)

\* Revision r is over, or it is what the server chose for a close.
ChoiceOrLater(r, now, by) ==
    /\ r \in Nat /\ r <= now.rev
    /\ now.rev = r => by = "close"

\* The server's choice has the revision after the one the close started from,
\* or a later one; a correction expects to replace exactly the next one.
CloseInv ==
    /\ "stage" \in DOMAIN closing
    /\ closing.stage \in {"deleting", "deleted"}
           => {"chose", "snap"} \subseteq DOMAIN closing
    /\ closing.stage \in {"deleting", "deleted", "answered", "checking", "rereading"}
           => "now" \in DOMAIN closing
    /\ closing.stage = "deleting" =>
           closing.rev \in Nat /\ closing.rev <= stored.rev
    /\ closing.stage \in {"deleted", "answered", "checking", "checked"} =>
           /\ closing.rev \in Nat
           /\ closing.chose => ChoiceOrLater(closing.rev + 1, stored, author)
    /\ closing.stage \in {"checking", "checked"}
           => closing.snap.rev = closing.rev + 1
    /\ closing.stage = "answered" => Genuine(closing.snap, stored)
    /\ closing.stage \in {"checked", "reread"} => Genuine(closing.now, stored)
    /\ closing.stage = "correcting" /\ closing.chose
           => ChoiceOrLater(closing.expected, stored, author)

\* The inductive invariant.
IInv ==
    /\ TypeOK /\ ServerInv /\ KnownInv /\ WireInv /\ WriteInv /\ CloseInv

-----------------------------------------------------------------------------
(* The operators of the server. *)

\* A set of terminals has a first and a last one.
LEMMA Extremes ==
    ASSUME NEW S \in SUBSET Terminals, S # {}
    PROVE  Least(S) \in S /\ Greatest(S) \in S
<1>1. PICK a \in S, b \in S : \A t \in S : a <= t /\ t <= b
  BY SelectionAssumption DEF SelectionAssumption
<1>2. (\E t \in S : \A u \in S : t <= u) /\ (\E t \in S : \A u \in S : u <= t)
  BY <1>1
<1> QED
  BY <1>2 DEF Least, Greatest

\* Resolving a selection keeps its terminals and focuses one of them.
LEMMA ResolveFocuses ==
    ASSUME NEW ids \in SUBSET Terminals, NEW focus
    PROVE  /\ Resolve(ids, focus) \in Choice
           /\ Resolve(ids, focus).ids = ids
           /\ \/ Resolve(ids, focus).focus \in ids
              \/ Resolve(ids, focus) = Nothing
<1>1. ids # {} => Least(ids) \in ids
  BY Extremes
<1> QED
  BY <1>1 DEF Resolve, Choice, Nothing

\* A snapshot is its selection and its revision.
LEMMA SameSnapshot ==
    ASSUME NEW a \in Snapshot, NEW b \in Snapshot,
           Sel(a) = Sel(b), a.rev = b.rev
    PROVE  a = b
<1>1. /\ a = [ids |-> a.ids, focus |-> a.focus, rev |-> a.rev]
      /\ b = [ids |-> b.ids, focus |-> b.focus, rev |-> b.rev]
  BY DEF Snapshot
<1>2. a.ids = b.ids /\ a.focus = b.focus
  BY DEF Sel
<1> QED
  BY <1>1, <1>2

\* Deleting a terminal leaves a selection of the remaining ones, under a new
\* revision if it is another one.
LEMMA DeletionKeepsSelection ==
    ASSUME NEW s \in Snapshot, NEW gone, NEW remaining \in SUBSET Terminals,
           s.ids \ {gone} \subseteq remaining
    PROVE  LET r == AfterDeletion(s, gone, remaining)
           IN /\ r \in Snapshot /\ r.ids \subseteq remaining
              /\ r.focus \in r.ids \/ Sel(r) = Nothing
              /\ r = s \/ r.rev = s.rev + 1
<1> DEFINE kept == Resolve(s.ids \ {gone}, s.focus)
           new == ReplacementTerminal(gone, remaining)
           replaced == s.ids = {gone} /\ s.focus = gone /\ remaining # {}
           next == IF replaced THEN [ids |-> {new}, focus |-> new] ELSE kept
           r == AfterDeletion(s, gone, remaining)
<1>1. /\ kept \in Choice /\ kept.ids \subseteq remaining
      /\ kept.focus \in kept.ids \/ kept = Nothing
  <2>1. s.ids \ {gone} \in SUBSET Terminals
    BY DEF Snapshot
  <2> QED
    BY <2>1, ResolveFocuses
<1>2. remaining # {} => new \in remaining
  <2> DEFINE later == {t \in remaining : t >= gone}
  <2>1. later \in SUBSET Terminals
    OBVIOUS
  <2>2. later # {} => Least(later) \in later
    BY <2>1, Extremes
  <2>3. remaining # {} => Greatest(remaining) \in remaining
    BY Extremes
  <2> QED
    BY <2>2, <2>3 DEF ReplacementTerminal
<1>3. /\ next \in Choice /\ next.ids \subseteq remaining
      /\ next.focus \in next.ids \/ next = Nothing
  BY <1>1, <1>2 DEF Choice
<1>4. r = [ids |-> next.ids, focus |-> next.focus,
           rev |-> IF next = Sel(s) THEN s.rev ELSE s.rev + 1]
  BY DEF AfterDeletion
<1> HIDE DEF next, r
<1>5. next = [ids |-> next.ids, focus |-> next.focus]
  BY <1>3 DEF Choice
<1>6. /\ r \in [ids : SUBSET Terminals, focus : Terminals \cup {None}, rev : Nat]
      /\ r.ids = next.ids /\ r.focus = next.focus
      /\ r.rev = IF next = Sel(s) THEN s.rev ELSE s.rev + 1
  BY <1>3, <1>4 DEF Snapshot, Choice
<1>7. Sel(r) = next
  BY <1>5, <1>6 DEF Sel
<1>8. ASSUME next = Sel(s) PROVE r = s
  BY <1>6, <1>7, <1>8, SameSnapshot DEF Snapshot
<1>9. r.ids \subseteq remaining /\ (r.focus \in r.ids \/ Sel(r) = Nothing)
  BY <1>3, <1>6, <1>7
<1> QED
  BY <1>6, <1>8, <1>9 DEF r, Snapshot

\* A replacement that the server accepts names terminals it has.
LEMMA ReplacementIsSelection ==
    ASSUME TypeOK, NEW sel, NEW expected, ReplaceOutcome(sel, expected) = "ok"
    PROVE  /\ Replaced(sel) \in Snapshot /\ Replaced(sel).ids \subseteq live
           /\ Replaced(sel).focus \in Replaced(sel).ids
                \/ Sel(Replaced(sel)) = Nothing
           /\ Replaced(sel).rev = stored.rev + 1 /\ expected = stored.rev
<1>1. sel.ids \subseteq live /\ expected = stored.rev
  BY DEF ReplaceOutcome
<1>2. sel.ids \in SUBSET Terminals /\ stored.rev \in Nat
  BY <1>1 DEF TypeOK, Snapshot
<1> DEFINE r == Resolve(sel.ids, sel.focus)
<1>3. /\ r \in Choice /\ r.ids = sel.ids
      /\ r.focus \in sel.ids \/ r = Nothing
  BY <1>2, ResolveFocuses
<1> HIDE DEF r
<1>4. Replaced(sel) = [ids |-> r.ids, focus |-> r.focus, rev |-> stored.rev + 1]
  BY DEF Replaced, r
<1>5. Replaced(sel) \in Snapshot
  BY <1>2, <1>3, <1>4 DEF Snapshot, Choice
<1>6. Sel(Replaced(sel)) = [ids |-> r.ids, focus |-> r.focus]
  BY <1>4 DEF Sel
<1>7. r = [ids |-> r.ids, focus |-> r.focus]
  BY <1>3 DEF Choice
<1> QED
  BY <1>1, <1>3, <1>4, <1>5, <1>6, <1>7

-----------------------------------------------------------------------------
(* What a step of the server leaves true. *)

\* The server keeps its selection, or takes another under the next revision.
Advances ==
    /\ live' \subseteq Terminals /\ stored' \in Snapshot
    /\ stored'.ids \subseteq live'
    /\ stored'.focus \in stored'.ids \/ Sel(stored)' = Nothing
    /\ \/ stored' = stored /\ author' = author
       \/ stored'.rev = stored.rev + 1

\* What was read from the server, and what it chose, stays in the past.
LEMMA AdvanceKeeps ==
    ASSUME TypeOK, Advances
    PROVE  /\ ServerInv' /\ Genuine(stored', stored')
           /\ stored.rev <= stored'.rev
           /\ \A s : Genuine(s, stored) => Genuine(s, stored')
           /\ \A r : ChoiceOrLater(r, stored, author)
                      => ChoiceOrLater(r, stored', author')
<1>1. stored.rev \in Nat /\ stored'.rev \in Nat
  BY DEF TypeOK, Snapshot, Advances
<1>2. ServerInv'
  BY DEF ServerInv, Advances
<1>3. ASSUME NEW s, Genuine(s, stored) PROVE Genuine(s, stored')
  <2>1. s.rev \in Nat
    BY <1>3 DEF Genuine, Snapshot
  <2> QED
    BY <1>1, <1>3, <2>1 DEF Genuine, Advances
<1>4. ASSUME NEW r, ChoiceOrLater(r, stored, author)
      PROVE  ChoiceOrLater(r, stored', author')
  BY <1>1, <1>4 DEF ChoiceOrLater, Advances
<1>5. Genuine(stored', stored')
  BY <1>1 DEF Genuine, Advances
<1> QED
  BY <1>1, <1>2, <1>3, <1>4, <1>5 DEF Advances

\* Events on their way stay, and a selection that is stored is sent.
LEMMA StorePublishes ==
    ASSUME TypeOK, WireInv, Advances, NEW s, NEW by, Store(s, by)
    PROVE  /\ events' \in Seq(Snapshot)
           /\ \A i \in 1..Len(events') : Genuine(events'[i], stored')
<1>1. /\ events \in Seq(Snapshot) /\ s = stored' /\ s \in Snapshot
      /\ Genuine(s, stored')
      /\ \A i \in 1..Len(events) : Genuine(events[i], stored')
  BY AdvanceKeeps DEF TypeOK, WireInv, Store, Advances
<1>2. CASE events' = events
  BY <1>1, <1>2
<1>3. CASE events' = Append(events, s)
  BY <1>1, <1>3, AppendProperties
<1> QED
  BY <1>2, <1>3 DEF Store

-----------------------------------------------------------------------------
(* What the browser takes. *)

\* Taking a snapshot of the server keeps the browser behind it.
LEMMA Taking ==
    ASSUME IInv, stored' = stored, NEW s, Genuine(s, stored),
           \/ ApplySelection(s)
           \/ AcceptSelection(s)
           \/ Record(s) /\ UNCHANGED <<shown, changed>>
    PROVE  /\ KnownInv' /\ shown' \in Choice /\ signature' \in Choice
           /\ known' \in Nat /\ changed' \in BOOLEAN
<1>1. Sel(s) \in Choice /\ s.rev \in Nat /\ s.rev <= stored.rev
  BY DEF Genuine, Snapshot, Sel, Choice
<1>2. s.rev = stored.rev => Sel(s) = Sel(stored)
  BY DEF Genuine
<1>3. \/ UNCHANGED <<known, signature>>
      \/ known' = s.rev /\ signature' = Sel(s)
  BY DEF AcceptSelection, ApplySelection, Record, mirrorVars
<1>4. \/ shown' = shown /\ changed' = changed
      \/ shown' = Sel(s) /\ changed' = TRUE
  BY DEF AcceptSelection, ApplySelection, Record, mirrorVars
<1>5. KnownInv' /\ signature' \in Choice /\ known' \in Nat
  BY <1>1, <1>2, <1>3 DEF IInv, KnownInv, TypeOK, Sel
<1>6. shown' \in Choice
  BY <1>1, <1>4 DEF IInv, TypeOK
<1>7. changed' \in BOOLEAN
  BY <1>4, Zenon DEF IInv, TypeOK
<1> QED
  BY <1>5, <1>6, <1>7

\* A snapshot replaces what is shown only when nothing is to be written.
LEMMA TakingWaits ==
    ASSUME NEW s, AcceptSelection(s), shown' # shown
    PROVE  ~HasUnsynced
BY DEF AcceptSelection, mirrorVars

-----------------------------------------------------------------------------
(* Each part of the invariant, over a step that does not touch its own      *)
(* variables but may be one of the server.                                  *)

\* A step that leaves the server alone counts as an advance.
LEMMA Unserved ==
    ASSUME IInv, UNCHANGED <<serverVars, author>>
    PROVE  Advances
BY DEF IInv, TypeOK, ServerInv, Advances, serverVars, Sel, Nothing

\* The browser knows no revision that is still to come.
LEMMA KnownKept ==
    ASSUME IInv, Advances, UNCHANGED <<known, signature>>
    PROVE  KnownInv'
<1>1. /\ known \in Nat /\ stored.rev \in Nat /\ stored'.rev \in Nat
      /\ stored' = stored \/ stored'.rev = stored.rev + 1
  BY DEF IInv, TypeOK, Snapshot, Advances
<1> QED
  BY <1>1 DEF IInv, KnownInv, Sel

\* Events, answers and creations stay genuine, and so does what is sent.
LEMMA WireKept ==
    ASSUME IInv, Advances, UNCHANGED answers,
           events' = events \/ \E s, by : Store(s, by),
           \/ creating' = creating
           \/ creating' = Idle
           \/ Genuine(creating'.snap, stored')
    PROVE  WireInv' /\ events' \in Seq(Snapshot)
<1>1. \A s : Genuine(s, stored) => Genuine(s, stored')
  BY AdvanceKeeps DEF IInv
<1>2. /\ events' \in Seq(Snapshot)
      /\ \A i \in 1..Len(events') : Genuine(events'[i], stored')
  <2>1. CASE events' = events
    BY <1>1, <2>1 DEF IInv, TypeOK, WireInv
  <2>2. CASE \E s, by : Store(s, by)
    BY <2>2, StorePublishes DEF IInv
  <2> QED
    BY <2>1, <2>2
<1>3. creating' # Idle => Genuine(creating'.snap, stored')
  BY <1>1 DEF IInv, WireInv
<1> QED
  BY <1>1, <1>2, <1>3 DEF IInv, WireInv

\* A write on its way stays what it was.
LEMMA WriteKept ==
    ASSUME IInv, Advances, UNCHANGED <<writeVars, versionVars, accepted>>
    PROVE  WriteInv'
<1>1. \A s : Genuine(s, stored) => Genuine(s, stored')
  BY AdvanceKeeps DEF IInv
<1> QED
  BY <1>1 DEF IInv, WriteInv, writeVars, versionVars

\* A close under way stays what it was.
LEMMA CloseKept ==
    ASSUME IInv, Advances, UNCHANGED closing
    PROVE  CloseInv'
<1>1. /\ \A s : Genuine(s, stored) => Genuine(s, stored')
      /\ \A r : ChoiceOrLater(r, stored, author)
                 => ChoiceOrLater(r, stored', author')
      /\ stored.rev \in Nat /\ stored'.rev \in Nat
      /\ stored.rev <= stored'.rev
  BY AdvanceKeeps DEF IInv, TypeOK, Snapshot, Advances
<1> QED
  BY <1>1 DEF IInv, CloseInv

-----------------------------------------------------------------------------
(* The steps. *)

\* The page starts with what it loaded.
LEMMA InitIInv == Init => IInv
<1> SUFFICES ASSUME Init PROVE IInv
  OBVIOUS
<1>1. Start \in Existing /\ Start \in Terminals /\ Existing \subseteq Terminals
  <2>1. PICK a \in Existing : \A t \in Existing : a <= t
    BY SelectionAssumption DEF SelectionAssumption
  <2>2. \E t \in Existing : \A u \in Existing : t <= u
    BY <2>1
  <2> QED
    BY <2>2, SelectionAssumption DEF Start, SelectionAssumption
<1>2. stored \in Snapshot /\ Sel(stored) \in Choice
  BY <1>1 DEF Init, Snapshot, Sel, Choice
<1>3. TypeOK
  <2>1. events \in Seq(Snapshot) /\ answers \subseteq Snapshot
    BY EmptySeq DEF Init
  <2>2. /\ live \subseteq Terminals /\ {edits, synced, accepted} \subseteq Nat
        /\ known \in Nat /\ shown \in Choice /\ signature \in Choice
    BY <1>1, <1>2 DEF Init
  <2>3. /\ {rejected, refocused} \subseteq BOOLEAN
        /\ changed \in BOOLEAN /\ subscribed \in BOOLEAN /\ pending = None
    BY Zenon DEF Init
  <2> QED
    BY <1>2, <2>1, <2>2, <2>3 DEF TypeOK
<1>4. ServerInv /\ KnownInv /\ WireInv
  BY <1>1, <1>2 DEF Init, ServerInv, KnownInv, WireInv
<1>5. WriteInv /\ CloseInv
  BY DEF Init, WriteInv, WriteStages, CloseInv, Idle
<1> QED
  BY <1>3, <1>4, <1>5 DEF IInv

\* Another client acts: the browser is not touched.
LEMMA OthersIInv ==
    ASSUME IInv, Others \/ Deletions
    PROVE  IInv'
<1> USE SelectionAssumption DEF SelectionAssumption
<1>1. CASE \E c \in OtherChoices : OtherSelects(c)
  <2>1. PICK c \in OtherChoices : OtherSelects(c)
    BY <1>1
  <2>2. Advances
    BY <2>1, ReplacementIsSelection
       DEF OtherSelects, Store, Advances, IInv, TypeOK, Sel, Nothing
  <2>3. \E s, by : Store(s, by)
    BY <2>1 DEF OtherSelects
  <2>4. TypeOK'
    BY <2>1, <2>2, <2>3, WireKept
       DEF OtherSelects, IInv, TypeOK, Advances, writeVars, mirrorVars, versionVars
  <2> QED
    BY <2>1, <2>2, <2>3, <2>4, AdvanceKeeps, KnownKept, WireKept, WriteKept, CloseKept
       DEF OtherSelects, IInv, mirrorVars
<1>2. CASE \E t \in Terminals : OtherDeletes(t)
  <2>1. PICK t \in Terminals : OtherDeletes(t)
    BY <1>2
  <2> DEFINE s == AfterDeletion(stored, t, live')
  <2>2. /\ live' = live \ {t} /\ stored' = s
        /\ author' = IF s = stored THEN author ELSE "other"
        /\ \E by : Store(s, by)
    BY <2>1 DEF OtherDeletes, Store
  <2>3. /\ live' \in SUBSET Terminals /\ stored \in Snapshot
        /\ stored.ids \ {t} \subseteq live'
    BY <2>2 DEF IInv, TypeOK, ServerInv
  <2>4. /\ s \in Snapshot /\ s.ids \subseteq live'
        /\ s.focus \in s.ids \/ Sel(s) = Nothing
        /\ s = stored \/ s.rev = stored.rev + 1
    BY <2>3, DeletionKeepsSelection
  <2>5. Advances
    BY <2>2, <2>3, <2>4 DEF Advances, Sel, Nothing
  <2>6. TypeOK'
    BY <2>1, <2>2, <2>5, WireKept
       DEF OtherDeletes, IInv, TypeOK, Advances, writeVars, mirrorVars, versionVars
  <2> QED
    BY <2>1, <2>2, <2>5, <2>6, AdvanceKeeps, KnownKept, WireKept, WriteKept, CloseKept
       DEF OtherDeletes, IInv, mirrorVars
<1> QED
  BY <1>1, <1>2 DEF Others, Deletions

\* The stream breaks or is opened again, and the selection is read.
LEMMA NetworkIInv ==
    ASSUME IInv, StreamBreaks \/ Resubscribe \/ ReadSelection
    PROVE  IInv'
<1> USE DEF StreamBreaks, Resubscribe, ReadSelection
<1>1. Advances
  BY Unserved DEF serverVars, historyVars
<1>2. events' = events \/ events' = <<>>
  BY DEF wireVars
<1>3. answers' = answers \/ answers' = answers \cup {stored}
  BY DEF wireVars
<1>4. stored' = stored /\ stored \in Snapshot
  BY DEF serverVars, IInv, TypeOK
<1>5. Genuine(stored, stored)
  BY <1>4 DEF Genuine, Snapshot
<1>6. events' \in Seq(Snapshot) /\ answers' \subseteq Snapshot
  BY <1>2, <1>3, <1>4, EmptySeq DEF IInv, TypeOK
<1>7. WireInv'
  BY <1>2, <1>3, <1>4, <1>5, EmptySeq DEF IInv, WireInv
<1>8. subscribed' \in BOOLEAN
  BY Zenon DEF IInv, TypeOK
<1>9. TypeOK'
  BY <1>1, <1>6, <1>8
     DEF IInv, TypeOK, Advances, serverVars, mirrorVars, versionVars, historyVars,
         writeVars
<1> QED
  BY <1>1, <1>7, <1>9, AdvanceKeeps, KnownKept, WriteKept, CloseKept
     DEF IInv, mirrorVars, historyVars

\* An event or an answer is handed to acceptServerSelection.
LEMMA DeliveriesIInv ==
    ASSUME IInv, Deliveries
    PROVE  IInv'
<1>1. /\ UNCHANGED <<serverVars, subscribed, writeVars, versionVars, closing,
                     creating, historyVars>>
      /\ \E s : AcceptSelection(s) /\ Genuine(s, stored)
      /\ \/ events # <<>> /\ events' = Tail(events) /\ answers' = answers
         \/ events' = events /\ answers' \subseteq answers
  <2>1. CASE DeliverEvent
    <3>1. events \in Seq(Snapshot) /\ events # <<>>
      BY <2>1 DEF DeliverEvent, IInv, TypeOK
    <3>2. Head(events) = events[1] /\ 1 \in 1..Len(events)
      BY <3>1, EmptySeq
    <3> QED
      BY <2>1, <3>2 DEF DeliverEvent, IInv, WireInv
  <2>2. CASE \E s \in answers : DeliverRead(s)
    BY <2>2 DEF DeliverRead, IInv, WireInv
  <2> QED
    BY <2>1, <2>2 DEF Deliveries
<1>2. Advances
  BY <1>1, Unserved DEF historyVars
<1>3. /\ KnownInv' /\ shown' \in Choice /\ signature' \in Choice
      /\ known' \in Nat /\ changed' \in BOOLEAN
  BY <1>1, Taking DEF serverVars
<1>4. events' \in Seq(Snapshot) /\ answers' \subseteq answers
      /\ \A i \in 1..Len(events') : Genuine(events'[i], stored)
  <2>1. CASE events # <<>> /\ events' = Tail(events)
    <3>1. /\ events' \in Seq(Snapshot) /\ Len(events') = Len(events) - 1
          /\ \A i \in 1..Len(events') : events'[i] = events[i + 1]
          /\ Len(events) \in Nat
      BY <2>1, HeadTailProperties DEF IInv, TypeOK
    <3> QED
      BY <1>1, <3>1 DEF IInv, WireInv
  <2> QED
    BY <1>1, <2>1 DEF IInv, TypeOK, WireInv
<1>5. WireInv'
  BY <1>1, <1>4 DEF IInv, WireInv, serverVars
<1>6. TypeOK'
  BY <1>1, <1>2, <1>3, <1>4
     DEF IInv, TypeOK, Advances, serverVars, versionVars, historyVars, writeVars
<1> QED
  BY <1>1, <1>2, <1>3, <1>5, <1>6, AdvanceKeeps, WriteKept, CloseKept
     DEF IInv, historyVars

\* The user clicks, and the effect takes note of it.
LEMMA EditIInv ==
    ASSUME IInv, Edits \/ Refocus
    PROVE  IInv'
<1>1. /\ UNCHANGED <<serverVars, wireVars, writeVars, known, signature, synced,
                     closing, creating, accepted, rejected, author>>
      /\ edits' = edits + 1 /\ shown' \in Choice
  BY SelectionAssumption
     DEF Edits, Edit, Refocus, historyVars, mirrorVars, SelectionAssumption, IInv, TypeOK
<1>2. changed' \in BOOLEAN /\ refocused' \in BOOLEAN
  BY Zenon DEF Edits, Edit, Refocus, historyVars, mirrorVars, IInv, TypeOK
<1>3. Advances
  BY <1>1, Unserved
<1>4. TypeOK'
  BY <1>1, <1>2, <1>3
     DEF IInv, TypeOK, Advances, serverVars, wireVars, writeVars
<1>5. WriteInv'
  BY <1>1 DEF IInv, TypeOK, WriteInv, writeVars, serverVars
<1> QED
  BY <1>1, <1>3, <1>4, <1>5, AdvanceKeeps, KnownKept, WireKept, CloseKept
     DEF IInv, wireVars

\* The effect sends a request for the edit, or lets it wait.
LEMMA RunEffectIInv ==
    ASSUME IInv, RunEffect
    PROVE  IInv'
<1> DEFINE request == [sel |-> shown, version |-> edits]
<1>1. /\ UNCHANGED <<serverVars, wireVars, shown, known, signature, edits,
                     closing, creating, author, rejected, refocused>>
      /\ changed' = FALSE
      /\ \/ /\ write = Idle /\ synced' = edits /\ accepted' = edits
            /\ UNCHANGED writeVars
         \/ Send(request, known) /\ UNCHANGED <<synced, accepted>>
         \/ pending' = request /\ UNCHANGED <<write, synced, accepted>>
  BY DEF RunEffect
<1>2. Advances
  BY <1>1, Unserved
<1>3. request \in [sel : Choice, version : Nat]
  BY DEF IInv, TypeOK
<1>4. \/ UNCHANGED writeVars
      \/ /\ write' = [stage |-> "sent", sel |-> shown, version |-> edits,
                       expected |-> known]
         /\ pending' = None
      \/ pending' = request /\ UNCHANGED write
  BY <1>1 DEF Send
<1>5. WriteInv'
  <2>1. CASE UNCHANGED writeVars
    BY <1>1, <2>1 DEF IInv, TypeOK, WriteInv, writeVars, serverVars, Idle, Send
  <2>2. CASE Send(request, known) /\ UNCHANGED <<synced, accepted>>
    BY <1>1, <2>2 DEF IInv, TypeOK, WriteInv, WriteStages, Send
  <2>3. CASE pending' = request /\ UNCHANGED <<write, synced, accepted>>
    BY <1>1, <2>3 DEF IInv, TypeOK, WriteInv, serverVars
  <2> QED
    BY <1>1, <2>1, <2>2, <2>3
<1>6. /\ {edits', synced', accepted'} \subseteq Nat
      /\ pending' = None \/ pending' \in [sel : Choice, version : Nat]
  BY <1>1, <1>3, <1>4 DEF IInv, TypeOK, writeVars
<1>7. TypeOK'
  BY <1>1, <1>2, <1>6, Zenon DEF IInv, TypeOK, Advances, serverVars, wireVars
<1> QED
  BY <1>1, <1>2, <1>5, <1>7, AdvanceKeeps, KnownKept, WireKept, CloseKept
     DEF IInv, wireVars

\* The server takes a write, or refuses it.
LEMMA ServerWritesIInv ==
    ASSUME IInv, ServerWrites
    PROVE  IInv'
<1>1. /\ write.stage = "sent" /\ write.version \in Nat /\ write.version <= edits
      /\ UNCHANGED <<live, subscribed, answers, mirrorVars, versionVars, pending,
                     closing, creating, rejected, refocused>>
  BY DEF ServerWrites, IInv, WriteInv
<1>2. CASE ReplaceOutcome(write.sel, write.expected) = "ok"
  <2>1. /\ stored' = Replaced(write.sel) /\ Store(Replaced(write.sel), "browser")
        /\ accepted' = IF write.version > accepted THEN write.version ELSE accepted
        /\ write' = [stage |-> "answered", sel |-> write.sel,
                     version |-> write.version, snap |-> stored']
    BY <1>2 DEF ServerWrites, Store
  <2>2. Advances
    BY <1>1, <1>2, <2>1, ReplacementIsSelection
       DEF Advances, IInv, TypeOK, Sel, Nothing
  <2>3. accepted' \in Nat /\ accepted <= accepted' /\ write.version <= accepted'
        /\ accepted' <= edits
    BY <1>1, <2>1 DEF IInv, TypeOK, WriteInv
  <2>4. WireInv' /\ events' \in Seq(Snapshot)
    BY <1>1, <2>1, <2>2, WireKept
  <2>5. WriteInv'
    BY <1>1, <2>1, <2>2, <2>3, AdvanceKeeps
       DEF IInv, TypeOK, WriteInv, WriteStages, versionVars
  <2>6. TypeOK'
    BY <1>1, <2>2, <2>3, <2>4
       DEF IInv, TypeOK, Advances, mirrorVars, versionVars
  <2> QED
    BY <1>1, <2>2, <2>4, <2>5, <2>6, AdvanceKeeps, KnownKept, CloseKept
       DEF IInv, mirrorVars
<1>3. CASE ReplaceOutcome(write.sel, write.expected) # "ok"
  <2>1. /\ write'.stage \in {"refused", "failed"}
        /\ write'.version = write.version
        /\ UNCHANGED <<stored, events, accepted, author>>
    BY <1>3 DEF ServerWrites
  <2>2. Advances
    BY <1>1, <2>1, Unserved DEF serverVars
  <2>3. WriteInv'
    BY <1>1, <2>1 DEF IInv, WriteInv, WriteStages, versionVars
  <2>4. TypeOK'
    BY <1>1, <2>1, <2>2 DEF IInv, TypeOK, Advances, mirrorVars, versionVars
  <2> QED
    BY <1>1, <2>1, <2>2, <2>3, <2>4, AdvanceKeeps, KnownKept, WireKept, CloseKept
       DEF IInv, mirrorVars
<1> QED
  BY <1>2, <1>3

\* What follows the end of a request: the pending one, or none.
LEMMA Continuing ==
    ASSUME IInv, NEW revision, Continue(revision), UNCHANGED <<stored, edits>>
    PROVE  /\ pending' = None
           /\ write'.stage \in {"idle", "sent"}
           /\ write'.stage = "idle" => write' = Idle
           /\ write'.stage = "sent" => write'.version \in Nat /\ write'.version <= edits'
<1>1. CASE pending # None /\ Send(pending, revision)
  BY <1>1 DEF IInv, TypeOK, WriteInv, Send
<1>2. CASE pending = None /\ write' = Idle /\ UNCHANGED pending
  BY <1>2 DEF Idle
<1> QED
  BY <1>1, <1>2 DEF Continue

\* The answer to a write is taken unless the user went on.
LEMMA WriteAnsweredIInv ==
    ASSUME IInv, WriteAnswered
    PROVE  IInv'
<1>1. /\ write.stage = "answered" /\ Genuine(write.snap, stored)
      /\ write.version \in Nat /\ write.version <= edits
      /\ write.version <= accepted
      /\ UNCHANGED <<serverVars, wireVars, edits, closing, creating, historyVars>>
      /\ Continue(write.snap.rev)
      /\ synced' = synced \/ synced' = write.version
      /\ \/ ApplySelection(write.snap)
         \/ Record(write.snap) /\ UNCHANGED <<shown, changed>>
  BY DEF WriteAnswered, IInv, WriteInv
<1>2. Advances
  BY <1>1, Unserved DEF historyVars
<1>3. /\ KnownInv' /\ shown' \in Choice /\ signature' \in Choice
      /\ known' \in Nat /\ changed' \in BOOLEAN
  BY <1>1, Taking DEF serverVars
<1>4. /\ pending' = None
      /\ write'.stage \in {"idle", "sent"}
      /\ write'.stage = "idle" => write' = Idle
      /\ write'.stage = "sent" => write'.version \in Nat /\ write'.version <= edits'
  BY <1>1, Continuing DEF serverVars
<1>5. synced' \in Nat /\ synced' <= accepted
  BY <1>1 DEF IInv, TypeOK, WriteInv
<1>6. WriteInv'
  BY <1>1, <1>4, <1>5 DEF IInv, WriteInv, WriteStages, historyVars
<1>7. TypeOK'
  BY <1>1, <1>2, <1>3, <1>4, <1>5
     DEF IInv, TypeOK, Advances, serverVars, wireVars, historyVars
<1> QED
  BY <1>1, <1>2, <1>3, <1>6, <1>7, AdvanceKeeps, WireKept, CloseKept
     DEF IInv, wireVars

\* After a conflict the selection is read, and the write is sent again.
LEMMA ReadAfterConflictIInv ==
    ASSUME IInv, ReadAfterConflict
    PROVE  IInv'
<1>1. /\ write.version \in Nat /\ write.version <= edits
      /\ write' = [stage |-> "reread", sel |-> write.sel,
                   version |-> write.version, snap |-> stored]
      /\ UNCHANGED <<serverVars, wireVars, mirrorVars, versionVars, pending,
                     closing, creating, historyVars>>
  BY DEF ReadAfterConflict, IInv, WriteInv
<1>2. Advances
  BY <1>1, Unserved DEF historyVars
<1>3. Genuine(stored, stored')
  BY <1>1, <1>2, AdvanceKeeps DEF serverVars, IInv
<1>4. WriteInv'
  BY <1>1, <1>3 DEF IInv, WriteInv, WriteStages, historyVars, versionVars
<1>5. TypeOK'
  BY <1>1, <1>2
     DEF IInv, TypeOK, Advances, serverVars, wireVars, historyVars, mirrorVars, versionVars
<1> QED
  BY <1>1, <1>2, <1>4, <1>5, AdvanceKeeps, KnownKept, WireKept, CloseKept
     DEF IInv, wireVars, mirrorVars

\* The retry is about the newest edit.
LEMMA RetryWriteIInv ==
    ASSUME IInv, RetryWrite
    PROVE  IInv'
<1> DEFINE request == IF pending # None THEN pending ELSE write
<1>1. /\ write.stage = "reread" /\ Genuine(write.snap, stored)
      /\ write.version \in Nat /\ write.version <= edits
      /\ UNCHANGED <<serverVars, wireVars, shown, changed, versionVars, closing,
                     creating, historyVars>>
      /\ Record(write.snap) /\ Send(request, write.snap.rev)
  BY DEF RetryWrite, IInv, WriteInv
<1>2. Advances
  BY <1>1, Unserved DEF historyVars
<1>3. /\ KnownInv' /\ shown' \in Choice /\ signature' \in Choice
      /\ known' \in Nat /\ changed' \in BOOLEAN
  BY <1>1, Taking DEF serverVars
<1>4. request.version \in Nat /\ request.version <= edits
  BY <1>1 DEF IInv, TypeOK, WriteInv
<1> HIDE DEF request
<1>5. /\ pending' = None /\ write'.stage = "sent"
      /\ write'.version = request.version
  BY <1>1 DEF Send
<1>6. WriteInv'
  BY <1>1, <1>4, <1>5 DEF IInv, WriteInv, WriteStages, historyVars, versionVars
<1>7. TypeOK'
  BY <1>1, <1>2, <1>3, <1>5
     DEF IInv, TypeOK, Advances, serverVars, wireVars, historyVars, versionVars
<1> QED
  BY <1>1, <1>2, <1>3, <1>6, <1>7, AdvanceKeeps, WireKept, CloseKept
     DEF IInv, wireVars

\* A write that fails is given up.
LEMMA WriteFailsIInv ==
    ASSUME IInv, WriteBreaks \/ WriteFailed
    PROVE  IInv'
<1>1. /\ UNCHANGED <<serverVars, wireVars, mirrorVars, versionVars, closing,
                     creating, accepted, refocused, author>>
      /\ \/ write' = [stage |-> "failed"] /\ pending' = pending
         \/ Continue(known)
  BY DEF WriteBreaks, WriteFailed, historyVars
<1>2. rejected' \in BOOLEAN
  BY Zenon DEF WriteBreaks, WriteFailed, historyVars, IInv, TypeOK
<1>3. Advances
  BY <1>1, Unserved
<1>4. /\ pending' = pending \/ pending' = None
      /\ write'.stage \in {"failed", "idle", "sent"}
      /\ write'.stage = "idle" => write' = Idle
      /\ write'.stage = "sent" => write'.version \in Nat /\ write'.version <= edits'
  <2>1. CASE write' = [stage |-> "failed"] /\ pending' = pending
    BY <2>1
  <2>2. CASE Continue(known)
    BY <1>1, <2>2, Continuing DEF serverVars, versionVars
  <2> QED
    BY <1>1, <2>1, <2>2
<1>5. WriteInv'
  BY <1>1, <1>4 DEF IInv, WriteInv, WriteStages, versionVars
<1>6. TypeOK'
  BY <1>1, <1>2, <1>3, <1>4
     DEF IInv, TypeOK, Advances, serverVars, wireVars, mirrorVars, versionVars
<1> QED
  BY <1>1, <1>3, <1>5, <1>6, AdvanceKeeps, KnownKept, WireKept, CloseKept
     DEF IInv, wireVars, mirrorVars

\* The user closes a terminal, or the close fails.
LEMMA StartCloseIInv ==
    ASSUME IInv, Closes \/ CloseBreaks
    PROVE  IInv'
<1>1. /\ UNCHANGED <<serverVars, wireVars, writeVars, mirrorVars, versionVars,
                     creating, historyVars>>
      /\ \/ closing' = Idle
         \/ \E t \in Terminals :
                closing' = [stage |-> "deleting", removed |-> t, before |-> shown,
                            rev |-> known, previous |-> live, chose |-> FALSE,
                            snap |-> None, now |-> None]
  BY DEF Closes, StartClose, CloseBreaks
<1>2. Advances
  BY <1>1, Unserved DEF historyVars
<1>3. CloseInv'
  <2>1. CASE closing' = Idle
    BY <2>1 DEF CloseInv, Idle
  <2>2. CASE \E t \in Terminals :
                closing' = [stage |-> "deleting", removed |-> t, before |-> shown,
                            rev |-> known, previous |-> live, chose |-> FALSE,
                            snap |-> None, now |-> None]
    BY <1>1, <2>2 DEF CloseInv, IInv, TypeOK, KnownInv, serverVars
  <2> QED
    BY <1>1, <2>1, <2>2
<1>4. TypeOK'
  BY <1>1, <1>2
     DEF IInv, TypeOK, Advances, serverVars, wireVars, writeVars, historyVars,
         mirrorVars, versionVars
<1> QED
  BY <1>1, <1>2, <1>3, <1>4, AdvanceKeeps, KnownKept, WireKept, WriteKept
     DEF IInv, wireVars, mirrorVars, historyVars

\* The server deletes the terminal, then answers with its selection.
LEMMA ServerClosesIInv ==
    ASSUME IInv, ServerCloses
    PROVE  IInv'
<1>1. /\ closing.stage \in {"deleting", "deleted"}
      /\ UNCHANGED <<subscribed, answers, writeVars, mirrorVars, versionVars,
                     creating, accepted, rejected, refocused>>
  BY DEF ServerCloses, serverVars, wireVars, historyVars
<1>2. CASE closing.stage = "deleting" /\ closing.removed \in live
  <2> DEFINE t == closing.removed
             s == AfterDeletion(stored, t, live')
  <2>1. /\ live' = live \ {t} /\ stored' = s
        /\ author' = IF s = stored THEN author ELSE "close"
        /\ \E by : Store(s, by)
        /\ closing' = [closing EXCEPT !.stage = "deleted", !.chose = s # stored]
    BY <1>2 DEF ServerCloses, Store
  <2>2. /\ live' \in SUBSET Terminals /\ stored \in Snapshot
        /\ stored.ids \ {t} \subseteq live'
    BY <2>1 DEF IInv, TypeOK, ServerInv
  <2>3. /\ s \in Snapshot /\ s.ids \subseteq live'
        /\ s.focus \in s.ids \/ Sel(s) = Nothing
        /\ s = stored \/ s.rev = stored.rev + 1
    BY <2>2, DeletionKeepsSelection
  <2> HIDE DEF s
  <2>4. Advances
    BY <2>1, <2>2, <2>3 DEF Advances, Sel, Nothing
  <2>5. /\ DOMAIN closing' = DOMAIN closing /\ closing'.stage = "deleted"
        /\ closing'.rev = closing.rev
        /\ closing'.chose = (s # stored)
    BY <1>2, <2>1 DEF IInv, CloseInv
  <2>6. closing.rev \in Nat /\ closing.rev <= stored.rev /\ stored.rev \in Nat
    BY <1>2, <2>2 DEF IInv, CloseInv, Snapshot
  <2>7. closing'.chose => ChoiceOrLater(closing'.rev + 1, stored', author')
    <3>1. closing'.chose => s # stored
      BY <2>5, Zenon
    <3> QED
      BY <2>1, <2>3, <2>5, <2>6, <3>1 DEF ChoiceOrLater
  <2>8. CloseInv'
    BY <1>2, <2>5, <2>6, <2>7 DEF IInv, CloseInv
  <2>9. TypeOK'
    BY <1>1, <2>1, <2>4, WireKept
       DEF IInv, TypeOK, Advances, writeVars, mirrorVars, versionVars
  <2> QED
    BY <1>1, <2>1, <2>4, <2>8, <2>9, AdvanceKeeps, KnownKept, WireKept, WriteKept
       DEF IInv, mirrorVars
<1>3. CASE ~(closing.stage = "deleting" /\ closing.removed \in live)
  <2>1. /\ UNCHANGED <<serverVars, wireVars, author>>
        /\ \/ closing' = Idle
           \/ /\ closing.stage = "deleted"
              /\ closing' = [closing EXCEPT !.stage = "answered", !.snap = stored]
    BY <1>3 DEF ServerCloses, historyVars
  <2>2. Advances
    BY <2>1, Unserved
  <2>3. Genuine(stored, stored)
    BY <2>1, <2>2, AdvanceKeeps DEF serverVars, IInv
  <2>4. CloseInv'
    <3>1. CASE closing' = Idle
      BY <3>1 DEF CloseInv, Idle
    <3>2. CASE /\ closing.stage = "deleted"
               /\ closing' = [closing EXCEPT !.stage = "answered", !.snap = stored]
      <4>1. /\ DOMAIN closing' = DOMAIN closing /\ closing'.stage = "answered"
            /\ closing'.snap = stored /\ closing'.rev = closing.rev
            /\ closing'.chose = closing.chose
        BY <3>2 DEF IInv, CloseInv
      <4> QED
        BY <2>1, <2>3, <3>2, <4>1 DEF IInv, CloseInv, serverVars
    <3> QED
      BY <2>1, <3>1, <3>2
  <2>5. TypeOK'
    BY <1>1, <2>1, <2>2
       DEF IInv, TypeOK, Advances, wireVars, writeVars, mirrorVars, versionVars
  <2> QED
    BY <1>1, <2>1, <2>2, <2>4, <2>5, AdvanceKeeps, KnownKept, WireKept, WriteKept
       DEF IInv, mirrorVars, wireVars
<1> QED
  BY <1>2, <1>3

\* The browser takes the answer of a single close no further than its stage.
LEMMA CloseAnsweredIInv ==
    ASSUME IInv, CloseAnswered
    PROVE  IInv'
<1>1. /\ closing.stage = "answered" /\ Genuine(closing.snap, stored)
      /\ "stage" \in DOMAIN closing /\ "now" \in DOMAIN closing
      /\ UNCHANGED <<serverVars, wireVars, writeVars, versionVars, creating,
                     historyVars>>
      /\ UNCHANGED mirrorVars \/ AcceptSelection(closing.snap)
  BY DEF CloseAnswered, IInv, CloseInv
<1>2. Advances
  BY <1>1, Unserved DEF historyVars
<1>3. /\ KnownInv' /\ shown' \in Choice /\ signature' \in Choice
      /\ known' \in Nat /\ changed' \in BOOLEAN
  <2>1. CASE UNCHANGED mirrorVars
    <3>1. changed' \in BOOLEAN
      BY <2>1, Zenon DEF mirrorVars, IInv, TypeOK
    <3> QED
      BY <1>2, <2>1, <3>1, KnownKept DEF mirrorVars, IInv, TypeOK
  <2>2. CASE AcceptSelection(closing.snap)
    BY <1>1, <2>2, Taking DEF serverVars
  <2> QED
    BY <1>1, <2>1, <2>2
<1>4. CloseInv'
  <2>1. CASE closing' = Idle
    BY <2>1 DEF CloseInv, Idle
  <2>2. CASE closing' # Idle
    <3>1. closing' = [closing EXCEPT !.stage =
                         IF SameIntent /\ closing.snap.rev = closing.rev + 1
                         THEN "checking" ELSE "rereading"]
      BY <2>2 DEF CloseAnswered
    <3>2. /\ DOMAIN closing' = DOMAIN closing /\ closing'.rev = closing.rev
          /\ closing'.snap = closing.snap /\ closing'.chose = closing.chose
          /\ closing'.stage \in {"checking", "rereading"}
          /\ closing'.stage = "checking" => closing.snap.rev = closing.rev + 1
      BY <1>1, <3>1
    <3> QED
      BY <1>1, <3>2 DEF IInv, CloseInv, serverVars, historyVars
  <2> QED
    BY <2>1, <2>2
<1>5. TypeOK'
  BY <1>1, <1>2, <1>3
     DEF IInv, TypeOK, Advances, wireVars, writeVars, versionVars, historyVars
<1> QED
  BY <1>1, <1>2, <1>3, <1>4, <1>5, AdvanceKeeps, WireKept, WriteKept
     DEF IInv, wireVars, historyVars

\* The close reads the selection once more.
LEMMA CloseReadsIInv ==
    ASSUME IInv, CloseReads
    PROVE  IInv'
<1>1. /\ closing.stage \in {"checking", "rereading"}
      /\ "stage" \in DOMAIN closing /\ "now" \in DOMAIN closing
      /\ UNCHANGED <<serverVars, wireVars, writeVars, mirrorVars, versionVars,
                     creating, historyVars>>
      /\ closing' = [closing EXCEPT !.stage = IF @ = "checking" THEN "checked"
                                              ELSE "reread", !.now = stored]
  BY DEF CloseReads, IInv, CloseInv
<1>2. Advances
  BY <1>1, Unserved DEF historyVars
<1>3. Genuine(stored, stored)
  BY <1>1, <1>2, AdvanceKeeps DEF serverVars, IInv
<1>4. /\ DOMAIN closing' = DOMAIN closing /\ closing'.rev = closing.rev
      /\ closing'.snap = closing.snap /\ closing'.chose = closing.chose
      /\ closing'.now = stored
      /\ closing'.stage = IF closing.stage = "checking" THEN "checked" ELSE "reread"
  BY <1>1
<1>5. CloseInv'
  BY <1>1, <1>3, <1>4 DEF IInv, CloseInv, serverVars, historyVars
<1>6. TypeOK'
  BY <1>1, <1>2
     DEF IInv, TypeOK, Advances, wireVars, writeVars, mirrorVars, versionVars, historyVars
<1> QED
  BY <1>1, <1>2, <1>5, <1>6, AdvanceKeeps, KnownKept, WireKept, WriteKept
     DEF IInv, wireVars, mirrorVars, historyVars

\* A correction expects the revision that the close was checked under.
LEMMA CloseTakesIInv ==
    ASSUME IInv, CloseTakes
    PROVE  IInv'
<1>1. /\ closing.stage \in {"checked", "reread"} /\ Genuine(closing.now, stored)
      /\ UNCHANGED <<serverVars, wireVars, writeVars, versionVars, creating,
                     historyVars>>
      /\ AcceptSelection(closing.now)
  BY DEF CloseTakes, IInv, CloseInv
<1>2. Advances
  BY <1>1, Unserved DEF historyVars
<1>3. /\ KnownInv' /\ shown' \in Choice /\ signature' \in Choice
      /\ known' \in Nat /\ changed' \in BOOLEAN
  BY <1>1, Taking DEF serverVars
<1>4. CloseInv'
  <2>1. CASE closing' = Idle
    BY <2>1 DEF CloseInv, Idle
  <2>2. CASE closing' # Idle
    <3>1. /\ closing.stage = "checked" /\ closing.now = closing.snap
          /\ closing' = [stage |-> "correcting", removed |-> closing.removed,
                         sel |-> Correction(closing.now),
                         expected |-> closing.now.rev, chose |-> closing.chose]
      BY <2>2 DEF CloseTakes
    <3>2. closing.now.rev = closing.rev + 1
      BY <3>1 DEF IInv, CloseInv
    <3> QED
      BY <1>1, <3>1, <3>2 DEF IInv, CloseInv, serverVars, historyVars
  <2> QED
    BY <2>1, <2>2
<1>5. TypeOK'
  BY <1>1, <1>2, <1>3
     DEF IInv, TypeOK, Advances, wireVars, writeVars, versionVars, historyVars
<1> QED
  BY <1>1, <1>2, <1>3, <1>4, <1>5, AdvanceKeeps, WireKept, WriteKept
     DEF IInv, wireVars, historyVars

\* The server takes a correction under the revision it expects.
LEMMA ServerCorrectsIInv ==
    ASSUME IInv, ServerCorrects
    PROVE  IInv'
<1>1. UNCHANGED <<live, subscribed, answers, writeVars, mirrorVars, versionVars,
                  creating, accepted, rejected, refocused>>
  BY DEF ServerCorrects
<1>2. CASE ReplaceOutcome(closing.sel, closing.expected) = "ok"
  <2>1. /\ stored' = Replaced(closing.sel)
        /\ Store(Replaced(closing.sel), "browser")
        /\ closing' = [stage |-> "reread", now |-> stored']
    BY <1>2 DEF ServerCorrects, Store
  <2>2. Advances
    BY <1>1, <1>2, <2>1, ReplacementIsSelection
       DEF Advances, IInv, TypeOK, Sel, Nothing
  <2>3. CloseInv'
    BY <2>1, <2>2, AdvanceKeeps DEF IInv, CloseInv
  <2>4. TypeOK'
    BY <1>1, <2>1, <2>2, WireKept
       DEF IInv, TypeOK, Advances, writeVars, mirrorVars, versionVars
  <2> QED
    BY <1>1, <2>1, <2>2, <2>3, <2>4, AdvanceKeeps, KnownKept, WireKept, WriteKept
       DEF IInv, mirrorVars
<1>3. CASE ReplaceOutcome(closing.sel, closing.expected) # "ok"
  <2>1. /\ closing' \in {[stage |-> "rereading", now |-> None], Idle}
        /\ UNCHANGED <<stored, events, author>>
    BY <1>3 DEF ServerCorrects
  <2>2. Advances
    BY <1>1, <2>1, Unserved DEF serverVars
  <2>3. CloseInv'
    BY <2>1 DEF CloseInv, Idle
  <2>4. TypeOK'
    BY <1>1, <2>1, <2>2
       DEF IInv, TypeOK, Advances, writeVars, mirrorVars, versionVars
  <2> QED
    BY <1>1, <2>1, <2>2, <2>3, <2>4, AdvanceKeeps, KnownKept, WireKept, WriteKept
       DEF IInv, mirrorVars
<1> QED
  BY <1>2, <1>3

\* A created terminal is selected; the browser takes the answer at once.
LEMMA CreatesIInv ==
    ASSUME IInv, Creates
    PROVE  IInv'
<1>1. PICK t \in Terminals, split \in BOOLEAN : ServerCreates(t, split)
  BY DEF Creates
<1> DEFINE ids == IF split THEN stored.ids \cup {t} ELSE {t}
           s == [ids |-> ids, focus |-> t, rev |-> stored.rev + 1]
<1>2. /\ live' = live \cup {t} /\ stored' = s /\ Store(s, "browser")
      /\ creating' = [stage |-> "created", snap |-> stored']
      /\ UNCHANGED <<subscribed, answers, writeVars, mirrorVars, versionVars,
                     closing, accepted, rejected, refocused>>
  BY <1>1 DEF ServerCreates, Store
<1>3. /\ ids \subseteq live' /\ t \in ids /\ live' \subseteq Terminals
      /\ stored.rev + 1 \in Nat
  BY <1>2 DEF IInv, TypeOK, ServerInv, Snapshot
<1> HIDE DEF ids
<1>4. Advances
  BY <1>2, <1>3 DEF Advances, Snapshot
<1>5. WireInv' /\ events' \in Seq(Snapshot)
  BY <1>2, <1>4, AdvanceKeeps, WireKept DEF IInv
<1>6. TypeOK'
  BY <1>2, <1>4, <1>5
     DEF IInv, TypeOK, Advances, writeVars, mirrorVars, versionVars
<1> QED
  BY <1>2, <1>4, <1>5, <1>6, AdvanceKeeps, KnownKept, WriteKept, CloseKept
     DEF IInv, mirrorVars

\* The browser takes what the server selected for the new terminal.
LEMMA CreateAnsweredIInv ==
    ASSUME IInv, CreateAnswered
    PROVE  IInv'
<1>1. /\ creating' = Idle /\ Genuine(creating.snap, stored)
      /\ ApplySelection(creating.snap)
      /\ UNCHANGED <<serverVars, wireVars, writeVars, versionVars, closing,
                     historyVars>>
  BY DEF CreateAnswered, IInv, WireInv
<1>2. Advances
  BY <1>1, Unserved DEF historyVars
<1>3. /\ KnownInv' /\ shown' \in Choice /\ signature' \in Choice
      /\ known' \in Nat /\ changed' \in BOOLEAN
  BY <1>1, Taking DEF serverVars
<1>4. TypeOK'
  BY <1>1, <1>2, <1>3
     DEF IInv, TypeOK, Advances, wireVars, writeVars, versionVars, historyVars
<1> QED
  BY <1>1, <1>2, <1>3, <1>4, AdvanceKeeps, WireKept, WriteKept, CloseKept
     DEF IInv, wireVars, historyVars

\* Every step of the browser, the server or the network keeps the invariant.
LEMMA NextIInv == IInv /\ [Next]_vars => IInv'
<1> SUFFICES ASSUME IInv, [Next]_vars PROVE IInv'
  OBVIOUS
<1>1. CASE UNCHANGED vars
  <2>1. Advances
    BY <1>1, Unserved DEF vars, historyVars
  <2>2. TypeOK'
    BY <1>1 DEF vars, serverVars, wireVars, writeVars, mirrorVars, versionVars,
                historyVars, IInv, TypeOK
  <2> QED
    BY <1>1, <2>1, <2>2, AdvanceKeeps, KnownKept, WireKept, WriteKept, CloseKept
       DEF vars, wireVars, mirrorVars, historyVars, IInv
<1>2. CASE Next
  BY <1>2, OthersIInv, NetworkIInv, DeliveriesIInv, EditIInv, RunEffectIInv,
     ServerWritesIInv, WriteAnsweredIInv, ReadAfterConflictIInv, RetryWriteIInv,
     WriteFailsIInv, StartCloseIInv, ServerClosesIInv, CloseAnsweredIInv,
     CloseReadsIInv, CloseTakesIInv, ServerCorrectsIInv, CreatesIInv,
     CreateAnsweredIInv, Zenon DEF Next
<1> QED
  BY <1>1, <1>2

-----------------------------------------------------------------------------
(* The theorems. *)

\* The inductive invariant holds of every behaviour.
THEOREM IInvAlways == Spec => []IInv
BY InitIInv, NextIInv, PTL DEF Spec

\* The selection of the server names terminals it has and focuses one of them,
\* and a browser that knows its revision knows it.
THEOREM SelectionSafe == Spec => []SelectionInv
<1>1. IInv => SelectionInv
  BY DEF IInv, ServerInv, KnownInv, SelectionInv
<1> QED
  BY <1>1, IInvAlways, PTL

\* A snapshot replaces what the user of the browser chose only when the server
\* has had that choice.
THEOREM EditsAreNotUndone == Spec => EditsReachServer
<1>1. ASSUME IInv, Next, shown' # shown, edits' = edits, creating' = creating
      PROVE  accepted' = edits
  <2>1. /\ {edits, synced, accepted} \subseteq Nat
        /\ synced <= accepted /\ accepted <= edits
    BY <1>1 DEF IInv, TypeOK, WriteInv
  <2>2. CASE ~HasUnsynced /\ accepted' = accepted
    BY <2>1, <2>2 DEF HasUnsynced
  <2>3. CASE WriteAnswered
    <3>1. write.version \in Nat /\ write.version <= accepted
      BY <1>1, <2>3 DEF WriteAnswered, IInv, WriteInv
    <3>2. edits <= write.version /\ accepted' = accepted
      BY <1>1, <2>3 DEF WriteAnswered, historyVars
    <3> QED
      BY <2>1, <3>1, <3>2
  <2>4. CASE Deliveries
    BY <1>1, <2>2, <2>4, TakingWaits
       DEF Deliveries, DeliverEvent, DeliverRead, historyVars
  <2>5. CASE CloseAnswered
    BY <1>1, <2>2, <2>5, TakingWaits DEF CloseAnswered, mirrorVars, historyVars
  <2>6. CASE CloseTakes
    BY <1>1, <2>2, <2>6, TakingWaits DEF CloseTakes, historyVars
  <2>7. CASE CreateAnswered
    BY <1>1, <2>7 DEF CreateAnswered
  <2>8. CASE Edits
    BY <1>1, <2>1, <2>8 DEF Edits, Edit
  <2>9. ASSUME \/ Others \/ Deletions \/ Refocus \/ Closes \/ Creates \/ RunEffect
               \/ ServerWrites \/ ReadAfterConflict \/ RetryWrite \/ WriteFailed
               \/ ServerCloses \/ CloseReads \/ ServerCorrects \/ ReadSelection
               \/ Resubscribe \/ StreamBreaks \/ WriteBreaks \/ CloseBreaks
        PROVE  shown' = shown
    BY <2>9 DEF Others, Deletions, OtherSelects, OtherDeletes, Refocus, Closes,
       StartClose, Creates, ServerCreates, RunEffect, ServerWrites,
       ReadAfterConflict, RetryWrite, WriteFailed, ServerCloses, CloseReads,
       ServerCorrects, ReadSelection, Resubscribe, StreamBreaks, WriteBreaks,
       CloseBreaks, mirrorVars
  <2> QED
    BY <1>1, <2>3, <2>4, <2>5, <2>6, <2>7, <2>8, <2>9 DEF Next
<1>2. IInv /\ [Next]_vars
        => [shown' # shown /\ edits' = edits /\ creating' = creating
              => accepted' = edits]_vars
  BY <1>1
<1> QED
  BY <1>2, IInvAlways, PTL DEF Spec, EditsReachServer

\* A correction of a close replaces what the server chose, never what was
\* written after it.
THEOREM CorrectionsReplaceTheChoice == Spec => CorrectionKeepsOthers
<1>1. ASSUME IInv, [Next]_vars, closing.stage = "correcting", closing.chose,
             closing'.stage = "reread"
      PROVE  author = "close"
  <2>1. closing' # closing /\ closing' # Idle /\ closing # Idle
    BY <1>1 DEF Idle
  <2>2. ASSUME \/ Others \/ Deletions \/ Edits \/ Refocus \/ Creates \/ Deliveries
               \/ RunEffect \/ ServerWrites \/ WriteAnswered \/ ReadAfterConflict
               \/ RetryWrite \/ WriteFailed \/ CreateAnswered \/ ReadSelection
               \/ Resubscribe \/ StreamBreaks \/ WriteBreaks \/ UNCHANGED vars
        PROVE  closing' = closing
    BY <2>2 DEF vars, Others, Deletions, OtherSelects, OtherDeletes, Edits, Edit,
       Refocus, Creates, ServerCreates, Deliveries, DeliverEvent, DeliverRead,
       RunEffect, ServerWrites, WriteAnswered, ReadAfterConflict, RetryWrite,
       WriteFailed, CreateAnswered, ReadSelection, Resubscribe, StreamBreaks,
       WriteBreaks
  <2>3. ~(Closes \/ CloseBreaks \/ ServerCloses \/ CloseAnswered \/ CloseReads
            \/ CloseTakes)
    BY <1>1, <2>1 DEF Closes, StartClose, CloseBreaks, ServerCloses, CloseAnswered,
       CloseReads, CloseTakes
  <2>4. ServerCorrects
    BY <1>1, <2>1, <2>2, <2>3 DEF Next
  <2>5. closing.expected = stored.rev
    BY <1>1, <2>4 DEF ServerCorrects, ReplaceOutcome, Idle
  <2> QED
    BY <1>1, <2>5 DEF IInv, CloseInv, ChoiceOrLater
<1>2. IInv /\ [Next]_vars
        => [closing.stage = "correcting" /\ closing.chose /\ closing'.stage = "reread"
              => author = "close"]_vars
  BY <1>1
<1> QED
  BY <1>2, IInvAlways, PTL DEF Spec, CorrectionKeepsOthers

=============================================================================
