----------------------------- MODULE AgentProofs -----------------------------
(***************************************************************************)
(* Proofs about the agents: the Inbox that shows their summaries, for any  *)
(* number of terminals, generations, deletions, events, broken streams,    *)
(* failed loads and requests; and the status of one, for any number of     *)
(* turns, tools, approvals, keystrokes, acknowledgements, samples and      *)
(* failing saves.                                                          *)
(*                                                                         *)
(* The server's summary of a terminal only advances (Advance): it is made  *)
(* anew with a later time, marked, or removed.  What is on its way or on   *)
(* the screen is something the server once had (NothingNewer), and Exact   *)
(* says when it still has it.  The status and the Inbox do not know of     *)
(* each other.                                                             *)
(***************************************************************************)
EXTENDS AgentInbox, AgentStatus, SequenceTheorems, TLAPS

-----------------------------------------------------------------------------
(* The events that wait. *)

\* An event that carries a summary, or says that there is none.
Data(e) == e.type \in {"updated", "deleted"}
Carried(e) == IF e.type = "updated" THEN e.data ELSE None
About(e, t) == Data(e) /\ e.id = t

\* An event about the summary of t waits in s; e is the last of them.
Waits(s, t) == \E i \in 1..Len(s) : About(s[i], t)
LastOf(s, t, e) ==
    \E i \in 1..Len(s) :
        s[i] = e /\ About(e, t) /\ \A j \in (i + 1)..Len(s) : ~About(s[j], t)

\* Where no event is about a summary, none is the last one.
LEMMA NothingWaits ==
    ASSUME NEW s, \A i \in 1..Len(s) : ~Data(s[i])
    PROVE  \A t : ~Waits(s, t) /\ \A e : ~LastOf(s, t, e)
  BY DEF Waits, LastOf, About

\* Nothing waits in an empty stream.
LEMMA NoneWaits == \A t : ~Waits(<<>>, t) /\ \A e : ~LastOf(<<>>, t, e)
  BY DEF Waits, LastOf

\* The event published last is the last one about its terminal.
LEMMA AppendWaits ==
    ASSUME NEW S, NEW s \in Seq(S), NEW m \in S, NEW t
    PROVE  /\ Waits(Append(s, m), t) <=> Waits(s, t) \/ About(m, t)
           /\ \A e : LastOf(Append(s, m), t, e) =>
                  IF About(m, t) THEN e = m ELSE LastOf(s, t, e)
<1> DEFINE n == Len(s)
           w == Append(s, m)
<1>1. n \in Nat /\ Len(w) = n + 1 /\ w[n + 1] = m /\ \A i \in 1..n : w[i] = s[i]
  BY AppendProperties
<1> HIDE DEF w
<1>2. Waits(w, t) <=> Waits(s, t) \/ About(m, t)
  <2>1. 1..(n + 1) = 1..n \cup {n + 1}
    BY <1>1
  <2>2. QED
    BY <1>1, <2>1 DEF Waits
<1>3. ASSUME NEW e, LastOf(w, t, e) PROVE IF About(m, t) THEN e = m ELSE LastOf(s, t, e)
  <2>1. PICK i \in 1..(n + 1) :
          w[i] = e /\ About(e, t) /\ \A j \in (i + 1)..(n + 1) : ~About(w[j], t)
    BY <1>1, <1>3 DEF LastOf
  <2>2. CASE i = n + 1
    BY <1>1, <2>1, <2>2
  <2>3. CASE i # n + 1
    <3>1. i \in 1..n /\ n + 1 \in (i + 1)..(n + 1)
      BY <1>1, <2>3
    <3>2. ~About(m, t) /\ s[i] = e
      BY <1>1, <2>1, <3>1
    <3>3. \A j \in (i + 1)..n : ~About(s[j], t)
      BY <1>1, <2>1, <3>1
    <3>4. LastOf(s, t, e)
      BY <2>1, <3>1, <3>2, <3>3 DEF LastOf
    <3>5. QED
      BY <3>2, <3>4
  <2>4. QED
    BY <2>2, <2>3
<1>4. QED
  BY <1>2, <1>3 DEF w

\* What waits behind the first event, and when the first one is the last.
LEMMA TailWaits ==
    ASSUME NEW S, NEW s \in Seq(S), s # <<>>, NEW t
    PROVE  /\ Waits(s, t) <=> Waits(Tail(s), t) \/ About(Head(s), t)
           /\ \A e : LastOf(Tail(s), t, e) => LastOf(s, t, e)
           /\ About(Head(s), t) /\ ~Waits(Tail(s), t) => LastOf(s, t, Head(s))
<1> DEFINE n == Len(s)
           w == Tail(s)
           h == Head(s)
<1>1. n \in Nat /\ n >= 1 /\ Len(w) = n - 1 /\ h = s[1] /\ \A i \in 1..(n - 1) : w[i] = s[i + 1]
  OBVIOUS
<1> HIDE DEF w, h
<1>2. Waits(s, t) <=> Waits(w, t) \/ About(h, t)
  <2>1. ASSUME NEW i \in 1..n, About(s[i], t) PROVE Waits(w, t) \/ About(h, t)
    <3>1. CASE i = 1
      BY <1>1, <2>1, <3>1
    <3>2. CASE i # 1
      <4>1. i - 1 \in 1..(n - 1) /\ (i - 1) + 1 = i
        BY <1>1, <3>2
      <4>2. QED
        BY <1>1, <2>1, <4>1 DEF Waits
    <3>3. QED
      BY <3>1, <3>2
  <2>2. ASSUME NEW i \in 1..(n - 1), About(w[i], t) PROVE Waits(s, t)
    <3>1. i + 1 \in 1..n
      BY <1>1
    <3>2. QED
      BY <1>1, <2>2, <3>1 DEF Waits
  <2>3. About(h, t) => Waits(s, t)
    BY <1>1 DEF Waits
  <2>4. QED
    BY <1>1, <2>1, <2>2, <2>3 DEF Waits
<1>3. ASSUME NEW e, LastOf(w, t, e) PROVE LastOf(s, t, e)
  <2>1. PICK i \in 1..(n - 1) :
          w[i] = e /\ About(e, t) /\ \A j \in (i + 1)..(n - 1) : ~About(w[j], t)
    BY <1>1, <1>3 DEF LastOf
  <2>2. i + 1 \in 1..n /\ s[i + 1] = e
    BY <1>1, <2>1
  <2>3. ASSUME NEW j \in (i + 1 + 1)..n PROVE ~About(s[j], t)
    <3>1. j - 1 \in (i + 1)..(n - 1) /\ j - 1 \in 1..(n - 1) /\ (j - 1) + 1 = j
      BY <1>1, <2>1
    <3>2. QED
      BY <1>1, <2>1, <3>1
  <2>4. QED
    BY <2>1, <2>2, <2>3 DEF LastOf
<1>4. ASSUME About(h, t), ~Waits(w, t) PROVE LastOf(s, t, h)
  <2>1. ASSUME NEW j \in (1 + 1)..n PROVE ~About(s[j], t)
    <3>1. j - 1 \in 1..(n - 1) /\ (j - 1) + 1 = j
      BY <1>1
    <3>2. QED
      BY <1>1, <1>4, <3>1 DEF Waits
  <2>2. 1 \in 1..n
    BY <1>1
  <2>3. QED
    BY <1>1, <1>4, <2>1, <2>2 DEF LastOf
<1>5. QED
  BY <1>2, <1>3, <1>4 DEF w, h

-----------------------------------------------------------------------------
(* The inductive invariant. *)

\* What a request of the user consists of.
Request == [kind : Kinds, id : Terminals, snapshot : Summary, moved : BOOLEAN,
            phase : {"sent", "failed", "running", "answered"},
            answer : Summary \cup {None}]

\* InboxTypeOK with the types of the other variables.
InboxTyped ==
    /\ InboxTypeOK
    /\ ended \subseteq Terminals /\ clock \in 0..MaxClock /\ subscribed \in BOOLEAN
    /\ needs \in BOOLEAN
    /\ deletedAt \in [Terminals -> 0..MaxClock] /\ optimistic \in [Terminals -> 0..MaxClock]
    /\ load \in Load \cup {None} /\ requests \subseteq Request

\* How the stream of a subscriber begins and ends.
Connected ==
    /\ loop # "open" => stream = <<>>
    /\ \A i \in 1..Len(stream) : subscribed <=> stream[i] # Lagged

\* v is what the server's summary w was before.
Older(v, w) ==
    v.gen < w.gen \/ (v.gen = w.gen /\ (v.done => w.done) /\ (w.unread => v.unread))

\* v is a summary from before now, and s is what became of it; a deletion at that
\* time removed what was before s.
Past(v, now, s) == v # None => v.gen <= now /\ (s # None => Older(v, s))
After(at, now, s) == at <= now /\ (s # None => at < s.gen)

\* Events and requests carry summaries of the past; what was answered is at least
\* as new as what the user saw, and an option that was answered is done.
EventKnown(e, now, s) ==
    /\ e.type = "updated" => Past(e.data, now, s[e.id])
    /\ e.type = "deleted" => After(e.at, now, s[e.id])

RequestKnown(r, now, s) ==
    /\ Past(r.snapshot, now, s[r.id])
    /\ r.phase \in {"running", "answered"} => r.answer # None
    /\ r.phase = "answered" => Past(r.answer, now, s[r.id]) /\ Older(r.snapshot, r.answer)
    /\ r.phase = "answered" /\ r.kind = "option" => r.answer.done

\* Nothing in the browser or on its way is newer than what the server has.
NothingNewer ==
    /\ \A t \in Terminals :
           /\ Past(summary[t], clock, summary[t]) /\ Past(shown[t], clock, summary[t])
           /\ After(deletedAt[t], clock, summary[t])
           /\ load # None => Past(load.items[t], clock, summary[t])
    /\ \A i \in 1..Len(stream) : EventKnown(stream[i], clock, summary)
    /\ \A r \in requests : RequestKnown(r, clock, summary)

\* What the Inbox takes for done, before any answer says so, is done.
DoneIsDone ==
    \A t \in Terminals :
        /\ optimistic[t] <= clock
        /\ summary[t] # None /\ optimistic[t] = summary[t].gen => summary[t].done

\* An entry of agentSummaryDeletedAtRef goes with the next summary that is shown.
DeletedIsGone == \A t \in Terminals : deletedAt[t] # 0 => shown[t] = None

\* The last event that waits for t says what the server has, and a load answered
\* before a deletion has nothing newer.
LastSays(t) ==
    \A e \in Event : LastOf(stream, t, e) =>
        /\ Carried(e) = summary[t]
        /\ e.type = "deleted" /\ load # None /\ load.items[t] # None =>
               load.items[t].gen <= e.at

\* Only the end of an agent makes the list leave out a summary.
EndsLast(t) == summary[t] # None /\ t \notin active => t \in ended

\* Heard: nothing waits, nothing was missed and nothing is to be deleted.
Heard(t) == t \notin ended /\ ~Waits(stream, t)

ShownIs(t) == Heard(t) /\ t \notin missed => shown[t] = summary[t]

\* What a load in flight will bring: unless an event or an answer touched the item
\* since, what the server has; and nothing that a deletion the browser heard of
\* would not keep out.
LoadIs(t) ==
    load # None =>
        /\ t \in load.since => t \in missed
        /\ load.phase = "asked" => load.items[t] = None /\ load.since = {}
        /\ load.phase = "answered" /\ Heard(t) /\ t \notin load.moved \cup load.since =>
               load.items[t] = summary[t]
        /\ load.items[t] # None /\ summary[t] = None /\ t \notin missed /\ ~Waits(stream, t) =>
               load.items[t].gen <= deletedAt[t]

Exact == \A t \in Terminals : LastSays(t) /\ EndsLast(t) /\ ShownIs(t) /\ LoadIs(t)

\* The inductive invariant.
InboxKnown ==
    /\ InboxTyped /\ Connected /\ NothingNewer /\ DoneIsDone /\ DeletedIsGone /\ Exact

\* A load that begins has nothing.
LEMMA NewLoadIs ==
    /\ NewLoad \in Load /\ NewLoad # None /\ NewLoad.phase = "asked"
    /\ NewLoad.since = {} /\ NewLoad.moved = {} /\ \A t \in Terminals : NewLoad.items[t] = None
<1>1. NewLoad \in Load
  BY DEF NewLoad, Load
<1>2. QED
  BY <1>1, InboxAssumption DEF NewLoad

\* What an event consists of.
LEMMA EventIs ==
    /\ ~Data(Lagged)
    /\ \A e \in Event : e # Lagged => e.id \in Terminals
    /\ \A e \in Event : e.type = "updated" => e.data \in Summary /\ e.id \in Terminals
    /\ \A e \in Event : e.type = "deleted" => e.at \in 0..MaxClock /\ e.id \in Terminals
  BY DEF Event, Lagged, Data

\* The invariant holds when the page opens.
LEMMA InboxStarts == InboxInit => InboxKnown
<1> SUFFICES ASSUME InboxInit PROVE InboxKnown
  OBVIOUS
<1>1. InboxTyped
  <2>1. <<>> \in Seq(Event) /\ Len(<<>>) = 0
    OBVIOUS
  <2>2. /\ summary \in [Terminals -> Summary \cup {None}]
        /\ shown \in [Terminals -> Summary \cup {None}]
        /\ 0 \in 0..MaxClock /\ 0 <= QueueLimit
    BY InboxAssumption DEF InboxInit
  <2>3. deletedAt \in [Terminals -> 0..MaxClock] /\ optimistic \in [Terminals -> 0..MaxClock]
    BY <2>2 DEF InboxInit
  <2>4. QED
    BY <2>1, <2>2, <2>3, NewLoadIs DEF InboxInit, InboxTyped, InboxTypeOK
<1>2. Connected
  BY DEF InboxInit, Connected
<1>3. NothingNewer
  BY NewLoadIs DEF InboxInit, NothingNewer, Past, After
<1>4. DoneIsDone /\ DeletedIsGone
  BY DEF InboxInit, DoneIsDone, DeletedIsGone
<1>5. Exact
  BY NewLoadIs, NoneWaits DEF InboxInit, Exact, LastSays, EndsLast, ShownIs, LoadIs, Heard
<1>6. QED
  BY <1>1, <1>2, <1>3, <1>4, <1>5 DEF InboxKnown

-----------------------------------------------------------------------------
(* What a published event changes. *)

\* The event arrives behind the others, or the browser is told that it lagged and
\* the terminals whose events are lost are noted.
LEMMA PublishEffect ==
    ASSUME InboxTyped, Connected, NEW t \in Terminals, NEW event \in Event, event # Lagged,
           event.id = t, Publish(t, event)
    PROVE  /\ stream' \in Seq(Event) /\ Len(stream') <= QueueLimit
           /\ subscribed' \in BOOLEAN /\ (subscribed' => subscribed)
           /\ stream = <<>> /\ ~subscribed => stream' = <<>>
           /\ \A i \in 1..Len(stream') : subscribed' <=> stream'[i] # Lagged
           /\ \A i \in 1..Len(stream') :
                  stream'[i] \in {event, Lagged} \/ \E j \in 1..Len(stream) : stream'[i] = stream[j]
           /\ \A u, e : LastOf(stream', u, e) =>
                  IF About(event, u) THEN e = event ELSE LastOf(stream, u, e)
           /\ \E lost \in SUBSET Terminals :
                  /\ missed' = missed \cup lost
                  /\ load' = IF load # None /\ load.phase = "answered"
                             THEN [load EXCEPT !.since = @ \cup lost] ELSE load
                  /\ \A u : u \notin lost /\ ~Waits(stream', u) =>
                         ~Waits(stream, u) /\ ~About(event, u)
<1>1. /\ stream \in Seq(Event) /\ Len(stream) <= QueueLimit /\ subscribed \in BOOLEAN
      /\ QueueLimit \in Nat /\ QueueLimit >= 1 /\ Len(stream) \in Nat
      /\ \A i \in 1..Len(stream) : stream[i] \in Event /\ (subscribed <=> stream[i] # Lagged)
  BY InboxAssumption DEF InboxTyped, InboxTypeOK, Connected
<1> DEFINE published(lost) ==
        /\ missed' = missed \cup lost
        /\ load' = IF load # None /\ load.phase = "answered"
                   THEN [load EXCEPT !.since = @ \cup lost] ELSE load
<1>2. CASE ~subscribed
  <2>1. stream' = stream /\ subscribed' = FALSE /\ published({t})
    BY <1>1, <1>2 DEF Publish
  <2>2. \A u : ~Waits(stream, u) /\ \A e : ~LastOf(stream, u, e)
    <3>1. \A i \in 1..Len(stream) : ~Data(stream[i])
      BY <1>1, <1>2, EventIs
    <3>2. QED
      BY <3>1, NothingWaits
  <2>3. \A u : About(event, u) => u = t
    BY DEF About
  <2>4. {t} \in SUBSET Terminals
    OBVIOUS
  <2> HIDE DEF published
  <2>5. \E lost \in SUBSET Terminals :
             published(lost) /\ \A u : u \notin lost /\ ~Waits(stream', u) =>
                                ~Waits(stream, u) /\ ~About(event, u)
    BY <2>1, <2>2, <2>3, <2>4
  <2>6. QED
    BY <1>1, <1>2, <2>1, <2>2, <2>5 DEF published
<1>3. CASE subscribed /\ Len(stream) = QueueLimit
  <2> DEFINE lost == {t} \cup {e.id : e \in ToSet(stream)}
  <2>1. stream' = <<Lagged>> /\ subscribed' = FALSE /\ published(lost)
    BY <1>1, <1>3 DEF Publish
  <2>2. stream' \in Seq(Event) /\ Len(stream') = 1 /\ stream'[1] = Lagged
    BY <2>1 DEF Event
  <2>3. \A u : ~Waits(stream', u) /\ \A e : ~LastOf(stream', u, e)
    <3>1. \A i \in 1..Len(stream') : ~Data(stream'[i])
      BY <2>2, EventIs
    <3>2. QED
      BY <3>1, NothingWaits
  <2>4. lost \in SUBSET Terminals
    BY <1>1, <1>3, EventIs DEF ToSet
  <2>5. \A u : u \notin lost => ~Waits(stream, u) /\ ~About(event, u)
    BY <1>1, <1>3 DEF Waits, About, ToSet
  <2> HIDE DEF published, lost
  <2>6. \E l \in SUBSET Terminals :
             published(l) /\ \A u : u \notin l /\ ~Waits(stream', u) =>
                             ~Waits(stream, u) /\ ~About(event, u)
    BY <2>1, <2>4, <2>5
  <2>7. Len(stream') <= QueueLimit
    BY <1>1, <2>2
  <2>8. subscribed' = FALSE
    BY <2>1
  <2>9. \A i \in 1..Len(stream') : stream'[i] = Lagged
    BY <2>2
  <2>10. /\ \A i \in 1..Len(stream') : subscribed' <=> stream'[i] # Lagged
         /\ \A i \in 1..Len(stream') :
                stream'[i] \in {event, Lagged} \/ \E j \in 1..Len(stream) : stream'[i] = stream[j]
         /\ \A u, e : LastOf(stream', u, e) =>
                IF About(event, u) THEN e = event ELSE LastOf(stream, u, e)
    BY <2>3, <2>8, <2>9
  <2>11. stream = <<>> /\ ~subscribed => stream' = <<>>
    BY <1>3
  <2>12. subscribed' \in BOOLEAN /\ (subscribed' => subscribed)
    BY <2>8
  <2>13. QED
    BY <2>2, <2>6, <2>7, <2>10, <2>11, <2>12 DEF published
<1>4. CASE subscribed /\ Len(stream) # QueueLimit
  <2>1. stream' = Append(stream, event) /\ subscribed' = TRUE /\ published({})
    BY <1>1, <1>4 DEF Publish
  <2>2. /\ stream' \in Seq(Event) /\ Len(stream') = Len(stream) + 1
        /\ stream'[Len(stream) + 1] = event
        /\ \A i \in 1..Len(stream) : stream'[i] = stream[i]
    BY <1>1, <2>1, AppendProperties
  <2>3. \A i \in 1..Len(stream') : i \in 1..Len(stream) \/ i = Len(stream) + 1
    BY <1>1, <2>2
  <2>4. \A u : /\ Waits(stream', u) <=> Waits(stream, u) \/ About(event, u)
               /\ \A e : LastOf(stream', u, e) =>
                      IF About(event, u) THEN e = event ELSE LastOf(stream, u, e)
    BY <1>1, <2>1, AppendWaits
  <2> HIDE DEF published
  <2>5. \E lost \in SUBSET Terminals :
             published(lost) /\ \A u : u \notin lost /\ ~Waits(stream', u) =>
                                ~Waits(stream, u) /\ ~About(event, u)
    BY <2>1, <2>4
  <2>6. \A i \in 1..Len(stream') : subscribed' <=> stream'[i] # Lagged
    BY <1>1, <1>4, <2>1, <2>2, <2>3
  <2>7. \A i \in 1..Len(stream') :
            stream'[i] \in {event, Lagged} \/ \E j \in 1..Len(stream) : stream'[i] = stream[j]
    BY <2>2, <2>3
  <2>8. Len(stream') <= QueueLimit
    BY <1>1, <1>4, <2>2
  <2>9. QED
    BY <1>1, <1>4, <2>1, <2>2, <2>4, <2>5, <2>6, <2>7, <2>8 DEF published
<1>5. QED
  BY <1>2, <1>3, <1>4

\* What the server does to a summary: nothing, removes it, makes a new one, or
\* marks it.
Advance(v, w, now, later) ==
    \/ w = v \/ w = None
    \/ now < w.gen /\ w.gen <= later
    \/ v # None /\ w.gen = v.gen /\ Older(v, w)

\* A summary of the past stays one.
LEMMA PastStays ==
    ASSUME NEW v \in Summary \cup {None}, NEW s \in Summary \cup {None},
           NEW w \in Summary \cup {None}, NEW now \in Nat, NEW later \in Nat, now <= later,
           Past(v, now, s), Advance(s, w, now, later)
    PROVE  Past(v, later, w)
<1> SUFFICES ASSUME v # None PROVE v.gen <= later /\ (w # None => Older(v, w))
  BY DEF Past
<1>1. v.gen \in Nat /\ v.gen <= now /\ (s # None => Older(v, s))
  BY DEF Past, Summary
<1>2. v.gen <= later
  BY <1>1
<1>3. ASSUME w # None PROVE Older(v, w)
  <2>1. w.gen \in Nat
    BY <1>3 DEF Summary
  <2>2. CASE w = s
    BY <1>1, <1>3, <2>2
  <2>3. CASE now < w.gen
    BY <1>1, <2>1, <2>3 DEF Older
  <2>4. CASE s # None /\ w.gen = s.gen /\ Older(s, w)
    BY <1>1, <2>1, <2>4 DEF Older
  <2>5. QED
    BY <1>3, <2>2, <2>3, <2>4 DEF Advance
<1>4. QED
  BY <1>2, <1>3

\* A deletion stays older than the summary.
LEMMA AfterStays ==
    ASSUME NEW at \in Nat, NEW s \in Summary \cup {None},
           NEW w \in Summary \cup {None}, NEW now \in Nat, NEW later \in Nat, now <= later,
           After(at, now, s), Advance(s, w, now, later)
    PROVE  After(at, later, w)
<1>1. at <= later
  BY DEF After
<1>2. ASSUME w # None PROVE at < w.gen
  BY <1>2 DEF After, Advance, Summary
<1>3. QED
  BY <1>1, <1>2 DEF After

\* The summary of the server is a summary of its time.
LEMMA AdvancedIs ==
    ASSUME NEW s \in Summary \cup {None}, NEW w \in Summary \cup {None},
           NEW now \in Nat, NEW later \in Nat, now <= later,
           Past(s, now, s), Advance(s, w, now, later)
    PROVE  Past(w, later, w)
  BY DEF Past, Advance, Older, Summary

\* A change of one summary that is published with it keeps the invariant.
LEMMA Published ==
    ASSUME InboxKnown, NEW t \in Terminals, NEW event \in Event, event # Lagged,
           event.id = t, Publish(t, event),
           active' \subseteq Terminals, ended' \subseteq Terminals,
           clock' \in 0..MaxClock, clock <= clock',
           summary' \in [Terminals -> Summary \cup {None}],
           \A u \in Terminals : u # t => summary'[u] = summary[u],
           Advance(summary[t], summary'[t], clock, clock'),
           IF Data(event) THEN Carried(event) = summary'[t] ELSE summary' = summary,
           event.type = "deleted" => event.at = clock' /\ clock < clock',
           \A u \in Terminals : u \notin ended' => u \notin ended \/ About(event, u),
           \A u \in Terminals : EndsLast(u)',
           \A r \in requests' : \/ r \in requests
                                \/ r \in Request /\ RequestKnown(r, clock', summary'),
           UNCHANGED <<listening, cache, optimistic>>
    PROVE  InboxKnown'
<1>1. InboxTyped /\ Connected /\ NothingNewer /\ DoneIsDone /\ DeletedIsGone /\ Exact
  BY DEF InboxKnown
<1>2. /\ stream' \in Seq(Event) /\ Len(stream') <= QueueLimit
      /\ subscribed' \in BOOLEAN /\ (subscribed' => subscribed)
      /\ stream = <<>> /\ ~subscribed => stream' = <<>>
      /\ \A i \in 1..Len(stream') : subscribed' <=> stream'[i] # Lagged
      /\ \A i \in 1..Len(stream') :
             stream'[i] \in {event, Lagged} \/ \E j \in 1..Len(stream) : stream'[i] = stream[j]
      /\ \A u, e : LastOf(stream', u, e) =>
             IF About(event, u) THEN e = event ELSE LastOf(stream, u, e)
      /\ \E lost \in SUBSET Terminals :
             /\ missed' = missed \cup lost
             /\ load' = IF load # None /\ load.phase = "answered"
                        THEN [load EXCEPT !.since = @ \cup lost] ELSE load
             /\ \A u : u \notin lost /\ ~Waits(stream', u) =>
                    ~Waits(stream, u) /\ ~About(event, u)
  BY <1>1, PublishEffect
<1>3. PICK lost \in SUBSET Terminals :
             /\ missed' = missed \cup lost
             /\ load' = IF load # None /\ load.phase = "answered"
                        THEN [load EXCEPT !.since = @ \cup lost] ELSE load
             /\ \A u : u \notin lost /\ ~Waits(stream', u) =>
                    ~Waits(stream, u) /\ ~About(event, u)
  BY <1>2
<1>4. /\ clock \in Nat /\ clock' \in Nat /\ load \in Load \cup {None}
      /\ shown \in [Terminals -> Summary \cup {None}]
      /\ summary \in [Terminals -> Summary \cup {None}]
      /\ deletedAt \in [Terminals -> 0..MaxClock] /\ optimistic \in [Terminals -> 0..MaxClock]
      /\ stream \in Seq(Event) /\ requests \subseteq Request
  BY <1>1, InboxAssumption DEF InboxTyped, InboxTypeOK
<1>5. UNCHANGED <<loop, needs, background, shown, deletedAt, optimistic>>
  BY DEF listening, cache
<1>7. /\ load' \in Load \cup {None} /\ (load' # None <=> load # None)
      /\ load # None => /\ load'.phase = load.phase /\ load'.moved = load.moved
                        /\ load'.items = load.items
                        /\ load'.since = IF load.phase = "answered" THEN load.since \cup lost
                                         ELSE load.since
  <2>1. CASE load = None
    BY <1>3, <2>1
  <2>2. CASE load # None
    <3>1. load \in Load
      BY <1>4, <2>2
    <3>2. CASE load.phase = "answered"
      <4>1. load' = [load EXCEPT !.since = @ \cup lost]
        BY <1>3, <2>2, <3>2
      <4>2. load' \in Load
        BY <3>1, <4>1 DEF Load
      <4>3. QED
        BY <2>2, <3>1, <3>2, <4>1, <4>2, InboxAssumption DEF Load
    <3>3. CASE load.phase # "answered"
      BY <1>3, <2>2, <3>1, <3>3
    <3>4. QED
      BY <3>2, <3>3
  <2>3. QED
    BY <2>1, <2>2
<1>8. InboxTyped'
  <2>1. requests' \subseteq Request
    BY <1>4
  <2>2. missed' \subseteq Terminals
    BY <1>1, <1>3 DEF InboxTyped, InboxTypeOK
  <2>3. InboxTypeOK'
    BY <1>1, <1>2, <1>5, <1>7, <2>2 DEF InboxTyped, InboxTypeOK
  <2>4. QED
    BY <1>1, <1>2, <1>5, <1>7, <2>1, <2>3 DEF InboxTyped
<1>9. Connected'
  BY <1>1, <1>2, <1>5 DEF Connected, InboxTyped, InboxTypeOK
<1>10. \A u \in Terminals : Advance(summary[u], summary'[u], clock, clock')
  BY DEF Advance
<1>11. ASSUME NEW v \in Summary \cup {None}, NEW u \in Terminals, Past(v, clock, summary[u])
       PROVE  Past(v, clock', summary'[u])
  <2>1. summary[u] \in Summary \cup {None} /\ summary'[u] \in Summary \cup {None}
    BY <1>4
  <2>2. QED
    BY <1>4, <1>10, <1>11, <2>1, PastStays
<1>12. ASSUME NEW at \in Nat, NEW u \in Terminals, After(at, clock, summary[u])
       PROVE  After(at, clock', summary'[u])
  <2>1. summary[u] \in Summary \cup {None} /\ summary'[u] \in Summary \cup {None}
    BY <1>4
  <2>2. QED
    BY <1>4, <1>10, <1>12, <2>1, AfterStays
<1>13. \A u \in Terminals : Past(summary'[u], clock', summary'[u])
  <2>1. SUFFICES ASSUME NEW u \in Terminals PROVE Past(summary'[u], clock', summary'[u])
    OBVIOUS
  <2>2. summary[u] \in Summary \cup {None} /\ summary'[u] \in Summary \cup {None}
        /\ Past(summary[u], clock, summary[u])
    BY <1>1, <1>4 DEF NothingNewer
  <2>3. QED
    BY <1>4, <1>10, <2>2, AdvancedIs
<1>14. NothingNewer'
  <2>1. ASSUME NEW u \in Terminals
        PROVE  /\ Past(shown'[u], clock', summary'[u]) /\ After(deletedAt'[u], clock', summary'[u])
               /\ load' # None => Past(load'.items[u], clock', summary'[u])
    <3>1. /\ shown[u] \in Summary \cup {None} /\ deletedAt[u] \in Nat
          /\ load # None => load.items[u] \in Summary \cup {None}
      BY <1>4 DEF Load
    <3>2. /\ Past(shown[u], clock, summary[u]) /\ After(deletedAt[u], clock, summary[u])
          /\ load # None => Past(load.items[u], clock, summary[u])
      BY <1>1 DEF NothingNewer
    <3>3. QED
      BY <1>5, <1>7, <1>11, <1>12, <3>1, <3>2
  <2>2. ASSUME NEW e \in Event, EventKnown(e, clock, summary) PROVE EventKnown(e, clock', summary')
    <3>1. e.type = "updated" => e.data \in Summary \cup {None} /\ e.id \in Terminals
      BY EventIs
    <3>2. e.type = "deleted" => e.at \in Nat /\ e.id \in Terminals
      BY EventIs, InboxAssumption
    <3>3. QED
      BY <1>11, <1>12, <2>2, <3>1, <3>2 DEF EventKnown
  <2>3. EventKnown(event, clock', summary')
    <3>1. event.type = "updated" => event.data = summary'[t]
      BY DEF Carried, Data
    <3>2. event.type = "deleted" => summary'[t] = None /\ event.at = clock'
      BY DEF Carried, Data
    <3>3. QED
      BY <1>4, <1>13, <3>1, <3>2 DEF EventKnown, After
  <2>4. EventKnown(Lagged, clock', summary')
    BY DEF EventKnown, Lagged
  <2>5. \A i \in 1..Len(stream') : EventKnown(stream'[i], clock', summary')
    <3>1. \A j \in 1..Len(stream) : stream[j] \in Event /\ EventKnown(stream[j], clock, summary)
      BY <1>1, <1>4 DEF NothingNewer
    <3>2. QED
      BY <1>2, <2>2, <2>3, <2>4, <3>1
  <2>6. ASSUME NEW r \in requests' PROVE RequestKnown(r, clock', summary')
    <3>1. CASE r \in requests
      <4>1. r \in Request /\ RequestKnown(r, clock, summary)
        BY <1>1, <1>4, <3>1 DEF NothingNewer
      <4>2. /\ r.id \in Terminals /\ r.snapshot \in Summary \cup {None}
            /\ r.answer \in Summary \cup {None}
        BY <4>1 DEF Request
      <4>3. QED
        BY <1>11, <4>1, <4>2 DEF RequestKnown
    <3>2. QED
      BY <3>1
  <2>7. QED
    BY <1>13, <2>1, <2>5, <2>6 DEF NothingNewer
<1>15. DoneIsDone' /\ DeletedIsGone'
  <2>1. DeletedIsGone'
    BY <1>1, <1>5 DEF DeletedIsGone
  <2>2. ASSUME NEW u \in Terminals
        PROVE  /\ optimistic'[u] <= clock'
               /\ summary'[u] # None /\ optimistic'[u] = summary'[u].gen => summary'[u].done
    <3>1. /\ optimistic[u] \in Nat /\ optimistic[u] <= clock
          /\ summary[u] # None /\ optimistic[u] = summary[u].gen => summary[u].done
          /\ summary[u] \in Summary \cup {None} /\ summary'[u] \in Summary \cup {None}
      BY <1>1, <1>4 DEF DoneIsDone
    <3>2. QED
      BY <1>4, <1>5, <1>10, <3>1 DEF Advance, Older, Summary
  <2>3. QED
    BY <2>1, <2>2 DEF DoneIsDone
<1>16. \A u \in Terminals : ~About(event, u) => summary'[u] = summary[u]
  BY DEF About
<1>17. ASSUME NEW u \in Terminals PROVE (LastSays(u) /\ EndsLast(u) /\ ShownIs(u) /\ LoadIs(u))'
  <2>1. LastSays(u) /\ EndsLast(u) /\ ShownIs(u) /\ LoadIs(u)
    BY <1>1 DEF Exact
  <2>2. LastSays(u)'
    <3>1. SUFFICES ASSUME NEW e \in Event, LastOf(stream', u, e)
                   PROVE  /\ Carried(e) = summary'[u]
                          /\ e.type = "deleted" /\ load # None /\ load.items[u] # None =>
                                 load.items[u].gen <= e.at
      BY <1>7 DEF LastSays
    <3>2. CASE About(event, u)
      <4>1. e = event /\ u = t /\ Data(event)
        BY <1>2, <3>1, <3>2 DEF About
      <4>2. load # None /\ load.items[u] # None =>
                load.items[u].gen \in Nat /\ load.items[u].gen <= clock
        BY <1>1, <1>4 DEF NothingNewer, Past, Load, Summary
      <4>3. QED
        BY <1>4, <4>1, <4>2
    <3>3. CASE ~About(event, u)
      BY <1>2, <1>16, <2>1, <3>1, <3>3 DEF LastSays
    <3>4. QED
      BY <3>2, <3>3
  <2>3. u \notin lost /\ ~Waits(stream', u) =>
            ~Waits(stream, u) /\ ~About(event, u) /\ summary'[u] = summary[u]
    BY <1>3, <1>16
  <2>4. u \notin lost /\ Heard(u)' => Heard(u) /\ summary'[u] = summary[u]
    BY <2>3 DEF Heard
  <2>5. ShownIs(u)'
    BY <1>3, <1>5, <2>1, <2>4 DEF ShownIs
  <2>6. LoadIs(u)'
    <3>1. SUFFICES ASSUME load # None PROVE LoadIs(u)'
      BY <1>7 DEF LoadIs
    <3>2. /\ u \in load'.since => u \in missed'
          /\ load'.phase = "asked" => load'.items[u] = None /\ load'.since = {}
      BY <1>3, <1>7, <2>1, <3>1 DEF LoadIs
    <3>3. load'.phase = "answered" /\ Heard(u)' /\ u \notin load'.moved \cup load'.since =>
              load'.items[u] = summary'[u]
      BY <1>7, <2>1, <2>4, <3>1 DEF LoadIs
    <3>4. load'.items[u] # None /\ summary'[u] = None /\ u \notin missed' /\ ~Waits(stream', u) =>
              load'.items[u].gen <= deletedAt'[u]
      BY <1>3, <1>5, <1>7, <2>1, <2>3, <3>1 DEF LoadIs
    <3>5. QED
      BY <3>2, <3>3, <3>4 DEF LoadIs
  <2>7. QED
    BY <2>2, <2>5, <2>6
<1>18. Exact'
  BY <1>17 DEF Exact
<1>19. QED
  BY <1>8, <1>9, <1>14, <1>15, <1>18 DEF InboxKnown

-----------------------------------------------------------------------------
(* The server. *)

\* A generation keeps the invariant.
LEMMA GenerateStep ==
    ASSUME InboxKnown, NEW t \in Terminals, NEW changed \in BOOLEAN, Generate(t, changed)
    PROVE  InboxKnown'
<1> DEFINE old == summary[t]
           new == IF changed \/ old = None
                  THEN [gen |-> clock + 1, unread |-> TRUE, done |-> FALSE]
                  ELSE [old EXCEPT !.gen = clock + 1]
<1>1. /\ InboxTyped /\ Exact /\ t \in active /\ clock < MaxClock /\ clock' = clock + 1
      /\ summary' = [summary EXCEPT ![t] = new] /\ Publish(t, Updated(t, new))
      /\ UNCHANGED <<active, ended, listening, cache, optimistic, requests>>
  BY DEF Generate, InboxKnown
<1>2. /\ clock \in Nat /\ MaxClock \in Nat /\ clock \in 0..MaxClock /\ clock' \in 0..MaxClock
      /\ clock + 1 \in 1..MaxClock
      /\ summary \in [Terminals -> Summary \cup {None}] /\ active \subseteq Terminals
      /\ ended \subseteq Terminals /\ requests \subseteq Request
  BY <1>1, InboxAssumption DEF InboxTyped, InboxTypeOK
<1>3. new \in Summary /\ new.gen = clock + 1
  BY <1>2 DEF Summary
<1> HIDE DEF new
<1>4. new # None
  BY <1>3, InboxAssumption
<1>5. /\ summary' \in [Terminals -> Summary \cup {None}] /\ summary'[t] = new
      /\ \A u \in Terminals : u # t => summary'[u] = summary[u]
  BY <1>1, <1>2, <1>3
<1>6. /\ Updated(t, new) \in Event /\ Updated(t, new) # Lagged /\ Updated(t, new).id = t
      /\ Data(Updated(t, new)) /\ Carried(Updated(t, new)) = new
      /\ Updated(t, new).type # "deleted"
  BY <1>2, <1>3 DEF Updated, Event, Lagged, Data, Carried
<1>7. Advance(summary[t], summary'[t], clock, clock')
  BY <1>1, <1>2, <1>3, <1>5 DEF Advance
<1>8. \A u \in Terminals : EndsLast(u)'
  BY <1>1, <1>5 DEF Exact, EndsLast
<1>9. clock <= clock' /\ active' \subseteq Terminals /\ ended' \subseteq Terminals
  BY <1>1, <1>2
<1>10. UNCHANGED <<listening, cache, optimistic>>
  BY <1>1
<1> DEFINE e == Updated(t, new)
<1> HIDE DEF e
<1>11. e \in Event /\ e # Lagged /\ e.id = t /\ Publish(t, e) /\ Data(e) /\ Carried(e) = summary'[t]
       /\ e.type # "deleted"
  BY <1>1, <1>5, <1>6 DEF e
<1>12. QED
  BY <1>1, <1>2, <1>5, <1>7, <1>8, <1>9, <1>10, <1>11, Published

\* So does the removal of a summary.
LEMMA DeleteStep ==
    ASSUME InboxKnown, NEW t \in Terminals, DeleteSummary(t)
    PROVE  InboxKnown'
<1> DEFINE e == [type |-> "deleted", id |-> t, at |-> clock + 1]
<1>1. /\ InboxTyped /\ Exact /\ clock < MaxClock /\ clock' = clock + 1
      /\ summary' = [summary EXCEPT ![t] = None] /\ Publish(t, e)
      /\ ended' = ended \ {t}
      /\ UNCHANGED <<active, requests>> /\ UNCHANGED <<listening, cache, optimistic>>
  BY DEF DeleteSummary, InboxKnown
<1>2. /\ clock \in Nat /\ MaxClock \in Nat /\ clock' \in 0..MaxClock /\ clock < clock'
      /\ summary \in [Terminals -> Summary \cup {None}] /\ active' \subseteq Terminals
      /\ ended' \subseteq Terminals
  BY <1>1, InboxAssumption DEF InboxTyped, InboxTypeOK
<1>3. /\ e \in Event /\ e # Lagged /\ e.id = t /\ Data(e) /\ Carried(e) = None
      /\ e.at = clock' /\ About(e, t)
  BY <1>1, <1>2 DEF Event, Lagged, Data, Carried, About
<1> HIDE DEF e
<1>4. /\ summary' \in [Terminals -> Summary \cup {None}] /\ summary'[t] = None
      /\ \A u \in Terminals : u # t => summary'[u] = summary[u]
  BY <1>1, <1>2
<1>5. Advance(summary[t], summary'[t], clock, clock')
  BY <1>4 DEF Advance
<1>6. \A u \in Terminals : EndsLast(u)'
  BY <1>1, <1>4 DEF Exact, EndsLast
<1>7. \A u \in Terminals : u \notin ended' => u \notin ended \/ About(e, u)
  BY <1>1, <1>3
<1>8. clock <= clock' /\ \A r \in requests' : r \in requests
  BY <1>1, <1>2
<1>9. QED
  BY <1>1, <1>2, <1>3, <1>4, <1>5, <1>6, <1>7, <1>8, Published

\* So do the end and the beginning of an agent.
LEMMA AgentStep ==
    ASSUME InboxKnown, NEW t \in Terminals, AgentEnds(t) \/ AgentBegins(t)
    PROVE  InboxKnown'
<1> DEFINE e == [type |-> "agent.updated", id |-> t]
<1>1. /\ InboxTyped /\ Exact /\ Publish(t, e)
      /\ \/ active' = active \ {t} /\ ended' = ended \cup {t}
         \/ active' = active \cup {t} /\ ended' = ended
      /\ UNCHANGED <<clock, requests>> /\ summary' = summary
      /\ UNCHANGED <<listening, cache, optimistic>>
  BY DEF AgentEnds, AgentBegins, InboxKnown
<1>2. /\ clock \in Nat /\ MaxClock \in Nat /\ clock' \in 0..MaxClock /\ clock <= clock'
      /\ summary' \in [Terminals -> Summary \cup {None}] /\ active' \subseteq Terminals
      /\ ended' \subseteq Terminals
  BY <1>1, InboxAssumption DEF InboxTyped, InboxTypeOK
<1>3. /\ e \in Event /\ e # Lagged /\ e.id = t /\ ~Data(e) /\ e.type # "deleted"
  BY DEF Event, Lagged, Data
<1> HIDE DEF e
<1>4. Advance(summary[t], summary'[t], clock, clock')
  BY <1>1 DEF Advance
<1>5. \A u \in Terminals : EndsLast(u)'
  BY <1>1 DEF Exact, EndsLast
<1>6. \A u \in Terminals : u \notin ended' => u \notin ended \/ About(e, u)
  BY <1>1
<1>7. /\ \A r \in requests' : r \in requests
      /\ \A u \in Terminals : u # t => summary'[u] = summary[u]
  BY <1>1
<1>8. QED
  BY <1>1, <1>2, <1>3, <1>4, <1>5, <1>6, <1>7, Published

\* The server marks the summary of r.id, tells the browser, and answers r.
LEMMA MarkStep ==
    ASSUME InboxKnown, NEW r \in requests, NEW marked \in Summary,
           summary[r.id] # None, marked.gen = summary[r.id].gen,
           Older(summary[r.id], marked), r.kind = "option" => marked.done,
           summary' = [summary EXCEPT ![r.id] = marked],
           Publish(r.id, Updated(r.id, marked)), Step(r, "answered", marked),
           UNCHANGED <<active, ended, clock, listening, cache, optimistic>>
    PROVE  InboxKnown'
<1> DEFINE t == r.id
           e == Updated(r.id, marked)
           answered == [r EXCEPT !.phase = "answered", !.answer = marked]
<1>1. InboxTyped /\ Exact /\ NothingNewer
  BY DEF InboxKnown
<1>2. /\ clock \in Nat /\ MaxClock \in Nat /\ clock \in 0..MaxClock /\ clock' = clock
      /\ summary \in [Terminals -> Summary \cup {None}] /\ active' \subseteq Terminals
      /\ ended' \subseteq Terminals /\ r \in Request /\ t \in Terminals /\ marked # None
      /\ active' = active /\ ended' = ended
  BY <1>1, InboxAssumption DEF InboxTyped, InboxTypeOK, Request
<1>3. e \in Event /\ e # Lagged /\ e.id = t /\ Data(e) /\ Carried(e) = marked /\ e.type # "deleted"
  BY <1>2 DEF Event, Lagged, Data, Carried, Updated
<1>4. /\ summary' \in [Terminals -> Summary \cup {None}] /\ summary'[t] = marked
      /\ \A u \in Terminals : u # t => summary'[u] = summary[u]
  BY <1>2
<1>5. Advance(summary[t], summary'[t], clock, clock')
  BY <1>4 DEF Advance
<1>6. \A u \in Terminals : EndsLast(u)'
  BY <1>1, <1>2, <1>4 DEF Exact, EndsLast
<1>7. answered \in Request /\ RequestKnown(answered, clock', summary')
  <2>1. /\ answered \in Request /\ answered.phase = "answered" /\ answered.answer = marked
        /\ answered.id = t /\ answered.kind = r.kind /\ answered.snapshot = r.snapshot
        /\ r.snapshot \in Summary
    BY <1>2 DEF Request
  <2>2. /\ Past(r.snapshot, clock, summary[t]) /\ Past(summary[t], clock, summary[t])
        /\ r.snapshot # None
    BY <1>1, <1>2, <2>1, InboxAssumption DEF NothingNewer, RequestKnown
  <2>3. /\ r.snapshot.gen <= clock /\ Older(r.snapshot, summary[t]) /\ marked.gen <= clock
        /\ summary[t] \in Summary
    BY <1>2, <2>2 DEF Past
  <2>4. Older(r.snapshot, marked) /\ Older(marked, marked)
    BY <2>1, <2>3 DEF Older, Summary
  <2> HIDE DEF answered
  <2>5. QED
    BY <1>2, <1>4, <2>1, <2>2, <2>3, <2>4 DEF RequestKnown, Past
<1>8. \A q \in requests' : q \in requests \/ (q \in Request /\ RequestKnown(q, clock', summary'))
  BY <1>7 DEF Step
<1>9. Publish(t, e) /\ clock <= clock' /\ clock' \in 0..MaxClock
  BY <1>2
<1>10. \A u \in Terminals : u \notin ended' => u \notin ended \/ About(e, u)
  BY <1>2
<1> HIDE DEF t, e, answered
<1>11. QED
  BY <1>2, <1>3, <1>4, <1>5, <1>6, <1>8, <1>9, <1>10, Published

\* A request that reaches the server marks the summary, waits for its option, or
\* is refused.
LEMMA TakesEffect ==
    ASSUME InboxTyped, NEW r \in requests, ServerTakes(r) \/ OptionRuns(r)
    PROVE  /\ UNCHANGED <<active, ended, clock, listening, cache, optimistic>>
           /\ \/ /\ UNCHANGED <<summary, link, load, missed>>
                 /\ \E phase \in {"failed", "running"}, answer \in Summary \cup {None} :
                        (phase = "running" => answer # None) /\ Step(r, phase, answer)
              \/ \E marked \in Summary :
                    /\ summary[r.id] # None /\ marked.gen = summary[r.id].gen
                    /\ Older(summary[r.id], marked) /\ (r.kind = "option" => marked.done)
                    /\ summary' = [summary EXCEPT ![r.id] = marked]
                    /\ Publish(r.id, Updated(r.id, marked)) /\ Step(r, "answered", marked)
<1> DEFINE s == summary[r.id]
           both == [s EXCEPT !.unread = FALSE, !.done = TRUE]
           read == [s EXCEPT !.unread = FALSE]
<1>1. UNCHANGED <<active, ended, clock, listening, cache, optimistic>>
  BY DEF ServerTakes, OptionRuns
<1>2. s \in Summary \cup {None}
  BY DEF InboxTyped, InboxTypeOK, Request
<1>3. s # None => /\ both \in Summary /\ both.gen = s.gen /\ Older(s, both) /\ both.done
                  /\ read \in Summary /\ read.gen = s.gen /\ Older(s, read)
  <2>1. SUFFICES ASSUME s # None
                 PROVE  /\ both \in Summary /\ both.gen = s.gen /\ Older(s, both) /\ both.done
                        /\ read \in Summary /\ read.gen = s.gen /\ Older(s, read)
    OBVIOUS
  <2>2. s \in Summary
    BY <1>2, <2>1
  <2> HIDE DEF s
  <2>3. QED
    BY <2>2 DEF Summary, Older
<1> DEFINE fails == /\ UNCHANGED <<summary, link, load, missed>> /\ Step(r, "failed", None)
           runs == /\ UNCHANGED <<summary, link, load, missed>> /\ Step(r, "running", s)
           marks(m) == /\ summary' = [summary EXCEPT ![r.id] = m]
                       /\ Publish(r.id, Updated(r.id, m)) /\ Step(r, "answered", m)
<1>4. \/ fails
      \/ s # None /\ runs
      \/ s # None /\ marks(both)
      \/ s # None /\ r.kind # "option" /\ marks(read)
  <2>1. CASE ServerTakes(r)
    <3>1. CASE s = None \/ (s # None /\ r.kind = "option" /\ s.done)
      BY <2>1, <3>1 DEF ServerTakes
    <3>2. CASE s # None /\ r.kind = "option" /\ ~s.done
      BY <2>1, <3>2 DEF ServerTakes
    <3>3. CASE s # None /\ r.kind = "read"
      BY <2>1, <3>3 DEF ServerTakes
    <3>4. CASE s # None /\ r.kind # "read" /\ r.kind # "option"
      BY <2>1, <3>4 DEF ServerTakes
    <3>5. QED
      BY <3>1, <3>2, <3>3, <3>4
  <2>2. CASE OptionRuns(r)
    BY <2>2 DEF OptionRuns
  <2>3. QED
    BY <2>1, <2>2
<1> HIDE DEF s, both, read
<1>5. CASE fails
  BY <1>1, <1>5
<1>6. CASE s # None /\ runs
  BY <1>1, <1>2, <1>6
<1>7. CASE s # None /\ marks(both)
  BY <1>1, <1>3, <1>7 DEF s
<1>8. CASE s # None /\ r.kind # "option" /\ marks(read)
  BY <1>1, <1>3, <1>8 DEF s
<1>9. QED
  BY <1>4, <1>5, <1>6, <1>7, <1>8

-----------------------------------------------------------------------------
\* The steps that leave the server, the list and the waiting events alone: the
\* loop goes on, a load begins or ends in vain, a request goes on.
LEMMA QuietStep ==
    ASSUME InboxKnown,
           UNCHANGED <<server, cache, optimistic>>, stream' = stream, missed' = missed,
           loop' \in {"refresh", "asked", "join", "load", "subscribe", "open", "wait"},
           background' \in {"no", "sessions", "full", "join", "load"}, needs' \in BOOLEAN,
           load' = load \/ load' = NewLoad \/ load' = None,
           loop' = "load" \/ background' = "load" => load' # None,
           subscribed' \in BOOLEAN, subscribed' => loop' = "open",
           loop' # "open" => stream = <<>>, stream # <<>> => subscribed' = subscribed,
           \A r \in requests' : \/ r \in requests
                                \/ r \in Request /\ RequestKnown(r, clock, summary)
    PROVE  InboxKnown'
<1>1. InboxTyped /\ Connected /\ NothingNewer /\ DoneIsDone /\ DeletedIsGone /\ Exact
  BY DEF InboxKnown
<1>2. /\ UNCHANGED <<active, ended, summary, clock, shown, deletedAt, optimistic, stream, missed>>
  BY DEF server, cache
<1>3. requests' \subseteq Request
  BY <1>1 DEF InboxTyped
<1>4. load' \in Load \cup {None}
  BY <1>1, NewLoadIs DEF InboxTyped
<1>5. InboxTypeOK'
  BY <1>1, <1>2 DEF InboxTyped, InboxTypeOK
<1>6. InboxTyped'
  BY <1>1, <1>2, <1>3, <1>4, <1>5 DEF InboxTyped
<1>7. Connected'
  <2>1. ASSUME NEW i \in 1..Len(stream) PROVE subscribed' <=> stream[i] # Lagged
    <3>1. stream # <<>>
      OBVIOUS
    <3>2. QED
      BY <1>1, <2>1, <3>1 DEF Connected
  <2>2. QED
    BY <1>2, <2>1 DEF Connected
<1>8. NothingNewer'
  <2>1. ASSUME NEW t \in Terminals, load' # None PROVE Past(load'.items[t], clock, summary[t])
    BY <1>1, <2>1, NewLoadIs DEF NothingNewer, Past
  <2>2. \A r \in requests' : RequestKnown(r, clock, summary)
    BY <1>1 DEF NothingNewer
  <2>3. QED
    BY <1>1, <1>2, <2>1, <2>2 DEF NothingNewer
<1>9. DoneIsDone' /\ DeletedIsGone'
  BY <1>1, <1>2 DEF DoneIsDone, DeletedIsGone
<1>10. ASSUME NEW t \in Terminals PROVE (LastSays(t) /\ EndsLast(t) /\ ShownIs(t) /\ LoadIs(t))'
  <2>1. LastSays(t) /\ EndsLast(t) /\ ShownIs(t) /\ LoadIs(t)
    BY <1>1, <1>10 DEF Exact
  <2>2. EndsLast(t)' /\ ShownIs(t)'
    BY <1>2, <2>1 DEF EndsLast, ShownIs, Heard
  <2>3. LastSays(t)'
    BY <1>2, <1>10, <2>1, NewLoadIs DEF LastSays
  <2>4. LoadIs(t)'
    BY <1>2, <1>10, <2>1, NewLoadIs DEF LoadIs, Heard
  <2>5. QED
    BY <2>2, <2>3, <2>4
<1>11. Exact'
  BY <1>10 DEF Exact
<1>12. QED
  BY <1>6, <1>7, <1>8, <1>9, <1>11 DEF InboxKnown

\* Refreshing, joining, subscribing and waiting keep the invariant, and so does a
\* load that begins or fails.
LEMMA LoopStep ==
    ASSUME InboxKnown,
           \/ LoadAgain \/ LoadFails \/ Refresh \/ Refreshed \/ Overtaken \/ Joined
           \/ RefreshFails \/ Subscribe \/ StreamEnds \/ Reconnect \/ BackgroundRefreshed
    PROVE  InboxKnown'
<1>1. InboxTyped /\ InboxTypeOK /\ Connected
  BY DEF InboxKnown, InboxTyped
<1>2. /\ loop \in {"refresh", "asked", "join", "load", "subscribe", "open", "wait"}
      /\ background \in {"no", "sessions", "full", "join", "load"}
      /\ needs \in BOOLEAN /\ subscribed \in BOOLEAN
      /\ loop = "load" \/ background = "load" => load # None
      /\ subscribed => loop = "open"
      /\ loop # "open" => stream = <<>>
  BY <1>1 DEF InboxTyped, InboxTypeOK, Connected
<1>3. NewLoad # None
  BY NewLoadIs
<1> DEFINE quiet ==
           /\ UNCHANGED <<server, cache, optimistic>> /\ stream' = stream /\ missed' = missed
           /\ loop' \in {"refresh", "asked", "join", "load", "subscribe", "open", "wait"}
           /\ background' \in {"no", "sessions", "full", "join", "load"} /\ needs' \in BOOLEAN
           /\ (load' = load \/ load' = NewLoad \/ load' = None)
           /\ (loop' = "load" \/ background' = "load" => load' # None)
           /\ subscribed' \in BOOLEAN /\ (subscribed' => loop' = "open")
           /\ (loop' # "open" => stream = <<>>) /\ (stream # <<>> => subscribed' = subscribed)
           /\ requests' = requests
<1>4. LoadAgain => quiet
  BY <1>2, <1>3 DEF LoadAgain, link, listening
<1>5. LoadFails => quiet
  BY <1>2, <1>3 DEF LoadFails, LoadEnds, link
<1>6. Refresh => quiet
  BY <1>2, <1>3 DEF Refresh, link
<1>7. Refreshed => quiet
  BY <1>2, <1>3 DEF Refreshed, link
<1>8. Overtaken => quiet
  BY <1>2, <1>3 DEF Overtaken, link
<1>9. Joined => quiet
  BY <1>2, <1>3 DEF Joined, link
<1>10. RefreshFails => quiet
  BY <1>2, <1>3 DEF RefreshFails, link
<1>11. Subscribe => quiet
  BY <1>2, <1>3 DEF Subscribe
<1>12. StreamEnds => quiet
  BY <1>2, <1>3 DEF StreamEnds, link
<1>13. Reconnect => quiet
  BY <1>2, <1>3 DEF Reconnect, link
<1>14. BackgroundRefreshed => quiet
  BY <1>2, <1>3 DEF BackgroundRefreshed, link
<1>15. quiet
  BY <1>4, <1>5, <1>6, <1>7, <1>8, <1>9, <1>10, <1>11, <1>12, <1>13, <1>14
<1>16. QED
  BY <1>15, QuietStep

\* So do a click, its way to the server, and a refusal.
LEMMA AskStep ==
    ASSUME InboxKnown,
           \/ \E t \in Terminals, kind \in Kinds : Click(t, kind)
           \/ \E r \in requests : ServerTakes(r) \/ OptionRuns(r) \/ Refused(r)
    PROVE  InboxKnown'
<1>1. InboxTyped /\ InboxTypeOK /\ Connected /\ NothingNewer
  BY DEF InboxKnown, InboxTyped
<1>2. /\ loop \in {"refresh", "asked", "join", "load", "subscribe", "open", "wait"}
      /\ background \in {"no", "sessions", "full", "join", "load"}
      /\ needs \in BOOLEAN /\ subscribed \in BOOLEAN
      /\ loop = "load" \/ background = "load" => load # None
      /\ subscribed => loop = "open"
      /\ loop # "open" => stream = <<>>
  BY <1>1 DEF InboxTyped, InboxTypeOK, Connected
<1> DEFINE known == \A q \in requests' : \/ q \in requests
                                         \/ q \in Request /\ RequestKnown(q, clock, summary)
           quiet == /\ UNCHANGED <<server, link, listening, cache, optimistic, load, missed>>
                    /\ known
<1>3. quiet => InboxKnown'
  <2>1. quiet => /\ UNCHANGED <<server, cache, optimistic>> /\ stream' = stream
                 /\ missed' = missed /\ loop' = loop /\ background' = background
                 /\ needs' = needs /\ load' = load /\ subscribed' = subscribed
    BY DEF link, listening
  <2>2. QED
    BY <1>2, <2>1, QuietStep
<1> DEFINE q(t, kind) == [kind |-> kind, id |-> t, snapshot |-> shown[t], moved |-> FALSE,
                          phase |-> "sent", answer |-> None]
<1>4. ASSUME NEW t \in Terminals, NEW kind \in Kinds, Click(t, kind) PROVE InboxKnown'
  <2>1. /\ UNCHANGED <<server, link, listening, cache, optimistic, load, missed>>
        /\ requests' = requests \cup {q(t, kind)} /\ shown[t] # None
    BY <1>4 DEF Click
  <2>2. shown[t] \in Summary /\ Past(shown[t], clock, summary[t])
    BY <1>1, <2>1 DEF InboxTypeOK, NothingNewer
  <2>3. q(t, kind) \in Request /\ RequestKnown(q(t, kind), clock, summary)
    BY <2>2 DEF Request, RequestKnown
  <2>4. known
    BY <2>1, <2>3
  <2>5. QED
    BY <1>3, <2>1, <2>4
<1>5. ASSUME NEW r \in requests, Refused(r) PROVE InboxKnown'
  <2>1. quiet
    BY <1>5 DEF Refused
  <2>2. QED
    BY <1>3, <2>1
<1>6. ASSUME NEW r \in requests, ServerTakes(r) \/ OptionRuns(r) PROVE InboxKnown'
  <2>1. CASE /\ UNCHANGED <<summary, link, load, missed>>
             /\ \E phase \in {"failed", "running"}, answer \in Summary \cup {None} :
                    (phase = "running" => answer # None) /\ Step(r, phase, answer)
    <3>1. PICK phase \in {"failed", "running"}, answer \in Summary \cup {None} :
               (phase = "running" => answer # None) /\ Step(r, phase, answer)
      BY <2>1
    <3> DEFINE new == [r EXCEPT !.phase = phase, !.answer = answer]
    <3>2. r \in Request /\ RequestKnown(r, clock, summary)
      BY <1>1 DEF InboxTyped, NothingNewer
    <3>3. /\ new \in Request /\ new.phase = phase /\ new.answer = answer
          /\ new.id = r.id /\ new.snapshot = r.snapshot
      BY <3>2 DEF Request
    <3>4. RequestKnown(new, clock, summary)
      BY <3>1, <3>2, <3>3 DEF RequestKnown
    <3>5. known
      BY <3>1, <3>3, <3>4 DEF Step
    <3>6. UNCHANGED <<server, link, listening, cache, optimistic, load, missed>>
      <4>1. UNCHANGED <<active, ended, clock, listening, cache, optimistic>>
        BY <1>1, <1>6, TakesEffect
      <4>2. QED
        BY <2>1, <4>1 DEF server
    <3>7. QED
      BY <1>3, <3>5, <3>6
  <2>2. CASE \E marked \in Summary :
                /\ summary[r.id] # None /\ marked.gen = summary[r.id].gen
                /\ Older(summary[r.id], marked) /\ (r.kind = "option" => marked.done)
                /\ summary' = [summary EXCEPT ![r.id] = marked]
                /\ Publish(r.id, Updated(r.id, marked)) /\ Step(r, "answered", marked)
    <3>1. UNCHANGED <<active, ended, clock, listening, cache, optimistic>>
      BY <1>1, <1>6, TakesEffect
    <3>2. QED
      BY <2>2, <3>1, MarkStep
  <2>3. QED
    BY <1>1, <1>6, <2>1, <2>2, TakesEffect
<1>7. QED
  BY <1>4, <1>5, <1>6

-----------------------------------------------------------------------------
(* What the browser takes in. *)

\* The list is read: the load has what the server has.
LEMMA ListStep ==
    ASSUME InboxKnown, ServerLists
    PROVE  InboxKnown'
<1>1. InboxTyped /\ InboxTypeOK /\ Connected /\ NothingNewer /\ DoneIsDone /\ DeletedIsGone /\ Exact
  BY DEF InboxKnown, InboxTyped
<1>2. /\ load # None /\ load.phase = "asked"
      /\ load' = [load EXCEPT !.phase = "answered", !.items = Listed]
      /\ UNCHANGED <<server, link, listening, cache, optimistic, requests, missed>>
  BY DEF ServerLists
<1>3. /\ UNCHANGED <<active, ended, summary, clock, stream, subscribed, loop, needs, background,
                     shown, deletedAt, optimistic, requests, missed>>
  BY <1>2 DEF server, link, listening, cache
<1>4. Listed \in [Terminals -> Summary \cup {None}]
  BY <1>1 DEF Listed, InboxTypeOK
<1>5. /\ load' \in Load /\ load' # None /\ load'.phase = "answered" /\ load'.items = Listed
      /\ load'.since = load.since /\ load \in Load
  <2>1. load \in Load
    BY <1>1, <1>2 DEF InboxTyped
  <2>2. load' \in Load
    BY <1>2, <1>4, <2>1 DEF Load
  <2>3. QED
    BY <1>2, <2>1, <2>2, InboxAssumption DEF Load
<1>6. InboxTyped'
  BY <1>1, <1>3, <1>5 DEF InboxTyped, InboxTypeOK
<1>7. Connected' /\ DoneIsDone' /\ DeletedIsGone'
  BY <1>1, <1>3 DEF Connected, DoneIsDone, DeletedIsGone
<1>8. NothingNewer'
  <2>1. \A t \in Terminals : Past(Listed[t], clock, summary[t])
    BY <1>1 DEF NothingNewer, Listed, Past
  <2>2. QED
    BY <1>1, <1>3, <1>5, <2>1 DEF NothingNewer
<1>9. ASSUME NEW t \in Terminals PROVE (LastSays(t) /\ EndsLast(t) /\ ShownIs(t) /\ LoadIs(t))'
  <2>1. LastSays(t) /\ EndsLast(t) /\ ShownIs(t) /\ LoadIs(t)
    BY <1>1, <1>9 DEF Exact
  <2>2. EndsLast(t)' /\ ShownIs(t)'
    BY <1>3, <2>1 DEF EndsLast, ShownIs, Heard
  <2>3. LastSays(t)'
    BY <1>3, <1>5, <1>9, <2>1 DEF LastSays, Carried, Listed
  <2>4. load.since = {}
    BY <1>2, <2>1 DEF LoadIs
  <2>5. t \notin ended => Listed[t] = summary[t]
    BY <1>9, <2>1 DEF Listed, EndsLast
  <2>6. Listed[t] # None => summary[t] # None
    BY <1>9 DEF Listed
  <2>7. LoadIs(t)'
    BY <1>3, <1>5, <2>4, <2>5, <2>6 DEF LoadIs, Heard
  <2>8. QED
    BY <2>2, <2>3, <2>7
<1>10. Exact'
  BY <1>9 DEF Exact
<1>11. QED
  BY <1>6, <1>7, <1>8, <1>10 DEF InboxKnown

\* The list is applied.  An item nothing touched is what the server has; one that
\* was touched is kept, for what touched it was heard.
LEMMA ApplyStep ==
    ASSUME InboxKnown, ApplyLoad
    PROVE  InboxKnown'
<1>1. InboxTyped /\ InboxTypeOK /\ Connected /\ NothingNewer /\ DoneIsDone /\ DeletedIsGone /\ Exact
  BY DEF InboxKnown, InboxTyped
<1>2. /\ load # None /\ load.phase = "answered" /\ load' = None
      /\ shown' = [t \in Terminals |-> Merged(t, load.items[t], t \in load.moved)]
      /\ deletedAt' = [t \in Terminals |->
                          IF load.items[t] # None /\ load.items[t].gen > deletedAt[t]
                          THEN 0 ELSE deletedAt[t]]
      /\ missed' = missed \cap (load.since \cup load.moved)
      /\ loop' = (IF loop = "load" THEN "subscribe" ELSE loop)
      /\ background' = (IF background = "load" THEN "no" ELSE background)
      /\ UNCHANGED <<active, ended, summary, clock, stream, subscribed, needs, optimistic,
                     requests>>
  BY DEF ApplyLoad, LoadEnds, server, link
<1>3. /\ load \in Load /\ clock \in Nat
      /\ \A t \in Terminals : /\ load.items[t] \in Summary \cup {None}
                              /\ shown[t] \in Summary \cup {None}
                              /\ summary[t] \in Summary \cup {None}
                              /\ deletedAt[t] \in 0..MaxClock
  <2>1. load \in Load
    BY <1>1, <1>2 DEF InboxTyped
  <2>2. QED
    BY <1>1, <2>1, InboxAssumption DEF InboxTyped, InboxTypeOK, Load
<1>4. ASSUME NEW t \in Terminals
      PROVE  /\ shown'[t] \in Summary \cup {None} /\ deletedAt'[t] \in 0..MaxClock
             /\ shown'[t] \in {None, shown[t], load.items[t]}
             /\ deletedAt'[t] \in {0, deletedAt[t]}
             /\ deletedAt'[t] # 0 => shown'[t] = None
  <2>1. /\ shown'[t] = Merged(t, load.items[t], t \in load.moved)
        /\ deletedAt'[t] = IF load.items[t] # None /\ load.items[t].gen > deletedAt[t]
                           THEN 0 ELSE deletedAt[t]
    BY <1>2, <1>4
  <2>2. /\ shown'[t] \in {None, shown[t], load.items[t]} /\ deletedAt'[t] \in {0, deletedAt[t]}
    BY <2>1 DEF Merged
  <2>3. deletedAt'[t] # 0 => shown'[t] = None
    <3>1. SUFFICES ASSUME deletedAt'[t] # 0 PROVE shown'[t] = None
      OBVIOUS
    <3>2. deletedAt[t] # 0 /\ (load.items[t] = None \/ ~(load.items[t].gen > deletedAt[t]))
      BY <2>1, <3>1
    <3>3. load.items[t] # None => load.items[t].gen <= deletedAt[t]
      BY <1>3, <3>2, InboxAssumption DEF Summary
    <3>4. QED
      BY <2>1, <3>2, <3>3 DEF Merged
  <2>4. 0 \in 0..MaxClock
    BY InboxAssumption
  <2>5. QED
    BY <1>3, <1>4, <2>2, <2>3, <2>4
<1>5. InboxTyped'
  <2>1. shown' \in [Terminals -> Summary \cup {None}] /\ deletedAt' \in [Terminals -> 0..MaxClock]
    BY <1>2, <1>4
  <2>2. missed' \subseteq Terminals
    BY <1>1, <1>2 DEF InboxTypeOK
  <2>3. InboxTypeOK'
    BY <1>1, <1>2, <2>1, <2>2 DEF InboxTypeOK
  <2>4. QED
    BY <1>1, <1>2, <2>1, <2>3 DEF InboxTyped
<1>6. Connected' /\ DoneIsDone'
  BY <1>1, <1>2 DEF Connected, DoneIsDone, InboxTypeOK
<1>7. DeletedIsGone'
  BY <1>4 DEF DeletedIsGone
<1>8. NothingNewer'
  <2>1. ASSUME NEW t \in Terminals
        PROVE  Past(shown'[t], clock, summary[t]) /\ After(deletedAt'[t], clock, summary[t])
    <3>1. /\ Past(shown[t], clock, summary[t]) /\ Past(load.items[t], clock, summary[t])
          /\ After(deletedAt[t], clock, summary[t])
      BY <1>1, <1>2 DEF NothingNewer
    <3>2. Past(None, clock, summary[t]) /\ After(0, clock, summary[t])
      BY <1>3 DEF Past, After, Summary
    <3>3. QED
      BY <1>4, <3>1, <3>2
  <2>2. QED
    BY <1>1, <1>2, <2>1 DEF NothingNewer
<1>9. ASSUME NEW t \in Terminals, Heard(t), t \notin missed' PROVE shown'[t] = summary[t]
  <2>1. shown'[t] = Merged(t, load.items[t], t \in load.moved)
    BY <1>2
  <2>2. ShownIs(t) /\ LoadIs(t) /\ ~Waits(stream, t)
    BY <1>1, <1>9 DEF Exact, Heard
  <2>3. t \notin load.moved \cup load.since => load.items[t] = summary[t]
    BY <1>2, <1>9, <2>2 DEF LoadIs
  <2>4. load.items[t] # None => load.items[t].gen \in Nat /\ load.items[t].gen >= 1
    BY <1>3 DEF Summary
  <2>5. CASE t \notin missed
    <3>1. shown[t] = summary[t] /\ t \notin load.since
      BY <1>2, <1>9, <2>2, <2>5 DEF ShownIs, LoadIs
    <3>2. deletedAt[t] # 0 => summary[t] = None
      BY <1>1, <3>1 DEF DeletedIsGone
    <3>3. load.items[t] # None /\ summary[t] = None => load.items[t].gen <= deletedAt[t]
      BY <1>2, <2>2, <2>5 DEF LoadIs
    <3>4. load.items[t] # None /\ summary[t] = None => deletedAt[t] # 0
      BY <1>3, <2>4, <3>3
    <3>5. QED
      BY <2>1, <2>3, <3>1, <3>2, <3>3, <3>4 DEF Merged
  <2>6. CASE t \in missed
    <3>1. t \notin load.moved /\ t \notin load.since /\ load.items[t] = summary[t]
      BY <1>2, <1>9, <2>3, <2>6
    <3>2. load.items[t] # None => deletedAt[t] < load.items[t].gen
      BY <1>1, <3>1 DEF NothingNewer, After
    <3>3. load.items[t] # None => ~(load.items[t].gen <= deletedAt[t])
      BY <1>3, <2>4, <3>2
    <3>4. QED
      BY <2>1, <3>1, <3>3 DEF Merged
  <2>7. QED
    BY <2>5, <2>6
<1>10. Exact'
  BY <1>1, <1>2, <1>9 DEF Exact, LastSays, EndsLast, ShownIs, LoadIs, Heard
<1>11. QED
  BY <1>5, <1>6, <1>7, <1>8, <1>10 DEF InboxKnown

-----------------------------------------------------------------------------
\* The stream breaks: the terminals with an event in it are noted.
LEMMA BreakStep ==
    ASSUME InboxKnown, StreamBreaks
    PROVE  InboxKnown'
<1>1. InboxTyped /\ InboxTypeOK /\ Connected /\ NothingNewer /\ DoneIsDone /\ DeletedIsGone /\ Exact
  BY DEF InboxKnown, InboxTyped
<1> DEFINE lost == {e.id : e \in ToSet(stream) \ {Lagged}}
<1>2. /\ missed' = missed \cup lost
      /\ load' = IF load # None /\ load.phase = "answered"
                 THEN [load EXCEPT !.since = @ \cup lost] ELSE load
      /\ stream' = <<>> /\ subscribed' = FALSE /\ loop' = "wait" /\ loop = "open"
      /\ UNCHANGED <<active, ended, summary, clock, needs, background, shown, deletedAt,
                     optimistic, requests>>
  BY DEF StreamBreaks, server, cache
<1>3. lost \subseteq Terminals
  <2>1. \A i \in 1..Len(stream) : stream[i] # Lagged => stream[i].id \in Terminals
    BY <1>1, EventIs DEF InboxTypeOK
  <2>2. QED
    BY <2>1 DEF ToSet
<1>4. ASSUME NEW t \in Terminals, t \notin lost PROVE ~Waits(stream, t)
  <2>1. ASSUME NEW i \in 1..Len(stream), About(stream[i], t) PROVE FALSE
    <3>1. stream[i] # Lagged /\ stream[i].id = t /\ stream[i] \in ToSet(stream)
      BY <2>1, EventIs DEF About, ToSet
    <3>2. QED
      BY <1>4, <3>1
  <2>2. QED
    BY <2>1 DEF Waits
<1> HIDE DEF lost
<1>5. /\ load' \in Load \cup {None} /\ (load' # None <=> load # None)
      /\ load # None => /\ load'.phase = load.phase /\ load'.moved = load.moved
                        /\ load'.items = load.items
                        /\ load'.since = IF load.phase = "answered" THEN load.since \cup lost
                                         ELSE load.since
  <2>1. CASE load = None
    BY <1>2, <2>1
  <2>2. CASE load # None
    <3>1. load \in Load
      BY <1>1, <2>2 DEF InboxTyped
    <3>2. CASE load.phase = "answered"
      <4>1. load' = [load EXCEPT !.since = @ \cup lost]
        BY <1>2, <2>2, <3>2
      <4>2. load' \in Load
        BY <1>3, <3>1, <4>1 DEF Load
      <4>3. QED
        BY <2>2, <3>1, <3>2, <4>1, <4>2, InboxAssumption DEF Load
    <3>3. CASE load.phase # "answered"
      BY <1>2, <2>2, <3>1, <3>3
    <3>4. QED
      BY <3>2, <3>3
  <2>3. QED
    BY <2>1, <2>2
<1>6. InboxTyped'
  <2>1. <<>> \in Seq(Event) /\ Len(<<>>) = 0 /\ 0 <= QueueLimit
    BY InboxAssumption
  <2>2. InboxTypeOK'
    BY <1>1, <1>2, <1>3, <1>5, <2>1 DEF InboxTypeOK
  <2>3. QED
    BY <1>1, <1>2, <1>5, <2>2 DEF InboxTyped
<1>7. Connected' /\ DoneIsDone' /\ DeletedIsGone'
  BY <1>1, <1>2 DEF Connected, DoneIsDone, DeletedIsGone
<1>8. NothingNewer'
  BY <1>1, <1>2, <1>5 DEF NothingNewer
<1>9. ASSUME NEW t \in Terminals PROVE (LastSays(t) /\ EndsLast(t) /\ ShownIs(t) /\ LoadIs(t))'
  <2>1. LastSays(t) /\ EndsLast(t) /\ ShownIs(t) /\ LoadIs(t)
    BY <1>1, <1>9 DEF Exact
  <2>2. EndsLast(t)' /\ ShownIs(t)'
    BY <1>2, <1>4, <1>9, <2>1 DEF EndsLast, ShownIs, Heard
  <2>3. LastSays(t)'
    BY <1>2, NoneWaits DEF LastSays
  <2>4. LoadIs(t)'
    <3>1. SUFFICES ASSUME load # None PROVE LoadIs(t)'
      BY <1>5 DEF LoadIs
    <3>2. /\ t \in load'.since => t \in missed'
          /\ load'.phase = "asked" => load'.items[t] = None /\ load'.since = {}
      BY <1>2, <1>5, <2>1, <3>1 DEF LoadIs
    <3>3. load'.phase = "answered" /\ Heard(t)' /\ t \notin load'.moved \cup load'.since =>
              load'.items[t] = summary'[t]
      BY <1>2, <1>4, <1>5, <1>9, <2>1, <3>1 DEF LoadIs, Heard
    <3>4. load'.items[t] # None /\ summary'[t] = None /\ t \notin missed' /\ ~Waits(stream', t) =>
              load'.items[t].gen <= deletedAt'[t]
      BY <1>2, <1>4, <1>5, <1>9, <2>1, <3>1 DEF LoadIs
    <3>5. QED
      BY <3>2, <3>3, <3>4 DEF LoadIs
  <2>5. QED
    BY <2>2, <2>3, <2>4
<1>10. Exact'
  BY <1>9 DEF Exact
<1>11. QED
  BY <1>6, <1>7, <1>8, <1>10 DEF InboxKnown

\* A touched item is noted in the load in flight and in the options running.
LEMMA BumpEffect ==
    ASSUME InboxTyped, NothingNewer, NEW t \in Terminals, NEW others \in SUBSET requests,
           Bump(t, others)
    PROVE  /\ load' \in Load \cup {None} /\ (load' # None <=> load # None)
           /\ load # None => /\ load'.phase = load.phase /\ load'.moved = load.moved \cup {t}
                             /\ load'.items = load.items /\ load'.since = load.since
           /\ requests' \subseteq Request
           /\ \A r \in requests' : RequestKnown(r, clock, summary)
<1>1. /\ load' \in Load \cup {None} /\ (load' # None <=> load # None)
      /\ load # None => /\ load'.phase = load.phase /\ load'.moved = load.moved \cup {t}
                        /\ load'.items = load.items /\ load'.since = load.since
  <2>1. CASE load = None
    BY <2>1 DEF Bump
  <2>2. CASE load # None
    <3>1. load \in Load /\ load' = [load EXCEPT !.moved = @ \cup {t}]
      BY <2>2 DEF InboxTyped, Bump
    <3>2. load' \in Load
      BY <3>1 DEF Load
    <3>3. QED
      BY <2>2, <3>1, <3>2, InboxAssumption DEF Load
  <2>3. QED
    BY <2>1, <2>2
<1>2. ASSUME NEW q \in requests' PROVE q \in Request /\ RequestKnown(q, clock, summary)
  <2>1. PICK r \in others :
          q = IF r.id = t /\ r.kind = "option" THEN [r EXCEPT !.moved = TRUE] ELSE r
    BY <1>2 DEF Bump
  <2>2. r \in Request /\ RequestKnown(r, clock, summary)
    BY <2>1 DEF InboxTyped, NothingNewer
  <2>3. CASE q = r
    BY <2>2, <2>3
  <2>4. CASE q = [r EXCEPT !.moved = TRUE]
    <3>1. /\ q \in Request /\ q.id = r.id /\ q.snapshot = r.snapshot /\ q.phase = r.phase
          /\ q.answer = r.answer /\ q.kind = r.kind
      BY <2>2, <2>4 DEF Request
    <3>2. QED
      BY <2>2, <3>1 DEF RequestKnown
  <2>5. QED
    BY <2>1, <2>3, <2>4
<1>3. requests' \subseteq Request /\ \A q \in requests' : RequestKnown(q, clock, summary)
  BY <1>2
<1>4. QED
  BY <1>1, <1>3

\* The browser handles a summary, or the removal of one: at is 0 or the removal's.
LEMMA HearData ==
    ASSUME InboxKnown, Hear, Data(Head(stream))
    PROVE  InboxKnown'
<1> DEFINE e == Head(stream)
           t == e.id
           at == IF e.type = "updated" THEN 0 ELSE e.at
<1>1. InboxTyped /\ InboxTypeOK /\ Connected /\ NothingNewer /\ DoneIsDone /\ DeletedIsGone /\ Exact
  BY DEF InboxKnown, InboxTyped
<1>2. /\ loop = "open" /\ stream # <<>> /\ stream' = Tail(stream) /\ Bump(t, requests)
      /\ shown' = [shown EXCEPT ![t] = Carried(e)] /\ deletedAt' = [deletedAt EXCEPT ![t] = at]
      /\ UNCHANGED <<active, ended, summary, clock, subscribed, loop, needs, background,
                     optimistic, missed>>
  BY DEF Hear, Data, Carried, server
<1>3. /\ stream \in Seq(Event) /\ Len(stream) \in Nat /\ Len(stream) >= 1
      /\ e = stream[1] /\ e \in Event /\ Tail(stream) \in Seq(Event)
      /\ Len(Tail(stream)) = Len(stream) - 1
      /\ \A i \in 1..Len(Tail(stream)) : i + 1 \in 1..Len(stream) /\ Tail(stream)[i] = stream[i + 1]
  BY <1>1, <1>2 DEF InboxTypeOK
<1>4. /\ t \in Terminals /\ Carried(e) \in Summary \cup {None} /\ at \in 0..MaxClock
      /\ Past(Carried(e), clock, summary[t]) /\ After(at, clock, summary[t])
      /\ at # 0 => Carried(e) = None
      /\ e.type = "updated" => Carried(e) # None
  <2>1. t \in Terminals /\ Carried(e) \in Summary \cup {None} /\ at \in 0..MaxClock
    BY <1>3, EventIs, InboxAssumption DEF Data, Carried
  <2>2. EventKnown(e, clock, summary)
    BY <1>1, <1>3 DEF NothingNewer
  <2>3. After(0, clock, summary[t])
    BY <1>1, <2>1, InboxAssumption DEF After, InboxTyped, InboxTypeOK, Summary
  <2>4. e.type = "updated" => Carried(e) # None
    BY <1>3, EventIs, InboxAssumption DEF Carried
  <2>5. QED
    BY <2>1, <2>2, <2>3, <2>4 DEF EventKnown, Data, Carried, Past
<1>5. /\ load' \in Load \cup {None} /\ (load' # None <=> load # None)
      /\ load # None => /\ load'.phase = load.phase /\ load'.moved = load.moved \cup {t}
                        /\ load'.items = load.items /\ load'.since = load.since
      /\ requests' \subseteq Request
      /\ \A r \in requests' : RequestKnown(r, clock, summary)
  BY <1>1, <1>2, <1>4, BumpEffect
<1>6. About(e, t)
  BY DEF About
<1>7. /\ LastOf(stream, t, e) \/ Waits(Tail(stream), t)
      /\ \A u : /\ Waits(stream, u) <=> Waits(Tail(stream), u) \/ About(e, u)
                /\ \A x : LastOf(Tail(stream), u, x) => LastOf(stream, u, x)
  BY <1>2, <1>3, <1>6, TailWaits
<1>8. \A u : u # t => ~About(e, u)
  BY DEF About
<1>9. e.type = "updated" \/ e.type = "deleted"
  BY DEF Data
<1>10. e.type # "updated" => at = e.at
  OBVIOUS
<1> HIDE DEF e, t, at
<1>11. shown' \in [Terminals -> Summary \cup {None}] /\ deletedAt' \in [Terminals -> 0..MaxClock]
  BY <1>1, <1>2, <1>4 DEF InboxTyped, InboxTypeOK
<1>12. \A u \in Terminals :
           /\ shown'[u] = (IF u = t THEN Carried(e) ELSE shown[u])
           /\ deletedAt'[u] = (IF u = t THEN at ELSE deletedAt[u])
  BY <1>1, <1>2 DEF InboxTyped, InboxTypeOK
<1>13. InboxTyped'
  <2>1. stream' \in Seq(Event) /\ Len(stream') <= QueueLimit
    BY <1>1, <1>2, <1>3, InboxAssumption DEF InboxTypeOK
  <2>2. InboxTypeOK'
    BY <1>1, <1>2, <1>5, <1>11, <2>1 DEF InboxTypeOK
  <2>3. QED
    BY <1>1, <1>2, <1>5, <1>11, <2>2 DEF InboxTyped
<1>14. Connected'
  BY <1>1, <1>2, <1>3 DEF Connected
<1>15. DoneIsDone'
  BY <1>1, <1>2 DEF DoneIsDone
<1>16. DeletedIsGone'
  BY <1>1, <1>4, <1>12 DEF DeletedIsGone
<1>17. NothingNewer'
  <2>1. \A u \in Terminals :
            Past(shown'[u], clock, summary[u]) /\ After(deletedAt'[u], clock, summary[u])
    BY <1>1, <1>4, <1>12 DEF NothingNewer
  <2>2. \A i \in 1..Len(stream') : EventKnown(stream'[i], clock, summary)
    BY <1>1, <1>2, <1>3 DEF NothingNewer
  <2>3. QED
    BY <1>1, <1>2, <1>5, <2>1, <2>2 DEF NothingNewer
<1>18. ASSUME NEW u \in Terminals PROVE (LastSays(u) /\ EndsLast(u) /\ ShownIs(u) /\ LoadIs(u))'
  <2>1. LastSays(u) /\ EndsLast(u) /\ ShownIs(u) /\ LoadIs(u)
    BY <1>1, <1>18 DEF Exact
  <2>2. EndsLast(u)'
    BY <1>2, <2>1 DEF EndsLast
  <2>3. LastSays(u)'
    BY <1>2, <1>5, <1>7, <2>1 DEF LastSays
  <2>4. CASE u # t
    <3>1. Waits(stream', u) <=> Waits(stream, u)
      BY <1>2, <1>7, <1>8, <2>4
    <3>2. ShownIs(u)'
      BY <1>2, <1>12, <2>1, <2>4, <3>1 DEF ShownIs, Heard
    <3>3. LoadIs(u)'
      BY <1>2, <1>5, <1>12, <2>1, <2>4, <3>1 DEF LoadIs, Heard
    <3>4. QED
      BY <2>2, <2>3, <3>2, <3>3
  <2>5. CASE u = t
    <3>1. ~Waits(stream', t) =>
              /\ Carried(e) = summary[t]
              /\ e.type = "deleted" /\ load # None /\ load.items[t] # None =>
                     load.items[t].gen <= e.at
      BY <1>2, <1>3, <1>7, <2>1, <2>5 DEF LastSays
    <3>2. ShownIs(u)'
      BY <1>2, <1>12, <2>5, <3>1 DEF ShownIs, Heard
    <3>3. LoadIs(u)'
      <4>1. SUFFICES ASSUME load # None PROVE LoadIs(u)'
        BY <1>5 DEF LoadIs
      <4>2. /\ t \in load'.since => t \in missed'
            /\ load'.phase = "asked" => load'.items[t] = None /\ load'.since = {}
            /\ t \in load'.moved
        BY <1>2, <1>5, <2>1, <2>5, <4>1 DEF LoadIs
      <4>3. load'.items[t] # None /\ summary'[t] = None /\ ~Waits(stream', t) =>
                load'.items[t].gen <= deletedAt'[t]
        BY <1>2, <1>4, <1>5, <1>9, <1>10, <1>12, <3>1, <4>1
      <4>4. QED
        BY <2>5, <4>2, <4>3 DEF LoadIs
    <3>4. QED
      BY <2>2, <2>3, <3>2, <3>3
  <2>6. QED
    BY <2>4, <2>5
<1>19. Exact'
  BY <1>18 DEF Exact
<1>20. QED
  BY <1>13, <1>14, <1>15, <1>16, <1>17, <1>19 DEF InboxKnown

\* Any other event leaves the list alone.
LEMMA HearOther ==
    ASSUME InboxKnown, Hear, ~Data(Head(stream))
    PROVE  InboxKnown'
<1>1. InboxTyped /\ InboxTypeOK /\ Connected /\ NothingNewer /\ DoneIsDone /\ DeletedIsGone /\ Exact
  BY DEF InboxKnown, InboxTyped
<1>2. /\ loop = "open" /\ stream # <<>> /\ stream' = Tail(stream)
      /\ background' \in {background, "full", "sessions"}
      /\ UNCHANGED <<active, ended, summary, clock, subscribed, loop, needs, shown, deletedAt,
                     optimistic, load, requests, missed>>
  BY DEF Hear, Data, server, cache
<1>3. /\ stream \in Seq(Event) /\ Len(stream) \in Nat /\ Len(stream) >= 1
      /\ Tail(stream) \in Seq(Event) /\ Len(Tail(stream)) = Len(stream) - 1
      /\ \A i \in 1..Len(Tail(stream)) : i + 1 \in 1..Len(stream) /\ Tail(stream)[i] = stream[i + 1]
  BY <1>1, <1>2 DEF InboxTypeOK
<1>4. \A u : /\ Waits(stream, u) <=> Waits(Tail(stream), u)
             /\ \A x : LastOf(Tail(stream), u, x) => LastOf(stream, u, x)
  BY <1>2, <1>3, TailWaits DEF About
<1>5. InboxTyped'
  <2>1. Len(stream') <= QueueLimit
    BY <1>1, <1>2, <1>3, InboxAssumption DEF InboxTypeOK
  <2>2. InboxTypeOK'
    BY <1>1, <1>2, <1>3, <2>1 DEF InboxTypeOK
  <2>3. QED
    BY <1>1, <1>2, <2>2 DEF InboxTyped
<1>6. Connected' /\ DoneIsDone' /\ DeletedIsGone'
  BY <1>1, <1>2, <1>3 DEF Connected, DoneIsDone, DeletedIsGone
<1>7. NothingNewer'
  BY <1>1, <1>2, <1>3 DEF NothingNewer
<1>8. Exact'
  BY <1>1, <1>2, <1>4 DEF Exact, LastSays, EndsLast, ShownIs, LoadIs, Heard
<1>9. QED
  BY <1>5, <1>6, <1>7, <1>8 DEF InboxKnown

\* Two summaries that each may have become the other are the same.
LEMMA OlderIsSame ==
    ASSUME NEW v \in Summary, NEW w \in Summary, Older(v, w), Older(w, v)
    PROVE  v = w
<1>1. v.gen = w.gen /\ v.unread = w.unread /\ v.done = w.done
  BY DEF Older, Summary
<1>2. QED
  BY <1>1 DEF Summary

\* The answer replaces what the user saw.  If that is what the server has, so is
\* the answer, for the server had both.
LEMMA AnswerStep ==
    ASSUME InboxKnown, NEW r \in requests, Answered(r)
    PROVE  InboxKnown'
<1>1. InboxTyped /\ InboxTypeOK /\ Connected /\ NothingNewer /\ DoneIsDone /\ DeletedIsGone /\ Exact
  BY DEF InboxKnown, InboxTyped
<1> DEFINE t == r.id
<1>2. /\ r \in Request /\ t \in Terminals /\ RequestKnown(r, clock, summary)
      /\ r.phase = "answered" /\ r.snapshot \in Summary /\ r.snapshot # None
      /\ r.answer \in Summary \cup {None} /\ r.answer # None
  BY <1>1, InboxAssumption DEF Answered, InboxTyped, NothingNewer, Request, RequestKnown
<1>3. /\ r.snapshot.gen <= clock /\ Older(r.snapshot, r.answer)
      /\ summary[t] # None => Older(r.snapshot, summary[t]) /\ Older(r.answer, summary[t])
      /\ Past(r.answer, clock, summary[t]) /\ (r.kind = "option" => r.answer.done)
  BY <1>2 DEF RequestKnown, Past
<1>4. /\ UNCHANGED <<active, ended, summary, clock, stream, subscribed, loop, needs, background,
                     deletedAt, missed>>
      /\ UNCHANGED <<server, link, listening>>
  BY DEF Answered, server, link, listening
<1>5. CASE r.kind = "option" /\ r.moved
  <2>1. requests' = requests \ {r} /\ UNCHANGED <<shown, optimistic, load>>
    BY <1>5 DEF Answered
  <2>2. UNCHANGED <<server, cache, optimistic>>
    BY <1>4, <2>1 DEF cache
  <2>3. /\ loop \in {"refresh", "asked", "join", "load", "subscribe", "open", "wait"}
        /\ background \in {"no", "sessions", "full", "join", "load"}
        /\ needs \in BOOLEAN /\ subscribed \in BOOLEAN
        /\ loop = "load" \/ background = "load" => load # None
        /\ subscribed => loop = "open"
        /\ loop # "open" => stream = <<>>
    BY <1>1 DEF InboxTyped, InboxTypeOK, Connected
  <2>4. \A q \in requests' : q \in requests
    BY <2>1
  <2>5. QED
    BY <1>4, <2>1, <2>2, <2>3, <2>4, QuietStep
<1>6. CASE ~(r.kind = "option" /\ r.moved)
  <2>1. /\ Bump(t, requests \ {r})
        /\ shown' = [shown EXCEPT ![t] = IF @ = r.snapshot THEN r.answer ELSE @]
        /\ optimistic' = (IF r.kind = "option" THEN [optimistic EXCEPT ![t] = r.snapshot.gen]
                          ELSE optimistic)
    BY <1>6 DEF Answered
  <2>2. /\ load' \in Load \cup {None} /\ (load' # None <=> load # None)
        /\ load # None => /\ load'.phase = load.phase /\ load'.moved = load.moved \cup {t}
                          /\ load'.items = load.items /\ load'.since = load.since
        /\ requests' \subseteq Request
        /\ \A q \in requests' : RequestKnown(q, clock, summary)
    <3>1. requests \ {r} \in SUBSET requests
      OBVIOUS
    <3>2. QED
      BY <1>1, <1>2, <2>1, <3>1, BumpEffect
  <2> HIDE DEF t
  <2>3. \A u \in Terminals :
            shown'[u] = IF u = t /\ shown[t] = r.snapshot THEN r.answer ELSE shown[u]
    BY <1>1, <1>2, <2>1 DEF InboxTypeOK
  <2>4. shown' \in [Terminals -> Summary \cup {None}]
    BY <1>1, <1>2, <2>1 DEF InboxTypeOK
  <2>5. /\ r.snapshot.gen \in 0..MaxClock /\ clock \in Nat
        /\ optimistic' \in [Terminals -> 0..MaxClock]
        /\ \A u \in Terminals : \/ optimistic'[u] = optimistic[u]
                                \/ u = t /\ r.kind = "option" /\ optimistic'[u] = r.snapshot.gen
    <3>1. r.snapshot.gen \in 0..MaxClock /\ clock \in Nat
      BY <1>1, <1>2, InboxAssumption DEF Summary, InboxTyped
    <3>2. optimistic \in [Terminals -> 0..MaxClock]
      BY <1>1 DEF InboxTyped
    <3>3. QED
      BY <1>2, <2>1, <3>1, <3>2
  <2>6. InboxTyped'
    <3>1. InboxTypeOK'
      BY <1>1, <1>4, <2>2, <2>4 DEF InboxTypeOK
    <3>2. QED
      BY <1>1, <1>4, <2>2, <2>5, <3>1 DEF InboxTyped
  <2>7. Connected'
    BY <1>1, <1>4 DEF Connected
  <2>8. DeletedIsGone'
    BY <1>1, <1>2, <1>4, <2>3 DEF DeletedIsGone
  <2>9. DoneIsDone'
    <3>1. SUFFICES ASSUME NEW u \in Terminals
                   PROVE  /\ optimistic'[u] <= clock
                          /\ summary[u] # None /\ optimistic'[u] = summary[u].gen => summary[u].done
      BY <1>4 DEF DoneIsDone
    <3>2. CASE optimistic'[u] = optimistic[u]
      BY <1>1, <3>2 DEF DoneIsDone
    <3>3. CASE u = t /\ r.kind = "option" /\ optimistic'[u] = r.snapshot.gen
      <4>1. optimistic'[u] <= clock
        BY <1>3, <3>3
      <4>2. ASSUME summary[t] # None, r.snapshot.gen = summary[t].gen PROVE summary[t].done
        <5>1. summary[t] \in Summary /\ r.answer \in Summary
          BY <1>1, <1>2, <3>3, <4>2 DEF InboxTypeOK
        <5>2. Older(r.snapshot, r.answer) /\ Older(r.answer, summary[t]) /\ r.answer.done
          BY <1>3, <3>3, <4>2
        <5>3. QED
          BY <1>2, <4>2, <5>1, <5>2 DEF Older, Summary
      <4>3. QED
        BY <3>3, <4>1, <4>2
    <3>4. QED
      BY <2>5, <3>2, <3>3
  <2>10. NothingNewer'
    <3>1. \A u \in Terminals : Past(shown'[u], clock, summary[u])
      BY <1>1, <1>3, <2>3 DEF NothingNewer
    <3>2. QED
      BY <1>1, <1>4, <2>2, <3>1 DEF NothingNewer
  <2>11. ASSUME NEW u \in Terminals PROVE (LastSays(u) /\ EndsLast(u) /\ ShownIs(u) /\ LoadIs(u))'
    <3>1. LastSays(u) /\ EndsLast(u) /\ ShownIs(u) /\ LoadIs(u)
      BY <1>1, <2>11 DEF Exact
    <3>2. EndsLast(u)'
      BY <1>4, <3>1 DEF EndsLast
    <3>3. LastSays(u)'
      BY <1>4, <2>2, <3>1 DEF LastSays
    <3>4. ASSUME shown[t] = r.snapshot, shown[t] = summary[t] PROVE r.answer = summary[t]
      <4>1. r.answer \in Summary /\ summary[t] \in Summary /\ summary[t] = r.snapshot
        BY <1>2, <3>4
      <4>2. Older(r.answer, summary[t]) /\ Older(summary[t], r.answer)
        BY <1>2, <1>3, <4>1
      <4>3. QED
        BY <4>1, <4>2, OlderIsSame
    <3>5. ShownIs(u)'
      BY <1>4, <2>3, <2>11, <3>1, <3>4 DEF ShownIs, Heard
    <3>6. LoadIs(u)'
      BY <1>4, <2>2, <3>1 DEF LoadIs, Heard
    <3>7. QED
      BY <3>2, <3>3, <3>5, <3>6
  <2>12. Exact'
    BY <2>11 DEF Exact
  <2>13. QED
    BY <2>6, <2>7, <2>8, <2>9, <2>10, <2>12 DEF InboxKnown
<1>7. QED
  BY <1>5, <1>6

-----------------------------------------------------------------------------
(* The theorems. *)

\* Every step keeps the invariant.
LEMMA InboxStep == InboxKnown /\ [InboxNext]_inboxVars => InboxKnown'
<1> SUFFICES ASSUME InboxKnown, [InboxNext]_inboxVars PROVE InboxKnown'
  OBVIOUS
<1>1. CASE Server
  BY <1>1, GenerateStep, DeleteStep, AgentStep DEF Server
<1>2. CASE Loads
  BY <1>2, LoopStep, ListStep, ApplyStep DEF Loads
<1>3. CASE Consume
  BY <1>3, LoopStep, BreakStep, HearData, HearOther DEF Consume
<1>4. CASE User
  BY <1>4, AskStep, AnswerStep DEF User
<1>5. CASE UNCHANGED inboxVars
  <2>1. InboxTyped /\ InboxTypeOK /\ Connected
    BY DEF InboxKnown, InboxTyped
  <2>2. /\ UNCHANGED <<server, cache, optimistic>> /\ stream' = stream /\ missed' = missed
        /\ loop' = loop /\ background' = background /\ needs' = needs /\ load' = load
        /\ subscribed' = subscribed /\ requests' = requests
    BY <1>5 DEF inboxVars, link, listening
  <2>3. /\ loop \in {"refresh", "asked", "join", "load", "subscribe", "open", "wait"}
        /\ background \in {"no", "sessions", "full", "join", "load"}
        /\ needs \in BOOLEAN /\ subscribed \in BOOLEAN
        /\ loop = "load" \/ background = "load" => load # None
        /\ subscribed => loop = "open"
        /\ loop # "open" => stream = <<>>
    BY <2>1 DEF InboxTyped, InboxTypeOK, Connected
  <2>4. QED
    BY <2>2, <2>3, QuietStep
<1>6. QED
  BY <1>1, <1>2, <1>3, <1>4, <1>5 DEF InboxNext

\* The inductive invariant holds always.
THEOREM InboxAlways == InboxSpec => []InboxKnown
<1>1. InboxInit => InboxKnown
  BY InboxStarts
<1>2. InboxKnown /\ [InboxNext]_inboxVars => InboxKnown'
  BY InboxStep
<1>3. QED
  BY <1>1, <1>2, PTL DEF InboxSpec

\* A summary the browser was told is deleted does not come back from a load that
\* was on its way (App.tsx 1241-1253), and the types hold.
THEOREM InboxSafe == InboxSpec => []InboxInv
<1>1. InboxKnown => InboxInv
  <2>1. SUFFICES ASSUME InboxKnown PROVE InboxTypeOK /\ NoResurrection
    BY DEF InboxInv
  <2>2. InboxTypeOK /\ DeletedIsGone
    BY <2>1 DEF InboxKnown, InboxTyped
  <2>3. ASSUME NEW t \in Terminals, shown[t] # None PROVE shown[t].gen > deletedAt[t]
    <3>1. deletedAt[t] = 0 /\ shown[t] \in Summary
      BY <2>2, <2>3 DEF DeletedIsGone, InboxTypeOK
    <3>2. QED
      BY <3>1 DEF Summary
  <2>4. QED
    BY <2>2, <2>3 DEF NoResurrection
<1>2. QED
  BY <1>1, InboxAlways, PTL

\* A browser that heard all events about a terminal shows exactly the summary the
\* server has, in the tab its done flag says (App.tsx 1233-1319, 2035-2058,
\* 4165-4262), whatever loads, answers, failures and broken streams lie between.
THEOREM ExactAlways == InboxSpec => []ExactWhenQuiet
<1>1. InboxKnown => ExactWhenQuiet
  <2>1. SUFFICES ASSUME InboxKnown, NEW t \in Terminals, Quiet(t), t \notin missed
                 PROVE  /\ shown[t] = summary[t]
                        /\ summary[t] # None => (t \in DoneTab <=> summary[t].done)
    BY DEF ExactWhenQuiet
  <2>2. InboxTyped /\ DoneIsDone /\ ShownIs(t) /\ InboxTypeOK
    BY <2>1 DEF InboxKnown, Exact, InboxTyped
  <2>3. ~Waits(stream, t)
    <3>1. ASSUME NEW i \in 1..Len(stream), About(stream[i], t) PROVE FALSE
      <4>1. stream[i] \in ToSet(stream)
        BY DEF ToSet
      <4>2. QED
        BY <2>1, <3>1, <4>1 DEF Quiet, About, Data
    <3>2. QED
      BY <3>1 DEF Waits
  <2>4. shown[t] = summary[t]
    BY <2>1, <2>2, <2>3 DEF ShownIs, Heard, Quiet
  <2>5. ASSUME summary[t] # None PROVE t \in DoneTab <=> summary[t].done
    <3>1. optimistic[t] = summary[t].gen => summary[t].done
      BY <2>2, <2>5 DEF DoneIsDone
    <3>2. t \in DoneTab <=> DisplaysDone(t)
      BY <2>4, <2>5 DEF DoneTab
    <3>3. DisplaysDone(t) <=> (summary[t].done \/ optimistic[t] = summary[t].gen)
      BY <2>4 DEF DisplaysDone
    <3>4. QED
      BY <3>1, <3>2, <3>3
  <2>6. QED
    BY <2>4, <2>5
<1>2. QED
  BY <1>1, InboxAlways, PTL

-----------------------------------------------------------------------------
(* The status of an agent. *)

\* Where a goroutine is between locking and unlocking metadataSaveMu.
Holding == {"apply", "stat", "saving", "completing", "rollback"}

\* metadataSaveMu has the owner that is inside, and what the owner published
\* stays in memory until it leaves: only the process name may change.
MutexInv ==
    /\ \A p \in Proc : proc[p].pc \in Holding <=> metadataSaveMu = p
    /\ \A p \in Proc : proc[p].pc \in Holding \ {"apply"} =>
           /\ metadata.status = after.status
           /\ metadata.attention = after.attention

\* Unread attention is shown, also by the metadata a rollback would restore.
AttentionInv ==
    /\ unread => metadata.attention
    /\ \A p \in Proc :
           proc[p].pc \in {"completing", "rollback"} /\ unread => before.attention

\* What a poller of this kind can find.
Findings(kind) ==
    IF kind = "blocked" THEN {"blocked"}
    ELSE IF kind = "activity" THEN {"running", "waiting"} ELSE {"waiting"}

\* A goroutine is where its code can be.  While a poller publishes what it
\* found, its kind is not installed, and the status is not one under which
\* another watch of that kind would be installed; a timer that publishes has
\* the newest hook.
WatchInv(w) ==
    /\ w > used.watches => proc[w] = Idle
    /\ proc[w].pc \notin {"arrived", "write"}
    /\ proc[w].pc \in {"watching", "complete", "done"} => proc[w].kind \in Kind
    /\ proc[w].pc = "complete" => proc[w].status \in Findings(proc[w].kind)
    /\ proc[w].pc \in {"completing", "rollback"} =>
           /\ proc[w].kind \in {"activity", "interrupt"}
           /\ installed[proc[w].kind] = 0
           /\ after.status # Expected(proc[w].kind)
    /\ proc[w].pc = "apply" => proc[w].hook = hooks

ProcInv ==
    /\ \A w \in Watch : WatchInv(w)
    /\ proc[Hook].pc \in {"idle", "arrived", "saving", "install"}
    /\ proc[Hook].pc = "arrived" => proc[Hook].status \in Status
    /\ proc[Viewer].pc \in {"idle", "saving"}
    /\ proc[Writer].pc \in {"idle", "write", "install"}

\* The entry refers to watches of the right kind that do not publish, and its
\* timer was started by the newest hook.
InstalledInv ==
    \A k \in Kind : installed[k] # 0 =>
        /\ proc[installed[k]].kind = k
        /\ proc[installed[k]].pc \in {"watching", "complete", "done"}
        /\ k = "blocked" => proc[installed[k]].hook = hooks

\* There is a turn while Codex works, and no record of a later one.
CodexInv ==
    /\ codex # "idle" => turn > 0
    /\ \A i \in 1..Len(transcript) : transcript[i].turn <= turn

Arrived == IF proc[Hook].pc = "arrived" THEN 1 ELSE 0
Working == IF codex # "idle" THEN 1 ELSE 0

\* Each prompt, tool, request and end of a turn fires one hook.
HooksInv ==
    /\ used.tools <= MaxTools /\ used.asks <= MaxAsks
    /\ hooks + Arrived + Working <= 2 * turn + used.tools + used.asks

\* The inductive invariant.
IInv ==
    /\ TypeOK /\ MutexInv /\ AttentionInv /\ ProcInv /\ InstalledInv /\ CodexInv
    /\ HooksInv /\ NoOrphanWatch

-----------------------------------------------------------------------------
(* Lemmas *)

\* Goroutines are told apart, and no owner of the mutex is mistaken for 0.
LEMMA Goroutines ==
    /\ Watch \subseteq Nat \ {0} /\ Watch \subseteq Proc
    /\ Hook \in Proc /\ Viewer \in Proc /\ Writer \in Proc /\ 0 \notin Proc
    /\ Hook \notin Watch /\ Viewer \notin Watch /\ Writer \notin Watch
    /\ Hook # Viewer /\ Hook # Writer /\ Viewer # Writer
<1>1. MaxWatches \in Nat
  BY StatusAssumption DEF StatusAssumption, MaxWatches
<1>2. Watch \subseteq Nat \ {0}
  BY <1>1 DEF Watch
<1> QED
  BY <1>1, <1>2, StatusAssumption DEF StatusAssumption, Proc

\* Bounds are natural numbers.
LEMMA Bounds == MaxTurns \in Nat /\ MaxTools \in Nat /\ MaxAsks \in Nat
BY StatusAssumption DEF StatusAssumption

\* What the types say of the state, in the form the steps use.
LEMMA Types ==
    ASSUME TypeOK
    PROVE  /\ proc \in [Proc -> LocalState(hooks, Len(transcript), turn)]
           /\ \A q \in Proc : proc[q] \in LocalState(hooks, Len(transcript), turn)
           /\ \A k \in Kind : installed[k] \in Watch \cup {0}
           /\ hooks \in Nat /\ turn \in Nat /\ Len(transcript) \in Nat
           /\ used.watches \in Nat /\ used.tools \in Nat /\ used.asks \in Nat
           /\ metadata \in Metadata /\ before \in Metadata /\ after \in Metadata
<1>1. Len(transcript) \in Nat
  BY DEF TypeOK
<1>2. hooks \in Nat /\ turn \in Nat
  BY StatusAssumption DEF TypeOK, StatusAssumption
<1>3. used.watches \in Nat /\ used.tools \in Nat /\ used.asks \in Nat
  BY DEF TypeOK
<1> QED
  BY <1>1, <1>2, <1>3 DEF TypeOK

\* One goroutine takes a step.
LEMMA Moves ==
    ASSUME NEW S, NEW T, S \subseteq T, NEW f \in [Proc -> S],
           NEW p \in Proc, NEW r \in T
    PROVE  LET g == [f EXCEPT ![p] = r]
           IN g \in [Proc -> T] /\ g[p] = r /\ \A q \in Proc \ {p} : g[q] = f[q]
OBVIOUS

\* A goroutine goes somewhere else and keeps what it knows.
LEMMA KeepsRest ==
    ASSUME TypeOK, NEW p \in Proc, NEW to \in Locations
    PROVE  LET r == [proc[p] EXCEPT !.pc = to]
           IN /\ r \in LocalState(hooks, Len(transcript), turn)
              /\ r.pc = to /\ r.kind = proc[p].kind /\ r.status = proc[p].status
              /\ r.hook = proc[p].hook /\ r.offset = proc[p].offset
              /\ r.turn = proc[p].turn
<1>1. proc[p] \in LocalState(hooks, Len(transcript), turn)
  BY DEF TypeOK
<1> QED
  BY <1>1 DEF LocalState

\* Codex runs a hook command.
LEMMA HookArrives ==
    ASSUME TypeOK, NEW s \in Status
    PROVE  LET r == [Idle EXCEPT !.pc = "arrived", !.status = s]
           IN /\ r \in LocalState(hooks, Len(transcript), turn)
              /\ r.pc = "arrived" /\ r.status = s /\ r.kind = "none"
<1>1. hooks \in Nat /\ Len(transcript) \in Nat /\ turn \in Nat
  BY Types
<1>2. Idle \in LocalState(hooks, Len(transcript), turn)
  BY <1>1 DEF LocalState, Idle, Locations
<1> QED
  BY <1>2 DEF LocalState, Idle, Locations

\* A goroutine that does nothing has a local state.
LEMMA IdleTyped ==
    ASSUME NEW h \in Nat, NEW n \in Nat, NEW t \in Nat
    PROVE  Idle \in LocalState(h, n, t)
BY DEF LocalState, Idle, Locations

\* A record is appended.
LEMMA Appended ==
    ASSUME TypeOK, NEW r \in Record
    PROVE  LET s == Append(transcript, r)
           IN /\ s \in Seq(Record) /\ Len(s) = Len(transcript) + 1
              /\ \A i \in 1..Len(s) :
                     s[i] = IF i <= Len(transcript) THEN transcript[i] ELSE r
BY DEF TypeOK

\* Codex appends a record.
LEMMA Recorded ==
    ASSUME TypeOK, NEW t \in 1..MaxTurns,
           NEW k \in {"task_started", "tool_output", "task_complete", "turn_aborted"},
           Records(k, t)
    PROVE  /\ transcript' \in Seq(Record) /\ Len(transcript') = Len(transcript) + 1
           /\ \A i \in 1..Len(transcript') : transcript'[i].turn =
                  IF i <= Len(transcript) THEN transcript[i].turn ELSE t
<1>1. [kind |-> k, turn |-> t] \in Record
  BY DEF Record
<1> QED
  BY <1>1, Appended DEF Records

\* One goroutine moves, maybe while Codex appends a record or a turn starts.
LEMMA OneMoves ==
    ASSUME TypeOK, NEW p \in Proc, NEW r \in LocalState(hooks, Len(transcript), turn),
           proc' = [proc EXCEPT ![p] = r],
           hooks' \in {hooks, hooks + 1}, turn' \in {turn, turn + 1},
           Len(transcript') \in {Len(transcript), Len(transcript) + 1}
    PROVE  /\ proc' \in [Proc -> LocalState(hooks', Len(transcript'), turn')]
           /\ proc'[p] = r /\ \A q \in Proc \ {p} : proc'[q] = proc[q]
<1>1. hooks \in Nat /\ Len(transcript) \in Nat /\ turn \in Nat
  BY Types
<1>2. /\ hooks' \in Nat /\ Len(transcript') \in Nat /\ turn' \in Nat
      /\ hooks <= hooks' /\ Len(transcript) <= Len(transcript') /\ turn <= turn'
  BY <1>1
<1>3. LocalState(hooks, Len(transcript), turn)
          \subseteq LocalState(hooks', Len(transcript'), turn')
  BY <1>1, <1>2 DEF LocalState
<1>4. proc \in [Proc -> LocalState(hooks, Len(transcript), turn)]
  BY Types
<1> QED
  BY <1>3, <1>4, Moves

\* Codex does not move and no hook arrives or is accepted.
LEMMA CodexRests ==
    ASSUME CodexInv, HooksInv, UNCHANGED <<codex, turn, transcript, hooks>>,
           used'.tools = used.tools, used'.asks = used.asks,
           proc'[Hook].pc = "arrived" <=> proc[Hook].pc = "arrived"
    PROVE  CodexInv' /\ HooksInv'
<1>1. Arrived' = Arrived /\ Working' = Working
  BY DEF Arrived, Working
<1>2. HooksInv'
  BY <1>1 DEF HooksInv
<1> QED
  BY <1>2 DEF CodexInv

\* Codex moves and fires as many hooks as it may.
LEMMA CodexMoves ==
    ASSUME TypeOK, HooksInv, hooks' = hooks, turn' \in {turn, turn + 1},
           used'.tools \in {used.tools, used.tools + 1},
           used'.asks \in {used.asks, used.asks + 1},
           used'.tools <= MaxTools, used'.asks <= MaxAsks,
           Arrived' + Working' + 2 * turn + used.tools + used.asks
               <= Arrived + Working + 2 * turn' + used'.tools + used'.asks
    PROVE  HooksInv'
<1>1. /\ Arrived \in Nat /\ Working \in Nat /\ Arrived' \in Nat /\ Working' \in Nat
      /\ hooks \in Nat /\ turn \in Nat /\ used.tools \in Nat /\ used.asks \in Nat
  BY Types DEF Arrived, Working
<1>2. turn' \in Nat /\ used'.tools \in Nat /\ used'.asks \in Nat
  BY <1>1
<1>3. hooks + Arrived + Working <= 2 * turn + used.tools + used.asks
  BY DEF HooksInv
<1>4. hooks + Arrived' + Working' <= 2 * turn' + used'.tools + used'.asks
  BY <1>1, <1>2, <1>3
<1> QED
  BY <1>4 DEF HooksInv

\* An update cancels every watch that still runs.
LEMMA CancelsAll ==
    ASSUME NoOrphanWatch, ProcInv, NEW w \in Watch, proc[w].pc = "watching"
    PROVE  w \in cancelled \cup ({installed[k] : k \in Kind} \ {0})
<1>1. proc[w].kind \in Kind /\ w # 0
  BY Goroutines DEF ProcInv, WatchInv
<1> QED
  BY <1>1 DEF NoOrphanWatch

\* While nobody installs a watch, the entry keeps to its promise if the
\* goroutine that moves is not installed, or still can be.
LEMMA InstalledKeep ==
    ASSUME TypeOK, InstalledInv, NEW p \in Proc,
           \A q \in Proc \ {p} : proc'[q] = proc[q],
           \A k \in Kind : installed'[k] \in {0, installed[k]},
           hooks' = hooks,
           \/ \A k \in Kind : installed'[k] # p
           \/ /\ proc'[p].kind = proc[p].kind /\ proc'[p].hook = proc[p].hook
              /\ proc'[p].pc \in {"watching", "complete", "done"}
    PROVE  InstalledInv'
<1> SUFFICES ASSUME NEW k \in Kind, installed'[k] # 0
             PROVE  /\ proc'[installed'[k]].kind = k
                    /\ proc'[installed'[k]].pc \in {"watching", "complete", "done"}
                    /\ k = "blocked" => proc'[installed'[k]].hook = hooks'
  BY DEF InstalledInv
<1>1. /\ installed'[k] = installed[k] /\ installed[k] \in Proc
      /\ proc[installed[k]].kind = k
      /\ proc[installed[k]].pc \in {"watching", "complete", "done"}
      /\ k = "blocked" => proc[installed[k]].hook = hooks
  BY Types, Goroutines DEF InstalledInv
<1>2. CASE installed[k] = p
  BY <1>1, <1>2
<1>3. CASE installed[k] # p
  BY <1>1, <1>3
<1> QED
  BY <1>2, <1>3

\* A poller that found something found what its kind looks for.
LEMMA FoundFits ==
    ASSUME NEW w, proc[w].kind \in Kind, Found(w) # "none"
    PROVE  Found(w) \in Findings(proc[w].kind) /\ Found(w) \in Status
BY DEF Found, Findings, ActivitySince, Activity, Kind, Status

\* Something is used up.
LEMMA Used ==
    ASSUME TypeOK, NEW x \in {"tools", "asks", "interrupts", "acks", "samples", "failures"},
           used' = [used EXCEPT ![x] = @ + 1]
    PROVE  /\ used' \in [{"tools", "asks", "interrupts", "acks", "samples", "failures",
                           "watches"} -> Nat]
           /\ used'.watches = used.watches
           /\ used'.tools = used.tools + (IF x = "tools" THEN 1 ELSE 0)
           /\ used'.asks = used.asks + (IF x = "asks" THEN 1 ELSE 0)
BY DEF TypeOK

\* The watches whose goroutine does not move keep their promise when the
\* entry is only changed by the owner of the mutex.
LEMMA OthersKeep ==
    ASSUME MutexInv, ProcInv, NEW p \in Proc,
           \A q \in Proc \ {p} : proc'[q] = proc[q],
           used'.watches = used.watches,
           \/ metadataSaveMu \in {0, p}
           \/ UNCHANGED <<installed, after, hooks>>
    PROVE  \A w \in Watch \ {p} : WatchInv(w)'
<1> SUFFICES ASSUME NEW w \in Watch \ {p}
             PROVE  WatchInv(w)'
  OBVIOUS
<1>1. proc'[w] = proc[w] /\ WatchInv(w)
  BY Goroutines DEF ProcInv
<1>2. CASE metadataSaveMu \in {0, p}
  <2>1. proc[w].pc \notin Holding
    BY <1>2, Goroutines DEF MutexInv
  <2> QED
    BY <1>1, <2>1 DEF WatchInv, Holding
<1>3. CASE UNCHANGED <<installed, after, hooks>>
  BY <1>1, <1>3 DEF WatchInv
<1> QED
  BY <1>2, <1>3

\* A prompt starts a turn, which no record names yet, and fires a hook.
LEMMA UserPromptSubmitStep ==
    ASSUME IInv, UserPromptSubmit
    PROVE  IInv'
<1> DEFINE r == [Idle EXCEPT !.pc = "arrived", !.status = "running"]
<1>1. /\ TypeOK /\ MutexInv /\ AttentionInv /\ ProcInv /\ InstalledInv
      /\ CodexInv /\ HooksInv /\ NoOrphanWatch
  BY DEF IInv
<1>2. /\ codex = "idle" /\ turn < MaxTurns
      /\ proc[Hook].pc = "idle"
  BY <1>1, Goroutines DEF UserPromptSubmit, HookIdle, Idle
<1>3. /\ codex' = "working"
      /\ turn' = turn + 1
      /\ interrupted' = FALSE
      /\ transcript' \in Seq(Record) /\ Len(transcript') = Len(transcript) + 1
      /\ \A i \in 1..Len(transcript') : transcript'[i].turn =
             IF i <= Len(transcript) THEN transcript[i].turn ELSE turn + 1
  <2>1. turn + 1 \in 1..MaxTurns
    BY <1>1, <1>2, Types, Bounds DEF UserPromptSubmit, CodexInv, TypeOK
  <2>2. Records("task_started", turn + 1)
    BY DEF UserPromptSubmit
  <2> QED
    BY <1>1, <2>1, <2>2, Recorded, Bounds DEF UserPromptSubmit
<1>4. UNCHANGED <<metadata, metadataSaveMu, installed, cancelled, before,
                after, hooks, stored, publishedHook, unread, used>>
  BY DEF UserPromptSubmit, Fires, codexVars, entryVars, history
<1>5. /\ r \in LocalState(hooks, Len(transcript), turn)
      /\ r.pc = "arrived" /\ r.status = "running" /\ r.kind = "none"
  BY <1>1, <1>2, Goroutines, HookArrives DEF Status
<1>6. /\ proc' \in [Proc -> LocalState(hooks', Len(transcript'), turn')]
      /\ proc'[Hook] = r /\ \A q \in Proc \ {Hook} : proc'[q] = proc[q]
  <2>1. proc' = [proc EXCEPT ![Hook] = r]
    BY <1>2 DEF UserPromptSubmit, Fires
  <2> QED
    BY <1>1, <1>3, <1>4, <1>5, <2>1, OneMoves, Goroutines
<1> HIDE DEF r
<1>7. MutexInv'
  BY <1>1, <1>2, <1>3, <1>4, <1>5, <1>6, Types, Goroutines DEF MutexInv, Holding
<1>8. AttentionInv'
  BY <1>1, <1>2, <1>3, <1>4, <1>5, <1>6, Types, Goroutines DEF AttentionInv
<1>9. ProcInv'
  <2>1. /\ used'.watches = used.watches /\ Hook \in Proc
        /\ UNCHANGED <<installed, after, hooks>>
    BY <1>2, <1>3, <1>4, Goroutines
  <2>2. \A v \in Watch \ {Hook} : WatchInv(v)'
    BY <1>1, <1>6, <2>1, OthersKeep
  <2> QED
    BY <1>1, <1>2, <1>3, <1>4, <1>5, <1>6, <2>2, Goroutines DEF ProcInv, Status
<1>10. InstalledInv'
  <2>1. \A k \in Kind : installed'[k] \in {0, installed[k]} /\ installed'[k] # Hook
    BY <1>1, <1>2, <1>3, <1>4, Types, Goroutines DEF InstalledInv
  <2> QED
    BY <1>1, <1>2, <1>3, <1>4, <1>5, <1>6, <2>1, InstalledKeep, Goroutines
<1>11. CodexInv'
  <2>1. turn \in Nat /\ \A i \in 1..Len(transcript) : transcript[i].turn \in Nat
    <3>1. transcript \in Seq(Record) /\ turn \in Nat
      BY <1>1, Types DEF TypeOK
    <3>2. \A i \in 1..Len(transcript) : transcript[i] \in Record
      BY <3>1
    <3> QED
      BY <3>1, <3>2, Bounds DEF Record
  <2>2. Len(transcript) \in Nat
    BY <1>1, Types
  <2> QED
    BY <1>1, <1>2, <1>3, <1>4, <2>1, <2>2 DEF CodexInv
<1>12. HooksInv'
  <2>1. /\ Arrived = 0 /\ Arrived' = 1
        /\ Working = 0 /\ Working' = 1
    BY <1>1, <1>2, <1>3, <1>4, <1>5, <1>6, Goroutines DEF Arrived, Working
  <2>2. used.tools <= MaxTools /\ used.asks <= MaxAsks
    BY <1>1 DEF HooksInv
  <2> QED
    BY <1>1, <1>2, <1>3, <1>4, <2>1, <2>2, Types, Bounds, CodexMoves
<1>13. NoOrphanWatch'
  BY <1>1, <1>2, <1>3, <1>4, <1>5, <1>6, Types, Goroutines DEF NoOrphanWatch
<1>14. TypeOK'
  <2>1. turn' \in 0..MaxTurns
    BY <1>1, <1>2, <1>3, Types, Bounds
  <2> QED
    BY <1>1, <1>2, <1>3, <1>4, <1>6, <2>1 DEF TypeOK
<1> QED
  BY <1>7, <1>8, <1>9, <1>10, <1>11, <1>12, <1>13, <1>14 DEF IInv

\* Codex starts a tool and fires a hook.
LEMMA PreToolUseStep ==
    ASSUME IInv, PreToolUse
    PROVE  IInv'
<1> DEFINE r == [Idle EXCEPT !.pc = "arrived", !.status = "running"]
<1>1. /\ TypeOK /\ MutexInv /\ AttentionInv /\ ProcInv /\ InstalledInv
      /\ CodexInv /\ HooksInv /\ NoOrphanWatch
  BY DEF IInv
<1>2. /\ codex = "working"
      /\ proc[Hook].pc = "idle"
  BY <1>1, Goroutines DEF PreToolUse, HookIdle, Idle
<1>3. /\ codex' = "tool"
      /\ used'.tools = used.tools + 1 /\ used.tools < MaxTools
      /\ used'.asks = used.asks
      /\ used'.watches = used.watches
  BY <1>1, <1>2, Types, Used DEF PreToolUse, Fires, Use
<1>4. UNCHANGED <<turn, interrupted, transcript, metadata, metadataSaveMu,
                installed, cancelled, before, after, hooks, stored,
                publishedHook, unread>>
  BY DEF PreToolUse, Fires, codexVars, entryVars, history
<1>5. /\ r \in LocalState(hooks, Len(transcript), turn)
      /\ r.pc = "arrived" /\ r.status = "running" /\ r.kind = "none"
  BY <1>1, <1>2, Goroutines, HookArrives DEF Status
<1>6. /\ proc' \in [Proc -> LocalState(hooks', Len(transcript'), turn')]
      /\ proc'[Hook] = r /\ \A q \in Proc \ {Hook} : proc'[q] = proc[q]
  <2>1. proc' = [proc EXCEPT ![Hook] = r]
    BY <1>2 DEF PreToolUse, Fires
  <2> QED
    BY <1>1, <1>3, <1>4, <1>5, <2>1, OneMoves, Goroutines
<1> HIDE DEF r
<1>7. MutexInv'
  BY <1>1, <1>2, <1>3, <1>4, <1>5, <1>6, Types, Goroutines DEF MutexInv, Holding
<1>8. AttentionInv'
  BY <1>1, <1>2, <1>3, <1>4, <1>5, <1>6, Types, Goroutines DEF AttentionInv
<1>9. ProcInv'
  <2>1. /\ used'.watches = used.watches /\ Hook \in Proc
        /\ UNCHANGED <<installed, after, hooks>>
    BY <1>2, <1>3, <1>4, Goroutines
  <2>2. \A v \in Watch \ {Hook} : WatchInv(v)'
    BY <1>1, <1>6, <2>1, OthersKeep
  <2> QED
    BY <1>1, <1>2, <1>3, <1>4, <1>5, <1>6, <2>2, Goroutines DEF ProcInv, Status
<1>10. InstalledInv'
  <2>1. \A k \in Kind : installed'[k] \in {0, installed[k]} /\ installed'[k] # Hook
    BY <1>1, <1>2, <1>3, <1>4, Types, Goroutines DEF InstalledInv
  <2> QED
    BY <1>1, <1>2, <1>3, <1>4, <1>5, <1>6, <2>1, InstalledKeep, Goroutines
<1>11. CodexInv'
  BY <1>1, <1>2, <1>3, <1>4, <1>5, <1>6, Types, Goroutines DEF CodexInv
<1>12. HooksInv'
  <2>1. /\ Arrived = 0 /\ Arrived' = 1
        /\ Working = 1 /\ Working' = 1
    BY <1>1, <1>2, <1>3, <1>4, <1>5, <1>6, Goroutines DEF Arrived, Working
  <2>2. used.tools <= MaxTools /\ used.asks <= MaxAsks
    BY <1>1 DEF HooksInv
  <2> QED
    BY <1>1, <1>2, <1>3, <1>4, <2>1, <2>2, Types, Bounds, CodexMoves
<1>13. NoOrphanWatch'
  BY <1>1, <1>2, <1>3, <1>4, <1>5, <1>6, Types, Goroutines DEF NoOrphanWatch
<1>14. TypeOK'
  <2>1. used' \in [{"tools", "asks", "interrupts", "acks", "samples",
                   "failures", "watches"} -> Nat]
    BY <1>1, Used DEF PreToolUse, Use
  <2> QED
    BY <1>1, <1>2, <1>3, <1>4, <1>6, <2>1 DEF TypeOK
<1> QED
  BY <1>7, <1>8, <1>9, <1>10, <1>11, <1>12, <1>13, <1>14 DEF IInv

\* Codex asks for an approval and fires a hook.
LEMMA PermissionRequestStep ==
    ASSUME IInv, PermissionRequest
    PROVE  IInv'
<1> DEFINE r == [Idle EXCEPT !.pc = "arrived", !.status = "blocked"]
<1>1. /\ TypeOK /\ MutexInv /\ AttentionInv /\ ProcInv /\ InstalledInv
      /\ CodexInv /\ HooksInv /\ NoOrphanWatch
  BY DEF IInv
<1>2. /\ codex = "tool"
      /\ proc[Hook].pc = "idle"
  BY <1>1, Goroutines DEF PermissionRequest, HookIdle, Idle
<1>3. /\ codex' = "asking"
      /\ used'.tools = used.tools
      /\ used'.asks = used.asks + 1 /\ used.asks < MaxAsks
      /\ used'.watches = used.watches
  BY <1>1, <1>2, Types, Used DEF PermissionRequest, Fires, Use
<1>4. UNCHANGED <<turn, interrupted, transcript, metadata, metadataSaveMu,
                installed, cancelled, before, after, hooks, stored,
                publishedHook, unread>>
  BY DEF PermissionRequest, Fires, codexVars, entryVars, history
<1>5. /\ r \in LocalState(hooks, Len(transcript), turn)
      /\ r.pc = "arrived" /\ r.status = "blocked" /\ r.kind = "none"
  BY <1>1, <1>2, Goroutines, HookArrives DEF Status
<1>6. /\ proc' \in [Proc -> LocalState(hooks', Len(transcript'), turn')]
      /\ proc'[Hook] = r /\ \A q \in Proc \ {Hook} : proc'[q] = proc[q]
  <2>1. proc' = [proc EXCEPT ![Hook] = r]
    BY <1>2 DEF PermissionRequest, Fires
  <2> QED
    BY <1>1, <1>3, <1>4, <1>5, <2>1, OneMoves, Goroutines
<1> HIDE DEF r
<1>7. MutexInv'
  BY <1>1, <1>2, <1>3, <1>4, <1>5, <1>6, Types, Goroutines DEF MutexInv, Holding
<1>8. AttentionInv'
  BY <1>1, <1>2, <1>3, <1>4, <1>5, <1>6, Types, Goroutines DEF AttentionInv
<1>9. ProcInv'
  <2>1. /\ used'.watches = used.watches /\ Hook \in Proc
        /\ UNCHANGED <<installed, after, hooks>>
    BY <1>2, <1>3, <1>4, Goroutines
  <2>2. \A v \in Watch \ {Hook} : WatchInv(v)'
    BY <1>1, <1>6, <2>1, OthersKeep
  <2> QED
    BY <1>1, <1>2, <1>3, <1>4, <1>5, <1>6, <2>2, Goroutines DEF ProcInv, Status
<1>10. InstalledInv'
  <2>1. \A k \in Kind : installed'[k] \in {0, installed[k]} /\ installed'[k] # Hook
    BY <1>1, <1>2, <1>3, <1>4, Types, Goroutines DEF InstalledInv
  <2> QED
    BY <1>1, <1>2, <1>3, <1>4, <1>5, <1>6, <2>1, InstalledKeep, Goroutines
<1>11. CodexInv'
  BY <1>1, <1>2, <1>3, <1>4, <1>5, <1>6, Types, Goroutines DEF CodexInv
<1>12. HooksInv'
  <2>1. /\ Arrived = 0 /\ Arrived' = 1
        /\ Working = 1 /\ Working' = 1
    BY <1>1, <1>2, <1>3, <1>4, <1>5, <1>6, Goroutines DEF Arrived, Working
  <2>2. used.tools <= MaxTools /\ used.asks <= MaxAsks
    BY <1>1 DEF HooksInv
  <2> QED
    BY <1>1, <1>2, <1>3, <1>4, <2>1, <2>2, Types, Bounds, CodexMoves
<1>13. NoOrphanWatch'
  BY <1>1, <1>2, <1>3, <1>4, <1>5, <1>6, Types, Goroutines DEF NoOrphanWatch
<1>14. TypeOK'
  <2>1. used' \in [{"tools", "asks", "interrupts", "acks", "samples",
                   "failures", "watches"} -> Nat]
    BY <1>1, Used DEF PermissionRequest, Use
  <2> QED
    BY <1>1, <1>2, <1>3, <1>4, <1>6, <2>1 DEF TypeOK
<1> QED
  BY <1>7, <1>8, <1>9, <1>10, <1>11, <1>12, <1>13, <1>14 DEF IInv

\* A turn ends with a record and a hook.
LEMMA StopStep ==
    ASSUME IInv, Stop
    PROVE  IInv'
<1> DEFINE r == [Idle EXCEPT !.pc = "arrived", !.status = "waiting"]
<1>1. /\ TypeOK /\ MutexInv /\ AttentionInv /\ ProcInv /\ InstalledInv
      /\ CodexInv /\ HooksInv /\ NoOrphanWatch
  BY DEF IInv
<1>2. /\ codex = "working"
      /\ proc[Hook].pc = "idle"
  BY <1>1, Goroutines DEF Stop, HookIdle, Idle
<1>3. /\ codex' = "idle"
      /\ interrupted' = FALSE
      /\ transcript' \in Seq(Record) /\ Len(transcript') = Len(transcript) + 1
      /\ \A i \in 1..Len(transcript') : transcript'[i].turn =
             IF i <= Len(transcript) THEN transcript[i].turn ELSE turn
  <2>1. turn \in 1..MaxTurns
    BY <1>1, <1>2, Types, Bounds DEF Stop, CodexInv, TypeOK
  <2>2. Records("task_complete", turn)
    BY DEF Stop
  <2> QED
    BY <1>1, <2>1, <2>2, Recorded, Bounds DEF Stop
<1>4. UNCHANGED <<turn, metadata, metadataSaveMu, installed, cancelled,
                before, after, hooks, stored, publishedHook, unread,
                used>>
  BY DEF Stop, Fires, codexVars, entryVars, history
<1>5. /\ r \in LocalState(hooks, Len(transcript), turn)
      /\ r.pc = "arrived" /\ r.status = "waiting" /\ r.kind = "none"
  BY <1>1, <1>2, Goroutines, HookArrives DEF Status
<1>6. /\ proc' \in [Proc -> LocalState(hooks', Len(transcript'), turn')]
      /\ proc'[Hook] = r /\ \A q \in Proc \ {Hook} : proc'[q] = proc[q]
  <2>1. proc' = [proc EXCEPT ![Hook] = r]
    BY <1>2 DEF Stop, Fires
  <2> QED
    BY <1>1, <1>3, <1>4, <1>5, <2>1, OneMoves, Goroutines
<1> HIDE DEF r
<1>7. MutexInv'
  BY <1>1, <1>2, <1>3, <1>4, <1>5, <1>6, Types, Goroutines DEF MutexInv, Holding
<1>8. AttentionInv'
  BY <1>1, <1>2, <1>3, <1>4, <1>5, <1>6, Types, Goroutines DEF AttentionInv
<1>9. ProcInv'
  <2>1. /\ used'.watches = used.watches /\ Hook \in Proc
        /\ UNCHANGED <<installed, after, hooks>>
    BY <1>2, <1>3, <1>4, Goroutines
  <2>2. \A v \in Watch \ {Hook} : WatchInv(v)'
    BY <1>1, <1>6, <2>1, OthersKeep
  <2> QED
    BY <1>1, <1>2, <1>3, <1>4, <1>5, <1>6, <2>2, Goroutines DEF ProcInv, Status
<1>10. InstalledInv'
  <2>1. \A k \in Kind : installed'[k] \in {0, installed[k]} /\ installed'[k] # Hook
    BY <1>1, <1>2, <1>3, <1>4, Types, Goroutines DEF InstalledInv
  <2> QED
    BY <1>1, <1>2, <1>3, <1>4, <1>5, <1>6, <2>1, InstalledKeep, Goroutines
<1>11. CodexInv'
  BY <1>1, <1>2, <1>3, <1>4, <1>5, <1>6, Types, Goroutines DEF CodexInv
<1>12. HooksInv'
  <2>1. /\ Arrived = 0 /\ Arrived' = 1
        /\ Working = 1 /\ Working' = 0
    BY <1>1, <1>2, <1>3, <1>4, <1>5, <1>6, Goroutines DEF Arrived, Working
  <2>2. used.tools <= MaxTools /\ used.asks <= MaxAsks
    BY <1>1 DEF HooksInv
  <2> QED
    BY <1>1, <1>2, <1>3, <1>4, <2>1, <2>2, Types, Bounds, CodexMoves
<1>13. NoOrphanWatch'
  BY <1>1, <1>2, <1>3, <1>4, <1>5, <1>6, Types, Goroutines DEF NoOrphanWatch
<1>14. TypeOK'
  BY <1>1, <1>2, <1>3, <1>4, <1>6 DEF TypeOK
<1> QED
  BY <1>7, <1>8, <1>9, <1>10, <1>11, <1>12, <1>13, <1>14 DEF IInv

\* A cancelled goroutine returns.
LEMMA SeesCancelStep ==
    ASSUME IInv, NEW w \in Watch, SeesCancel(w)
    PROVE  IInv'
<1> DEFINE r == [proc[w] EXCEPT !.pc = "done"]
<1>1. /\ TypeOK /\ MutexInv /\ AttentionInv /\ ProcInv /\ InstalledInv
      /\ CodexInv /\ HooksInv /\ NoOrphanWatch
  BY DEF IInv
<1>2. proc[w].pc = "watching" /\ w \in cancelled
  BY <1>1, Goroutines DEF SeesCancel
<1>3. UNCHANGED <<codex, turn, interrupted, transcript, metadata,
                metadataSaveMu, installed, cancelled, before, after,
                hooks, stored, publishedHook, unread, used>>
  BY DEF SeesCancel, Goes, codexVars, entryVars, history
<1>4. /\ r \in LocalState(hooks, Len(transcript), turn)
      /\ r.pc = "done" /\ r.kind = proc[w].kind /\ r.hook = proc[w].hook
  <2>1. w \in Proc /\ "done" \in Locations
    BY Goroutines DEF Locations
  <2> QED
    BY <1>1, <2>1, KeepsRest
<1>5. /\ proc' \in [Proc -> LocalState(hooks', Len(transcript'), turn')]
      /\ proc'[w] = r /\ \A q \in Proc \ {w} : proc'[q] = proc[q]
  <2>1. proc' = [proc EXCEPT ![w] = r]
    BY <1>2 DEF SeesCancel, Goes
  <2> QED
    BY <1>1, <1>3, <1>4, <2>1, OneMoves, Goroutines
<1> HIDE DEF r
<1>6. MutexInv'
  BY <1>1, <1>2, <1>3, <1>4, <1>5, Types, Goroutines DEF MutexInv, Holding
<1>7. AttentionInv'
  BY <1>1, <1>2, <1>3, <1>4, <1>5, Types, Goroutines DEF AttentionInv
<1>8. ProcInv'
  <2>1. /\ used'.watches = used.watches /\ w \in Proc
        /\ UNCHANGED <<installed, after, hooks>>
    BY <1>2, <1>3, Goroutines
  <2>2. \A v \in Watch \ {w} : WatchInv(v)'
    BY <1>1, <1>5, <2>1, OthersKeep
  <2>3. WatchInv(w)'
    BY <1>1, <1>2, <1>3, <1>4, <1>5, Types, Goroutines DEF ProcInv, WatchInv,
       Idle
  <2> QED
    BY <1>1, <1>2, <1>3, <1>4, <1>5, <2>2, <2>3, Goroutines DEF ProcInv
<1>9. InstalledInv'
  <2>1. \A k \in Kind : installed'[k] \in {0, installed[k]}
    BY <1>1, <1>2, <1>3, Types, Goroutines DEF InstalledInv
  <2> QED
    BY <1>1, <1>2, <1>3, <1>4, <1>5, <2>1, InstalledKeep, Goroutines
<1>10. CodexInv' /\ HooksInv'
  <2>1. proc'[Hook].pc = "arrived" <=> proc[Hook].pc = "arrived"
    BY <1>1, <1>2, <1>4, <1>5, Goroutines DEF ProcInv
  <2> QED
    BY <1>1, <1>3, <2>1, CodexRests
<1>11. NoOrphanWatch'
  BY <1>1, <1>2, <1>3, <1>4, <1>5, Types, Goroutines DEF NoOrphanWatch
<1>12. TypeOK'
  BY <1>1, <1>2, <1>3, <1>5 DEF TypeOK
<1> QED
  BY <1>6, <1>7, <1>8, <1>9, <1>10, <1>11, <1>12 DEF IInv

\* A watch that was replaced gives up.
LEMMA StandDownStep ==
    ASSUME IInv, NEW w \in Watch, StandDown(w)
    PROVE  IInv'
<1> DEFINE r == [proc[w] EXCEPT !.pc = "done"]
<1>1. /\ TypeOK /\ MutexInv /\ AttentionInv /\ ProcInv /\ InstalledInv
      /\ CodexInv /\ HooksInv /\ NoOrphanWatch
  BY DEF IInv
<1>2. proc[w].pc = "complete"
  BY <1>1, Goroutines DEF StandDown
<1>3. UNCHANGED <<codex, turn, interrupted, transcript, metadata,
                metadataSaveMu, installed, cancelled, before, after,
                hooks, stored, publishedHook, unread, used>>
  BY DEF StandDown, Goes, codexVars, entryVars, history
<1>4. /\ r \in LocalState(hooks, Len(transcript), turn)
      /\ r.pc = "done" /\ r.kind = proc[w].kind /\ r.hook = proc[w].hook
  <2>1. w \in Proc /\ "done" \in Locations
    BY Goroutines DEF Locations
  <2> QED
    BY <1>1, <2>1, KeepsRest
<1>5. /\ proc' \in [Proc -> LocalState(hooks', Len(transcript'), turn')]
      /\ proc'[w] = r /\ \A q \in Proc \ {w} : proc'[q] = proc[q]
  <2>1. proc' = [proc EXCEPT ![w] = r]
    BY <1>2 DEF StandDown, Goes
  <2> QED
    BY <1>1, <1>3, <1>4, <2>1, OneMoves, Goroutines
<1> HIDE DEF r
<1>6. MutexInv'
  BY <1>1, <1>2, <1>3, <1>4, <1>5, Types, Goroutines DEF MutexInv, Holding
<1>7. AttentionInv'
  BY <1>1, <1>2, <1>3, <1>4, <1>5, Types, Goroutines DEF AttentionInv
<1>8. ProcInv'
  <2>1. /\ used'.watches = used.watches /\ w \in Proc
        /\ UNCHANGED <<installed, after, hooks>>
    BY <1>2, <1>3, Goroutines
  <2>2. \A v \in Watch \ {w} : WatchInv(v)'
    BY <1>1, <1>5, <2>1, OthersKeep
  <2>3. WatchInv(w)'
    BY <1>1, <1>2, <1>3, <1>4, <1>5, Types, Goroutines DEF ProcInv, WatchInv,
       Idle
  <2> QED
    BY <1>1, <1>2, <1>3, <1>4, <1>5, <2>2, <2>3, Goroutines DEF ProcInv
<1>9. InstalledInv'
  <2>1. \A k \in Kind : installed'[k] \in {0, installed[k]}
    BY <1>1, <1>2, <1>3, Types, Goroutines DEF InstalledInv
  <2> QED
    BY <1>1, <1>2, <1>3, <1>4, <1>5, <2>1, InstalledKeep, Goroutines
<1>10. CodexInv' /\ HooksInv'
  <2>1. proc'[Hook].pc = "arrived" <=> proc[Hook].pc = "arrived"
    BY <1>1, <1>2, <1>4, <1>5, Goroutines DEF ProcInv
  <2> QED
    BY <1>1, <1>3, <2>1, CodexRests
<1>11. NoOrphanWatch'
  BY <1>1, <1>2, <1>3, <1>4, <1>5, Types, Goroutines DEF NoOrphanWatch
<1>12. TypeOK'
  BY <1>1, <1>2, <1>3, <1>5 DEF TypeOK
<1> QED
  BY <1>6, <1>7, <1>8, <1>9, <1>10, <1>11, <1>12 DEF IInv

\* A hook is published and forgets no watch without cancelling it.
LEMMA ApplyHookStep ==
    ASSUME IInv, ApplyHook
    PROVE  IInv'
<1> DEFINE r == [proc[Hook] EXCEPT !.pc = "saving"]
<1>1. /\ TypeOK /\ MutexInv /\ AttentionInv /\ ProcInv /\ InstalledInv
      /\ CodexInv /\ HooksInv /\ NoOrphanWatch
  BY DEF IInv
<1>2. /\ proc[Hook].pc = "arrived" /\ proc[Hook].status \in Status \ {"blocked"}
      /\ metadataSaveMu = 0
  BY <1>1, Goroutines DEF ApplyHook, ProcInv
<1>3. /\ metadata.attention => metadata'.attention
      /\ metadata' \in Metadata /\ after' = metadata'
      /\ before' = metadata
      /\ metadataSaveMu' = Hook
      /\ hooks' = hooks + 1
      /\ publishedHook' = hooks'
      /\ installed' = [k \in Kind |-> 0]
      /\ cancelled' = cancelled \cup ({installed[k] : k \in Kind} \ {0})
  BY <1>1, <1>2, Types DEF ApplyHook, ApplyAgentUpdate, CancelInstalled, Goes,
     Mutate, AttentionAfter, Metadata
<1>4. UNCHANGED <<codex, turn, interrupted, transcript, stored, unread,
                used>>
  BY DEF ApplyHook, ApplyAgentUpdate, Goes, Mutate, codexVars, entryVars,
     history
<1>5. /\ r \in LocalState(hooks, Len(transcript), turn)
      /\ r.pc = "saving"
  <2>1. Hook \in Proc /\ "saving" \in Locations
    BY Goroutines DEF Locations
  <2> QED
    BY <1>1, <2>1, KeepsRest
<1>6. /\ proc' \in [Proc -> LocalState(hooks', Len(transcript'), turn')]
      /\ proc'[Hook] = r /\ \A q \in Proc \ {Hook} : proc'[q] = proc[q]
  <2>1. proc' = [proc EXCEPT ![Hook] = r]
    BY <1>2 DEF ApplyHook, ApplyAgentUpdate, Goes, Mutate
  <2> QED
    BY <1>1, <1>3, <1>4, <1>5, <2>1, OneMoves, Goroutines
<1> HIDE DEF r
<1>7. MutexInv'
  BY <1>1, <1>2, <1>3, <1>4, <1>5, <1>6, Types, Goroutines DEF MutexInv, Holding
<1>8. AttentionInv'
  BY <1>1, <1>2, <1>3, <1>4, <1>5, <1>6, Types, Goroutines DEF AttentionInv
<1>9. ProcInv'
  <2>1. /\ used'.watches = used.watches /\ Hook \in Proc
        /\ metadataSaveMu \in {0, Hook}
    BY <1>2, <1>3, <1>4, Goroutines
  <2>2. \A v \in Watch \ {Hook} : WatchInv(v)'
    BY <1>1, <1>6, <2>1, OthersKeep
  <2> QED
    BY <1>1, <1>2, <1>3, <1>4, <1>5, <1>6, <2>2, Goroutines DEF ProcInv
<1>10. InstalledInv'
  BY <1>3 DEF InstalledInv
<1>11. CodexInv'
  BY <1>1, <1>2, <1>3, <1>4, <1>5, <1>6, Types, Goroutines DEF CodexInv
<1>12. HooksInv'
  <2>1. Arrived = 1 /\ Arrived' = 0 /\ Working' = Working
    BY <1>1, <1>2, <1>3, <1>4, <1>5, <1>6, Goroutines DEF Arrived, Working
  <2>2. hooks' = hooks + 1 /\ turn' = turn /\ used' = used
    BY <1>3, <1>4
  <2>3. Working \in Nat
    BY DEF Working
  <2> QED
    BY <1>1, <2>1, <2>2, <2>3, Types, Bounds DEF HooksInv
<1>13. NoOrphanWatch'
  BY <1>1, <1>3, <1>5, <1>6, CancelsAll, Goroutines DEF NoOrphanWatch
<1>14. TypeOK'
  <2>1. Arrived' \in Nat /\ Working' \in Nat
    BY DEF Arrived, Working
  <2>2. hooks' \in 0..(MaxTurns * 2 + MaxTools + MaxAsks)
    <3>1. /\ hooks \in Nat /\ turn \in 0..MaxTurns
          /\ used.tools \in Nat /\ used.asks \in Nat
      BY <1>1, Types DEF TypeOK
    <3>2. hooks' = hooks + 1 /\ turn' = turn /\ used' = used
      BY <1>3, <1>4
    <3> QED
      BY <1>12, <2>1, <3>1, <3>2, Bounds DEF HooksInv
  <2>3. publishedHook' \in 0..hooks'
    BY <1>3, <2>2
  <2>4. installed' \in [Kind -> Watch \cup {0}]
    BY <1>1, <1>2, <1>3 DEF TypeOK
  <2>5. cancelled' \subseteq Watch
    BY <1>1, <1>3, Types DEF TypeOK
  <2>6. metadataSaveMu' \in Proc \cup {0}
    BY <1>3, Goroutines
  <2> QED
    BY <1>1, <1>2, <1>3, <1>4, <1>6, <2>2, <2>3, <2>4, <2>5, <2>6 DEF TypeOK
<1> QED
  BY <1>7, <1>8, <1>9, <1>10, <1>11, <1>12, <1>13, <1>14 DEF IInv

\* The timer that is let through still has the newest hook.
LEMMA PublishBlockedStep ==
    ASSUME IInv, NEW w \in Watch, PublishBlocked(w)
    PROVE  IInv'
<1> DEFINE r == [proc[w] EXCEPT !.pc = "stat"]
<1>1. /\ TypeOK /\ MutexInv /\ AttentionInv /\ ProcInv /\ InstalledInv
      /\ CodexInv /\ HooksInv /\ NoOrphanWatch
  BY DEF IInv
<1>2. proc[w].pc = "apply" /\ metadataSaveMu = w /\ proc[w].hook = hooks
  BY <1>1, Goroutines DEF PublishBlocked, ProcInv, WatchInv, MutexInv, Holding
<1>3. /\ metadata.attention => metadata'.attention
      /\ metadata' \in Metadata /\ after' = metadata'
      /\ before' = metadata
      /\ metadataSaveMu' = w
      /\ publishedHook' = hooks
      /\ installed' = [k \in Kind |-> 0]
      /\ cancelled' = cancelled \cup ({installed[k] : k \in Kind} \ {0})
  BY <1>1, <1>2, Types DEF PublishBlocked, ApplyAgentUpdate, CancelInstalled,
     Goes, Mutate, AttentionAfter, Metadata, Status
<1>4. UNCHANGED <<codex, turn, interrupted, transcript, hooks, stored,
                unread, used>>
  BY DEF PublishBlocked, ApplyAgentUpdate, Goes, Mutate, codexVars,
     entryVars, history
<1>5. /\ r \in LocalState(hooks, Len(transcript), turn)
      /\ r.pc = "stat"
  <2>1. w \in Proc /\ "stat" \in Locations
    BY Goroutines DEF Locations
  <2> QED
    BY <1>1, <2>1, KeepsRest
<1>6. /\ proc' \in [Proc -> LocalState(hooks', Len(transcript'), turn')]
      /\ proc'[w] = r /\ \A q \in Proc \ {w} : proc'[q] = proc[q]
  <2>1. proc' = [proc EXCEPT ![w] = r]
    BY <1>2 DEF PublishBlocked, ApplyAgentUpdate, Goes, Mutate
  <2> QED
    BY <1>1, <1>3, <1>4, <1>5, <2>1, OneMoves, Goroutines
<1> HIDE DEF r
<1>7. MutexInv'
  BY <1>1, <1>2, <1>3, <1>4, <1>5, <1>6, Types, Goroutines DEF MutexInv, Holding
<1>8. AttentionInv'
  BY <1>1, <1>2, <1>3, <1>4, <1>5, <1>6, Types, Goroutines DEF AttentionInv, MutexInv,
     Holding
<1>9. ProcInv'
  <2>1. /\ used'.watches = used.watches /\ w \in Proc
        /\ metadataSaveMu \in {0, w}
    BY <1>2, <1>3, <1>4, Goroutines
  <2>2. \A v \in Watch \ {w} : WatchInv(v)'
    BY <1>1, <1>6, <2>1, OthersKeep
  <2>3. WatchInv(w)'
    BY <1>1, <1>2, <1>3, <1>4, <1>5, <1>6, Types, Goroutines DEF ProcInv, WatchInv,
       Idle
  <2> QED
    BY <1>1, <1>2, <1>3, <1>4, <1>5, <1>6, <2>2, <2>3, Goroutines DEF ProcInv
<1>10. InstalledInv'
  BY <1>3 DEF InstalledInv
<1>11. CodexInv' /\ HooksInv'
  <2>1. proc'[Hook].pc = "arrived" <=> proc[Hook].pc = "arrived"
    BY <1>1, <1>2, <1>5, <1>6, Goroutines DEF ProcInv
  <2> QED
    BY <1>1, <1>3, <1>4, <2>1, CodexRests
<1>12. NoOrphanWatch'
  BY <1>1, <1>3, <1>5, <1>6, CancelsAll, Goroutines DEF NoOrphanWatch
<1>13. TypeOK'
  <2>1. installed' \in [Kind -> Watch \cup {0}]
    BY <1>1, <1>2, <1>3 DEF TypeOK
  <2>2. cancelled' \subseteq Watch
    BY <1>1, <1>3, Types DEF TypeOK
  <2>3. metadataSaveMu' \in Proc \cup {0}
    BY <1>3, Goroutines
  <2> QED
    BY <1>1, <1>2, <1>3, <1>4, <1>6, <2>1, <2>2, <2>3 DEF TypeOK
<1> QED
  BY <1>7, <1>8, <1>9, <1>10, <1>11, <1>12, <1>13 DEF IInv

\* The transcript is measured inside the transaction.
LEMMA StatTranscriptStep ==
    ASSUME IInv, NEW p \in Proc, StatTranscript(p)
    PROVE  IInv'
<1> DEFINE r == [proc[p] EXCEPT !.pc = "saving", !.offset = Len(transcript)]
<1>1. /\ TypeOK /\ MutexInv /\ AttentionInv /\ ProcInv /\ InstalledInv
      /\ CodexInv /\ HooksInv /\ NoOrphanWatch
  BY DEF IInv
<1>2. proc[p].pc = "stat" /\ metadataSaveMu = p
  BY <1>1, Goroutines DEF StatTranscript, MutexInv, Holding
<1>3. UNCHANGED <<codex, turn, interrupted, transcript, metadata,
                metadataSaveMu, installed, cancelled, before, after,
                hooks, stored, publishedHook, unread, used>>
  BY DEF StatTranscript, codexVars, entryVars, history
<1>4. /\ r \in LocalState(hooks, Len(transcript), turn)
      /\ r.pc = "saving"
  <2>1. proc[p] \in LocalState(hooks, Len(transcript), turn)
    BY <1>1, Types
  <2>2. Len(transcript) \in 0..Len(transcript)
    BY <1>1, Types
  <2> QED
    BY <2>1, <2>2 DEF LocalState, Locations
<1>5. /\ proc' \in [Proc -> LocalState(hooks', Len(transcript'), turn')]
      /\ proc'[p] = r /\ \A q \in Proc \ {p} : proc'[q] = proc[q]
  <2>1. proc' = [proc EXCEPT ![p] = r]
    BY <1>2 DEF StatTranscript
  <2> QED
    BY <1>1, <1>3, <1>4, <2>1, OneMoves, Goroutines
<1> HIDE DEF r
<1>6. MutexInv'
  BY <1>1, <1>2, <1>3, <1>4, <1>5, Types, Goroutines DEF MutexInv, Holding
<1>7. AttentionInv'
  BY <1>1, <1>2, <1>3, <1>4, <1>5, Types, Goroutines DEF AttentionInv
<1>8. ProcInv'
  <2>1. /\ used'.watches = used.watches /\ p \in Proc
        /\ UNCHANGED <<installed, after, hooks>>
    BY <1>2, <1>3, Goroutines
  <2>2. \A v \in Watch \ {p} : WatchInv(v)'
    BY <1>1, <1>5, <2>1, OthersKeep
  <2>3. p \in Watch => WatchInv(p)'
    BY <1>1, <1>2, <1>3, <1>4, <1>5, Types, Goroutines DEF ProcInv, WatchInv,
       Idle
  <2> QED
    BY <1>1, <1>2, <1>3, <1>4, <1>5, <2>2, <2>3, Goroutines DEF ProcInv
<1>9. InstalledInv'
  <2>1. \A k \in Kind : installed'[k] \in {0, installed[k]} /\ installed'[k] # p
    BY <1>1, <1>2, <1>3, Types, Goroutines DEF InstalledInv
  <2> QED
    BY <1>1, <1>2, <1>3, <1>4, <1>5, <2>1, InstalledKeep, Goroutines
<1>10. CodexInv' /\ HooksInv'
  <2>1. proc'[Hook].pc = "arrived" <=> proc[Hook].pc = "arrived"
    BY <1>1, <1>2, <1>4, <1>5, Goroutines DEF ProcInv
  <2> QED
    BY <1>1, <1>3, <2>1, CodexRests
<1>11. NoOrphanWatch'
  BY <1>1, <1>2, <1>3, <1>4, <1>5, Types, Goroutines DEF NoOrphanWatch
<1>12. TypeOK'
  BY <1>1, <1>2, <1>3, <1>5 DEF TypeOK
<1> QED
  BY <1>6, <1>7, <1>8, <1>9, <1>10, <1>11, <1>12 DEF IInv

\* What is saved is what is shown.
LEMMA UpdateSavedStep ==
    ASSUME IInv, NEW p \in Proc, UpdateSaved(p)
    PROVE  IInv'
<1> DEFINE r == IF p # Viewer /\ after.status = "blocked"
                 THEN [proc[p] EXCEPT !.pc = "install"] ELSE Idle
<1>1. /\ TypeOK /\ MutexInv /\ AttentionInv /\ ProcInv /\ InstalledInv
      /\ CodexInv /\ HooksInv /\ NoOrphanWatch
  BY DEF IInv
<1>2. proc[p].pc = "saving" /\ metadataSaveMu = p /\ p # Writer
  BY <1>1, Goroutines DEF UpdateSaved, MutexInv, Holding, ProcInv
<1>3. /\ metadataSaveMu' = 0
      /\ unread' = after.attention /\ metadata.attention = after.attention
      /\ stored' \in [status : Status, attention : BOOLEAN]
  <2>1. metadata.attention = after.attention
    BY <1>1, <1>2, Goroutines DEF MutexInv, Holding
  <2>2. after.status \in Status /\ after.attention \in BOOLEAN
    BY <1>1, Types DEF Metadata
  <2> QED
    BY <2>1, <2>2 DEF UpdateSaved, SaveSucceeds
<1>4. UNCHANGED <<codex, turn, interrupted, transcript, metadata, installed,
                cancelled, before, after, hooks, publishedHook, used>>
  BY DEF UpdateSaved, SaveSucceeds, Goes, Ends, codexVars, entryVars,
     history
<1>5. /\ r \in LocalState(hooks, Len(transcript), turn)
      /\ r = Idle \/ (r.pc = "install" /\ p # Viewer)
      /\ r.pc \in {"idle", "install"}
  <2>1. /\ Idle \in LocalState(hooks, Len(transcript), turn)
        /\ Idle.pc = "idle"
    BY <1>1, Types, IdleTyped DEF Idle
  <2>2. LET s == [proc[p] EXCEPT !.pc = "install"]
        IN s \in LocalState(hooks, Len(transcript), turn) /\ s.pc = "install"
    BY <1>1, KeepsRest DEF Locations
  <2>3. CASE p # Viewer /\ after.status = "blocked"
    BY <2>2, <2>3
  <2>4. CASE ~(p # Viewer /\ after.status = "blocked")
    <3>1. r = Idle
      BY <2>4
    <3> HIDE DEF r
    <3> QED
      BY <2>1, <3>1
  <2> QED
    BY <2>3, <2>4
<1>6. /\ proc' \in [Proc -> LocalState(hooks', Len(transcript'), turn')]
      /\ proc'[p] = r /\ \A q \in Proc \ {p} : proc'[q] = proc[q]
  <2>1. proc' = [proc EXCEPT ![p] = r]
    BY <1>2 DEF UpdateSaved, Goes, Ends
  <2> QED
    BY <1>1, <1>3, <1>4, <1>5, <2>1, OneMoves, Goroutines
<1> HIDE DEF r
<1>7. MutexInv'
  BY <1>1, <1>2, <1>3, <1>4, <1>5, <1>6, Types, Goroutines DEF MutexInv, Holding, Idle
<1>8. AttentionInv'
  BY <1>1, <1>2, <1>3, <1>4, <1>5, <1>6, Types, Goroutines DEF AttentionInv, MutexInv,
     Holding
<1>9. ProcInv'
  <2>1. /\ used'.watches = used.watches /\ p \in Proc
        /\ UNCHANGED <<installed, after, hooks>>
    BY <1>2, <1>3, <1>4, Goroutines
  <2>2. \A v \in Watch \ {p} : WatchInv(v)'
    BY <1>1, <1>6, <2>1, OthersKeep
  <2>3. p \in Watch => WatchInv(p)'
    BY <1>1, <1>2, <1>3, <1>4, <1>5, <1>6, Types, Goroutines DEF ProcInv, WatchInv,
       Idle
  <2> QED
    BY <1>1, <1>2, <1>3, <1>4, <1>5, <1>6, <2>2, <2>3, Goroutines DEF ProcInv, Idle
<1>10. InstalledInv'
  <2>1. \A k \in Kind : installed'[k] \in {0, installed[k]} /\ installed'[k] # p
    BY <1>1, <1>2, <1>3, <1>4, Types, Goroutines DEF InstalledInv
  <2> QED
    BY <1>1, <1>2, <1>3, <1>4, <1>5, <1>6, <2>1, InstalledKeep, Goroutines
<1>11. CodexInv' /\ HooksInv'
  <2>1. proc'[Hook].pc = "arrived" <=> proc[Hook].pc = "arrived"
    BY <1>1, <1>2, <1>5, <1>6, Goroutines DEF ProcInv
  <2> QED
    BY <1>1, <1>3, <1>4, <2>1, CodexRests
<1>12. NoOrphanWatch'
  BY <1>1, <1>2, <1>3, <1>4, <1>5, <1>6, Types, Goroutines DEF NoOrphanWatch, Idle
<1>13. TypeOK'
  <2>1. unread' \in BOOLEAN
    BY <1>1, <1>3, Types DEF Metadata
  <2>2. metadataSaveMu' \in Proc \cup {0}
    BY <1>3, Goroutines
  <2> QED
    BY <1>1, <1>2, <1>3, <1>4, <1>6, <2>1, <2>2 DEF TypeOK
<1> QED
  BY <1>7, <1>8, <1>9, <1>10, <1>11, <1>12, <1>13 DEF IInv

\* A failed save changes neither the row nor the memory.
LEMMA UpdateNotSavedStep ==
    ASSUME IInv, NEW p \in Proc, UpdateNotSaved(p)
    PROVE  IInv'
<1> DEFINE r == Idle
<1>1. /\ TypeOK /\ MutexInv /\ AttentionInv /\ ProcInv /\ InstalledInv
      /\ CodexInv /\ HooksInv /\ NoOrphanWatch
  BY DEF IInv
<1>2. proc[p].pc = "saving" /\ metadataSaveMu = p /\ p # Writer
  BY <1>1, Goroutines DEF UpdateNotSaved, MutexInv, Holding, ProcInv
<1>3. /\ metadataSaveMu' = 0
      /\ used'.tools = used.tools
      /\ used'.asks = used.asks
      /\ used'.watches = used.watches
  BY <1>1, <1>2, Types, Used DEF UpdateNotSaved, SaveFails, Ends, Use
<1>4. UNCHANGED <<codex, turn, interrupted, transcript, metadata, installed,
                cancelled, before, after, hooks, stored,
                publishedHook, unread>>
  BY DEF UpdateNotSaved, SaveFails, Ends, codexVars, entryVars, history
<1>5. /\ r \in LocalState(hooks, Len(transcript), turn)
      /\ r = Idle /\ r.pc = "idle"
  BY <1>1, <1>2, Goroutines, IdleTyped, Types DEF Idle
<1>6. /\ proc' \in [Proc -> LocalState(hooks', Len(transcript'), turn')]
      /\ proc'[p] = r /\ \A q \in Proc \ {p} : proc'[q] = proc[q]
  <2>1. proc' = [proc EXCEPT ![p] = r]
    BY <1>2 DEF UpdateNotSaved, Ends
  <2> QED
    BY <1>1, <1>3, <1>4, <1>5, <2>1, OneMoves, Goroutines
<1> HIDE DEF r
<1>7. MutexInv'
  BY <1>1, <1>2, <1>3, <1>4, <1>5, <1>6, Types, Goroutines DEF MutexInv, Holding
<1>8. AttentionInv'
  BY <1>1, <1>2, <1>3, <1>4, <1>5, <1>6, Types, Goroutines DEF AttentionInv
<1>9. ProcInv'
  <2>1. /\ used'.watches = used.watches /\ p \in Proc
        /\ UNCHANGED <<installed, after, hooks>>
    BY <1>2, <1>3, <1>4, Goroutines
  <2>2. \A v \in Watch \ {p} : WatchInv(v)'
    BY <1>1, <1>6, <2>1, OthersKeep
  <2>3. p \in Watch => WatchInv(p)'
    BY <1>1, <1>2, <1>3, <1>4, <1>5, <1>6, Types, Goroutines DEF ProcInv, WatchInv,
       Idle
  <2> QED
    BY <1>1, <1>2, <1>3, <1>4, <1>5, <1>6, <2>2, <2>3, Goroutines DEF ProcInv
<1>10. InstalledInv'
  <2>1. \A k \in Kind : installed'[k] \in {0, installed[k]} /\ installed'[k] # p
    BY <1>1, <1>2, <1>3, <1>4, Types, Goroutines DEF InstalledInv
  <2> QED
    BY <1>1, <1>2, <1>3, <1>4, <1>5, <1>6, <2>1, InstalledKeep, Goroutines
<1>11. CodexInv' /\ HooksInv'
  <2>1. proc'[Hook].pc = "arrived" <=> proc[Hook].pc = "arrived"
    BY <1>1, <1>2, <1>5, <1>6, Goroutines DEF ProcInv
  <2> QED
    BY <1>1, <1>3, <1>4, <2>1, CodexRests
<1>12. NoOrphanWatch'
  BY <1>1, <1>2, <1>3, <1>4, <1>5, <1>6, Types, Goroutines DEF NoOrphanWatch
<1>13. TypeOK'
  <2>1. used' \in [{"tools", "asks", "interrupts", "acks", "samples",
                   "failures", "watches"} -> Nat]
    BY <1>1, Used DEF UpdateNotSaved, Use, SaveFails
  <2>2. metadataSaveMu' \in Proc \cup {0}
    BY <1>3, Goroutines
  <2> QED
    BY <1>1, <1>2, <1>3, <1>4, <1>6, <2>1, <2>2 DEF TypeOK
<1> QED
  BY <1>7, <1>8, <1>9, <1>10, <1>11, <1>12, <1>13 DEF IInv

\* An acknowledgement is the one step that hides attention.
LEMMA AcknowledgeAttentionStep ==
    ASSUME IInv, AcknowledgeAttention
    PROVE  IInv'
<1> DEFINE r == [proc[Viewer] EXCEPT !.pc = "saving"]
<1>1. /\ TypeOK /\ MutexInv /\ AttentionInv /\ ProcInv /\ InstalledInv
      /\ CodexInv /\ HooksInv /\ NoOrphanWatch
  BY DEF IInv
<1>2. proc[Viewer].pc = "idle" /\ metadataSaveMu = 0
  BY <1>1, Goroutines DEF AcknowledgeAttention, Idle
<1>3. /\ metadata' \in Metadata /\ after' = metadata'
      /\ before' = metadata
      /\ metadataSaveMu' = Viewer
      /\ unread' = FALSE
      /\ used'.tools = used.tools
      /\ used'.asks = used.asks
      /\ used'.watches = used.watches
  <2>1. metadata \in Metadata /\ metadata' = [metadata EXCEPT !.attention = FALSE]
    BY <1>1, Types DEF AcknowledgeAttention, Mutate
  <2>2. metadata' \in Metadata
    BY <2>1 DEF Metadata
  <2>3. /\ used'.tools = used.tools /\ used'.asks = used.asks
        /\ used'.watches = used.watches
    BY <1>1, Used DEF AcknowledgeAttention, Use
  <2> QED
    BY <2>1, <2>2, <2>3 DEF AcknowledgeAttention, Mutate
<1>4. UNCHANGED <<codex, turn, interrupted, transcript, installed,
                cancelled, hooks, stored, publishedHook>>
  BY DEF AcknowledgeAttention, Mutate, Goes, codexVars, entryVars, history
<1>5. /\ r \in LocalState(hooks, Len(transcript), turn)
      /\ r.pc = "saving"
  <2>1. Viewer \in Proc /\ "saving" \in Locations
    BY Goroutines DEF Locations
  <2> QED
    BY <1>1, <2>1, KeepsRest
<1>6. /\ proc' \in [Proc -> LocalState(hooks', Len(transcript'), turn')]
      /\ proc'[Viewer] = r /\ \A q \in Proc \ {Viewer} : proc'[q] = proc[q]
  <2>1. proc' = [proc EXCEPT ![Viewer] = r]
    BY <1>2 DEF AcknowledgeAttention, Mutate, Goes
  <2> QED
    BY <1>1, <1>3, <1>4, <1>5, <2>1, OneMoves, Goroutines
<1> HIDE DEF r
<1>7. MutexInv'
  BY <1>1, <1>2, <1>3, <1>4, <1>5, <1>6, Types, Goroutines DEF MutexInv, Holding
<1>8. AttentionInv'
  BY <1>1, <1>2, <1>3, <1>4, <1>5, <1>6, Types, Goroutines DEF AttentionInv
<1>9. ProcInv'
  <2>1. /\ used'.watches = used.watches /\ Viewer \in Proc
        /\ metadataSaveMu \in {0, Viewer}
    BY <1>2, <1>3, <1>4, Goroutines
  <2>2. \A v \in Watch \ {Viewer} : WatchInv(v)'
    BY <1>1, <1>6, <2>1, OthersKeep
  <2> QED
    BY <1>1, <1>2, <1>3, <1>4, <1>5, <1>6, <2>2, Goroutines DEF ProcInv
<1>10. InstalledInv'
  <2>1. \A k \in Kind : installed'[k] \in {0, installed[k]} /\ installed'[k] # Viewer
    BY <1>1, <1>2, <1>3, <1>4, Types, Goroutines DEF InstalledInv
  <2> QED
    BY <1>1, <1>2, <1>3, <1>4, <1>5, <1>6, <2>1, InstalledKeep, Goroutines
<1>11. CodexInv' /\ HooksInv'
  <2>1. proc'[Hook].pc = "arrived" <=> proc[Hook].pc = "arrived"
    BY <1>1, <1>2, <1>5, <1>6, Goroutines DEF ProcInv
  <2> QED
    BY <1>1, <1>3, <1>4, <2>1, CodexRests
<1>12. NoOrphanWatch'
  BY <1>1, <1>2, <1>3, <1>4, <1>5, <1>6, Types, Goroutines DEF NoOrphanWatch
<1>13. TypeOK'
  <2>1. used' \in [{"tools", "asks", "interrupts", "acks", "samples",
                   "failures", "watches"} -> Nat]
    BY <1>1, Used DEF AcknowledgeAttention, Use
  <2>2. unread' \in BOOLEAN
    BY <1>1, <1>3, Types DEF Metadata
  <2>3. metadataSaveMu' \in Proc \cup {0}
    BY <1>3, Goroutines
  <2> QED
    BY <1>1, <1>2, <1>3, <1>4, <1>6, <2>1, <2>2, <2>3 DEF TypeOK
<1> QED
  BY <1>7, <1>8, <1>9, <1>10, <1>11, <1>12, <1>13 DEF IInv

\* The target of a Ctrl-C is a turn that is in the transcript.
LEMMA PressCtrlCStep ==
    ASSUME IInv, PressCtrlC
    PROVE  IInv'
<1> DEFINE r == [Idle EXCEPT !.pc = "write", !.offset = Len(transcript),
                         !.turn = IF metadata.status = "running"
                                  THEN TurnIDAt(Len(transcript)) ELSE 0]
<1>1. /\ TypeOK /\ MutexInv /\ AttentionInv /\ ProcInv /\ InstalledInv
      /\ CodexInv /\ HooksInv /\ NoOrphanWatch
  BY DEF IInv
<1>2. proc[Writer].pc = "idle"
  BY <1>1, Goroutines DEF PressCtrlC, Idle
<1>3. /\ used'.tools = used.tools
      /\ used'.asks = used.asks
      /\ used'.watches = used.watches
  BY <1>1, <1>2, Types, Used DEF PressCtrlC, Use
<1>4. UNCHANGED <<codex, turn, interrupted, transcript, metadata,
                metadataSaveMu, installed, cancelled, before, after,
                hooks, stored, publishedHook, unread>>
  BY DEF PressCtrlC, codexVars, entryVars, history
<1>5. /\ r \in LocalState(hooks, Len(transcript), turn)
      /\ r.pc = "write"
  <2> DEFINE n == Len(transcript)
  <2>1. n \in Nat /\ turn \in Nat
    BY <1>1, Types
  <2>2. n # 0 => transcript[n].turn \in 0..turn
    <3>1. n # 0 => n \in 1..Len(transcript) /\ transcript[n] \in Record
      BY <1>1, <2>1 DEF TypeOK
    <3> QED
      BY <1>1, <2>1, <3>1, Bounds DEF CodexInv, Record
  <2>3. (IF metadata.status = "running" THEN TurnIDAt(n) ELSE 0) \in 0..turn
    BY <2>1, <2>2 DEF TurnIDAt
  <2>4. Idle \in LocalState(hooks, n, turn) /\ n \in 0..n
    BY <1>1, <2>1, Types, IdleTyped
  <2> HIDE DEF n
  <2> QED
    BY <2>3, <2>4 DEF n, LocalState, Locations
<1>6. /\ proc' \in [Proc -> LocalState(hooks', Len(transcript'), turn')]
      /\ proc'[Writer] = r /\ \A q \in Proc \ {Writer} : proc'[q] = proc[q]
  <2>1. proc' = [proc EXCEPT ![Writer] = r]
    BY <1>2 DEF PressCtrlC
  <2> QED
    BY <1>1, <1>3, <1>4, <1>5, <2>1, OneMoves, Goroutines
<1> HIDE DEF r
<1>7. MutexInv'
  BY <1>1, <1>2, <1>3, <1>4, <1>5, <1>6, Types, Goroutines DEF MutexInv, Holding
<1>8. AttentionInv'
  BY <1>1, <1>2, <1>3, <1>4, <1>5, <1>6, Types, Goroutines DEF AttentionInv
<1>9. ProcInv'
  <2>1. /\ used'.watches = used.watches /\ Writer \in Proc
        /\ UNCHANGED <<installed, after, hooks>>
    BY <1>2, <1>3, <1>4, Goroutines
  <2>2. \A v \in Watch \ {Writer} : WatchInv(v)'
    BY <1>1, <1>6, <2>1, OthersKeep
  <2> QED
    BY <1>1, <1>2, <1>3, <1>4, <1>5, <1>6, <2>2, Goroutines DEF ProcInv
<1>10. InstalledInv'
  <2>1. \A k \in Kind : installed'[k] \in {0, installed[k]} /\ installed'[k] # Writer
    BY <1>1, <1>2, <1>3, <1>4, Types, Goroutines DEF InstalledInv
  <2> QED
    BY <1>1, <1>2, <1>3, <1>4, <1>5, <1>6, <2>1, InstalledKeep, Goroutines
<1>11. CodexInv' /\ HooksInv'
  <2>1. proc'[Hook].pc = "arrived" <=> proc[Hook].pc = "arrived"
    BY <1>1, <1>2, <1>5, <1>6, Goroutines DEF ProcInv
  <2> QED
    BY <1>1, <1>3, <1>4, <2>1, CodexRests
<1>12. NoOrphanWatch'
  BY <1>1, <1>2, <1>3, <1>4, <1>5, <1>6, Types, Goroutines DEF NoOrphanWatch
<1>13. TypeOK'
  <2>1. used' \in [{"tools", "asks", "interrupts", "acks", "samples",
                   "failures", "watches"} -> Nat]
    BY <1>1, Used DEF PressCtrlC, Use
  <2> QED
    BY <1>1, <1>2, <1>3, <1>4, <1>6, <2>1 DEF TypeOK
<1> QED
  BY <1>7, <1>8, <1>9, <1>10, <1>11, <1>12, <1>13 DEF IInv

\* The keystroke reaches Codex.
LEMMA WriteInputStep ==
    ASSUME IInv, WriteInput
    PROVE  IInv'
<1> DEFINE r == IF proc[Writer].turn # 0
                 THEN [proc[Writer] EXCEPT !.pc = "install"] ELSE Idle
<1>1. /\ TypeOK /\ MutexInv /\ AttentionInv /\ ProcInv /\ InstalledInv
      /\ CodexInv /\ HooksInv /\ NoOrphanWatch
  BY DEF IInv
<1>2. proc[Writer].pc = "write"
  BY <1>1, Goroutines DEF WriteInput
<1>3. interrupted' \in BOOLEAN
  BY <1>1, <1>2, Types DEF WriteInput, Goes, Ends
<1>4. UNCHANGED <<codex, turn, transcript, metadata, metadataSaveMu,
                installed, cancelled, before, after, hooks, stored,
                publishedHook, unread, used>>
  BY DEF WriteInput, Goes, Ends, codexVars, entryVars, history
<1>5. /\ r \in LocalState(hooks, Len(transcript), turn)
      /\ r.pc \in {"install", "idle"}
  BY <1>1, <1>2, Goroutines, KeepsRest, IdleTyped, Types DEF Locations, Idle
<1>6. /\ proc' \in [Proc -> LocalState(hooks', Len(transcript'), turn')]
      /\ proc'[Writer] = r /\ \A q \in Proc \ {Writer} : proc'[q] = proc[q]
  <2>1. proc' = [proc EXCEPT ![Writer] = r]
    BY <1>2 DEF WriteInput, Goes, Ends
  <2> QED
    BY <1>1, <1>3, <1>4, <1>5, <2>1, OneMoves, Goroutines
<1> HIDE DEF r
<1>7. MutexInv'
  BY <1>1, <1>2, <1>3, <1>4, <1>5, <1>6, Types, Goroutines DEF MutexInv, Holding
<1>8. AttentionInv'
  BY <1>1, <1>2, <1>3, <1>4, <1>5, <1>6, Types, Goroutines DEF AttentionInv
<1>9. ProcInv'
  <2>1. /\ used'.watches = used.watches /\ Writer \in Proc
        /\ UNCHANGED <<installed, after, hooks>>
    BY <1>2, <1>3, <1>4, Goroutines
  <2>2. \A v \in Watch \ {Writer} : WatchInv(v)'
    BY <1>1, <1>6, <2>1, OthersKeep
  <2> QED
    BY <1>1, <1>2, <1>3, <1>4, <1>5, <1>6, <2>2, Goroutines DEF ProcInv
<1>10. InstalledInv'
  <2>1. \A k \in Kind : installed'[k] \in {0, installed[k]} /\ installed'[k] # Writer
    BY <1>1, <1>2, <1>3, <1>4, Types, Goroutines DEF InstalledInv
  <2> QED
    BY <1>1, <1>2, <1>3, <1>4, <1>5, <1>6, <2>1, InstalledKeep, Goroutines
<1>11. CodexInv' /\ HooksInv'
  <2>1. proc'[Hook].pc = "arrived" <=> proc[Hook].pc = "arrived"
    BY <1>1, <1>2, <1>5, <1>6, Goroutines DEF ProcInv
  <2> QED
    BY <1>1, <1>3, <1>4, <2>1, CodexRests
<1>12. NoOrphanWatch'
  BY <1>1, <1>2, <1>3, <1>4, <1>5, <1>6, Types, Goroutines DEF NoOrphanWatch
<1>13. TypeOK'
  BY <1>1, <1>2, <1>3, <1>4, <1>6 DEF TypeOK
<1> QED
  BY <1>7, <1>8, <1>9, <1>10, <1>11, <1>12, <1>13 DEF IInv

\* A watch finds what it waits for, and stays installed.
LEMMA DueStep ==
    ASSUME IInv, NEW w \in Watch, Due(w)
    PROVE  IInv'
<1> DEFINE r == [proc[w] EXCEPT !.pc = "complete", !.status = Found(w)]
<1>1. /\ TypeOK /\ MutexInv /\ AttentionInv /\ ProcInv /\ InstalledInv
      /\ CodexInv /\ HooksInv /\ NoOrphanWatch
  BY DEF IInv
<1>2. /\ proc[w].pc = "watching" /\ proc[w].kind \in Kind
      /\ Found(w) \in Findings(proc[w].kind) /\ Found(w) \in Status
  <2>1. proc[w].pc = "watching" /\ Found(w) # "none" /\ proc[w].kind \in Kind
    BY <1>1 DEF Due, ProcInv, WatchInv
  <2> QED
    BY <2>1, FoundFits
<1>3. UNCHANGED <<codex, turn, interrupted, transcript, metadata,
                metadataSaveMu, installed, cancelled, before, after,
                hooks, stored, publishedHook, unread, used>>
  BY DEF Due, codexVars, entryVars, history
<1>4. /\ r \in LocalState(hooks, Len(transcript), turn)
      /\ r.pc = "complete" /\ r.kind = proc[w].kind
      /\ r.hook = proc[w].hook /\ r.status = Found(w)
  <2>1. proc[w] \in LocalState(hooks, Len(transcript), turn)
    BY <1>1, Types, Goroutines
  <2> QED
    BY <1>2, <1>3, <2>1 DEF LocalState, Locations
<1>5. /\ proc' \in [Proc -> LocalState(hooks', Len(transcript'), turn')]
      /\ proc'[w] = r /\ \A q \in Proc \ {w} : proc'[q] = proc[q]
  <2>1. proc' = [proc EXCEPT ![w] = r]
    BY <1>2 DEF Due
  <2> QED
    BY <1>1, <1>3, <1>4, <2>1, OneMoves, Goroutines
<1> HIDE DEF r
<1>6. MutexInv'
  BY <1>1, <1>2, <1>3, <1>4, <1>5, Types, Goroutines DEF MutexInv, Holding
<1>7. AttentionInv'
  BY <1>1, <1>2, <1>3, <1>4, <1>5, Types, Goroutines DEF AttentionInv
<1>8. ProcInv'
  <2>1. /\ used'.watches = used.watches /\ w \in Proc
        /\ UNCHANGED <<installed, after, hooks>>
    BY <1>2, <1>3, Goroutines
  <2>2. \A v \in Watch \ {w} : WatchInv(v)'
    BY <1>1, <1>5, <2>1, OthersKeep
  <2>3. WatchInv(w)'
    BY <1>1, <1>2, <1>3, <1>4, <1>5, Types, Goroutines DEF ProcInv, WatchInv,
       Idle
  <2> QED
    BY <1>1, <1>2, <1>3, <1>4, <1>5, <2>2, <2>3, Goroutines DEF ProcInv
<1>9. InstalledInv'
  <2>1. \A k \in Kind : installed'[k] \in {0, installed[k]}
    BY <1>1, <1>2, <1>3, Types, Goroutines DEF InstalledInv
  <2> QED
    BY <1>1, <1>2, <1>3, <1>4, <1>5, <2>1, InstalledKeep, Goroutines
<1>10. CodexInv' /\ HooksInv'
  <2>1. proc'[Hook].pc = "arrived" <=> proc[Hook].pc = "arrived"
    BY <1>1, <1>2, <1>4, <1>5, Goroutines DEF ProcInv
  <2> QED
    BY <1>1, <1>3, <2>1, CodexRests
<1>11. NoOrphanWatch'
  BY <1>1, <1>2, <1>3, <1>4, <1>5, Types, Goroutines DEF NoOrphanWatch
<1>12. TypeOK'
  BY <1>1, <1>2, <1>3, <1>5 DEF TypeOK
<1> QED
  BY <1>6, <1>7, <1>8, <1>9, <1>10, <1>11, <1>12 DEF IInv

\* The timer takes the mutex while its hook is the newest.
LEMMA ConfirmBlockedStep ==
    ASSUME IInv, NEW w \in Watch, ConfirmBlocked(w)
    PROVE  IInv'
<1> DEFINE r == [proc[w] EXCEPT !.pc = "apply"]
<1>1. /\ TypeOK /\ MutexInv /\ AttentionInv /\ ProcInv /\ InstalledInv
      /\ CodexInv /\ HooksInv /\ NoOrphanWatch
  BY DEF IInv
<1>2. /\ proc[w].pc = "complete" /\ metadataSaveMu = 0
      /\ proc[w].kind = "blocked" /\ proc[w].hook = hooks
      /\ installed["blocked"] = w
  BY <1>1, Goroutines DEF ConfirmBlocked, StillWanted, InstalledInv, Kind
<1>3. /\ metadataSaveMu' = w
      /\ installed' = [installed EXCEPT !["blocked"] = 0]
  BY <1>1, <1>2, Types DEF ConfirmBlocked, Uninstall, Goes
<1>4. UNCHANGED <<codex, turn, interrupted, transcript, metadata, cancelled,
                before, after, hooks, stored, publishedHook, unread,
                used>>
  BY DEF ConfirmBlocked, Uninstall, Goes, codexVars, entryVars, history
<1>5. /\ r \in LocalState(hooks, Len(transcript), turn)
      /\ r.pc = "apply" /\ r.hook = proc[w].hook
  <2>1. w \in Proc /\ "apply" \in Locations
    BY Goroutines DEF Locations
  <2> QED
    BY <1>1, <2>1, KeepsRest
<1>6. /\ proc' \in [Proc -> LocalState(hooks', Len(transcript'), turn')]
      /\ proc'[w] = r /\ \A q \in Proc \ {w} : proc'[q] = proc[q]
  <2>1. proc' = [proc EXCEPT ![w] = r]
    BY <1>2 DEF ConfirmBlocked, Goes
  <2> QED
    BY <1>1, <1>3, <1>4, <1>5, <2>1, OneMoves, Goroutines
<1> HIDE DEF r
<1>7. MutexInv'
  BY <1>1, <1>2, <1>3, <1>4, <1>5, <1>6, Types, Goroutines DEF MutexInv, Holding
<1>8. AttentionInv'
  BY <1>1, <1>2, <1>3, <1>4, <1>5, <1>6, Types, Goroutines DEF AttentionInv
<1>9. ProcInv'
  <2>1. /\ used'.watches = used.watches /\ w \in Proc
        /\ metadataSaveMu \in {0, w}
    BY <1>2, <1>3, <1>4, Goroutines
  <2>2. \A v \in Watch \ {w} : WatchInv(v)'
    BY <1>1, <1>6, <2>1, OthersKeep
  <2>3. WatchInv(w)'
    BY <1>1, <1>2, <1>3, <1>4, <1>5, <1>6, Types, Goroutines DEF ProcInv, WatchInv,
       Idle
  <2> QED
    BY <1>1, <1>2, <1>3, <1>4, <1>5, <1>6, <2>2, <2>3, Goroutines DEF ProcInv
<1>10. InstalledInv'
  <2>1. \A k \in Kind : installed'[k] \in {0, installed[k]} /\ installed'[k] # w
    BY <1>1, <1>2, <1>3, <1>4, Types, Goroutines DEF InstalledInv, TypeOK
  <2> QED
    BY <1>1, <1>2, <1>3, <1>4, <1>5, <1>6, <2>1, InstalledKeep, Goroutines
<1>11. CodexInv' /\ HooksInv'
  <2>1. proc'[Hook].pc = "arrived" <=> proc[Hook].pc = "arrived"
    BY <1>1, <1>2, <1>5, <1>6, Goroutines DEF ProcInv
  <2> QED
    BY <1>1, <1>3, <1>4, <2>1, CodexRests
<1>12. NoOrphanWatch'
  BY <1>1, <1>2, <1>3, <1>4, <1>5, <1>6, Types, Goroutines DEF NoOrphanWatch, ProcInv,
     WatchInv
<1>13. TypeOK'
  <2>1. installed' \in [Kind -> Watch \cup {0}]
    BY <1>1, <1>2, <1>3 DEF TypeOK
  <2>2. metadataSaveMu' \in Proc \cup {0}
    BY <1>3, Goroutines
  <2> QED
    BY <1>1, <1>2, <1>3, <1>4, <1>6, <2>1, <2>2 DEF TypeOK
<1> QED
  BY <1>7, <1>8, <1>9, <1>10, <1>11, <1>12, <1>13 DEF IInv

\* A poller publishes a status under which no watch of its kind is wanted.
LEMMA CompleteFromTranscriptStep ==
    ASSUME IInv, NEW w \in Watch, CompleteFromTranscript(w)
    PROVE  IInv'
<1> DEFINE r == [proc[w] EXCEPT !.pc = "completing"]
<1>1. /\ TypeOK /\ MutexInv /\ AttentionInv /\ ProcInv /\ InstalledInv
      /\ CodexInv /\ HooksInv /\ NoOrphanWatch
  BY DEF IInv
<1>2. /\ proc[w].pc = "complete" /\ metadataSaveMu = 0
      /\ proc[w].kind \in {"activity", "interrupt"}
      /\ proc[w].status \in Findings(proc[w].kind)
      /\ installed[proc[w].kind] = w
  BY <1>1, Goroutines DEF CompleteFromTranscript, StillWanted, Kind, ProcInv,
     WatchInv
<1>3. /\ metadata'.status = proc[w].status
      /\ metadata.attention => metadata'.attention
      /\ metadata' \in Metadata /\ after' = metadata'
      /\ before' = metadata
      /\ metadataSaveMu' = w
      /\ installed' = [installed EXCEPT ![proc[w].kind] = 0]
  BY <1>1, <1>2, Types DEF CompleteFromTranscript, Uninstall, Mutate, Goes,
     Metadata, Status, Findings
<1>4. UNCHANGED <<codex, turn, interrupted, transcript, cancelled, hooks,
                stored, publishedHook, unread, used>>
  BY DEF CompleteFromTranscript, Uninstall, Mutate, Goes, codexVars,
     entryVars, history
<1>5. /\ r \in LocalState(hooks, Len(transcript), turn)
      /\ r.pc = "completing" /\ r.kind = proc[w].kind
  <2>1. w \in Proc /\ "completing" \in Locations
    BY Goroutines DEF Locations
  <2> QED
    BY <1>1, <2>1, KeepsRest
<1>6. /\ proc' \in [Proc -> LocalState(hooks', Len(transcript'), turn')]
      /\ proc'[w] = r /\ \A q \in Proc \ {w} : proc'[q] = proc[q]
  <2>1. proc' = [proc EXCEPT ![w] = r]
    BY <1>2 DEF CompleteFromTranscript, Mutate, Goes
  <2> QED
    BY <1>1, <1>3, <1>4, <1>5, <2>1, OneMoves, Goroutines
<1> HIDE DEF r
<1>7. MutexInv'
  BY <1>1, <1>2, <1>3, <1>4, <1>5, <1>6, Types, Goroutines DEF MutexInv, Holding
<1>8. AttentionInv'
  BY <1>1, <1>2, <1>3, <1>4, <1>5, <1>6, Types, Goroutines DEF AttentionInv
<1>9. ProcInv'
  <2>1. /\ used'.watches = used.watches /\ w \in Proc
        /\ metadataSaveMu \in {0, w}
    BY <1>2, <1>3, <1>4, Goroutines
  <2>2. \A v \in Watch \ {w} : WatchInv(v)'
    BY <1>1, <1>6, <2>1, OthersKeep
  <2>3. WatchInv(w)'
    BY <1>1, <1>2, <1>3, <1>4, <1>5, <1>6, Types, Goroutines DEF ProcInv, WatchInv,
       Idle, Findings, Expected, Kind, TypeOK
  <2> QED
    BY <1>1, <1>2, <1>3, <1>4, <1>5, <1>6, <2>2, <2>3, Goroutines DEF ProcInv
<1>10. InstalledInv'
  <2>1. \A k \in Kind : installed'[k] \in {0, installed[k]} /\ installed'[k] # w
    BY <1>1, <1>2, <1>3, <1>4, Types, Goroutines DEF InstalledInv, TypeOK
  <2> QED
    BY <1>1, <1>2, <1>3, <1>4, <1>5, <1>6, <2>1, InstalledKeep, Goroutines
<1>11. CodexInv' /\ HooksInv'
  <2>1. proc'[Hook].pc = "arrived" <=> proc[Hook].pc = "arrived"
    BY <1>1, <1>2, <1>5, <1>6, Goroutines DEF ProcInv
  <2> QED
    BY <1>1, <1>3, <1>4, <2>1, CodexRests
<1>12. NoOrphanWatch'
  BY <1>1, <1>2, <1>3, <1>4, <1>5, <1>6, Types, Goroutines DEF NoOrphanWatch, ProcInv,
     WatchInv
<1>13. TypeOK'
  <2>1. installed' \in [Kind -> Watch \cup {0}]
    BY <1>1, <1>2, <1>3 DEF TypeOK
  <2>2. metadataSaveMu' \in Proc \cup {0}
    BY <1>3, Goroutines
  <2> QED
    BY <1>1, <1>2, <1>3, <1>4, <1>6, <2>1, <2>2 DEF TypeOK
<1> QED
  BY <1>7, <1>8, <1>9, <1>10, <1>11, <1>12, <1>13 DEF IInv

\* The poller that is done cancels itself.
LEMMA CompletionSavedStep ==
    ASSUME IInv, NEW w \in Watch, CompletionSaved(w)
    PROVE  IInv'
<1> DEFINE r == [proc[w] EXCEPT !.pc = "done"]
<1>1. /\ TypeOK /\ MutexInv /\ AttentionInv /\ ProcInv /\ InstalledInv
      /\ CodexInv /\ HooksInv /\ NoOrphanWatch
  BY DEF IInv
<1>2. proc[w].pc = "completing" /\ metadataSaveMu = w
  BY <1>1, Goroutines DEF CompletionSaved, MutexInv, Holding
<1>3. /\ metadataSaveMu' = 0
      /\ unread' = after.attention /\ metadata.attention = after.attention
      /\ stored' \in [status : Status, attention : BOOLEAN]
      /\ cancelled' = cancelled \cup {w}
  <2>1. metadata.attention = after.attention
    BY <1>1, <1>2, Goroutines DEF MutexInv, Holding
  <2>2. after.status \in Status /\ after.attention \in BOOLEAN
    BY <1>1, Types DEF Metadata
  <2> QED
    BY <2>1, <2>2 DEF CompletionSaved, SaveSucceeds
<1>4. UNCHANGED <<codex, turn, interrupted, transcript, metadata, installed,
                before, after, hooks, publishedHook, used>>
  BY DEF CompletionSaved, SaveSucceeds, Goes, codexVars, entryVars, history
<1>5. /\ r \in LocalState(hooks, Len(transcript), turn)
      /\ r.pc = "done" /\ r.kind = proc[w].kind /\ r.hook = proc[w].hook
  <2>1. w \in Proc /\ "done" \in Locations
    BY Goroutines DEF Locations
  <2> QED
    BY <1>1, <2>1, KeepsRest
<1>6. /\ proc' \in [Proc -> LocalState(hooks', Len(transcript'), turn')]
      /\ proc'[w] = r /\ \A q \in Proc \ {w} : proc'[q] = proc[q]
  <2>1. proc' = [proc EXCEPT ![w] = r]
    BY <1>2 DEF CompletionSaved, Goes
  <2> QED
    BY <1>1, <1>3, <1>4, <1>5, <2>1, OneMoves, Goroutines
<1> HIDE DEF r
<1>7. MutexInv'
  BY <1>1, <1>2, <1>3, <1>4, <1>5, <1>6, Types, Goroutines DEF MutexInv, Holding
<1>8. AttentionInv'
  BY <1>1, <1>2, <1>3, <1>4, <1>5, <1>6, Types, Goroutines DEF AttentionInv, MutexInv,
     Holding
<1>9. ProcInv'
  <2>1. /\ used'.watches = used.watches /\ w \in Proc
        /\ UNCHANGED <<installed, after, hooks>>
    BY <1>2, <1>3, <1>4, Goroutines
  <2>2. \A v \in Watch \ {w} : WatchInv(v)'
    BY <1>1, <1>6, <2>1, OthersKeep
  <2>3. WatchInv(w)'
    BY <1>1, <1>2, <1>3, <1>4, <1>5, <1>6, Types, Goroutines DEF ProcInv, WatchInv,
       Idle, Kind
  <2> QED
    BY <1>1, <1>2, <1>3, <1>4, <1>5, <1>6, <2>2, <2>3, Goroutines DEF ProcInv
<1>10. InstalledInv'
  <2>1. \A k \in Kind : installed'[k] \in {0, installed[k]}
    BY <1>1, <1>2, <1>3, <1>4, Types, Goroutines DEF InstalledInv
  <2> QED
    BY <1>1, <1>2, <1>3, <1>4, <1>5, <1>6, <2>1, InstalledKeep, Goroutines
<1>11. CodexInv' /\ HooksInv'
  <2>1. proc'[Hook].pc = "arrived" <=> proc[Hook].pc = "arrived"
    BY <1>1, <1>2, <1>5, <1>6, Goroutines DEF ProcInv
  <2> QED
    BY <1>1, <1>3, <1>4, <2>1, CodexRests
<1>12. NoOrphanWatch'
  BY <1>1, <1>2, <1>3, <1>4, <1>5, <1>6, Types, Goroutines DEF NoOrphanWatch
<1>13. TypeOK'
  <2>1. cancelled' \subseteq Watch
    BY <1>1, <1>3, Types DEF TypeOK
  <2>2. unread' \in BOOLEAN
    BY <1>1, <1>3, Types DEF Metadata
  <2>3. metadataSaveMu' \in Proc \cup {0}
    BY <1>3, Goroutines
  <2> QED
    BY <1>1, <1>2, <1>3, <1>4, <1>6, <2>1, <2>2, <2>3 DEF TypeOK
<1> QED
  BY <1>7, <1>8, <1>9, <1>10, <1>11, <1>12, <1>13 DEF IInv

\* The poller keeps the mutex until it has rolled back.
LEMMA CompletionNotSavedStep ==
    ASSUME IInv, NEW w \in Watch, CompletionNotSaved(w)
    PROVE  IInv'
<1> DEFINE r == [proc[w] EXCEPT !.pc = "rollback"]
<1>1. /\ TypeOK /\ MutexInv /\ AttentionInv /\ ProcInv /\ InstalledInv
      /\ CodexInv /\ HooksInv /\ NoOrphanWatch
  BY DEF IInv
<1>2. proc[w].pc = "completing" /\ metadataSaveMu = w
  BY <1>1, Goroutines DEF CompletionNotSaved, MutexInv, Holding
<1>3. /\ used'.tools = used.tools
      /\ used'.asks = used.asks
      /\ used'.watches = used.watches
  BY <1>1, <1>2, Types, Used DEF CompletionNotSaved, SaveFails, Goes, Use
<1>4. UNCHANGED <<codex, turn, interrupted, transcript, metadata,
                metadataSaveMu, installed, cancelled, before, after,
                hooks, stored, publishedHook, unread>>
  BY DEF CompletionNotSaved, SaveFails, Goes, codexVars, entryVars, history
<1>5. /\ r \in LocalState(hooks, Len(transcript), turn)
      /\ r.pc = "rollback" /\ r.kind = proc[w].kind
  <2>1. w \in Proc /\ "rollback" \in Locations
    BY Goroutines DEF Locations
  <2> QED
    BY <1>1, <2>1, KeepsRest
<1>6. /\ proc' \in [Proc -> LocalState(hooks', Len(transcript'), turn')]
      /\ proc'[w] = r /\ \A q \in Proc \ {w} : proc'[q] = proc[q]
  <2>1. proc' = [proc EXCEPT ![w] = r]
    BY <1>2 DEF CompletionNotSaved, Goes
  <2> QED
    BY <1>1, <1>3, <1>4, <1>5, <2>1, OneMoves, Goroutines
<1> HIDE DEF r
<1>7. MutexInv'
  BY <1>1, <1>2, <1>3, <1>4, <1>5, <1>6, Types, Goroutines DEF MutexInv, Holding
<1>8. AttentionInv'
  BY <1>1, <1>2, <1>3, <1>4, <1>5, <1>6, Types, Goroutines DEF AttentionInv
<1>9. ProcInv'
  <2>1. /\ used'.watches = used.watches /\ w \in Proc
        /\ UNCHANGED <<installed, after, hooks>>
    BY <1>2, <1>3, <1>4, Goroutines
  <2>2. \A v \in Watch \ {w} : WatchInv(v)'
    BY <1>1, <1>6, <2>1, OthersKeep
  <2>3. WatchInv(w)'
    BY <1>1, <1>2, <1>3, <1>4, <1>5, <1>6, Types, Goroutines DEF ProcInv, WatchInv,
       Idle
  <2> QED
    BY <1>1, <1>2, <1>3, <1>4, <1>5, <1>6, <2>2, <2>3, Goroutines DEF ProcInv
<1>10. InstalledInv'
  <2>1. \A k \in Kind : installed'[k] \in {0, installed[k]} /\ installed'[k] # w
    BY <1>1, <1>2, <1>3, <1>4, Types, Goroutines DEF InstalledInv
  <2> QED
    BY <1>1, <1>2, <1>3, <1>4, <1>5, <1>6, <2>1, InstalledKeep, Goroutines
<1>11. CodexInv' /\ HooksInv'
  <2>1. proc'[Hook].pc = "arrived" <=> proc[Hook].pc = "arrived"
    BY <1>1, <1>2, <1>5, <1>6, Goroutines DEF ProcInv
  <2> QED
    BY <1>1, <1>3, <1>4, <2>1, CodexRests
<1>12. NoOrphanWatch'
  BY <1>1, <1>2, <1>3, <1>4, <1>5, <1>6, Types, Goroutines DEF NoOrphanWatch
<1>13. TypeOK'
  <2>1. used' \in [{"tools", "asks", "interrupts", "acks", "samples",
                   "failures", "watches"} -> Nat]
    BY <1>1, Used DEF CompletionNotSaved, Use, SaveFails
  <2> QED
    BY <1>1, <1>2, <1>3, <1>4, <1>6, <2>1 DEF TypeOK
<1> QED
  BY <1>7, <1>8, <1>9, <1>10, <1>11, <1>12, <1>13 DEF IInv

\* The status comes back with its attention, and a watch that is installed
\* again finds its place empty.
LEMMA RollBackStep ==
    ASSUME IInv, NEW w \in Watch, RollBack(w)
    PROVE  IInv'
<1> DEFINE r == [proc[w] EXCEPT !.pc = "done"]
<1>1. /\ TypeOK /\ MutexInv /\ AttentionInv /\ ProcInv /\ InstalledInv
      /\ CodexInv /\ HooksInv /\ NoOrphanWatch
  BY DEF IInv
<1>2. /\ proc[w].pc = "rollback" /\ metadataSaveMu = w
      /\ proc[w].kind \in {"activity", "interrupt"}
      /\ proc[w].kind \in Kind /\ installed[proc[w].kind] = 0
  BY <1>1, Goroutines DEF RollBack, MutexInv, Holding, ProcInv, WatchInv, Kind
<1>3. /\ metadataSaveMu' = 0
      /\ \/ /\ metadata' = before
            /\ installed' = [installed EXCEPT ![proc[w].kind] = w]
         \/ UNCHANGED <<metadata, installed>>
  BY <1>1, <1>2, Types DEF RollBack, Goes
<1>4. UNCHANGED <<codex, turn, interrupted, transcript, cancelled, before,
                after, hooks, stored, publishedHook, unread, used>>
  BY DEF RollBack, Goes, codexVars, entryVars, history
<1>5. /\ r \in LocalState(hooks, Len(transcript), turn)
      /\ r.pc = "done" /\ r.kind = proc[w].kind /\ r.hook = proc[w].hook
  <2>1. w \in Proc /\ "done" \in Locations
    BY Goroutines DEF Locations
  <2> QED
    BY <1>1, <2>1, KeepsRest
<1>6. /\ proc' \in [Proc -> LocalState(hooks', Len(transcript'), turn')]
      /\ proc'[w] = r /\ \A q \in Proc \ {w} : proc'[q] = proc[q]
  <2>1. proc' = [proc EXCEPT ![w] = r]
    BY <1>2 DEF RollBack, Goes
  <2> QED
    BY <1>1, <1>3, <1>4, <1>5, <2>1, OneMoves, Goroutines
<1> HIDE DEF r
<1>7. MutexInv'
  BY <1>1, <1>2, <1>3, <1>4, <1>5, <1>6, Types, Goroutines DEF MutexInv, Holding
<1>8. AttentionInv'
  BY <1>1, <1>2, <1>3, <1>4, <1>5, <1>6, Types, Goroutines DEF AttentionInv, MutexInv,
     Holding
<1>9. ProcInv'
  <2>1. /\ used'.watches = used.watches /\ w \in Proc
        /\ metadataSaveMu \in {0, w}
    BY <1>2, <1>3, <1>4, Goroutines
  <2>2. \A v \in Watch \ {w} : WatchInv(v)'
    BY <1>1, <1>6, <2>1, OthersKeep
  <2>3. WatchInv(w)'
    BY <1>1, <1>2, <1>3, <1>4, <1>5, <1>6, Types, Goroutines DEF ProcInv, WatchInv,
       Idle, Kind
  <2> QED
    BY <1>1, <1>2, <1>3, <1>4, <1>5, <1>6, <2>2, <2>3, Goroutines DEF ProcInv
<1>10. InstalledInv'
  <2>1. CASE UNCHANGED <<metadata, installed>>
    BY <1>1, <1>2, <1>3, <1>4, <1>5, <1>6, <2>1, InstalledKeep, Goroutines
  <2>2. CASE installed' = [installed EXCEPT ![proc[w].kind] = w]
    <3> SUFFICES ASSUME NEW k \in Kind, installed'[k] # 0
                 PROVE  /\ proc'[installed'[k]].kind = k
                        /\ proc'[installed'[k]].pc \in {"watching", "complete", "done"}
                        /\ k = "blocked" => proc'[installed'[k]].hook = hooks'
      BY DEF InstalledInv
    <3>1. CASE k = proc[w].kind
      <4>1. installed'[k] = w
        BY <1>1, <2>2, <3>1 DEF TypeOK
      <4> QED
        BY <1>2, <1>3, <1>4, <1>5, <1>6, <3>1, <4>1
    <3>2. CASE k # proc[w].kind
      <4>1. installed'[k] = installed[k] /\ installed[k] \in Proc
        BY <1>1, <2>2, <3>2, Types, Goroutines DEF TypeOK
      <4>2. installed[k] # w
        BY <1>1, <1>2, <1>3, <1>4, <3>2, <4>1 DEF InstalledInv
      <4> QED
        BY <1>1, <1>2, <1>3, <1>4, <1>6, <4>1, <4>2 DEF InstalledInv
    <3> QED
      BY <3>1, <3>2
  <2> QED
    BY <1>2, <1>3, <1>4, <2>1, <2>2
<1>11. CodexInv' /\ HooksInv'
  <2>1. proc'[Hook].pc = "arrived" <=> proc[Hook].pc = "arrived"
    BY <1>1, <1>2, <1>5, <1>6, Goroutines DEF ProcInv
  <2> QED
    BY <1>1, <1>3, <1>4, <2>1, CodexRests
<1>12. NoOrphanWatch'
  <2> SUFFICES ASSUME NEW v \in Watch, proc'[v].pc = "watching", v \notin cancelled
               PROVE  installed'[proc'[v].kind] = v
    BY <1>2, <1>3, <1>4 DEF NoOrphanWatch
  <2>1. v # w /\ v \in Proc
    BY <1>5, <1>6, Goroutines
  <2>2. proc'[v] = proc[v] /\ installed[proc[v].kind] = v /\ proc[v].kind # proc[w].kind
    BY <1>1, <1>2, <1>3, <1>4, <1>6, <2>1, Goroutines DEF NoOrphanWatch
  <2>3. proc[v].kind \in Kind
    BY <1>1, <2>2 DEF ProcInv, WatchInv
  <2> QED
    BY <1>1, <1>2, <1>3, <1>4, <2>2, <2>3 DEF TypeOK
<1>13. TypeOK'
  <2>1. installed' \in [Kind -> Watch \cup {0}]
    BY <1>1, <1>2, <1>3 DEF TypeOK
  <2>2. metadataSaveMu' \in Proc \cup {0}
    BY <1>3, Goroutines
  <2> QED
    BY <1>1, <1>2, <1>3, <1>4, <1>6, <2>1, <2>2 DEF TypeOK
<1> QED
  BY <1>7, <1>8, <1>9, <1>10, <1>11, <1>12, <1>13 DEF IInv

\* Codex moves alone, and may append a record.
LEMMA CodexAlone ==
    ASSUME IInv, CodexInv', Working' <= Working,
           codex' \in {"idle", "working", "tool", "asking"}, interrupted' \in BOOLEAN,
           transcript' \in Seq(Record),
           Len(transcript') \in {Len(transcript), Len(transcript) + 1},
           UNCHANGED <<turn, metadata, metadataSaveMu, installed, proc, cancelled,
                       before, after, hooks, stored, publishedHook, unread, used>>
    PROVE  IInv'
<1>1. /\ TypeOK /\ MutexInv /\ AttentionInv /\ ProcInv /\ InstalledInv
      /\ CodexInv /\ HooksInv /\ NoOrphanWatch
  BY DEF IInv
<1>2. MutexInv' /\ AttentionInv' /\ InstalledInv' /\ NoOrphanWatch'
  BY <1>1 DEF MutexInv, AttentionInv, InstalledInv, NoOrphanWatch
<1>3. ProcInv'
  BY <1>1 DEF ProcInv, WatchInv
<1>4. HooksInv'
  <2>1. Arrived' = Arrived /\ Arrived \in Nat /\ Working \in Nat /\ Working' \in Nat
    BY DEF Arrived, Working
  <2>2. hooks' = hooks /\ turn' = turn /\ used' = used
    OBVIOUS
  <2>3. hooks \in Nat /\ turn \in Nat /\ used.tools \in Nat /\ used.asks \in Nat
    BY <1>1, Types
  <2>4. hooks + Arrived' + Working' <= 2 * turn + used.tools + used.asks
    <3> HIDE DEF Arrived, Working
    <3>1. QED
      BY <1>1, <2>1, <2>3 DEF HooksInv
  <2> QED
    BY <1>1, <2>2, <2>4 DEF HooksInv
<1>5. TypeOK'
  <2>1. hooks \in Nat /\ Len(transcript) \in Nat /\ turn \in Nat
    BY <1>1, Types
  <2>2. LocalState(hooks, Len(transcript), turn)
            \subseteq LocalState(hooks, Len(transcript'), turn)
    BY <2>1 DEF LocalState
  <2>3. proc' \in [Proc -> LocalState(hooks', Len(transcript'), turn')]
    BY <1>1, <2>2, Types
  <2> QED
    BY <1>1, <2>3 DEF TypeOK
<1> QED
  BY <1>2, <1>3, <1>4, <1>5, <1>1 DEF IInv

\* The user approves.
LEMMA ApproveStep ==
    ASSUME IInv, Approve
    PROVE  IInv'
<1>1. TypeOK /\ CodexInv
  BY DEF IInv
<1>2. /\ codex = "asking" /\ codex' = "tool"
      /\ UNCHANGED <<turn, interrupted, transcript, metadata, metadataSaveMu,
                     installed, proc, cancelled, before, after, hooks, stored,
                     publishedHook, unread, used>>
  BY DEF Approve, entryVars, history
<1>3. Working' <= Working /\ CodexInv'
  BY <1>1, <1>2 DEF Working, CodexInv
<1>4. interrupted' \in BOOLEAN /\ transcript' \in Seq(Record)
  BY <1>1, <1>2 DEF TypeOK
<1> QED
  BY <1>2, <1>3, <1>4, CodexAlone

\* A tool ends with a record.
LEMMA ToolEndsStep ==
    ASSUME IInv, ToolEnds
    PROVE  IInv'
<1>1. TypeOK /\ CodexInv
  BY DEF IInv
<1>2. /\ codex = "tool" /\ codex' = "working" /\ Records("tool_output", turn)
      /\ UNCHANGED <<turn, interrupted, metadata, metadataSaveMu, installed, proc,
                     cancelled, before, after, hooks, stored, publishedHook,
                     unread, used>>
  BY DEF ToolEnds, entryVars, history
<1>3. turn \in 1..MaxTurns
  BY <1>1, <1>2, Bounds DEF TypeOK, CodexInv
<1>4. /\ transcript' \in Seq(Record) /\ Len(transcript') = Len(transcript) + 1
      /\ \A i \in 1..Len(transcript') : transcript'[i].turn =
             IF i <= Len(transcript) THEN transcript[i].turn ELSE turn
  BY <1>1, <1>2, <1>3, Recorded
<1>5. Working' <= Working /\ CodexInv'
  BY <1>1, <1>2, <1>3, <1>4, Types DEF Working, CodexInv
<1>6. interrupted' \in BOOLEAN
  BY <1>1, <1>2 DEF TypeOK
<1> QED
  BY <1>2, <1>4, <1>5, <1>6, CodexAlone

\* An interrupted turn ends with a record and no hook.
LEMMA AbortStep ==
    ASSUME IInv, Abort
    PROVE  IInv'
<1>1. TypeOK /\ CodexInv
  BY DEF IInv
<1>2. /\ codex # "idle" /\ codex' = "idle" /\ Records("turn_aborted", turn)
      /\ interrupted' = FALSE
      /\ UNCHANGED <<turn, metadata, metadataSaveMu, installed, proc, cancelled,
                     before, after, hooks, stored, publishedHook, unread, used>>
  BY DEF Abort, entryVars, history
<1>3. turn \in 1..MaxTurns
  BY <1>1, <1>2, Bounds DEF TypeOK, CodexInv
<1>4. /\ transcript' \in Seq(Record) /\ Len(transcript') = Len(transcript) + 1
      /\ \A i \in 1..Len(transcript') : transcript'[i].turn =
             IF i <= Len(transcript) THEN transcript[i].turn ELSE turn
  BY <1>1, <1>2, <1>3, Recorded
<1>5. Working' <= Working /\ CodexInv'
  BY <1>1, <1>2, <1>3, <1>4, Types DEF Working, CodexInv
<1> QED
  BY <1>2, <1>4, <1>5, CodexAlone

\* Only the process name changes.
LEMMA UpdateForegroundProcessNameStep ==
    ASSUME IInv, UpdateForegroundProcessName
    PROVE  IInv'
<1>1. /\ TypeOK /\ MutexInv /\ AttentionInv /\ ProcInv /\ InstalledInv
      /\ CodexInv /\ HooksInv /\ NoOrphanWatch
  BY DEF IInv
<1>2. UNCHANGED <<codex, turn, interrupted, transcript, metadataSaveMu, installed,
                  proc, cancelled, before, after, hooks, stored, publishedHook,
                  unread>>
  BY DEF UpdateForegroundProcessName, codexVars, history
<1>3. /\ metadata' \in Metadata
      /\ metadata'.status = metadata.status /\ metadata'.attention = metadata.attention
  <2>1. metadata \in Metadata /\ metadata' = [metadata EXCEPT !.process = 1 - @]
    BY <1>1, Types DEF UpdateForegroundProcessName
  <2> QED
    BY <2>1 DEF Metadata
<1>4. /\ used' \in [{"tools", "asks", "interrupts", "acks", "samples",
                     "failures", "watches"} -> Nat]
      /\ used'.tools = used.tools /\ used'.asks = used.asks
      /\ used'.watches = used.watches
  BY <1>1, Used DEF UpdateForegroundProcessName, Use
<1>5. MutexInv' /\ AttentionInv' /\ InstalledInv' /\ NoOrphanWatch'
  BY <1>1, <1>2, <1>3 DEF MutexInv, AttentionInv, InstalledInv, NoOrphanWatch
<1>6. ProcInv'
  BY <1>1, <1>2, <1>4 DEF ProcInv, WatchInv
<1>7. CodexInv' /\ HooksInv'
  BY <1>1, <1>2, <1>4, CodexRests
<1>8. TypeOK'
  BY <1>1, <1>2, <1>3, <1>4 DEF TypeOK
<1> QED
  BY <1>5, <1>6, <1>7, <1>8 DEF IInv

-----------------------------------------------------------------------------
(* Watches are installed. *)

\* A hook is accepted.
LEMMA HookCounted ==
    ASSUME HooksInv, hooks \in Nat, hooks' \in Nat, turn \in Nat, turn' = turn,
           used.tools \in Nat, used.asks \in Nat,
           used'.tools = used.tools, used'.asks = used.asks,
           Working' = Working, hooks' + Arrived' <= hooks + Arrived
    PROVE  HooksInv'
<1>1. /\ Arrived \in Nat /\ Arrived' \in Nat /\ Working \in Nat
      /\ hooks \in Nat /\ hooks' \in Nat /\ turn \in Nat
      /\ used.tools \in Nat /\ used.asks \in Nat
  BY DEF Arrived, Working
<1>2. hooks + Arrived + Working <= 2 * turn + used.tools + used.asks
  BY DEF HooksInv
<1>3. ASSUME NEW h \in Nat, NEW a \in Nat, NEW i \in Nat, NEW b \in Nat, NEW n \in Nat,
             NEW c \in Nat, h = hooks', a = Arrived', i = hooks, b = Arrived, n = Working,
             c = 2 * turn + used.tools + used.asks
      PROVE  h + a + n <= c
  <2>1. h + a <= i + b
    BY <1>3
  <2>2. i + b + n <= c
    BY <1>2, <1>3
  <2> QED
    BY <2>1, <2>2
<1>4. hooks' + Arrived' + Working <= 2 * turn + used.tools + used.asks
  <2>1. 2 * turn + used.tools + used.asks \in Nat
    BY <1>1
  <2> QED
    BY <1>1, <1>3, <2>1
<1>5. hooks' + Arrived' + Working' <= 2 * turn' + used'.tools + used'.asks
  BY <1>4
<1> QED
  BY <1>5 DEF HooksInv

\* A bound on the hooks.
LEMMA HooksBounded ==
    ASSUME NEW h \in Nat, NEW a \in Nat, NEW n \in Nat, NEW t \in 0..MaxTurns,
           NEW x \in Nat, NEW y \in Nat, x <= MaxTools, y <= MaxAsks,
           h + a + n <= 2 * t + x + y
    PROVE  h \in 0..(MaxTurns * 2 + MaxTools + MaxAsks)
<1>1. h <= 2 * t + x + y /\ 2 * t <= MaxTurns * 2
  BY Bounds
<1> QED
  BY <1>1, Bounds

\* A poller is installed while the status is the one it needs, so that no
\* poller of its kind publishes anything else; a timer is installed by a new
\* hook while nobody publishes, and every older watch is cancelled.
LEMMA WatchStarts ==
    ASSUME IInv, NEW p \in Proc, NEW kind \in Kind, NEW replaced \in SUBSET Kind,
           kind \in replaced,
           NEW local \in LocalState(hooks', Len(transcript), turn),
           StartWatch(p, kind, replaced, local),
           UNCHANGED <<codex, turn, interrupted, transcript, metadata, metadataSaveMu,
                       before, after, stored, publishedHook, unread>>,
           \/ /\ hooks' = hooks /\ kind # "blocked" /\ proc[p].pc = "install"
              /\ metadata.status = Expected(kind)
           \/ /\ hooks' = hooks + 1 /\ kind = "blocked" /\ replaced = Kind
              /\ p = Hook /\ proc[p].pc = "arrived" /\ local.hook = hooks'
              /\ metadataSaveMu = 0
    PROVE  IInv'
<1> DEFINE r == [local EXCEPT !.pc = "watching", !.kind = kind]
<1>0. PICK w \in Watch : w = used.watches + 1
  BY DEF StartWatch
<1>1. /\ TypeOK /\ MutexInv /\ AttentionInv /\ ProcInv /\ InstalledInv
      /\ CodexInv /\ HooksInv /\ NoOrphanWatch
  BY DEF IInv
<1>2. /\ w \in Watch /\ w \in Proc /\ w \in Nat /\ w > used.watches
      /\ cancelled' = cancelled \cup ({installed[k] : k \in replaced} \ {0})
      /\ installed' = [k \in Kind |-> IF k = kind THEN w
                                      ELSE IF k \in replaced THEN 0 ELSE installed[k]]
  BY <1>0, <1>1, Types, Goroutines DEF StartWatch, CancelInstalled
<1>3. /\ used' \in [{"tools", "asks", "interrupts", "acks", "samples",
                     "failures", "watches"} -> Nat]
      /\ used'.tools = used.tools /\ used'.asks = used.asks /\ used'.watches = w
  BY <1>0, <1>1, <1>2 DEF StartWatch, TypeOK
<1>4. proc[w] = Idle /\ Idle.pc = "idle" /\ w # p
  <2>1. proc[w] = Idle
    BY <1>1, <1>2 DEF ProcInv, WatchInv
  <2>2. Idle.pc = "idle"
    BY DEF Idle
  <2> QED
    BY <2>1, <2>2
<1>5. /\ r \in LocalState(hooks', Len(transcript'), turn')
      /\ r.pc = "watching" /\ r.kind = kind /\ r.hook = local.hook
  BY DEF LocalState, Locations
<1>6. /\ proc' \in [Proc -> LocalState(hooks', Len(transcript'), turn')]
      /\ proc'[p] = Idle /\ proc'[w] = r
      /\ \A q \in Proc \ {p, w} : proc'[q] = proc[q]
  <2>1. proc' = [proc EXCEPT ![p] = Idle, ![w] = r]
    BY <1>0 DEF StartWatch
  <2>2. hooks \in Nat /\ Len(transcript) \in Nat /\ turn \in Nat /\ hooks' \in Nat
    BY <1>1, Types
  <2>3. /\ LocalState(hooks, Len(transcript), turn)
               \subseteq LocalState(hooks', Len(transcript), turn)
        /\ Idle \in LocalState(hooks', Len(transcript), turn)
    BY <2>2, IdleTyped DEF LocalState
  <2> HIDE DEF r
  <2>4. proc \in [Proc -> LocalState(hooks, Len(transcript), turn)]
    BY <1>1, Types
  <2> QED
    BY <1>2, <1>4, <1>5, <2>1, <2>3, <2>4
<1> HIDE DEF r
<1>7. proc[p].pc \in {"install", "arrived"}
  OBVIOUS
<1>8. MutexInv'
  BY <1>1, <1>2, <1>4, <1>5, <1>6, <1>7 DEF MutexInv, Holding
<1>9. AttentionInv'
  BY <1>1, <1>2, <1>4, <1>5, <1>6 DEF AttentionInv
<1>10. ProcInv'
  <2>1. WatchInv(w)'
    <3>1. proc'[w].pc = "watching" /\ proc'[w].kind \in Kind
      BY <1>5, <1>6
    <3>2. ~(w > used'.watches)
      BY <1>2, <1>3
    <3> QED
      BY <3>1, <3>2 DEF WatchInv
  <2>4. p \in Watch => WatchInv(p)'
    <3>1. proc'[p] = Idle /\ proc'[p].pc = "idle"
      BY <1>4, <1>6
    <3> QED
      BY <3>1 DEF WatchInv
  <2>2. ASSUME NEW v \in Watch \ {p, w}
        PROVE  WatchInv(v)'
    <3>1. v \in Nat /\ v \in Proc /\ proc'[v] = proc[v] /\ WatchInv(v)
      BY <1>1, <1>6, Goroutines DEF ProcInv
    <3>2. v > used'.watches => proc'[v] = Idle
      BY <1>1, <1>2, <1>3, <3>1, Types DEF WatchInv
    <3>3. proc[v].pc \in Holding => metadataSaveMu # 0 /\ hooks' = hooks
      BY <1>1, <3>1, Goroutines DEF MutexInv
    <3>4. ASSUME proc[v].pc \in {"completing", "rollback"}
          PROVE  installed'[proc[v].kind] = 0
      <4>1. /\ proc[v].kind \in Kind /\ installed[proc[v].kind] = 0
            /\ after.status # Expected(proc[v].kind)
        BY <3>1, <3>4 DEF WatchInv, Kind
      <4>2. metadata.status = after.status /\ metadata.status = Expected(kind)
        BY <1>1, <3>1, <3>3, <3>4 DEF MutexInv, Holding
      <4> QED
        BY <1>2, <4>1, <4>2
    <3> QED
      BY <3>1, <3>2, <3>3, <3>4 DEF WatchInv, Holding
  <2>3. /\ proc'[Hook] \in {proc[Hook], Idle} /\ proc'[Viewer] \in {proc[Viewer], Idle}
        /\ proc'[Writer] \in {proc[Writer], Idle}
    BY <1>2, <1>6, Goroutines
  <2>5. \A v \in Watch : WatchInv(v)'
    BY <2>1, <2>2, <2>4
  <2>6. /\ proc'[Hook].pc \in {proc[Hook].pc, "idle"}
        /\ proc'[Hook].pc = "arrived" => proc'[Hook].status = proc[Hook].status
        /\ proc'[Viewer].pc \in {proc[Viewer].pc, "idle"}
        /\ proc'[Writer].pc \in {proc[Writer].pc, "idle"}
    BY <1>4, <2>3
  <2> QED
    BY <1>1, <2>5, <2>6 DEF ProcInv
<1>11. InstalledInv'
  <2> SUFFICES ASSUME NEW k \in Kind, installed'[k] # 0
               PROVE  /\ proc'[installed'[k]].kind = k
                      /\ proc'[installed'[k]].pc \in {"watching", "complete", "done"}
                      /\ k = "blocked" => proc'[installed'[k]].hook = hooks'
    BY DEF InstalledInv
  <2>1. CASE k = kind
    BY <1>2, <1>5, <1>6, <2>1
  <2>2. CASE k # kind
    <3>1. installed'[k] = installed[k] /\ k \notin replaced
      BY <1>2, <2>2
    <3>2. /\ installed[k] \in Proc /\ proc[installed[k]].kind = k
          /\ proc[installed[k]].pc \in {"watching", "complete", "done"}
          /\ k = "blocked" => proc[installed[k]].hook = hooks
      BY <1>1, <3>1, Types, Goroutines DEF InstalledInv
    <3>3. installed[k] # p /\ installed[k] # w /\ hooks' = hooks
      BY <1>4, <1>7, <3>1, <3>2
    <3> QED
      BY <1>6, <3>1, <3>2, <3>3
  <2> QED
    BY <2>1, <2>2
<1>12. CodexInv'
  BY <1>1 DEF CodexInv
<1>13. HooksInv'
  <2>1. Working' = Working /\ Arrived \in Nat /\ Arrived' \in Nat /\ Working \in Nat
    BY DEF Arrived, Working
  <2>2. hooks' + Arrived' <= hooks + Arrived
    <3>1. CASE p = Hook
      BY <1>1, <1>4, <1>6, <3>1, Types DEF Arrived
    <3>2. CASE p # Hook
      <4>1. proc'[Hook] = proc[Hook] /\ hooks' = hooks
        BY <1>2, <1>6, <3>2, Goroutines
      <4> QED
        BY <1>1, <4>1, Types DEF Arrived
    <3> QED
      BY <3>1, <3>2
  <2>3. hooks \in Nat /\ hooks' \in Nat /\ turn \in Nat /\ turn' = turn
    BY <1>1, Types
  <2>4. used.tools \in Nat /\ used.asks \in Nat
    BY <1>1, Types
  <2>5. used'.tools = used.tools /\ used'.asks = used.asks
    BY <1>3
  <2> QED
    BY <1>1, <2>1, <2>2, <2>3, <2>4, <2>5, HookCounted
<1>14. NoOrphanWatch'
  <2> SUFFICES ASSUME NEW v \in Watch, proc'[v].pc = "watching", v \notin cancelled'
               PROVE  installed'[proc'[v].kind] = v
    BY DEF NoOrphanWatch
  <2>1. CASE v = w
    BY <1>2, <1>5, <1>6, <2>1
  <2>2. CASE v # w
    <3>1. v # p /\ v \in Proc /\ v # 0
      BY <1>4, <1>6, Goroutines
    <3>2. proc'[v] = proc[v] /\ proc[v].pc = "watching" /\ v \notin cancelled
      BY <1>2, <1>6, <2>2, <3>1
    <3>3. installed[proc[v].kind] = v /\ proc[v].kind \in Kind
      BY <1>1, <3>2 DEF NoOrphanWatch, ProcInv, WatchInv
    <3>4. proc[v].kind \notin replaced
      BY <1>2, <3>1, <3>3
    <3> QED
      BY <1>2, <3>2, <3>3, <3>4
  <2> QED
    BY <2>1, <2>2
<1>15. TypeOK'
  <2>1. installed' \in [Kind -> Watch \cup {0}]
    BY <1>1, <1>2 DEF TypeOK
  <2>2. cancelled' \subseteq Watch
    BY <1>1, <1>2, Types DEF TypeOK
  <2>3. hooks' \in 0..(MaxTurns * 2 + MaxTools + MaxAsks)
    <3>1. Arrived' \in Nat /\ Working' \in Nat
      BY DEF Arrived, Working
    <3>2. /\ hooks' \in Nat /\ turn' \in 0..MaxTurns
          /\ used'.tools \in Nat /\ used'.asks \in Nat
      BY <1>1, <1>3, Types DEF TypeOK
    <3>3. /\ hooks' + Arrived' + Working' <= 2 * turn' + used'.tools + used'.asks
          /\ used'.tools <= MaxTools /\ used'.asks <= MaxAsks
      BY <1>13 DEF HooksInv
    <3> QED
      BY <3>1, <3>2, <3>3, HooksBounded
  <2>4. publishedHook' \in 0..hooks'
    BY <1>1, <2>3, Types DEF TypeOK
  <2> QED
    BY <1>1, <1>3, <1>6, <2>1, <2>2, <2>3, <2>4 DEF TypeOK
<1> QED
  BY <1>8, <1>9, <1>10, <1>11, <1>12, <1>13, <1>14, <1>15 DEF IInv

\* A permission request starts the timer and forgets every other watch.
LEMMA DeferBlockedStatusStep ==
    ASSUME IInv, DeferBlockedStatus
    PROVE  IInv'
<1> DEFINE local == [Idle EXCEPT !.hook = hooks + 1]
<1>1. TypeOK
  BY DEF IInv
<1>2. /\ proc[Hook].pc = "arrived" /\ metadataSaveMu = 0 /\ hooks' = hooks + 1
      /\ StartWatch(Hook, "blocked", Kind, local)
  BY DEF DeferBlockedStatus
<1>3. UNCHANGED <<codex, turn, interrupted, transcript, metadata, metadataSaveMu,
                  before, after, stored, publishedHook, unread>>
  BY DEF DeferBlockedStatus, codexVars, history
<1>4. local \in LocalState(hooks', Len(transcript), turn) /\ local.hook = hooks'
  <2>1. hooks \in Nat /\ Len(transcript) \in Nat /\ turn \in Nat /\ hooks' \in 0..hooks'
    BY <1>1, <1>2, Types
  <2> QED
    BY <1>2, <2>1 DEF LocalState, Idle, Locations
<1>5. "blocked" \in Kind
  BY DEF Kind
<1> HIDE DEF local
<1> QED
  BY <1>2, <1>3, <1>4, <1>5, WatchStarts, Goroutines

\* A blocked status that was saved starts the activity poller.
LEMMA WatchCodexActivityStep ==
    ASSUME IInv, NEW p \in Proc, WatchCodexActivity(p), metadata.status = "blocked"
    PROVE  IInv'
<1> DEFINE local == [Idle EXCEPT !.offset = proc[p].offset]
<1>1. TypeOK
  BY DEF IInv
<1>2. /\ proc[p].pc = "install" /\ StartWatch(p, "activity", {"activity"}, local)
      /\ UNCHANGED hooks
  BY DEF WatchCodexActivity
<1>3. UNCHANGED <<codex, turn, interrupted, transcript, metadata, metadataSaveMu,
                  before, after, stored, publishedHook, unread>>
  BY DEF WatchCodexActivity, codexVars, history
<1>4. local \in LocalState(hooks', Len(transcript), turn)
  <2>1. /\ hooks \in Nat /\ Len(transcript) \in Nat /\ turn \in Nat
        /\ proc[p] \in LocalState(hooks, Len(transcript), turn)
    BY <1>1, Types
  <2> QED
    BY <1>2, <2>1 DEF LocalState, Idle, Locations
<1>5. "activity" \in Kind /\ metadata.status = Expected("activity")
  BY DEF Kind, Expected
<1> HIDE DEF local
<1> QED
  BY <1>2, <1>3, <1>4, <1>5, WatchStarts

\* A Ctrl-C that was written starts the abort poller.
LEMMA WatchAgentInterruptStep ==
    ASSUME IInv, WatchAgentInterrupt, metadata.status = "running"
    PROVE  IInv'
<1>1. TypeOK
  BY DEF IInv
<1>2. /\ proc[Writer].pc = "install" /\ UNCHANGED hooks
      /\ StartWatch(Writer, "interrupt", {"interrupt"}, proc[Writer])
  BY DEF WatchAgentInterrupt
<1>3. UNCHANGED <<codex, turn, interrupted, transcript, metadata, metadataSaveMu,
                  before, after, stored, publishedHook, unread>>
  BY DEF WatchAgentInterrupt, codexVars, history
<1>4. proc[Writer] \in LocalState(hooks', Len(transcript), turn)
  BY <1>1, <1>2, Types, Goroutines
<1>5. "interrupt" \in Kind /\ metadata.status = Expected("interrupt")
  BY DEF Kind, Expected
<1> QED
  BY <1>2, <1>3, <1>4, <1>5, WatchStarts, Goroutines

\* The status is not the one the watch needs any more.
LEMMA NoWatchStep ==
    ASSUME IInv, NEW p \in Proc, proc[p].pc = "install", proc' = [proc EXCEPT ![p] = Idle],
           UNCHANGED <<codex, turn, interrupted, transcript, metadata, metadataSaveMu,
                       installed, cancelled, before, after, hooks, stored, publishedHook,
                       unread, used>>
    PROVE  IInv'
<1>1. /\ TypeOK /\ MutexInv /\ AttentionInv /\ ProcInv /\ InstalledInv
      /\ CodexInv /\ HooksInv /\ NoOrphanWatch
  BY DEF IInv
<1>2. Idle \in LocalState(hooks, Len(transcript), turn) /\ Idle.pc = "idle"
  BY <1>1, Types, IdleTyped DEF Idle
<1>3. /\ proc' \in [Proc -> LocalState(hooks', Len(transcript'), turn')]
      /\ proc'[p] = Idle /\ \A q \in Proc \ {p} : proc'[q] = proc[q]
  BY <1>1, <1>2, OneMoves
<1>4. MutexInv' /\ AttentionInv' /\ NoOrphanWatch'
  BY <1>1, <1>2, <1>3, Goroutines DEF MutexInv, AttentionInv, NoOrphanWatch, Holding
<1>5. ProcInv'
  <2>1. \A v \in Watch \ {p} : WatchInv(v)'
    BY <1>1, <1>3, OthersKeep
  <2>2. p \in Watch => WatchInv(p)'
    BY <1>2, <1>3 DEF WatchInv
  <2> QED
    BY <1>1, <1>2, <1>3, <2>1, <2>2, Goroutines DEF ProcInv
<1>6. InstalledInv'
  <2>1. \A k \in Kind : installed'[k] \in {0, installed[k]} /\ installed'[k] # p
    BY <1>1, Types, Goroutines DEF InstalledInv
  <2> QED
    BY <1>1, <1>3, <2>1, InstalledKeep
<1>7. CodexInv' /\ HooksInv'
  <2>1. proc'[Hook].pc = "arrived" <=> proc[Hook].pc = "arrived"
    BY <1>2, <1>3, Goroutines
  <2> QED
    BY <1>1, <2>1, CodexRests
<1>8. TypeOK'
  BY <1>1, <1>3 DEF TypeOK
<1> QED
  BY <1>4, <1>5, <1>6, <1>7, <1>8 DEF IInv

-----------------------------------------------------------------------------
(* Theorems *)

\* The invariant holds of a session that has just started.
LEMMA IInvInitially == Init => IInv
<1> SUFFICES ASSUME Init
             PROVE  IInv
  OBVIOUS
<1>1. /\ \A p \in Proc : proc[p] = Idle
      /\ Idle.pc = "idle" /\ metadataSaveMu = 0 /\ used.watches = 0
      /\ \A k \in Kind : installed[k] = 0
  BY DEF Init, Idle
<1>2. MutexInv /\ AttentionInv /\ InstalledInv /\ NoOrphanWatch
  BY <1>1, Goroutines DEF Init, MutexInv, AttentionInv, InstalledInv, NoOrphanWatch,
     Holding
<1>3. ProcInv
  BY <1>1, Goroutines DEF ProcInv, WatchInv
<1>4. CodexInv /\ HooksInv
  BY <1>1, Goroutines, Bounds DEF Init, CodexInv, HooksInv, Arrived, Working
<1>5. TypeOK
  <2>1. proc \in [Proc -> LocalState(hooks, Len(transcript), turn)]
    BY IdleTyped DEF Init
  <2>2. metadata \in Metadata /\ before \in Metadata /\ after \in Metadata
    BY DEF Init, Metadata, Status
  <2>3. transcript \in Seq(Record) /\ turn \in 0..MaxTurns
    BY Bounds DEF Init
  <2>4. /\ hooks \in 0..(MaxTurns * 2 + MaxTools + MaxAsks)
        /\ publishedHook \in 0..hooks
    BY Bounds DEF Init
  <2>5. /\ stored \in [status : Status, attention : BOOLEAN]
        /\ installed \in [Kind -> Watch \cup {0}]
    BY DEF Init, Status
  <2>6. used \in [{"tools", "asks", "interrupts", "acks", "samples", "failures",
                   "watches"} -> Nat]
    BY DEF Init
  <2> QED
    BY <2>1, <2>2, <2>3, <2>4, <2>5, <2>6 DEF Init, TypeOK
<1> QED
  BY <1>2, <1>3, <1>4, <1>5 DEF IInv

\* The rest of an update, whoever carries it out.
LEMMA UpdateStep ==
    ASSUME IInv, NEW p \in Proc, Update(p)
    PROVE  IInv'
<1>1. CASE StatTranscript(p) \/ UpdateSaved(p) \/ UpdateNotSaved(p)
  BY <1>1, StatTranscriptStep, UpdateSavedStep, UpdateNotSavedStep
<1>2. CASE WatchCodexActivity(p) /\ metadata.status = "blocked"
  BY <1>2, WatchCodexActivityStep
<1>3. CASE WatchCodexActivity(p) /\ metadata.status # "blocked"
  BY <1>3, NoWatchStep DEF WatchCodexActivity, Ends, codexVars, history
<1> QED
  BY <1>1, <1>2, <1>3 DEF Update

\* Every step keeps the invariant.
LEMMA IInvStep == IInv /\ [Next]_vars => IInv'
<1> SUFFICES ASSUME IInv, [Next]_vars
             PROVE  IInv'
  OBVIOUS
<1>1. CASE UserPromptSubmit \/ PreToolUse \/ PermissionRequest \/ Approve
  BY <1>1, UserPromptSubmitStep, PreToolUseStep, PermissionRequestStep, ApproveStep
<1>2. CASE CodexProceeds
  BY <1>2, ToolEndsStep, StopStep, AbortStep DEF CodexProceeds
<1>3. CASE UpdateAgent
  BY <1>3, DeferBlockedStatusStep, ApplyHookStep, UpdateStep, Goroutines DEF UpdateAgent
<1>4. CASE AcknowledgeAttention \/ UpdateSaved(Viewer) \/ UpdateNotSaved(Viewer)
  BY <1>4, AcknowledgeAttentionStep, UpdateSavedStep, UpdateNotSavedStep, Goroutines
<1>5. CASE UpdateForegroundProcessName
  BY <1>5, UpdateForegroundProcessNameStep
<1>6. CASE WriteTerminal
  <2>1. CASE PressCtrlC \/ WriteInput
    BY <2>1, PressCtrlCStep, WriteInputStep
  <2>2. CASE WatchAgentInterrupt /\ metadata.status = "running"
    BY <2>2, WatchAgentInterruptStep
  <2>3. CASE WatchAgentInterrupt /\ metadata.status # "running"
    BY <2>3, NoWatchStep, Goroutines DEF WatchAgentInterrupt, Ends, codexVars, history
  <2> QED
    BY <1>6, <2>1, <2>2, <2>3 DEF WriteTerminal
<1>7. CASE \E w \in Watch : WatchRuns(w)
  <2> SUFFICES ASSUME NEW w \in Watch, WatchRuns(w)
               PROVE  IInv'
    BY <1>7
  <2>1. CASE Due(w) \/ SeesCancel(w) \/ StandDown(w)
    BY <2>1, DueStep, SeesCancelStep, StandDownStep
  <2>2. CASE ConfirmBlocked(w) \/ PublishBlocked(w)
    BY <2>2, ConfirmBlockedStep, PublishBlockedStep
  <2>3. CASE Update(w)
    BY <2>3, UpdateStep, Goroutines
  <2>4. CASE CompleteFromTranscript(w) \/ CompletionSaved(w)
    BY <2>4, CompleteFromTranscriptStep, CompletionSavedStep
  <2>5. CASE CompletionNotSaved(w) \/ RollBack(w)
    BY <2>5, CompletionNotSavedStep, RollBackStep
  <2> QED
    BY <2>1, <2>2, <2>3, <2>4, <2>5 DEF WatchRuns
<1>8. CASE UNCHANGED vars
  BY <1>8 DEF vars, codexVars, entryVars, history, IInv, TypeOK, MutexInv, AttentionInv,
     ProcInv, WatchInv, InstalledInv, CodexInv, HooksInv, Arrived, Working, NoOrphanWatch
<1> QED
  BY <1>1, <1>2, <1>3, <1>4, <1>5, <1>6, <1>7, <1>8 DEF Next

\* The mutex has one owner, whose status and attention stay published until it
\* releases it; pollers, timers and the entry agree on what is installed; and
\* the hooks are counted.
THEOREM IInvAlways == SafetySpec => []IInv
BY IInvInitially, IInvStep, PTL DEF SafetySpec

\* The types hold, and attention that was saved is shown until somebody
\* acknowledges it, whatever hooks, pollers and rollbacks do.
THEOREM AttentionIsKept == SafetySpec => []StatusInv
<1>1. IInv => StatusInv
  BY DEF IInv, StatusInv, AttentionInv, UnreadKeepsAttention
<1> QED
  BY <1>1, IInvAlways, PTL

\* No timer or poller runs that the entry has forgotten.
THEOREM NoWatchIsForgotten == SafetySpec => []NoOrphanWatch
<1>1. IInv => NoOrphanWatch
  BY DEF IInv
<1> QED
  BY <1>1, IInvAlways, PTL

\* A hook is published only while no later one has been accepted.
THEOREM NewestHookWins == SafetySpec => LatestHookWins
<1>1. IInv /\ [Next]_vars => [publishedHook' # publishedHook => publishedHook' = hooks']_vars
  <2> SUFFICES ASSUME IInv, Next, publishedHook' # publishedHook
               PROVE  publishedHook' = hooks'
    OBVIOUS
  <2>1. CASE ApplyHook
    BY <2>1 DEF ApplyHook, ApplyAgentUpdate
  <2>2. CASE \E w \in Watch : PublishBlocked(w)
    <3> SUFFICES ASSUME NEW w \in Watch, PublishBlocked(w)
                 PROVE  publishedHook' = hooks'
      BY <2>2
    <3>1. proc[w].pc = "apply" /\ publishedHook' = proc[w].hook /\ hooks' = hooks
      BY DEF PublishBlocked, ApplyAgentUpdate
    <3> QED
      BY <3>1 DEF IInv, ProcInv, WatchInv
  <2>3. ASSUME ~ApplyHook, ~\E w \in Watch : PublishBlocked(w)
        PROVE  UNCHANGED publishedHook
    <3>1. ASSUME NEW p, Update(p)
          PROVE  UNCHANGED publishedHook
      BY <3>1 DEF Update, StatTranscript, UpdateSaved, UpdateNotSaved, WatchCodexActivity,
         history
    <3>2. ASSUME NEW w \in Watch, WatchRuns(w), ~PublishBlocked(w)
          PROVE  UNCHANGED publishedHook
      BY <3>1, <3>2 DEF WatchRuns, Due, SeesCancel, StandDown, ConfirmBlocked,
         CompleteFromTranscript, CompletionSaved, CompletionNotSaved, RollBack, history
    <3>3. ASSUME \/ UserPromptSubmit \/ PreToolUse \/ PermissionRequest \/ Approve
                 \/ CodexProceeds \/ WriteTerminal
          PROVE  UNCHANGED publishedHook
      BY <3>3 DEF UserPromptSubmit, PreToolUse, PermissionRequest, Approve, CodexProceeds,
         ToolEnds, Stop, Abort, WriteTerminal, PressCtrlC, WriteInput, WatchAgentInterrupt,
         history
    <3>4. ASSUME \/ AcknowledgeAttention \/ UpdateSaved(Viewer) \/ UpdateNotSaved(Viewer)
                 \/ UpdateForegroundProcessName \/ DeferBlockedStatus
          PROVE  UNCHANGED publishedHook
      BY <3>4 DEF AcknowledgeAttention, UpdateSaved, UpdateNotSaved,
         UpdateForegroundProcessName, DeferBlockedStatus, history
    <3> QED
      BY <2>3, <3>1, <3>2, <3>3, <3>4 DEF Next, UpdateAgent
  <2> QED
    BY <2>1, <2>2, <2>3
<1> QED
  BY <1>1, IInvAlways, PTL DEF SafetySpec, LatestHookWins
=============================================================================
