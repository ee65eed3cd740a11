----------------------------- MODULE AgentInbox -----------------------------
(* The agent summaries a browser shows: web/src/App.tsx keeps a list of them  *)
(* that four sources feed - full loads over HTTP, the event stream, the       *)
(* answers to its own requests, and the optimistic Done of AgentsView - and   *)
(* that no poll repairs.  The server's side is internal/server/               *)
(* agent_summaries.go, the Manager's summary operations and the event hub.    *)
(* A summary is its generation time and its two flags; whether its action     *)
(* changed is a choice, the text, the provider and the priority are left out. *)
EXTENDS Naturals, Sequences, FiniteSets, SequencesExt

CONSTANTS
    Terminals,
    None,          \* no summary, no load
    MaxClock,      \* bound: generations and deletions at the server
    QueueLimit,    \* events the hub keeps for a subscriber
    MaxBreaks,     \* bound: broken streams and failed requests
    MaxClicks      \* bound: requests of the user

Kinds == {"read", "done", "option"}
Summary == [gen : 1..MaxClock, unread : BOOLEAN, done : BOOLEAN]
Lagged == [type |-> "subscriber_lagged"]

\* A load of the list, with what happened to it since it began.
Load == [phase : {"asked", "answered"}, moved : SUBSET Terminals,
         items : [Terminals -> Summary \cup {None}], since : SUBSET Terminals]

ASSUME InboxAssumption ==
    /\ MaxClock \in Nat /\ QueueLimit \in Nat \ {0}
    /\ MaxBreaks \in Nat /\ MaxClicks \in Nat
    /\ None \notin Terminals /\ None \notin Summary /\ None \notin Load

VARIABLES
    active,      \* the terminals whose agent is running, waiting or blocked
    ended,       \* an agent of the terminal ended, its summary is to be removed
    summary,     \* the server's summaries
    clock,       \* the server's clock, one tick per generation or deletion
    stream,      \* events published to this browser and not yet handled
    subscribed,  \* the hub has this browser's subscriber
    loop,        \* where consume stands
    needs,       \* refreshNeedsAgentSummaries
    background,  \* the refresh an event started, which holds refreshRunning
    shown,       \* agentSummaries
    deletedAt,   \* agentSummaryDeletedAtRef, 0 for no entry
    optimistic,  \* AgentsView's optimisticDoneAt, 0 for no entry
    load,        \* agentSummariesInFlightRef
    loaded,      \* agentSummariesLoadedForApiRef is this API
    requests,    \* the user's requests in flight
    missed,      \* history: terminals with a change no event or load brought
    breaks, clicks

server == <<active, ended, summary, clock>>
link == <<stream, subscribed>>
listening == <<loop, needs, background>>
cache == <<shown, deletedAt>>
inboxVars == <<server, link, listening, cache, optimistic, load, loaded, requests,
          missed, breaks, clicks>>

---------------------------------------------------------------------------
(* The server. *)

\* listAgentSummaries: summaries of terminals whose agent is active.
Listed == [t \in Terminals |-> IF t \in active THEN summary[t] ELSE None]

\* eventHub.publish for this subscriber: a full queue is replaced by one
\* subscriber_lagged record and the subscriber is removed.  The history
\* variable collects what will not arrive.
Publish(t, event) ==
    LET full == Len(stream) = QueueLimit
        lost == IF ~subscribed THEN {t}
                ELSE IF full THEN {t} \cup {e.id : e \in ToSet(stream)}
                ELSE {}
    IN  /\ stream' = IF ~subscribed THEN stream
                     ELSE IF full THEN <<Lagged>> ELSE Append(stream, event)
        /\ subscribed' = (subscribed /\ ~full)
        /\ missed' = missed \cup lost
        /\ load' = IF load # None /\ load.phase = "answered"
                   THEN [load EXCEPT !.since = @ \cup lost] ELSE load

Updated(t, s) == [type |-> "updated", id |-> t, data |-> s, at |-> clock]

\* generate and saveResult: a new or changed action makes the summary unread and
\* not done, an unchanged one keeps both flags.
Generate(t, changed) ==
    /\ t \in active /\ clock < MaxClock
    /\ clock' = clock + 1
    /\ LET old == summary[t]
           new == IF changed \/ old = None
                  THEN [gen |-> clock + 1, unread |-> TRUE, done |-> FALSE]
                  ELSE [old EXCEPT !.gen = clock + 1]
       IN  summary' = [summary EXCEPT ![t] = new] /\ Publish(t, Updated(t, new))
    /\ UNCHANGED <<active, ended, listening, cache, optimistic, loaded, requests,
                   breaks, clicks>>

\* The agent of t ends or begins a turn: agent.updated reaches the browser,
\* whose handler refreshes the sessions only.
AgentEnds(t) ==
    /\ t \in active /\ clock < MaxClock
    /\ active' = active \ {t} /\ ended' = ended \cup {t}
    /\ Publish(t, [type |-> "agent.updated", id |-> t])
    /\ UNCHANGED <<summary, clock, listening, cache, optimistic, loaded,
                   requests, breaks, clicks>>

AgentBegins(t) ==
    /\ t \notin active
    /\ active' = active \cup {t}
    /\ Publish(t, [type |-> "agent.updated", id |-> t])
    /\ UNCHANGED <<ended, summary, clock, listening, cache, optimistic, loaded,
                   requests, breaks, clicks>>

\* handleEvent of the summary service, which hears of the end of an agent later
\* than the list does, perhaps when the next one runs.
DeleteSummary(t) ==
    /\ t \in ended /\ clock < MaxClock
    /\ ended' = ended \ {t}
    /\ clock' = clock + 1
    /\ summary' = [summary EXCEPT ![t] = None]
    /\ Publish(t, [type |-> "deleted", id |-> t, at |-> clock + 1])
    /\ UNCHANGED <<active, listening, cache, optimistic, loaded, requests, breaks, clicks>>

---------------------------------------------------------------------------
(* The list of summaries in the browser. *)

\* Fault: a load in flight is not told that the item was touched.
BumpNoLoad(t, others) == requests' = others /\ UNCHANGED load

\* bumpAgentSummaryRevision: a load and an option remember the revisions they
\* began with and only ask whether a terminal's has moved since, so they carry
\* that answer in place of the counters.
Bump(t, others) ==
    /\ load' = IF load = None THEN None ELSE [load EXCEPT !.moved = @ \cup {t}]
    /\ requests' = {IF r.id = t /\ r.kind = "option" THEN [r EXCEPT !.moved = TRUE] ELSE r :
                    r \in others}

\* Fault: a load does not look at what was deleted.
MergedAfterAll(t, item, moved) ==
    IF item = None THEN IF moved THEN shown[t] ELSE None
    ELSE IF shown[t] # None /\ moved THEN shown[t]
    ELSE item

\* One terminal of applyAgentSummarySnapshot.
Merged(t, item, moved) ==
    IF item = None
    THEN IF deletedAt[t] = 0 /\ moved THEN shown[t] ELSE None
    ELSE IF deletedAt[t] # 0 /\ item.gen <= deletedAt[t] THEN None
    ELSE IF shown[t] # None /\ moved THEN shown[t]
    ELSE item

\* loadAgentSummaries, as it calls the server.
NewLoad == [phase |-> "asked", moved |-> {},
            items |-> [t \in Terminals |-> None], since |-> {}]

\* The effect that loads the summaries runs again, with each change of the
\* sessions, until a load has succeeded.
LoadAgain ==
    /\ ~loaded /\ load = None
    /\ load' = NewLoad
    /\ UNCHANGED <<server, link, listening, cache, optimistic, loaded, requests,
                   missed, breaks, clicks>>

ServerLists ==
    /\ load # None /\ load.phase = "asked"
    /\ load' = [load EXCEPT !.phase = "answered", !.items = Listed]
    /\ UNCHANGED <<server, link, listening, cache, optimistic, loaded, requests,
                   missed, breaks, clicks>>

\* Fault: the loop goes on waiting.
LoadEndsAlone ==
    /\ background' = IF background = "load" THEN "no" ELSE background
    /\ UNCHANGED loop

\* The refreshes that awaited the load go on.
LoadEnds ==
    /\ loop' = IF loop = "load" THEN "subscribe" ELSE loop
    /\ background' = IF background = "load" THEN "no" ELSE background

\* applyAgentSummarySnapshot and the end of the request.  A change is made up
\* for when the list was read after it and nothing else touched the item.
ApplyLoad ==
    /\ load # None /\ load.phase = "answered"
    /\ shown' = [t \in Terminals |-> Merged(t, load.items[t], t \in load.moved)]
    /\ deletedAt' = [t \in Terminals |->
                        IF load.items[t] # None /\ load.items[t].gen > deletedAt[t]
                        THEN 0 ELSE deletedAt[t]]
    /\ missed' = missed \cap (load.since \cup load.moved)
    /\ loaded' = TRUE
    /\ load' = None
    /\ LoadEnds
    /\ UNCHANGED <<server, link, needs, optimistic, requests,
                   breaks, clicks>>

LoadFails ==
    /\ load # None /\ breaks < MaxBreaks
    /\ breaks' = breaks + 1
    /\ load' = None
    /\ LoadEnds
    /\ UNCHANGED <<server, link, needs, cache, optimistic,
                   loaded, requests, missed, clicks>>

---------------------------------------------------------------------------
(* consume and refreshSnapshots: refresh, subscribe, listen, wait. *)

\* refreshSnapshots asks for sessions and selection, unless a refresh started
\* by an event is still running: then it returns at once.
Refresh ==
    /\ loop = "refresh"
    /\ loop' = IF background # "no" THEN "subscribe" ELSE "asked"
    /\ needs' = (background # "no" \/ needs)
    /\ UNCHANGED <<server, link, background, cache, optimistic, load, loaded,
                   requests, missed, breaks, clicks>>

\* The sessions are there.  A forced load first waits for the load in flight.
Refreshed ==
    /\ loop = "asked"
    /\ loop' = IF ~needs THEN "subscribe" ELSE IF load = None THEN "load" ELSE "join"
    /\ load' = IF needs /\ load = None THEN NewLoad ELSE load
    /\ needs' = TRUE
    /\ UNCHANGED <<server, link, background, cache, optimistic, loaded,
                   requests, missed, breaks, clicks>>

\* A poll of 1.5 s that asked later was answered first, so listSessionSnapshot
\* answers null and the refresh ends there.
Overtaken ==
    /\ loop = "asked"
    /\ loop' = "subscribe" /\ needs' = TRUE
    /\ UNCHANGED <<server, link, background, cache, optimistic, load, loaded,
                   requests, missed, breaks, clicks>>

\* The load joined has ended: load once more, or join the one begun since.
Joined ==
    /\ load = None
    /\ \/ loop = "join" /\ loop' = "load" /\ UNCHANGED background
       \/ background = "join" /\ background' = "load" /\ UNCHANGED loop
    /\ load' = NewLoad
    /\ UNCHANGED <<server, link, needs, cache, optimistic, loaded,
                   requests, missed, breaks, clicks>>

RefreshFails ==
    /\ loop = "asked" /\ breaks < MaxBreaks
    /\ breaks' = breaks + 1
    /\ needs' = TRUE
    /\ loop' = "wait"
    /\ UNCHANGED <<server, link, background, cache, optimistic, load,
                   loaded, requests, missed, clicks>>

\* GET /api/events: the hub has a subscriber from here on.
Subscribe ==
    /\ loop = "subscribe"
    /\ loop' = "open" /\ subscribed' = TRUE /\ stream' = <<>>
    /\ UNCHANGED <<server, needs, background, cache, optimistic, load,
                   loaded, requests, missed, breaks, clicks>>

\* The connection is lost with everything in it.
StreamBreaks ==
    /\ loop = "open" /\ breaks < MaxBreaks
    /\ breaks' = breaks + 1
    /\ LET lost == {e.id : e \in ToSet(stream) \ {Lagged}}
       IN  /\ missed' = missed \cup lost
           /\ load' = IF load # None /\ load.phase = "answered"
                      THEN [load EXCEPT !.since = @ \cup lost] ELSE load
    /\ stream' = <<>> /\ subscribed' = FALSE
    /\ loop' = "wait"
    /\ UNCHANGED <<server, needs, background, cache, optimistic, loaded,
                   requests, clicks>>

\* The server closed the stream of a subscriber that fell behind.
StreamEnds ==
    /\ loop = "open" /\ ~subscribed /\ stream = <<>>
    /\ loop' = "wait"
    /\ UNCHANGED <<server, link, needs, background, cache, optimistic,
                   load, loaded, requests, missed, breaks, clicks>>

Reconnect ==
    /\ loop = "wait"
    /\ loop' = "refresh"
    /\ UNCHANGED <<server, link, needs, background, cache, optimistic,
                   load, loaded, requests, missed, breaks, clicks>>

\* The handler of subscribeEvents.  Any event about a terminal or an agent, and
\* subscriber_lagged, starts a refresh beside the loop, unless one runs.
Hear ==
    /\ loop = "open" /\ stream # <<>>
    /\ stream' = Tail(stream)
    /\ LET e == Head(stream) IN
       CASE e.type = "updated" ->
              /\ shown' = [shown EXCEPT ![e.id] = e.data]
              /\ deletedAt' = [deletedAt EXCEPT ![e.id] = 0]
              /\ Bump(e.id, requests)
              /\ UNCHANGED background
         [] e.type = "deleted" ->
              /\ shown' = [shown EXCEPT ![e.id] = None]
              /\ deletedAt' = [deletedAt EXCEPT ![e.id] = e.at]
              /\ Bump(e.id, requests)
              /\ UNCHANGED background
         [] OTHER ->
              /\ background' = IF background # "no" THEN background
                               ELSE IF e = Lagged THEN "full" ELSE "sessions"
              /\ UNCHANGED <<cache, load, requests>>
    /\ UNCHANGED <<server, subscribed, loop, needs, optimistic, loaded, missed,
                   breaks, clicks>>

\* That refresh has its sessions and, unless a poll overtook them, loads the
\* summaries too when the stream lagged.
BackgroundRefreshed ==
    /\ background \in {"sessions", "full"}
    /\ \/ background' = "no" /\ UNCHANGED load
       \/ /\ background = "full"
          /\ background' = IF load = None THEN "load" ELSE "join"
          /\ load' = IF load = None THEN NewLoad ELSE load
    /\ UNCHANGED <<server, link, loop, needs, cache, optimistic,
                   loaded, requests, missed, breaks, clicks>>

---------------------------------------------------------------------------
(* The user's requests. *)

\* AgentsView.visibleOptimisticDoneIDs and the two tabs.
DisplaysDone(t) == shown[t].done \/ optimistic[t] = shown[t].gen
ActionTab == {t \in Terminals : shown[t] # None /\ ~DisplaysDone(t)}
DoneTab == {t \in Terminals : shown[t] # None /\ DisplaysDone(t)}

\* markAgentSummaryRead, markAgentSummaryDone and chooseAgentSummaryOption, as
\* they send their request.
Click(t, kind) ==
    /\ clicks < MaxClicks
    /\ shown[t] # None
    /\ kind = "read" => shown[t].unread
    /\ kind # "read" => t \in ActionTab
    /\ ~\E r \in requests : r.id = t /\ r.kind = kind
    /\ clicks' = clicks + 1
    /\ requests' = requests \cup {[kind |-> kind, id |-> t, snapshot |-> shown[t],
                                   moved |-> FALSE, phase |-> "sent",
                                   answer |-> None]}
    /\ UNCHANGED <<server, link, listening, cache, optimistic, load, loaded,
                   missed, breaks>>

Step(r, phase, answer) ==
    requests' = (requests \ {r}) \cup {[r EXCEPT !.phase = phase, !.answer = answer]}

\* MarkAgentSummaryRead and MarkAgentSummaryDone take whatever is current; an
\* option remembers the generation it was chosen for.
ServerTakes(r) ==
    /\ r \in requests /\ r.phase = "sent"
    /\ LET s == summary[r.id]
           marked == IF r.kind = "read" THEN [s EXCEPT !.unread = FALSE]
                     ELSE [s EXCEPT !.unread = FALSE, !.done = TRUE]
       IN  CASE s = None \/ (s # None /\ r.kind = "option" /\ s.done) ->
                  /\ Step(r, "failed", None)
                  /\ UNCHANGED <<summary, link, load, missed>>
             [] s # None /\ r.kind = "option" /\ ~s.done ->
                  /\ Step(r, "running", s)
                  /\ UNCHANGED <<summary, link, load, missed>>
             [] OTHER ->
                  /\ summary' = [summary EXCEPT ![r.id] = marked]
                  /\ Publish(r.id, Updated(r.id, marked))
                  /\ Step(r, "answered", marked)
    /\ UNCHANGED <<active, ended, clock, listening, cache, optimistic, loaded, breaks, clicks>>

\* WriteTerminalIfAgentSummaryCurrent and MarkAgentSummaryDoneIfCurrent.
OptionRuns(r) ==
    /\ r \in requests /\ r.phase = "running"
    /\ LET s == summary[r.id] IN
       IF s # None /\ s.gen = r.answer.gen
       THEN LET marked == [s EXCEPT !.unread = FALSE, !.done = TRUE]
            IN  /\ summary' = [summary EXCEPT ![r.id] = marked]
                /\ Publish(r.id, Updated(r.id, marked))
                /\ Step(r, "answered", marked)
       ELSE /\ Step(r, "failed", None)
            /\ UNCHANGED <<summary, link, load, missed>>
    /\ UNCHANGED <<active, ended, clock, listening, cache, optimistic, loaded, breaks, clicks>>

\* The answer replaces the item it was asked for, and no other; an option also
\* gives up when anything arrived for the terminal in between.
Answered(r) ==
    /\ r \in requests /\ r.phase = "answered"
    /\ IF r.kind = "option" /\ r.moved
       THEN requests' = requests \ {r} /\ UNCHANGED <<shown, optimistic, load>>
       ELSE /\ Bump(r.id, requests \ {r})
            /\ shown' = [shown EXCEPT ![r.id] = IF @ = r.snapshot THEN r.answer ELSE @]
            /\ optimistic' = IF r.kind = "option"
                             THEN [optimistic EXCEPT ![r.id] = r.snapshot.gen]
                             ELSE optimistic
    /\ UNCHANGED <<server, link, listening, deletedAt, loaded, missed, breaks, clicks>>

\* A refused request leaves an error message, whatever its kind.
Refused(r) ==
    /\ r \in requests /\ r.phase = "failed"
    /\ requests' = requests \ {r}
    /\ UNCHANGED <<server, link, listening, cache, optimistic, load, loaded,
                   missed, breaks, clicks>>

---------------------------------------------------------------------------
\* The sessions are there for the first time: the effect that loads the
\* summaries and the one that consumes events begin together.
InboxInit ==
    /\ active = Terminals /\ ended = {}
    /\ summary = [t \in Terminals |-> None]
    /\ clock = 0
    /\ stream = <<>> /\ subscribed = FALSE
    /\ loop = "refresh" /\ needs = FALSE /\ background = "no"
    /\ shown = [t \in Terminals |-> None]
    /\ deletedAt = [t \in Terminals |-> 0]
    /\ optimistic = [t \in Terminals |-> 0]
    /\ load = NewLoad /\ loaded = FALSE
    /\ requests = {}
    /\ missed = {}
    /\ breaks = 0 /\ clicks = 0

Server ==
    \E t \in Terminals :
        AgentEnds(t) \/ AgentBegins(t) \/ DeleteSummary(t) \/ \E changed \in BOOLEAN : Generate(t, changed)

Loads == LoadAgain \/ ServerLists \/ ApplyLoad \/ LoadFails

Consume ==
    \/ Refresh \/ Refreshed \/ Overtaken \/ Joined \/ RefreshFails
    \/ Subscribe \/ StreamBreaks \/ StreamEnds \/ Reconnect \/ Hear
    \/ BackgroundRefreshed

User ==
    \/ \E t \in Terminals, k \in Kinds : Click(t, k)
    \/ \E r \in requests : ServerTakes(r) \/ OptionRuns(r) \/ Answered(r) \/ Refused(r)

InboxNext == Server \/ Loads \/ Consume \/ User

\* Requests are answered, events are handled and timers ring; nothing forces a
\* poll, a failure, a click or a change at the server.
InboxFairness ==
    /\ WF_inboxVars(ServerLists) /\ WF_inboxVars(ApplyLoad)
    /\ WF_inboxVars(Refresh) /\ WF_inboxVars(Refreshed \/ Overtaken) /\ WF_inboxVars(Joined)
    /\ WF_inboxVars(Subscribe) /\ WF_inboxVars(StreamEnds) /\ WF_inboxVars(Reconnect)
    /\ WF_inboxVars(Hear) /\ WF_inboxVars(BackgroundRefreshed)

InboxSpec == InboxInit /\ [][InboxNext]_inboxVars /\ InboxFairness

---------------------------------------------------------------------------
Event == [type : {"updated"}, id : Terminals, data : Summary, at : 0..MaxClock]
         \cup [type : {"deleted"}, id : Terminals, at : 0..MaxClock]
         \cup [type : {"agent.updated"}, id : Terminals] \cup {Lagged}

\* The event queue is bounded, the hub holds no subscriber that is not
\* listening, and a loop that waits for a load has one in flight.
InboxTypeOK ==
    /\ active \subseteq Terminals
    /\ summary \in [Terminals -> Summary \cup {None}]
    /\ shown \in [Terminals -> Summary \cup {None}]
    /\ stream \in Seq(Event) /\ Len(stream) <= QueueLimit
    /\ subscribed => loop = "open"
    /\ loop \in {"refresh", "asked", "join", "load", "subscribe", "open", "wait"}
    /\ background \in {"no", "sessions", "full", "join", "load"}
    /\ loop = "load" \/ background = "load" => load # None
    /\ missed \subseteq Terminals

\* No event brings a summary of t, or its removal, and the server has removed
\* that of an agent that ended.
Quiet(t) ==
    /\ ~\E e \in ToSet(stream) : e.type \in {"updated", "deleted"} /\ e.id = t
    /\ t \notin ended

\* Events, loads and answers together lose nothing (App.tsx 1233-1319, 2035-2058,
\* 4165-4262): whatever loads and requests are in flight, a browser that heard all
\* events about a terminal shows exactly the server's summary of it, in the tab its
\* done flag says, except for a change that no event brought and that no
\* undisturbed load has read since.
ExactWhenQuiet ==
    \A t \in Terminals : Quiet(t) /\ t \notin missed =>
        /\ shown[t] = summary[t]
        /\ summary[t] # None => (t \in DoneTab <=> summary[t].done)

\* A summary the browser was told is deleted does not come back from a load
\* that was on its way (App.tsx 1241-1253).
NoResurrection ==
    \A t \in Terminals : shown[t] # None => shown[t].gen > deletedAt[t]

InboxInv == InboxTypeOK /\ NoResurrection

\* However a connection ends, the browser comes back to listening: no shared
\* load, joined load or refresh in the background keeps the loop waiting
\* (App.tsx 1281-1316, 1993-2112).
ListensAgain == loop # "open" ~> loop = "open"

=============================================================================
