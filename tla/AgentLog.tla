------------------------------- MODULE AgentLog -------------------------------
(***************************************************************************)
(* The agent log tab of a pane (web/src/components/AgentLogView.tsx): a    *)
(* page of the transcript linked to the terminal, polled at its live edge  *)
(* and extended backwards by "Load more".  The server's side is            *)
(* internal/server/agent_log.go and internal/agentlog/page.go.             *)
(*                                                                         *)
(* A cursor counts records instead of bytes, a record is one entry, and a  *)
(* transcript only grows.  Poll failures keep the log and are repeated, so *)
(* a failure is an answer that brings nothing.                             *)
(***************************************************************************)
EXTENDS Naturals, Sequences, SequencesExt, FiniteSetsExt, Absence

CONSTANTS
    Transcripts,    \* session IDs an agent of the terminal may have
    Records,        \* what each transcript's file says in the end
    PageRecords,    \* agentLogPageRecords
    MaxLinks,       \* bound: changes of the linked session or of the agent
    MaxHides,       \* bound: times the tab is left
    MaxFailures     \* bound: requests that fail

Entry == [kind : {"message", "tool", "tool_result", "injected"}, call : Nat]

\* A page of the log, whose entries are groups.
Groups == Seq(Entry) \ {<<>>}
PageRecord ==
    [id : Transcripts, start : Nat, end : Nat, next : Nat \cup {None},
     entries : Seq(Groups)]

ASSUME LogAssumption ==
    /\ Records \in [Transcripts -> Seq(Entry)]
    /\ None \notin Transcripts \cup Nat \cup PageRecord \cup Entry
    /\ PageRecords \in Nat \ {0}
    /\ {MaxLinks, MaxHides, MaxFailures} \subseteq Nat

VARIABLES
    length,      \* records written to each transcript so far
    linked,      \* the terminal's AgentSessionID
    active,      \* the tab's panel is visible
    log,         \* what is shown: the state log
    etag, endCursor,
    poll,        \* the request of refresh, and its answer
    more,        \* the request of loadMore, and its answer
    loading,     \* the state loading
    mixed,       \* history: an older page came after the log was replaced
    links, hides, failures

file == <<length, linked, links>>
view == <<log, etag, endCursor, loading>>
bounds == <<links, hides, failures>>
logVars == <<file, active, view, poll, more, mixed, hides, failures>>

-----------------------------------------------------------------------------
(* Pages of a transcript. *)

\* CompactTools: consecutive tools and results become one group.  A group is
\* the sequence of its entries, any other entry a sequence of one.
IsTool(e) == e.kind \in {"tool", "tool_result"}
IsGroup(g) == IsTool(g[1])

\* No call has the ID of a call or a result before it: the parser finds the
\* title of a result by the ID of the call that came before.
ASSUME CallsAreNamed ==
    \A t \in Transcripts : \A i, j \in DOMAIN Records[t] :
        LET e == Records[t][i]
            f == Records[t][j]
        IN  i < j /\ IsTool(e) /\ f.kind = "tool" /\ f.call # 0 => e.call # f.call

\* mergeAdjacentToolGroups
Joined(merged, g) ==
    IF merged # <<>> /\ IsGroup(g) /\ IsGroup(Last(merged))
    THEN Append(Front(merged), Last(merged) \o g)
    ELSE Append(merged, g)

MergedInto(first, groups) ==
    LET merged[i \in 0..Len(groups)] ==
            IF i = 0 THEN first ELSE Joined(merged[i - 1], groups[i])
    IN  merged[Len(groups)]

Merge(groups) == MergedInto(<<>>, groups)

Compact(entries) == Merge([i \in DOMAIN entries |-> <<entries[i]>>])

\* loadAgentTranscriptPage's answer for the records after start up to end.
Page(t, start, end, older) ==
    [id |-> t, start |-> start, end |-> end,
     next |-> IF older /\ start > 0 THEN start ELSE None,
     entries |-> Compact(SubSeq(Records[t], start + 1, end))]

Floor(end) == IF end > PageRecords THEN end - PageRecords ELSE 0

\* ReadPage and ReadAfter.  A cursor beyond the file reads the newest page.
Before(t, before) ==
    LET end == IF before > length[t] THEN length[t] ELSE before
    IN  Page(t, Floor(end), end, TRUE)
After(t, after) ==
    IF after # None /\ after <= length[t]
    THEN LET far == after + PageRecords
         IN  Page(t, after, IF far < length[t] THEN far ELSE length[t], FALSE)
    ELSE Before(t, length[t])

\* agentLog's ETag: the identity of the file, its size and the page's end.
Tag(page) == <<page.id, length[page.id], page.end>>

-----------------------------------------------------------------------------
(* refresh: one request a second while the panel is visible. *)

Ask ==
    /\ active /\ poll = None
    /\ poll' = [phase |-> "asked", etag |-> etag, after |-> endCursor]
    /\ UNCHANGED <<file, active, view, more, mixed, hides, failures>>

ServerAnswers ==
    /\ poll # None /\ poll.phase = "asked"
    /\ LET page == After(linked, poll.after) IN
       poll' = [phase |-> "answered", after |-> poll.after, etag |-> Tag(page),
                page |-> IF poll.etag = Tag(page) THEN None ELSE page]
    /\ UNCHANGED <<file, active, view, more, mixed, hides, failures>>

\* A page that does not adjoin the log shown replaces it.
Replaces(page, after) ==
    log = None \/ log.id # page.id \/ after = None \/ page.start # after
Shown(page, after) ==
    IF Replaces(page, after) THEN page
    ELSE [log EXCEPT !.entries = Merge(@ \o page.entries), !.end = page.end]

Refreshed ==
    /\ poll # None /\ poll.phase = "answered"
    /\ etag' = poll.etag
    /\ IF poll.page = None THEN UNCHANGED <<log, endCursor, more, mixed>>
       ELSE LET replaces == Replaces(poll.page, poll.after) IN
            /\ log' = Shown(poll.page, poll.after)
            /\ endCursor' = poll.page.end
            /\ more' = IF replaces /\ more # None
                       THEN [more EXCEPT !.strayed = TRUE] ELSE more
            /\ mixed' = (mixed /\ ~replaces)
    /\ poll' = None /\ loading' = FALSE
    /\ UNCHANGED <<file, active, hides, failures>>

PollFails ==
    /\ poll # None /\ failures < MaxFailures
    /\ failures' = failures + 1
    /\ poll' = None /\ loading' = FALSE
    /\ UNCHANGED <<file, active, log, etag, endCursor, more, mixed, hides>>

-----------------------------------------------------------------------------
(* loadMore, offered while older records exist and none are being loaded. *)

LoadMore ==
    /\ log # None /\ log.next # None /\ more = None
    /\ more' = [phase |-> "asked", id |-> log.id, before |-> log.next,
                strayed |-> FALSE]
    /\ UNCHANGED <<file, active, view, poll, mixed, hides, failures>>

ServerReadsOlder ==
    /\ more # None /\ more.phase = "asked"
    /\ more' = [phase |-> "answered", id |-> more.id,
                page |-> Before(linked, more.before), strayed |-> more.strayed]
    /\ UNCHANGED <<file, active, view, poll, mixed, hides, failures>>

\* Fault: the older page goes in front of whatever log is shown.
PrependedAnyway ==
    /\ more # None /\ more.phase = "answered" /\ log # None
    /\ log' = [log EXCEPT !.entries = Merge(more.page.entries \o @),
                           !.start = more.page.start,
                           !.next = more.page.next]
    /\ mixed' = (mixed \/ (more.strayed /\ log.id = more.id)) /\ more' = None
    /\ UNCHANGED <<file, active, etag, endCursor, loading, poll, hides,
                   failures>>

\* Only a page of the transcript that was asked about, for a log that shows it.
Prepended ==
    /\ more # None /\ more.phase = "answered"
    /\ IF more.page.id = more.id /\ log # None /\ log.id = more.id
       THEN /\ log' = [log EXCEPT !.entries = Merge(more.page.entries \o @),
                                  !.start = more.page.start,
                                  !.next = more.page.next]
            /\ mixed' = (mixed \/ more.strayed)
       ELSE UNCHANGED <<log, mixed>>
    /\ more' = None
    /\ UNCHANGED <<file, active, etag, endCursor, loading, poll, hides,
                   failures>>

OlderFails ==
    /\ more # None /\ failures < MaxFailures
    /\ failures' = failures + 1
    /\ more' = None
    /\ UNCHANGED <<file, active, view, poll, mixed, hides>>

-----------------------------------------------------------------------------
(* What the reader sees: the section and, for a log, TranscriptView, which    *)
(* leaves out what Codex injected; and the executions of a group.             *)

Readable(entries) ==
    SelectSeq(entries, LAMBDA g : g[1].kind # "injected")

LogPart ==
    IF log = None THEN IF loading /\ active THEN "skeleton" ELSE "empty"
    ELSE IF Readable(log.entries) = <<>> /\ log.next = None
    THEN "empty transcript"
    ELSE "transcript"

\* pairToolEntries: a result goes to the last call of its ID if that has none,
\* one without an ID to the first call without a result; call 0 is no ID.
Paired(ex, e) ==
    LET calls == {k \in DOMAIN ex : ex[k].call # None /\ ex[k].call.call = e.call}
        open == {k \in DOMAIN ex : ex[k].call # None /\ ex[k].result = None}
        Give(k) == [ex EXCEPT ![k].result = e]
    IN  IF e.kind = "tool" THEN Append(ex, [call |-> e, result |-> None])
        ELSE IF e.call # 0 /\ calls # {} /\ ex[Max(calls)].result = None
        THEN Give(Max(calls))
        ELSE IF e.call = 0 /\ open # {} THEN Give(Min(open))
        ELSE Append(ex, [call |-> None, result |-> e])

Pairs(group) ==
    LET paired[i \in 0..Len(group)] ==
            IF i = 0 THEN <<>> ELSE Paired(paired[i - 1], group[i])
    IN  paired[Len(group)]

-----------------------------------------------------------------------------
(* The surroundings. *)

AgentWrites(t) ==
    /\ length[t] < Len(Records[t])
    /\ length' = [length EXCEPT ![t] = @ + 1]
    /\ UNCHANGED <<linked, links, active, view, poll, more, mixed, hides,
                   failures>>

\* A hook reports another session of the same agent.
Link(t) ==
    /\ t # linked /\ links < MaxLinks
    /\ linked' = t /\ links' = links + 1
    /\ UNCHANGED <<length, active, view, poll, more, mixed, hides, failures>>

\* The effect's cleanup: the answer of the request in flight is ignored.
Hide ==
    /\ active /\ hides < MaxHides
    /\ active' = FALSE /\ hides' = hides + 1 /\ poll' = None
    /\ UNCHANGED <<file, view, more, mixed, failures>>

Show ==
    /\ ~active /\ active' = TRUE
    /\ UNCHANGED <<file, view, poll, more, mixed, hides, failures>>

\* Another agent reports a session: the key of the view changes, and a new one
\* is mounted which knows nothing of the requests of the old one.
Remount(t) ==
    /\ t # linked /\ links < MaxLinks
    /\ linked' = t /\ links' = links + 1
    /\ log' = None /\ etag' = None /\ endCursor' = None /\ loading' = TRUE
    /\ poll' = None /\ more' = None /\ mixed' = FALSE
    /\ UNCHANGED <<length, active, hides, failures>>

LogInit ==
    /\ length \in [Transcripts -> {1, 2}] /\ linked \in Transcripts
    /\ \A t \in Transcripts : length[t] <= Len(Records[t])
    /\ active = FALSE /\ log = None /\ etag = None /\ endCursor = None
    /\ poll = None /\ more = None /\ loading = TRUE /\ mixed = FALSE
    /\ links = 0 /\ hides = 0 /\ failures = 0

LogProgress ==
    Ask \/ ServerAnswers \/ Refreshed \/ ServerReadsOlder \/ Prepended

LogNext ==
    \/ LogProgress \/ PollFails \/ LoadMore \/ OlderFails \/ Hide \/ Show
    \/ \E t \in Transcripts : AgentWrites(t) \/ Link(t) \/ Remount(t)

\* refresh runs every second and a request is answered; nothing makes the
\* user, the agent or a failure act.
LogFairness ==
    /\ WF_logVars(Ask) /\ WF_logVars(ServerAnswers) /\ WF_logVars(Refreshed)

-----------------------------------------------------------------------------
(* Properties. *)

\* The page lies in what the agent has written, and offers what is before it.
InFile(p) ==
    /\ p \in PageRecord /\ p.next \in {None, p.start}
    /\ p.start <= length[p.id] /\ p.end <= length[p.id]

LogTypeOK ==
    /\ linked \in Transcripts
    /\ \A t \in Transcripts : length[t] \in 0..Len(Records[t])
    /\ {active, loading, mixed} \subseteq BOOLEAN
    /\ log = None \/ InFile(log)
    /\ (log = None) = (endCursor = None) /\ endCursor \in Nat \cup {None}
    /\ poll # None => active
    /\ more # None => more.id \in Transcripts

\* The log shown is a stretch of one transcript without a gap or a repetition,
\* its tools grouped as if the stretch had been read at once, however live
\* pages, older pages, changes of the linked session and lost answers
\* interleave.  An older page that arrives after its log was replaced is only
\* recognised by its transcript: a session that was left and resumed meanwhile
\* is the exception.
TranscriptContiguous ==
    log # None /\ ~mixed =>
        log.entries = Compact(SubSeq(Records[log.id], log.start + 1, log.end))

\* A call and its result that are both shown are shown as one execution: the
\* pages that separate them do not matter.
CallsMeetResults ==
    log # None /\ ~mixed =>
        \A i \in DOMAIN log.entries :
            IsGroup(log.entries[i]) =>
                \A x \in ToSet(Pairs(log.entries[i])) :
                    x.call # None /\ x.call.call # 0 /\ x.result = None =>
                        \A j \in DOMAIN log.entries[i] :
                            log.entries[i][j].kind = "tool_result" =>
                                log.entries[i][j].call # x.call.call

\* A tab that stays visible ends up with the last record of the transcript of
\* the linked session: neither the ETag nor the bounded pages stop it short.
ReachesLiveEdge ==
    []<>(~active \/ (log # None /\ log.id = linked
                         /\ log.end = length[linked]))

LogSpec == LogInit /\ [][LogNext]_logVars /\ LogFairness

=============================================================================
