---------------------------- MODULE TerminalStream ----------------------------
(***************************************************************************)
(* How the output of a terminal reaches one browser.  The server replays   *)
(* what it retained and goes on with what the process writes, as fast as   *)
(* the browser asks (src/internal/server/terminal.go, terminal_flow.go,    *)
(* src/internal/session/session.go).  The view batches output, hands it to *)
(* xterm, pauses the server when xterm falls behind, and keeps xterm's     *)
(* answers to what it replays from reaching the process                    *)
(* (src/web/src/components/TerminalView.tsx, terminalFlowControl.ts).      *)
(*                                                                         *)
(* Output is cut into numbered chunks, the unit of every size here.  The   *)
(* server always sends the size before the history, so the queue the view  *)
(* keeps for data that arrives before a size is not reached.               *)
(***************************************************************************)
EXTENDS Naturals, Sequences, SequencesExt, FiniteSets

CONSTANTS
    MaxOutput,      \* how much the process writes
    DeviceQueries,  \* chunks that make xterm answer: device queries
    Retained,       \* the history buffer
    QueueLimit,     \* maxLiveOutputQueueSize
    FrameLimit,     \* terminalOutputFrameBytes
    Limit, HighWater, LowWater,     \* of the flow control
    MaxSizes, MaxBreaks, MaxTyped   \* bounds on events

ASSUME StreamAssumption ==
    /\ {MaxOutput, QueueLimit, Limit, HighWater, LowWater, MaxSizes,
        MaxBreaks, MaxTyped} \subseteq Nat
    /\ Retained \in Nat \ {0}
    /\ DeviceQueries \subseteq 1..MaxOutput
    /\ FrameLimit \in Nat \ {0} /\ LowWater > 0 /\ LowWater <= HighWater + 1

VARIABLES
    produced,       \* chunks the process wrote
    ended,          \* its output is closed
    sizes, breaks, typed,
    serving,        \* the goroutine that writes to the socket runs
    subscribed,     \* the first chunk that is live, not history
    lead,           \* frames that precede the live output
    queue,          \* outputSubscriber: events not written yet
    gatePaused,     \* terminalOutputGate
    down, up,       \* messages on their way
    connection,     \* ConnectionState
    replaying,      \* replayingHistory
    streamComplete, \* historyStreamComplete
    batch,          \* createTerminalOutputBatcher: pending
    interactive,    \* and its mode
    written, paused,    \* createTerminalOutputFlowControl
    xterm,          \* writes xterm has not parsed
    handed,         \* history: what this terminal was handed, in order
    answered        \* history: chunks whose answer was sent, by kind of frame

process == <<produced, ended>>
streamBounds == <<sizes, breaks, typed>>
server == <<serving, subscribed, lead, queue, gatePaused>>
replay == <<replaying, streamComplete>>
output == <<batch, interactive, written, paused, xterm, handed>>
streamVars ==
    <<process, streamBounds, server, down, up, connection, replay, output,
      answered>>

Size(at) == [type |-> "resize", at |-> at]
History(data) == [type |-> "history", data |-> data]
Output(data) == [type |-> "output", data |-> data]
Bare(type) == [type |-> type]

-----------------------------------------------------------------------------
(* The session and the server's side of the connection. *)

Oldest == IF produced > Retained THEN produced - Retained + 1 ELSE 1
HistoryChunks == [i \in 1..(produced + 1 - Oldest) |-> Oldest + i - 1]

\* batchTerminalHistory
Frames(chunks) ==
    LET count == (Len(chunks) + FrameLimit - 1) \div FrameLimit
        last(i) == IF i * FrameLimit < Len(chunks) THEN i * FrameLimit
                   ELSE Len(chunks)
    IN [i \in 1..count |->
            History(SubSeq(chunks, (i - 1) * FrameLimit + 1, last(i)))]

IsSize(event) == event.type = "resize"
Queued == Cardinality({i \in DOMAIN queue : ~IsSize(queue[i])})

\* enqueueEvent: a client that falls behind is cut off and reconnects.
Enqueue(event) ==
    \/ /\ ~serving
       /\ UNCHANGED <<serving, queue, down>>
    \/ /\ serving /\ IsSize(event)
       /\ queue' = IF queue # <<>> /\ IsSize(Last(queue))
                   THEN Append(Front(queue), event) ELSE Append(queue, event)
       /\ UNCHANGED <<serving, down>>
    \/ /\ serving /\ ~IsSize(event) /\ Queued < QueueLimit
       /\ queue' = Append(queue, event)
       /\ UNCHANGED <<serving, down>>
    \/ /\ serving /\ ~IsSize(event) /\ Queued >= QueueLimit
       /\ serving' = FALSE /\ queue' = <<>>
       /\ down' = Append(down, Bare("close"))

\* publish
ProcessWrites ==
    /\ ~ended /\ produced < MaxOutput /\ produced' = produced + 1
    /\ Enqueue(Output(<<produced + 1>>))
    /\ UNCHANGED <<ended, streamBounds, subscribed, lead, gatePaused, up, connection,
                   replay, output, answered>>

\* finishOutput
ProcessEnds ==
    /\ ~ended /\ ended' = TRUE
    /\ UNCHANGED <<produced, streamBounds, server, down, up, connection, replay,
                   output, answered>>

\* Another browser changes the shared size.
SizeChanges ==
    /\ ~ended /\ sizes < MaxSizes /\ sizes' = sizes + 1
    /\ Enqueue(Size(produced))
    /\ UNCHANGED <<process, breaks, typed, subscribed, lead, gatePaused, up,
                   connection, replay, output, answered>>

\* terminalStream: subscribe, then the size, the history and its end.
Accept ==
    /\ connection = "connecting" /\ ~serving /\ down = <<>>
    /\ serving' = TRUE /\ queue' = <<>> /\ gatePaused' = FALSE
    /\ subscribed' = produced + 1
    /\ lead' = <<Size(Oldest - 1)>> \o Frames(HistoryChunks) \o <<Bare("history_end")>>
    /\ connection' = "connected"
    /\ UNCHANGED <<process, streamBounds, down, up, replay, output, answered>>

\* One frame, once the gate is open.  The batcher takes the adjacent output
\* that is there already, and never waits for more.
WriteFrame ==
    /\ serving /\ ~gatePaused
    /\ \/ /\ lead # <<>> /\ lead' = Tail(lead)
          /\ down' = Append(down, Head(lead))
          /\ UNCHANGED <<queue, serving>>
       \/ /\ lead = <<>> /\ queue # <<>> /\ IsSize(Head(queue))
          /\ down' = Append(down, Head(queue)) /\ queue' = Tail(queue)
          /\ UNCHANGED <<lead, serving>>
       \/ /\ lead = <<>>
          /\ \E n \in 1..FrameLimit :
                 /\ n <= Len(queue)
                 /\ \A i \in 1..n : ~IsSize(queue[i])
                 /\ down' = Append(down, Output(
                        FlattenSeq([i \in 1..n |-> queue[i].data])))
                 /\ queue' = SubSeq(queue, n + 1, Len(queue))
          /\ UNCHANGED <<lead, serving>>
       \/ /\ lead = <<>> /\ queue = <<>> /\ ended
          /\ down' = down \o <<Bare("exit"), Bare("close")>>
          /\ serving' = FALSE /\ UNCHANGED <<lead, queue>>
    /\ UNCHANGED <<process, streamBounds, subscribed, gatePaused, up, connection,
                   replay, output, answered>>

\* The reading loop: pause, resume.
ServerHears ==
    /\ up # <<>> /\ up' = Tail(up)
    /\ gatePaused' = (Head(up).type = "pause")
    /\ UNCHANGED <<process, streamBounds, serving, subscribed, lead, queue, down,
                   connection, replay, output, answered>>

\* The connection breaks, with what is on its way.
LinkBreaks ==
    /\ connection = "connected" /\ breaks < MaxBreaks /\ breaks' = breaks + 1
    /\ serving' = FALSE /\ queue' = <<>> /\ lead' = <<>>
    /\ down' = <<Bare("close")>> /\ up' = <<>>
    /\ UNCHANGED <<process, sizes, typed, subscribed, gatePaused, connection,
                   replay, output, answered>>

-----------------------------------------------------------------------------
(* Handing output to xterm: the batcher and the flow control. *)

Pending(entries) == Cardinality({i \in DOMAIN entries : entries[i].tracked})
PendingHistory(entries) == Cardinality({i \in DOMAIN entries : entries[i].history})

\* Fault: a paused server is not asked to resume.
ReconcileOnce(entries) ==
    LET pause == connection = "connected" /\ ~paused /\ Pending(entries) > HighWater
    IN /\ paused' = (paused \/ pause)
       /\ up' = IF pause THEN Append(up, Bare("pause")) ELSE up

\* reconcile: the pause and the resume count once they could be sent.
Reconcile(entries) ==
    LET pause == ~paused /\ Pending(entries) > HighWater
        resume == paused /\ Pending(entries) < LowWater
        sends == connection = "connected" /\ (pause \/ resume)
    IN /\ paused' = IF sends THEN pause ELSE paused
       /\ up' = IF sends THEN Append(up, Bare(IF pause THEN "pause" ELSE "resume"))
                ELSE up

Marked(data) == [i \in 1..Len(data) |-> [type |-> "chunk", at |-> data[i]]]

\* The flow control's write, of several pieces one after the other: a write
\* with a callback, or one that completes a measure of Limit, is tracked.
Count(total, data, history) ==
    LET sum == total + Len(data)
    IN [tracked |-> history \/ sum > Limit,
        written |-> IF sum > Limit THEN 0 ELSE sum]

Writes(pieces, history) ==
    LET totals[i \in 0..Len(pieces)] ==
            IF i = 0 THEN written
            ELSE Count(totals[i - 1], pieces[i], history).written
    IN /\ written' = totals[Len(pieces)]
       /\ xterm' = xterm \o
              [i \in 1..Len(pieces) |->
                   [data |-> pieces[i], history |-> history,
                    tracked |-> Count(totals[i - 1], pieces[i], history).tracked]]
       /\ handed' = handed \o Marked(FlattenSeq(pieces))
       /\ Reconcile(xterm')

\* flush
Flushed == IF batch = <<>> THEN <<>> ELSE <<batch>>
Flush == batch' = <<>> /\ Writes(Flushed, FALSE)

\* The batcher's window of 40 ms is over.
FlushTimer ==
    /\ batch # <<>> /\ Flush
    /\ UNCHANGED <<process, streamBounds, server, down, connection, replay,
                   interactive, answered>>

InteractiveTimer ==
    /\ interactive /\ interactive' = FALSE
    /\ UNCHANGED <<process, streamBounds, server, down, up, connection, replay, batch,
                   written, paused, xterm, handed, answered>>

\* onData for a key: dropped during the replay, else it flushes the batch.
UserTypes ==
    /\ typed < MaxTyped /\ typed' = typed + 1
    /\ ~replaying /\ connection = "connected"
    /\ interactive' = TRUE /\ Flush
    /\ UNCHANGED <<process, sizes, breaks, server, down, connection, replay,
                   answered>>

\* xterm parses its next write.  It may answer, which comes to onData too;
\* then the write's callback runs.
Parse ==
    /\ xterm # <<>>
    /\ LET entry == Head(xterm)
           asked == DeviceQueries \cap ToSet(entry.data)
           sends == asked # {} /\ ~replaying
           rest == IF sends /\ batch # <<>>
                   THEN Append(Tail(xterm),
                               [data |-> batch, history |-> FALSE,
                                tracked |-> Count(written, batch, FALSE).tracked])
                   ELSE Tail(xterm)
       IN /\ xterm' = rest
          /\ \/ /\ sends /\ interactive' = TRUE /\ batch' = <<>>
                /\ written' = IF batch = <<>> THEN written
                              ELSE Count(written, batch, FALSE).written
                /\ handed' = handed \o Marked(batch)
                /\ answered' = IF connection # "connected" THEN answered
                               ELSE answered \o SetToSeq(
                                   {<<c, entry.history>> : c \in asked})
             \/ /\ ~sends
                /\ UNCHANGED <<interactive, batch, written, handed, answered>>
          /\ replaying' = (replaying /\ ~(/\ entry.history /\ streamComplete
                                          /\ PendingHistory(Tail(xterm)) = 0))
          /\ Reconcile(rest)
    /\ UNCHANGED <<process, streamBounds, server, down, connection, streamComplete>>

-----------------------------------------------------------------------------
(* handleMessage and handleClose. *)

Heard == down # <<>> /\ down' = Tail(down)
Hear(type) == Heard /\ Head(down).type = type

HearHistory ==
    /\ Hear("history") /\ replaying' = TRUE
    /\ Writes(<<Head(down).data>>, TRUE)
    /\ UNCHANGED <<process, streamBounds, server, connection, streamComplete, batch,
                   interactive, answered>>

HearHistoryEnd ==
    /\ Hear("history_end") /\ streamComplete' = TRUE
    /\ replaying' = (replaying /\ PendingHistory(xterm) # 0)
    /\ UNCHANGED <<process, streamBounds, server, up, connection, output, answered>>

HearOutput ==
    /\ Hear("output")
    /\ \/ /\ interactive /\ batch' = <<>>
          /\ Writes(Flushed \o <<Head(down).data>>, FALSE)
       \/ /\ ~interactive /\ batch' = batch \o Head(down).data
          /\ UNCHANGED <<written, paused, xterm, handed, up>>
    /\ UNCHANGED <<process, streamBounds, server, connection, replay, interactive,
                   answered>>

\* Fault: the terminal takes the size before what is batched.
HearSizeAtOnce ==
    /\ Hear("resize") /\ handed' = Append(handed, Head(down))
    /\ replaying' = (replaying /\ ~(streamComplete /\ PendingHistory(xterm) = 0))
    /\ UNCHANGED <<process, streamBounds, server, up, connection,
                   streamComplete, batch, interactive, written, paused, xterm,
                   answered>>

\* What is batched goes first, then the terminal takes the size.
HearSize ==
    /\ Hear("resize") /\ batch' = <<>>
    /\ LET pieces == Flushed
       IN /\ written' = IF pieces = <<>> THEN written
                        ELSE Count(written, batch, FALSE).written
          /\ xterm' = IF pieces = <<>> THEN xterm
                      ELSE Append(xterm, [data |-> batch, history |-> FALSE,
                               tracked |-> Count(written, batch, FALSE).tracked])
          /\ handed' = Append(handed \o Marked(batch), Head(down))
          /\ Reconcile(xterm')
    /\ replaying' = (replaying /\ ~(streamComplete /\ PendingHistory(xterm) = 0))
    /\ UNCHANGED <<process, streamBounds, server, connection, streamComplete,
                   interactive, answered>>

HearExit ==
    /\ Hear("exit") /\ Flush /\ connection' = "exited"
    /\ UNCHANGED <<process, streamBounds, server, replay, interactive, answered>>

HearClose ==
    /\ Hear("close")
    /\ connection' = IF connection = "exited" THEN "exited" ELSE "disconnected"
    /\ UNCHANGED <<process, streamBounds, server, up, replay, output, answered>>

\* The page reconnects: the effect starts over with a new terminal.
Reconnect ==
    /\ connection = "disconnected" /\ connection' = "connecting"
    /\ down' = <<>> /\ up' = <<>> /\ lead' = <<>>
    /\ replaying' = FALSE /\ streamComplete' = FALSE
    /\ batch' = <<>> /\ interactive' = FALSE /\ written' = 0 /\ paused' = FALSE
    /\ xterm' = <<>> /\ handed' = <<>>
    /\ UNCHANGED <<process, streamBounds, serving, subscribed, queue, gatePaused,
                   answered>>

-----------------------------------------------------------------------------
StreamInit ==
    /\ produced = 0 /\ ended = FALSE
    /\ sizes = 0 /\ breaks = 0 /\ typed = 0
    /\ serving = FALSE /\ subscribed = 1 /\ lead = <<>> /\ queue = <<>>
    /\ gatePaused = FALSE /\ down = <<>> /\ up = <<>>
    /\ connection = "connecting"
    /\ replaying = FALSE /\ streamComplete = FALSE
    /\ batch = <<>> /\ interactive = FALSE /\ written = 0 /\ paused = FALSE
    /\ xterm = <<>> /\ handed = <<>> /\ answered = <<>>

HearFrame == HearHistory \/ HearHistoryEnd \/ HearOutput \/ HearSize
                 \/ HearExit \/ HearClose

StreamNext ==
    \/ ProcessWrites \/ ProcessEnds \/ SizeChanges
    \/ Accept \/ WriteFrame \/ ServerHears \/ LinkBreaks
    \/ FlushTimer \/ InteractiveTimer \/ UserTypes \/ Parse
    \/ HearFrame \/ Reconnect

\* The server accepts, writes and reads, the browser hears and parses, its
\* timers ring and the page reconnects.  Nothing makes the process write.
StreamFairness ==
    /\ WF_streamVars(Accept) /\ WF_streamVars(WriteFrame)
    /\ WF_streamVars(ServerHears) /\ WF_streamVars(HearFrame)
    /\ WF_streamVars(Parse) /\ WF_streamVars(FlushTimer)
    /\ WF_streamVars(Reconnect)

StreamSpec == StreamInit /\ [][StreamNext]_streamVars /\ StreamFairness
-----------------------------------------------------------------------------
StreamTypeOK ==
    /\ produced \in 0..MaxOutput
    /\ {ended, serving, gatePaused, replaying, streamComplete, interactive,
        paused} \subseteq BOOLEAN
    /\ connection \in {"connecting", "connected", "disconnected", "exited"}
    /\ Queued <= QueueLimit /\ written <= Limit

\* A terminal is handed one stretch of the output, without a gap, a repetition
\* or a swap where history meets live output, and every change of size between
\* the same chunks where it was made.
HandedInOrder ==
    \A i \in 2..Len(handed) :
        handed[i].at = IF IsSize(handed[i]) THEN handed[i - 1].at
                       ELSE handed[i - 1].at + 1

HasAll ==
    produced > 0 => [type |-> "chunk", at |-> produced] \in ToSet(handed)

\* The process gets an answer to a query at most once, and never to output
\* that is only replayed.
NoReplayedAnswers ==
    /\ \A i \in 1..Len(answered) : ~answered[i][2]
    /\ \A i, j \in 1..Len(answered) :
           i # j => answered[i][1] # answered[j][1]

\* A terminal that says the process exited was handed all it wrote.
ExitedMeansComplete ==
    connection = "exited" =>
        /\ ended
        /\ HasAll

\* However often the server is paused, cut off or disconnected, the browser
\* catches up: in the end xterm has parsed everything, and knows of the exit.
CatchesUp ==
    <>[](/\ xterm = <<>> /\ batch = <<>>
         /\ HasAll
         /\ ended => connection = "exited")
=============================================================================
