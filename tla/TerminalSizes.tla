---------------------------- MODULE TerminalSizes ----------------------------
(***************************************************************************)
(* One terminal shown by several browsers, which share its size.  Each     *)
(* view claims the room it has while it can be seen; the process gets the  *)
(* smallest claim (src/internal/server/terminal_size.go).  Views come and *)
(* go: they are hidden, covered by another source of their pane, lose      *)
(* their connection and connect again (src/web/src/components/             *)
(* TerminalView.tsx, App.tsx).                                             *)
(*                                                                         *)
(* A size is a number: the group takes the minimum of columns and of rows  *)
(* each for itself.  The process's side of a resize always succeeds, and   *)
(* in time: only the context it is made under can fail it.                 *)
(***************************************************************************)
EXTENDS Absence, Naturals, Sequences, FiniteSets, FiniteSetsExt

CONSTANTS
    Views,          \* the views, each in a browser of its own
    Rooms,          \* the sizes a view may have room for
    InvalidLimit,   \* invalid messages that end a connection: 3
    MaxLayouts,     \* of the layout of views
    MaxLosses       \* connections that break or that their view leaves

ASSUME SizesAssumption ==
    /\ Rooms \subseteq Nat \ {0} /\ Rooms # {} /\ IsFiniteSet(Rooms)
    /\ IsFiniteSet(Views) /\ None \notin Views \X Nat
    /\ {MaxLayouts, MaxLosses} \subseteq Nat
    /\ InvalidLimit \in Nat \ {0, 1}

VARIABLES
    state,          \* ConnectionState of each view
    count,          \* connections the view has had; the last is its current
    hidden,         \* the pane is out of sight
    covered,        \* another source of the pane is shown: not sourceVisible
    room,           \* what proposeDimensions says
    claimDue,       \* reportCapacity is about to be called
    lastSize, claimActive,
    sent,           \* messages on their way on each connection
    intact,         \* connections that are not broken or closed
    alive,          \* connections whose handler's context is not cancelled
    clients,        \* the group's clients, with what they claim (0: nothing)
    opener,         \* the connection whose context the group resizes under
    size,           \* of the process
    rejected,       \* invalidMessages of each connection
    layouts, losses

layout == <<hidden, covered, room, layouts>>
browser == <<state, count, claimDue, lastSize, claimActive, intact>>
group == <<alive, clients, opener, size, rejected>>
sizesVars == <<layout, browser, sent, group, losses>>

Conns == Views \X (1..(1 + MaxLosses + MaxLayouts))
Conn(v) == <<v, count[v]>>

-----------------------------------------------------------------------------
(* The view: reportCapacity. *)

Claim(last, active, message) ==
    [last |-> last, active |-> active, message |-> message]

\* A view that is out of sight releases its claim, a covered one keeps it.
Capacity(v, last, active) ==
    IF hidden[v]
    THEN IF active THEN Claim(0, FALSE, <<0>>) ELSE Claim(last, active, <<>>)
    ELSE IF covered[v] \/ room[v] = last THEN Claim(last, active, <<>>)
    ELSE Claim(room[v], TRUE, <<room[v]>>)

Reports(v, c, claim) ==
    /\ lastSize' = [lastSize EXCEPT ![v] = claim.last]
    /\ claimActive' = [claimActive EXCEPT ![v] = claim.active]
    /\ sent' = [sent EXCEPT ![c] = @ \o claim.message]

\* The resize observer, the effect on focus and the timer after a change of
\* the layout call it.  A message needs an open connection.
Report(v) ==
    /\ claimDue[v] /\ claimDue' = [claimDue EXCEPT ![v] = FALSE]
    /\ \/ /\ state[v] = "connected"
          /\ Reports(v, Conn(v), Capacity(v, lastSize[v], claimActive[v]))
       \/ /\ state[v] # "connected"
          /\ UNCHANGED <<lastSize, claimActive, sent>>
    /\ UNCHANGED <<layout, state, count, intact, group, losses>>

Relaid(v) ==
    /\ layouts < MaxLayouts /\ layouts' = layouts + 1
    /\ claimDue' = [claimDue EXCEPT ![v] = TRUE]
    /\ UNCHANGED <<state, count, lastSize, claimActive, intact, sent, group,
                   losses>>

Resized(v) ==
    /\ \E r \in Rooms \ {room[v]} : room' = [room EXCEPT ![v] = r]
    /\ Relaid(v) /\ UNCHANGED <<hidden, covered>>

\* A pane leaves the screen or returns; the focus or the number of panes
\* changes with it.
TogglesPane(v) ==
    /\ hidden' = [hidden EXCEPT ![v] = ~@]
    /\ Relaid(v) /\ UNCHANGED <<covered, room>>

TogglesSource(v) ==
    /\ covered' = [covered EXCEPT ![v] = ~@]
    /\ Relaid(v) /\ UNCHANGED <<hidden, room>>

-----------------------------------------------------------------------------
(* The group: terminalSizeCoordinator. *)

Claims(cs) == {cs[c] : c \in {d \in DOMAIN cs : cs[d] # 0}}
Set(c, claim) == [d \in DOMAIN clients \cup {c} |->
                      IF d = c THEN claim ELSE clients[d]]
Without(c) == [d \in DOMAIN clients \ {c} |-> clients[d]]

\* Does the group have to resize the process, and can it?
Changed(next) == Claims(next) # {} /\ Min(Claims(next)) # size
CanResize == opener \in alive

\* subscribe: the first client's context becomes the group's.
Subscribe(c) ==
    /\ clients' = Set(c, 0)
    /\ opener' = IF DOMAIN clients = {} THEN c ELSE opener
    /\ alive' = alive \cup {c}

\* Fault: the claims are kept although the process was not resized.
KeptOnFailure(next) == next

\* The claims after a resize that failed.
RolledBack(next) == clients

\* A claim or its release; a resize that fails is rolled back, and too many
\* invalid messages end the connection.
ServerTakesClaim(c) ==
    /\ c \in alive /\ sent[c] # <<>> /\ sent' = [sent EXCEPT ![c] = Tail(@)]
    /\ LET next == Set(c, Head(sent[c]))
       IN \/ /\ ~Changed(next) /\ clients' = next
             /\ UNCHANGED <<alive, opener, size, rejected>>
          \/ /\ Changed(next) /\ CanResize
             /\ clients' = next /\ size' = Min(Claims(next))
             /\ UNCHANGED <<alive, opener, rejected>>
          \/ /\ Changed(next) /\ ~CanResize /\ rejected[c] + 1 < InvalidLimit
             /\ rejected' = [rejected EXCEPT ![c] = @ + 1]
             /\ clients' = RolledBack(next)
             /\ UNCHANGED <<alive, opener, size>>
          \/ /\ Changed(next) /\ ~CanResize /\ rejected[c] + 1 = InvalidLimit
             /\ clients' = Without(c) /\ alive' = alive \ {c}
             /\ rejected' = [rejected EXCEPT ![c] = InvalidLimit]
             /\ opener' = IF DOMAIN clients = {c} THEN None ELSE opener
             /\ UNCHANGED size
    /\ UNCHANGED <<layout, browser, losses>>

\* The handler learns that its connection is gone, from the socket or from a
\* ping without an answer: it cancels its context, then unsubscribes.
ServerLeaves(c) ==
    /\ c \in alive \ intact /\ alive' = alive \ {c}
    /\ clients' = Without(c)
    /\ size' = IF clients[c] # 0 /\ Changed(Without(c)) /\ opener \in alive'
               THEN Min(Claims(Without(c))) ELSE size
    /\ opener' = IF DOMAIN clients = {c} THEN None ELSE opener
    /\ sent' = [sent EXCEPT ![c] = <<>>]
    /\ UNCHANGED <<layout, browser, rejected, losses>>

-----------------------------------------------------------------------------
(* Connecting. *)

\* createTicket and the socket; handleOpen reports the capacity.
Connect(v) ==
    /\ state[v] = "connecting"
    /\ LET c == <<v, count[v] + 1>>
       IN /\ Subscribe(c) /\ intact' = intact \cup {c}
          /\ Reports(v, c, Capacity(v, 0, FALSE))
    /\ count' = [count EXCEPT ![v] = @ + 1]
    /\ state' = [state EXCEPT ![v] = "connected"]
    /\ UNCHANGED <<layout, claimDue, size, rejected, losses>>

\* handleClose
Drop(v) ==
    /\ state' = [state EXCEPT ![v] = "disconnected"]
    /\ intact' = intact \ {Conn(v)}

ConnectionBreaks(v) ==
    /\ state[v] = "connected" /\ losses < MaxLosses /\ losses' = losses + 1
    /\ Drop(v)
    /\ UNCHANGED <<layout, count, claimDue, lastSize, claimActive, sent, group>>

\* The group closed the connection for its invalid messages.
HearsClose(v) ==
    /\ state[v] = "connected" /\ Conn(v) \notin alive
    /\ Drop(v)
    /\ UNCHANGED <<layout, count, claimDue, lastSize, claimActive, sent, group,
                   losses>>

\* reconnectDisconnected, after the backoff or when the page is seen again.
Reconnects(v) ==
    /\ state[v] = "disconnected"
    /\ state' = [state EXCEPT ![v] = "connecting"]
    /\ UNCHANGED <<layout, count, claimDue, lastSize, claimActive, intact, sent,
                   group, losses>>

\* The effect starts over: another font, or the view is mounted again.
RemountView(v) ==
    /\ state[v] = "connected" /\ losses < MaxLosses
    /\ losses' = losses + 1
    /\ state' = [state EXCEPT ![v] = "connecting"]
    /\ intact' = intact \ {Conn(v)}
    /\ UNCHANGED <<layout, count, claimDue, lastSize, claimActive, sent, group>>

-----------------------------------------------------------------------------
SizesInit ==
    /\ state = [v \in Views |-> "connecting"]
    /\ count = [v \in Views |-> 0]
    /\ hidden = [v \in Views |-> FALSE] /\ covered = [v \in Views |-> FALSE]
    /\ room \in [Views -> Rooms] /\ claimDue = [v \in Views |-> FALSE]
    /\ lastSize = [v \in Views |-> 0] /\ claimActive = [v \in Views |-> FALSE]
    /\ sent = [c \in Conns |-> <<>>] /\ intact = {} /\ alive = {}
    /\ clients = <<>> /\ opener = None
    /\ size = Max(Rooms) /\ rejected = [c \in Conns |-> 0]
    /\ layouts = 0 /\ losses = 0

View(v) ==
    \/ Report(v) \/ Resized(v) \/ TogglesPane(v) \/ TogglesSource(v)
    \/ Connect(v) \/ ConnectionBreaks(v) \/ HearsClose(v) \/ Reconnects(v)
    \/ RemountView(v)

Group == \E c \in Conns : ServerTakesClaim(c) \/ ServerLeaves(c)

SizesNext == (\E v \in Views : View(v)) \/ Group

\* Events of the page are handled, the group reads and pings, and the page
\* tries to connect until the group answers.
PageTurns(v) == Report(v) \/ Connect(v) \/ HearsClose(v) \/ Reconnects(v)

SizesFairness ==
    /\ \A v \in Views : WF_sizesVars(PageTurns(v))
    /\ WF_sizesVars(Group)

SizesSpec == SizesInit /\ [][SizesNext]_sizesVars /\ SizesFairness
-----------------------------------------------------------------------------
SizesTypeOK ==
    /\ state \in [Views -> {"connecting", "connected", "disconnected"}]
    /\ DOMAIN clients = alive
    /\ opener \in Conns \cup {None} /\ size \in Rooms
    /\ \A c \in DOMAIN clients : clients[c] \in Rooms \cup {0}
    /\ lastSize \in [Views -> Rooms \cup {0}]

\* The process is never larger than a claim of a view, even when a claim, a
\* release or a departure could not be applied.
NeverTooLarge == \A c \in DOMAIN clients : clients[c] # 0 => size <= clients[c]

\* Nothing is left to do.
Quiet ==
    /\ \A v \in Views :
           state[v] = "connected" /\ ~claimDue[v] /\ Conn(v) \in alive
    /\ \A c \in Conns : sent[c] = <<>>
    /\ alive \subseteq intact

\* Once things are quiet, while the connection that opened the group lives,
\* each view claims the room it has if it is in sight, nothing if it is not,
\* and what it last had if it is covered; and the process has the smallest.
SizeSettles ==
    Quiet /\ CanResize =>
        /\ \A v \in Views :
               /\ hidden[v] => clients[Conn(v)] = 0
               /\ ~hidden[v] /\ ~covered[v] => clients[Conn(v)] = room[v]
        /\ Claims(clients) # {} => size = Min(Claims(clients))

\* The design of the shared size recomputes it when a browser changes its
\* capacity or disconnects.
SmallestClaimed ==
    Quiet /\ Claims(clients) # {} => size = Min(Claims(clients))

\* Whatever breaks, everything connects again and the claims settle.
Settles == <>[]Quiet
=============================================================================
