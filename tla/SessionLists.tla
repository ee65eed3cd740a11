---------------------------- MODULE SessionLists ----------------------------
(***************************************************************************)
(* The list of terminals a browser shows (web/src/App.tsx).  It is         *)
(* replaced by snapshots that polls, events, the first load and the        *)
(* verification of a launch ask for, edited by the answers to the user's   *)
(* own requests, and put in another order by drags that show at once and   *)
(* are saved one at a time (Manager.ReorderCurrent).  A terminal is its    *)
(* number.                                                                 *)
(***************************************************************************)
EXTENDS Naturals, Sequences, FiniteSets, SequencesExt, Rows

CONSTANTS
    None,
    MaxTerminals,   \* bound: terminals ever created
    Attempts,       \* agentLaunchVerificationAttempts
    MaxLists,       \* bound: snapshots asked for and not handled
    MaxActs,        \* bound: drags and requests of this user
    MaxEvents       \* bound: changes by other clients, requests that fail, new
                    \* tokens

Ids == 1..MaxTerminals
Kinds == {"create", "remove", "launch"}
Stages == {"starting", "timer", "verifying"}

Reply == [failed : BOOLEAN, items : Seq(Ids)]
Order == [ids : Seq(Ids), token : Nat, fresh : BOOLEAN, answer : Reply \cup {None}]
Errand == [kind : Kinds, id : Ids \cup {None}, token : Nat,
           answer : {None, "done", "failed"}]
Launch == [id : Ids \cup {None}, stage : Stages, attempt : Nat, token : Nat]

ASSUME ListsAssumption ==
    /\ {MaxTerminals, Attempts, MaxLists} \subseteq Nat \ {0}
    /\ {MaxActs, MaxEvents} \subseteq Nat
    /\ None \notin Nat /\ None \notin {"done", "failed"} /\ None \notin Seq(Ids)
    /\ None \notin Order /\ None \notin Errand /\ None \notin Launch

VARIABLES
    server, made, valid,    \* its terminals in order; how many ever; its token
    token,                  \* 0 while the browser asks for one
    shown,                  \* sessions
    endpoint,               \* projectEndpointAvailableRef
    desired, committed,     \* of the SidebarOrderSync, committed while desired
    flight,                 \* its request: fresh while no newer revision
    lists,                  \* snapshots asked for, in that order: late once a
                            \* younger one was applied
    latest,                 \* the terminals of latestSessionSnapshotRef, kept
                            \* while a launch reads it
    call,                   \* the user's request in flight
    launch,                 \* the verification of the last agent started
    alarms,                 \* terminals said to have exited at once
    wish,                   \* history: the last drag, while no failure and no
                            \* other client has replaced its order, without
                            \* terminals that a snapshot did not have
    acted, happened

host == <<server, made, valid>>
ordering == <<desired, committed, flight, wish>>
reading == <<lists, latest>>
starting == <<launch, alarms>>
budget == <<acted, happened>>
vars == <<host, token, shown, endpoint, ordering, reading, call, starting,
          budget>>

Without(seq, id) == Drop(seq, {id})
Acts == acted < MaxActs /\ acted' = acted + 1 /\ UNCHANGED happened
Happens == happened < MaxEvents /\ happened' = happened + 1 /\ UNCHANGED acted
Failed(answer) == answer # None /\ answer.failed
Current == IF shown = None THEN <<>> ELSE shown

-----------------------------------------------------------------------------
(* Snapshots. *)

Asked(for, id, key) ==
    Append(lists, [for |-> for, id |-> id, token |-> key, late |-> FALSE,
                   answer |-> None])
Ask(for, id, key) == lists' = Asked(for, id, key) /\ UNCHANGED latest

\* applySessionSnapshot: a drag that is not saved yet keeps its order, with the
\* terminals that came and without those that went.
Reconciled(items) == Keep(desired, ToSet(items)) \o Drop(items, ToSet(desired))

\* Fault: an answer shows the server's order during a drag.
ApplyUnordered(items) ==
    /\ shown' = items
    /\ UNCHANGED <<desired, flight, wish>>

Apply(items) ==
    IF desired = None
    THEN shown' = items /\ UNCHANGED <<desired, flight, wish>>
    ELSE /\ desired' = Reconciled(items)
         /\ flight' = IF desired' # desired /\ flight # None
                      THEN [flight EXCEPT !.fresh = FALSE] ELSE flight
         /\ shown' = InOrder(items, desired')
         /\ wish' = IF wish = None THEN None
                    ELSE Keep(wish, ToSet(items))

\* What an overtaken answer says does not matter any more.
Overtaken(l) == [l EXCEPT !.late = TRUE,
                          !.answer = IF Failed(@) THEN @ ELSE None]

\* listSessionSnapshot takes an answer: null when a younger one was applied.
Received(i) ==
    LET rest == RemoveAt(lists, i) IN
    IF lists[i].answer.failed \/ lists[i].late
    THEN lists' = rest /\ UNCHANGED latest
    ELSE /\ lists' = [j \in DOMAIN rest |->
                IF j < i THEN Overtaken(rest[j]) ELSE rest[j]]
         /\ latest' = IF launch = None THEN {} ELSE ToSet(lists[i].answer.items)
Usable(i) == ~lists[i].answer.failed /\ ~lists[i].late
Arrived(i, for) ==
    i \in DOMAIN lists /\ lists[i].for = for /\ lists[i].answer # None

ServerLists(i) ==
    /\ i \in DOMAIN lists /\ lists[i].answer = None
    /\ lists' = [lists EXCEPT ![i].answer =
           [failed |-> lists[i].token # valid,
            items |-> IF lists[i].token = valid /\ ~lists[i].late
                     THEN server ELSE <<>>]]
    /\ UNCHANGED <<host, token, shown, endpoint, ordering, latest, call,
                   starting, budget>>

ListBreaks(i) ==
    /\ i \in DOMAIN lists /\ Happens
    /\ ~Failed(lists[i].answer)
    /\ lists' = [lists EXCEPT ![i].answer = [failed |-> TRUE, items |-> <<>>]]
    /\ UNCHANGED <<host, token, shown, endpoint, ordering, latest, call,
                   starting>>

\* The interval of 1.5 s, and an event of a terminal or an agent.
Poll ==
    /\ token # 0 /\ shown # None /\ Len(lists) < MaxLists
    /\ Ask("poll", None, token)
    /\ UNCHANGED <<host, token, shown, endpoint, ordering, call, starting,
                   budget>>

TakePoll(i) ==
    /\ Arrived(i, "poll") \/ Arrived(i, "dropped")
    /\ Received(i)
    /\ IF Usable(i) /\ lists[i].for # "dropped"
       THEN Apply(lists[i].answer.items)
       ELSE UNCHANGED <<shown, desired, flight, wish>>
    /\ UNCHANGED <<host, token, endpoint, committed, call, starting,
                   budget>>

-----------------------------------------------------------------------------
(* Signing in, and the first load. *)

\* The effects of a token that is given up: the list goes, and what the first
\* load and the event loop asked for is not theirs any more.
Dropped(l) == IF l.for = "load" THEN [l EXCEPT !.for = "dropped"] ELSE l
SignOut ==
    /\ token' = 0 /\ shown' = None /\ endpoint' = FALSE

\* The event stream answers 401.
StreamRefused ==
    /\ token # 0 /\ shown # None /\ token # valid
    /\ SignOut /\ lists' = [j \in DOMAIN lists |-> Dropped(lists[j])]
    /\ UNCHANGED <<host, ordering, latest, call, starting, budget>>

Authenticate ==
    /\ token = 0 /\ token' = valid
    /\ Len(lists) < MaxLists /\ Ask("load", None, valid)
    /\ UNCHANGED <<host, shown, endpoint, ordering, call, starting, budget>>

\* loadInitialState; the server may be too old to have projects.
TakeLoad(i) ==
    /\ Arrived(i, "load") /\ Received(i)
    /\ \/ /\ Usable(i) /\ shown' = lists[i].answer.items
          /\ endpoint' \in BOOLEAN /\ UNCHANGED token
       \/ /\ lists[i].answer.failed /\ lists[i].token # valid /\ SignOut
       \/ /\ ~Usable(i) /\ (lists[i].answer.failed => lists[i].token = valid)
          /\ UNCHANGED <<token, shown, endpoint>>
    /\ UNCHANGED <<host, ordering, call, starting, budget>>

Revoke ==
    /\ Happens /\ valid' = valid + 1
    /\ UNCHANGED <<server, made, token, shown, endpoint, ordering, reading,
                   call, starting>>

-----------------------------------------------------------------------------
(* The order. *)

\* flushSidebarSessionOrder, of the browser state that key belongs to.
Request(ids, key) ==
    [ids |-> ids, token |-> key, fresh |-> TRUE, answer |-> None]

\* reorderSidebarSessions: the sidebar moves a terminal of a project to the place
\* of another one.
Drag(id, target) ==
    /\ Acts
    /\ token # 0 /\ endpoint /\ shown # None
    /\ {id, target} \subseteq ToSet(shown) /\ id # target
    /\ LET optimistic == InOrder(shown, Moved(shown, Place(shown, id), Place(shown, target))) IN
       /\ optimistic # shown
       /\ committed' = IF desired = None THEN shown ELSE committed
       /\ desired' = optimistic /\ shown' = optimistic /\ wish' = optimistic
       /\ flight' = IF flight = None THEN Request(optimistic, token)
                    ELSE [flight EXCEPT !.fresh = FALSE]
    /\ UNCHANGED <<host, token, endpoint, reading, call, starting>>

\* ReorderCurrent refuses a list that is not exactly the current terminals.
ServerOrders ==
    /\ flight # None /\ flight.answer = None
    /\ LET good == /\ flight.token = valid /\ Len(flight.ids) = Len(server)
                   /\ ToSet(flight.ids) = ToSet(server)
       IN  /\ server' = IF good THEN flight.ids ELSE server
           /\ flight' = [flight EXCEPT !.answer = [failed |-> ~good,
                  items |-> IF good THEN flight.ids ELSE <<>>]]
    /\ UNCHANGED <<made, valid, token, shown, endpoint, desired, committed,
                   wish, reading, call, starting, budget>>

FlightBreaks ==
    /\ flight # None /\ Happens
    /\ ~Failed(flight.answer)
    /\ flight' = [flight EXCEPT !.answer = [failed |-> TRUE, items |-> <<>>]]
    /\ UNCHANGED <<host, token, shown, endpoint, desired, committed, wish,
                   reading, call, starting>>

\* Fault: a drag during a save is not saved.
NextOrderDropped(want) == None

\* finally: the next order, with the client of the first one.
NextOrder(want) == IF want = None THEN None ELSE Request(want, flight.token)

OrderSaved ==
    /\ flight # None /\ flight.answer # None /\ ~flight.answer.failed
    /\ IF flight.fresh
       THEN /\ desired' = None /\ committed' = None
            /\ shown' = InOrder(Current, flight.answer.items)
       ELSE /\ committed' = flight.answer.items
            /\ UNCHANGED desired /\ shown' = Current
    /\ flight' = NextOrder(desired')
    /\ UNCHANGED <<host, token, endpoint, wish, reading, call, starting, budget>>

OrderRefused ==
    /\ flight # None /\ flight.answer # None /\ flight.answer.failed
    /\ IF flight.fresh
       THEN /\ desired' = None /\ committed' = None /\ wish' = None
            /\ shown' = InOrder(Current, committed)
       ELSE UNCHANGED <<desired, committed, wish, shown>>
    /\ flight' = NextOrder(desired')
    /\ UNCHANGED <<host, token, endpoint, reading, call, starting, budget>>

-----------------------------------------------------------------------------
(* Requests of the user. *)

Call(kind, id) ==
    /\ Acts
    /\ token # 0 /\ shown # None /\ call = None
    /\ call' = [kind |-> kind, id |-> id, token |-> token, answer |-> None]

\* createSession, deleteSessions and archiveSession.
Create ==
    /\ made < MaxTerminals /\ Call("create", None)
    /\ UNCHANGED <<host, token, shown, endpoint, ordering, reading, starting>>

RemoveTerminal(id) ==
    /\ shown # None /\ id \in ToSet(shown) /\ Call("remove", id)
    /\ UNCHANGED <<host, token, shown, endpoint, ordering, reading, starting>>

\* startAgentInProject, one at a time until the list was read once.
Start ==
    /\ made < MaxTerminals /\ endpoint
    /\ launch # None => launch.stage \in {"timer", "verifying"}
    /\ Call("launch", None)
    /\ launch' = [id |-> None, stage |-> "starting", attempt |-> 1,
                  token |-> token]
    /\ UNCHANGED <<host, token, shown, endpoint, ordering, reading, alarms>>

ServerCalls ==
    /\ call # None /\ call.answer = None
    /\ IF \/ call.token # valid
          \/ call.kind = "remove" /\ call.id \notin ToSet(server)
          \/ call.kind # "remove" /\ made = MaxTerminals
       THEN /\ call' = [call EXCEPT !.answer = "failed"]
            /\ UNCHANGED <<server, made>>
       ELSE IF call.kind = "remove"
       THEN /\ server' = Without(server, call.id) /\ UNCHANGED made
            /\ call' = [call EXCEPT !.answer = "done"]
       ELSE /\ made' = made + 1 /\ server' = Append(server, made + 1)
            /\ call' = [call EXCEPT !.answer = "done", !.id = made + 1]
    /\ UNCHANGED <<valid, token, shown, endpoint, ordering, reading, starting,
                   budget>>

CallBreaks ==
    /\ call # None /\ Happens
    /\ call.answer # "failed" /\ call' = [call EXCEPT !.answer = "failed"]
    /\ UNCHANGED <<host, token, shown, endpoint, ordering, reading, starting>>

Created ==
    /\ call # None /\ call.answer = "done" /\ call.kind # "remove"
    /\ shown' = Append(Current, call.id) /\ call' = None
    /\ IF call.kind = "launch"
       THEN /\ Len(lists) < MaxLists /\ Ask("start", call.id, call.token)
            /\ launch' = [launch EXCEPT !.id = call.id]
       ELSE UNCHANGED <<reading, launch>>
    /\ UNCHANGED <<host, token, endpoint, ordering, alarms, budget>>

Removed ==
    /\ call # None /\ call.answer = "done" /\ call.kind = "remove"
    /\ shown' = IF shown = None THEN None ELSE Without(shown, call.id)
    /\ call' = None
    /\ UNCHANGED <<host, token, endpoint, ordering, reading, starting, budget>>

CallFailed ==
    /\ call # None /\ call.answer = "failed" /\ call' = None
    /\ launch' = IF call.kind = "launch" THEN None ELSE launch
    /\ UNCHANGED <<host, token, shown, endpoint, ordering, reading, alarms,
                   budget>>

-----------------------------------------------------------------------------
(* The verification of a launch. *)

Wait(attempt) == [launch EXCEPT !.stage = "timer", !.attempt = attempt]

\* The refresh after the start; a failure is left to the verification.
TakeStart(i) ==
    /\ Arrived(i, "start") /\ Received(i)
    /\ IF Usable(i) THEN Apply(lists[i].answer.items)
       ELSE UNCHANGED <<shown, desired, flight, wish>>
    /\ launch' = Wait(1)
    /\ UNCHANGED <<host, token, endpoint, committed, call, alarms, budget>>

VerificationDue ==
    /\ launch # None /\ launch.stage = "timer" /\ Len(lists) < MaxLists
    /\ Ask("verify", launch.id, launch.token)
    /\ launch' = [launch EXCEPT !.stage = "verifying"]
    /\ UNCHANGED <<host, token, shown, endpoint, ordering, call, alarms, budget>>

\* Fault: a snapshot that a younger one overtook is judged too.
VerifiedBlindly(i) ==
    LET here == ~lists[i].answer.failed /\ lists[i].id \in ToSet(lists[i].answer.items)
    IN  /\ alarms' = IF here THEN alarms ELSE alarms \cup {lists[i].id}
        /\ launch' = IF here /\ launch.attempt < Attempts
                     THEN Wait(launch.attempt + 1) ELSE None
        /\ UNCHANGED <<shown, desired, flight, wish>>

\* verifyLaunch goes on: another launch may have taken its place.
Verified(i) ==
    LET id == lists[i].id
        again == launch.attempt < Attempts
        answer == lists[i].answer
    IN  IF answer.failed
        THEN /\ launch' = IF again THEN Wait(launch.attempt + 1) ELSE None
             /\ UNCHANGED <<shown, desired, flight, wish, alarms>>
        ELSE IF lists[i].late
        THEN /\ launch' = IF id \in latest
                          THEN None ELSE Wait(launch.attempt)
             /\ UNCHANGED <<shown, desired, flight, wish, alarms>>
        ELSE /\ Apply(answer.items)
             /\ IF id \notin ToSet(answer.items)
                THEN alarms' = alarms \cup {id} /\ launch' = None
                ELSE /\ launch' = IF again THEN Wait(launch.attempt + 1) ELSE None
                     /\ UNCHANGED alarms

TakeVerification(i) ==
    /\ Arrived(i, "verify") /\ Received(i)
    /\ IF launch # None /\ launch.id = lists[i].id
       THEN Verified(i)
       ELSE UNCHANGED <<shown, desired, flight, wish, starting>>
    /\ UNCHANGED <<host, token, endpoint, committed, call, budget>>

-----------------------------------------------------------------------------
(* Other clients. *)

OtherChanges ==
    /\ Happens
    /\ \/ /\ made < MaxTerminals /\ made' = made + 1
          /\ server' = Append(server, made + 1) /\ UNCHANGED wish
       \/ /\ \E id \in ToSet(server) : server' = Without(server, id)
          /\ UNCHANGED <<made, wish>>
       \/ /\ \E i \in 1..(Len(server) - 1) :
              server' = [server EXCEPT ![i] = server[i + 1], ![i + 1] = server[i]]
          /\ wish' = None /\ UNCHANGED made
    /\ UNCHANGED <<valid, token, shown, endpoint, desired, committed, flight,
                   reading, call, starting>>

-----------------------------------------------------------------------------
Init ==
    /\ made = MaxTerminals - 1 /\ server = [i \in 1..made |-> i] /\ valid = 1
    /\ token = 0 /\ shown = None /\ endpoint = FALSE
    /\ desired = None /\ committed = None /\ flight = None /\ wish = None
    /\ lists = <<>> /\ latest = {} /\ call = None
    /\ launch = None /\ alarms = {}
    /\ acted = 0 /\ happened = 0

Lists == 1..MaxLists
Takes == \E i \in Lists : TakePoll(i) \/ TakeLoad(i) \/ TakeStart(i)
                          \/ TakeVerification(i)
Answers == \E i \in Lists : ServerLists(i)

Next ==
    \/ Poll \/ Answers \/ Takes \/ (\E i \in Lists : ListBreaks(i))
    \/ StreamRefused \/ Authenticate \/ Revoke
    \/ (\E id, target \in Ids : Drag(id, target))
    \/ ServerOrders \/ FlightBreaks \/ OrderSaved \/ OrderRefused
    \/ Create \/ Start \/ (\E id \in Ids : RemoveTerminal(id))
    \/ ServerCalls \/ CallBreaks \/ Created \/ Removed \/ CallFailed
    \/ VerificationDue \/ OtherChanges

\* The interval rings, lists are answered and taken; orders are saved; calls are
\* answered and launches verified.
Reads == Poll \/ Answers \/ Takes
Saving == ServerOrders \/ OrderSaved \/ OrderRefused
Calls == ServerCalls \/ Created \/ Removed \/ CallFailed \/ VerificationDue

\* None of them stops for ever, and the event loop connects again.
Fairness ==
    /\ WF_vars(Reads) /\ WF_vars(Saving) /\ WF_vars(Calls)
    /\ WF_vars(StreamRefused)

Spec == Init /\ [][Next]_vars /\ Fairness

-----------------------------------------------------------------------------
(* Properties. *)

TypeOK ==
    /\ server \in Seq(Ids) /\ made \in 0..MaxTerminals /\ token \in 0..valid
    /\ \A ids \in {shown, desired, committed, wish} \ {None} :
           ids \in Seq(Ids)
    /\ flight \in Order \cup {None} /\ call \in Errand \cup {None}
    /\ launch \in Launch \cup {None}
    /\ Len(lists) <= MaxLists /\ alarms \subseteq 1..made
    /\ desired # None => flight # None
    /\ launch # None => (launch.id = None <=> call # None /\ call.kind = "launch")

\* A drag stays on screen until it is saved or refused: no poll, event, launch
\* or answer to an older drag moves a terminal back meanwhile.  A user who has
\* to sign in again meanwhile sees the server's order.
DragStays ==
    desired # None /\ shown # None /\ flight.token = token => Agree(shown, desired)

\* The last of several drags wins: once nothing is left to save, the server has
\* its order, or the browser was told that it could not be saved.  A terminal
\* that a snapshot lacks, because it is older than the terminal, loses its place.
LastDragSaved == wish # None /\ desired = None => Agree(server, wish)

\* The types, and what a drag is owed until it is saved and after.
ListsInv == TypeOK /\ DragStays /\ LastDragSaved

\* A user is told that an agent exited at once only when its terminal is gone,
\* whatever snapshots are late, lost or overtaken.
NoFalseAlarm == alarms \cap ToSet(server) = {}

\* In the end a signed-in browser shows the terminals of the server in their
\* order, and no drag is left unsaved.
ListSettles ==
    <>[](token # 0 /\ shown # None => shown = server /\ desired = None)

=============================================================================
