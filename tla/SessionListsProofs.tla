------------------------- MODULE SessionListsProofs -------------------------
(***************************************************************************)
(* Proofs about the list of terminals a browser shows, for any number of   *)
(* terminals, snapshots, drags, requests, faults and tokens.               *)
(*                                                                         *)
(* What an order promises is about which of two terminals comes first;     *)
(* RowsProofs says what leaves that alone.  A row may name a terminal      *)
(* twice: a snapshot can bring a terminal before the answer that created   *)
(* it does.                                                                *)
(***************************************************************************)
EXTENDS SessionLists, RowsProofs

-----------------------------------------------------------------------------
(* The inductive invariant. *)

\* The terminals there were so far, and the types over them.
Made == 1..made
Listings == Seq(Made) \cup {None}
Replies == [failed : BOOLEAN, items : Seq(Made)]
Orders == [ids : Seq(Made), token : Nat, fresh : BOOLEAN, answer : Replies \cup {None}]
Errands == [kind : Kinds, id : Made \cup {None}, token : Nat,
            answer : {None, "done", "failed"}]
Launches == [id : Made \cup {None}, stage : Stages, attempt : Nat, token : Nat]
Purposes == {"poll", "load", "dropped", "start", "verify"}
Asks == [for : Purposes, id : Made \cup {None}, token : Nat, late : BOOLEAN,
         answer : Replies \cup {None}]

\* Ranges: no list names a terminal that was never made.
Sorts ==
    /\ made \in 0..MaxTerminals /\ valid \in Nat \ {0} /\ token \in 0..valid
    /\ server \in Seq(Made) /\ shown \in Listings
    /\ desired \in Listings /\ committed \in Listings /\ wish \in Listings
    /\ endpoint \in BOOLEAN /\ flight \in Orders \cup {None}
    /\ lists \in Seq(Asks) /\ Len(lists) <= MaxLists
    /\ call \in Errands \cup {None} /\ launch \in Launches \cup {None}
    /\ alarms \subseteq Made

\* An order is on its way while there is one to save; the last one asked for is the
\* desired one, unless a newer one came.
Saves ==
    /\ desired # None <=> flight # None
    /\ desired # None => committed # None
    /\ flight # None /\ flight.fresh => flight.ids = desired

\* An order is never sent with a token newer than the browser's, and one that was
\* sent with the token of now is about the list that shows.
Keys ==
    /\ endpoint => shown # None /\ token # 0
    /\ flight # None =>
           /\ flight.token \in 1..valid
           /\ flight.token < valid \/ token # 0
           /\ flight.token <= token \/ token = 0
           /\ flight.token = token => shown # None

\* The only first load on its way is that of this token, and no order is of this
\* token before it is there.
LoadIs(l) ==
    l.for = "load" =>
        /\ token # 0 /\ l.token = token /\ ~endpoint
        /\ flight # None => flight.token # token
\* The only refresh after a start is that of the launch, which has no timer yet.
StartIs(l) ==
    l.for = "start" => launch # None /\ launch.id = l.id /\ launch.stage = "starting"
                       /\ l.id \in Made
\* A verification is about a terminal that was made; when an answer that counts does
\* not have it, the server does not have it any more.
VerifyIs(l) ==
    l.for = "verify" =>
        /\ l.id \in Made
        /\ l.answer # None /\ ~l.answer.failed /\ ~l.late
               /\ l.id \notin ToSet(l.answer.items) => l.id \notin ToSet(server)
AskIs(l) == LoadIs(l) /\ StartIs(l) /\ VerifyIs(l)
OnlyOne(for) == \A i, j \in DOMAIN lists :
    lists[i].for = for /\ lists[j].for = for => i = j
Asking ==
    /\ \A i \in DOMAIN lists : AskIs(lists[i])
    /\ OnlyOne("load") /\ OnlyOne("start")

\* A launch has no terminal exactly while it is being created.
Launching ==
    /\ launch # None /\ launch.id = None => call # None /\ call.kind = "launch"
    /\ call # None /\ call.kind = "launch" =>
           launch # None /\ launch.id = None /\ launch.stage = "starting"

\* A creation that is done says what it made, and the page has that terminal in its
\* list when it has it in the order to be saved.
Calling ==
    call # None /\ call.kind # "remove" =>
        /\ call.answer = "done" => call.id \in Made
        /\ desired # None /\ flight.token = token /\ call.id \in ToSet(desired)
               => call.id \in ToSet(shown)

\* What is saved has the order of the last drag.
Wishing ==
    wish # None =>
        /\ desired # None => ToSet(wish) \subseteq ToSet(desired) /\ Agree(desired, wish)
        /\ desired = None => Agree(server, wish)
        /\ flight # None /\ flight.fresh /\ flight.answer # None /\ ~flight.answer.failed
               => Agree(server, wish)

ListsKnown ==
    /\ Sorts /\ Saves /\ Keys /\ Asking /\ Launching /\ Calling /\ Wishing
    /\ DragStays /\ NoFalseAlarm

-----------------------------------------------------------------------------
(* Types. *)

\* The types grow with the terminals.
LEMMA MadeGrows ==
    ASSUME Sorts, made' \in 0..MaxTerminals, made <= made'
    PROVE  /\ Made \subseteq Made' /\ Seq(Made) \subseteq Seq(Made')
           /\ Listings \subseteq Listings' /\ Replies \subseteq Replies'
           /\ Orders \subseteq Orders' /\ Errands \subseteq Errands'
           /\ Launches \subseteq Launches' /\ Asks \subseteq Asks'
           /\ Seq(Asks) \subseteq Seq(Asks')
<1>1. Made \subseteq Made'
  BY ListsAssumption DEF Made, Sorts, ListsAssumption
<1>2. Seq(Made) \subseteq Seq(Made')
  BY <1>1, SeqMonotonic
<1>3. Listings \subseteq Listings'
  BY <1>2 DEF Listings
<1>4. Replies \subseteq Replies'
  BY <1>2 DEF Replies
<1>5. Orders \subseteq Orders'
  BY <1>2, <1>4 DEF Orders
<1>6. Errands \subseteq Errands'
  BY <1>1 DEF Errands
<1>7. Launches \subseteq Launches'
  BY <1>1 DEF Launches
<1>8. Asks \subseteq Asks'
  BY <1>1, <1>4 DEF Asks
<1>9. Seq(Asks) \subseteq Seq(Asks')
  BY <1>8, SeqMonotonic
<1>10. QED
  BY <1>1, <1>2, <1>3, <1>4, <1>5, <1>6, <1>7, <1>8, <1>9

LEMMA MadeStays ==
    ASSUME Sorts, made' = made
    PROVE  /\ Made' = Made /\ Seq(Made') = Seq(Made) /\ Listings' = Listings
           /\ Replies' = Replies /\ Orders' = Orders /\ Errands' = Errands
           /\ Launches' = Launches /\ Asks' = Asks /\ Seq(Asks') = Seq(Asks)
<1>1. Made' = Made
  BY DEF Made
<1>2. Listings' = Listings /\ Replies' = Replies
  BY <1>1 DEF Listings, Replies
<1>3. Orders' = Orders /\ Errands' = Errands /\ Launches' = Launches /\ Asks' = Asks
  BY <1>1, <1>2 DEF Orders, Errands, Launches, Asks
<1>4. QED
  BY <1>1, <1>2, <1>3

\* None is nothing else.
LEMMA NoneIsNone ==
    ASSUME Sorts
    PROVE  /\ None \notin Orders /\ None \notin Errands /\ None \notin Launches
           /\ None \notin Seq(Made) /\ None \notin Made
           /\ Made \subseteq Ids /\ Seq(Made) \subseteq Seq(Ids)
           /\ Orders \subseteq Order /\ Errands \subseteq Errand
           /\ Launches \subseteq Launch
<1>1. Made \subseteq Ids /\ Ids \subseteq Nat
  BY ListsAssumption DEF Made, Ids, Sorts, ListsAssumption
<1>2. Seq(Made) \subseteq Seq(Ids)
  BY <1>1, SeqMonotonic
<1>3. Replies \subseteq Reply
  BY <1>2 DEF Replies, Reply
<1>4. Orders \subseteq Order
  BY <1>2, <1>3 DEF Orders, Order
<1>5. Errands \subseteq Errand
  BY <1>1 DEF Errands, Errand
<1>6. Launches \subseteq Launch
  BY <1>1 DEF Launches, Launch
<1>7. QED
  BY <1>1, <1>2, <1>4, <1>5, <1>6, ListsAssumption DEF ListsAssumption

\* What a step leaves alone keeps its type.
LEMMA SortsKept ==
    ASSUME Sorts, made' \in 0..MaxTerminals, made <= made',
           valid' \in Nat \ {0}, token' \in 0..valid',
           server' = server \/ server' \in Seq(Made'),
           shown' = shown \/ shown' \in Listings',
           desired' = desired \/ desired' \in Listings',
           committed' = committed \/ committed' \in Listings',
           wish' = wish \/ wish' \in Listings',
           endpoint' \in BOOLEAN,
           flight' = flight \/ flight' \in Orders' \cup {None},
           lists' = lists \/ (lists' \in Seq(Asks') /\ Len(lists') <= MaxLists),
           call' = call \/ call' \in Errands' \cup {None},
           launch' = launch \/ launch' \in Launches' \cup {None},
           alarms' = alarms \/ alarms' \subseteq Made'
    PROVE  Sorts'
<1>1. server' \in Seq(Made') /\ shown' \in Listings' /\ desired' \in Listings'
      /\ committed' \in Listings' /\ wish' \in Listings'
  BY MadeGrows DEF Sorts
<1>2. flight' \in Orders' \cup {None} /\ lists' \in Seq(Asks') /\ Len(lists') <= MaxLists
  BY MadeGrows DEF Sorts
<1>3. call' \in Errands' \cup {None} /\ launch' \in Launches' \cup {None}
      /\ alarms' \subseteq Made'
  BY MadeGrows DEF Sorts
<1>4. QED
  BY <1>1, <1>2, <1>3 DEF Sorts

-----------------------------------------------------------------------------
(* What a step leaves alone. *)

LEMMA SavesKept ==
    ASSUME Saves, desired' = desired, committed' = committed, flight' = flight
    PROVE  Saves'
BY DEF Saves

LEMMA KeysKept ==
    ASSUME Keys, UNCHANGED <<endpoint, shown, token, valid, flight>> PROVE Keys'
BY DEF Keys

LEMMA LaunchingKept ==
    ASSUME Launching, launch' = launch, call' = call PROVE Launching'
BY DEF Launching

LEMMA CallingKept ==
    ASSUME Sorts, Calling, made' = made, UNCHANGED <<call, desired, flight, token, shown>>
    PROVE  Calling'
BY DEF Calling, Made

LEMMA WishingKept ==
    ASSUME Wishing, UNCHANGED <<wish, desired, server, flight>> PROVE Wishing'
BY DEF Wishing, Agree

LEMMA DragKept ==
    ASSUME DragStays, UNCHANGED <<desired, shown, flight, token>> PROVE DragStays'
BY DEF DragStays, Agree

LEMMA AlarmsKept ==
    ASSUME NoFalseAlarm, UNCHANGED <<alarms, server>> PROVE NoFalseAlarm'
BY DEF NoFalseAlarm

-----------------------------------------------------------------------------
(* The snapshots asked for. *)

LEMMA LoadKept ==
    ASSUME NEW l, LoadIs(l), token' = token, endpoint' = endpoint,
           flight' # None => flight # None /\ flight'.token = flight.token
    PROVE  LoadIs(l)'
BY DEF LoadIs

LEMMA StartKept ==
    ASSUME NEW l, StartIs(l), launch' = launch, Made \subseteq Made'
    PROVE  StartIs(l)'
BY DEF StartIs

LEMMA VerifyKept ==
    ASSUME NEW l, VerifyIs(l), Made \subseteq Made',
           ToSet(server') \cap Made \subseteq ToSet(server)
    PROVE  VerifyIs(l)'
BY DEF VerifyIs

\* A list stays what it is through a step that moves nothing it is about.
LEMMA AskKept ==
    ASSUME NEW l, AskIs(l), token' = token, endpoint' = endpoint,
           flight' # None => flight # None /\ flight'.token = flight.token,
           launch' = launch, Made \subseteq Made',
           ToSet(server') \cap Made \subseteq ToSet(server)
    PROVE  AskIs(l)'
BY LoadKept, StartKept, VerifyKept DEF AskIs

\* A list is what it should be when what was taken for it is.
LEMMA AskOf ==
    ASSUME NEW i, NEW l, l = lists'[i], AskIs(l)'
    PROVE  AskIs(lists[i])'
BY DEF AskIs, LoadIs, StartIs, VerifyIs

LEMMA AskingKept ==
    ASSUME Asking, lists' = lists, token' = token, endpoint' = endpoint,
           flight' # None => flight # None /\ flight'.token = flight.token,
           launch' = launch, Made \subseteq Made',
           ToSet(server') \cap Made \subseteq ToSet(server)
    PROVE  Asking'
<1>1. ASSUME NEW i \in DOMAIN lists' PROVE AskIs(lists[i])'
  <2>1. PICK l : l = lists[i]
    OBVIOUS
  <2>2. AskIs(l)
    BY <2>1 DEF Asking
  <2>3. AskIs(l)'
    BY <2>2, AskKept
  <2>4. l = lists'[i]
    BY <2>1
  <2>5. QED
    BY <2>3, <2>4, AskOf
<1>2. OnlyOne("load")' /\ OnlyOne("start")'
  BY DEF Asking, OnlyOne
<1>3. QED
  BY <1>1, <1>2 DEF Asking

-----------------------------------------------------------------------------
(* Applying a snapshot. *)

LEMMA ReconciledIs ==
    ASSUME Sorts, desired # None, NEW items \in Seq(Made)
    PROVE  /\ desired \in Seq(Made) /\ Reconciled(items) \in Seq(Made)
           /\ ToSet(Reconciled(items)) = ToSet(items)
<1> DEFINE a == Keep(desired, ToSet(items))
           b == Drop(items, ToSet(desired))
<1>1. desired \in Seq(Made)
  BY DEF Sorts, Listings
<1>2. a \in Seq(Made) /\ ToSet(a) = ToSet(desired) \cap ToSet(items)
  BY <1>1, KeepFacts
<1>3. b \in Seq(Made) /\ ToSet(b) = ToSet(items) \ ToSet(desired)
  BY DropFacts
<1>4. Reconciled(items) = a \o b
  BY DEF Reconciled
<1> HIDE DEF a, b
<1>5. a \o b \in Seq(Made) /\ ToSet(a \o b) = ToSet(a) \cup ToSet(b)
  BY <1>2, <1>3, ItemsAre
<1>6. QED
  BY <1>1, <1>2, <1>3, <1>4, <1>5

\* Types, and what the order that is on its way becomes.
LEMMA ApplyTypes ==
    ASSUME Sorts, Saves, NEW items \in Seq(Made), Apply(items)
    PROVE  /\ shown' \in Seq(Made) /\ shown' # None
           /\ desired' \in Listings /\ wish' \in Listings
           /\ flight' \in Orders \cup {None}
           /\ desired' = None <=> desired = None
           /\ flight' = None <=> flight = None
           /\ flight # None => /\ flight'.token = flight.token
                               /\ flight'.answer = flight.answer
                               /\ flight'.fresh => flight.fresh /\ desired' = desired
                               /\ flight'.ids = flight.ids
<1>1. CASE desired = None
  BY <1>1, NoneIsNone DEF Apply, Sorts, Saves
<1>2. CASE desired # None
  <2>1. desired' = Reconciled(items) /\ desired' \in Seq(Made) /\ desired' # None
    BY <1>2, ReconciledIs, NoneIsNone DEF Apply
  <2>2. shown' = InOrder(items, desired')
    BY <1>2 DEF Apply
  <2>3. shown' \in Seq(Made) /\ shown' # None
    BY <2>1, <2>2, InOrderFacts, NoneIsNone
  <2>4. flight \in Orders /\ flight # None
    BY <1>2 DEF Saves, Sorts
  <2>5. flight' = IF desired' # desired THEN [flight EXCEPT !.fresh = FALSE] ELSE flight
    BY <1>2, <2>4 DEF Apply
  <2>6. flight' \in Orders /\ flight'.token = flight.token /\ flight'.answer = flight.answer
        /\ flight'.ids = flight.ids /\ (flight'.fresh => flight.fresh /\ desired' = desired)
    BY <2>4, <2>5 DEF Orders
  <2>7. wish' \in Listings
    <3>1. wish' = IF wish = None THEN None ELSE Keep(wish, ToSet(items))
      BY <1>2 DEF Apply
    <3>2. wish # None => Keep(wish, ToSet(items)) \in Seq(Made)
      BY KeepFacts DEF Sorts, Listings
    <3>3. QED
      BY <3>1, <3>2 DEF Listings
  <2>8. QED
    BY <1>2, <2>1, <2>3, <2>4, <2>6, <2>7, NoneIsNone DEF Listings
<1>3. QED
  BY <1>1, <1>2

\* Both the list and the order to be saved have the terminals of the snapshot, and the
\* list has them in that order.
LEMMA ApplyOrders ==
    ASSUME Sorts, Saves, NEW items \in Seq(Made), Apply(items), desired # None
    PROVE  ToSet(desired') = ToSet(shown') /\ Agree(shown', desired')
<1>1. desired' = Reconciled(items) /\ desired' \in Seq(Made)
      /\ ToSet(desired') = ToSet(items)
  BY ReconciledIs DEF Apply
<1>2. shown' = InOrder(items, desired')
  BY DEF Apply
<1>3. QED
  BY <1>1, <1>2, InOrderFacts

\* The last drag loses the terminals the snapshot lacks, and nothing else.
LEMMA ApplyWish ==
    ASSUME Sorts, Saves, Wishing, NEW items \in Seq(Made), Apply(items),
           desired # None, wish # None
    PROVE  /\ ToSet(wish') \subseteq ToSet(desired') /\ Agree(desired', wish')
           /\ Agree(server, wish) => Agree(server, wish')
<1> DEFINE a == Keep(desired, ToSet(items))
           b == Drop(items, ToSet(desired))
           w == Keep(wish, ToSet(items))
<1>1. desired \in Seq(Made) /\ wish \in Seq(Made)
      /\ ToSet(wish) \subseteq ToSet(desired) /\ Agree(desired, wish)
  BY DEF Sorts, Listings, Wishing
<1>2. a \in Seq(Made) /\ ToSet(a) = ToSet(desired) \cap ToSet(items) /\ Agree(a, desired)
  BY <1>1, KeepFacts
<1>3. b \in Seq(Made) /\ ToSet(b) = ToSet(items) \ ToSet(desired)
  BY DropFacts
<1>4. w \in Seq(Made) /\ ToSet(w) = ToSet(wish) \cap ToSet(items) /\ Agree(w, wish)
  BY <1>1, KeepFacts
<1>5. desired' = a \o b /\ wish' = w
  BY DEF Apply, Reconciled
<1> HIDE DEF a, b, w
<1>6. ToSet(a \o b) = ToSet(a) \cup ToSet(b)
  BY <1>2, <1>3, ItemsAre
<1>7. Agree(wish, w)
  BY <1>4, AgreeTurned
<1>8. Agree(a, wish)
  BY <1>1, <1>2, AgreeThrough
<1>9. Agree(a, w)
  BY <1>2, <1>4, <1>7, <1>8, AgreeThrough
<1>10. ToSet(b) \cap ToSet(w) \subseteq ToSet(a)
  BY <1>1, <1>3, <1>4
<1>11. Agree(a \o b, w)
  BY <1>2, <1>3, <1>9, <1>10, AgreeConcat
<1>12. ASSUME Agree(server, wish) PROVE Agree(server, w)
  BY <1>4, <1>7, <1>12, AgreeThrough
<1>13. QED
  BY <1>1, <1>2, <1>3, <1>4, <1>5, <1>6, <1>11, <1>12

\* So applying a snapshot keeps what the order is about.
LEMMA ApplyKeeps ==
    ASSUME Sorts, Saves, Keys, Calling, Wishing, DragStays,
           NEW items \in Seq(Made), Apply(items),
           UNCHANGED <<server, made, valid, token, endpoint, committed, call>>
    PROVE  Saves' /\ Keys' /\ Calling' /\ Wishing' /\ DragStays'
<1>1. Saves'
  BY ApplyTypes DEF Saves
<1>2. Keys'
  BY ApplyTypes DEF Keys
<1>3. Calling'
  <2>1. Made' = Made
    BY MadeStays
  <2>2. desired' # None => ToSet(desired') = ToSet(shown')
    BY ApplyTypes, ApplyOrders
  <2>3. QED
    BY <2>1, <2>2 DEF Calling
<1>4. Wishing'
  <2>1. CASE desired = None
    <3>1. UNCHANGED <<desired, flight, wish>>
      BY <2>1 DEF Apply
    <3>2. QED
      BY <3>1, WishingKept
  <2>2. CASE desired # None /\ wish # None
    <3>1. ToSet(wish') \subseteq ToSet(desired') /\ Agree(desired', wish')
          /\ (Agree(server, wish) => Agree(server, wish'))
      BY <2>2, ApplyWish
    <3>2. desired' # None /\ flight # None /\ flight'.answer = flight.answer
          /\ (flight'.fresh => flight.fresh)
      BY <2>2, ApplyTypes DEF Saves
    <3>3. Wishing => (flight.fresh /\ flight.answer # None /\ ~flight.answer.failed
                          => Agree(server, wish))
      BY <2>2, <3>2 DEF Wishing
    <3>4. Agree(desired, wish)' /\ (Agree(server', wish') => Agree(server, wish)')
          /\ server' = server
      BY <3>1 DEF Agree
    <3>5. QED
      BY <3>1, <3>2, <3>3, <3>4 DEF Wishing
  <2>3. CASE desired # None /\ wish = None
    BY <2>3 DEF Apply, Wishing
  <2>4. QED
    BY <2>1, <2>2, <2>3
<1>5. DragStays'
  <2>1. CASE desired = None
    BY <2>1, ApplyTypes DEF DragStays
  <2>2. CASE desired # None
    BY <2>2, ApplyOrders DEF DragStays, Agree
  <2>3. QED
    BY <2>1, <2>2
<1>6. QED
  BY <1>1, <1>2, <1>3, <1>4, <1>5

\* What a handler of a snapshot does to the list and its order: it applies the
\* snapshot, or leaves them alone.
LEMMA AppliedOrNot ==
    ASSUME Sorts, Saves, Keys, Calling, Wishing, DragStays,
           NEW items, \/ Apply(items) /\ items \in Seq(Made)
                      \/ UNCHANGED <<shown, desired, flight, wish>>,
           UNCHANGED <<server, made, valid, token, endpoint, committed, call>>
    PROVE  /\ Saves' /\ Keys' /\ Calling' /\ Wishing' /\ DragStays'
           /\ shown' \in Listings /\ desired' \in Listings /\ wish' \in Listings
           /\ flight' \in Orders \cup {None}
           /\ flight' # None => flight # None /\ flight'.token = flight.token
<1>1. CASE Apply(items) /\ items \in Seq(Made)
  <2>1. Saves' /\ Keys' /\ Calling' /\ Wishing' /\ DragStays'
    BY <1>1, ApplyKeeps
  <2>2. QED
    BY <1>1, <2>1, ApplyTypes DEF Listings
<1>2. CASE UNCHANGED <<shown, desired, flight, wish>>
  <2>1. Saves' /\ Keys' /\ Calling' /\ Wishing' /\ DragStays'
    BY <1>2, SavesKept, KeysKept, CallingKept, WishingKept, DragKept
  <2>2. QED
    BY <1>2, <2>1 DEF Sorts
<1>3. QED
  BY <1>1, <1>2

-----------------------------------------------------------------------------
(* Taking an answer. *)

\* A row without one of its items.
LEMMA RemovedAt ==
    ASSUME NEW T, NEW s \in Seq(T), NEW i \in 1..Len(s)
    PROVE  /\ RemoveAt(s, i) \in Seq(T) /\ Len(RemoveAt(s, i)) = Len(s) - 1
           /\ \A j \in 1..(Len(s) - 1) :
                  RemoveAt(s, i)[j] = s[IF j < i THEN j ELSE j + 1]
<1> DEFINE a == SubSeq(s, 1, i - 1)
           b == SubSeq(s, i + 1, Len(s))
<1>1. /\ a \in Seq(T) /\ Len(a) = i - 1 /\ \A j \in 1..(i - 1) : a[j] = s[j]
      /\ b \in Seq(T) /\ Len(b) = Len(s) - i /\ \A j \in 1..(Len(s) - i) : b[j] = s[i + j]
  OBVIOUS
<1>2. RemoveAt(s, i) = a \o b
  BY DEF RemoveAt
<1>3. i \in Nat /\ Len(s) \in Nat /\ i <= Len(s) /\ 1 <= i
  OBVIOUS
<1> HIDE DEF a, b
<1>4. /\ a \o b \in Seq(T) /\ Len(a \o b) = Len(a) + Len(b)
      /\ \A j \in 1..(Len(a) + Len(b)) :
             (a \o b)[j] = IF j <= Len(a) THEN a[j] ELSE b[j - Len(a)]
  BY <1>1, ConcatProperties
<1>5. ASSUME NEW j \in 1..(Len(s) - 1)
      PROVE  (a \o b)[j] = s[IF j < i THEN j ELSE j + 1]
  <2>1. (a \o b)[j] = IF j <= i - 1 THEN a[j] ELSE b[j - (i - 1)]
    BY <1>1, <1>3, <1>4
  <2>2. CASE j < i
    BY <1>1, <1>3, <2>1, <2>2
  <2>3. CASE ~(j < i)
    <3>1. j - (i - 1) \in 1..(Len(s) - i) /\ i + (j - (i - 1)) = j + 1
      BY <1>3, <2>3
    <3>2. (a \o b)[j] = b[j - (i - 1)]
      BY <1>3, <2>1, <2>3
    <3>3. QED
      BY <1>1, <2>3, <3>1, <3>2
  <2>4. QED
    BY <2>2, <2>3
<1>6. Len(a) + Len(b) = Len(s) - 1
  BY <1>1, <1>3
<1>7. QED
  BY <1>2, <1>4, <1>5, <1>6

LEMMA OvertakenIs ==
    ASSUME NEW l \in Asks, AskIs(l)
    PROVE  /\ Overtaken(l) \in Asks /\ AskIs(Overtaken(l))
           /\ Overtaken(l).for = l.for
<1> DEFINE o == Overtaken(l)
<1>1. /\ o \in Asks /\ o.for = l.for /\ o.id = l.id /\ o.token = l.token /\ o.late
  BY DEF Overtaken, Asks, Failed
<1> HIDE DEF o
<1>2. AskIs(o)
  BY <1>1 DEF AskIs, LoadIs, StartIs, VerifyIs
<1>3. QED
  BY <1>1, <1>2 DEF o

\* The lists that are left: each is one there was, overtaken or not.
LEMMA ReceivedAt ==
    ASSUME Sorts, Asking, NEW i \in DOMAIN lists, Received(i)
    PROVE  /\ lists' \in Seq(Asks) /\ Len(lists') = Len(lists) - 1
           /\ \A j \in 1..(Len(lists) - 1) :
                  LET k == IF j < i THEN j ELSE j + 1
                  IN  /\ k \in DOMAIN lists /\ k # i
                      /\ lists'[j] = lists[k] \/ lists'[j] = Overtaken(lists[k])
<1> DEFINE rest == RemoveAt(lists, i)
           at(j) == IF j < i THEN j ELSE j + 1
<1>1. lists \in Seq(Asks) /\ DOMAIN lists = 1..Len(lists) /\ Len(lists) \in Nat
  BY DEF Sorts
<1>2. /\ rest \in Seq(Asks) /\ Len(rest) = Len(lists) - 1
      /\ \A j \in 1..(Len(lists) - 1) : rest[j] = lists[at(j)]
  BY <1>1, RemovedAt
<1>3. i \in 1..Len(lists) /\ i \in Nat
  BY <1>1
<1>4. ASSUME NEW j \in 1..(Len(lists) - 1)
      PROVE  at(j) \in DOMAIN lists /\ at(j) # i
  BY <1>1, <1>3
<1>5. CASE lists' = rest
  BY <1>2, <1>4, <1>5
<1>6. CASE lists' = [j \in DOMAIN rest |->
                        IF j < i THEN Overtaken(rest[j]) ELSE rest[j]]
  <2>1. DOMAIN rest = 1..(Len(lists) - 1) /\ Len(lists) - 1 \in Nat
    BY <1>1, <1>2, <1>3
  <2> HIDE DEF rest
  <2>2. ASSUME NEW j \in 1..(Len(lists) - 1)
        PROVE  /\ lists'[j] = rest[j] \/ lists'[j] = Overtaken(rest[j])
               /\ lists'[j] \in Asks
    <3>1. rest[j] \in Asks /\ rest[j] = lists[at(j)] /\ AskIs(lists[at(j)])
      BY <1>2, <1>4, <2>1 DEF Asking
    <3>2. lists'[j] = rest[j] \/ lists'[j] = Overtaken(rest[j])
      BY <1>6, <2>1
    <3> HIDE DEF at
    <3>3. QED
      BY <3>1, <3>2, OvertakenIs
  <2>3. lists' = [j \in 1..(Len(lists) - 1) |-> lists'[j]]
    BY <1>6, <2>1
  <2>4. lists' \in Seq(Asks) /\ Len(lists') = Len(lists) - 1
    BY <2>1, <2>2, <2>3, IsASeq
  <2>5. QED
    BY <1>2, <1>4, <2>2, <2>4
<1>7. QED
  BY <1>5, <1>6 DEF Received

LEMMA ReceivedAsks ==
    ASSUME Sorts, Asking, NEW i \in DOMAIN lists, Received(i)
    PROVE  /\ lists' \in Seq(Asks) /\ Len(lists') <= MaxLists
           /\ \A j \in DOMAIN lists' : AskIs(lists'[j])
           /\ OnlyOne("load")' /\ OnlyOne("start")'
           /\ OnlyOne(lists[i].for) => \A j \in DOMAIN lists' : lists'[j].for # lists[i].for
<1>1. lists \in Seq(Asks) /\ Len(lists) \in Nat /\ Len(lists) <= MaxLists /\ MaxLists \in Nat
      /\ DOMAIN lists = 1..Len(lists) /\ i \in Nat
  BY ListsAssumption DEF Sorts, ListsAssumption
<1>2. lists' \in Seq(Asks) /\ Len(lists') = Len(lists) - 1
  BY ReceivedAt
<1>3. DOMAIN lists' = 1..(Len(lists) - 1)
  BY <1>2
<1>4. ASSUME NEW j \in DOMAIN lists'
      PROVE  \E k \in DOMAIN lists : /\ k = (IF j < i THEN j ELSE j + 1) /\ k # i
                                     /\ AskIs(lists'[j]) /\ lists'[j].for = lists[k].for
  <2>1. PICK k : k = IF j < i THEN j ELSE j + 1
    OBVIOUS
  <2>2. k \in DOMAIN lists /\ k # i
        /\ (lists'[j] = lists[k] \/ lists'[j] = Overtaken(lists[k]))
    BY <1>3, <2>1, ReceivedAt
  <2>3. lists[k] \in Asks /\ AskIs(lists[k])
    BY <1>1, <2>2 DEF Asking
  <2>4. PICK m : m = lists[k]
    OBVIOUS
  <2>5. PICK n : n = lists'[j]
    OBVIOUS
  <2>6. AskIs(n) /\ n.for = m.for
    BY <2>2, <2>3, <2>4, <2>5, OvertakenIs
  <2>7. QED
    BY <2>1, <2>2, <2>4, <2>5, <2>6
<1>5. ASSUME NEW for, OnlyOne(for) PROVE OnlyOne(for)'
  <2> SUFFICES ASSUME NEW j \in DOMAIN lists', NEW k \in DOMAIN lists',
                      lists'[j].for = for, lists'[k].for = for
               PROVE  j = k
    BY DEF OnlyOne
  <2>1. PICK p \in DOMAIN lists : p = (IF j < i THEN j ELSE j + 1) /\ lists[p].for = for
    BY <1>4
  <2>2. PICK q \in DOMAIN lists : q = (IF k < i THEN k ELSE k + 1) /\ lists[q].for = for
    BY <1>4
  <2>3. p = q
    BY <1>5, <2>1, <2>2 DEF OnlyOne
  <2>4. QED
    BY <1>1, <1>3, <2>1, <2>2, <2>3
<1>6. ASSUME OnlyOne(lists[i].for), NEW j \in DOMAIN lists'
      PROVE  lists'[j].for # lists[i].for
  <2>1. PICK p \in DOMAIN lists : p # i /\ lists'[j].for = lists[p].for
    BY <1>4
  <2>2. QED
    BY <1>6, <2>1 DEF OnlyOne
<1>7. \A j \in DOMAIN lists' : AskIs(lists'[j])
  BY <1>4
<1>8. OnlyOne("load")' /\ OnlyOne("start")'
  BY <1>5 DEF Asking
<1>9. QED
  BY <1>1, <1>2, <1>6, <1>7, <1>8

\* The lists are as they should be when each one is.
LEMMA AskingIs ==
    ASSUME \A j \in DOMAIN lists' : \A l : l = lists'[j] => AskIs(l)',
           OnlyOne("load")', OnlyOne("start")'
    PROVE  Asking'
<1>1. ASSUME NEW j \in DOMAIN lists' PROVE AskIs(lists[j])'
  <2>1. PICK l : l = lists'[j]
    OBVIOUS
  <2>2. AskIs(l)'
    BY <2>1
  <2>3. QED
    BY <2>1, <2>2, AskOf
<1>2. QED
  BY <1>1 DEF Asking

\* One list asked for.
LEMMA AppendedAsks ==
    ASSUME Sorts, Asking, NEW l \in Asks, lists' = Append(lists, l),
           Len(lists) < MaxLists,
           \A i \in DOMAIN lists : lists[i].for \in {"load", "start"} => lists[i].for # l.for
    PROVE  /\ lists' \in Seq(Asks) /\ Len(lists') <= MaxLists
           /\ OnlyOne("load")' /\ OnlyOne("start")'
           /\ \A j \in DOMAIN lists' : lists'[j] = l \/ (j \in DOMAIN lists /\ lists'[j] = lists[j])
<1>1. lists \in Seq(Asks) /\ Len(lists) \in Nat /\ MaxLists \in Nat
  BY ListsAssumption DEF Sorts, ListsAssumption
<1>2. /\ lists' \in Seq(Asks) /\ Len(lists') = Len(lists) + 1
      /\ lists'[Len(lists) + 1] = l /\ \A j \in 1..Len(lists) : lists'[j] = lists[j]
      /\ DOMAIN lists = 1..Len(lists) /\ DOMAIN lists' = 1..(Len(lists) + 1)
  BY <1>1
<1>3. \A j \in DOMAIN lists' : j = Len(lists) + 1 \/ j \in DOMAIN lists
  BY <1>1, <1>2
<1>4. ASSUME NEW for \in {"load", "start"}, OnlyOne(for) PROVE OnlyOne(for)'
  <2> SUFFICES ASSUME NEW j \in DOMAIN lists', NEW k \in DOMAIN lists',
                      lists'[j].for = for, lists'[k].for = for
               PROVE  j = k
    BY DEF OnlyOne
  <2>1. CASE j \in DOMAIN lists /\ k \in DOMAIN lists
    BY <1>2, <1>4, <2>1 DEF OnlyOne
  <2>2. CASE j = Len(lists) + 1 /\ k \in DOMAIN lists
    BY <1>2, <2>2
  <2>3. CASE j \in DOMAIN lists /\ k = Len(lists) + 1
    BY <1>2, <2>3
  <2>4. QED
    BY <1>3, <2>1, <2>2, <2>3
<1>5. Len(lists') <= MaxLists
  BY <1>1, <1>2
<1>6. \A j \in DOMAIN lists' : lists'[j] = l \/ (j \in DOMAIN lists /\ lists'[j] = lists[j])
  BY <1>2, <1>3
<1>7. QED
  BY <1>2, <1>4, <1>5, <1>6 DEF Asking

\* One list answered.
LEMMA ReplacedAsks ==
    ASSUME Sorts, Asking, NEW i \in DOMAIN lists, NEW l \in Asks, AskIs(l),
           l.for = lists[i].for, lists' = [lists EXCEPT ![i] = l]
    PROVE  /\ lists' \in Seq(Asks) /\ Len(lists') <= MaxLists
           /\ \A j \in DOMAIN lists' : AskIs(lists'[j])
           /\ OnlyOne("load")' /\ OnlyOne("start")'
<1>1. lists \in Seq(Asks)
  BY DEF Sorts
<1>2. /\ lists' \in Seq(Asks) /\ Len(lists') = Len(lists) /\ DOMAIN lists' = DOMAIN lists
      /\ \A j \in DOMAIN lists : lists'[j] = IF j = i THEN l ELSE lists[j]
  BY <1>1
<1>3. ASSUME NEW j \in DOMAIN lists' PROVE AskIs(lists'[j])
  <2>1. PICK m : m = lists'[j]
    OBVIOUS
  <2>2. PICK n : n = lists[j]
    OBVIOUS
  <2>3. AskIs(n)
    BY <1>2, <2>2 DEF Asking
  <2>4. AskIs(m)
    BY <1>2, <2>1, <2>2, <2>3
  <2>5. QED
    BY <2>1, <2>4
<1>4. \A j \in DOMAIN lists' : lists'[j].for = lists[j].for
  BY <1>2
<1>5. OnlyOne("load")' /\ OnlyOne("start")'
  BY <1>2, <1>4 DEF Asking, OnlyOne
<1>6. QED
  BY <1>2, <1>3, <1>5 DEF Sorts

-----------------------------------------------------------------------------
(* Snapshots. *)

\* A step of the lists alone.
LEMMA OnlyListsMove ==
    ASSUME ListsKnown, UNCHANGED <<host, token, shown, endpoint, ordering, call, starting>>,
           lists' \in Seq(Asks), Len(lists') <= MaxLists,
           \A j \in DOMAIN lists' : AskIs(lists'[j]),
           OnlyOne("load")', OnlyOne("start")'
    PROVE  ListsKnown'
<1> USE DEF host, ordering, starting
<1>1. Sorts /\ made' = made /\ Seq(Asks') = Seq(Asks) /\ Made' = Made
  BY MadeStays DEF ListsKnown
<1>2. Sorts'
  <2>1. made' \in 0..MaxTerminals /\ made <= made' /\ valid' \in Nat \ {0}
        /\ token' \in 0..valid' /\ endpoint' \in BOOLEAN
    BY <1>1 DEF Sorts
  <2>2. QED
    BY <1>1, <2>1, SortsKept
<1>3. Asking'
  <2>1. ASSUME NEW j \in DOMAIN lists', NEW l, l = lists'[j] PROVE AskIs(l)'
    <3>1. AskIs(l)
      BY <2>1
    <3>2. QED
      BY <1>1, <3>1, AskKept
  <2>2. QED
    BY <2>1, AskingIs
<1>4. Saves' /\ Keys' /\ Launching' /\ Calling' /\ Wishing' /\ DragStays' /\ NoFalseAlarm'
  BY <1>1, SavesKept, KeysKept, LaunchingKept, CallingKept, WishingKept, DragKept, AlarmsKept
  DEF ListsKnown
<1>5. QED
  BY <1>2, <1>3, <1>4 DEF ListsKnown

LEMMA ServerListsStep ==
    ASSUME ListsKnown, NEW i, ServerLists(i) PROVE ListsKnown'
<1> DEFINE reply == [failed |-> lists[i].token # valid,
                     items |-> IF lists[i].token = valid /\ ~lists[i].late
                               THEN server ELSE <<>>]
           l == [lists[i] EXCEPT !.answer = reply]
<1>1. /\ i \in DOMAIN lists /\ lists' = [lists EXCEPT ![i] = l]
      /\ UNCHANGED <<host, token, shown, endpoint, ordering, call, starting>>
  BY DEF ServerLists
<1>2. Sorts /\ Asking /\ lists[i] \in Asks /\ AskIs(lists[i])
  BY <1>1 DEF ListsKnown, Sorts, Asking
<1>3. reply \in Replies /\ (~reply.failed /\ ~lists[i].late => reply.items = server)
  <2>1. server \in Seq(Made) /\ <<>> \in Seq(Made)
    BY <1>2 DEF Sorts
  <2>2. CASE lists[i].token = valid
    <3>1. reply = [failed |-> FALSE, items |-> IF ~lists[i].late THEN server ELSE <<>>]
      BY <2>2
    <3> HIDE DEF reply
    <3>2. QED
      BY <2>1, <3>1 DEF Replies
  <2>3. CASE lists[i].token # valid
    <3>1. reply = [failed |-> TRUE, items |-> <<>>]
      BY <2>3
    <3> HIDE DEF reply
    <3>2. QED
      BY <2>1, <3>1 DEF Replies
  <2>4. QED
    BY <2>2, <2>3
<1> HIDE DEF reply
<1>4. l \in Asks /\ l.for = lists[i].for /\ l.id = lists[i].id /\ l.token = lists[i].token
      /\ l.late = lists[i].late /\ l.answer = reply
  BY <1>2, <1>3 DEF Asks
<1> HIDE DEF l
<1>5. AskIs(l)
  BY <1>2, <1>3, <1>4 DEF AskIs, LoadIs, StartIs, VerifyIs
<1>6. QED
  BY <1>1, <1>2, <1>4, <1>5, ReplacedAsks, OnlyListsMove

LEMMA ListBreaksStep ==
    ASSUME ListsKnown, NEW i, ListBreaks(i) PROVE ListsKnown'
<1> DEFINE reply == [failed |-> TRUE, items |-> <<>>]
           l == [lists[i] EXCEPT !.answer = reply]
<1>1. /\ i \in DOMAIN lists /\ lists' = [lists EXCEPT ![i] = l]
      /\ UNCHANGED <<host, token, shown, endpoint, ordering, call, starting>>
  BY DEF ListBreaks
<1>2. Sorts /\ Asking /\ lists[i] \in Asks /\ AskIs(lists[i])
  BY <1>1 DEF ListsKnown, Sorts, Asking
<1>3. reply \in Replies /\ reply.failed
  BY DEF Replies
<1> HIDE DEF reply
<1>4. l \in Asks /\ l.for = lists[i].for /\ l.id = lists[i].id /\ l.token = lists[i].token
      /\ l.late = lists[i].late /\ l.answer = reply
  BY <1>2, <1>3 DEF Asks
<1> HIDE DEF l
<1>5. AskIs(l)
  BY <1>2, <1>3, <1>4 DEF AskIs, LoadIs, StartIs, VerifyIs
<1>6. QED
  BY <1>1, <1>2, <1>4, <1>5, ReplacedAsks, OnlyListsMove

LEMMA PollStep == ASSUME ListsKnown, Poll PROVE ListsKnown'
<1> DEFINE l == [for |-> "poll", id |-> None, token |-> token, late |-> FALSE,
                 answer |-> None]
<1>1. /\ lists' = Append(lists, l) /\ Len(lists) < MaxLists
      /\ UNCHANGED <<host, token, shown, endpoint, ordering, call, starting>>
  BY DEF Poll, Ask, Asked
<1>2. Sorts /\ Asking /\ token \in Nat
  BY DEF ListsKnown, Sorts
<1>3. l \in Asks /\ l.for = "poll"
  BY <1>2 DEF Asks, Purposes
<1> HIDE DEF l
<1>4. AskIs(l)
  BY <1>3 DEF AskIs, LoadIs, StartIs, VerifyIs
<1>5. /\ lists' \in Seq(Asks) /\ Len(lists') <= MaxLists
      /\ OnlyOne("load")' /\ OnlyOne("start")'
      /\ \A j \in DOMAIN lists' : lists'[j] = l \/ (j \in DOMAIN lists /\ lists'[j] = lists[j])
  BY <1>1, <1>2, <1>3, AppendedAsks
<1>6. ASSUME NEW j \in DOMAIN lists' PROVE AskIs(lists'[j])
  <2>1. PICK m : m = lists'[j]
    OBVIOUS
  <2>2. m = l \/ (j \in DOMAIN lists /\ m = lists[j])
    BY <1>5, <2>1
  <2>3. AskIs(m)
    BY <1>2, <1>4, <2>2 DEF Asking
  <2>4. QED
    BY <2>1, <2>3
<1>7. QED
  BY <1>1, <1>5, <1>6, OnlyListsMove

\* What every handler of a snapshot has.
LEMMA Arrives ==
    ASSUME ListsKnown, NEW i, NEW for, Arrived(i, for)
    PROVE  /\ i \in DOMAIN lists /\ lists[i] \in Asks /\ AskIs(lists[i])
           /\ lists[i].answer \in Replies /\ lists[i].for = for
           /\ lists[i].answer.items \in Seq(Made)
<1>1. i \in DOMAIN lists /\ lists[i].for = for /\ lists[i].answer # None
  BY DEF Arrived
<1>2. lists[i] \in Asks /\ AskIs(lists[i])
  BY <1>1 DEF ListsKnown, Sorts, Asking
<1>3. lists[i].answer \in Replies
  BY <1>1, <1>2 DEF Asks
<1>4. lists[i].answer.items \in Seq(Made)
  BY <1>3 DEF Replies
<1>5. QED
  BY <1>1, <1>2, <1>3, <1>4

LEMMA TakePollStep == ASSUME ListsKnown, NEW i, TakePoll(i) PROVE ListsKnown'
<1>1. /\ Arrived(i, "poll") \/ Arrived(i, "dropped")
      /\ Received(i) /\ UNCHANGED <<host, token, endpoint, committed, call, starting>>
  BY DEF TakePoll
<1>2. i \in DOMAIN lists /\ lists[i].answer.items \in Seq(Made)
  BY <1>1, Arrives
<1>3. /\ Sorts /\ Asking /\ Saves /\ Keys /\ Calling /\ Wishing /\ DragStays
      /\ Launching /\ NoFalseAlarm
      /\ UNCHANGED <<server, made, valid, token, endpoint, committed, call, alarms, launch>>
  BY <1>1 DEF ListsKnown, host, starting
<1>4. \/ Apply(lists[i].answer.items) /\ lists[i].answer.items \in Seq(Made)
      \/ UNCHANGED <<shown, desired, flight, wish>>
  BY <1>2 DEF TakePoll
<1>5. /\ Saves' /\ Keys' /\ Calling' /\ Wishing' /\ DragStays'
      /\ shown' \in Listings /\ desired' \in Listings /\ wish' \in Listings
      /\ flight' \in Orders \cup {None}
      /\ flight' # None => flight # None /\ flight'.token = flight.token
  BY <1>3, <1>4, AppliedOrNot
<1>6. /\ lists' \in Seq(Asks) /\ Len(lists') <= MaxLists
      /\ \A j \in DOMAIN lists' : AskIs(lists'[j])
      /\ OnlyOne("load")' /\ OnlyOne("start")'
  BY <1>1, <1>2, <1>3, ReceivedAsks
<1>7. Asking'
  <2>1. ASSUME NEW j \in DOMAIN lists', NEW l, l = lists'[j] PROVE AskIs(l)'
    <3>1. AskIs(l)
      BY <1>6, <2>1
    <3>2. QED
      BY <1>3, <1>5, <3>1, AskKept, MadeStays
  <2>2. QED
    BY <1>6, <2>1, AskingIs
<1>8. Sorts'
  <2>1. made' \in 0..MaxTerminals /\ made <= made' /\ valid' \in Nat \ {0}
        /\ token' \in 0..valid' /\ endpoint' \in BOOLEAN
    BY <1>3 DEF Sorts
  <2>2. QED
    BY <1>3, <1>5, <1>6, <2>1, SortsKept, MadeStays
<1>9. Launching' /\ NoFalseAlarm'
  BY <1>3, LaunchingKept, AlarmsKept
<1>10. QED
  BY <1>5, <1>7, <1>8, <1>9 DEF ListsKnown

-----------------------------------------------------------------------------
(* Signing in, and the first load. *)

\* With a token given up no order is of this browser's token any more.
LEMMA SignedOut ==
    ASSUME Sorts, Saves, Keys, Calling, DragStays, SignOut, token # valid \/ token = 0,
           UNCHANGED <<host, ordering, call>>
    PROVE  Keys' /\ Calling' /\ DragStays' /\ (flight' # None => flight'.token # token')
<1>1. token' = 0 /\ shown' = None /\ endpoint' = FALSE /\ made' = made /\ valid' = valid
      /\ UNCHANGED <<desired, flight, call>>
  BY DEF SignOut, host, ordering
<1>2. flight # None => flight.token \in 1..valid /\ flight.token < valid
  <2>1. valid \in Nat /\ token \in Nat /\ token <= valid
    BY DEF Sorts
  <2>2. QED
    BY <2>1 DEF Keys
<1>3. Keys'
  <2>1. flight' # None => /\ flight'.token \in 1..valid' /\ flight'.token < valid'
                          /\ flight'.token # token'
    BY <1>1, <1>2
  <2>2. QED
    BY <1>1, <2>1 DEF Keys
<1>4. flight' # None => flight'.token # token'
  BY <1>1, <1>2
<1>5. Calling'
  <2>1. Made' = Made
    BY <1>1, MadeStays
  <2>2. CASE flight = None
    BY <1>1, <2>1, <2>2 DEF Calling, Saves
  <2>3. CASE flight # None
    BY <1>1, <1>4, <2>1, <2>3 DEF Calling
  <2>4. QED
    BY <2>2, <2>3
<1>6. DragStays'
  BY <1>1 DEF DragStays
<1>7. QED
  BY <1>3, <1>4, <1>5, <1>6

LEMMA DroppedIs ==
    ASSUME NEW l \in Asks, AskIs(l)
    PROVE  /\ Dropped(l) \in Asks /\ Dropped(l).for # "load"
           /\ AskIs(Dropped(l)) /\ (Dropped(l).for = "start" => l.for = "start")
<1> DEFINE d == Dropped(l)
<1>1. /\ d \in Asks /\ d.for # "load" /\ d.id = l.id /\ d.late = l.late
      /\ d.answer = l.answer /\ d.for \in {"dropped", l.for}
  BY DEF Dropped, Asks, Purposes
<1> HIDE DEF d
<1>2. AskIs(d)
  BY <1>1 DEF AskIs, LoadIs, StartIs, VerifyIs
<1>3. QED
  BY <1>1, <1>2 DEF d

LEMMA StreamRefusedStep == ASSUME ListsKnown, StreamRefused PROVE ListsKnown'
<1>1. /\ token # valid /\ SignOut /\ lists' = [j \in DOMAIN lists |-> Dropped(lists[j])]
      /\ UNCHANGED <<host, ordering, call, starting>>
  BY DEF StreamRefused
<1>2. /\ Sorts /\ Asking /\ Saves /\ Keys /\ Calling /\ Wishing /\ DragStays
      /\ Launching /\ NoFalseAlarm
      /\ UNCHANGED <<server, made, valid, desired, committed, flight, wish, call, alarms,
                     launch>>
      /\ token' = 0 /\ shown' = None /\ endpoint' = FALSE
  BY <1>1 DEF ListsKnown, host, ordering, starting, SignOut
<1>3. Keys' /\ Calling' /\ DragStays'
  BY <1>1, <1>2, SignedOut
<1>4. Saves' /\ Wishing' /\ Launching' /\ NoFalseAlarm'
  BY <1>2, SavesKept, WishingKept, LaunchingKept, AlarmsKept
<1>5. lists \in Seq(Asks) /\ Len(lists) <= MaxLists /\ DOMAIN lists = 1..Len(lists)
      /\ Len(lists) \in Nat
  BY <1>2 DEF Sorts
<1>6. DOMAIN lists' = DOMAIN lists /\ \A j \in DOMAIN lists : lists'[j] = Dropped(lists[j])
  BY <1>1
<1>7. ASSUME NEW j \in DOMAIN lists
      PROVE  /\ lists'[j] \in Asks /\ lists'[j].for # "load" /\ AskIs(lists'[j])
             /\ lists'[j].for = "start" => lists[j].for = "start"
  <2>1. PICK l : l = lists[j]
    OBVIOUS
  <2>2. PICK d : d = lists'[j]
    OBVIOUS
  <2>3. l \in Asks /\ AskIs(l) /\ d = Dropped(l)
    BY <1>2, <1>5, <1>6, <2>1, <2>2 DEF Asking
  <2>4. d \in Asks /\ d.for # "load" /\ AskIs(d) /\ (d.for = "start" => l.for = "start")
    BY <2>3, DroppedIs
  <2>5. QED
    BY <2>1, <2>2, <2>4
<1>8. lists' \in Seq(Asks) /\ Len(lists') = Len(lists)
  <2>1. lists' = [j \in 1..Len(lists) |-> lists'[j]]
    BY <1>1, <1>5
  <2>2. QED
    BY <1>5, <1>7, <2>1, IsASeq
<1>9. Asking'
  <2>1. ASSUME NEW j \in DOMAIN lists', NEW l, l = lists'[j] PROVE AskIs(l)'
    <3>1. AskIs(l) /\ l.for # "load"
      BY <1>6, <1>7, <2>1
    <3>2. StartIs(l)' /\ VerifyIs(l)'
      BY <1>2, <3>1, MadeStays, StartKept, VerifyKept DEF AskIs
    <3>3. LoadIs(l)'
      BY <3>1 DEF LoadIs
    <3>4. QED
      BY <3>2, <3>3 DEF AskIs
  <2>2. OnlyOne("load")' /\ OnlyOne("start")'
    BY <1>2, <1>6, <1>7 DEF OnlyOne, Asking
  <2>3. QED
    BY <2>1, <2>2, AskingIs
<1>10. Sorts'
  <2>1. made' \in 0..MaxTerminals /\ made <= made' /\ valid' \in Nat \ {0}
    BY <1>2 DEF Sorts
  <2>2. shown' \in Listings' /\ token' \in 0..valid' /\ endpoint' \in BOOLEAN
    <3>1. shown' \in Listings'
      BY <1>2 DEF Listings
    <3>2. token' \in 0..valid'
      BY <1>2, <2>1
    <3>3. endpoint' \in BOOLEAN
      BY <1>2, Zenon
    <3>4. QED
      BY <3>1, <3>2, <3>3
  <2>3. QED
    BY <1>2, <1>5, <1>8, <2>1, <2>2, SortsKept, MadeStays
<1>11. QED
  BY <1>3, <1>4, <1>9, <1>10 DEF ListsKnown

LEMMA AuthenticateStep == ASSUME ListsKnown, Authenticate PROVE ListsKnown'
<1>0. PICK l : l = [for |-> "load", id |-> None, token |-> valid, late |-> FALSE,
                    answer |-> None]
  OBVIOUS
<1>1. /\ token = 0 /\ token' = valid /\ lists' = Append(lists, l) /\ Len(lists) < MaxLists
      /\ UNCHANGED <<host, shown, endpoint, ordering, call, starting>>
  BY <1>0 DEF Authenticate, Ask, Asked
<1>2. /\ Sorts /\ Asking /\ Saves /\ Keys /\ Calling /\ Wishing /\ DragStays
      /\ Launching /\ NoFalseAlarm
      /\ UNCHANGED <<server, made, valid, shown, endpoint, desired, committed, flight, wish,
                     call, alarms, launch>>
  BY <1>1 DEF ListsKnown, host, ordering, starting
<1>3. valid \in Nat \ {0} /\ endpoint = FALSE
  BY <1>1, <1>2 DEF Sorts, Keys
<1>4. flight # None => flight.token \in 1..valid /\ flight.token < valid
  BY <1>1, <1>2 DEF Keys
<1>5. flight' # None => flight'.token # token' /\ flight.token # token
  BY <1>1, <1>2, <1>3, <1>4
<1>6. Keys'
  BY <1>1, <1>2, <1>3, <1>4 DEF Keys
<1>7. Calling'
  <2>1. Made' = Made
    BY <1>2, MadeStays
  <2>2. desired' # None => flight' # None
    BY <1>2 DEF Saves
  <2>3. QED
    BY <1>2, <1>5, <2>1, <2>2 DEF Calling
<1>8. DragStays'
  BY <1>2, <1>5 DEF DragStays, Saves
<1>9. Saves' /\ Wishing' /\ Launching' /\ NoFalseAlarm'
  BY <1>2, SavesKept, WishingKept, LaunchingKept, AlarmsKept
<1>10. l \in Asks /\ l.for = "load" /\ l.token = valid
  BY <1>0, <1>3 DEF Asks, Purposes
<1>11. \A i \in DOMAIN lists : lists[i].for # "load"
  BY <1>1, <1>2 DEF Asking, AskIs, LoadIs
<1>12. /\ lists' \in Seq(Asks) /\ Len(lists') <= MaxLists
       /\ OnlyOne("load")' /\ OnlyOne("start")'
       /\ \A j \in DOMAIN lists' : lists'[j] = l \/ (j \in DOMAIN lists /\ lists'[j] = lists[j])
  BY <1>1, <1>2, <1>10, <1>11, AppendedAsks
<1>13. LoadIs(l)' /\ StartIs(l)' /\ VerifyIs(l)'
  BY <1>1, <1>2, <1>3, <1>5, <1>10 DEF LoadIs, StartIs, VerifyIs
<1>14. Asking'
  <2>1. ASSUME NEW j \in DOMAIN lists', NEW m, m = lists'[j] PROVE AskIs(m)'
    <3>1. CASE m = l
      BY <1>13, <3>1 DEF AskIs
    <3>2. CASE j \in DOMAIN lists /\ m = lists[j]
      <4>1. AskIs(m) /\ m.for # "load"
        BY <1>2, <1>11, <3>2 DEF Asking
      <4>2. StartIs(m)' /\ VerifyIs(m)'
        BY <1>2, <4>1, MadeStays, StartKept, VerifyKept DEF AskIs
      <4>3. LoadIs(m)'
        BY <4>1 DEF LoadIs
      <4>4. QED
        BY <4>2, <4>3 DEF AskIs
    <3>3. QED
      BY <1>12, <2>1, <3>1, <3>2
  <2>2. QED
    BY <1>12, <2>1, AskingIs
<1>15. Sorts'
  <2>1. made' \in 0..MaxTerminals /\ made <= made' /\ valid' \in Nat \ {0}
        /\ token' \in 0..valid' /\ endpoint' \in BOOLEAN
    BY <1>1, <1>2 DEF Sorts
  <2>2. QED
    BY <1>2, <1>12, <2>1, SortsKept, MadeStays
<1>16. QED
  BY <1>6, <1>7, <1>8, <1>9, <1>14, <1>15 DEF ListsKnown

\* The first load is there: no other one is on its way, and no order is of this token.
LEMMA TakeLoadStep == ASSUME ListsKnown, NEW i, TakeLoad(i) PROVE ListsKnown'
<1>1. /\ Arrived(i, "load") /\ Received(i)
      /\ UNCHANGED <<host, ordering, call, starting>>
  BY DEF TakeLoad
<1>2. /\ Sorts /\ Asking /\ Saves /\ Keys /\ Calling /\ Wishing /\ DragStays
      /\ Launching /\ NoFalseAlarm
      /\ UNCHANGED <<server, made, valid, desired, committed, flight, wish, call, alarms,
                     launch>>
  BY <1>1 DEF ListsKnown, host, ordering, starting
<1>3. /\ i \in DOMAIN lists /\ lists[i].for = "load" /\ lists[i].answer.items \in Seq(Made)
      /\ token # 0 /\ lists[i].token = token /\ ~endpoint
      /\ flight # None => flight.token # token
  BY <1>1, Arrives DEF AskIs, LoadIs
<1>4. /\ lists' \in Seq(Asks) /\ Len(lists') <= MaxLists
      /\ \A j \in DOMAIN lists' : AskIs(lists'[j]) /\ lists'[j].for # "load"
      /\ OnlyOne("load")' /\ OnlyOne("start")'
  BY <1>1, <1>2, <1>3, ReceivedAsks DEF Asking
<1>5. Saves' /\ Wishing' /\ Launching' /\ NoFalseAlarm'
  BY <1>2, SavesKept, WishingKept, LaunchingKept, AlarmsKept
<1>6. Asking'
  <2>1. ASSUME NEW j \in DOMAIN lists', NEW l, l = lists'[j] PROVE AskIs(l)'
    <3>1. AskIs(l) /\ l.for # "load"
      BY <1>4, <2>1
    <3>2. StartIs(l)' /\ VerifyIs(l)'
      BY <1>2, <3>1, MadeStays, StartKept, VerifyKept DEF AskIs
    <3>3. LoadIs(l)'
      BY <3>1 DEF LoadIs
    <3>4. QED
      BY <3>2, <3>3 DEF AskIs
  <2>2. QED
    BY <1>4, <2>1, AskingIs
<1>7. made' \in 0..MaxTerminals /\ made <= made' /\ valid' \in Nat \ {0} /\ Made' = Made
      /\ Listings' = Listings
  BY <1>2, MadeStays DEF Sorts
<1>8. CASE shown' = lists[i].answer.items /\ endpoint' \in BOOLEAN /\ UNCHANGED token
  <2>1. shown' \in Listings' /\ shown' # None /\ token' \in 0..valid'
    BY <1>2, <1>3, <1>7, <1>8, NoneIsNone DEF Listings, Sorts
  <2>2. Sorts'
    BY <1>2, <1>4, <1>7, <1>8, <2>1, SortsKept, MadeStays
  <2>3. Keys'
    BY <1>2, <1>3, <1>8, <2>1 DEF Keys
  <2>4. Calling' /\ DragStays'
    BY <1>2, <1>3, <1>7, <1>8 DEF Calling, DragStays, Saves
  <2>5. QED
    BY <1>5, <1>6, <2>2, <2>3, <2>4 DEF ListsKnown
<1>9. CASE lists[i].token # valid /\ SignOut
  <2>1. Keys' /\ Calling' /\ DragStays'
    BY <1>1, <1>2, <1>3, <1>9, SignedOut
  <2>2. token' = 0 /\ shown' = None /\ endpoint' = FALSE
    BY <1>9 DEF SignOut
  <2>3. shown' \in Listings'
    BY <2>2 DEF Listings
  <2>4. token' \in 0..valid'
    BY <1>7, <2>2
  <2>5. endpoint' \in BOOLEAN
    BY <2>2, Zenon
  <2>6. Sorts'
    BY <1>2, <1>4, <1>7, <2>3, <2>4, <2>5, SortsKept, MadeStays
  <2>7. QED
    BY <1>5, <1>6, <2>1, <2>6 DEF ListsKnown
<1>10. CASE UNCHANGED <<token, shown, endpoint>>
  <2>1. Keys' /\ Calling' /\ DragStays'
    BY <1>2, <1>10, KeysKept, CallingKept, DragKept
  <2>2. token' \in 0..valid' /\ endpoint' \in BOOLEAN
    BY <1>2, <1>10 DEF Sorts
  <2>3. Sorts'
    BY <1>2, <1>4, <1>7, <1>10, <2>2, SortsKept, MadeStays
  <2>4. QED
    BY <1>5, <1>6, <2>1, <2>3 DEF ListsKnown
<1>11. QED
  BY <1>8, <1>9, <1>10 DEF TakeLoad

LEMMA RevokeStep == ASSUME ListsKnown, Revoke PROVE ListsKnown'
<1>1. /\ Sorts /\ Asking /\ Saves /\ Keys /\ Calling /\ Wishing /\ DragStays
      /\ Launching /\ NoFalseAlarm
      /\ UNCHANGED <<server, made, token, shown, endpoint, desired, committed, flight,
                     wish, lists, call, alarms, launch>>
      /\ valid' = valid + 1
  BY DEF ListsKnown, Revoke, ordering, reading, starting
<1>2. valid \in Nat /\ token \in 0..valid
  BY <1>1 DEF Sorts
<1>3. Keys'
  <2>1. flight # None => flight.token \in 1..valid' /\ (flight.token < valid' \/ token # 0)
    BY <1>1, <1>2 DEF Keys
  <2>2. QED
    BY <1>1, <2>1 DEF Keys
<1>4. Saves' /\ Wishing' /\ Launching' /\ NoFalseAlarm' /\ Calling' /\ DragStays'
  BY <1>1, SavesKept, WishingKept, LaunchingKept, AlarmsKept, CallingKept, DragKept
<1>5. Asking'
  BY <1>1, MadeStays, AskingKept
<1>6. Sorts'
  <2>1. made' \in 0..MaxTerminals /\ made <= made' /\ valid' \in Nat \ {0}
        /\ token' \in 0..valid' /\ endpoint' \in BOOLEAN
    BY <1>1, <1>2 DEF Sorts
  <2>2. QED
    BY <1>1, <2>1, SortsKept
<1>7. QED
  BY <1>3, <1>4, <1>5, <1>6 DEF ListsKnown

-----------------------------------------------------------------------------
(* The order. *)

LEMMA DragStep ==
    ASSUME ListsKnown, NEW id, NEW target, Drag(id, target) PROVE ListsKnown'
<1> DEFINE from == Place(shown, id)
           to == Place(shown, target)
           new == InOrder(shown, Moved(shown, from, to))
<1>1. /\ Sorts /\ Asking /\ Saves /\ Keys /\ Calling /\ Wishing /\ DragStays
      /\ Launching /\ NoFalseAlarm
      /\ UNCHANGED <<server, made, valid, token, endpoint, lists, call, alarms, launch>>
      /\ token # 0 /\ endpoint /\ shown # None /\ {id, target} \subseteq ToSet(shown)
      /\ desired' = new /\ shown' = new /\ wish' = new
      /\ committed' = IF desired = None THEN shown ELSE committed
      /\ flight' = IF flight = None THEN Request(new, token)
                   ELSE [flight EXCEPT !.fresh = FALSE]
  BY DEF ListsKnown, Drag, host, reading, starting
<1>2. shown \in Seq(Made)
  BY <1>1 DEF Sorts, Listings
<1>3. from \in 1..Len(shown) /\ to \in 1..Len(shown)
  BY <1>1, <1>2, PlaceIs
<1> HIDE DEF from, to
<1>4. Moved(shown, from, to) \in Seq(Made)
  BY <1>2, <1>3, MovedIs
<1>5. new \in Seq(Made)
  BY <1>2, <1>4, InOrderFacts
<1>6. PICK order : order = new
  OBVIOUS
<1> HIDE DEF new
<1>7. order \in Seq(Made) /\ order # None
  BY <1>1, <1>5, <1>6, NoneIsNone
<1>8. token \in 1..valid /\ token \in Nat
  BY <1>1 DEF Sorts
<1>9. /\ flight' \in Orders /\ flight' # None /\ (flight = None => flight'.token = token)
      /\ flight # None => flight'.token = flight.token /\ ~flight'.fresh
      /\ flight'.fresh => flight'.ids = order /\ flight'.answer = None
  <2>1. CASE flight = None
    <3>1. flight' = Request(order, token)
      BY <1>1, <1>6, <2>1
    <3>2. flight' \in Orders /\ flight'.token = token /\ flight'.ids = order
          /\ flight'.answer = None
      BY <1>7, <1>8, <3>1 DEF Request, Orders
    <3>3. QED
      BY <1>1, <2>1, <3>2, NoneIsNone
  <2>2. CASE flight # None
    <3>1. flight \in Orders /\ flight' = [flight EXCEPT !.fresh = FALSE]
      BY <1>1, <2>2 DEF Sorts
    <3>2. flight' \in Orders /\ flight'.token = flight.token /\ ~flight'.fresh
      BY <3>1 DEF Orders
    <3>3. QED
      BY <1>1, <2>2, <3>2, NoneIsNone
  <2>3. QED
    BY <2>1, <2>2
<1>10. desired' = order /\ shown' = order /\ wish' = order
  BY <1>1, <1>6
<1>11. Saves'
  <2>1. committed' # None
    BY <1>1 DEF Saves
  <2>2. QED
    BY <1>7, <1>9, <1>10, <2>1 DEF Saves
<1>12. Keys'
  BY <1>1, <1>7, <1>8, <1>9, <1>10 DEF Keys
<1>13. Wishing'
  <2>1. Agree(desired', wish') /\ ToSet(wish') \subseteq ToSet(desired')
    BY <1>10, AgreeSelf
  <2>2. Agree(desired, wish)'
    BY <2>1 DEF Agree
  <2>3. QED
    BY <1>7, <1>9, <1>10, <2>1, <2>2 DEF Wishing
<1>14. DragStays'
  BY <1>10 DEF DragStays, Agree
<1>15. Calling'
  BY <1>1, <1>10, MadeStays DEF Calling
<1>16. Launching' /\ NoFalseAlarm'
  BY <1>1, LaunchingKept, AlarmsKept
<1>17. Asking'
  <2>1. ASSUME NEW j \in DOMAIN lists', NEW l, l = lists'[j] PROVE AskIs(l)'
    <3>1. AskIs(l)
      BY <1>1, <2>1 DEF Asking
    <3>2. l.for # "load"
      BY <1>1, <3>1 DEF AskIs, LoadIs
    <3>3. StartIs(l)' /\ VerifyIs(l)'
      BY <1>1, <3>1, MadeStays, StartKept, VerifyKept DEF AskIs
    <3>4. LoadIs(l)'
      BY <3>2 DEF LoadIs
    <3>5. QED
      BY <3>3, <3>4 DEF AskIs
  <2>2. OnlyOne("load")' /\ OnlyOne("start")'
    BY <1>1 DEF OnlyOne, Asking
  <2>3. QED
    BY <2>1, <2>2, AskingIs
<1>18. Sorts'
  <2>1. made' \in 0..MaxTerminals /\ made <= made' /\ valid' \in Nat \ {0}
        /\ token' \in 0..valid' /\ endpoint' \in BOOLEAN
    BY <1>1 DEF Sorts
  <2>2. committed' \in Listings /\ order \in Listings
    BY <1>1, <1>7 DEF Sorts, Listings
  <2>3. QED
    BY <1>1, <1>9, <1>10, <2>1, <2>2, SortsKept, MadeStays
<1>19. QED
  BY <1>11, <1>12, <1>13, <1>14, <1>15, <1>16, <1>17, <1>18 DEF ListsKnown

\* The server has the same terminals in another order: that of the last drag, when the
\* order it saved is the desired one.
LEMMA ServerOrdersStep == ASSUME ListsKnown, ServerOrders PROVE ListsKnown'
<1> DEFINE good == /\ flight.token = valid /\ Len(flight.ids) = Len(server)
                   /\ ToSet(flight.ids) = ToSet(server)
<1>1. /\ Sorts /\ Asking /\ Saves /\ Keys /\ Calling /\ Wishing /\ DragStays
      /\ Launching /\ NoFalseAlarm
      /\ UNCHANGED <<made, valid, token, shown, endpoint, desired, committed, wish, lists,
                     call, alarms, launch>>
      /\ flight # None /\ flight.answer = None
      /\ server' = IF good THEN flight.ids ELSE server
      /\ flight' = [flight EXCEPT !.answer = [failed |-> ~good,
                        items |-> IF good THEN flight.ids ELSE <<>>]]
  BY DEF ListsKnown, ServerOrders, reading, starting
<1>2. flight \in Orders /\ flight.ids \in Seq(Made) /\ server \in Seq(Made)
  BY <1>1 DEF Sorts, Orders
<1>3. /\ flight' \in Orders /\ flight' # None /\ flight'.ids = flight.ids
      /\ flight'.token = flight.token /\ flight'.fresh = flight.fresh
      /\ ToSet(server') = ToSet(server) /\ server' \in Seq(Made)
      /\ ~flight'.answer.failed => server' = flight.ids
  <2>1. CASE good
    <3>1. flight' = [flight EXCEPT !.answer = [failed |-> FALSE, items |-> flight.ids]]
      BY <1>1, <2>1
    <3>2. [failed |-> FALSE, items |-> flight.ids] \in Replies
      BY <1>2 DEF Replies
    <3>3. /\ flight' \in Orders /\ flight'.ids = flight.ids
          /\ flight'.token = flight.token /\ flight'.fresh = flight.fresh
      BY <1>2, <3>1, <3>2 DEF Orders
    <3>4. QED
      BY <1>1, <1>2, <2>1, <3>3, NoneIsNone
  <2>2. CASE ~good
    <3>1. flight' = [flight EXCEPT !.answer = [failed |-> TRUE, items |-> <<>>]]
          /\ server' = server
      BY <1>1, <2>2
    <3>2. [failed |-> TRUE, items |-> <<>>] \in Replies
      BY DEF Replies
    <3>3. /\ flight' \in Orders /\ flight'.ids = flight.ids /\ flight'.answer.failed
          /\ flight'.token = flight.token /\ flight'.fresh = flight.fresh
      BY <1>2, <3>1, <3>2 DEF Orders
    <3> HIDE DEF good
    <3>4. QED
      BY <1>1, <1>2, <3>1, <3>3, NoneIsNone
  <2>3. QED
    BY <2>1, <2>2
<1> HIDE DEF good
<1>4. Saves'
  BY <1>1, <1>3 DEF Saves
<1>5. Keys'
  BY <1>1, <1>3 DEF Keys
<1>6. Calling'
  BY <1>1, <1>3, MadeStays DEF Calling, Saves
<1>7. DragStays'
  BY <1>1, <1>3 DEF DragStays, Agree, Saves
<1>8. Wishing'
  <2>1. SUFFICES ASSUME wish # None PROVE Wishing'
    BY <1>1 DEF Wishing
  <2>2. desired # None /\ desired' # None /\ ToSet(wish) \subseteq ToSet(desired)
        /\ Agree(desired, wish)
    BY <1>1, <2>1 DEF Saves, Wishing
  <2>3. flight'.fresh /\ ~flight'.answer.failed => server' = desired
    BY <1>1, <1>3 DEF Saves
  <2>4. Agree(desired, wish)'
    BY <1>1, <2>2 DEF Agree
  <2>5. ASSUME server' = desired PROVE Agree(server, wish)'
    BY <1>1, <2>2, <2>5 DEF Agree
  <2>6. QED
    BY <1>1, <2>2, <2>3, <2>4, <2>5 DEF Wishing
<1>9. Launching'
  BY <1>1, LaunchingKept
<1>10. NoFalseAlarm'
  BY <1>1, <1>3 DEF NoFalseAlarm
<1>11. Asking'
  BY <1>1, <1>3, MadeStays, AskingKept
<1>12. Sorts'
  <2>1. made' \in 0..MaxTerminals /\ made <= made' /\ valid' \in Nat \ {0}
        /\ token' \in 0..valid' /\ endpoint' \in BOOLEAN
    BY <1>1 DEF Sorts
  <2>2. QED
    BY <1>1, <1>3, <2>1, SortsKept, MadeStays
<1>13. QED
  BY <1>4, <1>5, <1>6, <1>7, <1>8, <1>9, <1>10, <1>11, <1>12 DEF ListsKnown

LEMMA FlightBreaksStep == ASSUME ListsKnown, FlightBreaks PROVE ListsKnown'
<1>1. /\ Sorts /\ Asking /\ Saves /\ Keys /\ Calling /\ Wishing /\ DragStays
      /\ Launching /\ NoFalseAlarm
      /\ UNCHANGED <<server, made, valid, token, shown, endpoint, desired, committed, wish,
                     lists, call, alarms, launch>>
      /\ flight # None
      /\ flight' = [flight EXCEPT !.answer = [failed |-> TRUE, items |-> <<>>]]
  BY DEF ListsKnown, FlightBreaks, host, reading, starting
<1>2. flight \in Orders /\ [failed |-> TRUE, items |-> <<>>] \in Replies
  BY <1>1 DEF Sorts, Replies
<1>3. /\ flight' \in Orders /\ flight'.ids = flight.ids /\ flight'.answer.failed
      /\ flight'.token = flight.token /\ flight'.fresh = flight.fresh
  BY <1>1, <1>2 DEF Orders
<1>4. flight' # None
  BY <1>1, <1>3, NoneIsNone
<1>5. Saves'
  BY <1>1, <1>3, <1>4 DEF Saves
<1>6. Keys'
  BY <1>1, <1>3, <1>4 DEF Keys
<1>7. Calling'
  BY <1>1, <1>3, MadeStays DEF Calling, Saves
<1>8. DragStays'
  BY <1>1, <1>3 DEF DragStays, Agree, Saves
<1>9. Wishing'
  BY <1>1, <1>3 DEF Wishing, Agree
<1>10. Launching' /\ NoFalseAlarm'
  BY <1>1, LaunchingKept, AlarmsKept
<1>11. Asking'
  BY <1>1, <1>3, MadeStays, AskingKept
<1>12. Sorts'
  <2>1. made' \in 0..MaxTerminals /\ made <= made' /\ valid' \in Nat \ {0}
        /\ token' \in 0..valid' /\ endpoint' \in BOOLEAN
    BY <1>1 DEF Sorts
  <2>2. QED
    BY <1>1, <1>3, <2>1, SortsKept, MadeStays
<1>13. QED
  BY <1>5, <1>6, <1>7, <1>8, <1>9, <1>10, <1>11, <1>12 DEF ListsKnown

\* The order that is sent next is the desired one, with the token of the first.
LEMMA NextOrderIs ==
    ASSUME Sorts, Saves, flight # None, desired' \in {None, desired},
           flight' = NextOrder(desired')
    PROVE  /\ flight' = None <=> desired' = None
           /\ flight' \in Orders \cup {None}
           /\ flight' # None => /\ flight'.token = flight.token /\ flight'.ids = desired
                               /\ flight'.answer = None
<1>1. flight \in Orders /\ flight.token \in Nat /\ desired \in Seq(Made)
  <2>1. flight \in Orders /\ desired \in Seq(Made)
    BY DEF Sorts, Saves, Listings
  <2>2. QED
    BY <2>1 DEF Orders
<1>2. CASE desired' = None
  BY <1>2 DEF NextOrder
<1>3. CASE desired' # None
  <2>1. desired' = desired /\ flight' = Request(desired, flight.token)
    BY <1>3 DEF NextOrder
  <2>2. flight' \in Orders /\ flight'.token = flight.token /\ flight'.ids = desired
        /\ flight'.answer = None
    <3>1. PICK t, ids : t = flight.token /\ ids = desired
      OBVIOUS
    <3>2. flight' = [ids |-> ids, token |-> t, fresh |-> TRUE, answer |-> None]
      BY <2>1, <3>1 DEF Request
    <3>3. t \in Nat /\ ids \in Seq(Made)
      BY <1>1, <1>3, <2>1, <3>1
    <3>4. QED
      BY <3>1, <3>2, <3>3 DEF Orders
  <2>3. QED
    BY <1>3, <2>2, NoneIsNone
<1>4. QED
  BY <1>2, <1>3

\* An order was answered: what is owed to the last drag.
LEMMA OrderAnswered ==
    ASSUME ListsKnown, flight # None, desired' \in {None, desired},
           desired' = None => committed' = None,
           desired' # None => committed' # None,
           committed' \in Listings, shown' \in Listings,
           flight' = NextOrder(desired'), wish' \in {None, wish},
           desired' = None /\ wish' # None => Agree(server, wish),
           shown = None \/ shown' # None,
           desired' # None => shown' = shown \/ (shown = None /\ shown' = <<>>),
           UNCHANGED <<host, token, endpoint, reading, call, starting>>
    PROVE  ListsKnown'
<1>1. /\ Sorts /\ Asking /\ Saves /\ Keys /\ Calling /\ Wishing /\ DragStays
      /\ Launching /\ NoFalseAlarm
      /\ UNCHANGED <<server, made, valid, token, endpoint, lists, call, alarms, launch>>
  BY DEF ListsKnown, host, reading, starting
<1>2. /\ flight' = None <=> desired' = None
      /\ flight' \in Orders \cup {None}
      /\ flight' # None => /\ flight'.token = flight.token /\ flight'.ids = desired
                          /\ flight'.answer = None
  BY <1>1, NextOrderIs
<1>3. Saves'
  BY <1>2 DEF Saves
<1>4. Keys'
  BY <1>1, <1>2 DEF Keys
<1>5. Calling'
  <2>1. Made' = Made
    BY <1>1, MadeStays
  <2>2. CASE desired' = None
    BY <1>1, <2>1, <2>2 DEF Calling
  <2>3. CASE desired' # None
    <3>1. desired' = desired /\ desired # None /\ flight'.token = flight.token
      BY <1>2, <2>3
    <3>2. flight.token = token => shown' = shown
      BY <1>1, <2>3 DEF Keys
    <3>3. QED
      BY <1>1, <2>1, <3>1, <3>2 DEF Calling
  <2>4. QED
    BY <2>2, <2>3
<1>6. DragStays'
  <2>1. SUFFICES ASSUME desired' # None, flight'.token = token' PROVE Agree(shown, desired)'
    BY DEF DragStays
  <2>2. desired' = desired /\ desired # None /\ flight.token = token
    BY <1>1, <1>2, <2>1
  <2>3. shown' = shown /\ shown # None
    BY <1>1, <2>2, <2>1 DEF Keys
  <2>4. QED
    BY <1>1, <2>2, <2>3 DEF DragStays, Agree
<1>7. Wishing'
  <2>1. CASE wish' = None
    BY <2>1 DEF Wishing
  <2>2. CASE wish' # None
    <3>1. wish' = wish /\ wish # None
      BY <2>2
    <3>2. desired' # None => /\ ToSet(wish') \subseteq ToSet(desired')
                            /\ Agree(desired, wish)'
      BY <1>1, <3>1 DEF Wishing, Agree
    <3>3. desired' = None => Agree(server, wish)'
      BY <1>1, <3>1 DEF Agree
    <3>4. QED
      BY <1>2, <3>2, <3>3 DEF Wishing
  <2>3. QED
    BY <2>1, <2>2
<1>8. Launching' /\ NoFalseAlarm'
  BY <1>1, LaunchingKept, AlarmsKept
<1>9. Asking'
  <2>1. flight' # None => flight # None /\ flight'.token = flight.token
    BY <1>2
  <2>2. QED
    BY <1>1, <2>1, MadeStays, AskingKept
<1>10. Sorts'
  <2>1. made' \in 0..MaxTerminals /\ made <= made' /\ valid' \in Nat \ {0}
        /\ token' \in 0..valid' /\ endpoint' \in BOOLEAN
    BY <1>1 DEF Sorts
  <2>2. desired' \in Listings /\ wish' \in Listings
    BY <1>1 DEF Sorts, Listings
  <2>3. QED
    BY <1>1, <1>2, <2>1, <2>2, SortsKept, MadeStays
<1>11. QED
  BY <1>3, <1>4, <1>5, <1>6, <1>7, <1>8, <1>9, <1>10 DEF ListsKnown

LEMMA CurrentIs == Sorts => Current \in Seq(Made) /\ (shown # None => Current = shown)
BY DEF Current, Sorts, Listings

LEMMA OrderSavedStep == ASSUME ListsKnown, OrderSaved PROVE ListsKnown'
<1>1. /\ Sorts /\ Saves /\ Wishing /\ flight # None /\ flight.answer # None
      /\ ~flight.answer.failed /\ flight' = NextOrder(desired') /\ wish' = wish
      /\ UNCHANGED <<host, token, endpoint, reading, call, starting>>
  BY DEF ListsKnown, OrderSaved
<1>2. flight \in Orders /\ flight.answer \in Replies /\ flight.answer.items \in Seq(Made)
      /\ desired # None
  BY <1>1 DEF Sorts, Saves, Orders, Replies
<1>3. Current \in Seq(Made) /\ (shown # None => Current = shown)
  BY <1>1, CurrentIs
<1>4. CASE flight.fresh
  <2>1. desired' = None /\ committed' = None
        /\ shown' = InOrder(Current, flight.answer.items)
    BY <1>4 DEF OrderSaved
  <2>2. shown' \in Seq(Made) /\ shown' # None /\ shown' \in Listings /\ None \in Listings
    BY <1>1, <1>2, <1>3, <2>1, InOrderFacts, NoneIsNone DEF Listings
  <2>3. wish # None => Agree(server, wish)
    BY <1>1, <1>4 DEF Wishing
  <2>4. QED
    BY <1>1, <2>1, <2>2, <2>3, OrderAnswered
<1>5. CASE ~flight.fresh
  <2>1. committed' = flight.answer.items /\ desired' = desired /\ shown' = Current
    BY <1>5 DEF OrderSaved
  <2>2. committed' \in Listings /\ committed' # None /\ shown' \in Listings /\ shown' # None
    BY <1>1, <1>2, <1>3, <2>1, NoneIsNone DEF Listings
  <2>3. shown' = shown \/ (shown = None /\ shown' = <<>>)
    BY <2>1 DEF Current
  <2>4. QED
    BY <1>1, <1>2, <2>1, <2>2, <2>3, OrderAnswered
<1>6. QED
  BY <1>4, <1>5

LEMMA OrderRefusedStep == ASSUME ListsKnown, OrderRefused PROVE ListsKnown'
<1>1. /\ Sorts /\ Saves /\ flight # None /\ flight' = NextOrder(desired')
      /\ UNCHANGED <<host, token, endpoint, reading, call, starting>>
  BY DEF ListsKnown, OrderRefused
<1>2. desired # None /\ committed # None /\ committed \in Seq(Made)
  BY <1>1 DEF Sorts, Saves, Listings
<1>3. Current \in Seq(Made)
  BY <1>1, CurrentIs
<1>4. CASE flight.fresh
  <2>1. desired' = None /\ committed' = None /\ wish' = None
        /\ shown' = InOrder(Current, committed)
    BY <1>4 DEF OrderRefused
  <2>2. shown' \in Seq(Made) /\ shown' # None /\ shown' \in Listings /\ None \in Listings
    BY <1>1, <1>2, <1>3, <2>1, InOrderFacts, NoneIsNone DEF Listings
  <2>3. QED
    BY <1>1, <2>1, <2>2, OrderAnswered
<1>5. CASE ~flight.fresh
  <2>1. UNCHANGED <<desired, committed, wish, shown>>
    BY <1>5 DEF OrderRefused
  <2>2. committed' \in Listings /\ shown' \in Listings
    BY <1>1, <2>1 DEF Sorts
  <2>3. QED
    BY <1>1, <1>2, <2>1, <2>2, OrderAnswered
<1>6. QED
  BY <1>4, <1>5

-----------------------------------------------------------------------------
(* Requests of the user. *)

\* A request of the user that leaves the launch alone.
LEMMA CallKeeps ==
    ASSUME ListsKnown, NEW kind \in {"create", "remove"}, NEW id \in Made \cup {None},
           kind = "create" => id = None,
           Call(kind, id), UNCHANGED <<host, token, shown, endpoint, ordering, reading, starting>>
    PROVE  ListsKnown'
<1>1. /\ Sorts /\ Asking /\ Saves /\ Keys /\ Calling /\ Wishing /\ DragStays
      /\ Launching /\ NoFalseAlarm
      /\ UNCHANGED <<server, made, valid, token, shown, endpoint, desired, committed, flight,
                     wish, lists, alarms, launch>>
      /\ call = None
      /\ call' = [kind |-> kind, id |-> id, token |-> token, answer |-> None]
  BY DEF ListsKnown, Call, host, ordering, reading, starting
<1>2. token \in Nat
  BY <1>1 DEF Sorts
<1>3. call' \in Errands /\ call'.kind = kind /\ call'.id = id /\ call'.answer = None
  BY <1>1, <1>2 DEF Errands, Kinds
<1>4. None # "done"
  BY ListsAssumption DEF ListsAssumption
<1>5. kind # "remove" /\ desired # None => id \notin ToSet(desired)
  <2>1. desired # None => ToSet(desired) \subseteq Made
    BY <1>1, ItemsAre DEF Sorts, Listings
  <2>2. QED
    BY <1>1, <2>1, NoneIsNone
<1>6. Calling'
  BY <1>1, <1>3, <1>4, <1>5 DEF Calling
<1>7. Launching'
  BY <1>1, <1>3 DEF Launching
<1>8. Saves' /\ Keys' /\ Wishing' /\ DragStays' /\ NoFalseAlarm'
  BY <1>1, SavesKept, KeysKept, WishingKept, DragKept, AlarmsKept
<1>9. Asking'
  BY <1>1, MadeStays, AskingKept
<1>10. Sorts'
  <2>1. made' \in 0..MaxTerminals /\ made <= made' /\ valid' \in Nat \ {0}
        /\ token' \in 0..valid' /\ endpoint' \in BOOLEAN
    BY <1>1 DEF Sorts
  <2>2. QED
    BY <1>1, <1>3, <2>1, SortsKept, MadeStays
<1>11. QED
  BY <1>6, <1>7, <1>8, <1>9, <1>10 DEF ListsKnown

LEMMA CreateStep == ASSUME ListsKnown, Create PROVE ListsKnown'
BY CallKeeps DEF Create

LEMMA RemoveTerminalStep ==
    ASSUME ListsKnown, NEW id, RemoveTerminal(id) PROVE ListsKnown'
<1>1. id \in Made
  <2>1. shown # None /\ id \in ToSet(shown) /\ shown \in Listings
    BY DEF ListsKnown, Sorts, RemoveTerminal
  <2>2. shown \in Seq(Made)
    BY <2>1 DEF Listings
  <2>3. QED
    BY <2>1, <2>2, ItemsAre
<1>2. QED
  BY <1>1, CallKeeps DEF RemoveTerminal

\* No refresh of an earlier launch is on its way when one starts.
LEMMA StartStep == ASSUME ListsKnown, Start PROVE ListsKnown'
<1>1. /\ Sorts /\ Asking /\ Saves /\ Keys /\ Calling /\ Wishing /\ DragStays
      /\ Launching /\ NoFalseAlarm
      /\ UNCHANGED <<server, made, valid, token, shown, endpoint, desired, committed, flight,
                     wish, lists, alarms>>
      /\ call = None
      /\ launch # None => launch.stage \in {"timer", "verifying"}
      /\ call' = [kind |-> "launch", id |-> None, token |-> token, answer |-> None]
      /\ launch' = [id |-> None, stage |-> "starting", attempt |-> 1, token |-> token]
  BY DEF ListsKnown, Start, Call, host, ordering, reading
<1>2. token \in Nat
  BY <1>1 DEF Sorts
<1>3. call' \in Errands /\ call'.kind = "launch" /\ call'.id = None /\ call'.answer = None
  BY <1>1, <1>2 DEF Errands, Kinds
<1>4. launch' \in Launches /\ launch'.id = None /\ launch'.stage = "starting"
  BY <1>1, <1>2 DEF Launches, Stages
<1>5. None # "done"
  BY ListsAssumption DEF ListsAssumption
<1>6. desired # None => None \notin ToSet(desired)
  <2>1. desired # None => ToSet(desired) \subseteq Made
    BY <1>1, ItemsAre DEF Sorts, Listings
  <2>2. QED
    BY <1>1, <2>1, NoneIsNone
<1>7. Calling'
  BY <1>1, <1>3, <1>5, <1>6 DEF Calling
<1>8. Launching'
  BY <1>1, <1>3, <1>4, NoneIsNone DEF Launching
<1>9. Saves' /\ Keys' /\ Wishing' /\ DragStays' /\ NoFalseAlarm'
  BY <1>1, SavesKept, KeysKept, WishingKept, DragKept, AlarmsKept
<1>10. Asking'
  <2>1. ASSUME NEW j \in DOMAIN lists', NEW l, l = lists'[j] PROVE AskIs(l)'
    <3>1. AskIs(l)
      BY <1>1, <2>1 DEF Asking
    <3>2. l.for # "start"
      BY <1>1, <3>1 DEF AskIs, StartIs
    <3>3. LoadIs(l)' /\ VerifyIs(l)'
      BY <1>1, <3>1, MadeStays, LoadKept, VerifyKept DEF AskIs
    <3>4. StartIs(l)'
      BY <3>2 DEF StartIs
    <3>5. QED
      BY <3>3, <3>4 DEF AskIs
  <2>2. OnlyOne("load")' /\ OnlyOne("start")'
    BY <1>1 DEF OnlyOne, Asking
  <2>3. QED
    BY <2>1, <2>2, AskingIs
<1>11. Sorts'
  <2>1. made' \in 0..MaxTerminals /\ made <= made' /\ valid' \in Nat \ {0}
        /\ token' \in 0..valid' /\ endpoint' \in BOOLEAN
    BY <1>1 DEF Sorts
  <2>2. QED
    BY <1>1, <1>3, <1>4, <2>1, SortsKept, MadeStays
<1>12. QED
  BY <1>7, <1>8, <1>9, <1>10, <1>11 DEF ListsKnown

-----------------------------------------------------------------------------
(* The server makes and removes terminals. *)

LEMMA ServerLoses ==
    ASSUME Sorts, NEW id, server' = Without(server, id), made' = made
    PROVE  /\ server' \in Seq(Made') /\ ToSet(server') \subseteq ToSet(server)
           /\ \A w : Agree(server, w) => Agree(server', w)
<1>1. PICK rest : rest = Without(server, id)
  OBVIOUS
<1>2. server \in Seq(Made)
  BY DEF Sorts
<1>3. rest \in Seq(Made) /\ ToSet(rest) \subseteq ToSet(server) /\ Agree(rest, server)
  BY <1>1, <1>2, DropFacts DEF Without
<1>4. ASSUME NEW w, Agree(server, w) PROVE Agree(rest, w)
  BY <1>3, <1>4, AgreeThrough
<1>5. QED
  BY <1>1, <1>3, <1>4, MadeStays

LEMMA ServerGains ==
    ASSUME Sorts, made # MaxTerminals, made' = made + 1,
           server' = Append(server, made + 1)
    PROVE  /\ made' \in 0..MaxTerminals /\ made <= made' /\ server' \in Seq(Made')
           /\ made' \in Made' /\ made' \notin Made
           /\ ToSet(server') = ToSet(server) \cup {made + 1}
           /\ \A w \in Seq(Made) : Agree(server, w) => Agree(server', w)
<1>1. made \in Nat /\ made \in 0..MaxTerminals /\ MaxTerminals \in Nat /\ server \in Seq(Made)
  BY ListsAssumption DEF Sorts, ListsAssumption
<1>2. made' \in 0..MaxTerminals /\ made <= made' /\ made' \in Made' /\ made' \notin Made
  BY <1>1 DEF Made
<1>3. server \in Seq(Made')
  BY <1>1, <1>2, MadeGrows
<1>4. PICK T : T = Made'
  OBVIOUS
<1>5. PICK n : n = made + 1
  OBVIOUS
<1>6. n \in T /\ n \notin Made /\ server \in Seq(T)
  BY <1>2, <1>3, <1>4, <1>5
<1>7. Append(server, n) \in Seq(T) /\ ToSet(Append(server, n)) = ToSet(server) \cup {n}
  BY <1>6, ItemsAre
<1>8. ASSUME NEW w \in Seq(Made), Agree(server, w) PROVE Agree(Append(server, n), w)
  <2>1. n \notin ToSet(w)
    BY <1>6, ItemsAre
  <2>2. QED
    BY <1>6, <1>8, <2>1, AgreeAppend
<1>9. QED
  BY <1>2, <1>4, <1>5, <1>7, <1>8

\* What the server does to its terminals, beside the request it answers.
LEMMA ServerMoves ==
    ASSUME ListsKnown,
           UNCHANGED <<valid, token, shown, endpoint, desired, committed, flight, lists,
                       launch, alarms>>,
           made' \in 0..MaxTerminals, made <= made', server' \in Seq(Made'),
           ToSet(server') \cap Made \subseteq ToSet(server),
           wish' = None \/ (/\ wish' = wish
                            /\ \A w \in Seq(Made) : Agree(server, w) => Agree(server', w)),
           call' \in Errands' \cup {None}, Calling', Launching'
    PROVE  ListsKnown'
<1>1. /\ Sorts /\ Asking /\ Saves /\ Keys /\ Calling /\ Wishing /\ DragStays
      /\ Launching /\ NoFalseAlarm
  BY DEF ListsKnown
<1>2. Saves' /\ Keys' /\ DragStays'
  BY <1>1, SavesKept, KeysKept, DragKept
<1>3. Made \subseteq Made'
  BY <1>1, MadeGrows
<1>4. Asking'
  BY <1>1, <1>3, AskingKept
<1>5. NoFalseAlarm'
  BY <1>1 DEF NoFalseAlarm, Sorts
<1>6. Wishing'
  <2>1. CASE wish' = None
    BY <2>1 DEF Wishing
  <2>2. CASE wish' = wish /\ wish # None
    <3>1. wish \in Seq(Made)
      BY <1>1, <2>2 DEF Sorts, Listings
    <3>2. Agree(server, wish) => Agree(server', wish)
      BY <2>2, <3>1
    <3>3. Agree(server, wish) => Agree(server, wish)'
      BY <2>2, <3>2 DEF Agree
    <3>4. Agree(desired, wish) => Agree(desired, wish)'
      BY <2>2 DEF Agree
    <3>5. QED
      BY <1>1, <2>2, <3>3, <3>4 DEF Wishing
  <2>3. QED
    BY <2>1, <2>2
<1>7. Sorts'
  <2>1. valid' \in Nat \ {0} /\ token' \in 0..valid' /\ endpoint' \in BOOLEAN
    BY <1>1 DEF Sorts
  <2>2. wish' \in Listings \/ wish' = wish
    BY DEF Listings
  <2>3. wish' = wish \/ wish' \in Listings'
    BY <1>1, <2>2, MadeGrows
  <2>4. QED
    BY <1>1, <2>1, <2>3, SortsKept
<1>8. QED
  BY <1>2, <1>4, <1>5, <1>6, <1>7 DEF ListsKnown

LEMMA OtherChangesStep == ASSUME ListsKnown, OtherChanges PROVE ListsKnown'
<1>1. /\ Sorts /\ Calling /\ Launching
      /\ UNCHANGED <<valid, token, shown, endpoint, desired, committed, flight, lists,
                     launch, alarms, call>>
  BY DEF ListsKnown, OtherChanges, reading, starting
<1>2. Launching'
  BY <1>1, LaunchingKept
<1>3. made \in 0..MaxTerminals /\ made <= made
  BY <1>1 DEF Sorts
<1>4. CASE /\ made < MaxTerminals /\ made' = made + 1
           /\ server' = Append(server, made + 1) /\ wish' = wish
  <2>1. made # MaxTerminals
    BY <1>3, <1>4
  <2>2. /\ made' \in 0..MaxTerminals /\ made <= made' /\ server' \in Seq(Made')
        /\ ToSet(server') = ToSet(server) \cup {made + 1} /\ made' \notin Made
        /\ \A w \in Seq(Made) : Agree(server, w) => Agree(server', w)
    BY <1>1, <1>4, <2>1, ServerGains
  <2>3. Made \subseteq Made' /\ call' \in Errands' \cup {None}
    BY <1>1, <2>2, MadeGrows DEF Sorts
  <2>4. Calling'
    BY <1>1, <2>3 DEF Calling
  <2>5. ToSet(server') \cap Made \subseteq ToSet(server)
    BY <1>4, <2>2
  <2>6. QED
    BY <1>1, <1>2, <1>4, <2>2, <2>3, <2>4, <2>5, ServerMoves
<1>5. CASE (\E id \in ToSet(server) : server' = Without(server, id)) /\ UNCHANGED <<made, wish>>
  <2>1. PICK id : server' = Without(server, id)
    BY <1>5
  <2>2. /\ server' \in Seq(Made') /\ ToSet(server') \subseteq ToSet(server)
        /\ \A w : Agree(server, w) => Agree(server', w)
    BY <1>1, <1>5, <2>1, ServerLoses
  <2>3. Calling' /\ call' \in Errands' \cup {None}
    BY <1>1, <1>5, CallingKept, MadeStays DEF Sorts
  <2>4. QED
    BY <1>1, <1>2, <1>3, <1>5, <2>2, <2>3, ServerMoves
<1>6. CASE (\E i \in 1..(Len(server) - 1) :
                server' = [server EXCEPT ![i] = server[i + 1], ![i + 1] = server[i]])
           /\ wish' = None /\ made' = made
  <2>1. PICK i \in 1..(Len(server) - 1) :
            server' = [server EXCEPT ![i] = server[i + 1], ![i + 1] = server[i]]
    BY <1>6
  <2>2. PICK s : s = server'
    OBVIOUS
  <2>3. server \in Seq(Made) /\ i \in DOMAIN server /\ i + 1 \in DOMAIN server
    BY <1>1 DEF Sorts
  <2>4. /\ s \in Seq(Made) /\ DOMAIN s = DOMAIN server
        /\ \A j \in DOMAIN s : s[j] \in {server[j], server[i], server[i + 1]}
    BY <2>1, <2>2, <2>3
  <2>5. ToSet(s) \subseteq ToSet(server)
    BY <2>3, <2>4 DEF ToSet
  <2>6. server' \in Seq(Made') /\ ToSet(server') \cap Made \subseteq ToSet(server)
    BY <1>1, <1>6, <2>2, <2>4, <2>5, MadeStays
  <2>7. Calling' /\ call' \in Errands' \cup {None}
    BY <1>1, <1>6, CallingKept, MadeStays DEF Sorts
  <2>8. QED
    BY <1>1, <1>2, <1>3, <1>6, <2>6, <2>7, ServerMoves
<1>7. QED
  BY <1>4, <1>5, <1>6 DEF OtherChanges

LEMMA ServerCallsStep == ASSUME ListsKnown, ServerCalls PROVE ListsKnown'
<1>1. /\ Sorts /\ Calling /\ Launching
      /\ UNCHANGED <<valid, token, shown, endpoint, desired, committed, flight, wish, lists,
                     launch, alarms>>
      /\ call # None /\ call.answer = None
  BY DEF ListsKnown, ServerCalls, ordering, reading, starting
<1>2. call \in Errands /\ made \in 0..MaxTerminals /\ made <= made
      /\ server \in Seq(Made)
  BY <1>1 DEF Sorts
<1>3. "failed" # "done"
  OBVIOUS
<1>4. CASE call' = [call EXCEPT !.answer = "failed"] /\ UNCHANGED <<server, made>>
  <2>1. call' \in Errands /\ call'.kind = call.kind /\ call'.id = call.id
        /\ call'.answer = "failed"
    BY <1>2, <1>4 DEF Errands
  <2>2. call' # None /\ Made' = Made /\ call' \in Errands' \cup {None}
    BY <1>1, <1>4, <2>1, NoneIsNone, MadeStays
  <2>3. Calling' /\ Launching'
    BY <1>1, <1>3, <2>1, <2>2 DEF Calling, Launching
  <2>4. server' \in Seq(Made')
    BY <1>2, <1>4, <2>2
  <2>5. QED
    BY <1>1, <1>2, <1>4, <2>2, <2>3, <2>4, ServerMoves
<1>5. CASE /\ call.kind = "remove" /\ server' = Without(server, call.id) /\ made' = made
           /\ call' = [call EXCEPT !.answer = "done"]
  <2>1. call' \in Errands /\ call'.kind = "remove"
    BY <1>2, <1>5 DEF Errands
  <2>2. call' # None /\ Made' = Made /\ call' \in Errands' \cup {None}
    BY <1>1, <1>5, <2>1, NoneIsNone, MadeStays
  <2>3. Calling' /\ Launching'
    BY <1>1, <1>5, <2>1, <2>2 DEF Calling, Launching
  <2>4. /\ server' \in Seq(Made') /\ ToSet(server') \subseteq ToSet(server)
        /\ \A w : Agree(server, w) => Agree(server', w)
    BY <1>1, <1>5, ServerLoses
  <2>5. QED
    BY <1>1, <1>2, <1>5, <2>2, <2>3, <2>4, ServerMoves
<1>6. CASE /\ call.kind # "remove" /\ made # MaxTerminals
           /\ made' = made + 1 /\ server' = Append(server, made + 1)
           /\ call' = [call EXCEPT !.answer = "done", !.id = made + 1]
  <2>1. /\ made' \in 0..MaxTerminals /\ made <= made' /\ server' \in Seq(Made')
        /\ made' \in Made' /\ made' \notin Made
        /\ ToSet(server') = ToSet(server) \cup {made + 1}
        /\ \A w \in Seq(Made) : Agree(server, w) => Agree(server', w)
    BY <1>1, <1>6, ServerGains
  <2>2. call \in Errands'
    BY <1>1, <1>2, <2>1, MadeGrows
  <2>3. call' \in Errands' /\ call'.kind = call.kind /\ call'.id = made'
    BY <1>6, <2>1, <2>2 DEF Errands
  <2>4. call' # None
    <3>1. PICK n : n = made + 1
      OBVIOUS
    <3>2. n \in Ids
      BY <1>2, <1>6, <3>1, ListsAssumption DEF Ids, ListsAssumption
    <3>3. call \in Errand
      BY <1>1, <1>2, NoneIsNone
    <3>4. call' \in Errand
      BY <1>6, <3>1, <3>2, <3>3 DEF Errand
    <3>5. QED
      BY <3>4, ListsAssumption DEF ListsAssumption
  <2>5. desired # None => made' \notin ToSet(desired)
    BY <1>1, <2>1, ItemsAre DEF Sorts, Listings
  <2>6. Calling' /\ Launching'
    <3>1. Calling'
      BY <1>1, <2>1, <2>3, <2>4, <2>5 DEF Calling
    <3>2. Launching'
      BY <1>1, <2>3, <2>4 DEF Launching
    <3>3. QED
      BY <3>1, <3>2
  <2>7. ToSet(server') \cap Made \subseteq ToSet(server)
    BY <1>6, <2>1
  <2>8. QED
    BY <1>1, <2>1, <2>3, <2>6, <2>7, ServerMoves
<1>7. QED
  BY <1>4, <1>5, <1>6 DEF ServerCalls

-----------------------------------------------------------------------------
(* The answer to a request of the user. *)

LEMMA CallBreaksStep == ASSUME ListsKnown, CallBreaks PROVE ListsKnown'
<1>1. /\ Sorts /\ Asking /\ Saves /\ Keys /\ Calling /\ Wishing /\ DragStays
      /\ Launching /\ NoFalseAlarm
      /\ UNCHANGED <<server, made, valid, token, shown, endpoint, desired, committed, flight,
                     wish, lists, alarms, launch>>
      /\ call # None /\ call' = [call EXCEPT !.answer = "failed"]
  BY DEF ListsKnown, CallBreaks, host, ordering, reading, starting
<1>2. call \in Errands
  BY <1>1 DEF Sorts
<1>3. call' \in Errands /\ call'.kind = call.kind /\ call'.id = call.id
      /\ call'.answer = "failed"
  BY <1>1, <1>2 DEF Errands
<1>4. call' # None /\ Made' = Made /\ call' \in Errands'
  BY <1>1, <1>3, NoneIsNone, MadeStays
<1>5. Calling' /\ Launching'
  BY <1>1, <1>3, <1>4 DEF Calling, Launching
<1>6. Saves' /\ Keys' /\ Wishing' /\ DragStays' /\ NoFalseAlarm'
  BY <1>1, SavesKept, KeysKept, WishingKept, DragKept, AlarmsKept
<1>7. Asking'
  BY <1>1, MadeStays, AskingKept
<1>8. Sorts'
  <2>1. made' \in 0..MaxTerminals /\ made <= made' /\ valid' \in Nat \ {0}
        /\ token' \in 0..valid' /\ endpoint' \in BOOLEAN
    BY <1>1 DEF Sorts
  <2>2. QED
    BY <1>1, <1>4, <2>1, SortsKept
<1>9. QED
  BY <1>5, <1>6, <1>7, <1>8 DEF ListsKnown

LEMMA CallFailedStep == ASSUME ListsKnown, CallFailed PROVE ListsKnown'
<1>1. /\ Sorts /\ Asking /\ Saves /\ Keys /\ Calling /\ Wishing /\ DragStays
      /\ Launching /\ NoFalseAlarm
      /\ UNCHANGED <<server, made, valid, token, shown, endpoint, desired, committed, flight,
                     wish, lists, alarms>>
      /\ call # None /\ call' = None
      /\ launch' = IF call.kind = "launch" THEN None ELSE launch
  BY DEF ListsKnown, CallFailed, host, ordering, reading
<1>2. Calling' /\ Launching'
  BY <1>1 DEF Calling, Launching
<1>3. Saves' /\ Keys' /\ Wishing' /\ DragStays' /\ NoFalseAlarm'
  BY <1>1, SavesKept, KeysKept, WishingKept, DragKept, AlarmsKept
<1>4. Asking'
  <2>1. CASE launch' = launch
    BY <1>1, <2>1, MadeStays, AskingKept
  <2>2. CASE call.kind = "launch"
    <3>1. ASSUME NEW j \in DOMAIN lists', NEW l, l = lists'[j] PROVE AskIs(l)'
      <4>1. AskIs(l) /\ l.for # "start"
        <5>1. AskIs(l)
          BY <1>1, <3>1 DEF Asking
        <5>2. launch.id = None
          BY <1>1, <2>2 DEF Launching
        <5>3. l.for # "start"
          BY <1>1, <5>1, <5>2, NoneIsNone DEF AskIs, StartIs
        <5>4. QED
          BY <5>1, <5>3
      <4>2. LoadIs(l)' /\ VerifyIs(l)'
        BY <1>1, <4>1, MadeStays, LoadKept, VerifyKept DEF AskIs
      <4>3. StartIs(l)'
        BY <4>1 DEF StartIs
      <4>4. QED
        BY <4>2, <4>3 DEF AskIs
    <3>2. OnlyOne("load")' /\ OnlyOne("start")'
      BY <1>1 DEF OnlyOne, Asking
    <3>3. QED
      BY <3>1, <3>2, AskingIs
  <2>3. QED
    BY <1>1, <2>1, <2>2
<1>5. Sorts'
  <2>1. made' \in 0..MaxTerminals /\ made <= made' /\ valid' \in Nat \ {0}
        /\ token' \in 0..valid' /\ endpoint' \in BOOLEAN
    BY <1>1 DEF Sorts
  <2>2. launch' = launch \/ launch' = None
    BY <1>1
  <2>3. QED
    BY <1>1, <2>1, <2>2, SortsKept
<1>6. QED
  BY <1>2, <1>3, <1>4, <1>5 DEF ListsKnown

\* The page loses a terminal that is gone: the list keeps the order of the drag.
LEMMA RemovedStep == ASSUME ListsKnown, Removed PROVE ListsKnown'
<1>1. /\ Sorts /\ Asking /\ Saves /\ Keys /\ Calling /\ Wishing /\ DragStays
      /\ Launching /\ NoFalseAlarm
      /\ UNCHANGED <<server, made, valid, token, endpoint, desired, committed, flight,
                     wish, lists, alarms, launch>>
      /\ call # None /\ call.kind = "remove" /\ call' = None
      /\ shown' = IF shown = None THEN None ELSE Without(shown, call.id)
  BY DEF ListsKnown, Removed, host, ordering, reading, starting
<1>2. PICK rest : rest = Without(shown, call.id)
  OBVIOUS
<1>3. shown # None => rest \in Seq(Made) /\ Agree(rest, shown) /\ ToSet(rest) \subseteq ToSet(shown)
  BY <1>1, <1>2, DropFacts DEF Without, Sorts, Listings
<1>4. shown' = (IF shown = None THEN None ELSE rest) /\ (shown' = None <=> shown = None)
      /\ shown' \in Listings
  BY <1>1, <1>2, <1>3, NoneIsNone DEF Listings
<1>5. Calling' /\ Launching'
  BY <1>1 DEF Calling, Launching
<1>6. Keys'
  BY <1>1, <1>4 DEF Keys
<1>7. DragStays'
  <2>1. ASSUME desired # None, shown # None, flight.token = token PROVE Agree(rest, desired)
    <3>1. Agree(shown, desired)
      BY <1>1, <2>1 DEF DragStays
    <3>2. QED
      BY <1>3, <2>1, <3>1, AgreeThrough
  <2>2. QED
    BY <1>1, <1>4, <2>1 DEF DragStays, Agree
<1>8. Saves' /\ Wishing' /\ NoFalseAlarm'
  BY <1>1, SavesKept, WishingKept, AlarmsKept
<1>9. Asking'
  BY <1>1, MadeStays, AskingKept
<1>10. Sorts'
  <2>1. made' \in 0..MaxTerminals /\ made <= made' /\ valid' \in Nat \ {0}
        /\ token' \in 0..valid' /\ endpoint' \in BOOLEAN
    BY <1>1 DEF Sorts
  <2>2. QED
    BY <1>1, <1>4, <2>1, SortsKept, MadeStays
<1>11. QED
  BY <1>5, <1>6, <1>7, <1>8, <1>9, <1>10 DEF ListsKnown

\* The page gains a terminal that was made.
LEMMA CreatedStep == ASSUME ListsKnown, Created PROVE ListsKnown'
<1>1. /\ Sorts /\ Asking /\ Saves /\ Keys /\ Calling /\ Wishing /\ DragStays
      /\ Launching /\ NoFalseAlarm
      /\ UNCHANGED <<server, made, valid, token, endpoint, desired, committed, flight,
                     wish, alarms>>
      /\ call # None /\ call.kind # "remove" /\ call.answer = "done" /\ call' = None
      /\ shown' = Append(Current, call.id)
  BY DEF ListsKnown, Created, host, ordering
<1>2. PICK x : x = call.id
  OBVIOUS
<1>3. x \in Made /\ (desired # None /\ flight.token = token /\ x \in ToSet(desired)
                         => x \in ToSet(shown))
  BY <1>1, <1>2 DEF Calling
<1>4. PICK old : old = Current
  OBVIOUS
<1>5. old \in Seq(Made) /\ (shown # None => old = shown)
  BY <1>1, <1>4, CurrentIs
<1>6. PICK new : new = Append(old, x)
  OBVIOUS
<1>7. new \in Seq(Made) /\ shown' = new /\ shown' # None
  BY <1>1, <1>2, <1>3, <1>4, <1>5, <1>6, NoneIsNone
<1>8. Calling'
  BY <1>1 DEF Calling
<1>9. Keys'
  BY <1>1, <1>7 DEF Keys
<1>10. DragStays'
  <2>1. ASSUME desired # None, flight.token = token PROVE Agree(new, desired)
    <3>1. shown # None
      BY <1>1, <2>1 DEF Keys, Saves
    <3>2. Agree(old, desired)
      BY <1>1, <1>5, <2>1, <3>1 DEF DragStays
    <3>3. QED
      BY <1>3, <1>5, <1>6, <2>1, <3>1, <3>2, AgreeAppend
  <2>2. QED
    BY <1>1, <1>7, <2>1 DEF DragStays, Agree
<1>11. Saves' /\ Wishing' /\ NoFalseAlarm'
  BY <1>1, SavesKept, WishingKept, AlarmsKept
<1>12. made' \in 0..MaxTerminals /\ made <= made' /\ valid' \in Nat \ {0}
       /\ token' \in 0..valid' /\ endpoint' \in BOOLEAN
  BY <1>1 DEF Sorts
<1>13. CASE call.kind # "launch"
  <2>1. UNCHANGED <<lists, launch>>
    BY <1>13 DEF Created, reading
  <2>2. Asking'
    BY <1>1, <2>1, MadeStays, AskingKept
  <2>3. Launching'
    BY <1>1, <1>13, <2>1 DEF Launching
  <2>4. Sorts'
    BY <1>1, <1>7, <1>12, <2>1, SortsKept, MadeStays DEF Listings
  <2>5. QED
    BY <1>8, <1>9, <1>10, <1>11, <2>2, <2>3, <2>4 DEF ListsKnown
<1>14. CASE call.kind = "launch"
  <2> DEFINE l == [for |-> "start", id |-> x, token |-> call.token, late |-> FALSE,
                   answer |-> None]
  <2>1. /\ lists' = Append(lists, l) /\ Len(lists) < MaxLists
        /\ launch' = [launch EXCEPT !.id = x]
    BY <1>2, <1>14 DEF Created, Ask, Asked
  <2>2. call.token \in Nat
    BY <1>1 DEF Sorts, Errands
  <2>3. l \in Asks /\ l.for = "start" /\ l.id = x
    BY <1>3, <2>2 DEF Asks, Purposes
  <2> HIDE DEF l
  <2>4. launch # None /\ launch.id = None /\ launch.stage = "starting" /\ launch \in Launches
    BY <1>1, <1>14 DEF Launching, Sorts
  <2>5. launch' \in Launches /\ launch' # None /\ launch'.id = x /\ launch'.stage = "starting"
    BY <1>1, <1>3, <2>1, <2>4, NoneIsNone DEF Launches
  <2>6. ASSUME NEW i \in DOMAIN lists, NEW m, m = lists[i] PROVE m.for # "start"
    <3>1. AskIs(m)
      BY <1>1, <2>6 DEF Asking
    <3>2. QED
      BY <1>1, <2>4, <3>1, NoneIsNone DEF AskIs, StartIs
  <2>7. /\ lists' \in Seq(Asks) /\ Len(lists') <= MaxLists
        /\ OnlyOne("load")' /\ OnlyOne("start")'
        /\ \A j \in DOMAIN lists' : lists'[j] = l \/ (j \in DOMAIN lists /\ lists'[j] = lists[j])
    BY <1>1, <2>1, <2>3, <2>6, AppendedAsks
  <2>8. Asking'
    <3>1. ASSUME NEW j \in DOMAIN lists', NEW m, m = lists'[j] PROVE AskIs(m)'
      <4>1. CASE m = l
        BY <1>1, <1>3, <2>3, <2>5, <4>1, MadeStays DEF AskIs, LoadIs, StartIs, VerifyIs
      <4>2. CASE j \in DOMAIN lists /\ m = lists[j]
        <5>1. AskIs(m) /\ m.for # "start"
          BY <1>1, <2>6, <4>2 DEF Asking
        <5>2. LoadIs(m)' /\ VerifyIs(m)'
          BY <1>1, <5>1, MadeStays, LoadKept, VerifyKept DEF AskIs
        <5>3. StartIs(m)'
          BY <5>1 DEF StartIs
        <5>4. QED
          BY <5>2, <5>3 DEF AskIs
      <4>3. QED
        BY <2>7, <3>1, <4>1, <4>2
    <3>2. QED
      BY <2>7, <3>1, AskingIs
  <2>9. Launching'
    BY <1>1, <1>3, <2>5, NoneIsNone DEF Launching
  <2>10. Sorts'
    BY <1>1, <1>7, <1>12, <2>5, <2>7, SortsKept, MadeStays DEF Listings
  <2>11. QED
    BY <1>8, <1>9, <1>10, <1>11, <2>8, <2>9, <2>10 DEF ListsKnown
<1>15. QED
  BY <1>13, <1>14

-----------------------------------------------------------------------------
(* The verification of a launch. *)

\* What a handler does that may end the launch or let it go on.
LEMMA LaunchMoves ==
    ASSUME ListsKnown, NEW i \in DOMAIN lists, Received(i),
           NEW items, \/ Apply(items) /\ items \in Seq(Made)
                      \/ UNCHANGED <<shown, desired, flight, wish>>,
           UNCHANGED <<host, token, endpoint, committed, call>>,
           launch' \in Launches \cup {None}, alarms' \subseteq Made,
           launch' = launch \/ \A j \in DOMAIN lists' : lists'[j].for # "start",
           Launching', NoFalseAlarm'
    PROVE  ListsKnown'
<1>1. /\ Sorts /\ Asking /\ Saves /\ Keys /\ Calling /\ Wishing /\ DragStays
      /\ UNCHANGED <<server, made, valid, token, endpoint, committed, call>>
  BY DEF ListsKnown, host
<1>2. /\ Saves' /\ Keys' /\ Calling' /\ Wishing' /\ DragStays'
      /\ shown' \in Listings /\ desired' \in Listings /\ wish' \in Listings
      /\ flight' \in Orders \cup {None}
      /\ flight' # None => flight # None /\ flight'.token = flight.token
  BY <1>1, AppliedOrNot
<1>3. /\ lists' \in Seq(Asks) /\ Len(lists') <= MaxLists
      /\ \A j \in DOMAIN lists' : AskIs(lists'[j])
      /\ OnlyOne("load")' /\ OnlyOne("start")'
  BY <1>1, ReceivedAsks
<1>4. Asking'
  <2>1. ASSUME NEW j \in DOMAIN lists', NEW l, l = lists'[j] PROVE AskIs(l)'
    <3>1. AskIs(l)
      BY <1>3, <2>1
    <3>2. LoadIs(l)' /\ VerifyIs(l)'
      BY <1>1, <1>2, <3>1, MadeStays, LoadKept, VerifyKept DEF AskIs
    <3>3. CASE launch' = launch
      BY <1>1, <1>2, <3>1, <3>3, MadeStays, AskKept
    <3>4. CASE l.for # "start"
      BY <3>2, <3>4 DEF AskIs, StartIs
    <3>5. QED
      BY <2>1, <3>3, <3>4
  <2>2. QED
    BY <1>3, <2>1, AskingIs
<1>5. Sorts'
  <2>1. made' \in 0..MaxTerminals /\ made <= made' /\ valid' \in Nat \ {0}
        /\ token' \in 0..valid' /\ endpoint' \in BOOLEAN
    BY <1>1 DEF Sorts
  <2>2. QED
    BY <1>1, <1>2, <1>3, <2>1, SortsKept, MadeStays
<1>6. QED
  BY <1>2, <1>4, <1>5 DEF ListsKnown

\* A launch that waits is a launch.
LEMMA Waits ==
    ASSUME Sorts, launch # None, NEW n \in Nat
    PROVE  /\ Wait(n) \in Launches /\ Wait(n) # None /\ Wait(n).id = launch.id
           /\ Wait(n).stage = "timer"
<1>1. launch \in Launches
  BY DEF Sorts
<1>2. Wait(n) \in Launches /\ Wait(n).id = launch.id /\ Wait(n).stage = "timer"
  BY <1>1 DEF Wait, Launches, Stages
<1>3. QED
  BY <1>2, NoneIsNone

\* A launch that has its terminal may end or wait.
LEMMA LaunchingGoes ==
    ASSUME Launching, launch # None, launch.id # None, call' = call,
           launch' # None => launch'.id = launch.id
    PROVE  Launching'
BY DEF Launching

LEMMA TakeStartStep == ASSUME ListsKnown, NEW i, TakeStart(i) PROVE ListsKnown'
<1>1. /\ Arrived(i, "start") /\ Received(i) /\ launch' = Wait(1)
      /\ UNCHANGED <<host, token, endpoint, committed, call, alarms>>
  BY DEF TakeStart
<1>2. Sorts /\ Asking /\ Launching /\ NoFalseAlarm /\ OnlyOne("start")
  BY DEF ListsKnown, Asking
<1>3. /\ i \in DOMAIN lists /\ lists[i].for = "start" /\ lists[i].answer.items \in Seq(Made)
      /\ launch # None /\ launch.id = lists[i].id /\ lists[i].id \in Made
  BY <1>1, Arrives DEF AskIs, StartIs
<1>4. PICK items : items = lists[i].answer.items
  OBVIOUS
<1>5. \/ Apply(items) /\ items \in Seq(Made)
      \/ UNCHANGED <<shown, desired, flight, wish>>
  BY <1>3, <1>4 DEF TakeStart
<1>6. launch' \in Launches /\ launch' # None /\ launch'.id = launch.id
  BY <1>1, <1>2, <1>3, Waits
<1>7. Launching'
  BY <1>1, <1>2, <1>3, <1>6, NoneIsNone, LaunchingGoes
<1>8. NoFalseAlarm' /\ alarms' \subseteq Made
  BY <1>1, <1>2, AlarmsKept DEF Sorts, host
<1>9. \A j \in DOMAIN lists' : lists'[j].for # "start"
  BY <1>1, <1>2, <1>3, ReceivedAsks
<1>10. QED
  BY <1>1, <1>3, <1>5, <1>6, <1>7, <1>8, <1>9, LaunchMoves

LEMMA VerificationDueStep == ASSUME ListsKnown, VerificationDue PROVE ListsKnown'
<1>1. /\ Sorts /\ Asking /\ Saves /\ Keys /\ Calling /\ Wishing /\ DragStays
      /\ Launching /\ NoFalseAlarm
      /\ UNCHANGED <<server, made, valid, token, shown, endpoint, desired, committed, flight,
                     wish, alarms, call>>
      /\ launch # None /\ launch.stage = "timer"
      /\ launch' = [launch EXCEPT !.stage = "verifying"]
  BY DEF ListsKnown, VerificationDue, host, ordering
<1>2. launch \in Launches
  BY <1>1 DEF Sorts
<1>3. launch.id \in Made
  BY <1>1, <1>2 DEF Launching, Launches
<1>4. launch' \in Launches /\ launch' # None /\ launch'.id = launch.id
  BY <1>1, <1>2, NoneIsNone DEF Launches, Stages
<1>5. PICK x : x = launch.id
  OBVIOUS
<1> DEFINE l == [for |-> "verify", id |-> x, token |-> launch.token, late |-> FALSE,
                 answer |-> None]
<1>6. lists' = Append(lists, l) /\ Len(lists) < MaxLists
  BY <1>5 DEF VerificationDue, Ask, Asked
<1>7. launch.token \in Nat
  BY <1>2 DEF Launches
<1>8. l \in Asks /\ l.for = "verify" /\ l.id = x /\ l.answer = None
  BY <1>3, <1>5, <1>7 DEF Asks, Purposes
<1> HIDE DEF l
<1>9. /\ lists' \in Seq(Asks) /\ Len(lists') <= MaxLists
      /\ OnlyOne("load")' /\ OnlyOne("start")'
      /\ \A j \in DOMAIN lists' : lists'[j] = l \/ (j \in DOMAIN lists /\ lists'[j] = lists[j])
  BY <1>1, <1>6, <1>8, AppendedAsks
<1>10. Asking'
  <2>1. ASSUME NEW j \in DOMAIN lists', NEW m, m = lists'[j] PROVE AskIs(m)'
    <3>1. CASE m = l
      BY <1>1, <1>3, <1>5, <1>8, <3>1, MadeStays DEF AskIs, LoadIs, StartIs, VerifyIs
    <3>2. CASE j \in DOMAIN lists /\ m = lists[j]
      <4>1. AskIs(m)
        BY <1>1, <3>2 DEF Asking
      <4>2. m.for # "start"
        BY <1>1, <4>1 DEF AskIs, StartIs
      <4>3. LoadIs(m)' /\ VerifyIs(m)'
        BY <1>1, <4>1, MadeStays, LoadKept, VerifyKept DEF AskIs
      <4>4. StartIs(m)'
        BY <4>2 DEF StartIs
      <4>5. QED
        BY <4>3, <4>4 DEF AskIs
    <3>3. QED
      BY <1>9, <2>1, <3>1, <3>2
  <2>2. QED
    BY <1>9, <2>1, AskingIs
<1>11. Launching'
  BY <1>1, <1>3, <1>4, NoneIsNone, LaunchingGoes
<1>12. Saves' /\ Keys' /\ Calling' /\ Wishing' /\ DragStays' /\ NoFalseAlarm'
  BY <1>1, SavesKept, KeysKept, CallingKept, WishingKept, DragKept, AlarmsKept
<1>13. Sorts'
  <2>1. made' \in 0..MaxTerminals /\ made <= made' /\ valid' \in Nat \ {0}
        /\ token' \in 0..valid' /\ endpoint' \in BOOLEAN
    BY <1>1 DEF Sorts
  <2>2. QED
    BY <1>1, <1>4, <1>9, <2>1, SortsKept, MadeStays
<1>14. QED
  BY <1>10, <1>11, <1>12, <1>13 DEF ListsKnown

-----------------------------------------------------------------------------
(* A launch is verified when the list was read once after its start: no         *)
(* verification of it is asked for before.                                      *)

Turns == \A i \in DOMAIN lists : lists[i].for = "verify" =>
    /\ launch # None /\ launch.id = lists[i].id => launch.stage # "starting"
    /\ call # None /\ call.kind = "launch" => call.id # lists[i].id

\* Every verification asked for was asked for before.
NoNewTurn == \A j \in DOMAIN lists' : lists'[j].for = "verify" =>
    \E k \in DOMAIN lists : lists[k].for = "verify" /\ lists[k].id = lists'[j].id

\* A snapshot that counts and lacks the terminal is younger than its end.
LEMMA TakeVerificationStep ==
    ASSUME ListsKnown, Turns, NEW i, TakeVerification(i) PROVE ListsKnown'
<1>1. /\ Arrived(i, "verify") /\ Received(i)
      /\ UNCHANGED <<host, token, endpoint, committed, call>>
      /\ \/ launch # None /\ launch.id = lists[i].id /\ Verified(i)
         \/ UNCHANGED <<shown, desired, flight, wish, starting>>
  BY DEF TakeVerification
<1>2. Sorts /\ Asking /\ Launching /\ NoFalseAlarm /\ alarms \subseteq Made
      /\ UNCHANGED <<server, made, call>>
  BY <1>1 DEF ListsKnown, Sorts, host
<1>3. /\ i \in DOMAIN lists /\ lists[i].for = "verify" /\ lists[i].answer.items \in Seq(Made)
      /\ lists[i].answer # None
      /\ VerifyIs(lists[i]) /\ lists[i].id \in Made
  BY <1>1, Arrives DEF AskIs, VerifyIs, Arrived
<1>4. PICK items : items = lists[i].answer.items
  OBVIOUS
<1>5. PICK id : id = lists[i].id
  OBVIOUS
<1>6. CASE UNCHANGED <<shown, desired, flight, wish, starting>>
  <2>1. launch' = launch /\ alarms' = alarms
    BY <1>6 DEF starting
  <2>2. Launching' /\ NoFalseAlarm' /\ launch' \in Launches \cup {None}
    BY <1>2, <2>1, LaunchingKept, AlarmsKept DEF Sorts
  <2>3. QED
    BY <1>1, <1>2, <1>3, <1>6, <2>1, <2>2, LaunchMoves
<1>7. CASE launch # None /\ launch.id = lists[i].id /\ Verified(i)
  <2>1. launch.stage # "starting"
    BY <1>3, <1>7 DEF Turns
  <2>2. \A j \in DOMAIN lists' : lists'[j].for # "start"
    <3>1. ASSUME NEW k \in DOMAIN lists, NEW m, m = lists[k] PROVE m.for # "start"
      BY <1>2, <2>1, <3>1 DEF Asking, AskIs, StartIs
    <3>2. lists \in Seq(Asks)
      BY <1>2 DEF Sorts
    <3>3. ASSUME NEW j \in DOMAIN lists' PROVE lists'[j].for # "start"
      <4>1. lists' \in Seq(Asks) /\ Len(lists') = Len(lists) - 1
        BY <1>1, <1>2, <1>3, ReceivedAt
      <4>2. j \in 1..(Len(lists) - 1)
        BY <4>1
      <4>3. PICK k \in DOMAIN lists : lists'[j] = lists[k] \/ lists'[j] = Overtaken(lists[k])
        BY <1>1, <1>2, <1>3, <4>2, ReceivedAt
      <4>4. PICK m : m = lists[k]
        OBVIOUS
      <4>5. m \in Asks /\ AskIs(m) /\ m.for # "start"
        BY <1>2, <3>1, <3>2, <4>4 DEF Asking
      <4>6. Overtaken(m).for = m.for
        BY <4>5, OvertakenIs
      <4>7. QED
        BY <4>3, <4>4, <4>5, <4>6
    <3>4. QED
      BY <3>3
  <2>3. launch.attempt \in Nat /\ launch.attempt + 1 \in Nat
    BY <1>2, <1>7 DEF Sorts, Launches
  <2>4. \A n \in Nat : Wait(n) \in Launches /\ Wait(n) # None /\ Wait(n).id = launch.id
    BY <1>2, <1>7, Waits
  <2>5. \/ launch' = None \/ launch' = Wait(launch.attempt)
        \/ launch' = Wait(launch.attempt + 1)
    BY <1>7 DEF Verified
  <2>6. launch' \in Launches \cup {None}
        /\ (launch' # None => launch'.id = launch.id)
    <3>1. CASE launch' = Wait(launch.attempt)
      BY <2>3, <2>4, <3>1
    <3>2. CASE launch' = Wait(launch.attempt + 1)
      BY <2>3, <2>4, <3>2
    <3>3. CASE launch' = None
      BY <3>3
    <3>4. QED
      BY <2>5, <3>1, <3>2, <3>3
  <2>7. Launching'
    BY <1>2, <1>3, <1>7, <2>6, NoneIsNone, LaunchingGoes
  <2>8. \/ Apply(items) /\ items \in Seq(Made)
        \/ UNCHANGED <<shown, desired, flight, wish>>
    BY <1>3, <1>4, <1>7 DEF Verified
  <2>9. alarms' = alarms \/ (alarms' = alarms \cup {id} /\ id \notin ToSet(server))
    <3>1. \/ alarms' = alarms
          \/ /\ ~lists[i].answer.failed /\ ~lists[i].late /\ id \notin ToSet(items)
             /\ alarms' = alarms \cup {id}
      BY <1>4, <1>5, <1>7 DEF Verified
    <3>2. QED
      BY <1>3, <1>4, <1>5, <3>1 DEF VerifyIs
  <2>10. alarms' \subseteq Made /\ NoFalseAlarm'
    BY <1>2, <1>3, <1>5, <2>9 DEF NoFalseAlarm
  <2>11. QED
    BY <1>1, <1>3, <2>2, <2>6, <2>7, <2>8, <2>10, LaunchMoves
<1>8. QED
  BY <1>1, <1>6, <1>7

LEMMA TurnsKept ==
    ASSUME Turns, NoNewTurn,
           launch' # None => /\ launch # None /\ launch'.id = launch.id
                             /\ launch'.stage = "starting" => launch.stage = "starting",
           call' # None /\ call'.kind = "launch" =>
               call # None /\ call.kind = "launch" /\ call'.id = call.id
    PROVE  Turns'
<1>1. ASSUME NEW j \in DOMAIN lists', lists'[j].for = "verify"
      PROVE  /\ launch' # None /\ launch'.id = lists'[j].id => launch'.stage # "starting"
             /\ call' # None /\ call'.kind = "launch" => call'.id # lists'[j].id
  <2>1. PICK k \in DOMAIN lists : lists[k].for = "verify" /\ lists[k].id = lists'[j].id
    BY <1>1 DEF NoNewTurn
  <2>2. /\ launch # None /\ launch.id = lists[k].id => launch.stage # "starting"
        /\ call # None /\ call.kind = "launch" => call.id # lists[k].id
    BY <2>1 DEF Turns
  <2>3. QED
    BY <2>1, <2>2
<1>2. QED
  BY <1>1 DEF Turns

\* No step but one asks for a verification.
LEMMA SameLists == lists' = lists => NoNewTurn
BY DEF NoNewTurn

LEMMA ReceivedTurns ==
    ASSUME ListsKnown, NEW i \in DOMAIN lists, Received(i) PROVE NoNewTurn
<1>1. Sorts /\ Asking /\ lists \in Seq(Asks)
  BY DEF ListsKnown, Sorts
<1>2. lists' \in Seq(Asks) /\ Len(lists') = Len(lists) - 1
  BY <1>1, ReceivedAt
<1>3. ASSUME NEW j \in DOMAIN lists', lists'[j].for = "verify"
      PROVE  \E k \in DOMAIN lists : lists[k].for = "verify" /\ lists[k].id = lists'[j].id
  <2>1. j \in 1..(Len(lists) - 1)
    BY <1>2
  <2>2. PICK k \in DOMAIN lists : lists'[j] = lists[k] \/ lists'[j] = Overtaken(lists[k])
    BY <1>1, <2>1, ReceivedAt
  <2>3. PICK m : m = lists[k]
    OBVIOUS
  <2>4. m \in Asks
    BY <1>1, <2>3
  <2>5. Overtaken(m).for = m.for /\ Overtaken(m).id = m.id
    BY <2>4 DEF Overtaken, Asks
  <2>6. QED
    BY <1>3, <2>2, <2>3, <2>5
<1>4. QED
  BY <1>3 DEF NoNewTurn

LEMMA AskedTurns ==
    ASSUME ListsKnown, NEW for, NEW id, NEW key, for # "verify", Ask(for, id, key)
    PROVE  NoNewTurn
<1> DEFINE l == [for |-> for, id |-> id, token |-> key, late |-> FALSE, answer |-> None]
<1>1. lists' = Append(lists, l) /\ l.for # "verify" /\ lists \in Seq(Asks)
  BY DEF ListsKnown, Sorts, Ask, Asked
<1> HIDE DEF l
<1>2. /\ lists'[Len(lists) + 1] = l /\ \A j \in 1..Len(lists) : lists'[j] = lists[j]
      /\ DOMAIN lists = 1..Len(lists) /\ DOMAIN lists' = 1..(Len(lists) + 1)
      /\ Len(lists) \in Nat
  BY <1>1
<1>3. \A j \in DOMAIN lists' : j = Len(lists) + 1 \/ j \in DOMAIN lists
  BY <1>2
<1>4. QED
  BY <1>1, <1>2, <1>3 DEF NoNewTurn

LEMMA AnsweredTurns ==
    ASSUME ListsKnown, NEW i \in DOMAIN lists, NEW a,
           lists' = [lists EXCEPT ![i].answer = a]
    PROVE  NoNewTurn
<1>1. lists \in Seq(Asks) /\ DOMAIN lists' = DOMAIN lists
  BY DEF ListsKnown, Sorts
<1>2. ASSUME NEW j \in DOMAIN lists
      PROVE  lists'[j].for = lists[j].for /\ lists'[j].id = lists[j].id
  <2>1. lists[j] \in Asks
    BY <1>1
  <2>2. lists'[j] = IF j = i THEN [lists[j] EXCEPT !.answer = a] ELSE lists[j]
    BY <1>1
  <2>3. QED
    BY <2>1, <2>2 DEF Asks
<1>3. QED
  BY <1>1, <1>2 DEF NoNewTurn

LEMMA DroppedTurns ==
    ASSUME ListsKnown, lists' = [j \in DOMAIN lists |-> Dropped(lists[j])]
    PROVE  NoNewTurn
<1>1. lists \in Seq(Asks)
  BY DEF ListsKnown, Sorts
<1>2. ASSUME NEW l \in Asks, Dropped(l).for = "verify"
      PROVE  l.for = "verify" /\ Dropped(l).id = l.id
  BY <1>2 DEF Dropped, Asks
<1>3. QED
  BY <1>1, <1>2 DEF NoNewTurn

\* The steps that ask for no verification and start no launch.
LEMMA QuietTurns ==
    ASSUME Turns, NoNewTurn, UNCHANGED <<call, launch>> PROVE Turns'
BY TurnsKept

LEMMA ListsTurns ==
    ASSUME ListsKnown, Turns,
           \/ Poll \/ Answers \/ (\E i \in Lists : ListBreaks(i))
           \/ StreamRefused \/ Authenticate \/ Revoke
           \/ (\E id, target \in Ids : Drag(id, target))
           \/ ServerOrders \/ FlightBreaks \/ OrderSaved \/ OrderRefused \/ OtherChanges
    PROVE  Turns'
<1> USE DEF starting, reading
<1>1. CASE Poll
  <2>1. NoNewTurn
    BY <1>1, AskedTurns DEF Poll
  <2>2. QED
    BY <1>1, <2>1, QuietTurns DEF Poll
<1>2. CASE Answers
  <2>1. PICK i : ServerLists(i)
    BY <1>2 DEF Answers
  <2>2. NoNewTurn
    BY <2>1, AnsweredTurns DEF ServerLists
  <2>3. QED
    BY <2>1, <2>2, QuietTurns DEF ServerLists
<1>3. CASE \E i \in Lists : ListBreaks(i)
  <2>1. PICK i : ListBreaks(i)
    BY <1>3
  <2>2. NoNewTurn
    BY <2>1, AnsweredTurns DEF ListBreaks
  <2>3. QED
    BY <2>1, <2>2, QuietTurns DEF ListBreaks
<1>4. CASE StreamRefused
  <2>1. NoNewTurn
    BY <1>4, DroppedTurns DEF StreamRefused
  <2>2. QED
    BY <1>4, <2>1, QuietTurns DEF StreamRefused
<1>5. CASE Authenticate
  <2>1. NoNewTurn
    BY <1>5, AskedTurns DEF Authenticate
  <2>2. QED
    BY <1>5, <2>1, QuietTurns DEF Authenticate
<1>6. CASE Revoke
  BY <1>6, SameLists, QuietTurns DEF Revoke
<1>7. CASE \E id, target \in Ids : Drag(id, target)
  BY <1>7, SameLists, QuietTurns DEF Drag
<1>8. CASE ServerOrders
  BY <1>8, SameLists, QuietTurns DEF ServerOrders
<1>9. CASE FlightBreaks
  BY <1>9, SameLists, QuietTurns DEF FlightBreaks
<1>10. CASE OrderSaved
  BY <1>10, SameLists, QuietTurns DEF OrderSaved
<1>11. CASE OrderRefused
  BY <1>11, SameLists, QuietTurns DEF OrderRefused
<1>12. CASE OtherChanges
  BY <1>12, SameLists, QuietTurns DEF OtherChanges
<1>13. QED
  BY <1>1, <1>2, <1>3, <1>4, <1>5, <1>6, <1>7, <1>8, <1>9, <1>10, <1>11, <1>12

\* A terminal that is verified was made before the one a launch gets.
LEMMA CallsTurns ==
    ASSUME ListsKnown, Turns,
           \/ Create \/ Start \/ (\E id \in Ids : RemoveTerminal(id))
           \/ ServerCalls \/ CallBreaks \/ Created \/ Removed \/ CallFailed
    PROVE  Turns'
<1> USE DEF starting, reading
<1>1. Sorts /\ Asking /\ Calling /\ Launching
      /\ \A i \in DOMAIN lists : lists[i].for = "verify" => lists[i].id \in Made
  BY DEF ListsKnown, Asking, AskIs, VerifyIs
<1>2. call # None => call \in Errands
  BY <1>1 DEF Sorts
<1>3. CASE Create \/ \E id \in Ids : RemoveTerminal(id)
  <2>1. UNCHANGED <<lists, launch>> /\ call'.kind # "launch"
    BY <1>3 DEF Create, RemoveTerminal, Call
  <2>2. QED
    BY <2>1, SameLists, TurnsKept
<1>4. CASE Start
  <2>1. UNCHANGED lists /\ call'.id = None /\ launch'.id = None
    BY <1>4 DEF Start, Call
  <2>2. QED
    BY <1>1, <2>1, NoneIsNone DEF Turns
<1>5. CASE ServerCalls
  <2>1. UNCHANGED <<lists, launch>> /\ call # None
    BY <1>5 DEF ServerCalls
  <2>2. CASE call' = [call EXCEPT !.answer = "failed"] \/ call.kind = "remove"
    <3>1. CASE call' = [call EXCEPT !.answer = "failed"]
      <4>1. call'.kind = call.kind /\ call'.id = call.id
        BY <1>2, <2>1, <3>1 DEF Errands
      <4>2. QED
        BY <2>1, <4>1, SameLists, TurnsKept
    <3>2. CASE call' = [call EXCEPT !.answer = "done"] /\ call.kind = "remove"
      <4>1. call'.kind = "remove"
        BY <1>2, <2>1, <3>2 DEF Errands
      <4>2. QED
        BY <2>1, <4>1, SameLists, TurnsKept
    <3>3. QED
      BY <1>5, <2>2, <3>1, <3>2 DEF ServerCalls
  <2>3. CASE call' = [call EXCEPT !.answer = "done", !.id = made + 1]
    <3>1. call'.id = made + 1
      BY <1>2, <2>1, <2>3 DEF Errands
    <3>2. made + 1 \notin Made
      BY <1>1 DEF Sorts, Made
    <3>3. QED
      BY <1>1, <2>1, <3>1, <3>2 DEF Turns
  <2>4. QED
    BY <1>5, <2>2, <2>3 DEF ServerCalls
<1>6. CASE CallBreaks
  <2>1. UNCHANGED <<lists, launch>> /\ call # None
        /\ call' = [call EXCEPT !.answer = "failed"]
    BY <1>6 DEF CallBreaks
  <2>2. call'.kind = call.kind /\ call'.id = call.id
    BY <1>2, <2>1 DEF Errands
  <2>3. QED
    BY <2>1, <2>2, SameLists, TurnsKept
<1>7. CASE Created
  <2>1. call # None /\ call' = None
    BY <1>7 DEF Created
  <2>2. CASE call.kind # "launch"
    <3>1. UNCHANGED <<lists, launch>>
      BY <1>7, <2>2 DEF Created
    <3>2. QED
      BY <2>1, <3>1, SameLists, TurnsKept
  <2>3. CASE call.kind = "launch"
    <3>1. Ask("start", call.id, call.token) /\ launch' = [launch EXCEPT !.id = call.id]
      BY <1>7, <2>3 DEF Created
    <3>2. NoNewTurn
      BY <3>1, AskedTurns
    <3>3. launch # None /\ launch \in Launches
      BY <1>1, <2>1, <2>3 DEF Launching, Sorts
    <3>4. launch'.id = call.id
      BY <3>1, <3>3 DEF Launches
    <3>5. ASSUME NEW j \in DOMAIN lists', lists'[j].for = "verify"
          PROVE  lists'[j].id # call.id
      <4>1. PICK k \in DOMAIN lists : lists[k].for = "verify" /\ lists[k].id = lists'[j].id
        BY <3>2, <3>5 DEF NoNewTurn
      <4>2. QED
        BY <2>1, <2>3, <4>1 DEF Turns
    <3>6. QED
      BY <2>1, <3>4, <3>5 DEF Turns
  <2>4. QED
    BY <2>2, <2>3
<1>8. CASE Removed
  <2>1. UNCHANGED <<lists, launch>> /\ call' = None
    BY <1>8 DEF Removed
  <2>2. QED
    BY <2>1, SameLists, TurnsKept
<1>9. CASE CallFailed
  <2>1. UNCHANGED lists /\ call' = None /\ launch' \in {None, launch}
    BY <1>9 DEF CallFailed
  <2>2. QED
    BY <2>1, SameLists, TurnsKept
<1>10. QED
  BY <1>3, <1>4, <1>5, <1>6, <1>7, <1>8, <1>9

LEMMA TakesTurns ==
    ASSUME ListsKnown, Turns, Takes \/ VerificationDue PROVE Turns'
<1> USE DEF starting
<1>1. Sorts /\ Asking /\ Launching
  BY DEF ListsKnown
<1>2. ASSUME NEW i, TakePoll(i) \/ TakeLoad(i) PROVE Turns'
  <2>1. i \in DOMAIN lists /\ Received(i) /\ UNCHANGED <<call, launch>>
    BY <1>2 DEF TakePoll, TakeLoad, Arrived
  <2>2. QED
    BY <2>1, ReceivedTurns, QuietTurns
<1>3. ASSUME NEW i, TakeStart(i) PROVE Turns'
  <2>1. i \in DOMAIN lists /\ Received(i) /\ call' = call /\ launch' = Wait(1)
        /\ Arrived(i, "start")
    BY <1>3 DEF TakeStart, Arrived
  <2>2. launch # None
    BY <2>1, Arrives DEF AskIs, StartIs
  <2>3. launch'.id = launch.id /\ launch'.stage = "timer"
    BY <1>1, <2>1, <2>2, Waits
  <2>4. QED
    BY <2>1, <2>3, <2>2, ReceivedTurns, TurnsKept
<1>4. ASSUME NEW i, TakeVerification(i) PROVE Turns'
  <2>1. i \in DOMAIN lists /\ Received(i) /\ call' = call
    BY <1>4 DEF TakeVerification, Arrived
  <2>2. NoNewTurn
    BY <2>1, ReceivedTurns
  <2>3. CASE launch' = launch
    BY <2>1, <2>2, <2>3, QuietTurns
  <2>4. CASE launch # None /\ Verified(i)
    <3>1. launch' = None \/ launch' = Wait(launch.attempt)
          \/ launch' = Wait(launch.attempt + 1)
      BY <2>4 DEF Verified
    <3>2. launch.attempt \in Nat /\ launch.attempt + 1 \in Nat
      BY <1>1, <2>4 DEF Sorts, Launches
    <3>3. \A n \in Nat : Wait(n).id = launch.id /\ Wait(n).stage = "timer"
      BY <1>1, <2>4, Waits
    <3>4. launch' # None => launch'.id = launch.id /\ launch'.stage = "timer"
      <4>1. CASE launch' = Wait(launch.attempt)
        BY <3>2, <3>3, <4>1
      <4>2. CASE launch' = Wait(launch.attempt + 1)
        BY <3>2, <3>3, <4>2
      <4>3. QED
        BY <3>1, <4>1, <4>2
    <3>5. QED
      BY <2>1, <2>2, <2>4, <3>4, TurnsKept
  <2>5. QED
    BY <1>4, <2>3, <2>4 DEF TakeVerification
<1>5. CASE VerificationDue
  <2>1. /\ launch # None /\ launch.stage = "timer" /\ call' = call
        /\ launch' = [launch EXCEPT !.stage = "verifying"] /\ launch \in Launches
    BY <1>1, <1>5 DEF VerificationDue, Sorts
  <2>2. launch'.stage = "verifying"
    BY <2>1 DEF Launches
  <2>3. ~(call' # None /\ call'.kind = "launch")
    BY <1>1, <2>1 DEF Launching
  <2>4. QED
    BY <2>2, <2>3 DEF Turns
<1>6. QED
  BY <1>2, <1>3, <1>4, <1>5 DEF Takes

-----------------------------------------------------------------------------
(* The invariant, and what follows from it. *)

\* A page that was just opened asks for nothing and shows nothing.
LEMMA ListsStart == ASSUME Init PROVE ListsKnown /\ Turns
<1>1. made \in 0..MaxTerminals /\ made \in Nat
  BY ListsAssumption DEF Init, ListsAssumption
<1>2. server \in Seq(Made)
  <2>1. server = [i \in 1..made |-> i]
    BY DEF Init
  <2>2. \A i \in 1..made : i \in Made
    BY DEF Made
  <2>3. QED
    BY <1>1, <2>1, <2>2, IsASeq
<1>3. lists \in Seq(Asks) /\ Len(lists) = 0 /\ DOMAIN lists = {}
  BY DEF Init
<1>4. endpoint \in BOOLEAN
  BY Zenon DEF Init
<1>5. Sorts
  <2>1. Len(lists) <= MaxLists
    BY <1>3, ListsAssumption DEF ListsAssumption
  <2>2. QED
    BY <1>1, <1>2, <1>3, <1>4, <2>1 DEF Init, Sorts, Listings
<1>6. Asking /\ Turns
  BY <1>3 DEF Asking, OnlyOne, Turns
<1>7. Saves /\ Keys /\ Launching /\ Calling /\ Wishing /\ DragStays /\ NoFalseAlarm
  BY DEF Init, Saves, Keys, Launching, Calling, Wishing, DragStays, NoFalseAlarm
<1>8. QED
  BY <1>5, <1>6, <1>7 DEF ListsKnown

\* Each step keeps it.
LEMMA ListsStep ==
    ASSUME ListsKnown, Turns, [Next]_vars PROVE ListsKnown' /\ Turns'
<1>1. CASE Poll
  BY <1>1, PollStep, ListsTurns
<1>2. CASE Answers
  BY <1>2, ServerListsStep, ListsTurns DEF Answers
<1>3. CASE Takes
  BY <1>3, TakePollStep, TakeLoadStep, TakeStartStep, TakeVerificationStep, TakesTurns
  DEF Takes
<1>4. CASE \E i \in Lists : ListBreaks(i)
  BY <1>4, ListBreaksStep, ListsTurns
<1>5. CASE StreamRefused
  BY <1>5, StreamRefusedStep, ListsTurns
<1>6. CASE Authenticate
  BY <1>6, AuthenticateStep, ListsTurns
<1>7. CASE Revoke
  BY <1>7, RevokeStep, ListsTurns
<1>8. CASE \E id, target \in Ids : Drag(id, target)
  BY <1>8, DragStep, ListsTurns
<1>9. CASE ServerOrders
  BY <1>9, ServerOrdersStep, ListsTurns
<1>10. CASE FlightBreaks
  BY <1>10, FlightBreaksStep, ListsTurns
<1>11. CASE OrderSaved
  BY <1>11, OrderSavedStep, ListsTurns
<1>12. CASE OrderRefused
  BY <1>12, OrderRefusedStep, ListsTurns
<1>13. CASE Create
  BY <1>13, CreateStep, CallsTurns
<1>14. CASE Start
  BY <1>14, StartStep, CallsTurns
<1>15. CASE \E id \in Ids : RemoveTerminal(id)
  BY <1>15, RemoveTerminalStep, CallsTurns
<1>16. CASE ServerCalls
  BY <1>16, ServerCallsStep, CallsTurns
<1>17. CASE CallBreaks
  BY <1>17, CallBreaksStep, CallsTurns
<1>18. CASE Created
  BY <1>18, CreatedStep, CallsTurns
<1>19. CASE Removed
  BY <1>19, RemovedStep, CallsTurns
<1>20. CASE CallFailed
  BY <1>20, CallFailedStep, CallsTurns
<1>21. CASE VerificationDue
  BY <1>21, VerificationDueStep, TakesTurns
<1>22. CASE OtherChanges
  BY <1>22, OtherChangesStep, ListsTurns
<1>23. CASE UNCHANGED vars
  <2>1. /\ Sorts /\ Asking /\ Saves /\ Keys /\ Calling /\ Wishing /\ DragStays
        /\ Launching /\ NoFalseAlarm
        /\ UNCHANGED <<server, made, valid, token, shown, endpoint, desired, committed,
                       flight, wish, lists, call, launch, alarms>>
    BY <1>23 DEF ListsKnown, vars, host, ordering, reading, starting
  <2>2. \A j \in DOMAIN lists : AskIs(lists[j])
    BY <2>1 DEF Asking
  <2>3. lists' \in Seq(Asks) /\ Len(lists') <= MaxLists
        /\ (\A j \in DOMAIN lists' : AskIs(lists'[j]))
        /\ OnlyOne("load")' /\ OnlyOne("start")'
    BY <2>1, <2>2 DEF Sorts, Asking, OnlyOne
  <2>4. QED
    BY <2>1, <2>3, OnlyListsMove, SameLists, QuietTurns DEF host, ordering, starting
<1>24. QED
  BY <1>1, <1>2, <1>3, <1>4, <1>5, <1>6, <1>7, <1>8, <1>9, <1>10, <1>11, <1>12, <1>13,
     <1>14, <1>15, <1>16, <1>17, <1>18, <1>19, <1>20, <1>21, <1>22, <1>23 DEF Next

\* In every state of the page: what each request in flight is about, what the order to be
\* saved is, and what the last drag is owed.
THEOREM ListsAlways == Spec => [](ListsKnown /\ Turns)
<1>1. Init => ListsKnown /\ Turns
  BY ListsStart
<1>2. (ListsKnown /\ Turns) /\ [Next]_vars => (ListsKnown /\ Turns)'
  BY ListsStep
<1>3. QED
  BY <1>1, <1>2, PTL DEF Spec

LEMMA TypesFollow == ASSUME ListsKnown PROVE TypeOK
<1>1. Sorts /\ Saves /\ Launching
  BY DEF ListsKnown
<1>2. /\ server \in Seq(Ids) /\ flight \in Order \cup {None} /\ call \in Errand \cup {None}
      /\ launch \in Launch \cup {None}
  BY <1>1, NoneIsNone DEF Sorts
<1>3. \A ids \in {shown, desired, committed, wish} \ {None} : ids \in Seq(Ids)
  BY <1>1, NoneIsNone DEF Sorts, Listings
<1>4. launch # None => (launch.id = None <=> call # None /\ call.kind = "launch")
  BY <1>1 DEF Launching
<1>5. QED
  BY <1>1, <1>2, <1>3, <1>4 DEF TypeOK, Sorts, Saves, Made

\* A drag stays on screen until it is saved or refused, and the last of several drags is
\* the one the server keeps (SidebarOrderSync, applySessionSnapshot).
THEOREM ListsSafe == Spec => []ListsInv
<1>1. ListsKnown => ListsInv
  BY TypesFollow DEF ListsInv, ListsKnown, LastDragSaved, Wishing
<1>2. QED
  BY <1>1, ListsAlways, PTL

\* A user is told that an agent exited at once only when its terminal is gone
\* (verifyLaunch).
THEOREM AlarmsAreTrue == Spec => []NoFalseAlarm
<1>1. ListsKnown => NoFalseAlarm
  BY DEF ListsKnown
<1>2. QED
  BY <1>1, ListsAlways, PTL

=============================================================================
