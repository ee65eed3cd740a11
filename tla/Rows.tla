-------------------------------- MODULE Rows --------------------------------
(* Rows of items, as a list of the page holds them.                        *)
EXTENDS Naturals, Sequences, SequencesExt

Keep(row, S) ==
    LET kept[i \in 0..Len(row)] ==
            IF i = 0 THEN <<>>
            ELSE IF row[i] \in S THEN Append(kept[i - 1], row[i]) ELSE kept[i - 1]
    IN  kept[Len(row)]
Drop(row, S) == Keep(row, ToSet(row) \ S)

\* Where an item is in a row.
Place(row, x) == CHOOSE i \in DOMAIN row :
    row[i] = x /\ \A j \in 1..(i - 1) : row[j] # x

\* Two rows have what both name in the same order.
Agree(a, b) == \A x, y \in ToSet(a) \cap ToSet(b) :
    Place(a, x) < Place(a, y) <=> Place(b, x) < Place(b, y)

\* An item is taken out and put in again where another was: two splices.
Moved(row, from, to) == InsertAt(RemoveAt(row, from), to, row[from])

\* The items of an order that a row has, each once.
Named(row, order) ==
    LET named[i \in 0..Len(order)] ==
            IF i = 0 THEN <<>>
            ELSE LET before == named[i - 1] IN
                 IF order[i] \in ToSet(row) \ ToSet(before)
                 THEN Append(before, order[i]) ELSE before
    IN  named[Len(order)]

\* reorderItemsByIDs of web/src/App.tsx: what the order does not name comes last.
InOrder(row, order) == Named(row, order) \o Drop(row, ToSet(order))
=============================================================================
