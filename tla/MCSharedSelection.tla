------------------------- MODULE MCSharedSelection -------------------------
(* Three terminals and one that may be created by the browser; the           *)
(* sidebar shows them in another order than that of their creation.          *)
EXTENDS SharedSelection

One(t) == [ids |-> {t}, focus |-> t]
MCSidebarOrder == <<2, 4, 3, 1>>
MCUserChoices == {One(1), One(3), [ids |-> {1, 2}, focus |-> 2]}
MCOtherChoices == {One(2)}
=============================================================================
