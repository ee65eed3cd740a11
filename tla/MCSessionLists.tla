--------------------------- MODULE MCSessionLists ---------------------------
\* Three terminals, so that a drag is not only a swap.
EXTENDS SessionLists
=============================================================================
