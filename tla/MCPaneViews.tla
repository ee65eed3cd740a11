----------------------------- MODULE MCPaneViews -----------------------------
EXTENDS PaneViews

Say == [kind |-> "message", call |-> 0]
Injected == [kind |-> "injected", call |-> 0]
Tool(id) == [kind |-> "tool", call |-> id]
Result(id) == [kind |-> "tool_result", call |-> id]

\* Groups that pages cut, and results that come in another order.
MCRecords == [t \in Transcripts |->
    IF t = 1 THEN <<Say, Tool(1), Tool(2), Result(2), Result(1)>>
    ELSE <<Injected, Tool(0), Result(0), Say>>]

\* Folder 2 is inside folder 1.
MCParent == [d \in Folders |-> IF d = 1 THEN None ELSE 1]
=============================================================================
