----------------------------- MODULE TicketOrder -----------------------------
(***************************************************************************)
(* What the manager's change delivery promises: numbers are issued one by  *)
(* one and served one by one, in the order of issue, each exactly once,    *)
(* and every issued number is served.                                      *)
(***************************************************************************)
EXTENDS Naturals

VARIABLES
    issued,  \* numbers handed out so far
    served   \* numbers served so far, always the oldest ones

ticketVars == <<issued, served>>

TicketInit == issued = 0 /\ served = 0

Issue == issued' = issued + 1 /\ UNCHANGED served

Serve ==
    /\ served < issued
    /\ served' = served + 1
    /\ UNCHANGED issued

TicketNext == Issue \/ Serve

TicketSpec == TicketInit /\ [][TicketNext]_ticketVars /\ WF_ticketVars(Serve)

=============================================================================
