SPECIFICATION FairSpec
CONSTANTS
    Ticket = {1, 2}
    Run = {1, 2}
    Failing = {"park", "append", "complete"}
    MaxFaults = 1
INVARIANTS
    TicketsInv
PROPERTIES
    LeftoversNeedConsent
    TerminalTicketIsFinal
    HeldTicketSettles
CHECK_DEADLOCK FALSE
