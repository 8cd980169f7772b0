CONSTANTS
    Calls <- MCCalls
    HandlerText <- MCHandlerText
    MaxHandlers = 2
SPECIFICATION FairSpec
INVARIANTS NoByteLost PrintsAsC
PROPERTY AllPrinted
CHECK_DEADLOCK FALSE
