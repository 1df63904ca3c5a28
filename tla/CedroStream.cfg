\* One symbol of text, a stream of four symbols, a timeout of two ticks.
CONSTANTS
    Order <- InOrder
    Timeout = 2
    MaxText = 1
    MaxData = 4
SPECIFICATION Spec
INVARIANTS TypeOK NoPromptLost HandshakeBounded FramesExact
CHECK_DEADLOCK FALSE
