\* What the reader gets of the stream behind the last prompt.
CONSTANTS
    Order <- InOrder
    Timeout = 2
    MaxText = 1
    MaxData = 4
SPECIFICATION Spec
INVARIANTS StreamPositioned
CHECK_DEADLOCK FALSE
